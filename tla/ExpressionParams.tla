--------------------------- MODULE ExpressionParams ---------------------------
(***************************************************************************)
(* One params object, and the builders that write expressions into it      *)
(* (src/expressions/, and those of the Adapter: applyFilter and the        *)
(* underscored ones).  A builder refers to attributes and values by        *)
(* aliases; an alias is a prefix of the builder's and a number, and the    *)
(* number is how many aliases the object holds at that moment.  The        *)
(* builders are exported and may be combined in any order; before a        *)
(* request is sent cleanParams drops the aliases that no expression uses.  *)
(***************************************************************************)
EXTENDS Integers, Sequences, FiniteSets, Functions

CONSTANTS
    Attrs,      \* attribute names (segments of a path)
    Values,
    Paths,      \* paths that callers name
    Pk, Version, CreatedAt,     \* those the Adapter adds conditions on
    MaxCalls    \* bound on builder calls

ASSUME ParamsAssumption ==
    /\ {Pk, Version, CreatedAt} \subseteq Attrs
    /\ Paths \subseteq Seq(Attrs) \ {<<>>}
    /\ MaxCalls \in Nat

VARIABLES
    names,      \* ExpressionAttributeNames
    values,     \* ExpressionAttributeValues
    refs,       \* where the expressions use an alias, and what they mean by it
    cleaned,    \* cleanParams was the last call
    calls

vars == <<names, values, refs, cleaned, calls>>

NamePrefixes ==
    {"#pj", "#upk", "#cd", "#kc", "#sr", "#fbe", "#ff",
     "#vfpk", "#vf", "#vfinc", "#dn", "#asOfn", "#k"}

ValuePrefixes ==
    {":upv", ":cdv", ":kcv", ":flt", ":fbe", ":ffv", ":vfv", ":vfone", ":dv", ":asOfv"}

Expressions == {"key", "condition", "update", "projection", "filter"}

NameAliases == NamePrefixes \X Nat
ValueAliases == ValuePrefixes \X Nat

TypeOK ==
    /\ DOMAIN names \subseteq NameAliases /\ \A a \in DOMAIN names : names[a] \in Attrs
    /\ DOMAIN values \subseteq ValueAliases /\ \A a \in DOMAIN values : values[a] \in Values
    /\ refs \subseteq [in : Expressions, alias : NameAliases \cup ValueAliases,
                       means : Attrs \cup Values]
    /\ cleaned \in BOOLEAN
    /\ calls \in 0..MaxCalls

Init ==
    /\ names = <<>>
    /\ values = <<>>
    /\ refs = {}
    /\ cleaned = FALSE
    /\ calls = 0

-----------------------------------------------------------------------------
\* Allocation.

Count(map) == Cardinality(DOMAIN map)

\* The aliases for `wanted`, a sequence of pairs of a prefix and a meaning.
Aliases(from, wanted) == {<<wanted[i][1], from + i - 1>> : i \in DOMAIN wanted}

\* A map with these aliases assigned.
Bind(map, from, wanted) ==
    [a \in DOMAIN map \cup Aliases(from, wanted) |->
        IF a \in Aliases(from, wanted) THEN wanted[a[2] - from + 1][2] ELSE map[a]]

\* The uses an expression makes of them.
Uses(expr, from, wanted) ==
    {[in |-> expr, alias |-> <<wanted[i][1], from + i - 1>>, means |-> wanted[i][2]] :
        i \in DOMAIN wanted}

\* Mutation: a builder starts to count at 0.
FromZero(map) == 0

From(map) == Count(map)

\* A builder adds clauses to an expression; `valuesFrom` is its first number
\* for values.
Add(expr, ns, valuesFrom, vs) ==
    /\ names' = Bind(names, From(names), ns)
    /\ values' = Bind(values, valuesFrom, vs)
    /\ refs' = refs \cup Uses(expr, From(names), ns) \cup Uses(expr, valuesFrom, vs)

\* What a builder writes, with a prefix for the names and one for the values.
Tagged(prefix, s) == [i \in DOMAIN s |-> <<prefix, s[i]>>]

Build(expr, np, attrs, vp, vals) ==
    Add(expr, Tagged(np, attrs), From(values), Tagged(vp, vals))

Call ==
    /\ ~cleaned
    /\ calls < MaxCalls
    /\ calls' = calls + 1
    /\ UNCHANGED cleaned

\* The inputs: the segments of a path, and up to two values.
Lists == {<<>>} \cup {<<v>> : v \in Values} \cup (Values \X Values)
Distinct == {p \in Paths : \A i, j \in DOMAIN p : p[i] = p[j] => i = j}

-----------------------------------------------------------------------------
\* The builders of src/expressions.

\* buildCondition: every segment gets an alias of its own.
BuildCondition(attrs, vals) == Call /\ Build("condition", "#cd", attrs, ":cdv", vals)

\* buildKeyCondition: the sort key, and perhaps the partition key.
BuildKeyCondition(attrs, vals) ==
    /\ Call
    /\ Len(attrs) = Len(vals)
    /\ Build("key", "#kc", attrs, ":kcv", vals)

\* buildFilterByExample
BuildFilterByExample(attrs, vals) ==
    /\ Call
    /\ Len(attrs) = Len(vals)
    /\ Build("filter", "#fbe", attrs, ":fbe", vals)

\* buildUpdate assigns UpdateExpression: what stood there is gone, but the
\* aliases it used are not.
WithoutUpdate == {r \in refs : r.in # "update"}

\* A segment that occurs twice has one alias.
BuildUpdate(attrs, vals) ==
    /\ Call
    /\ names' = Bind(names, From(names), Tagged("#upk", attrs))
    /\ values' = Bind(values, From(values), Tagged(":upv", vals))
    /\ refs' = WithoutUpdate \cup Uses("update", From(names), Tagged("#upk", attrs))
                 \cup Uses("update", From(values), Tagged(":upv", vals))

SearchFrom == From(names)

\* buildSearch: one value, numbered by the names, for all mirrors.
BuildSearch(mirrors, v) == Call /\ Add("filter", Tagged("#sr", mirrors), SearchFrom, <<<<":flt", v>>>>)

\* The alias that reversedNames holds for an attribute: the last one assigned.
Latest(part) ==
    {a \in DOMAIN names : names[a] = part /\ \A b \in DOMAIN names : names[b] = part => b[2] <= a[2]}

\* addProjection: an attribute that has an alias, of whatever builder, keeps it.
\* In which order the others are numbered is left open.
AddProjection(fields) ==
    LET old == {f \in Range(fields) : Latest(f) # {}}
        missing == Range(fields) \ old
    IN /\ Call
       /\ \E reuse \in [old -> DOMAIN names], new \in [1..Cardinality(missing) -> missing] :
            /\ \A f \in old : reuse[f] \in Latest(f)
            /\ Range(new) = missing
            /\ names' = Bind(names, From(names), Tagged("#pj", new))
            /\ refs' = refs \cup Uses("projection", From(names), Tagged("#pj", new))
                        \cup {[in |-> "projection", alias |-> reuse[f], means |-> f] : f \in old}
       /\ UNCHANGED values

-----------------------------------------------------------------------------
\* The builders of the Adapter.

\* applyFilter: clauses for the key condition ...
FilterByKey(attrs, vals) == Call /\ Build("key", "#ff", attrs, ":ffv", vals)

\* ... and for the filter.
Filter(attrs, vals) == Call /\ Build("filter", "#ff", attrs, ":ffv", vals)

\* _addVersionCondition without an observed version ...
FirstVersionCondition == Call /\ Add("condition", <<<<"#vfpk", Pk>>>>, From(values), <<>>)

\* ... and with one.
VersionCondition(v) ==
    /\ Call
    /\ Add("condition", <<<<"#vfpk", Pk>>, <<"#vf", Version>>>>, From(values), <<<<":vfv", v>>>>)

\* makeDelete with expectedVersion
DeleteVersionCondition(v) == Call /\ Build("condition", "#vf", <<Version>>, ":vfv", <<v>>)

\* _addVersionIncrement
VersionIncrement(one) == Call /\ Build("update", "#vfinc", <<Version>>, ":vfone", <<one>>)

\* _checkExistence
CheckExistence == Call /\ Build("condition", "#k", <<Pk>>, ":cdv", <<>>)

\* _hideDescriptor
HideDescriptor(key) == Call /\ Build("filter", "#dn", <<Pk>>, ":dv", <<key>>)

\* _applyAsOf
ApplyAsOf(time) == Call /\ Build("filter", "#asOfn", <<CreatedAt>>, ":asOfv", <<time>>)

-----------------------------------------------------------------------------
\* cleanParams.

UsedBy(uses) == {r.alias : r \in uses}

\* Mutation: cleaning looks at keys, not at their use.
KeptAll(map) == DOMAIN map

Kept(map) == DOMAIN map \cap UsedBy(refs)

\* cleanParams, the last step before a request.
CleanParams ==
    /\ ~cleaned
    /\ names' = Restrict(names, Kept(names))
    /\ values' = Restrict(values, Kept(values))
    /\ cleaned' = TRUE
    /\ UNCHANGED <<refs, calls>>

\* A COUNT request, or the first hop of an indirect list: the projection is
\* deleted, its aliases stay.
DropProjection ==
    /\ ~cleaned
    /\ \E r \in refs : r.in = "projection"
    /\ refs' = {r \in refs : r.in # "projection"}
    /\ UNCHANGED <<names, values, cleaned, calls>>

Expression ==
    \/ \E attrs \in Paths, vals \in Lists :
        \/ BuildCondition(attrs, vals)
        \/ BuildKeyCondition(attrs, vals)
        \/ BuildFilterByExample(attrs, vals)
        \/ FilterByKey(attrs, vals)
        \/ Filter(attrs, vals)
    \/ \E attrs \in Distinct, vals \in Lists : BuildUpdate(attrs, vals)
    \/ \E mirrors \in Distinct, v \in Values : BuildSearch(mirrors, v)
    \/ \E fields \in Distinct : AddProjection(fields)

Adapter ==
    \/ FirstVersionCondition
    \/ CheckExistence
    \/ \E v \in Values :
        \/ VersionCondition(v)
        \/ DeleteVersionCondition(v)
        \/ VersionIncrement(v)
        \/ HideDescriptor(v)
        \/ ApplyAsOf(v)

Next == Expression \/ Adapter \/ DropProjection \/ CleanParams

Spec == Init /\ [][Next]_vars

-----------------------------------------------------------------------------
\* Every alias in an expression stands for what the builder that wrote it meant:
\* no builder takes an alias that is in use, whatever was built before and in
\* whatever order, and cleaning removes none that is needed.
Meant ==
    \A r \in refs :
        \/ r.alias \in DOMAIN names /\ names[r.alias] = r.means
        \/ r.alias \in DOMAIN values /\ values[r.alias] = r.means

\* DynamoDB rejects a request with an alias that no expression uses, and one
\* with an alias that is not defined: a cleaned request has neither, also when
\* an update was overwritten or a projection deleted.
Accepted == cleaned => DOMAIN names \cup DOMAIN values = UsedBy(refs)
=============================================================================
