------------------------ MODULE ExpressionParamsProofs ------------------------
(***************************************************************************)
(* Proofs about ExpressionParams: builders in any order and number, with   *)
(* paths of any length.                                                    *)
(***************************************************************************)
EXTENDS ExpressionParams, FiniteSetTheorems, TLAPS

\* Why no alias is taken twice: a number in use is below the count it was drawn
\* from, and the counts only grow until the params are cleaned.
Drawn(a) == IF a[1] = ":flt" THEN Count(names) ELSE Count(values)

Numbered ==
    ~cleaned => /\ \A a \in DOMAIN names : a[2] < Count(names)
                /\ \A a \in DOMAIN values : a[2] < Drawn(a)

Finite == IsFiniteSet(DOMAIN names) /\ IsFiniteSet(DOMAIN values)

IInv == TypeOK /\ Finite /\ Numbered /\ Meant /\ Accepted

-----------------------------------------------------------------------------
\* New aliases are as many as what they stand for, each has its place in the
\* sequence, and its number says which.
LEMMA AliasFacts ==
    ASSUME NEW P, NEW M, NEW from \in Nat, NEW wanted \in Seq(P \X M)
    PROVE  /\ IsFiniteSet(Aliases(from, wanted))
           /\ Cardinality(Aliases(from, wanted)) = Len(wanted)
           /\ \A i \in DOMAIN wanted :
                /\ <<wanted[i][1], from + i - 1>> \in Aliases(from, wanted)
                /\ wanted[i][1] \in P /\ wanted[i][2] \in M
           /\ \A a \in Aliases(from, wanted) :
                /\ a \in P \X Nat
                /\ from <= a[2] /\ a[2] < from + Len(wanted)
                /\ a[2] - from + 1 \in DOMAIN wanted
                /\ a[1] = wanted[a[2] - from + 1][1]
  <1> DEFINE A == Aliases(from, wanted)
             alias[i \in 1..Len(wanted)] == <<wanted[i][1], from + i - 1>>
  <1>0. Len(wanted) \in Nat /\ DOMAIN wanted = 1..Len(wanted)
    OBVIOUS
  <1>1. \A i \in DOMAIN wanted : wanted[i] \in P \X M
    BY <1>0
  <1>2. \A i \in DOMAIN wanted : wanted[i][1] \in P /\ wanted[i][2] \in M
    BY <1>1
  <1>3. A = {alias[i] : i \in 1..Len(wanted)}
    BY <1>0 DEF Aliases
  <1>4. alias \in Bijection(1..Len(wanted), A)
    <2>1. \A i, j \in 1..Len(wanted) : alias[i] = alias[j] => i = j
      BY <1>0
    <2>2. alias \in [1..Len(wanted) -> A]
      BY <1>3
    <2> QED
      BY <2>1, <2>2, <1>3 DEF Bijection, Injection, Surjection, IsInjective
  <1>5. IsFiniteSet(1..Len(wanted)) /\ Cardinality(1..Len(wanted)) = Len(wanted)
    BY <1>0, FS_Interval
  <1>6. IsFiniteSet(A) /\ Cardinality(A) = Len(wanted)
    BY <1>4, <1>5, FS_Bijection DEF ExistsBijection
  <1>7. ASSUME NEW a \in A
        PROVE  /\ a \in P \X Nat
               /\ from <= a[2] /\ a[2] < from + Len(wanted)
               /\ a[2] - from + 1 \in DOMAIN wanted
               /\ a[1] = wanted[a[2] - from + 1][1]
    <2>1. PICK i \in 1..Len(wanted) : a = <<wanted[i][1], from + i - 1>>
      BY <1>3
    <2>2. a[1] = wanted[i][1] /\ a[2] = from + i - 1 /\ a[2] - from + 1 = i
      BY <2>1, <1>0
    <2> QED
      BY <2>1, <2>2, <1>0, <1>2
  <1> QED
    BY <1>0, <1>2, <1>6, <1>7 DEF Aliases

\* Assigning fresh aliases leaves the others as they are, gives each its meaning,
\* and counts.
LEMMA BindFacts ==
    ASSUME NEW map, IsFiniteSet(DOMAIN map), NEW P, NEW M, NEW from \in Nat,
           NEW wanted \in Seq(P \X M),
           DOMAIN map \cap Aliases(from, wanted) = {}
    PROVE  /\ DOMAIN Bind(map, from, wanted) = DOMAIN map \cup Aliases(from, wanted)
           /\ IsFiniteSet(DOMAIN Bind(map, from, wanted))
           /\ Count(Bind(map, from, wanted)) = Count(map) + Len(wanted)
           /\ \A a \in DOMAIN map : Bind(map, from, wanted)[a] = map[a]
           /\ \A a \in Aliases(from, wanted) : Bind(map, from, wanted)[a] \in M
  <1> DEFINE A == Aliases(from, wanted)
             bound == Bind(map, from, wanted)
  <1>1. DOMAIN bound = DOMAIN map \cup A
    BY DEF Bind
  <1>2. IsFiniteSet(A) /\ Cardinality(A) = Len(wanted)
    BY AliasFacts
  <1>3. IsFiniteSet(DOMAIN bound) /\ Count(bound) = Count(map) + Len(wanted)
    <2>1. Cardinality(DOMAIN map) \in Nat /\ Cardinality(A) \in Nat
      BY <1>2, FS_CardinalityType
    <2>2. Cardinality(DOMAIN map \cap A) = 0
      BY FS_EmptySet
    <2>3. /\ IsFiniteSet(DOMAIN map \cup A)
          /\ Cardinality(DOMAIN map \cup A)
               = Cardinality(DOMAIN map) + Cardinality(A) - Cardinality(DOMAIN map \cap A)
      BY <1>2, FS_Union
    <2> HIDE DEF A, bound
    <2> QED
      BY <1>1, <1>2, <2>1, <2>2, <2>3 DEF Count
  <1>4. \A a \in DOMAIN map : bound[a] = map[a]
    BY DEF Bind
  <1>5. \A a \in A : bound[a] = wanted[a[2] - from + 1][2]
    BY DEF Bind
  <1>6. ASSUME NEW a \in A
        PROVE  bound[a] \in M
    <2>1. a[2] - from + 1 \in DOMAIN wanted
      BY AliasFacts
    <2>2. \A i \in DOMAIN wanted : wanted[i][2] \in M
      BY AliasFacts
    <2> QED
      BY <1>5, <2>1, <2>2
  <1> QED
    BY <1>1, <1>3, <1>4, <1>6

-----------------------------------------------------------------------------
LEMMA CountType ==
    ASSUME Finite
    PROVE  Count(names) \in Nat /\ Count(values) \in Nat
  BY FS_CardinalityType DEF Finite, Count

\* What an alias is that is assigned already.
Assigned(r) ==
    \/ r.alias \in DOMAIN names /\ names[r.alias] = r.means
    \/ r.alias \in DOMAIN values /\ values[r.alias] = r.means

RefType == [in : Expressions, alias : NameAliases \cup ValueAliases, means : Attrs \cup Values]

\* Numbers for the values of a search are drawn from the names, all others from
\* the values.
Drawable(from, ns, vs) ==
    \/ from = Count(values) /\ \A i \in DOMAIN vs : vs[i][1] # ":flt"
    \/ from = Count(names) /\ Len(vs) <= Len(ns) /\ \A i \in DOMAIN vs : vs[i][1] = ":flt"

\* The step of every builder: it draws aliases, and its expressions use these and
\* assigned ones.
LEMMA BuilderStep ==
    ASSUME IInv, Call, NEW expr \in Expressions, NEW from,
           NEW ns \in Seq(NamePrefixes \X Attrs), NEW vs \in Seq(ValuePrefixes \X Values),
           Drawable(from, ns, vs),
           names' = Bind(names, Count(names), ns),
           DOMAIN values' = DOMAIN Bind(values, from, vs),
           \A a \in DOMAIN values' : values'[a] = Bind(values, from, vs)[a],
           \A r \in refs' :
              \/ r \in Uses(expr, Count(names), ns) \cup Uses(expr, from, vs)
              \/ r \in RefType /\ Assigned(r)
    PROVE  IInv'
  <1>1. Count(names) \in Nat /\ Count(values) \in Nat /\ from \in Nat
    BY CountType DEF IInv, Drawable
  <1> DEFINE N == Aliases(Count(names), ns)
             V == Aliases(from, vs)
  <1>2. /\ \A a \in N : a \in NameAliases /\ Count(names) <= a[2] /\ a[2] < Count(names) + Len(ns)
        /\ \A a \in V : a \in ValueAliases /\ from <= a[2] /\ a[2] < from + Len(vs)
    <2>1. \A a \in N : a \in NamePrefixes \X Nat /\ Count(names) <= a[2] /\ a[2] < Count(names) + Len(ns)
      BY <1>1, AliasFacts
    <2>2. \A a \in V : a \in ValuePrefixes \X Nat /\ from <= a[2] /\ a[2] < from + Len(vs)
      BY <1>1, AliasFacts
    <2> QED
      BY <2>1, <2>2 DEF NameAliases, ValueAliases
  <1>3. \/ from = Count(values) /\ \A a \in V : a[1] # ":flt"
        \/ from = Count(names) /\ Len(vs) <= Len(ns) /\ \A a \in V : a[1] = ":flt"
    <2>1. \A a \in V : \E i \in DOMAIN vs : a[1] = vs[i][1]
      BY DEF Aliases
    <2> QED
      BY <2>1 DEF Drawable
  <1>4. ~cleaned /\ ~cleaned' /\ cleaned' \in BOOLEAN /\ calls' \in 0..MaxCalls
    BY ParamsAssumption DEF ParamsAssumption, Call, IInv, TypeOK
  <1>5. DOMAIN names \cap N = {}
    BY <1>1, <1>2, <1>4 DEF IInv, Numbered, TypeOK, NameAliases
  <1>6. DOMAIN values \cap V = {}
    BY <1>1, <1>2, <1>3, <1>4 DEF IInv, Numbered, Drawn, TypeOK, ValueAliases
  <1>7. /\ DOMAIN names' = DOMAIN names \cup N
        /\ IsFiniteSet(DOMAIN names') /\ Count(names') = Count(names) + Len(ns)
        /\ \A a \in DOMAIN names : names'[a] = names[a]
        /\ \A a \in N : names'[a] \in Attrs
    <2>1. IsFiniteSet(DOMAIN names) /\ Count(names) \in Nat
      BY <1>1 DEF IInv, Finite
    <2>2. /\ DOMAIN Bind(names, Count(names), ns) = DOMAIN names \cup N
          /\ IsFiniteSet(DOMAIN Bind(names, Count(names), ns))
          /\ Count(Bind(names, Count(names), ns)) = Count(names) + Len(ns)
          /\ \A a \in DOMAIN names : Bind(names, Count(names), ns)[a] = names[a]
          /\ \A a \in N : Bind(names, Count(names), ns)[a] \in Attrs
      BY <1>1, <2>1, <1>5, BindFacts
    <2> QED
      BY <2>2 DEF Count
  <1>8. /\ DOMAIN values' = DOMAIN values \cup V
        /\ IsFiniteSet(DOMAIN values') /\ Count(values') = Count(values) + Len(vs)
        /\ \A a \in DOMAIN values : values'[a] = values[a]
        /\ \A a \in V : values'[a] \in Values
    <2>1. IsFiniteSet(DOMAIN values) /\ Count(values) \in Nat
      BY <1>1 DEF IInv, Finite
    <2>2. /\ DOMAIN Bind(values, from, vs) = DOMAIN values \cup V
          /\ IsFiniteSet(DOMAIN Bind(values, from, vs))
          /\ Count(Bind(values, from, vs)) = Count(values) + Len(vs)
          /\ \A a \in DOMAIN values : Bind(values, from, vs)[a] = values[a]
          /\ \A a \in V : Bind(values, from, vs)[a] \in Values
      BY <1>1, <2>1, <1>6, BindFacts
    <2> QED
      BY <2>2 DEF Count
  <1>9. ASSUME NEW r \in refs'
        PROVE  r \in RefType /\ Assigned(r)'
    <2>1. CASE r \in Uses(expr, Count(names), ns)
      <3>1. PICK i \in DOMAIN ns :
              r = [in |-> expr, alias |-> <<ns[i][1], Count(names) + i - 1>>, means |-> ns[i][2]]
        BY <2>1 DEF Uses
      <3>2. DOMAIN ns = 1..Len(ns) /\ Len(ns) \in Nat /\ ns[i] \in NamePrefixes \X Attrs
        OBVIOUS
      <3>3. r.alias \in DOMAIN names' /\ names'[r.alias] = r.means
        <4>1. <<ns[i][1], Count(names) + i - 1>> \in Aliases(Count(names), ns)
          BY DEF Aliases
        <4>2. (Count(names) + i - 1) - Count(names) + 1 = i
          BY <1>1, <3>2
        <4>3. r.alias = <<ns[i][1], Count(names) + i - 1>> /\ r.means = ns[i][2]
          BY <3>1
        <4> QED
          BY <4>1, <4>2, <4>3 DEF Bind
      <3>4. r.alias \in NameAliases
        BY <3>1, <3>2, <1>1 DEF NameAliases
      <3> QED
        BY <3>1, <3>2, <3>3, <3>4 DEF RefType, Assigned
    <2>2. CASE r \in Uses(expr, from, vs)
      <3>1. PICK i \in DOMAIN vs :
              r = [in |-> expr, alias |-> <<vs[i][1], from + i - 1>>, means |-> vs[i][2]]
        BY <2>2 DEF Uses
      <3>2. DOMAIN vs = 1..Len(vs) /\ Len(vs) \in Nat /\ vs[i] \in ValuePrefixes \X Values
        OBVIOUS
      <3>3. r.alias \in DOMAIN values' /\ values'[r.alias] = r.means
        <4>1. <<vs[i][1], from + i - 1>> \in Aliases(from, vs)
          BY DEF Aliases
        <4>2. (from + i - 1) - from + 1 = i
          BY <1>1, <3>2
        <4>3. r.alias = <<vs[i][1], from + i - 1>> /\ r.means = vs[i][2]
          BY <3>1
        <4> QED
          BY <4>1, <4>2, <4>3 DEF Bind
      <3>4. r.alias \in ValueAliases
        BY <3>1, <3>2, <1>1 DEF ValueAliases
      <3> QED
        BY <3>1, <3>2, <3>3, <3>4 DEF RefType, Assigned
    <2>3. CASE r \in RefType /\ Assigned(r)
      BY <2>3, <1>7, <1>8 DEF Assigned
    <2> QED
      BY <2>1, <2>2, <2>3
  <1>10. TypeOK'
    <2>1. refs' \subseteq RefType
      BY <1>9
    <2>2. /\ DOMAIN names' \subseteq NameAliases /\ \A a \in DOMAIN names' : names'[a] \in Attrs
          /\ DOMAIN values' \subseteq ValueAliases /\ \A a \in DOMAIN values' : values'[a] \in Values
      BY <1>2, <1>7, <1>8 DEF IInv, TypeOK
    <2> QED
      BY <2>1, <2>2, <1>4 DEF TypeOK, RefType
  <1>11. Numbered'
    <2>0. Len(ns) \in Nat /\ Len(vs) \in Nat
      OBVIOUS
    <2>1. ASSUME NEW a \in DOMAIN names'
          PROVE  a[2] < Count(names')
      <3>1. CASE a \in DOMAIN names
        <4>1. a[2] < Count(names) /\ a[2] \in Nat
          BY <3>1, <1>4 DEF IInv, Numbered, TypeOK, NameAliases
        <4> QED
          BY <4>1, <2>0, <1>1, <1>7
      <3>2. CASE a \in N
        BY <3>2, <1>2, <1>7
      <3> QED
        BY <3>1, <3>2, <1>7
    <2>2. ASSUME NEW a \in DOMAIN values'
          PROVE  a[2] < Drawn(a)'
      <3>1. CASE a \in DOMAIN values
        <4>1. a[2] < Drawn(a) /\ a[2] \in Nat
          BY <3>1, <1>4 DEF IInv, Numbered, TypeOK, ValueAliases
        <4> QED
          BY <4>1, <2>0, <1>1, <1>7, <1>8 DEF Drawn
      <3>2. CASE a \in V
        <4>1. a[2] \in Nat /\ a[2] < from + Len(vs)
          BY <3>2, <1>2 DEF ValueAliases
        <4> QED
          BY <4>1, <3>2, <2>0, <1>1, <1>3, <1>7, <1>8 DEF Drawn
      <3> QED
        BY <3>1, <3>2, <1>8
    <2> QED
      BY <2>1, <2>2 DEF Numbered
  <1>12. Finite' /\ Meant' /\ Accepted'
    BY <1>4, <1>7, <1>8, <1>9 DEF Finite, Meant, Assigned, Accepted
  <1> QED
    BY <1>10, <1>11, <1>12 DEF IInv

-----------------------------------------------------------------------------
LEMMA TaggedFacts ==
    ASSUME NEW P, NEW M, NEW prefix \in P, NEW s \in Seq(M)
    PROVE  /\ Tagged(prefix, s) \in Seq(P \X M)
           /\ Len(Tagged(prefix, s)) = Len(s)
           /\ \A i \in DOMAIN Tagged(prefix, s) : Tagged(prefix, s)[i][1] = prefix
  BY DEF Tagged

LEMMA ListFacts == Lists \subseteq Seq(Values)
  <1> SUFFICES ASSUME NEW l \in Lists PROVE l \in Seq(Values)
    OBVIOUS
  <1>1. CASE l = <<>>
    BY <1>1
  <1>2. ASSUME NEW v \in Values, l = <<v>> PROVE l \in Seq(Values)
    BY <1>2
  <1>3. ASSUME NEW v \in Values, NEW w \in Values, l = <<v, w>> PROVE l \in Seq(Values)
    BY <1>3
  <1>4. CASE l \in Values \X Values
    <2>1. PICK v \in Values, w \in Values : l = <<v, w>>
      BY <1>4
    <2> QED
      BY <2>1, <1>3
  <1> QED
    BY <1>1, <1>2, <1>4 DEF Lists

\* A builder that adds clauses and leaves the others alone.
LEMMA AddStep ==
    ASSUME IInv, Call, NEW expr \in Expressions, NEW from,
           NEW ns \in Seq(NamePrefixes \X Attrs), NEW vs \in Seq(ValuePrefixes \X Values),
           Drawable(from, ns, vs),
           Add(expr, ns, from, vs)
    PROVE  IInv'
  <1>1. refs \subseteq RefType /\ \A r \in refs : Assigned(r)
    BY DEF IInv, TypeOK, RefType, Meant, Assigned
  <1> QED
    BY <1>1, BuilderStep DEF Add, From

LEMMA BuildStep ==
    ASSUME IInv, Call, NEW expr \in Expressions,
           NEW np \in NamePrefixes, NEW attrs \in Seq(Attrs),
           NEW vp \in ValuePrefixes, vp # ":flt", NEW vals \in Seq(Values),
           Build(expr, np, attrs, vp, vals)
    PROVE  IInv'
  <1>1. Tagged(np, attrs) \in Seq(NamePrefixes \X Attrs)
    BY TaggedFacts
  <1>2. /\ Tagged(vp, vals) \in Seq(ValuePrefixes \X Values)
        /\ \A i \in DOMAIN Tagged(vp, vals) : Tagged(vp, vals)[i][1] # ":flt"
    BY TaggedFacts
  <1>3. Drawable(From(values), Tagged(np, attrs), Tagged(vp, vals))
    BY <1>2 DEF Drawable, From
  <1> QED
    BY <1>1, <1>2, <1>3, AddStep DEF Build

LEMMA InitInv == Init => IInv
  <1> SUFFICES ASSUME Init PROVE IInv
    OBVIOUS
  <1>1. DOMAIN names = {} /\ DOMAIN values = {} /\ refs = {}
    BY DEF Init
  <1>2. TypeOK
    <2>1. cleaned \in BOOLEAN /\ calls \in 0..MaxCalls
      <3>1. MaxCalls \in Nat /\ cleaned = FALSE /\ calls = 0
        BY ParamsAssumption DEF ParamsAssumption, Init
      <3>2. cleaned \in BOOLEAN
        BY <3>1
      <3>3. calls \in 0..MaxCalls
        BY <3>1
      <3> QED
        BY <3>2, <3>3
    <2> QED
      BY <1>1, <2>1 DEF TypeOK
  <1> QED
    BY <1>1, <1>2, FS_EmptySet DEF Init, IInv, Finite, Numbered, Meant, Accepted

LEMMA NextInv == IInv /\ [Next]_vars => IInv'
  <1> SUFFICES ASSUME IInv, [Next]_vars PROVE IInv'
    OBVIOUS
  <1>0. /\ Paths \subseteq Seq(Attrs) \ {<<>>} /\ Distinct \subseteq Paths
        /\ Pk \in Attrs /\ Version \in Attrs /\ CreatedAt \in Attrs
    BY ParamsAssumption DEF ParamsAssumption, Distinct
  <1>1. ASSUME NEW attrs \in Paths, NEW vals \in Lists,
               \/ BuildCondition(attrs, vals)
               \/ BuildKeyCondition(attrs, vals)
               \/ BuildFilterByExample(attrs, vals)
               \/ FilterByKey(attrs, vals)
               \/ Filter(attrs, vals)
        PROVE  IInv'
    <2>1. /\ {"#cd", "#kc", "#fbe", "#ff"} \subseteq NamePrefixes
          /\ {":cdv", ":kcv", ":fbe", ":ffv"} \subseteq ValuePrefixes \ {":flt"}
          /\ {"condition", "key", "filter"} \subseteq Expressions
      BY DEF NamePrefixes, ValuePrefixes, Expressions
    <2>2. attrs \in Seq(Attrs) /\ vals \in Seq(Values)
      BY <1>0, ListFacts
    <2> QED
      BY <1>1, <2>1, <2>2, BuildStep
         DEF BuildCondition, BuildKeyCondition, BuildFilterByExample, FilterByKey, Filter
  <1>2. ASSUME NEW attrs \in Distinct, NEW vals \in Lists, BuildUpdate(attrs, vals)
        PROVE  IInv'
    <2>1. "#upk" \in NamePrefixes /\ ":upv" \in ValuePrefixes /\ "update" \in Expressions
      BY DEF NamePrefixes, ValuePrefixes, Expressions
    <2>2. attrs \in Seq(Attrs) /\ vals \in Seq(Values)
      BY <1>0, ListFacts
    <2>3. /\ Tagged("#upk", attrs) \in Seq(NamePrefixes \X Attrs)
          /\ Tagged(":upv", vals) \in Seq(ValuePrefixes \X Values)
          /\ \A i \in DOMAIN Tagged(":upv", vals) : Tagged(":upv", vals)[i][1] # ":flt"
      BY <2>1, <2>2, TaggedFacts
    <2>4. Drawable(Count(values), Tagged("#upk", attrs), Tagged(":upv", vals))
      BY <2>3 DEF Drawable
    <2>5. refs \subseteq RefType /\ \A r \in refs : Assigned(r)
      BY DEF IInv, TypeOK, RefType, Meant, Assigned
    <2>6. \A r \in refs' :
             \/ r \in Uses("update", Count(names), Tagged("#upk", attrs))
                       \cup Uses("update", Count(values), Tagged(":upv", vals))
             \/ r \in RefType /\ Assigned(r)
      BY <1>2, <2>5 DEF BuildUpdate, WithoutUpdate, From
    <2>7. /\ Call
          /\ names' = Bind(names, Count(names), Tagged("#upk", attrs))
          /\ values' = Bind(values, Count(values), Tagged(":upv", vals))
      BY <1>2 DEF BuildUpdate, From
    <2> QED
      BY <2>1, <2>3, <2>4, <2>6, <2>7, BuilderStep
  <1>3. ASSUME NEW mirrors \in Distinct, NEW v \in Values, BuildSearch(mirrors, v)
        PROVE  IInv'
    <2>1. "#sr" \in NamePrefixes /\ ":flt" \in ValuePrefixes /\ "filter" \in Expressions
      BY DEF NamePrefixes, ValuePrefixes, Expressions
    <2>2. mirrors \in Seq(Attrs) /\ mirrors # <<>> /\ Len(mirrors) \in Nat \ {0}
      BY <1>0
    <2>3. /\ Tagged("#sr", mirrors) \in Seq(NamePrefixes \X Attrs)
          /\ Len(Tagged("#sr", mirrors)) = Len(mirrors)
      <3>1. "#sr" \in NamePrefixes /\ mirrors \in Seq(Attrs)
        BY <2>1, <2>2
      <3>2. Tagged("#sr", mirrors) \in Seq(NamePrefixes \X Attrs)
        BY <3>1, TaggedFacts
      <3>3. Len(Tagged("#sr", mirrors)) = Len(mirrors)
        BY <3>1 DEF Tagged
      <3> QED
        BY <3>2, <3>3
    <2>4. /\ <<<<":flt", v>>>> \in Seq(ValuePrefixes \X Values)
          /\ Len(<<<<":flt", v>>>>) = 1
          /\ \A i \in DOMAIN <<<<":flt", v>>>> : <<<<":flt", v>>>>[i][1] = ":flt"
      BY <2>1
    <2>5. Drawable(From(names), Tagged("#sr", mirrors), <<<<":flt", v>>>>)
      BY <2>2, <2>3, <2>4 DEF Drawable, From
    <2> QED
      BY <1>3, <2>1, <2>3, <2>4, <2>5, AddStep DEF BuildSearch, SearchFrom
  <1>4. ASSUME NEW fields \in Distinct, AddProjection(fields)
        PROVE  IInv'
    <2> DEFINE old == {f \in Range(fields) : Latest(f) # {}}
               missing == Range(fields) \ old
    <2>1. PICK reuse \in [old -> DOMAIN names], new \in [1..Cardinality(missing) -> missing] :
            /\ \A f \in old : reuse[f] \in Latest(f)
            /\ names' = Bind(names, From(names), Tagged("#pj", new))
            /\ refs' = refs \cup Uses("projection", From(names), Tagged("#pj", new))
                        \cup {[in |-> "projection", alias |-> reuse[f], means |-> f] : f \in old}
      BY <1>4 DEF AddProjection
    <2>2. Call /\ values' = values
      BY <1>4 DEF AddProjection
    <2>3. Range(fields) \subseteq Attrs
      BY <1>0 DEF Range
    <2>4. Cardinality(missing) \in Nat
      <3>1. IsFiniteSet(DOMAIN fields)
        <4>1. fields \in Seq(Attrs)
          BY <1>0
        <4>2. DOMAIN fields = 1..Len(fields) /\ 1 \in Int /\ Len(fields) \in Int
          BY <4>1
        <4> QED
          BY <4>2, FS_Interval
      <3>2. fields \in Surjection(DOMAIN fields, Range(fields))
        <4>1. fields \in Seq(Attrs)
          BY <1>0
        <4>2. fields \in [DOMAIN fields -> Range(fields)]
          BY <4>1 DEF Range
        <4> QED
          BY <4>2 DEF Surjection, Range
      <3>3. IsFiniteSet(Range(fields))
        BY <3>1, <3>2, FS_Surjection
      <3> QED
        BY <3>3, FS_Subset, FS_CardinalityType
    <2>5. new \in Seq(Attrs)
      <3>1. new \in [1..Cardinality(missing) -> missing] /\ missing \subseteq Attrs
        BY <2>3
      <3> HIDE DEF missing
      <3>2. new \in [1..Cardinality(missing) -> Attrs]
        BY <3>1
      <3> QED
        BY <3>2, <2>4
    <2>6. "#pj" \in NamePrefixes /\ "projection" \in Expressions
      BY DEF NamePrefixes, Expressions
    <2>7. Tagged("#pj", new) \in Seq(NamePrefixes \X Attrs)
      BY <2>5, <2>6, TaggedFacts
    <2>8. <<>> \in Seq(ValuePrefixes \X Values) /\ Drawable(Count(values), Tagged("#pj", new), <<>>)
      BY DEF Drawable
    <2>9. /\ DOMAIN values' = DOMAIN Bind(values, Count(values), <<>>)
          /\ \A a \in DOMAIN values' : values'[a] = Bind(values, Count(values), <<>>)[a]
      <3>1. Aliases(Count(values), <<>>) = {}
        BY DEF Aliases
      <3> QED
        BY <2>2, <3>1 DEF Bind
    <2>10. refs \subseteq RefType /\ \A r \in refs : Assigned(r)
      BY DEF IInv, TypeOK, RefType, Meant, Assigned
    <2>11. ASSUME NEW f \in old
           PROVE  /\ [in |-> "projection", alias |-> reuse[f], means |-> f] \in RefType
                  /\ Assigned([in |-> "projection", alias |-> reuse[f], means |-> f])
      <3>1. reuse[f] \in DOMAIN names /\ names[reuse[f]] = f
        BY <2>1 DEF Latest
      <3>2. reuse[f] \in NameAliases /\ f \in Attrs
        BY <3>1, <2>3 DEF IInv, TypeOK
      <3> QED
        BY <3>1, <3>2, <2>6 DEF RefType, Assigned
    <2>12. \A r \in refs' :
             \/ r \in Uses("projection", Count(names), Tagged("#pj", new))
                       \cup Uses("projection", Count(values), <<>>)
             \/ r \in RefType /\ Assigned(r)
      BY <2>1, <2>10, <2>11 DEF From
    <2> QED
      BY <2>1, <2>2, <2>6, <2>7, <2>8, <2>9, <2>12, BuilderStep DEF From
  <1>5. ASSUME Adapter
        PROVE  IInv'
    <2>1. /\ {"#vf", "#vfpk", "#vfinc", "#k", "#dn", "#asOfn"} \subseteq NamePrefixes
          /\ {":vfv", ":vfone", ":cdv", ":dv", ":asOfv"} \subseteq ValuePrefixes \ {":flt"}
          /\ {"condition", "update", "filter"} \subseteq Expressions
      BY DEF NamePrefixes, ValuePrefixes, Expressions
    <2>2. <<Pk>> \in Seq(Attrs) /\ <<Version>> \in Seq(Attrs) /\ <<CreatedAt>> \in Seq(Attrs)
      BY <1>0
    <2>3. CASE FirstVersionCondition
      <3>1. <<<<"#vfpk", Pk>>>> \in Seq(NamePrefixes \X Attrs)
        BY <1>0, <2>1
      <3>2. <<>> \in Seq(ValuePrefixes \X Values)
            /\ Drawable(From(values), <<<<"#vfpk", Pk>>>>, <<>>)
        BY DEF Drawable, From
      <3> QED
        BY <2>1, <2>3, <3>1, <3>2, AddStep DEF FirstVersionCondition
    <2>4. CASE CheckExistence
      <3>1. <<>> \in Seq(Values)
        OBVIOUS
      <3> QED
        BY <2>1, <2>2, <2>4, <3>1, BuildStep DEF CheckExistence
    <2>5. ASSUME NEW v \in Values, VersionCondition(v)
          PROVE  IInv'
      <3>1. <<<<"#vfpk", Pk>>, <<"#vf", Version>>>> \in Seq(NamePrefixes \X Attrs)
        BY <1>0, <2>1
      <3>2. <<<<":vfv", v>>>> \in Seq(ValuePrefixes \X Values)
            /\ \A i \in DOMAIN <<<<":vfv", v>>>> : <<<<":vfv", v>>>>[i][1] # ":flt"
        BY <2>1
      <3>3. Drawable(From(values), <<<<"#vfpk", Pk>>, <<"#vf", Version>>>>, <<<<":vfv", v>>>>)
        BY <3>2 DEF Drawable, From
      <3> QED
        BY <2>1, <2>5, <3>1, <3>2, <3>3, AddStep DEF VersionCondition
    <2>6. ASSUME NEW v \in Values,
                 \/ DeleteVersionCondition(v)
                 \/ VersionIncrement(v)
                 \/ HideDescriptor(v)
                 \/ ApplyAsOf(v)
          PROVE  IInv'
      <3>1. <<v>> \in Seq(Values)
        OBVIOUS
      <3> QED
        BY <2>1, <2>2, <2>6, <3>1, BuildStep
           DEF DeleteVersionCondition, VersionIncrement, HideDescriptor, ApplyAsOf
    <2> QED
      BY <1>5, <2>3, <2>4, <2>5, <2>6 DEF Adapter
  <1>6. ASSUME DropProjection
        PROVE  IInv'
    <2>1. refs' \subseteq refs /\ ~cleaned /\ UNCHANGED <<names, values, cleaned, calls>>
      BY <1>6 DEF DropProjection
    <2> QED
      BY <2>1 DEF IInv, TypeOK, Finite, Numbered, Drawn, Count, Meant, Accepted
  <1>7. ASSUME CleanParams
        PROVE  IInv'
    <2>1. /\ names' = Restrict(names, Kept(names)) /\ values' = Restrict(values, Kept(values))
          /\ cleaned' = TRUE /\ refs' = refs /\ calls' = calls
      BY <1>7 DEF CleanParams
    <2>2. /\ DOMAIN names' = DOMAIN names \cap UsedBy(refs)
          /\ DOMAIN values' = DOMAIN values \cap UsedBy(refs)
          /\ \A a \in DOMAIN names' : names'[a] = names[a]
          /\ \A a \in DOMAIN values' : values'[a] = values[a]
      BY <2>1 DEF Restrict, Kept
    <2>3. TypeOK'
      BY <2>1, <2>2 DEF IInv, TypeOK
    <2>4. Finite'
      BY <2>2, FS_Subset DEF IInv, Finite
    <2>5. Numbered'
      BY <2>1 DEF Numbered
    <2>6. Meant'
      BY <2>1, <2>2 DEF IInv, Meant, UsedBy
    <2>7. UsedBy(refs) \subseteq DOMAIN names \cup DOMAIN values
      BY DEF IInv, Meant, UsedBy
    <2>8. Accepted'
      BY <2>1, <2>2, <2>7 DEF Accepted, UsedBy
    <2> QED
      BY <2>3, <2>4, <2>5, <2>6, <2>8 DEF IInv
  <1>8. ASSUME UNCHANGED vars
        PROVE  IInv'
    BY <1>8 DEF vars, IInv, TypeOK, Finite, Numbered, Drawn, Count, Meant, Accepted
  <1> QED
    BY <1>1, <1>2, <1>3, <1>4, <1>5, <1>6, <1>7, <1>8 DEF Next, Expression

-----------------------------------------------------------------------------
LEMMA Inductive == Spec => []IInv
  BY InitInv, NextInv, PTL DEF Spec

\* Whatever is built, aliases stand for attributes and values.
THEOREM TypeCorrect == Spec => []TypeOK
  BY Inductive, PTL DEF IInv

\* No builder takes an alias that an expression uses, however many were combined
\* and in whatever order.
THEOREM NothingClobbered == Spec => []Meant
  BY Inductive, PTL DEF IInv

\* What cleanParams leaves is exactly what the expressions use.
THEOREM CleanedIsAccepted == Spec => []Accepted
  BY Inductive, PTL DEF IInv
=============================================================================
