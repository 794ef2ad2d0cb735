----------------------------- MODULE MCListRequest -----------------------------
\* Five rows, one of them the descriptor; a global index with all attributes, one
\* with keys only that is read in two hops, one with keys only that is not, and a
\* local one.
EXTENDS ListRequest

Item(p, s, c, n, t) ==
    [pk |-> p, sk |-> s, cat |-> c, name |-> n, mirror |-> n, at |-> t]

MCTable ==
    {Item(1, 1, 1, 1, 1), Item(1, 2, 2, 2, 2), Item(2, 1, 1, 2, 2),
     [pk |-> 2, sk |-> 2, name |-> 1, mirror |-> 1, at |-> 1],
     [pk |-> 3, sk |-> 3, descriptor |-> 1]}

MCAttributes == {"pk", "sk", "cat", "name", "mirror", "at", "descriptor"}

Index(t, p, s, a, i) == [type |-> t, pk |-> p, sk |-> s, attributes |-> a, indirect |-> i]

MCIndices ==
    [byCat   |-> Index("gsi", "cat", "name", MCAttributes, FALSE),
     hopCat  |-> Index("gsi", "cat", "none", {}, TRUE),
     byAt    |-> Index("gsi", "cat", "at", {}, FALSE),
     byName  |-> Index("lsi", "none", "name", MCAttributes, FALSE)]

MCMirror == [name |-> "mirror"]

Clause(f, o, vs) == [attrs |-> {f}, op |-> o, accepts |-> vs]

\* Clauses of every kind on key attributes, index keys and others.
MCClauses ==
    {Clause("pk", "eq", {1}), Clause("pk", "ne", {2, 3}),
     Clause("sk", "range", {1}), Clause("sk", "range", {2, 3}), Clause("sk", "ne", {1, 3}),
     Clause("cat", "eq", {1}), Clause("name", "eq", {2}), Clause("name", "range", {1}),
     Clause("at", "range", {2}), Clause("at", "ne", {1})}

MCFilterable ==
    {<<f, o>> \in MCAttributes \X {"eq", "range", "ne"} : <<f, o>> # <<"at", "ne">>}

ClauseLists(clauses) == {<<>>} \cup {<<c>> : c \in clauses} \cup {<<c, d>> : c \in clauses, d \in clauses}

Request(o, i, s, x, cs, q, fs, a, d) ==
    [op |-> o, index |-> i, sort |-> s, consistent |-> FALSE, example |-> x, clauses |-> cs,
     search |-> q, fields |-> fs, asOf |-> a, descriptor |-> d]

NoExample == <<>>
ExampleOf(f) == [i \in {0} |-> Clause(f, "eq", {1})]

Examples(i) ==
    CASE i = "none" -> {NoExample, ExampleOf("pk")}
      [] i \in {"byCat", "hopCat", "byAt"} -> {NoExample, ExampleOf("cat")}
      [] i = "byName" -> {NoExample, ExampleOf("pk")}

Lists(is, xs, css, qs, fss, as, ds) ==
    {Request("getList", i, "none", x, cs, q, fs, a, d) :
        i \in is, x \in xs, cs \in css, q \in qs, fs \in fss, a \in as, d \in ds}

Mass(os, i, xs, css, qs) ==
    {Request(o, i, "none", x, cs, q, {}, a, d) :
        o \in os, x \in xs, cs \in css, q \in qs,
        a \in IF i = "hopCat" THEN {{}} ELSE {{}, {1}}, d \in BOOLEAN}

\* Lists over every index but those that project too little for their filters, and
\* mass operations without filters, sorted lists and lists that are refused.
MCPlain ==
    UNION {Lists({i}, Examples(i), ClauseLists(MCClauses), {{}, {1}}, {{}, {"pk", "name"}}, {{}, {1}}, BOOLEAN) :
              i \in {"none", "byCat", "byName"}}
    \cup Lists({"hopCat"}, Examples("hopCat"), ClauseLists({c \in MCClauses : c.attrs \in {{"pk"}, {"cat"}}}),
               {{}}, {{}, {"name"}}, {{}}, BOOLEAN)
    \cup UNION {Mass({"delete", "clone"}, i, Examples(i), {<<>>}, {{}}) : i \in {"none", "byCat", "hopCat", "byName"}}
    \cup Mass({"move"}, "none", Examples("none"), {<<>>}, {{}})
    \cup {[Request("getList", "none", s, NoExample, <<>>, {}, {}, {}, FALSE) EXCEPT !.consistent = c] :
              s \in {"name", "at", "cat"}, c \in BOOLEAN}

\* DELETE /?<op>-f=...&search=...
MCFilteredMass == Mass({"delete"}, "none", Examples("none"), ClauseLists({Clause("name", "eq", {2})}), {{}, {1}})

ASSUME PlainKeepTo ==
    Requests = MCPlain =>
        FiltersProjected /\ SearchesSomething /\ DescriptorUnnamed /\ MassUnfiltered /\ KeysUnsearched
=============================================================================
