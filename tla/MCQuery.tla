-------------------------------- MODULE MCQuery --------------------------------
(***************************************************************************)
(* Sessions of several statements, and what a single statement answers: a   *)
(* case is one statement with its data, chosen in two steps.  The properties *)
(* compare what the engine answers with what the language says.              *)
(***************************************************************************)
EXTENDS Session

---------------------------------------------------------------------------
(* Shorthands for parsed statements                                          *)

Lit(n) == <<"lit", Whole(n)>>
Const(v) == <<"lit", v>>
Var(y) == <<"var", y>>
Prop(y, p) == <<"prop", Var(y), p>>
One(p, e) == <<"map", [q \in {p} |-> e]>>
Two(p, e, q, f) == <<"map", [y \in {p, q} |-> IF y = p THEN e ELSE f]>>
Binop(op, e, f) == <<"binary", op, e, f>>
And(e, f) == <<"logic", "and", e, f>>
Equals(e, f) == Binop("eq", e, f)
Fn(name, args) == <<"call", name, args>>
Agg(name, e) == <<"agg", name, FALSE, e>>

N(y, labels, properties) == [var |-> y, labels |-> labels, properties |-> properties]
Bare(y) == N(y, <<>>, <<>>)
Hop(y, types, direction, properties, length) ==
  [var |-> y, types |-> types, direction |-> direction, properties |-> properties, length |-> length]
P(start, path) == [start |-> start, steps |-> path, path |-> 0]

Match(patterns, where) == <<"match", FALSE, patterns, <<>>, where>>
Create(pattern) == <<"create", <<pattern>>>>
UnwindAs(e, name) == <<"unwind", e, name>>
Projected(items, distinct, order, skip, limit, where) ==
  [items |-> items, distinct |-> distinct, order |-> order, skip |-> skip, limit |-> limit, where |-> where]
Plain(items) == Projected(items, FALSE, <<>>, <<>>, <<>>, <<>>)
Return(items) == <<"return", Plain(items)>>
With1(e, name) == <<"with", Plain(<<<<e, name>>>>)>>

---------------------------------------------------------------------------
(***************************************************************************)
(* A session over one label L (10) with key k (1), unique u (2), typed s    *)
(* (3) and a carried date (5), a second label M (11) and a relationship   *)
(* type T (20), with or without its discriminator (4).                       *)
(***************************************************************************)

a == 1
b == 2
c == 3
r == 4
q == 5
x == 6
y == 7
L == 10
M == 11
T == 20
k == 1
u == 2
s == 3
disc == 4
date == 5

R(v, direction, properties) == Hop(v, {T}, direction, properties, <<>>)
MatchAt(patterns) == <<"match", FALSE, patterns, <<"ref", HeadRef>>, <<>>>>

AtKey(v, n) == P(N(v, <<L>>, One(k, Lit(n))), <<>>)
AnyRel == P(N(a, <<>>, <<>>), <<<<R(r, "out", <<>>), N(b, <<>>, <<>>)>>>>)
Set(v, p, n) == <<"set", <<<<"property", v, p, Lit(n)>>>>>>
NewNode(n, m) == P(N(0, <<L>>, Two(k, Lit(n), u, Lit(m))), <<>>)
Edge1(from, direction, to, m) == P(from, <<<<R(0, direction, One(disc, Lit(m))), to>>>>)

(* Nodes: creation, keyed and indexed updates, deletion, replacement of a    *)
(* deleted key, a swap of unique values, a read after a write.               *)
NodeStatements ==
  {<<Create(NewNode(n, m))>> : n, m \in {1, 2}}
  \cup {<<Match(<<AtKey(a, n)>>, <<>>), Set(a, p, 2)>> : n \in {1, 2}, p \in {u, s}}
  \cup {<<Match(<<P(N(a, <<L>>, <<>>), <<>>)>>, Equals(Prop(a, u), Lit(m))), <<"remove", <<<<"property", a, u>>>>>>>> : m \in {1, 2}}
  \cup {<<Match(<<AtKey(a, n)>>, <<>>), <<"delete", detach, <<Var(a)>>>>>> : n \in {1, 2}, detach \in BOOLEAN}
  \cup {<<Match(<<AtKey(a, 1)>>, <<>>), <<"delete", TRUE, <<Var(a)>>>>, Create(NewNode(1, m))>> : m \in {1, 2}}
  \cup {<<Match(<<AtKey(a, 1), AtKey(b, 2)>>, <<>>), <<"set", <<<<"property", a, u, Prop(b, u)>>, <<"property", b, u, Lit(1)>>>>>>>>}
  \cup {<<Match(<<AtKey(a, 1)>>, <<>>), <<"delete", TRUE, <<Var(a)>>>>, With1(Lit(1), x),
          Match(<<P(N(b, <<L>>, <<>>), <<>>)>>, Equals(Prop(b, u), Lit(1))), Create(NewNode(1, 2))>>}
  \cup {<<<<"unwind", <<"list", <<Lit(1), Lit(n)>>>>, x>>,
          <<"merge", P(N(a, <<L>>, One(k, Var(x))), <<>>), <<<<"property", a, u, Lit(1)>>>>, <<<<"property", a, s, Var(x)>>>>>>>> : n \in {1, 2}}
  \cup {<<Match(<<AtKey(a, 1)>>, <<>>), <<op, <<<<"labels", a, <<M>>>>>>>>>> : op \in {"set", "remove"}}
  \cup {<<Match(<<AtKey(a, 1)>>, <<>>), <<"set", <<<<"merge", a, e>>>>>>>> : e \in {One(u, Lit(2)), One(k, Lit(2)), Two(u, <<"lit", Null>>, s, Lit(1))}}

(* Relationships: between matched and new nodes, changed and deleted, and    *)
(* their discriminator rewritten.                                            *)
RelStatements ==
  {<<Match(<<AtKey(a, 1), AtKey(b, 2)>>, <<>>), Create(Edge1(Bare(a), direction, Bare(b), m))>> : direction \in {"out", "in"}, m \in {1, 2}}
  \cup {<<Match(<<AnyRel>>, <<>>), Set(r, p, 1)>> : p \in {s, disc}}
  \cup {<<Match(<<AnyRel>>, <<>>), <<"set", <<<<op, r, One(s, Lit(2))>>>>>>>> : op \in {"replace", "merge"}}
  \cup {<<Match(<<AnyRel>>, <<>>), <<"remove", <<<<"property", r, disc>>>>>>>>}
  \cup {<<Match(<<AnyRel>>, <<>>), <<"delete", FALSE, <<Var(r)>>>>>>}
  \cup {<<Match(<<AnyRel>>, <<>>), <<"delete", FALSE, <<Var(r)>>>>, Create(Edge1(Bare(a), "out", Bare(b), 1))>>}
  \cup {<<Match(<<AtKey(a, 1)>>, <<>>), <<"merge", Edge1(Bare(a), "out", N(b, <<L>>, One(k, Lit(2))), 1), <<>>, <<>>>>>>}

(* Nodes matched in the last commit and written to in the workspace.         *)
AtStatements ==
  {<<MatchAt(<<AtKey(a, 1)>>), Set(a, s, 1)>>,
   <<MatchAt(<<AtKey(a, 1)>>), Create(Edge1(Bare(a), "out", Bare(a), 1))>>,
   <<MatchAt(<<AtKey(a, 1)>>), <<"delete", TRUE, <<Var(a)>>>>>>,
   <<MatchAt(<<AnyRel>>), <<"delete", FALSE, <<Var(r)>>>>>>}

MCStatements == NodeStatements \cup RelStatements \cup AtStatements

(* Schemas: with and without the index on u, that index redefined on s, s    *)
(* typed or not, T with and without its discriminator.                       *)
SchemaOf(indexed, type, parallel) ==
  [EmptySchema EXCEPT
     !.keys = [l \in {L} |-> <<k>>],
     !.types = IF type = "none" THEN <<>> ELSE [l \in {L} |-> [p \in {s} |-> type]],
     !.discs = IF parallel THEN [v \in {T} |-> disc] ELSE <<>>,
     !.indexes = IF indexed = 0 THEN <<>> ELSE [v \in {1} |-> [label |-> L, properties |-> <<indexed>>]],
     !.unique = [l \in {L} |-> {u}],
     !.relTypes = [v \in {T} |-> IF type = "none" THEN <<>> ELSE [p \in {disc} |-> type]]]
MCSchemas == {SchemaOf(0, "none", FALSE), SchemaOf(s, "int", TRUE), SchemaOf(u, "string", TRUE), SchemaOf(u, "int", FALSE)}

Dated(n, m) == [label |-> L, key |-> <<Whole(n)>>, secondary |-> <<M>>,
                props |-> [p \in {u, date} |-> IF p = u THEN Whole(m) ELSE <<"date", n>>]]
Version(nodes, edges, schema) == NewVersion(nodes, edges, schema, FALSE, 0, {})
FirstNode == [label |-> L, key |-> <<Whole(1)>>]
SelfEdge == [src |-> FirstNode, rtype |-> T, dst |-> FirstNode, disc |-> Null, props |-> <<>>]
MCGenesis ==
  {Version({}, {}, SchemaOf(u, "int", TRUE)),
   Version({Dated(1, 1), Dated(2, 2)}, {}, SchemaOf(u, "none", TRUE)),
   Version({Dated(1, 1)}, {SelfEdge}, [SchemaOf(0, "none", FALSE) EXCEPT !.relTypes = <<>>])}

(* The versions these statements and schemas can lead to: the domain of the  *)
(* engine as a function.                                                     *)
MCValues == {Null} \cup ({"int", "date"} \X (0..2))
MCProperties == UNION {[D -> MCValues] : D \in SUBSET {u, s, disc, date}}
MCEnds == [label : {L}, key : Seq(MCValues)]
MCNodes == [label : {L}, key : Seq(MCValues), secondary : Seq({L, M}), props : MCProperties]
MCEdges == [src : MCEnds, rtype : {T}, dst : MCEnds, disc : MCValues, props : MCProperties]
MCIndexes == {<<>>} \cup [{1} -> SUBSET [id : Seq(Int), node : Seq(Int)]]
MCOutcome ==
  LET versions == [nodes : SUBSET MCNodes, edges : SUBSET MCEdges, schema : MCSchemas \cup {v.schema : v \in MCGenesis},
                   index : MCIndexes, merging : {FALSE}, estimate : {0}, broken : {{}}]
  IN  [stmt \in MCStatements, v \in versions, h \in versions |-> WriteOutcome(stmt, v, h)]

---------------------------------------------------------------------------
CONSTANT RangeKinds   \* the kinds of the constants a range predicate compares with

VARIABLE case

Unlimited == [work |-> 100000, rows |-> 1000, hops |-> 1000, scanned |-> 1000, collection |-> 1000, stride |-> 4096, timed |-> FALSE]

(* Rows as a bag: no order is promised without ORDER BY.                     *)
RowSet(rows) == {rows[i] : i \in DOMAIN rows}
Tally(rows) == [row \in RowSet(rows) |-> Cardinality({i \in DOMAIN rows : rows[i] = row})]
Answer(outcome) == IF outcome.ok THEN <<"rows", Tally(outcome.v.rows)>> ELSE <<"error", outcome.v>>

(* A statement over a graph without a schema, which cannot seek.             *)
Evaluated(stmt, nodes, rels) ==
  Then(BindStatement(stmt, EmptySchema, FALSE, FALSE, <<>>), LAMBDA bound :
       RunVersioned(bound.clauses, Environment(MemorySource(nodes, rels), <<>>, NoFunction)))
Computed(e) == Evaluated(<<Return(<<<<e, y>>>>)>>, <<>>, <<>>)
ValueOf(e) == LET z == Computed(e) IN IF z.ok THEN Ok(z.v.rows[1][1]) ELSE z

---------------------------------------------------------------------------
(* Values                                                                    *)

Numbers == {Whole(1), Whole(4), Whole(5), Float(1), Float(2), Float(8), Float(NaN), Float(PosInf), Float(NegZero), Whole(0)}
Scalars == Numbers \cup {Null, Bool(TRUE), Str(<<9, 1>>), Str(<<>>), Stored(1), Stored(2)}
Values ==
  Scalars \cup {List(<<z>>) : z \in {Whole(1), Float(2), Null, Stored(1), Str(<<9, 1>>)}}
          \cup {List(<<>>), List(<<Whole(1), Null>>), List(<<Whole(1), Whole(5)>>)}
          \cup {Map([p \in {k} |-> z]) : z \in {Whole(1), Float(2), Null}}

RECURSIVE Exactly(_)
Exactly(z) ==
  CASE Kind(z) \in {"int", "float"} -> Abs(AsF64(z)) < 2 * ExactLimit \/ IsNaN(z) \/ IsInfinite(z)
    [] Kind(z) \in {"list", "map"} -> \A i \in DOMAIN z[2] : Exactly(z[2][i])
    [] OTHER -> TRUE

---------------------------------------------------------------------------
(* Seeks: three stored nodes, one with the chosen value of u, one a constant *)
(* distance away, one a date; u indexed alone and with s.                    *)

StoredU == {Whole(1), Whole(4), Whole(5), Float(2), Float(8), Float(NaN), Float(NegZero), Whole(0), Null, Bool(TRUE),
            Str(<<9, 1>>), <<"date", 1>>, List(<<Whole(1)>>)}
Pins == {Whole(1), Whole(4), Whole(5), Whole(0), Float(1), Float(2), Float(8), Float(NaN), Null, Bool(TRUE), Str(<<9, 1>>),
         List(<<Whole(1)>>), List(<<Null>>)}
Kinds == {"untyped", "typed", "merging", "crowded"}
Record(n, z) ==
  [label |-> L, key |-> <<Whole(n)>>, secondary |-> <<>>, props |-> [p \in {u, s} |-> IF p = u THEN z ELSE Whole(1)]]
SeekSchema(typed) ==
  [EmptySchema EXCEPT !.keys = [l \in {L} |-> <<k>>],
                      !.types = IF typed THEN [l \in {L} |-> [p \in {u} |-> "string"]] ELSE <<>>,
                      !.indexes = [n \in {1, 2} |-> [label |-> L, properties |-> IF n = 1 THEN <<u>> ELSE <<u, s>>]]]
SeekVersion(kind, z, broken) ==
  LET others == IF kind = "crowded" THEN {Record(2, z), Record(3, z)}
                ELSE IF kind = "typed" THEN {Record(2, Str(<<>>))} ELSE {Record(2, <<"date", 1>>), Record(3, Whole(2))}
  IN  NewVersion({Record(1, z)} \cup others, {}, SeekSchema(kind \in {"typed", "merging"}), kind = "merging", 3, broken)
Filters(z) ==
  {<<"inline", One(u, Const(z)), <<>>>>, <<"key", One(k, Const(z)), <<>>>>, <<"where", <<>>, Equals(Prop(a, u), Const(z))>>,
   <<"both", <<>>, And(Equals(Prop(a, u), Const(z)), Equals(Lit(1), Prop(a, s)))>>,
   <<"either", One(k, Lit(1)), Equals(Prop(a, u), Const(z))>>}
RangeFilters(z) ==
  {<<op, <<>>, Binop(op, Prop(a, u), Const(z))>> : op \in {"lt", "le", "gt", "ge"}}
  \cup {<<"between", <<>>, And(Binop("ge", Prop(a, u), Lit(1)), Binop("lt", Prop(a, u), Const(z)))>>}
SeekStatement(filter) == <<Match(<<P(N(a, <<L>>, filter[2]), <<>>)>>, filter[3]), Return(<<<<Prop(a, k), x>>>>)>>
Over3(stmt, source, v) ==
  Then(BindFor(stmt, v, FALSE), LAMBDA bound :
       Surfaced(Governed(RunVersioned(bound.clauses, Environment(source, <<>>, NoFunction)), Unlimited, 0)))
ByScan(v) == MemorySource(NodeValues(v), RelValues(v))

---------------------------------------------------------------------------
(* Patterns over a small graph: nodes 1 and 2, up to four relationships.     *)

Vertex(n) == [id |-> <<n>>, labels |-> IF n = 1 THEN <<L>> ELSE <<L, M>>, properties |-> [p \in {k} |-> Whole(n)]]
Arc(n, from, to) == [id |-> <<20 + n>>, type |-> IF n = 4 THEN T + 1 ELSE T, start |-> <<from>>, end |-> <<to>>, properties |-> [p \in {k} |-> Whole(n)]]
Vertices == <<Vertex(1), Vertex(2)>>
Arcs == <<Arc(1, 1, 1), Arc(2, 1, 2), Arc(3, 2, 1), Arc(4, 1, 2)>>
SomeArcs(S) == SelectSeq(Arcs, LAMBDA e : e.id[1] - 20 \in S)
Directions == {"out", "in", "both"}
FixedPatterns ==
  {P(Bare(a), <<<<Hop(r, {}, d, <<>>, <<>>), N(z, <<>>, <<>>)>>>>) : d \in Directions, z \in {a, b}}
  \cup {P(N(a, <<M>>, <<>>), <<<<Hop(r, {T}, d, <<>>, <<>>), Bare(b)>>, <<Hop(q, {}, e, <<>>, <<>>), Bare(z)>>>>) :
          d \in Directions, e \in Directions, z \in {a, c}}
LongPatterns ==
  {P(Bare(a), <<<<Hop(r, types, d, <<>>, <<lo, hi>>), Bare(b)>>>>) : types \in {{}, {T}}, d \in Directions, lo \in {0, 1}, hi \in {1, 2}}

(* The walks of a pattern from the definition of the language: sequences of  *)
(* steps that leave one end and reach the other, no relationship twice.      *)
Steps(rels, d, types, from) ==
  {<<e, e.end>> : e \in {f \in rels : d /= "in" /\ f.start = from /\ (types = {} \/ f.type \in types)}}
  \cup {<<e, e.start>> : e \in {f \in rels : d /= "out" /\ f.end = from /\ (types = {} \/ f.type \in types)}}
RECURSIVE Walks(_, _, _)
Walks(hops, rels, from) ==
  IF hops = <<>> THEN {<< >>}
  ELSE UNION {{<<st>> \o w : w \in Walks(Tail(hops), rels \ {st[1]}, st[2])} :
                st \in Steps(rels, hops[1].direction, hops[1].types, from)}
RowsOf(start, walk) ==
  <<Node(Vertex(start))>> \o Flat([i \in DOMAIN walk |-> <<Rel(walk[i][1]), Node(Vertex(walk[i][2][1]))>>])
HopsOf(pattern) == [i \in DOMAIN pattern.steps |-> pattern.steps[i][1]]
LastVertex(start, walk) == IF walk = <<>> THEN start ELSE walk[Len(walk)][2][1]
Starts(pattern) == {n \in 1..2 : HasLabels(Vertex(n), pattern.start.labels)}
Closes(pattern, n, w) == pattern.steps[Len(pattern.steps)][2].var = a => LastVertex(n, w) = n
FixedExpected(pattern, rels) ==
  UNION {{RowsOf(n, w) : w \in {v \in Walks(HopsOf(pattern), rels, <<n>>) : Closes(pattern, n, v)}} : n \in Starts(pattern)}
Repeated(hop, n) == [i \in 1..n |-> hop]
LongExpected(pattern, rels) ==
  LET hop == pattern.steps[1][1]
      walks(n) == UNION {Walks(Repeated(hop, m), rels, <<n>>) : m \in hop.length[1]..hop.length[2]}
      row(n, w) == <<Node(Vertex(n)), List([i \in DOMAIN w |-> Rel(w[i][1])]), Node(Vertex(LastVertex(n, w)))>>
  IN  UNION {{row(n, w) : w \in walks(n)} : n \in 1..2}
Returned(pattern) ==
  <<<<Var(a), 0>>>> \o Flat([i \in DOMAIN pattern.steps |-> <<<<Var(pattern.steps[i][1].var), 0>>, <<Var(pattern.steps[i][2].var), 30 + i>>>>])

---------------------------------------------------------------------------
(* Lists, pages and groups                                                   *)

SmallLists == {<<>>, <<1>>, <<2, 1>>, <<1, 1, 2>>, <<2, 1, 2>>}
ListOf(ns) == Const(List([i \in DOMAIN ns |-> Whole(ns[i])]))
Counts == {<<>>, Lit(0), Lit(1), Lit(2)}
Orders == {<<>>, <<<<Var(y), FALSE>>>>, <<<<Var(y), TRUE>>>>}
Wheres == {<<>>, Binop("gt", Var(y), Lit(1))}
PageStatement(twice, ns, page) ==
  (IF twice THEN <<UnwindAs(ListOf(<<1, 2>>), c)>> ELSE <<>>)
  \o <<UnwindAs(ListOf(ns), x), <<"with", [page EXCEPT !.items = <<<<Var(x), y>>>>]>>, Return(<<<<Var(y), y>>>>)>>
OnlyOf(ns, n) == SelectSeq(ns, LAMBDA m : m = n)
OrderedBy(ns, order) ==
  IF order = <<>> THEN ns ELSE IF order[1][2] THEN OnlyOf(ns, 2) \o OnlyOf(ns, 1) ELSE OnlyOf(ns, 1) \o OnlyOf(ns, 2)
NumberIn(e, absent) == IF e = <<>> THEN absent ELSE e[2][2]
Page(ns, page) ==
  LET kept == OrderedBy(IF page.distinct THEN Distinct(ns) ELSE ns, page.order)
      from == NumberIn(page.skip, 0)
      cut == SubSeq(kept, from + 1, IF from + NumberIn(page.limit, Len(kept)) < Len(kept) THEN from + NumberIn(page.limit, Len(kept)) ELSE Len(kept))
  IN  IF page.where = <<>> THEN cut ELSE OnlyOf(cut, 2)

Pair(m, n) == Map([p \in {k, u} |-> IF p = k THEN Whole(m) ELSE Whole(n)])
Data == <<Pair(1, 1), Pair(1, 2), Pair(2, 1)>>
Shuffles == {f \in [1..3 -> 1..3] : {f[i] : i \in 1..3} = 1..3}
Keyed1 == {<<Prop(x, k), 31>>, <<Var(x), 31>>, <<Fn("size", <<<<"list", <<Prop(x, k)>>>>>>), 31>>}
Second ==
  {<<Agg("count", <<>>), 32>>, <<Agg("sum", Prop(x, u)), 32>>, <<Binop("add", Agg("count", <<>>), Prop(x, k)), 32>>,
   <<Binop("add", Agg("max", Prop(x, u)), Prop(x, u)), 32>>, <<Prop(x, u), 32>>}
GroupOrders == {<<>>, <<<<Prop(x, k), FALSE>>>>, <<<<Prop(x, u), FALSE>>>>, <<<<Agg("sum", Prop(x, u)), TRUE>>, <<Prop(x, k), FALSE>>>>}
GroupStatement(shuffle, first, second, distinct, order) ==
  <<UnwindAs(Const(List([i \in 1..3 |-> Data[shuffle[i]]])), x),
    <<"return", Projected(<<first, second>>, distinct, order, <<>>, <<>>, <<>>)>>>>

---------------------------------------------------------------------------
(* Nested values, limits                                                     *)

Deep == {Whole(1), Whole(IntMax), Whole(IntMin), List(<<>>), List(<<Whole(1)>>), List(<<List(<<Whole(1)>>)>>),
         Map([p \in {k} |-> Whole(1)]), Map([p \in {k} |-> List(<<>>)]), Str(<<1>>), Float(1), Null}
Builders(v, w) ==
  {Binop(op, Const(v), Const(w)) : op \in {"add", "sub", "mul", "div"}}
  \cup {<<"list", <<Const(v), Const(w)>>>>, Two(k, Const(v), u, Const(w)),
        <<"listcomp", x, Const(List(<<Whole(1)>>)), <<>>, <<"list", <<Const(v), Const(w)>>>>>>,
        <<"reduce", x, Const(v), y, Const(List(<<Whole(1), Whole(2)>>)), <<"list", <<Var(x), Const(w)>>>>>>,
        Agg("collect", <<"list", <<Const(v), Const(w)>>>>), Agg("sum", <<"index", <<"list", <<Const(v), Const(w)>>>>, Lit(0)>>)}
InWidth(v) == Kind(v) = "int" => v[2] \in IntMin..IntMax

Governable ==
  {<<UnwindAs(Fn("range", <<Lit(1), Lit(n)>>), x), Return(<<<<Var(x), x>>>>)>> : n \in {1, 3, 5}}
  \cup {<<Return(<<<<Fn("range", <<Lit(1), Lit(n)>>), x>>>>)>> : n \in {3, 5}}
  \cup {<<UnwindAs(ListOf(<<1, 2, 1>>), x), Return(<<<<<<"listcomp", y, Fn("range", <<Lit(0), Var(x)>>), <<>>, Var(y)>>, y>>>>)>>,
        <<Match(<<P(Bare(a), <<<<Hop(r, {}, "both", <<>>, <<0, 2>>), Bare(b)>>>>)>>, <<>>), Return(<<<<Var(r), r>>>>)>>,
        <<Match(<<P(Bare(a), <<>>), P(Bare(b), <<>>)>>, <<>>), Return(<<<<Agg("collect", Var(b)), x>>>>)>>}
LimitSets ==
  {[Unlimited EXCEPT !.rows = n, !.collection = m, !.work = w, !.hops = h, !.scanned = 3] :
     n \in {0, 1, 2, 4}, m \in {0, 2, 4}, w \in {4, 1000}, h \in {3, 1000}}
TimedSets == {[Unlimited EXCEPT !.timed = TRUE, !.stride = n] : n \in {1, 2, 3, 5}}

---------------------------------------------------------------------------
(* Writes                                                                    *)

MergeNode == P(N(a, <<L>>, One(k, Var(x))), <<>>)
MergeRel(d) == P(Bare(a), <<<<Hop(r, {T}, d, One(k, Var(x)), <<>>), Bare(b)>>>>)
Ends2 == <<P(N(a, <<L>>, One(k, Lit(1))), <<>>), P(N(b, <<M>>, One(k, Lit(2))), <<>>)>>
MergeStatement(form, ns) ==
  (IF form = "node" THEN <<>> ELSE <<Match(Ends2, <<>>)>>)
  \o <<UnwindAs(ListOf(ns), x), <<"merge", IF form = "node" THEN MergeNode ELSE MergeRel(form), <<>>, <<>>>>>>
MergedInto(form, S) ==
  IF form = "node" THEN {1, 2}
  ELSE {n \in S : n \in (IF form = "out" THEN {2} ELSE {3})}
DeleteStatement(targets, detach) ==
  <<Match(<<P(Bare(a), <<<<Hop(r, {T}, "out", <<>>, <<>>), Bare(b)>>>>)>>, <<>>), <<"delete", detach, targets>>>>
OptionalStatement(ns) ==
  <<UnwindAs(ListOf(ns), x),
    <<"match", TRUE, <<P(N(a, <<L>>, One(k, Var(x))), <<<<Hop(r, {T}, "out", <<>>, <<>>), Bare(b)>>>>)>>, <<>>, Binop("gt", Prop(b, k), Lit(1))>>,
    Return(<<<<Var(x), x>>, <<Var(r), r>>>>)>>

---------------------------------------------------------------------------
ChooseValue == \E v \in Values : case' = [op |-> "value", v |-> v]
ChooseStore == \E kind \in Kinds, v \in StoredU : 
  /\ kind = "typed" => Kind(v) \in {"string", "null"}
  /\ case' = [op |-> "stored", kind |-> kind, v |-> v]
ChooseGraph == \E S \in SUBSET (1..4) : case' = [op |-> "graph", arcs |-> S]
ChooseList == \E ns \in SmallLists : case' = [op |-> "list", ns |-> ns]
ChooseDeep == \E v \in Deep : case' = [op |-> "deep", v |-> v]
ChooseStatement == \E stmt \in Governable : case' = [op |-> "statement", stmt |-> stmt]
ChooseGroup == \E first \in Keyed1, second \in Second : case' = [op |-> "grouped", first |-> first, second |-> second]

Compare2 == case.op = "value" /\ \E w \in Values : case' = [op |-> "values", v |-> case.v, w |-> w]
Seek ==
  /\ case.op = "stored"
  /\ \E z \in Pins : \E filter \in Filters(z) \cup (IF Kind(z) \in RangeKinds THEN RangeFilters(z) ELSE {}),
        broken \in {{}, {"nodes"}, {"index"}} :
       case' = [op |-> "seek", kind |-> case.kind, v |-> case.v, stmt |-> SeekStatement(filter), broken |-> broken]
MatchPattern ==
  /\ case.op = "graph"
  /\ \E pattern \in FixedPatterns \cup LongPatterns : case' = [op |-> "pattern", arcs |-> case.arcs, pattern |-> pattern]
Delete ==
  /\ case.op = "graph"
  /\ \E targets \in {<<Var(a)>>, <<Var(r)>>, <<Var(b), Var(r)>>, <<Var(a), Var(b)>>}, detach \in BOOLEAN :
       case' = [op |-> "delete", arcs |-> case.arcs, targets |-> targets, detach |-> detach]
Merge ==
  /\ case.op = "graph"
  /\ \E form \in {"node", "out", "in"}, ns \in {<<1>>, <<2, 2>>, <<3, 1, 3>>, <<2, 3, 4>>} :
       case' = [op |-> "merge", arcs |-> case.arcs, form |-> form, ns |-> ns]
Optional ==
  /\ case.op = "graph"
  /\ \E ns \in SmallLists \cup {<<3, 1>>} : case' = [op |-> "optional", arcs |-> case.arcs, ns |-> ns]
PageList ==
  /\ case.op = "list"
  /\ \E twice \in BOOLEAN, distinct \in BOOLEAN, order \in Orders, skip \in Counts, limit \in Counts, where \in Wheres :
       case' = [op |-> "page", ns |-> case.ns, twice |-> twice, page |-> Projected(<<>>, distinct, order, skip, limit, where)]
Group ==
  /\ case.op = "grouped"
  /\ \E distinct \in BOOLEAN, order \in GroupOrders, shuffle \in Shuffles :
       case' = [op |-> "group", first |-> case.first, second |-> case.second, distinct |-> distinct, order |-> order, shuffle |-> shuffle]
Build ==
  /\ case.op = "deep"
  /\ \E w \in Deep : \E e \in Builders(case.v, w) : case' = [op |-> "build", e |-> e]
Limit ==
  /\ case.op = "statement"
  /\ \E limits \in LimitSets : case' = [op |-> "limit", stmt |-> case.stmt, limits |-> limits]
Time ==
  /\ case.op = "statement"
  /\ \E limits \in TimedSets, late \in 1..8 : case' = [op |-> "time", stmt |-> case.stmt, limits |-> limits, late |-> late]

Begin ==
  /\ case.op = "start"
  /\ \/ ChooseValue \/ ChooseStore \/ ChooseGraph \/ ChooseList \/ ChooseDeep \/ ChooseStatement \/ ChooseGroup
Answers ==
  \/ Begin \/ Compare2 \/ Seek \/ MatchPattern \/ Delete \/ Merge \/ Optional \/ PageList \/ Group \/ Build \/ Limit \/ Time

(* A session, or one statement's case instead of it.                         *)
MCInit == Init /\ case = [op |-> "start"]
MCNext ==
  \/ case.op = "start" /\ Next /\ UNCHANGED case
  \/ version.nodes = {} /\ steps = 0 /\ Answers /\ UNCHANGED vars
MCSpec == MCInit /\ [][MCNext]_<<vars, case>>

---------------------------------------------------------------------------
(* Properties: each judges the case `it` a step chooses.                     *)

(* Ternary equality, the sort order, and the hash key of DISTINCT and        *)
(* grouping agree: equal values sort equal, and values sort equal exactly    *)
(* when their keys are equal, whatever mix of integers, floats, containers   *)
(* and carried values, except among integers no float represents.            *)
RegimesAgree(it) ==
  it.op = "values" =>
    LET v == it.v
        w == it.w
    IN  /\ Eq3(v, w) = Bool(TRUE) => GlobalCmp(v, w) = 0
        /\ GlobalCmp(v, w) = -GlobalCmp(w, v)
        /\ DistinctKey(v) = DistinctKey(w) => GlobalCmp(v, w) = 0
        /\ Exactly(v) /\ Exactly(w) /\ GlobalCmp(v, w) = 0 => DistinctKey(v) = DistinctKey(w)
        /\ v = Stored(1) => Eq3(v, w) = Eq3(Str(<<9, 1>>), w)

(* A statement answers alike over the lazy store source, the materialised    *)
(* snapshot with their seeks, and a plain scan: for every stored and pinned  *)
(* kind of value, typed or not, during a merge, over and under the candidate *)
(* budget.                                                                   *)
SeekEqualsScan(it) ==
  it.op = "seek" /\ it.broken = {} =>
    LET v == SeekVersion(it.kind, it.v, {})
        scanned == Answer(Over3(it.stmt, ByScan(v), v))
    IN  /\ Answer(Over3(it.stmt, StoreSource(v), v)) = scanned
        /\ Answer(Over3(it.stmt, SnapshotSource(v), v)) = scanned

(* A read that fails below a seek or a scan is never an answer: with a       *)
(* damaged map the statement errs, or answers what it would undamaged.       *)
FailedReadsSurface(it) ==
  it.op = "seek" /\ it.broken /= {} =>
    LET answer(broken) == Answer(RunReadStatement(it.stmt, SeekVersion(it.kind, it.v, broken), <<>>, NoFunction, Unlimited, 0))
    IN  answer(it.broken)[1] = "rows" => answer(it.broken) = answer({})

(* MATCH yields every assignment of the pattern that uses no relationship    *)
(* twice, once: over self-loops, parallel and opposite relationships, in     *)
(* either direction or none, and for every number of hops of a variable      *)
(* length.                                                                   *)
MatchIsDeclarative(it) ==
  it.op = "pattern" =>
    LET rels == RowSet(SomeArcs(it.arcs))
        fixed == it.pattern.steps[1][1].length = <<>>
        out == Evaluated(<<Match(<<it.pattern>>, <<>>), Return(Returned(it.pattern))>>, Vertices, SomeArcs(it.arcs))
        expected == IF fixed THEN FixedExpected(it.pattern, rels) ELSE LongExpected(it.pattern, rels)
    IN  out.ok /\ Tally(out.v.rows) = [row \in expected |-> 1]

(* A projection after UNWIND is what its parts say in their order (DISTINCT, *)
(* ORDER BY, SKIP, LIMIT, WHERE): stopping the unwinding at the limit        *)
(* (unwind_row_cap) never shows.                                             *)
UnwindCapIsInvisible(it) ==
  it.op = "page" =>
    LET out == Evaluated(PageStatement(it.twice, it.ns, it.page), <<>>, <<>>)
        expected == Page(IF it.twice THEN it.ns \o it.ns ELSE it.ns, it.page)
    IN  out.ok /\ out.v.rows = [i \in DOMAIN expected |-> <<Whole(expected[i])>>]

(* What an accepted grouping query answers does not depend on which row of a *)
(* group happens to come first (validate_grouping_refs).                     *)
GroupingIgnoresRowOrder(it) ==
  it.op = "group" =>
    LET out(shuffle) == Evaluated(GroupStatement(shuffle, it.first, it.second, it.distinct, it.order), <<>>, <<>>)
    IN  Answer(out(it.shuffle)) = Answer(out(<<1, 2, 3>>))

(* No expression yields an integer out of range or a value nested deeper     *)
(* than MAX_VALUE_DEPTH: what is built from legal parts is checked where it  *)
(* is built.                                                                 *)
ResultsBounded(it) ==
  it.op = "build" =>
    LET out == ValueOf(it.e) IN out.ok => ~NestingExceeds(out.v, MaxDepth) /\ InWidth(out.v)

(* A governed query returns no more rows than max_rows and no list longer    *)
(* than max_collection, and its work is within one charge of max_work.       *)
ResultsWithinLimits(it) ==
  it.op = "limit" =>
    LET out == Evaluated(it.stmt, Vertices, Arcs)
        run == Governed(out, it.limits, 0)
        long(v) == Kind(v) = "list" /\ Len(v[2]) > it.limits.collection
    IN  run.ok => /\ Len(run.v.rows) <= it.limits.rows
                  /\ \A i \in DOMAIN run.v.rows : \A j \in DOMAIN run.v.rows[i] :
                        ~long(run.v.rows[i][j]) \/ Kind(run.v.rows[i][j][2][1]) = "rel"
                  /\ Metered(out.log, it.limits, 0)[Len(out.log)].work <= it.limits.work

(* A query past its deadline does less than one stride of work more, however *)
(* unevenly its charges fall (charge_work).                                  *)
DeadlineHonoured(it) ==
  it.op = "time" =>
    LET log == Evaluated(it.stmt, Vertices, Arcs).log
        meters == Metered(log, it.limits, it.late)
    IN  \A i \in it.late..Len(log) :
          meters[i].refused = "none" => meters[i].work - meters[it.late - 1].work < it.limits.stride

(* MERGE creates what is missing once: later rows of the same clause find    *)
(* what earlier ones made, for nodes and for relationships in either         *)
(* direction.                                                                *)
MergeIsIdempotent(it) ==
  it.op = "merge" =>
    LET out == Evaluated(MergeStatement(it.form, it.ns), Vertices, SomeArcs(it.arcs))
        missing == RowSet(it.ns) \ MergedInto(it.form, it.arcs)
    IN  /\ out.ok
        /\ Len(out.v.changes.createdNodes) + Len(out.v.changes.createdRels) = Cardinality(missing)

(* A DELETE that succeeds leaves no relationship without an end, and is      *)
(* refused only when it would.                                               *)
DeletesAreClosed(it) ==
  it.op = "delete" =>
    LET arcs == SomeArcs(it.arcs)
        out == Evaluated(DeleteStatement(it.targets, it.detach), Vertices, arcs)
        targeted == UNION {{arcs[i].start : j \in {m \in DOMAIN it.targets : it.targets[m] = Var(a)}}
                           \cup {arcs[i].end : j \in {m \in DOMAIN it.targets : it.targets[m] = Var(b)}} :
                             i \in {m \in DOMAIN arcs : arcs[m].type = T}}
        left == {e \in RowSet(arcs) : ~(e.type = T /\ Has(it.targets, Var(r)))}
        dangling == {e \in left : e.start \in targeted \/ e.end \in targeted}
    IN  IF out.ok
        THEN \A e \in RowSet(arcs) : e \in out.v.changes.deletedRels \/ {e.start, e.end} \cap out.v.changes.deletedNodes = {}
        ELSE ~it.detach /\ dangling /= {}

(* OPTIONAL MATCH keeps every row: one whose matches all fail the WHERE      *)
(* comes back once, with nulls.                                              *)
OptionalKeepsRows(it) ==
  it.op = "optional" =>
    LET arcs == SomeArcs(it.arcs)
        out == Evaluated(OptionalStatement(it.ns), Vertices, arcs)
        found(n) == SelectSeq(arcs, LAMBDA e : e.type = T /\ e.start = <<n>> /\ e.end = <<2>>)
        rows(n) == IF found(n) = <<>> THEN <<<<Whole(n), Null>>>> ELSE [i \in DOMAIN found(n) |-> <<Whole(n), Rel(found(n)[i])>>]
    IN  out.ok /\ Tally(out.v.rows) = Tally(Flat([i \in DOMAIN it.ns |-> rows(it.ns[i])]))

(* x IN list is the ternary "some element equals x": unknown when no element *)
(* is equal and one comparison is unknown.                                   *)
MembershipIsExistential(it) ==
  it.op = "values" =>
    LET list == Const(List(<<it.v, Whole(1)>>))
        in == ValueOf(Binop("in", Const(it.w), list))
    IN  /\ in = ValueOf(<<"quantifier", "any", x, list, Equals(Var(x), Const(it.w))>>)
        /\ ValueOf(<<"unary", "not", Const(in.v)>>) = ValueOf(<<"quantifier", "none", x, list, Equals(Var(x), Const(it.w))>>)

---------------------------------------------------------------------------
(* How rows are found is not seen: seeks answer as scans do, over committed  *)
(* versions and through a dirty overlay, and a failed read fails the         *)
(* statement (adapter.rs, store_source.rs, session.rs).                      *)
AccessPathsInvisible == 
  [][SeekEqualsScan(case') /\ FailedReadsSurface(case') /\ SeeksAreInvisible]_<<vars, case>>

(* A statement answers what its clauses mean, whatever its plan and the      *)
(* order of its rows (exec/eval.rs, exec/run.rs, bind).                      *)
AnswersAreDeclarative ==
  [][/\ RegimesAgree(case') /\ MatchIsDeclarative(case') /\ UnwindCapIsInvisible(case') /\ GroupingIgnoresRowOrder(case')
     /\ OptionalKeepsRows(case') /\ MembershipIsExistential(case') /\ MergeIsIdempotent(case') /\ DeletesAreClosed(case')]_case

(* What a session saves obeys the schema it saves it under, with indexes     *)
(* equal to a rebuild, is what the statement saw, and is refused only when   *)
(* it would not obey (persist.rs, repo.rs).                                  *)
SavesAreLawful ==
  IndexesCurrent /\ UniqueHolds /\ TypesHold /\ EdgesWellFormed /\ SavedAsSeen /\ RefusedOnlyIfUnlawful

(* Results keep the limits and the deadline the governor was given.          *)
LimitsKept == [][ResultsBounded(case') /\ ResultsWithinLimits(case') /\ DeadlineHonoured(case')]_case
=============================================================================
