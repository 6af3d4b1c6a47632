------------------------------ MODULE GraphSeeks ------------------------------
(***************************************************************************)
(* The three graph sources of GraphSources as records dispatched on their   *)
(* kind, and every call the executor makes on them: scans, key, equality    *)
(* and range seeks, seek sizing, expansion and point lookup.                *)
(***************************************************************************)
EXTENDS GraphSources

(* MemoryGraph.                                                              *)
MemorySource(nodes, rels) == [kind |-> "memory", nodes |-> nodes, rels |-> rels]

(* GraphSnapshot::build: value maps over the runtime values, so that a seek  *)
(* and the filter agree on what a property is.                               *)
SnapshotSource(v) ==
  LET nodes == NodeValues(v)
      indexes == v.schema.indexes
      valueOf(n, p) == IF p \in DOMAIN n.properties THEN EncodeIndexValue(n.properties[p]) ELSE <<>>
      bytes(n, label, ps) ==
        IF Bears(n.labels, label) THEN Concat([i \in DOMAIN ps |-> valueOf(n, ps[i])]) ELSE <<>>
      named(n) == n.labels[1] \in DOMAIN v.schema.keys
  IN  [kind |-> "snapshot", nodes |-> nodes, rels |-> RelValues(v),
       indexProperties |-> [name \in DOMAIN indexes |-> indexes[name].properties],
       byIndex |-> [name \in DOMAIN indexes |->
                      [i \in DOMAIN nodes |-> bytes(nodes[i], indexes[name].label, indexes[name].properties)]],
       byKey |-> [i \in DOMAIN nodes |->
                    IF named(nodes[i])
                    THEN Concat([j \in DOMAIN v.schema.keys[nodes[i].labels[1]] |->
                                   valueOf(nodes[i], v.schema.keys[nodes[i].labels[1]][j])])
                    ELSE <<>>]]

Trusted(v) == ~v.merging

(* StoreBackedSource::new: a declaration is recorded as absent while a merge *)
(* is unfinished.                                                            *)
Undeclared == "undeclared"
DeclaredType(v, label, p) ==
  IF Trusted(v) /\ label \in DOMAIN v.schema.types /\ p \in DOMAIN v.schema.types[label]
  THEN v.schema.types[label][p] ELSE Undeclared
StoreSource(v) ==
  [kind |-> "store", version |-> v,
   keyTypes |-> [label \in DOMAIN v.schema.keys |->
                   [i \in DOMAIN v.schema.keys[label] |-> DeclaredType(v, label, v.schema.keys[label][i])]],
   indexes |-> [name \in DOMAIN v.schema.indexes |->
                  LET def == v.schema.indexes[name]
                  IN  [label |-> def.label, properties |-> def.properties,
                       types |-> [i \in DOMAIN def.properties |-> DeclaredType(v, def.label, def.properties[i])]]]]

Nodes(src) == IF src.kind = "store" THEN NodeValues(src.version) ELSE src.nodes
Rels(src) == IF src.kind = "store" THEN RelValues(src.version) ELSE src.rels
Broken(src, map) == src.kind = "store" /\ map \in src.version.broken

---------------------------------------------------------------------------
(* Scans, expansion, lookup                                                  *)

AllNodes(src) == IF Broken(src, "nodes") THEN ReadFailed(TRUE) ELSE Served(Nodes(src))
NodesByLabels(src, labels) ==
  LET all == AllNodes(src) IN [all EXCEPT !.items = SelectSeq(@, LAMBDA n : HasLabels(n, labels))]

WithId(entities, id) == {i \in DOMAIN entities : entities[i].id = id}
TheNode(nodes) == IF nodes = <<>> THEN CannotServe ELSE Served(<<nodes[1]>>)
NodeAt(src, id) ==
  IF Broken(src, "nodes") THEN ReadFailed(FALSE) ELSE TheNode(SelectSeq(Nodes(src), LAMBDA n : n.id = id))

TypeOk(r, types) == types = {} \/ r.type \in types

(* A relationship with the node at its other end; a dangling one is skipped. *)
Ends(nodes, rels, OtherEnd(_)) ==
  LET reached == SelectSeq(rels, LAMBDA r : WithId(nodes, OtherEnd(r)) /= {})
  IN  [i \in DOMAIN reached |->
         <<reached[i], nodes[CHOOSE j \in WithId(nodes, OtherEnd(reached[i])) : TRUE]>>]

SecondSighting(r, id, direction) == direction = "both" /\ r.start = id

(* expand: out-edges then in-edges; the in-memory graph keeps its own order. *)
Expand(src, id, direction, types) ==
  LET leaving(r) == r.start = id /\ TypeOk(r, types)
      entering(r) == r.end = id /\ TypeOk(r, types) /\ ~SecondSighting(r, id, direction)
      reach(nodes, outs, ins) ==
        IF Broken(src, "edges") \/ (Broken(src, "nodes") /\ outs \o ins /= <<>>) THEN ReadFailed(TRUE)
        ELSE Served((IF direction = "in" THEN <<>> ELSE Ends(nodes, outs, LAMBDA r : r.end))
                    \o (IF direction = "out" THEN <<>> ELSE Ends(nodes, ins, LAMBDA r : r.start)))
  IN  reach(Nodes(src), SelectSeq(Rels(src), leaving), SelectSeq(Rels(src), entering))

---------------------------------------------------------------------------
(* Probes                                                                    *)

Probes(ok, tuples) == [ok |-> ok, tuples |-> tuples]
NoProbes == Probes(FALSE, <<>>)

RECURSIVE Cartesian(_)
Cartesian(per) ==
  IF per = <<>> THEN << <<>> >>
  ELSE LET front == Cartesian(SubSeq(per, 1, Len(per) - 1))
           last == per[Len(per)]
       IN  Flat([i \in DOMAIN front |-> [j \in DOMAIN last |-> Append(front[i], last[j])]])

RECURSIVE Product(_)
Product(per) == IF per = <<>> THEN 1 ELSE Len(Head(per)) * Product(Tail(per))

(* The bounded product of the components' alternatives.                      *)
Combined(per) == IF Product(per) > MaxProbes THEN NoProbes ELSE Probes(TRUE, Cartesian(per))

NonUnique(x) == Kind(x) = "float" /\ Integral(x) /\ Imprecise(x)

(* The values of either numeric kind a number equals.                        *)
NumberProbes(x) ==
  CASE Kind(x) = "int" -> <<x, Float(AsF64(x))>>
    [] Integral(x) -> <<x, Whole(AsF64(x) \div 2)>>
    [] OTHER -> <<x>>

(* cartesian_probes of the snapshot: over encodings of runtime values.       *)
LookupKeys(x) ==
  LET values == IF IsNumber(x) THEN NumberProbes(x) ELSE <<x>>
  IN  SelectSeq([i \in DOMAIN values |-> EncodeIndexValue(values[i])], LAMBDA b : b /= <<>>)
SnapshotProbes(values) ==
  IF \E i \in DOMAIN values : Kind(values[i]) = "list" \/ NonUnique(values[i]) THEN NoProbes
  ELSE LET per == [i \in DOMAIN values |-> LookupKeys(values[i])]
       IN  IF \E i \in DOMAIN per : per[i] = <<>> THEN Probes(TRUE, <<>>) ELSE Combined(per)

(* string_probe_is_exact.                                                    *)
ExactTypes == {"string", "int", "float", "bool"}

StringProbeIsExact(declared) == declared \in ExactTypes

(* probe_value and the alternatives of key_probe_tuples; they differ on a    *)
(* pin that can never be equal (blind) and on unstorable kinds.              *)
Alternatives(x, declared, blind) ==
  CASE Kind(x) = "null" \/ IsNaN(x) -> blind
    [] Kind(x) \in {"list", "stored"} -> NoProbes
    [] IsNumber(x) -> IF NonUnique(x) THEN NoProbes ELSE Probes(TRUE, NumberProbes(x))
    [] Kind(x) = "string" -> IF StringProbeIsExact(declared) THEN Probes(TRUE, <<x>>) ELSE NoProbes
    [] Kind(x) = "bool" -> Probes(TRUE, <<x>>)
    [] OTHER -> blind
KeyAlternatives(x, declared) ==
  IF Kind(x) = "list"
  THEN IF ModelValueOf(x) = NoValue THEN NoProbes ELSE Probes(TRUE, <<ModelValueOf(x)>>)
  ELSE Alternatives(x, declared, NoProbes)
ProbeValue(x, declared) == Alternatives(x, declared, Probes(TRUE, <<>>))

(* key_probe_tuples.                                                         *)
KeyProbeTuples(src, label, values) ==
  LET known == label \in DOMAIN src.keyTypes /\ Len(src.keyTypes[label]) = Len(values)
      per == [i \in DOMAIN values |->
                KeyAlternatives(values[i], IF known THEN src.keyTypes[label][i] ELSE Undeclared)]
  IN  IF \E i \in DOMAIN per : ~per[i].ok THEN NoProbes ELSE Combined([i \in DOMAIN per |-> per[i].tuples])

---------------------------------------------------------------------------
(* Candidates under a budget (within_budget)                                 *)

OverBudget == [complete |-> FALSE, keys |-> <<>>]
Complete(keys) == [complete |-> TRUE, keys |-> keys]

ExceedsBudget(found, remaining) == Len(found) > remaining

(* Every probe's keys are gathered before the total is judged; each walk     *)
(* stops one past what remains of the budget.                                *)
RECURSIVE Gathered(_, _, _)
Gathered(walks, cap, keys) ==
  IF walks = <<>> THEN Complete(keys)
  ELSE LET remaining == IF cap > Len(keys) THEN cap - Len(keys) ELSE 0
           walk == Head(walks)
           found == SubSeq(walk, 1, IF Len(walk) > remaining THEN remaining + 1 ELSE Len(walk))
       IN  IF ExceedsBudget(found, remaining) THEN OverBudget
           ELSE Gathered(Tail(walks), cap, keys \o SelectSeq(found, LAMBDA k : ~Has(keys, k)))

CandidateCap(rows) ==
  LET share == rows \div BreakEvenOneIn IN IF share > CandidateFloor THEN share ELSE CandidateFloor

WithinBudget(src, walks) ==
  LET first == Gathered(walks, CandidateFloor, <<>>)
      second == Gathered(walks, CandidateCap(src.version.estimate), <<>>)
  IN  IF first.complete THEN Served(first.keys)
      ELSE IF Broken(src, "nodes") THEN CannotServe
      ELSE IF second.complete THEN Served(second.keys) ELSE CannotServe

(* The walks of one index map: node ids in key order.                        *)
Entries(src, name) == InOrder(src.version.index[name])
StartsWith(s, prefix) == Len(s) >= Len(prefix) /\ SubSeq(s, 1, Len(prefix)) = prefix
PrefixSuccessor(s) == [s EXCEPT ![Len(s)] = @ + 1]

Walk(src, name, Test(_)) ==
  LET hits == SelectSeq(Entries(src, name), LAMBDA e : Test(e.id))
  IN  [i \in DOMAIN hits |-> hits[i].node]

(* A range over values lifted to a range over index keys: a key runs on past *)
(* its value, so the two bounds that include or skip a value's region use    *)
(* the region's successor.                                                   *)
Lifted(head, range) ==
  <<IF range[1][1] = "out" THEN Included(PrefixSuccessor(head \o range[1][2])) ELSE Included(head \o range[1][2]),
    IF range[2][1] = "in" THEN Excluded(PrefixSuccessor(head \o range[2][2])) ELSE Excluded(head \o range[2][2])>>

---------------------------------------------------------------------------
(* The store-backed seeks: candidate keys, then point reads                  *)

ListHead(def) == LET s == IndexHead(def) \o EncodeValue(List(<<>>)) IN SubSeq(s, 1, Len(s) - 1)

IndexEqualityKeys(src, name, properties, values) ==
  IF \/ name \notin DOMAIN src.indexes
     \/ src.indexes[name].properties /= properties
     \/ Len(values) /= Len(properties)
  THEN CannotServe
  ELSE LET info == src.indexes[name]
           per == [i \in DOMAIN values |-> ProbeValue(values[i], info.types[i])]
           stops == {i \in DOMAIN per : ~per[i].ok \/ per[i].tuples = <<>>}
           first == CHOOSE i \in stops : \A j \in stops : i <= j
           combined == Combined([i \in DOMAIN per |-> per[i].tuples])
       IN  IF stops /= {} THEN IF per[first].ok THEN Served(<<>>) ELSE CannotServe
           ELSE IF ~combined.ok THEN CannotServe
           ELSE IF Broken(src, "index") THEN ReadFailed(FALSE)
           ELSE IF name \notin DOMAIN src.version.index THEN CannotServe
           ELSE WithinBudget(src,
                  [i \in DOMAIN combined.tuples |->
                     Walk(src, name, LAMBDA id :
                       StartsWith(id, IndexHead(info) \o EncodeValue(List(combined.tuples[i]))))])

FamilyKeys(src, name, head, families) ==
  CASE ~families.ok -> CannotServe
    [] families.ok /\ families.ranges = <<>> -> Served(<<>>)
    [] OTHER ->
         IF Broken(src, "index") THEN ReadFailed(FALSE)
         ELSE IF name \notin DOMAIN src.version.index THEN CannotServe
         ELSE WithinBudget(src, [i \in DOMAIN families.ranges |->
                                   Walk(src, name, LAMBDA id : Within(id, Lifted(head, families.ranges[i])))])
IndexRangeKeys(src, name, property, lower, upper) ==
  IF \/ name \notin DOMAIN src.indexes
     \/ src.indexes[name].properties /= <<property>>
     \/ ~NumericBound(lower) \/ ~NumericBound(upper)
  THEN CannotServe
  ELSE FamilyKeys(src, name, ListHead(src.indexes[name]), RangeFamilies(lower, upper))

(* Point reads of the candidates; a key without a node is dropped.           *)
PointReads(src, keys) ==
  IF Broken(src, "nodes") /\ keys /= <<>> THEN ReadFailed(TRUE)
  ELSE LET found == SelectSeq(keys, LAMBDA k : WithId(Nodes(src), k) /= {})
       IN  Served([i \in DOMAIN found |-> Nodes(src)[CHOOSE j \in WithId(Nodes(src), found[i]) : TRUE]])
Materialised(src, candidates) ==
  IF candidates.some THEN PointReads(src, candidates.items) ELSE candidates

---------------------------------------------------------------------------
(* The seeks of every source                                                 *)

AtIndexes(src, keyed) == Served([i \in DOMAIN keyed |-> src.nodes[keyed[i]]])
Ascending(S) == KeysAscending(S)

NodesByKey(src, label, values) ==
  CASE src.kind = "memory" -> CannotServe
    [] src.kind = "snapshot" ->
         LET probes == SnapshotProbes(values)
             hits == [i \in DOMAIN probes.tuples |->
                        Ascending({j \in DOMAIN src.nodes : /\ src.nodes[j].labels[1] = label
                                                            /\ src.byKey[j] /= <<>>
                                                            /\ src.byKey[j] = Flat(probes.tuples[i])})]
         IN  IF ~probes.ok \/ Flat(hits) = <<>> THEN CannotServe ELSE AtIndexes(src, Distinct(Flat(hits)))
    [] src.kind = "store" ->
         LET tuples == KeyProbeTuples(src, label, values)
             ids == [i \in DOMAIN tuples.tuples |-> NodeId([label |-> label, key |-> tuples.tuples[i]])]
             found == PointReads(src, ids)
         IN  IF ~tuples.ok THEN CannotServe
             ELSE IF found.failed THEN ReadFailed(FALSE)
             ELSE IF found.items = <<>> THEN CannotServe ELSE found

NodesByIndex(src, name, properties, values) ==
  CASE src.kind = "memory" -> CannotServe
    [] src.kind = "snapshot" ->
         LET probes == SnapshotProbes(values)
             hits == [i \in DOMAIN probes.tuples |->
                        Ascending({j \in DOMAIN src.nodes : src.byIndex[name][j] /= <<>>
                                                            /\ src.byIndex[name][j] = Flat(probes.tuples[i])})]
         IN  IF \/ name \notin DOMAIN src.indexProperties
                \/ src.indexProperties[name] /= properties
                \/ Len(values) /= Len(properties)
                \/ ~probes.ok
             THEN CannotServe ELSE AtIndexes(src, Distinct(Flat(hits)))
    [] src.kind = "store" -> Materialised(src, IndexEqualityKeys(src, name, properties, values))

NodesByRange(src, name, property, lower, upper) ==
  CASE src.kind = "memory" -> CannotServe
    [] src.kind = "snapshot" ->
         LET families == RangeFamilies(lower, upper)
             hits == [i \in DOMAIN families.ranges |->
                        Ascending({j \in DOMAIN src.nodes : src.byIndex[name][j] /= <<>>
                                                            /\ Within(src.byIndex[name][j], families.ranges[i])})]
         IN  IF \/ name \notin DOMAIN src.indexProperties
                \/ src.indexProperties[name] /= <<property>>
                \/ ~families.ok
             THEN CannotServe ELSE AtIndexes(src, Distinct(Flat(hits)))
    [] src.kind = "store" -> Materialised(src, IndexRangeKeys(src, name, property, lower, upper))

(* A probe is <<"key", label, values>>, <<"index", name, properties, values>> *)
(* or <<"range", name, property, lower, upper>>.                             *)
MaterialiseProbe(src, probe) ==
  CASE probe[1] = "key" -> NodesByKey(src, probe[2], probe[3])
    [] probe[1] = "index" -> NodesByIndex(src, probe[2], probe[3], probe[4])
    [] probe[1] = "range" -> NodesByRange(src, probe[2], probe[3], probe[4], probe[5])

(* seek_count: only the store sizes a probe; -1 is no size.                  *)
Candidates(src, probe) ==
  IF probe[1] = "index" THEN IndexEqualityKeys(src, probe[2], probe[3], probe[4])
  ELSE IndexRangeKeys(src, probe[2], probe[3], probe[4], probe[5])
Sized(ok, items) == IF ok THEN Len(items) ELSE -1
KeySize(tuples) == Sized(tuples.ok, tuples.tuples)
SeekSize(candidates) == [count |-> Sized(candidates.some, candidates.items), failed |-> candidates.failed]
SeekCount(src, probe) ==
  CASE src.kind /= "store" -> [count |-> -1, failed |-> FALSE]
    [] src.kind = "store" /\ probe[1] = "key" ->
         [count |-> KeySize(KeyProbeTuples(src, probe[2], probe[3])), failed |-> FALSE]
    [] src.kind = "store" /\ probe[1] /= "key" -> SeekSize(Candidates(src, probe))

(* seek_anchor: the smallest sized probe first, ties to the earlier hint; if *)
(* it declines the others in order; with nothing sized, all in order.        *)
OrElse(tried, rest) == IF tried.some THEN tried ELSE [rest EXCEPT !.failed = @ \/ tried.failed]
RECURSIVE FirstServing(_, _, _)
FirstServing(src, probes, order) ==
  IF order = <<>> THEN CannotServe
  ELSE OrElse(MaterialiseProbe(src, probes[Head(order)]), FirstServing(src, probes, Tail(order)))
(* The order the probes are tried in, and whether sizing them failed.        *)
InGivenOrder(probes) == [i \in DOMAIN probes |-> i]
BySize(sizes) ==
  LET sized == {i \in DOMAIN sizes : sizes[i].count >= 0}
      best == CHOOSE i \in sized : \A j \in sized : \/ sizes[i].count < sizes[j].count
                                                    \/ sizes[i].count = sizes[j].count /\ i <= j
  IN  [order |-> IF sized = {} THEN InGivenOrder(sizes)
                 ELSE <<best>> \o SelectSeq(InGivenOrder(sizes), LAMBDA i : i /= best),
       failed |-> \E i \in DOMAIN sizes : sizes[i].failed]
SeekInOrder(src, probes, chosen) ==
  [FirstServing(src, probes, chosen.order) EXCEPT !.failed = @ \/ chosen.failed]
SeekAnchor(src, probes) ==
  SeekInOrder(src, probes,
    IF Len(probes) > 1 THEN BySize([i \in DOMAIN probes |-> SeekCount(src, probes[i])])
    ELSE [order |-> InGivenOrder(probes), failed |-> FALSE])
=============================================================================
