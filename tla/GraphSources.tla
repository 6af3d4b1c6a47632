---------------------------- MODULE GraphSources ----------------------------
(***************************************************************************)
(* Where a query reads its graph from (acetone-cypher exec/source.rs,       *)
(* exec/adapter.rs, exec/store_source.rs; acetone-graph index.rs and the    *)
(* reads of repo.rs Snapshot): an in-memory graph, a materialised snapshot  *)
(* with its own value maps, and the lazy store-backed source.               *)
(*                                                                          *)
(* A stored node is [label, key, secondary, props], a stored edge           *)
(* [src, rtype, dst, disc, props] with endpoints [label, key]; labels,      *)
(* types and property names are numbers.  A stored value is a runtime value *)
(* except that a date is <<"date", n>>.  A version is [nodes, edges,        *)
(* schema, index, merging, estimate, broken]: merging is whether a merge is *)
(* unfinished, estimate the sampled size of the nodes map, broken the maps  *)
(* whose chunks cannot be read.                                             *)
(***************************************************************************)
EXTENDS QueryValue

CONSTANTS
  MaxProbes,        \* probe combinations a seek may form (16)
  CandidateFloor,   \* CANDIDATE_FLOOR
  BreakEvenOneIn    \* BREAK_EVEN_ONE_IN

ASSUME SourceBounds == MaxProbes \in Nat /\ CandidateFloor \in Nat /\ BreakEvenOneIn \in Nat \ {0}

---------------------------------------------------------------------------
(* Values at the boundary                                                    *)

(* convert_value: a type the runtime does not model is carried.              *)
RECURSIVE ConvertAt(_, _)
ConvertAt(x, depth) ==
  IF depth >= MaxDepth THEN Null
  ELSE CASE Kind(x) = "list" -> List([i \in DOMAIN x[2] |-> ConvertAt(x[2][i], depth + 1)])
         [] Kind(x) = "date" -> Stored(x[2])
         [] OTHER -> x
ConvertValue(x) == ConvertAt(x, 0)
ConvertMap(f) == [p \in DOMAIN f |-> ConvertValue(f[p])]

(* encode_key of one value: a tag, a body, and a terminator where the body   *)
(* has no fixed length.  Both zeros encode alike; NaN does not encode.       *)
RECURSIVE EncodeValue(_)
EncodeValue(x) ==
  CASE Kind(x) = "null" -> <<1>>
    [] Kind(x) = "bool" -> <<IF x[2] THEN 3 ELSE 2>>
    [] Kind(x) = "int" -> <<4, x[2]>>
    [] Kind(x) = "float" -> <<5, AsF64(x)>>
    [] Kind(x) = "string" -> <<6>> \o x[2] \o <<0>>
    [] Kind(x) = "date" -> <<8, x[2]>>
    [] Kind(x) = "list" -> <<12>> \o Flat([i \in DOMAIN x[2] |-> EncodeValue(x[2][i])]) \o <<0>>
RECURSIVE Encodable(_)
Encodable(x) == ~IsNaN(x) /\ (Kind(x) = "list" => \A i \in DOMAIN x[2] : Encodable(x[2][i]))
EncodeTuple(values) == Flat([i \in DOMAIN values |-> EncodeValue(values[i])])

(* model_value_of: what a runtime value is compared as, or no value at all.  *)
NoValue == <<"none", 0>>
RECURSIVE ModelValueAt(_, _)
ModelValueAt(x, depth) ==
  CASE depth >= MaxDepth -> NoValue
    [] Kind(x) = "stored" -> Decayed(x)
    [] Kind(x) = "list" ->
         LET items == [i \in DOMAIN x[2] |-> ModelValueAt(x[2][i], depth + 1)]
         IN  IF \E i \in DOMAIN items : items[i] = NoValue THEN NoValue ELSE List(items)
    [] Kind(x) \in {"map", "node", "rel", "path"} -> NoValue
    [] OTHER -> x
ModelValueOf(x) == ModelValueAt(x, 0)

(* encode_index_value; <<>> stands for a value no index holds.               *)
EncodeModelValue(x) == IF Kind(x) = "null" \/ ~Encodable(x) THEN <<>> ELSE EncodeValue(x)
EncodeIndexValue(x) ==
  IF ModelValueOf(x) = NoValue THEN <<>> ELSE EncodeModelValue(ModelValueOf(x))
Concat(parts) == IF \E i \in DOMAIN parts : parts[i] = <<>> THEN <<>> ELSE Flat(parts)

(* Ids are the encoded logical keys of the stored maps.                      *)
NodeId(at) == <<at.label>> \o EncodeValue(List(at.key))
EdgeId(e) == NodeId(e.src) \o <<e.rtype>> \o NodeId(e.dst) \o EncodeValue(e.disc)
At(n) == [label |-> n.label, key |-> n.key]

---------------------------------------------------------------------------
(* Schema and runtime entities                                               *)

(* A schema is [keys, types, discs, indexes].                                *)
KeyNames(schema, label) == IF label \in DOMAIN schema.keys THEN schema.keys[label] ELSE <<>>
Positions(seq, x) == {i \in DOMAIN seq : seq[i] = x}
Has(seq, x) == Positions(seq, x) /= {}

(* node_value: key values are exposed under their names unless the record    *)
(* holds that name.                                                          *)
NodeValue(n, schema) ==
  LET names == KeyNames(schema, n.label)
      exposed == {names[i] : i \in DOMAIN names \cap DOMAIN n.key} \ DOMAIN n.props
      at(p) == CHOOSE i \in DOMAIN names : names[i] = p
  IN  [id |-> NodeId(At(n)), labels |-> <<n.label>> \o n.secondary,
       properties |-> [p \in DOMAIN n.props \cup exposed |->
                         ConvertValue(IF p \in DOMAIN n.props THEN n.props[p] ELSE n.key[at(p)])]]

(* rel_value: the key's discriminator wins over the record.                  *)
RelProperties(e, discs) ==
  LET named == {discs[t] : t \in DOMAIN discs \cap {e.rtype}}
  IN  [p \in DOMAIN e.props \cup named |->
         ConvertValue(IF p \in named THEN e.disc ELSE e.props[p])]
RelValue(e, schema) ==
  [id |-> EdgeId(e), type |-> e.rtype, start |-> NodeId(e.src), end |-> NodeId(e.dst),
   properties |-> RelProperties(e, schema.discs)]

RECURSIVE InOrder(_)
InOrder(S) ==
  IF S = {} THEN <<>>
  ELSE LET first == CHOOSE x \in S : \A y \in S : SeqCompare(x.id, y.id) <= 0
       IN  <<first>> \o InOrder(S \ {first})
NodeValues(v) == InOrder({NodeValue(n, v.schema) : n \in v.nodes})
RelValues(v) == InOrder({RelValue(e, v.schema) : e \in v.edges})

---------------------------------------------------------------------------
(* Declared indexes (index.rs)                                               *)

Bears(labels, label) == Has(labels, label)

(* index_entry_key: a key property is read from the key by its position in   *)
(* the primary label's tuple; one absent, null or NaN component means no     *)
(* entry.                                                                    *)
IndexedValues(n, def, schema) ==
  [i \in DOMAIN def.properties |->
     LET p == def.properties[i]
         at == Positions(KeyNames(schema, n.label), p)
     IN  IF at /= {} THEN n.key[CHOOSE j \in at : TRUE]
         ELSE IF p \in DOMAIN n.props THEN n.props[p] ELSE Null]
IndexHead(def) == <<def.label>> \o EncodeValue(List([i \in DOMAIN def.properties |-> Whole(def.properties[i])]))
IndexEntries(n, def, schema) ==
  LET values == IndexedValues(n, def, schema)
  IN  IF /\ Bears(<<n.label>> \o n.secondary, def.label)
         /\ \A i \in DOMAIN values : values[i] /= Null /\ Encodable(values[i])
      THEN {[id |-> IndexHead(def) \o EncodeValue(List(values)) \o NodeId(At(n)), node |-> NodeId(At(n))]}
      ELSE {}

(* build_full and rebuild_all.                                               *)
BuildFull(nodes, def, schema) == UNION {IndexEntries(n, def, schema) : n \in nodes}
RebuildAll(nodes, schema) == [name \in DOMAIN schema.indexes |-> BuildFull(nodes, schema.indexes[name], schema)]

(* maintain: an existing index moves by the touched nodes' old and new       *)
(* entries, a new one is built in full.                                      *)
Maintained(entries, before, after, def, schema) ==
  (entries \ UNION {IndexEntries(n, def, schema) : n \in before})
    \cup UNION {IndexEntries(n, def, schema) : n \in after}
MaintainAll(indexes, base, new, schema) ==
  [name \in DOMAIN schema.indexes |->
     IF name \in DOMAIN indexes
     THEN Maintained(indexes[name], base \ new, new \ base, schema.indexes[name], schema)
     ELSE BuildFull(new, schema.indexes[name], schema)]

NewVersion(nodes, edges, schema, merging, estimate, broken) ==
  [nodes |-> nodes, edges |-> edges, schema |-> schema, index |-> RebuildAll(nodes, schema),
   merging |-> merging, estimate |-> estimate, broken |-> broken]

---------------------------------------------------------------------------
(* The answer of a source: some is FALSE when it cannot serve the call, and  *)
(* failed records that a store read failed (fail, take_error).               *)

Served(items) == [some |-> TRUE, items |-> items, failed |-> FALSE]
CannotServe == [some |-> FALSE, items |-> <<>>, failed |-> FALSE]
ReadFailed(some) == [some |-> some, items |-> <<>>, failed |-> TRUE]

HasLabels(n, labels) == \A i \in DOMAIN labels : Has(n.labels, labels[i])

RECURSIVE Distinct(_)
Distinct(seq) ==
  IF seq = <<>> THEN <<>>
  ELSE LET front == Distinct(SubSeq(seq, 1, Len(seq) - 1))
           last == seq[Len(seq)]
       IN  IF Has(front, last) THEN front ELSE Append(front, last)

---------------------------------------------------------------------------
(* Ranges of index values                                                    *)

NoBound == <<>>
Unbounded == <<"open", <<>>>>
Included(bytes) == <<"in", bytes>>
Excluded(bytes) == <<"out", bytes>>

Within(bytes, range) ==
  /\ range[1][1] = "in" => SeqCompare(bytes, range[1][2]) >= 0
  /\ range[1][1] = "out" => SeqCompare(bytes, range[1][2]) > 0
  /\ range[2][1] = "in" => SeqCompare(bytes, range[2][2]) <= 0
  /\ range[2][1] = "out" => SeqCompare(bytes, range[2][2]) < 0

Abs(n) == IF n < 0 THEN -n ELSE n
Imprecise(x) == Abs(AsF64(x)) >= 2 * ExactLimit

(* The least integer above a bound and the greatest below it.                *)
IntAbove(x, inclusive) ==
  LET h == AsF64(x) IN IF h % 2 = 0 THEN IF inclusive THEN h \div 2 ELSE (h \div 2) + 1 ELSE (h + 1) \div 2

IntBelow(x, inclusive) ==
  LET h == AsF64(x) IN IF h % 2 = 0 THEN IF inclusive THEN h \div 2 ELSE (h \div 2) - 1 ELSE (h - 1) \div 2

Ranged(ok, start, end) == [ok |-> ok, range |-> <<start, end>>]
CannotRange == Ranged(FALSE, Unbounded, Unbounded)
Edge(bytes, inclusive) == IF inclusive THEN Included(bytes) ELSE Excluded(bytes)

(* int_family_range and float_family_range.                                  *)
IntFamilyRange(lower, upper) ==
  IF \/ lower /= NoBound /\ Kind(lower[1]) = "float" /\ Imprecise(lower[1])
     \/ upper /= NoBound /\ Kind(upper[1]) = "float" /\ Imprecise(upper[1])
  THEN CannotRange
  ELSE Ranged(TRUE,
         CASE lower = NoBound -> Included(<<4>>)
           [] Kind(lower[1]) = "int" -> Edge(<<4, lower[1][2]>>, lower[2])
           [] OTHER -> Included(<<4, IntAbove(lower[1], lower[2])>>),
         CASE upper = NoBound -> Excluded(<<5>>)
           [] Kind(upper[1]) = "int" -> Edge(<<4, upper[1][2]>>, upper[2])
           [] OTHER -> Included(<<4, IntBelow(upper[1], upper[2])>>))
FloatFamilyRange(lower, upper) ==
  IF \/ lower /= NoBound /\ Kind(lower[1]) = "int" /\ Imprecise(lower[1])
     \/ upper /= NoBound /\ Kind(upper[1]) = "int" /\ Imprecise(upper[1])
  THEN CannotRange
  ELSE Ranged(TRUE,
         IF lower = NoBound THEN Included(<<5>>) ELSE Edge(<<5, AsF64(lower[1])>>, lower[2]),
         IF upper = NoBound THEN Excluded(<<6>>) ELSE Edge(<<5, AsF64(upper[1])>>, upper[2]))

(* range_families: the byte ranges a range predicate must cover.             *)
Families(ok, ranges) == [ok |-> ok, ranges |-> ranges]
NumericBound(b) == b = NoBound \/ IsNumber(b[1])
NeverTrue(b) == b /= NoBound /\ (Kind(b[1]) = "null" \/ IsNaN(b[1]))
OneFamily(lower, upper) ==
  LET low == IF lower = NoBound THEN <<>> ELSE EncodeIndexValue(lower[1])
      high == IF upper = NoBound THEN <<>> ELSE EncodeIndexValue(upper[1])
      family == IF lower = NoBound THEN high[1] ELSE low[1]
  IN  IF \/ lower /= NoBound /\ low = <<>>
         \/ upper /= NoBound /\ high = <<>>
         \/ lower /= NoBound /\ upper /= NoBound /\ low[1] /= high[1]
      THEN <<>>
      ELSE << <<IF lower = NoBound THEN Included(<<family>>) ELSE Edge(low, lower[2]),
                IF upper = NoBound THEN Excluded(<<family + 1>>) ELSE Edge(high, upper[2])>> >>
RangeFamilies(lower, upper) ==
  CASE NeverTrue(lower) \/ NeverTrue(upper) -> Families(TRUE, <<>>)
    [] lower = NoBound /\ upper = NoBound -> Families(FALSE, <<>>)
    [] NumericBound(lower) /\ NumericBound(upper) ->
         LET ints == IntFamilyRange(lower, upper)
             floats == FloatFamilyRange(lower, upper)
         IN  IF ints.ok /\ floats.ok THEN Families(TRUE, <<ints.range, floats.range>>) ELSE Families(FALSE, <<>>)
    [] OTHER -> Families(TRUE, OneFamily(lower, upper))
=============================================================================
