------------------------------- MODULE MCData -------------------------------
(***************************************************************************)
(* The pure functions of the data layer, checked over bounded inputs: each  *)
(* step of the specification picks one case, and the invariants compare     *)
(* what the translated code computes for it with a reference definition.    *)
(***************************************************************************)
EXTENDS Integers, Sequences, SequencesExt, FiniteSets, TLC

VARIABLE case

K == INSTANCE KeyEncoding WITH Width <- 4, FracBits <- 1, Group <- 2, Day <- 3, MaxOffset <- 1, MaxDepth <- 1
F16Format == [eb |-> 2, fb |-> 2, bias |-> 1]
F64Format == [eb |-> 4, fb |-> 4, bias |-> 7]
C == INSTANCE Cbor WITH Base <- 4, Imm <- 3, Day <- 18, MaxOffset <- 4, MaxDepth <- 1, Unit <- 10,
       F16 <- F16Format, F32 <- [eb |-> 3, fb |-> 3, bias |-> 3],
       F64 <- F64Format,
       TagNum <- [date |-> 2, time |-> 5, datetime |-> 6, duration |-> 7]
FieldNames == <<"", "a", "b", "_id", "key", "aaa", "disc", "nodes", "types", "label", "schema", "exists",
                "unique", "string", "indexes", "surrogate", "conflicts", "edges_fwd", "edges_rev",
                "properties", "chunk_params", "int">>
F == INSTANCE Formats WITH Names <- FieldNames, TypeNames <- {"int", "string"}, MaxHeight <- 2,
       MaxBytes <- 3, MaskBits <- 2, Hashes <- {"h1", "h2"}, Decoders <- {1}
I == INSTANCE ImportMapping
R == INSTANCE ConstraintReports

Strings(alphabet, n) == UNION {[1..k -> alphabet] : k \in 0..n}
Vals(t, payloads) == {[t |-> t, v |-> p] : p \in payloads}

---------------------------------------------------------------------------
(* Keys                                                                      *)

KeyScalars == <<Vals("null", {0}), Vals("bool", BOOLEAN), Vals("int", -8..7), Vals("float", 0..15),
                Vals("string", Strings({0, 1}, 4)), Vals("bytes", Strings({0, 255}, 3)),
                Vals("date", {-8, 0, 7}), Vals("time", 0..3), Vals("datetime", (-1..1) \X (-2..2)),
                Vals("duration", {<<0, -1, 0>>, <<0, 0, -8>>, <<1, 0, 0>>})>>
KeyElems == <<K!Value("null", 0), K!Value("int", -1), K!Value("int", 2), K!Value("string", <<>>),
              K!Value("string", <<0>>), K!Value("string", <<0, 0>>), K!Value("bytes", <<255, 255>>),
              K!Value("bytes", <<255, 255, 0>>), K!Value("list", <<>>),
              K!Value("list", <<K!Value("null", 0)>>), K!Value("list", <<K!Value("list", <<>>)>>)>>
KeyTuples == {<<>>} \cup {<<KeyElems[i]>> : i \in DOMAIN KeyElems}
               \cup {<<KeyElems[i], KeyElems[j]>> : i \in DOMAIN KeyElems, j \in DOMAIN KeyElems}

ComparePair ==
  \/ \E i \in DOMAIN KeyScalars, j \in DOMAIN KeyScalars :
       \E x \in KeyScalars[i], y \in KeyScalars[j] :
         case' = [op |-> "keys", a |-> <<x>>, b |-> <<y>>]
  \/ \E a \in KeyTuples, b \in KeyTuples : case' = [op |-> "keys", a |-> a, b |-> b]
DecodeBytes ==
  \E s \in Strings({0, 1, 4, 5, 6, 8, 12, 247, 248, 255}, 4) : case' = [op |-> "bytes", s |-> s]

Encodable(a) == K!KeyEncodable(a)

(* The store orders entries by their encoded bytes: for any two encodable    *)
(* tuples the bytes compare as key_cmp does, and one encoding is a prefix of *)
(* another exactly when the tuple is a prefix of the other tuple up to the   *)
(* sign of zero (keys.rs: "byte order equals logical order").                *)
ByteOrderIsKeyOrder ==
  case.op = "keys" =>
    (Encodable(case.a) /\ Encodable(case.b) =>
       LET ea == K!EncodeKey(case.a)
           eb == K!EncodeKey(case.b)
       IN  /\ K!SeqCmp(ea, eb) = K!KeyCmp(case.a, case.b)
           /\ IsPrefix(ea, eb) <=>
                /\ Len(case.a) <= Len(case.b)
                /\ K!KeyCmp(case.a, SubSeq(case.b, 1, Len(case.a))) = 0)

(* decode_key is the exact inverse of encode_key: what an encodable tuple    *)
(* encodes to decodes to an equal tuple, and a byte string that decodes at   *)
(* all is the encoding of what it decodes to, so no two byte strings name    *)
(* the same key.                                                             *)
KeyDecodingIsStrict ==
  /\ case.op = "keys" =>
       (Encodable(case.a) =>
          LET d == K!DecodeKey(K!EncodeKey(case.a))
          IN  ~K!Failed(d) /\ K!KeyCmp(d.v[1], case.a) = 0)
  /\ case.op = "bytes" =>
       LET d == K!DecodeKey(case.s)
       IN  K!Failed(d) \/ (Encodable(d.v[1]) /\ K!EncodeKey(d.v[1]) = case.s)

GraphLabels == {<<1>>, <<1, 1>>, <<1, 1, 0>>}
GraphNodes == {[label |-> l, key |-> k] :
                 l \in GraphLabels,
                 k \in {<<K!Value("int", 1)>>, <<K!Value("int", 1), K!Value("int", 1)>>,
                        <<K!Value("string", <<1>>)>>}}
GraphEdges == {[src |-> s, rtype |-> r, dst |-> d, disc |-> x] :
                 s \in GraphNodes, d \in GraphNodes, r \in {<<1>>, <<1, 1>>},
                 x \in {K!Value("null", 0), K!Value("int", 1)}}
PickEdge == \E e \in GraphEdges, n \in GraphNodes, r \in {<<1>>, <<1, 1>>} :
              case' = [op |-> "edge", e |-> e, n |-> n, r |-> r]
PickNode == \E n \in GraphNodes, l \in GraphLabels : case' = [op |-> "node", n |-> n, l |-> l]
IndexValues == {<<K!Value("string", <<1>>)>>, <<K!Value("string", <<1, 1>>)>>, <<K!Value("int", 1)>>, <<K!Value("int", 1), K!Value("int", 2)>>}
PickIndex ==
  \E n \in GraphNodes, vs \in IndexValues, ws \in IndexValues, l \in GraphLabels, ps \in {<<<<1>>>>, <<<<1>>, <<2>>>>} :
    /\ Len(vs) = Len(ps) /\ Len(ws) = Len(ps)
    /\ case' = [op |-> "index", n |-> n, vs |-> vs, ws |-> ws, l |-> l, ps |-> ps]

(* Prefix scans return exactly what they are meant to: a label's nodes, an   *)
(* endpoint's edges (of one type) in either direction, and the entries of an *)
(* index equal to a probed tuple, never a neighbour whose name or tuple      *)
(* merely starts the same.                                                   *)
PrefixScansAreExact ==
  /\ case.op = "node" =>
       (K!InScan(K!EncodeNode(case.n), K!NodeLabelPrefix(case.l)) <=> case.n.label = case.l)
  /\ case.op = "edge" =>
       LET fwd == K!EncodeFwd(case.e)
           rev == K!EncodeRev(case.e)
       IN  /\ K!InScan(fwd, K!EndpointPrefix(case.n)) <=> case.e.src = case.n
           /\ K!InScan(rev, K!EndpointPrefix(case.n)) <=> case.e.dst = case.n
           /\ K!InScan(fwd, K!EndpointTypePrefix(case.n, case.r)) <=>
                case.e.src = case.n /\ case.e.rtype = case.r
  /\ case.op = "index" =>
       LET entry == K!EncodeIndex(case.n.label, case.ps, case.vs, case.n)
       IN  /\ K!InScan(entry, K!IndexPrefix(case.l, case.ps)) <=> case.n.label = case.l
           /\ K!InScan(entry, K!IndexValuePrefix(case.l, case.ps, case.ws)) <=>
                case.n.label = case.l /\ case.vs = case.ws

(* The two edge maps hold the same edges: each key decodes to the edge, with *)
(* the endpoints exchanged in the reverse map, and node keys and index        *)
(* entries decode to what was encoded.                                       *)
GraphKeysRoundTrip ==
  /\ case.op = "node" =>
       LET d == K!DecodeNode(K!EncodeNode(case.n)) IN ~K!Failed(d) /\ d.v[1] = case.n
  /\ case.op = "edge" =>
       LET f == K!DecodeEdge(K!EncodeFwd(case.e))
           r == K!DecodeEdge(K!EncodeRev(case.e))
       IN  /\ ~K!Failed(f) /\ ~K!Failed(r)
           /\ f.v[1] = [first |-> case.e.src, rtype |-> case.e.rtype, second |-> case.e.dst, disc |-> case.e.disc]
           /\ r.v[1] = [first |-> case.e.dst, rtype |-> case.e.rtype, second |-> case.e.src, disc |-> case.e.disc]
  /\ case.op = "index" =>
       LET d == K!DecodeIndex(K!EncodeIndex(case.n.label, case.ps, case.vs, case.n))
       IN  /\ ~K!Failed(d)
           /\ d.v[1] = [label |-> case.n.label, props |-> case.ps, values |-> case.vs, node |-> case.n]
---------------------------------------------------------------------------
(* Canonical CBOR                                                            *)

CborInts == {-32768, -257, -256, -17, -5, -4, -1, 0, 1, 2, 3, 4, 15, 16, 255, 256, 32767}
CborValues == <<Vals("null", {0}), Vals("bool", BOOLEAN), Vals("int", CborInts), Vals("float", 0..511),
                Vals("string", Strings({1}, 5)), Vals("bytes", Strings({0, 3}, 2)), Vals("date", {-5, 0, 300}),
                Vals("time", {0, 4, 17}), Vals("datetime", {<<0, 4>>, <<-5, -4>>}),
                Vals("duration", {<<0, -1, 5>>}),
                Vals("list", {<<>>, <<C!Value("int", 3)>>, <<C!Value("null", 0), C!Value("string", <<1>>)>>,
                              <<C!Value("list", <<C!Value("bool", TRUE)>>)>>})>>

(* One edit of an encoding: an element replaced or appended, or the end cut. *)
Edits(s, alphabet) ==
  {[s EXCEPT ![i] = b] : i \in DOMAIN s, b \in alphabet} \cup {Append(s, b) : b \in alphabet}
    \cup {SubSeq(s, 1, Len(s) - 1)}
HeadBytes == {32 * m + a : m \in 0..7, a \in {0, 1, 2, 24, 25, 26}}
Bodies == {0, 1, 3, 13, 14, 47, 90, 240, 243, 251, 511}

PickValue == \E i \in DOMAIN CborValues : \E x \in CborValues[i] : case' = [op |-> "value", x |-> x]
EditValue ==
  \E i \in DOMAIN CborValues : \E x \in CborValues[i] :
    /\ x.t = "float" => x.v \in Bodies
    /\ \E s \in Edits(C!WriteValue(x), HeadBytes \cup Bodies) : case' = [op |-> "cbor", s |-> s]
LongHead ==
  \E a \in 24..27, n \in {0, 2, 3, 4, 15, 16, 255, 256, 300} : \E m \in {0, 1, 3} :
    case' = [op |-> "cbor", s |-> <<32 * m + a>> \o C!BigEndian(n, 2 ^ (a - 24)) \o <<1, 1, 1, 1>>]
PickFloat == \E ai \in 25..27 : \E b \in 0..511 : case' = [op |-> "cbor", s |-> <<224 + ai, b>>]
PickNames == \E a \in Strings({1, 2}, 5), b \in Strings({1, 2}, 5) : case' = [op |-> "names", a |-> a, b |-> b]

Canonical(x) == IF x.t = "float" THEN IF C!IsNan(F64Format, x.v) THEN [x EXCEPT !.v = C!CanonicalNan] ELSE x ELSE x

(* decode_value accepts exactly what encode_value produces: every value      *)
(* round-trips (NaN payloads collapse), and an edited encoding that still    *)
(* decodes is the canonical encoding of what it decodes to (values.rs:       *)
(* "decode(bytes) succeeding implies encode(decode(bytes)) == bytes").       *)
CborIsCanonical ==
  /\ case.op = "value" =>
       (C!Encodable(case.x, 0) =>
          LET d == C!DecodeValue(C!WriteValue(case.x)) IN ~C!Failed(d) /\ d.v[1] = Canonical(case.x))
  /\ case.op = "cbor" =>
       LET d == C!DecodeValue(case.s)
       IN  C!Failed(d) \/ (C!Encodable(d.v[1], 0) /\ C!WriteValue(d.v[1]) = case.s)

(* f16_from_f64_exact finds a half-precision pattern exactly when one        *)
(* denotes the same number, subnormals, zeros and infinities included, and   *)
(* the pattern it returns is that one.                                       *)
HalfPrecisionIsExact ==
  case.op = "value" =>
    (case.x.t = "float" =>
       (~C!IsNan(F64Format, case.x.v) =>
          LET n == C!Number(F64Format, case.x.v)
              same == {h \in C!Patterns(F16Format) : ~C!IsNan(F16Format, h) /\ C!Number(F16Format, h) = n}
          IN  same = IF C!F16Exact(case.x.v) = C!None16 THEN {} ELSE {C!F16Exact(case.x.v)}))

(* canonical_str_cmp, the order records sort names by, is the bytewise order *)
(* of the encoded names in every length regime of the head.                  *)
NameOrderIsEncodedOrder ==
  case.op = "names" =>
    (C!CanonicalBefore(case.a, case.b) <=> C!SeqBefore(C!WriteText(case.a), C!WriteText(case.b)))

RecordNames == {<<1>>, <<2>>, <<1, 1>>}
RecordProps == UNION {[n -> Vals("int", {0, 3})] : n \in SUBSET RecordNames}
PickRecord == \E l \in SUBSET RecordNames, p \in RecordProps : case' = [op |-> "record", l |-> l, p |-> p]
EditRecord ==
  \E l \in {{}, {<<1>>, <<2>>}}, p \in RecordProps :
    \E s \in Edits(C!EncodeNodeRecord(l, p), HeadBytes \cup 0..3) : case' = [op |-> "stored", s |-> s]

(* Equal records have equal bytes and stored bytes have one reading: node    *)
(* and edge records round-trip whatever order the maps were filled in, and   *)
(* an edited record that still decodes is the canonical encoding of what it  *)
(* decodes to, with no duplicate and no misplaced name.                      *)
RecordsAreCanonical ==
  /\ case.op = "record" =>
       LET d == C!DecodeNodeRecord(C!EncodeNodeRecord(case.l, case.p))
           e == C!DecodeEdgeRecord(C!EncodeEdgeRecord(case.p))
       IN  /\ ~C!Failed(d) /\ d.v[1] = [labels |-> case.l, props |-> case.p]
           /\ ~C!Failed(e) /\ e.v[1] = case.p
  /\ case.op = "stored" =>
       LET d == C!DecodeNodeRecord(case.s)
       IN  C!Failed(d) \/ C!EncodeNodeRecord(d.v[1].labels, d.v[1].props) = case.s

---------------------------------------------------------------------------
(* Schema entries and the manifest                                           *)

SomeTypes == {<<>>, [n \in {"a"} |-> "int"], [n \in {"a", "_id"} |-> "string"]}
Labels == [key : {<<"a">>, <<"_id">>, <<"b", "a">>}, surrogate : BOOLEAN, types : SomeTypes,
           exists : SUBSET {"a", "b"}, unique : {{}, {"a"}, {"b", "aaa"}}]
RelTypes == [disc : {<<>>, <<"a">>}, types : SomeTypes, exists : SUBSET {"a", "aaa"}]
Indexes == [label : {"a"}, properties : {<<"b">>, <<"b", "a">>}]
MapRoots == [hash : {"h1"}, height : {1, 2}]
Root1 == [hash |-> "h2", height |-> 1]
Manifests == [nodes : MapRoots, schema : {Root1}, edges_fwd : {Root1}, edges_rev : MapRoots,
              indexes : UNION {[n -> {Root1}] : n \in SUBSET {"b", "_id", "aaa"}},
              conflicts : {<<>>, <<Root1>>}, params : {<<1, 0, 3>>, <<2, 1, 2>>}]
Items == {<<"text", n>> : n \in {"", "a", "b", "aaa", "types", "int"}} \cup {<<"bool", TRUE>>, <<"null", 0>>}
           \cup {<<k, n>> : k \in {"map", "array", "num"}, n \in {0, 1, 2, 6, 7}} \cup {<<"bytes", "h3">>}
Swaps(s) == {[s EXCEPT ![i] = s[i + 1], ![i + 1] = s[i]] : i \in 1..(Len(s) - 1)}
Tampered(s) == Edits(s, Items) \cup Swaps(s)

PickLabel == \E d \in Labels : F!LabelOk(d) /\ case' = [op |-> "label", d |-> d]
PickRelType == \E d \in RelTypes : case' = [op |-> "rtype", d |-> d]
PickIndexDef == \E d \in Indexes : case' = [op |-> "indexdef", d |-> d]
PickManifest == \E m \in Manifests : case' = [op |-> "manifest", d |-> m]
EditSchema ==
  \/ \E d \in {d \in Labels : F!LabelOk(d) /\ d.exists /= {"a"}} :
       \E s \in Tampered(F!EncodeLabel(d)) : case' = [op |-> "row", kind |-> "label", s |-> s]
  \/ \E d \in RelTypes : \E s \in Tampered(F!EncodeRelType(d)) : case' = [op |-> "row", kind |-> "rtype", s |-> s]
  \/ \E d \in Indexes : \E s \in Tampered(F!EncodeIndex(d)) : case' = [op |-> "row", kind |-> "index", s |-> s]
EditManifest ==
  \E m \in {m \in Manifests : m.nodes.height = 1 /\ m.edges_rev.height = 2 /\ m.params = <<1, 0, 3>>}, v \in {1, 2} :
    \E s \in Tampered(F!EncodeManifest(v, m)) : case' = [op |-> "body", v |-> v, s |-> s]
PickSurrogate ==
  \E t \in SomeTypes, e \in SUBSET {"a"}, u \in {{}, {"_id"}, {"b"}} :
    case' = [op |-> "surrogate", t |-> t, e |-> e, u |-> u]

(* A schema row has one encoding: each definition round-trips, a row edited  *)
(* in one item decodes only if it is itself the encoding of a valid          *)
(* definition, and what LabelDef::surrogate builds survives the round trip   *)
(* with its `_id` a string.                                                  *)
SchemaRowsAreCanonical ==
  /\ case.op = "label" => F!DecodeLabel(F!EncodeLabel(case.d)) = F!Read(case.d, <<>>)
  /\ case.op = "rtype" => F!DecodeRelType(F!EncodeRelType(case.d)) = F!Read(case.d, <<>>)
  /\ case.op = "indexdef" => F!DecodeIndex(F!EncodeIndex(case.d)) = F!Read(case.d, <<>>)
  /\ case.op = "surrogate" =>
       LET r == F!Surrogate(case.t, case.e, case.u)
       IN  F!Failed(r) \/ (r.v[1].types["_id"] = "string" /\ F!DecodeLabel(F!EncodeLabel(r.v[1])) = r)
  /\ case.op = "row" =>
       LET d == CASE case.kind = "label" -> F!DecodeLabel(case.s)
                  [] case.kind = "rtype" -> F!DecodeRelType(case.s)
                  [] case.kind = "index" -> F!DecodeIndex(case.s)
       IN  F!Failed(d) \/ case.s = CASE case.kind = "label" -> F!EncodeLabel(d.v[1])
                                     [] case.kind = "rtype" -> F!EncodeRelType(d.v[1])
                                     [] case.kind = "index" -> F!EncodeIndex(d.v[1])

(* A manifest names one graph version: it round-trips with and without a     *)
(* conflicts map, an edited one decodes only to a manifest it is the         *)
(* encoding of, and a version without a decoder never decodes.               *)
ManifestIsCanonical ==
  /\ case.op = "manifest" => F!DecodeManifest(F!EncodeManifest(1, case.d)) = F!Read(case.d, <<>>)
  /\ case.op = "body" =>
       LET d == F!DecodeManifest(case.s)
       IN  F!Failed(d) \/ F!EncodeManifest(1, d.v[1]) = case.s

---------------------------------------------------------------------------
(* Constraint checks                                                         *)

Prop == 1..2
Defs == [key : {<<1>>}, exists : {{}, {2}, {1, 2}}, unique : {{}, {2}},
         types : {<<>>, [p \in {1} |-> "int"], [p \in {1, 2} |-> IF p = 1 THEN "int" ELSE "float"]}]
Nodes == {[label |-> l, key |-> <<x>>] : l \in 1..2, x \in {I!Val("int", 1), I!Val("string", 2)}}
Held == {<<>>} \cup [{2} -> {I!Val("int", 1), I!Val("string", 5), I!Val("float", 3)}]
NodeSets == UNION {[n -> Held] : n \in {n \in SUBSET Nodes : Cardinality(n) <= 2}}

PickUpsert ==
  \E d \in Defs, ns \in NodeSets, k \in Nodes, r \in Held :
    case' = [op |-> "upsert", labels |-> [l \in {1} |-> d], nodes |-> ns, k |-> k, r |-> r]
PickBackfill ==
  \E d \in Defs, ns \in NodeSets : case' = [op |-> "backfill", d |-> d, nodes |-> ns]

(* The single-write check and the declare-time check agree with the bulk     *)
(* validator: check_upsert reports what check_nodes would report of the      *)
(* written key over the resulting nodes, and check_label what it would       *)
(* report of the whole label; its report is empty unless a node is Breached. *)
ChecksAgree ==
  /\ case.op = "upsert" =>
       LET after == I!Put(case.nodes, case.k, case.r)
           report == R!CheckNodes(case.labels, after, {case.k})
       IN  /\ R!CheckUpsert(case.labels, case.nodes, case.k, case.r) = report
           /\ report = <<>> <=> ~I!Breached(case.labels, after, {case.k})
  /\ case.op = "backfill" =>
       LET labels == [l \in {1} |-> case.d]
           report == R!CheckNodes(labels, case.nodes, DOMAIN case.nodes)
       IN  /\ R!CheckLabel(case.nodes, 1, case.d) = report
           /\ report = <<>> <=> ~I!Breached(labels, case.nodes, DOMAIN case.nodes)

---------------------------------------------------------------------------
(* Import mapping                                                            *)

Fields == 1..3
Cells == {I!Null, I!Val("int", 1), I!Val("float", 3), I!Val("string", 1), I!Val("string", 5)}
Rows == UNION {[f -> Cells] : f \in SUBSET Fields}
TypeMaps == {<<>>, [p \in {1} |-> "int"], [p \in {1, 2} |-> IF p = 1 THEN "int" ELSE "float"],
             [p \in {1} |-> "string"]}
KeyDefs == [key : {<<1>>, <<2, 1>>}, exists : {{}}, unique : {{}}, types : TypeMaps]
RelDefs == [disc : {{}, {3}}, types : {<<>>, [p \in {3} |-> "int"]}]
Specs == {[label |-> 1, fields |-> <<1>>], [label |-> 1, fields |-> <<2>>], [label |-> 1, fields |-> <<2, 2>>]}

PickCoerce == \E x \in Cells, t \in {"any", "bool", "int", "float", "string", "date"} :
                case' = [op |-> "coerce", x |-> x, type |-> t]
PickRow == \E d \in KeyDefs, row \in Rows : case' = [op |-> "row-node", d |-> d, row |-> row]
PickEdgeRow ==
  \E row \in Rows, from \in Specs, to \in Specs, rd \in RelDefs, disc \in {{}, {3}}, kd \in KeyDefs :
    /\ Len(kd.key) = 1
    /\ case' = [op |-> "row-edge", row |-> row, rd |-> rd, kd |-> kd,
                m |-> I!BuildMapping({}, {"T"}, {from}, {to}, disc)]

(* Import and the write path accept the same values (schema.rs: "a value     *)
(* accepted by one is accepted by all"): a coerced value conforms to the     *)
(* declared type, a conforming value is accepted, and a node or edge that    *)
(* import stages never fails the save-time type check.                       *)
CoercionConforms ==
  /\ case.op = "coerce" =>
       LET y == I!Coerce(case.x, case.type)
       IN  /\ I!IsError(y) \/ case.type = "any" \/ I!Matches(case.type, y)
           /\ I!Matches(case.type, case.x) => ~I!IsError(y)
  /\ case.op = "row-node" =>
       LET n == I!NodeKeyAndRecord(1, case.d, case.row)
       IN  I!IsError(n) \/ R!TypeViolations(n.key, n.record, case.d) = <<>>
  /\ case.op = "row-edge" =>
       LET e == IF I!IsError(case.m) THEN case.m ELSE I!MapRow(case.row, case.m)
           put == IF I!IsError(e) THEN e ELSE I!EdgePut([l \in {1} |-> case.kd], case.rd, e)
       IN  I!IsError(put) \/ I!RelTypeViolations(put, put.record, case.rd) = {}

(* A node row is split, not copied: every field of an accepted row is either *)
(* a key value or a record property, none is both, and an edge row naming    *)
(* the same field values resolves to the very key the node was given.        *)
KeySplitIsLossless ==
  case.op = "row-node" =>
    LET n == I!NodeKeyAndRecord(1, case.d, case.row)
    IN  I!IsError(n) \/
          /\ DOMAIN n.record = DOMAIN case.row \ Range(case.d.key)
          /\ I!EndpointKey([l \in {1} |-> case.d],
                           [label |-> 1, key |-> [i \in DOMAIN case.d.key |-> case.row[case.d.key[i]]]]) = n.key

(* The fields of an accepted edge row are shared out: endpoint fields,       *)
(* discriminator and properties never overlap and leave nothing over, and a  *)
(* discriminated type never gets a default identity.                         *)
EdgeRowIsPartitioned ==
  case.op = "row-edge" =>
    LET e == IF I!IsError(case.m) THEN case.m ELSE I!MapRow(case.row, case.m)
    IN  I!IsError(e) \/
          /\ DOMAIN e.props = DOMAIN case.row \ (Range(case.m.from.fields) \cup Range(case.m.to.fields) \cup case.m.disc)
          /\ Range(case.m.from.fields) \cap Range(case.m.to.fields) = {}
          /\ LET put == I!EdgePut([l \in {1} |-> case.kd], case.rd, e)
             IN  I!IsError(put) \/ ((case.rd.disc = {}) <=> put.disc.t = "null")

MaxLine == 2
PickSource == \E s \in Strings({"x", "cr", "lf"}, 6) : case' = [op |-> "lines", s |-> s]
RECURSIVE SplitAt(_)
SplitAt(s) ==
  IF s = <<>> THEN <<>>
  ELSE LET n == I!FirstLf(s) IN <<I!TrimEnd(SubSeq(s, 1, n))>> \o SplitAt(SubSeq(s, n + 1, Len(s)))

(* The bounded line reader loses nothing: when no line, stripped of its      *)
(* terminator, is longer than the bound, the records it yields are the       *)
(* non-blank lines in order; a longer line whose first MaxLine + 1 bytes are *)
(* content ends the import with an error rather than being cut.              *)
BoundedLinesAreLines ==
  case.op = "lines" =>
    LET lines == SelectSeq(SplitAt(case.s), LAMBDA l : l /= <<>>)
        read == I!NdjsonLines(case.s, MaxLine)
    IN  /\ (\A i \in DOMAIN lines : Len(lines[i]) <= MaxLine) => read = lines
        /\ (\E i \in DOMAIN lines : Len(lines[i]) > MaxLine /\ lines[i][MaxLine + 1] = "x") =>
             \E i \in DOMAIN read : read[i] = I!TooLong

---------------------------------------------------------------------------
Init == case = [op |-> "start"]
KeyCases == ComparePair \/ DecodeBytes \/ PickEdge \/ PickNode \/ PickIndex
Encodings == PickValue \/ EditValue \/ LongHead \/ PickFloat \/ PickNames \/ PickRecord \/ EditRecord
SchemaAndManifest == PickLabel \/ PickRelType \/ PickIndexDef \/ PickManifest \/ EditSchema \/ EditManifest \/ PickSurrogate
Checks == PickUpsert \/ PickBackfill \/ PickCoerce \/ PickRow \/ PickEdgeRow \/ PickSource
DataNext == case.op = "start" /\ (KeyCases \/ Encodings \/ SchemaAndManifest \/ Checks)

---------------------------------------------------------------------------
(***************************************************************************)
(* Small repositories for Fsck, sound and damaged: a version that is fixed,*)
(* one that differs from it in some maps, and the refs, workspaces, anchors*)
(* and commits that reach them.  A state holds one repository; the         *)
(* invariants compare what fsck reports of it with what its checks say of  *)
(* each version taken alone.                                               *)
(***************************************************************************)

Z == INSTANCE Fsck WITH MaxSymrefDepth <- 3, MaxTagPeelDepth <- 2

MapOf(leaves, entries, params) ==
    [leaves |-> leaves, entries |-> entries, canonical |-> params, decodes |-> TRUE]
WorldMaps ==
    1 :> MapOf({51}, {<<1, TRUE>>, <<2, TRUE>>}, {1, 2}) @@ 2 :> MapOf({}, {<<1, TRUE>>, <<2, FALSE>>}, {1})
    @@ 3 :> MapOf({}, {<<1, TRUE>>}, {1}) @@ 4 :> MapOf({}, {<<"index", 1>>}, {1})
    @@ 5 :> MapOf({}, {<<"index", 1>>, <<"required">>, <<"typed">>}, {1})
    @@ 6 :> MapOf({}, {<<1, 2, TRUE>>}, {1}) @@ 7 :> MapOf({}, {<<1, 2, FALSE>>}, {1})
    @@ 8 :> MapOf({}, {<<1, 2>>}, {1}) @@ 9 :> MapOf({}, {}, {1})
    @@ 10 :> MapOf({}, {1, 2}, {1}) @@ 11 :> MapOf({}, {1}, {1}) @@ 12 :> MapOf({}, {}, {1})
Version1 == [decodes |-> TRUE, params |-> 1, nodes |-> <<1, 2>>, schema |-> <<5, 1>>, fwd |-> <<6, 1>>,
             rev |-> <<8, 1>>, indexes |-> 1 :> <<10, 1>>, conflicts |-> {}]
Version2s ==
    [decodes : {TRUE}, params : {1, 2}, nodes : {<<1, 2>>, <<1, 1>>, <<2, 1>>, <<3, 1>>},
     schema : {<<4, 1>>, <<5, 1>>}, fwd : {<<6, 1>>, <<7, 1>>}, rev : {<<8, 1>>, <<9, 1>>},
     indexes : {<<>>, 1 :> <<10, 1>>, 1 :> <<11, 1>>}, conflicts : {{}, {<<12, 1>>}}]
FewVersions ==
    {[Version1 EXCEPT !.decodes = FALSE], [Version1 EXCEPT !.nodes = <<2, 1>>],
     [Version1 EXCEPT !.conflicts = {<<12, 1>>}], [Version1 EXCEPT !.fwd = <<7, 1>>], Version1,
     [Version1 EXCEPT !.schema = <<5, 2>>], [Version1 EXCEPT !.rev = <<8, 0>>]}

Damages == [missing : {{}, {1}, {51}, {6}}, corrupt : {{}}, garbled : {{}}]
           \cup [missing : {{}}, corrupt : {{5}, {51}}, garbled : {{}, {6}}]
           \cup [missing : {{}}, corrupt : {{}}, garbled : {{6}, {8}}]

\* Objects 200 and 201 are the two manifests, 210.. the trees and commits.
Own == 301
Presplit == 302
Shared == 303
AnchorLive == 304
AnchorStale == 305
Main == 306
Tag == 307
Code == 308
Others == 309
FullAnchors(m) == Z!Anchors("some", {c \in {1, 51} \cup 2..12 : c \in {r[1] : r \in Z!AllRoots(m)}
                                                  \/ (c = 51 /\ <<1, 2>> \in Z!AllRoots(m))})
Shapes(m) == {FullAnchors(m), Z!Anchors("some", FullAnchors(Version1).chunks \ {6}),
              Z!Anchors("none", {}), Z!Anchors("bad", {})}
Blob(m) == [kind |-> "blob", manifest |-> m]
TreeOf(blob, anchors) == [kind |-> "tree", manifest |-> blob, anchors |-> anchors]
CommitOf(m, parents, anchors) == [kind |-> "commit", manifest |-> m, parents |-> parents, anchors |-> anchors]
TagOf(id) == [kind |-> "tag", target |-> id]
Scope(own, branches, tags) == [own |-> own, presplit |-> {}, branches |-> branches, tags |-> tags]
Alone == Scope(Own, {Main, Code}, {Tag})
World(refs, objects) ==
    [refs |-> refs, shared |-> {Shared}, anchors |-> {AnchorLive, AnchorStale}, live |-> {AnchorLive},
     graphs |-> <<>>, invalid |-> {}, alone |-> Alone, main |-> TRUE,
     objects |-> objects, maps |-> WorldMaps, missing |-> {}, corrupt |-> {}]
Direct(id) == <<"object", id>>

\* A branch of two commits, a workspace ahead of its branch, or behind it.
History(m) ==
    {World(Main :> Direct(211),
           210 :> CommitOf(Version1, <<>>, FullAnchors(Version1)) @@ 211 :> CommitOf(m, <<210>>, FullAnchors(m))),
     World(Main :> Direct(210) @@ Own :> Direct(212),
           200 :> Blob(m) @@ 210 :> CommitOf(Version1, <<>>, FullAnchors(Version1)) @@ 212 :> TreeOf(200, FullAnchors(m))),
     World(Main :> Direct(211) @@ Own :> Direct(212),
           200 :> Blob(Version1) @@ 211 :> CommitOf(m, <<>>, FullAnchors(m)) @@ 212 :> TreeOf(200, FullAnchors(Version1)))}
Damage(w, d) == [w EXCEPT !.missing = d.missing, !.corrupt = d.corrupt,
                          !.maps = [h \in DOMAIN @ |-> [@[h] EXCEPT !.decodes = h \notin d.garbled]]]

\* The legacy shared ref, this worktree's workspace and two worktree anchors.
Worktrees(m) ==
    {[World(Shared :> Direct(200) @@ Own :> own @@ AnchorLive :> Direct(213) @@ AnchorStale :> Direct(214),
            200 :> Blob(Version1) @@ 201 :> Blob(m) @@ 212 :> TreeOf(201, a)
            @@ 213 :> TreeOf(IF live = FullAnchors(m) THEN 201 ELSE 200, live) @@ 214 :> TreeOf(200, FullAnchors(Version1)))
        EXCEPT !.main = inMain] :
        own \in {Direct(212), <<"ref", Shared>>}, a \in Shapes(m), live \in {FullAnchors(Version1), FullAnchors(m)},
        inMain \in BOOLEAN}
\* Shapes a foreign tool leaves: symbolic refs, tags, objects of the wrong kind.
Foreign(m) ==
    {World(Main :> main @@ Tag :> tag @@ Own :> <<"ref", Main>> @@ Code :> <<"ref", Tag>>,
           200 :> Blob(m) @@ 210 :> CommitOf(m, <<999>>, FullAnchors(m)) @@ 215 :> TagOf(210) @@ 216 :> TagOf(215)
           @@ 212 :> TreeOf(0, FullAnchors(m)) @@ 217 :> TreeOf(998, FullAnchors(m))) :
        main \in {Direct(210), Direct(215), Direct(200), <<"ref", Code>>, <<"ref", 999>>},
        tag \in {Direct(210), Direct(215), Direct(216), Direct(212), Direct(217), <<"ref", Main>>}}
\* Two graphs beside the user's code, one marker perhaps no graph name.
Tenants(m) ==
    {[World(Code :> Direct(200) @@ Main :> Direct(210) @@ Others :> Direct(211) @@ Presplit :> Direct(200),
            200 :> Blob(m) @@ 210 :> CommitOf(Version1, <<>>, FullAnchors(Version1))
            @@ 211 :> CommitOf(m, <<210>>, FullAnchors(m)))
        EXCEPT !.graphs = [g \in gs |-> [Scope(Own, {IF g = 401 THEN Main ELSE Others}, {})
                                            EXCEPT !.presplit = {Presplit}]],
               !.invalid = bad] : gs \in SUBSET {401, 402}, bad \in SUBSET {402}}

PickHistory == \E d \in Damages : case' = [op |-> "damage", d |-> d]
PickWorld ==
    \/ /\ case.op = "damage"
       /\ \E m \in Version2s \cup FewVersions : \E w \in History(m) :
             case' = [op |-> "repository", w |-> Damage(w, case.d)]
    \/ /\ case.op = "start"
       /\ \E m \in FewVersions : \E w \in Worktrees(m) \cup Foreign(m) \cup Tenants(m) :
             case' = [op |-> "repository", w |-> w]
FsckNext == (case.op = "start" /\ PickHistory) \/ PickWorld
FsckSpec == Init /\ [][FsckNext]_case

---------------------------------------------------------------------------
Faults(found) == {f.fault : f \in found}
\* The commits (and absent or foreign objects) the walk from a namespace reaches.
Parents(w, isTag, ids) ==
    UNION {CASE Z!Kind(w, i) = "commit" -> Range(w.objects[i].parents)
             [] Z!Kind(w, i) = "tag" /\ isTag -> {Z!PeelTag(w, i)} \ {0}
             [] OTHER -> {} : i \in ids}
Tips(w, names) == {r.id : r \in Range(Z!Listed(w, names))}
Walk(w, isTag, names) ==
    LET reach[k \in 0..4] == IF k = 0 THEN Tips(w, names)
                             ELSE reach[k - 1] \cup Parents(w, isTag, reach[k - 1])
    IN  reach[4]
Spaces(w, scope) == w.shared \cup {scope.own} \cup scope.presplit \cup w.anchors
VisitAlone(w, isTag, tip, id) ==
    Z!Visit(w, isTag, [name |-> 0, id |-> id, tip |-> tip], Z!Verified).found
\* What is wrong with a graph: every version checked with nothing remembered.
Wrong(w, scope) ==
    Faults(UNION {Z!CheckWorkspace(w, scope, r, Z!Verified).found : r \in Range(Z!Listed(w, Spaces(w, scope)))}
           \cup UNION {VisitAlone(w, FALSE, FALSE, id) : id \in Walk(w, FALSE, scope.branches)}
           \cup UNION {VisitAlone(w, TRUE, id \in Tips(w, scope.tags), id) : id \in Walk(w, TRUE, scope.tags)}
           \cup Z!PushResolvedSymref(w, Spaces(w, scope), "Manifest", Z!Verified).found
           \cup Z!PushResolvedSymref(w, scope.branches \cup scope.tags, "Commit", Z!Verified).found)
OfRelationships(f) == f[1] = "ConstraintViolation" /\ f[2] = "relationship"

\* The memos of `Verified` (fsck.rs) change where a fault is reported, never
\* whether it is: the faults of one run over a whole history are those of each
\* version checked on its own.  Breaches of relationship property types are
\* left out: see NothingMissed.
MemosLoseNothing ==
    case.op = "repository" =>
        \A s \in Z!Scopes(case.w) :
            {f \in Faults(Z!CheckStore(case.w, s)) : ~OfRelationships(f)}
            = {f \in Wrong(case.w, s) : ~OfRelationships(f)}

\* "an under-attribution of the same fault across origins, never a missed
\* fault" (the doc of `Verified`, fsck.rs): what is wrong with some version is
\* reported for some version.
NothingMissed ==
    case.op = "repository" =>
        \A s \in Z!Scopes(case.w) : Wrong(case.w, s) \subseteq Faults(Z!CheckStore(case.w, s))

\* A repository fsck finds no error in survives collection: once `acetone gc`
\* has swept the anchors of removed worktrees and a foreign `git gc` has kept
\* only what refs, commits and anchor trees reach, every version still has its
\* chunks (check_anchor_completeness and its coverage rule, fsck.rs).
Swept(w) == [w EXCEPT !.refs = [n \in DOMAIN @ \ (w.anchors \ w.live) |-> @[n]]]
CleanSurvivesGc ==
    case.op = "repository" =>
        \A s \in Z!Scopes(case.w) :
            LET w == Swept(case.w)
                names == Spaces(w, s) \cup s.branches \cup s.tags
                spaces == {r.id : r \in Range(Z!Listed(w, Spaces(w, s)))}
                commits == {i \in Walk(w, TRUE, s.branches \cup s.tags) : Z!Kind(w, i) = "commit"}
                kept == UNION {Z!WorkspaceAnchors(w, i).chunks : i \in spaces}
                        \cup UNION {w.objects[i].anchors.chunks : i \in commits}
                needed == UNION {Z!ManifestChunkSet(w, w.objects[Z!WorkspaceManifestHash(w, i)].manifest) : i \in spaces}
                          \cup UNION {Z!ManifestChunkSet(w, w.objects[i].manifest) : i \in commits}
            IN  (\A f \in Z!CheckStore(case.w, s) : ~Z!IsError(f)) => needed \subseteq kept

\* Where graphs live beside code, what fsck reports is never about the user's
\* refs, and nothing wrong with any of the graphs goes unreported
\* (check_path_graph, fsck.rs).
GraphsOnly ==
    case.op = "repository" =>
        LET w == case.w
            valid == DOMAIN w.graphs \ w.invalid
            found == Z!CheckPath(w)
        IN  /\ \A g \in valid : {f \in Wrong(w, w.graphs[g]) : ~OfRelationships(f)} \subseteq Faults(found)
            /\ valid # {} => \A f \in found : f.origin[2] # Code

---------------------------------------------------------------------------
(* What is stored is what is meant: key bytes sort as keys do, a decoder     *)
(* accepts exactly what an encoder writes, and a value, record, schema row   *)
(* or manifest has one encoding (keys.rs, graph_keys.rs, cbor.rs, records.rs,*)
(* schema.rs, manifest.rs).                                                  *)
EncodingsAreFaithful ==
  /\ ByteOrderIsKeyOrder /\ KeyDecodingIsStrict /\ PrefixScansAreExact /\ GraphKeysRoundTrip
  /\ CborIsCanonical /\ HalfPrecisionIsExact /\ NameOrderIsEncodedOrder
  /\ RecordsAreCanonical /\ SchemaRowsAreCanonical /\ ManifestIsCanonical

(* A row enters as it was read: the checks of upsert, batch and backfill     *)
(* decide alike, a coerced value conforms to its declared type, and mapping  *)
(* a source row loses and invents nothing (constraints.rs, import.rs).       *)
RowsAreFaithful ==
  ChecksAgree /\ CoercionConforms /\ KeySplitIsLossless /\ EdgeRowIsPartitioned /\ BoundedLinesAreLines

(* fsck over small damaged repositories: its memos hide no version's faults, *)
(* a clean report outlives gc, and it reads the graphs and nothing else.     *)
FsckIsComplete == MemosLoseNothing /\ CleanSurvivesGc /\ GraphsOnly
=============================================================================
