------------------------------- MODULE Formats -------------------------------
(***************************************************************************)
(* The text-keyed formats above the value encoding: schema entries          *)
(* (acetone-model schema.rs) and the manifest (manifest.rs), at the level   *)
(* of CBOR items.  An item is <<kind, payload>>: "map" and "array" heads    *)
(* with their counts, "text", "num", "bytes", "bool" and "null".            *)
(***************************************************************************)
EXTENDS Integers, Sequences, SequencesExt, FiniteSets

CONSTANTS
  Names,        \* the names in use, in canonical (length-first) order
  TypeNames,    \* PropertyType::names
  MaxHeight,    \* greatest height of a prolly tree
  MaxBytes, MaskBits,  \* format limits on the chunk parameters
  Hashes,       \* chunk hashes of the right width
  Decoders      \* format versions with a retained body decoder

Fail == [t |-> "error", v |-> <<>>]
Failed(x) == x.t = "error"
Read(x, rest) == [t |-> "read", v |-> <<x, rest>>]
Then(r, Next(_, _)) == IF Failed(r) THEN Fail ELSE Next(r.v[1], r.v[2])
Require(ok, r) == IF ok THEN r ELSE Fail

SurrogateKey == "_id"
Rank(name) == CHOOSE i \in DOMAIN Names : Names[i] = name
Before(a, b) == Rank(a) < Rank(b)
Sorted(set) == SetToSortSeq(set, Before)

Text(name) == <<"text", name>>
Texts(seq) == [i \in DOMAIN seq |-> Text(seq[i])]
ReadItem(kind, s) ==
  IF s = <<>> THEN Fail ELSE Require(s[1][1] = kind, Read(s[1][2], Tail(s)))
Expect(item, s, Next(_)) == IF s = <<>> THEN Fail ELSE IF s[1] /= item THEN Fail ELSE Next(Tail(s))

---------------------------------------------------------------------------
(* Definitions: a label is [key, surrogate, types, exists, unique], a        *)
(* relationship type [disc, types, exists] with disc <<>> or <<name>>, an    *)
(* index [label, properties].                                                *)

(* LabelDef::build: what every label definition in memory satisfies.         *)
LabelOk(d) ==
  /\ d.key /= <<>> /\ "" \notin Range(d.key) /\ IsInjective(d.key)
  /\ d.surrogate => d.key = <<SurrogateKey>>
  /\ "" \notin DOMAIN d.types \cup d.exists \cup d.unique
  /\ d.unique \cap Range(d.key) = {}

(* LabelDef::surrogate: `_id` is declared a string; a contradiction fails.   *)
Surrogate(types, exists, unique) ==
  LET typed == [p \in DOMAIN types \cup {SurrogateKey} |-> IF p = SurrogateKey THEN "string" ELSE types[p]]
      d == [key |-> <<SurrogateKey>>, surrogate |-> TRUE, types |-> typed, exists |-> exists, unique |-> unique]
  IN  IF SurrogateKey \in DOMAIN types /\ typed /= types THEN Fail
      ELSE Require(LabelOk(d), Read(d, <<>>))

RelTypeOk(d) == "" \notin Range(d.disc) \cup DOMAIN d.types \cup d.exists
IndexOk(d) == d.label /= "" /\ d.properties /= <<>> /\ "" \notin Range(d.properties)

WriteNames(seq) == <<<<"array", Len(seq)>>>> \o Texts(seq)

WriteTypes(types) ==
  LET names == Sorted(DOMAIN types)
  IN  <<<<"map", Len(names)>>>> \o FlattenSeq([i \in DOMAIN names |-> <<Text(names[i]), Text(types[names[i]])>>])

(* SchemaEntry::encode_value: fixed canonical field orders.                  *)
EncodeLabel(d) ==
  <<<<"map", 5>>, Text("key")>> \o WriteNames(d.key) \o <<Text("types")>> \o WriteTypes(d.types)
    \o <<Text("exists")>> \o WriteNames(Sorted(d.exists)) \o <<Text("unique")>> \o WriteNames(Sorted(d.unique))
    \o <<Text("surrogate"), <<"bool", d.surrogate>>>>
EncodeRelType(d) ==
  <<<<"map", 3>>, Text("disc")>> \o (IF d.disc = <<>> THEN <<<<"null", 0>>>> ELSE Texts(d.disc))
    \o <<Text("types")>> \o WriteTypes(d.types) \o <<Text("exists")>> \o WriteNames(Sorted(d.exists))
EncodeIndex(d) ==
  <<<<"map", 2>>, Text("label"), Text(d.label), Text("properties")>> \o WriteNames(d.properties)

(* Name sets and typed names must come strictly ascending.                   *)
InSequence(seq, name) == seq = <<>> \/ Before(Last(seq), name)

RECURSIVE ReadNames(_, _, _, _)
ReadNames(s, n, sorted, out) ==
  IF n = 0 THEN Read(out, s)
  ELSE Then(ReadItem("text", s), LAMBDA name, rest :
         Require(sorted => InSequence(out, name), ReadNames(rest, n - 1, sorted, Append(out, name))))
ReadNameArray(s, sorted) ==
  Then(ReadItem("array", s), LAMBDA n, rest : ReadNames(rest, n, sorted, <<>>))

RECURSIVE ReadTypeEntries(_, _, _, _)
ReadTypeEntries(s, n, names, types) ==
  IF n = 0 THEN Read([p \in Range(names) |-> types[CHOOSE i \in DOMAIN names : names[i] = p]], s)
  ELSE Then(ReadItem("text", s), LAMBDA name, rest :
         Require(InSequence(names, name),
           Then(ReadItem("text", rest), LAMBDA type, left :
             Require(type \in TypeNames,
                     ReadTypeEntries(left, n - 1, Append(names, name), Append(types, type))))))
ReadTypes(s) == Then(ReadItem("map", s), LAMBDA n, rest : ReadTypeEntries(rest, n, <<>>, <<>>))

(* read_optional_text                                                        *)
ReadDisc(s) ==
  IF s = <<>> THEN Fail
  ELSE IF s[1] = <<"null", 0>> THEN Read(<<>>, Tail(s))
  ELSE Then(ReadItem("text", s), LAMBDA name, rest : Read(<<name>>, rest))

Whole(r) == Then(r, LAMBDA x, rest : Require(rest = <<>>, r))

(* SchemaEntry::decode, one definition per kind of key.                      *)
DecodeLabel(s) ==
  Whole(Expect(<<"map", 5>>, s, LAMBDA s1 : Expect(Text("key"), s1, LAMBDA s2 :
    Then(ReadNameArray(s2, FALSE), LAMBDA key, s3 : Expect(Text("types"), s3, LAMBDA s4 :
      Then(ReadTypes(s4), LAMBDA types, s5 : Expect(Text("exists"), s5, LAMBDA s6 :
        Then(ReadNameArray(s6, TRUE), LAMBDA exists, s7 : Expect(Text("unique"), s7, LAMBDA s8 :
          Then(ReadNameArray(s8, TRUE), LAMBDA unique, s9 : Expect(Text("surrogate"), s9, LAMBDA s10 :
            Then(ReadItem("bool", s10), LAMBDA surrogate, left :
              LET d == [key |-> key, surrogate |-> surrogate, types |-> types,
                        exists |-> Range(exists), unique |-> Range(unique)]
              IN  Require(LabelOk(d), Read(d, left))))))))))))))
DecodeRelType(s) ==
  Whole(Expect(<<"map", 3>>, s, LAMBDA s1 : Expect(Text("disc"), s1, LAMBDA s2 :
    Then(ReadDisc(s2), LAMBDA disc, s3 : Expect(Text("types"), s3, LAMBDA s4 :
      Then(ReadTypes(s4), LAMBDA types, s5 : Expect(Text("exists"), s5, LAMBDA s6 :
        Then(ReadNameArray(s6, TRUE), LAMBDA exists, left :
          LET d == [disc |-> disc, types |-> types, exists |-> Range(exists)]
          IN  Require(RelTypeOk(d), Read(d, left))))))))))
DecodeIndex(s) ==
  Whole(Expect(<<"map", 2>>, s, LAMBDA s1 : Expect(Text("label"), s1, LAMBDA s2 :
    Then(ReadItem("text", s2), LAMBDA label, s3 : Expect(Text("properties"), s3, LAMBDA s4 :
      Then(ReadNameArray(s4, FALSE), LAMBDA properties, left :
        LET d == [label |-> label, properties |-> properties]
        IN  Require(IndexOk(d), Read(d, left))))))))

---------------------------------------------------------------------------
(* The manifest: map roots [hash, height], chunk parameters, and index roots *)
(* by name.  conflicts is <<>> or <<root>>.                                  *)

WriteMapRoot(r) == <<<<"array", 2>>, <<"bytes", r.hash>>, <<"num", r.height>>>>

HeightOk(h) == h >= 1 /\ h <= MaxHeight

ReadMapRoot(s) ==
  Expect(<<"array", 2>>, s, LAMBDA s1 : Then(ReadItem("bytes", s1), LAMBDA hash, s2 :
    Require(hash \in Hashes, Then(ReadItem("num", s2), LAMBDA height, left :
      Require(HeightOk(height), Read([hash |-> hash, height |-> height], left))))))

(* ChunkParams::new                                                          *)
ParamsOk(p) == 0 < p[1] /\ p[1] <= p[3] /\ p[3] <= MaxBytes /\ p[2] < MaskBits

Fields(m) == 6 + Len(m.conflicts)

(* encode, write_body                                                        *)
EncodeManifest(version, m) ==
  LET names == Sorted(DOMAIN m.indexes)
  IN  <<<<"array", 2>>, <<"num", version>>, <<"map", Fields(m)>>>>
        \o <<Text("nodes")>> \o WriteMapRoot(m.nodes) \o <<Text("schema")>> \o WriteMapRoot(m.schema)
        \o <<Text("indexes"), <<"map", Len(names)>>>>
        \o FlattenSeq([i \in DOMAIN names |-> <<Text(names[i])>> \o WriteMapRoot(m.indexes[names[i]])])
        \o (IF m.conflicts = <<>> THEN <<>> ELSE <<Text("conflicts")>> \o WriteMapRoot(m.conflicts[1]))
        \o <<Text("edges_fwd")>> \o WriteMapRoot(m.edges_fwd) \o <<Text("edges_rev")>> \o WriteMapRoot(m.edges_rev)
        \o <<Text("chunk_params"), <<"array", 3>>>> \o [i \in 1..3 |-> <<"num", m.params[i]>>]

RECURSIVE ReadIndexes(_, _, _, _)
ReadIndexes(s, n, names, roots) ==
  IF n = 0 THEN Read([x \in Range(names) |-> roots[CHOOSE i \in DOMAIN names : names[i] = x]], s)
  ELSE Then(ReadItem("text", s), LAMBDA name, rest :
         Require(name /= "" /\ InSequence(names, name),
           Then(ReadMapRoot(rest), LAMBDA root, left :
             ReadIndexes(left, n - 1, Append(names, name), Append(roots, root)))))

Field(name, s) == Expect(Text(name), s, LAMBDA rest : ReadMapRoot(rest))

(* read_body_current and decode_v1_body                                      *)
DecodeBody(s) ==
  Whole(Then(ReadItem("map", s), LAMBDA fields, s0 :
    Require(fields \in 6..7, Then(Field("nodes", s0), LAMBDA nodes, s1 : Then(Field("schema", s1), LAMBDA schema, s2 :
      Expect(Text("indexes"), s2, LAMBDA s3 : Then(ReadItem("map", s3), LAMBDA n, s4 :
        Then(ReadIndexes(s4, n, <<>>, <<>>), LAMBDA indexes, s5 :
          Then(IF fields = 6 THEN Read(<<>>, s5)
               ELSE Then(Field("conflicts", s5), LAMBDA root, rest : Read(<<root>>, rest)), LAMBDA conflicts, s6 :
            Then(Field("edges_fwd", s6), LAMBDA fwd, s7 : Then(Field("edges_rev", s7), LAMBDA rev, s8 :
              Expect(Text("chunk_params"), s8, LAMBDA s9 : Expect(<<"array", 3>>, s9, LAMBDA s10 :
                Then(ReadItem("num", s10), LAMBDA p1, s11 : Then(ReadItem("num", s11), LAMBDA p2, s12 :
                  Then(ReadItem("num", s12), LAMBDA p3, left :
                    Require(ParamsOk(<<p1, p2, p3>>),
                      Read([nodes |-> nodes, schema |-> schema, indexes |-> indexes, conflicts |-> conflicts,
                            edges_fwd |-> fwd, edges_rev |-> rev, params |-> <<p1, p2, p3>>], left))))))))))))))))))

(* decode_with: the version is read first and picks the body decoder.        *)
DecodeManifest(s) ==
  Expect(<<"array", 2>>, s, LAMBDA s1 : Then(ReadItem("num", s1), LAMBDA version, body :
    Require(version \in Decoders, DecodeBody(body))))
=============================================================================
