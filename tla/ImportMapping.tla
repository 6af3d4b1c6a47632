----------------------------- MODULE ImportMapping -----------------------------
(***************************************************************************)
(* How a source file becomes graph records: the built-in extractors of      *)
(* acetone-cli import.rs (bounded lines, JSON values, the node and edge     *)
(* mappings) and the schema-driven transform of acetone-graph import.rs     *)
(* (coercion, key splitting, discriminators).                               *)
(*                                                                          *)
(* A row is a partial function from fields to values; a string's payload    *)
(* names what the string spells (Spells).  Error stands for any refusal.    *)
(***************************************************************************)
EXTENDS Constraints

Error == [error |-> TRUE]
IsError(x) == x = Error

(* parse_scalar over the trimmed string: what the payload spells as a type.  *)
(* 1 and 2 spell integers (and so floats), 3 a float, 4 a Boolean, 0 and 5   *)
(* nothing (0 is the empty string).                                          *)
Spells(type, v) ==
  CASE type = "int" /\ v \in {1, 2} -> {Val("int", v)}
    [] type = "float" /\ v \in {1, 2, 3} -> {Val("float", v)}
    [] type = "bool" /\ v = 4 -> {Val("bool", 1)}
    [] OTHER -> {}

(* coerce: null passes, a value of the type is kept, integers widen to       *)
(* float, strings are parsed for scalar targets, anything else is refused.   *)
Coerce(value, type) ==
  IF type = "any" \/ value.t = "null" \/ value.t = type THEN value
  ELSE IF type = "float" /\ value.t = "int" THEN Val("float", value.v)
  ELSE IF value.t = "string" /\ Spells(type, value.v) /= {}
       THEN CHOOSE x \in Spells(type, value.v) : TRUE
  ELSE Error

TypeOf(types, p) == IF p \in DOMAIN types THEN types[p] ELSE "any"

CoerceProps(row, types) == [p \in DOMAIN row |-> Coerce(row[p], TypeOf(types, p))]
Refused(props) == \E p \in DOMAIN props : IsError(props[p])

Without(row, fields) == [p \in DOMAIN row \ fields |-> row[p]]

(* NodeKey::new: no null, NaN or non-scalar in a key.                        *)
KeyScalar(x) == x.t \in {"bool", "int", "float", "string", "date"}

(* node_key_and_record: coerce, take the declared key tuple, keep the rest.  *)
NodeKeyAndRecord(label, def, row) ==
  LET props == CoerceProps(row, def.types)
  IN  IF Refused(props) \/ ~(Range(def.key) \subseteq DOMAIN props) THEN Error
      ELSE LET key == [i \in DOMAIN def.key |-> props[def.key[i]]]
           IN  IF \E i \in DOMAIN key : ~KeyScalar(key[i]) THEN Error
               ELSE [key |-> [label |-> label, key |-> key],
                     record |-> Without(props, Range(def.key))]

(* endpoint_key: the endpoint label's key tuple, each value coerced to the   *)
(* type its key property declares.                                           *)
EndpointKey(labels, endpoint) ==
  IF endpoint.label \notin DOMAIN labels THEN Error
  ELSE LET def == labels[endpoint.label]
           values == [i \in DOMAIN endpoint.key |-> Coerce(endpoint.key[i], TypeOf(def.types, def.key[i]))]
       IN  IF Len(endpoint.key) /= Len(def.key) THEN Error
           ELSE IF \E i \in DOMAIN values : IsError(values[i]) \/ ~KeyScalar(values[i]) THEN Error
           ELSE [label |-> endpoint.label, key |-> values]

Deferred == {"bytes", "date", "time", "datetime", "duration"}

(* edge_discriminator: none without a declaration; with one, present, not    *)
(* also an ordinary field, coerced and not of a deferred type.               *)
EdgeDiscriminator(def, disc, props) ==
  IF def.disc = {} THEN IF disc = Null THEN disc ELSE Error
  ELSE LET name == CHOOSE p \in def.disc : TRUE
           value == Coerce(disc, TypeOf(def.types, name))
       IN  IF disc = Null \/ name \in DOMAIN props \/ IsError(value) THEN Error
           ELSE IF value.t \in Deferred THEN Error ELSE value

---------------------------------------------------------------------------
(* The command's mappings.                                                   *)

(* EndpointSpec::parse: LABEL=field[,field...], blank fields dropped.        *)
ParseEndpoint(label, fields) ==
  LET named == SelectSeq(fields, LAMBDA f : f /= 0)
  IN  IF label = 0 \/ named = <<>> THEN Error ELSE [label |-> label, fields |-> named]

(* build_mapping: exactly one of --label and --edge, and both endpoints with *)
(* --edge; absent flags are {}.                                              *)
BuildMapping(label, edge, from, to, disc) ==
  IF label /= {} /\ edge = {} THEN [kind |-> "node", label |-> CHOOSE l \in label : TRUE]
  ELSE IF label = {} /\ edge /= {} /\ from /= {} /\ to /= {}
       THEN LET f == CHOOSE x \in from : TRUE
                t == CHOOSE x \in to : TRUE
            IN  IF IsError(f) \/ IsError(t) THEN Error
                ELSE [kind |-> "edge", from |-> f, to |-> t, disc |-> disc]
  ELSE Error

(* take_endpoint: the fields are consumed one by one, so a field named twice *)
(* is missing the second time.                                               *)
TakeEndpoint(row, spec) ==
  IF \/ ~(Range(spec.fields) \subseteq DOMAIN row)
     \/ Cardinality(Range(spec.fields)) /= Len(spec.fields) THEN Error
  ELSE [ref |-> [label |-> spec.label, key |-> [i \in DOMAIN spec.fields |-> row[spec.fields[i]]]],
        row |-> Without(row, Range(spec.fields))]

(* map_row: a node keeps every field; an edge gives up its endpoint fields,  *)
(* source first, then its discriminator field.                               *)
MapRow(row, mapping) ==
  IF mapping.kind = "node" THEN [kind |-> "node", label |-> mapping.label, props |-> row]
  ELSE LET src == TakeEndpoint(row, mapping.from)
       IN  IF IsError(src) THEN Error
           ELSE LET dst == TakeEndpoint(src.row, mapping.to)
                IN  IF IsError(dst) THEN Error
                    ELSE [kind |-> "edge", src |-> src.ref, dst |-> dst.ref,
                          disc |-> LET f == mapping.disc \cap DOMAIN dst.row
                                   IN  IF f = {} THEN Null ELSE dst.row[CHOOSE p \in f : TRUE],
                          props |-> Without(dst.row, mapping.disc)]

(* stream_batches' edge arm: both endpoints, the discriminator, the coerced  *)
(* properties.                                                               *)
EdgePut(labels, def, edge) ==
  LET src == EndpointKey(labels, edge.src)
      dst == EndpointKey(labels, edge.dst)
      disc == EdgeDiscriminator(def, edge.disc, edge.props)
      props == CoerceProps(edge.props, def.types)
  IN  IF IsError(src) \/ IsError(dst) \/ IsError(disc) \/ Refused(props) THEN Error
      ELSE [src |-> src, dst |-> dst, disc |-> disc, record |-> props]

(* json_to_value and json_object_to_row: scalars and flat lists.             *)
JsonToValue(j) ==
  CASE j.t = "object" -> Error
    [] j.t = "array" -> IF \E i \in DOMAIN j.v : j.v[i].t \in {"array", "object"} THEN Error
                        ELSE [t |-> "list", v |-> j.v]
    [] OTHER -> j

---------------------------------------------------------------------------
(* Reading lines: a byte is "x", "cr" or "lf".                               *)

TooLong == <<"too long">>
RECURSIVE TrimEnd(_)
TrimEnd(s) ==
  IF s /= <<>> /\ s[Len(s)] \in {"cr", "lf"} THEN TrimEnd(SubSeq(s, 1, Len(s) - 1)) ELSE s

(* read_until over take(max + 1): up to and including the first line feed,   *)
(* at most max + 1 bytes.                                                    *)
FirstLf(s) == IF \E i \in DOMAIN s : s[i] = "lf"
              THEN CHOOSE i \in DOMAIN s : s[i] = "lf" /\ \A j \in 1..(i-1) : s[j] /= "lf"
              ELSE Len(s)
ReadUntil(s, max) == SubSeq(s, 1, IF FirstLf(s) > max + 1 THEN max + 1 ELSE FirstLf(s))

(* bounded_line: one line, its terminator trimmed, refused when its content  *)
(* exceeds the bound.                                                        *)
BoundedLine(s, max) ==
  LET buf == ReadUntil(s, max)
  IN  [line |-> IF Len(TrimEnd(buf)) > max THEN TooLong ELSE TrimEnd(buf),
       rest |-> SubSeq(s, Len(buf) + 1, Len(s))]

(* The NDJSON extractor's loop over a whole source: blank lines are skipped, *)
(* a refused line ends the import.                                           *)
RECURSIVE NdjsonLines(_, _)
NdjsonLines(s, max) ==
  IF s = <<>> THEN <<>>
  ELSE LET r == BoundedLine(s, max)
       IN  IF r.line = TooLong THEN <<TooLong>>
           ELSE (IF r.line = <<>> THEN <<>> ELSE <<r.line>>) \o NdjsonLines(r.rest, max)
=============================================================================
