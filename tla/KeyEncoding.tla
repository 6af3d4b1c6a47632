----------------------------- MODULE KeyEncoding -----------------------------
(***************************************************************************)
(* The order-preserving key encoding (acetone-model keys.rs) and the graph  *)
(* key layouts built from it (graph_keys.rs).                               *)
(*                                                                          *)
(* A value is [t, v].  An 8-byte big-endian body is one digit of base       *)
(* 2^Width; strings and bytes are sequences of bytes, framed in groups of   *)
(* Group.  An encoding is a sequence of naturals compared                   *)
(* lexicographically, as the store compares byte strings.                   *)
(***************************************************************************)
EXTENDS Integers, Sequences, SequencesExt

CONSTANTS
  Width,      \* bits of an integer or float body (64 in the code)
  FracBits,   \* fraction bits of a float body (52)
  Group,      \* bytes of a chunk group (8)
  Day,        \* nanoseconds of a day (bound on a time of day)
  MaxOffset,  \* largest UTC offset in minutes
  MaxDepth    \* list nesting limit (128)

Fail == [t |-> "error", v |-> <<>>]
Failed(x) == x.t = "error"

Modulus == 2 ^ Width
SignBit == 2 ^ (Width - 1)

Tag == [null |-> 1, false |-> 2, true |-> 3, int |-> 4, float |-> 5, string |-> 6,
        bytes |-> 7, date |-> 8, time |-> 9, datetime |-> 10, duration |-> 11, list |-> 12]
ListEnd == 0
MarkerBase == 247
MarkerContinue == 255

(* Floats are bit patterns: sign, exponent, fraction.                        *)
Magnitude(bits) == bits % SignBit
IsNan(bits) == Magnitude(bits) > SignBit - 2 ^ FracBits
NormaliseZero(bits) == IF Magnitude(bits) = 0 THEN 0 ELSE bits
FloatOrder(bits) == IF bits >= SignBit THEN - Magnitude(bits) ELSE bits

Rank(x) == IF x.t = "bool" THEN IF x.v THEN Tag.true ELSE Tag.false ELSE Tag[x.t]

Sign(n) == IF n < 0 THEN -1 ELSE IF n > 0 THEN 1 ELSE 0

(* Lexicographic comparison of two integer sequences, and of two encodings.  *)
SeqCmp(a, b) ==
  LET differ == {i \in DOMAIN a \cap DOMAIN b : a[i] /= b[i]}
      first == CHOOSE i \in differ : \A j \in differ : i <= j
  IN  IF differ = {} THEN Sign(Len(a) - Len(b)) ELSE Sign(a[first] - b[first])

(* value_cmp and key_cmp: the logical order the bytes must realise.          *)
RECURSIVE KeyCmp(_, _)
ValueCmp(x, y) ==
  IF Rank(x) /= Rank(y) THEN Sign(Rank(x) - Rank(y))
  ELSE CASE x.t \in {"null", "bool"} -> 0
         [] x.t = "float" -> Sign(FloatOrder(NormaliseZero(x.v)) - FloatOrder(NormaliseZero(y.v)))
         [] x.t \in {"int", "date", "time"} -> Sign(x.v - y.v)
         [] x.t = "list" -> KeyCmp(x.v, y.v)
         [] OTHER -> SeqCmp(x.v, y.v)
KeyCmp(a, b) ==
  IF a = <<>> \/ b = <<>> THEN Sign(Len(a) - Len(b))
  ELSE IF ValueCmp(Head(a), Head(b)) /= 0 THEN ValueCmp(Head(a), Head(b))
  ELSE KeyCmp(Tail(a), Tail(b))

---------------------------------------------------------------------------
(* Encoding                                                                  *)

(* flip_sign_i64: reinterpret as unsigned, flip the sign bit.                *)
FlipSign(n) == ((n % Modulus) + SignBit) % Modulus

(* The IEEE total-order transform of a normalised float.                     *)
FloatBody(bits) == IF bits >= SignBit THEN Modulus - 1 - bits ELSE bits + SignBit

(* A full group is marked as continued, even when nothing follows it.        *)
Continues(data) == Len(data) >= Group

(* write_chunked: the last group is zero-padded and marked with its length.  *)
RECURSIVE WriteChunked(_)
WriteChunked(data) ==
  IF Continues(data)
  THEN SubSeq(data, 1, Group) \o <<MarkerContinue>> \o WriteChunked(SubSeq(data, Group + 1, Len(data)))
  ELSE data \o [i \in 1..(Group - Len(data)) |-> 0] \o <<MarkerBase + (Len(data) % Group)>>

(* write_element: tag and body; refused are NaN, a time past the day, an     *)
(* offset out of range and lists nested too deep.                            *)
RECURSIVE Encodable(_, _)
Encodable(x, depth) ==
  /\ depth <= MaxDepth
  /\ x.t = "float" => ~IsNan(x.v)
  /\ x.t = "time" => x.v < Day
  /\ x.t = "datetime" => x.v[2] \in -MaxOffset..MaxOffset
  /\ x.t = "list" => \A i \in DOMAIN x.v : Encodable(x.v[i], depth + 1)

RECURSIVE WriteElement(_)
WriteElement(x) ==
  <<Rank(x)>> \o
  CASE x.t \in {"null", "bool"} -> <<>>
    [] x.t \in {"int", "date"} -> <<FlipSign(x.v)>>
    [] x.t = "float" -> <<FloatBody(NormaliseZero(x.v))>>
    [] x.t \in {"string", "bytes"} -> WriteChunked(x.v)
    [] x.t = "time" -> <<x.v>>
    [] x.t \in {"datetime", "duration"} -> [i \in DOMAIN x.v |-> FlipSign(x.v[i])]
    [] x.t = "list" -> FlattenSeq([i \in DOMAIN x.v |-> WriteElement(x.v[i])]) \o <<ListEnd>>

(* encode_key, for tuples all of whose elements are encodable.               *)
EncodeKey(tuple) == FlattenSeq([i \in DOMAIN tuple |-> WriteElement(tuple[i])])
KeyEncodable(tuple) == \A i \in DOMAIN tuple : Encodable(tuple[i], 0)

---------------------------------------------------------------------------
(* Decoding: a reader is the rest of the input; a result is the value read    *)
(* and what is left.                                                         *)

Value(t, v) == [t |-> t, v |-> v]
Read(x, rest) == [t |-> "read", v |-> <<x, rest>>]
Then(r, Next(_, _)) == IF Failed(r) THEN Fail ELSE Next(r.v[1], r.v[2])
Require(ok, r) == IF ok THEN r ELSE Fail
UnflipSign(d) == LET n == (d + SignBit) % Modulus IN IF n >= SignBit THEN n - Modulus ELSE n
UnfloatBody(d) == IF d >= SignBit THEN d - SignBit ELSE Modulus - 1 - d

(* Mutant: the padding of the last group is not looked at.                   *)
PaddedAnyhow(group, n) == TRUE

Padded(group, n) == \A i \in (n + 1)..Group : group[i] = 0

(* read_chunked: rejects unknown markers and non-zero padding.               *)
RECURSIVE ReadChunked(_, _)
ReadChunked(s, out) ==
  IF Len(s) < Group + 1 THEN Fail
  ELSE LET group == SubSeq(s, 1, Group)
           marker == s[Group + 1]
           rest == SubSeq(s, Group + 2, Len(s))
           n == marker - MarkerBase
       IN  IF marker = MarkerContinue THEN ReadChunked(rest, out \o group)
           ELSE IF n \notin 0..(Group - 1) THEN Fail
           ELSE Require(Padded(group, n), Read(out \o SubSeq(group, 1, n), rest))

(* n digits after the tag.                                                   *)
Digits(s, n) ==
  IF Len(s) < n + 1 THEN Fail
  ELSE Require(\A i \in 2..(n + 1) : s[i] < Modulus, Read(SubSeq(s, 2, n + 1), SubSeq(s, n + 2, Len(s))))
Unflipped(ds) == [i \in DOMAIN ds |-> UnflipSign(ds[i])]

(* read_element: strict, so NaN, minus zero, out-of-range times and offsets  *)
(* and too deep lists are errors.                                            *)
RECURSIVE ReadElement(_, _)
RECURSIVE ReadItems(_, _, _)
ReadElement(s, depth) ==
  IF depth > MaxDepth \/ s = <<>> THEN Fail
  ELSE LET tag == s[1]
           rest == Tail(s)
       IN  CASE tag = Tag.null -> Read(Value("null", 0), rest)
             [] tag \in {Tag.false, Tag.true} -> Read(Value("bool", tag = Tag.true), rest)
             [] tag \in {Tag.int, Tag.date} ->
                  Then(Digits(s, 1), LAMBDA ds, left :
                    Read(Value(IF tag = Tag.int THEN "int" ELSE "date", UnflipSign(ds[1])), left))
             [] tag = Tag.duration ->
                  Then(Digits(s, 3), LAMBDA ds, left : Read(Value("duration", Unflipped(ds)), left))
             [] tag = Tag.datetime ->
                  Then(Digits(s, 2), LAMBDA ds, left :
                    Require(UnflipSign(ds[2]) \in -MaxOffset..MaxOffset,
                            Read(Value("datetime", Unflipped(ds)), left)))
             [] tag = Tag.time ->
                  Then(Digits(s, 1), LAMBDA ds, left : Require(ds[1] < Day, Read(Value("time", ds[1]), left)))
             [] tag = Tag.float ->
                  Then(Digits(s, 1), LAMBDA ds, left :
                    LET bits == UnfloatBody(ds[1])
                    IN  Require(~IsNan(bits) /\ bits /= SignBit, Read(Value("float", bits), left)))
             [] tag \in {Tag.string, Tag.bytes} ->
                  Then(ReadChunked(rest, <<>>), LAMBDA b, left :
                    Read(Value(IF tag = Tag.string THEN "string" ELSE "bytes", b), left))
             [] tag = Tag.list -> ReadItems(rest, depth, <<>>)
             [] OTHER -> Fail
ReadItems(s, depth, items) ==
  IF s = <<>> THEN Fail
  ELSE IF s[1] = ListEnd THEN Read(Value("list", items), Tail(s))
  ELSE Then(ReadElement(s, depth + 1), LAMBDA x, rest : ReadItems(rest, depth, Append(items, x)))

(* decode_key: elements until the input is consumed.                         *)
RECURSIVE DecodeFrom(_, _)
DecodeFrom(s, tuple) ==
  IF s = <<>> THEN Read(tuple, <<>>)
  ELSE Then(ReadElement(s, 0), LAMBDA x, rest : DecodeFrom(rest, Append(tuple, x)))
DecodeKey(s) == DecodeFrom(s, <<>>)

---------------------------------------------------------------------------
(* Graph keys                                                                *)

Str(s) == Value("string", s)
List(s) == Value("list", s)

(* NodeKey: label and a non-empty tuple of non-null, non-NaN scalars.        *)
NodeKeyOk(label, key) ==
  /\ label /= <<>> /\ key /= <<>>
  /\ \A i \in DOMAIN key : key[i].t \notin {"null", "list"} /\ (key[i].t = "float" => ~IsNan(key[i].v))
ToValue(n) == List(<<Str(n.label)>> \o n.key)
EncodeNode(n) == EncodeKey(<<ToValue(n)>>)

IsNodeValue(x) ==
  /\ x.t = "list"
  /\ x.v /= <<>>
  /\ x.v[1].t = "string"
  /\ NodeKeyOk(x.v[1].v, Tail(x.v))
FromValue(x) == [label |-> x.v[1].v, key |-> Tail(x.v)]
DecodeNode(s) ==
  Then(DecodeKey(s), LAMBDA tuple, rest :
    Require(Len(tuple) = 1 /\ IsNodeValue(tuple[1]), Read(FromValue(tuple[1]), rest)))

(* node_label_prefix: the list tag and the label, without the terminator.    *)
NodeLabelPrefix(label) == <<Tag.list>> \o WriteElement(Str(label))

EdgeTuple(first, rtype, second, disc) == <<ToValue(first), Str(rtype), ToValue(second), disc>>
EncodeFwd(e) == EncodeKey(EdgeTuple(e.src, e.rtype, e.dst, e.disc))

EncodeRev(e) == EncodeKey(EdgeTuple(e.dst, e.rtype, e.src, e.disc))

(* decode_fwd and decode_rev agree up to the order of the endpoints.         *)
DecodeEdge(s) ==
  Then(DecodeKey(s), LAMBDA k, rest :
    Require(/\ Len(k) = 4
            /\ IsNodeValue(k[1]) /\ IsNodeValue(k[3])
            /\ k[2].t = "string" /\ k[2].v /= <<>>
            /\ k[4].t /= "list",
            Read([first |-> FromValue(k[1]), rtype |-> k[2].v, second |-> FromValue(k[3]), disc |-> k[4]], rest)))

EndpointPrefix(n) == EncodeNode(n)
EndpointTypePrefix(n, rtype) == EncodeKey(<<ToValue(n), Str(rtype)>>)

(* Index entries: label, property names, value tuple, node key.              *)
IndexPrefix(label, props) == EncodeKey(<<Str(label), List([i \in DOMAIN props |-> Str(props[i])])>>)

IndexValuePrefix(label, props, values) ==
  EncodeKey(<<Str(label), List([i \in DOMAIN props |-> Str(props[i])]), List(values)>>)
(* IndexEntry::new and decode.                                               *)
IndexEntryOk(label, props, values) ==
  /\ label /= <<>> /\ props /= <<>> /\ Len(props) = Len(values)
  /\ \A i \in DOMAIN props : props[i].v /= <<>>
DecodeIndex(s) ==
  Then(DecodeKey(s), LAMBDA k, rest :
    Require(/\ Len(k) = 4
            /\ k[1].t = "string" /\ k[2].t = "list" /\ k[3].t = "list" /\ IsNodeValue(k[4])
            /\ \A i \in DOMAIN k[2].v : k[2].v[i].t = "string"
            /\ IndexEntryOk(k[1].v, k[2].v, k[3].v),
            Read([label |-> k[1].v, props |-> [i \in DOMAIN k[2].v |-> k[2].v[i].v], values |-> k[3].v,
                  node |-> FromValue(k[4])], rest)))
EncodeIndex(label, props, values, n) ==
  IndexValuePrefix(label, props, values) \o EncodeNode(n)

(* prefix_successor: drop trailing 0xff, then increment the last byte;       *)
(* <<>> means unbounded above.                                               *)
RECURSIVE PrefixSuccessor(_)
PrefixSuccessor(p) ==
  IF p = <<>> THEN <<>>
  ELSE IF p[Len(p)] = 255 THEN PrefixSuccessor(Front(p))
  ELSE Append(Front(p), p[Len(p)] + 1)

InScan(key, prefix) ==
  /\ SeqCmp(key, prefix) >= 0
  /\ PrefixSuccessor(prefix) /= <<>> => SeqCmp(key, PrefixSuccessor(prefix)) < 0
=============================================================================
