-------------------------------- MODULE Cbor --------------------------------
(***************************************************************************)
(* Canonical CBOR: the low-level reader and writer (acetone-model cbor.rs)  *)
(* and the value encoding over them (values.rs), with the widths scaled     *)
(* down.  A byte is a digit of base Base; an initial byte is                *)
(* 32 * major + additional information; a float body is one digit.          *)
(* A reader is the input left; reading gives <<what was read, what is       *)
(* left>> in a "read" result, or Fail.                                      *)
(***************************************************************************)
EXTENDS Integers, Sequences, SequencesExt

CONSTANTS
  Base,       \* values of a byte (256 in the code)
  Imm,        \* arguments written in the head itself (24)
  F16, F32, F64,  \* float formats, [eb, fb, bias]
  Unit,       \* -log2 of the smallest F64 magnitude
  TagNum,     \* tag numbers of the temporal types
  Day, MaxOffset, MaxDepth

Fail == [t |-> "error", v |-> <<>>]
Failed(x) == x.t = "error"
Read(x, rest) == [t |-> "read", v |-> <<x, rest>>]
Value(t, v) == [t |-> t, v |-> v]

Major == [unsigned |-> 0, negative |-> 1, bytes |-> 2, text |-> 3, array |-> 4,
          map |-> 5, tag |-> 6, simple |-> 7]
IntMax == (Base ^ 8) \div 2 - 1

BigEndian(n, width) == [i \in 1..width |-> (n \div Base ^ (width - i)) % Base]

(* The widths of the heads: additional information 24 + k has 2^k bytes.     *)
Widths == 0..3

(* The argument fits in the initial byte.                                    *)
InHead(n) == n < Imm

(* write_head: the shortest form that holds the argument.                    *)
WriteHead(major, n) ==
  IF InHead(n) THEN <<32 * major + n>>
  ELSE LET k == CHOOSE k \in Widths : n < Base ^ (2 ^ k) /\ \A j \in 0..(k - 1) : n >= Base ^ (2 ^ j)
       IN  <<32 * major + 24 + k>> \o BigEndian(n, 2 ^ k)

WriteInt(n) == IF n >= 0 THEN WriteHead(Major.unsigned, n) ELSE WriteHead(Major.negative, -1 - n)
WriteText(s) == WriteHead(Major.text, Len(s)) \o s

(* Lexicographic order of byte strings, and the canonical order of names.    *)
SeqBefore(a, b) ==
  LET differ == {i \in DOMAIN a \cap DOMAIN b : a[i] /= b[i]}
      first == CHOOSE i \in differ : \A j \in differ : i <= j
  IN  IF differ = {} THEN Len(a) < Len(b) ELSE a[first] < b[first]

(* canonical_str_cmp: shorter first, equal lengths bytewise.                 *)
CanonicalBefore(a, b) == Len(a) < Len(b) \/ (Len(a) = Len(b) /\ SeqBefore(a, b))

---------------------------------------------------------------------------
(* Reading                                                                   *)

Then(r, Next(_, _)) == IF Failed(r) THEN Fail ELSE Next(r.v[1], r.v[2])
Require(ok, r) == IF ok THEN r ELSE Fail
Take(s, n) == IF Len(s) < n THEN Fail ELSE Read(SubSeq(s, 1, n), SubSeq(s, n + 1, Len(s)))

(* The least argument a head of 2^k bytes may carry.                         *)
LeastOf(k) == IF k = 0 THEN Imm ELSE Base ^ (2 ^ (k - 1))

(* read_head_value: each width refuses what a shorter form holds; reserved   *)
(* and indefinite-length heads are errors.                                   *)
ReadHeadValue(ai, s) ==
  IF ai < Imm THEN Read(ai, s)
  ELSE IF ai \notin 24..27 THEN Fail
  ELSE Then(Take(s, 2 ^ (ai - 24)), LAMBDA bytes, rest :
         LET n == FoldLeft(LAMBDA acc, b : acc * Base + b, 0, bytes)
         IN  Require((\A i \in DOMAIN bytes : bytes[i] < Base) /\ n >= LeastOf(ai - 24), Read(n, rest)))

ReadHead(major, s) ==
  IF s = <<>> THEN Fail ELSE Require(s[1] \div 32 = major, ReadHeadValue(s[1] % 32, Tail(s)))

(* A length head followed by that many bytes (check_len, read_exact).        *)
ReadCounted(major, s) == Then(ReadHead(major, s), LAMBDA n, rest : Take(rest, n))
ReadText(s) == ReadCounted(Major.text, s)

(* read_i64 with the range checks of unsigned_to_i64 and negative_to_i64.    *)
ReadI64(s) ==
  IF s = <<>> THEN Fail
  ELSE LET major == s[1] \div 32
       IN  Require(major \in {Major.unsigned, Major.negative},
             Then(ReadHead(major, s), LAMBDA n, rest :
               Require(n <= IntMax, Read(IF major = Major.unsigned THEN n ELSE -1 - n, rest))))

RECURSIVE ReadI64s(_, _, _)
ReadI64s(s, n, out) ==
  IF n = 0 THEN Read(out, s)
  ELSE Then(ReadI64(s), LAMBDA i, rest : ReadI64s(rest, n - 1, Append(out, i)))

---------------------------------------------------------------------------
(* Floats: bit patterns of a format, and the number a pattern denotes.       *)

SignOf(f, bits) == bits \div 2 ^ (f.eb + f.fb)
ExpOf(f, bits) == (bits \div 2 ^ f.fb) % 2 ^ f.eb
FracOf(f, bits) == bits % 2 ^ f.fb
ExpTop(f) == 2 ^ f.eb - 1
IsNan(f, bits) == ExpOf(f, bits) = ExpTop(f) /\ FracOf(f, bits) /= 0
Infinite == -1
Patterns(f) == 0..(2 ^ (1 + f.eb + f.fb) - 1)

(* <<sign, magnitude in units of 2^-Unit>>; f16_bits_to_f64 for F16.         *)
Number(f, bits) ==
  LET e == ExpOf(f, bits)
  IN  <<SignOf(f, bits),
        IF e = ExpTop(f) THEN Infinite
        ELSE IF e = 0 THEN FracOf(f, bits) * 2 ^ (Unit + 1 - f.bias - f.fb)
        ELSE (2 ^ f.fb + FracOf(f, bits)) * 2 ^ (Unit + e - f.bias - f.fb)>>

F64Of(number) == CHOOSE bits \in Patterns(F64) : ~IsNan(F64, bits) /\ Number(F64, bits) = number
None16 == -1

(* Bits of an F64 significand below the last bit of an F16 subnormal.        *)
Shift(exp) == F64.fb - F16.fb + 1 - F16.bias - exp

(* f16_from_f64_exact: the half-precision pattern of an F64 pattern, if any. *)
F16Exact(bits) ==
  LET sign == SignOf(F64, bits) * 2 ^ (F16.eb + F16.fb)
      exp == ExpOf(F64, bits) - F64.bias
      emin == 1 - F16.bias
      sig == 2 ^ F64.fb + FracOf(F64, bits)
  IN  IF Number(F64, bits)[2] = 0 THEN sign
      ELSE IF Number(F64, bits)[2] = Infinite THEN sign + ExpTop(F16) * 2 ^ F16.fb
      ELSE IF exp \in emin..F16.bias
           THEN IF FracOf(F64, bits) % 2 ^ (F64.fb - F16.fb) = 0
                THEN sign + (exp + F16.bias) * 2 ^ F16.fb + FracOf(F64, bits) \div 2 ^ (F64.fb - F16.fb)
                ELSE None16
      ELSE IF exp \in (emin - F16.fb)..(emin - 1)
           THEN IF sig % 2 ^ Shift(exp) = 0 THEN sign + sig \div 2 ^ Shift(exp) ELSE None16
      ELSE None16

(* f32_from_f64_exact: the cast to f32, when casting back gives the same.    *)
F32s(bits) == {y \in Patterns(F32) : ~IsNan(F32, y) /\ Number(F32, y) = Number(F64, bits)}

CanonicalNan16 == ExpTop(F16) * 2 ^ F16.fb + 2 ^ (F16.fb - 1)
CanonicalNan == ExpTop(F64) * 2 ^ F64.fb + 2 ^ (F64.fb - 1)

(* write_float: canonical NaN, else the shortest exact form.                 *)
WriteFloat(bits) ==
  LET head(ai) == 32 * Major.simple + ai
  IN  IF IsNan(F64, bits) THEN <<head(25), CanonicalNan16>>
      ELSE IF F16Exact(bits) /= None16 THEN <<head(25), F16Exact(bits)>>
      ELSE IF F32s(bits) /= {} THEN <<head(26), CHOOSE y \in F32s(bits) : TRUE>>
      ELSE <<head(27), bits>>

---------------------------------------------------------------------------
(* Values                                                                    *)

RECURSIVE Encodable(_, _)
Encodable(x, depth) ==
  /\ depth <= MaxDepth
  /\ x.t = "time" => x.v < Day
  /\ x.t = "datetime" => x.v[2] \in -MaxOffset..MaxOffset
  /\ x.t = "list" => \A i \in DOMAIN x.v : Encodable(x.v[i], depth + 1)

(* write_value, for encodable values.                                        *)
RECURSIVE WriteValue(_)
WriteValue(x) ==
  LET ints == FlattenSeq([i \in DOMAIN x.v |-> WriteInt(x.v[i])])
      tagged == WriteHead(Major.tag, TagNum[x.t])
  IN  CASE x.t = "null" -> <<32 * Major.simple + 22>>
        [] x.t = "bool" -> <<32 * Major.simple + IF x.v THEN 21 ELSE 20>>
        [] x.t = "int" -> WriteInt(x.v)
        [] x.t = "float" -> WriteFloat(x.v)
        [] x.t = "string" -> WriteText(x.v)
        [] x.t = "bytes" -> WriteHead(Major.bytes, Len(x.v)) \o x.v
        [] x.t = "date" -> tagged \o WriteInt(x.v)
        [] x.t = "time" -> tagged \o WriteHead(Major.unsigned, x.v)
        [] x.t \in {"datetime", "duration"} -> tagged \o WriteHead(Major.array, Len(x.v)) \o ints
        [] x.t = "list" -> WriteHead(Major.array, Len(x.v))
                             \o FlattenSeq([i \in DOMAIN x.v |-> WriteValue(x.v[i])])

(* read_simple_or_float: only false, true and null; only the canonical NaN;  *)
(* only the shortest float.                                                  *)
ReadSimpleOrFloat(ai, s) ==
  CASE ai = 20 -> Read(Value("bool", FALSE), s)
    [] ai = 21 -> Read(Value("bool", TRUE), s)
    [] ai = 22 -> Read(Value("null", 0), s)
    [] ai \in 25..27 /\ s /= <<>> ->
         LET f == CASE ai = 25 -> F16 [] ai = 26 -> F32 [] ai = 27 -> F64
             nan == IsNan(f, s[1])
             bits == F64Of(Number(f, s[1]))
         IN  IF s[1] \notin Patterns(f) THEN Fail
             ELSE IF nan /\ ai = 25 /\ s[1] = CanonicalNan16 THEN Read(Value("float", CanonicalNan), Tail(s))
             ELSE IF nan THEN Fail
             ELSE IF ai >= 26 /\ F16Exact(bits) /= None16 THEN Fail
             ELSE IF ai = 27 /\ F32s(bits) /= {} THEN Fail
             ELSE Read(Value("float", bits), Tail(s))
    [] OTHER -> Fail

(* read_tagged: the four known tags with content in range.                   *)
ReadTagged(tag, s) ==
  LET ints(t, n) ==
        Then(ReadHead(Major.array, s), LAMBDA count, rest :
          Require(count = n, Then(ReadI64s(rest, n, <<>>), LAMBDA is, left : Read(Value(t, is), left))))
  IN  CASE tag = TagNum.date -> Then(ReadI64(s), LAMBDA n, rest : Read(Value("date", n), rest))
        [] tag = TagNum.time ->
             Then(ReadHead(Major.unsigned, s), LAMBDA n, rest : Require(n < Day, Read(Value("time", n), rest)))
        [] tag = TagNum.datetime ->
             Then(ints("datetime", 2), LAMBDA x, rest :
               Require(x.v[2] \in -MaxOffset..MaxOffset, Read(x, rest)))
        [] tag = TagNum.duration -> ints("duration", 3)
        [] OTHER -> Fail

(* read_value: dispatch on the major type; maps are not values.              *)
RECURSIVE ReadValue(_, _)
RECURSIVE ReadItems(_, _, _, _)
ReadValue(s, depth) ==
  IF depth > MaxDepth \/ s = <<>> THEN Fail
  ELSE LET major == s[1] \div 32
       IN  CASE major \in {Major.unsigned, Major.negative} ->
                  Then(ReadI64(s), LAMBDA n, rest : Read(Value("int", n), rest))
             [] major \in {Major.bytes, Major.text} ->
                  Then(ReadCounted(major, s), LAMBDA b, rest :
                    Read(Value(IF major = Major.text THEN "string" ELSE "bytes", b), rest))
             [] major = Major.array ->
                  Then(ReadHead(major, s), LAMBDA n, rest :
                    Require(n <= Len(rest), ReadItems(rest, depth, n, <<>>)))
             [] major = Major.tag -> Then(ReadHead(major, s), LAMBDA tag, rest : ReadTagged(tag, rest))
             [] major = Major.simple -> ReadSimpleOrFloat(s[1] % 32, Tail(s))
             [] OTHER -> Fail
ReadItems(s, depth, n, items) ==
  IF n = 0 THEN Read(Value("list", items), s)
  ELSE Then(ReadValue(s, depth + 1), LAMBDA x, rest : ReadItems(rest, depth, n - 1, Append(items, x)))

(* Nothing may follow what was decoded.                                      *)
Whole(r) == Then(r, LAMBDA x, rest : Require(rest = <<>>, r))

(* decode_value: one value, no trailing bytes.                               *)
DecodeValue(s) == Whole(ReadValue(s, 0))

---------------------------------------------------------------------------
(* Records (records.rs): names are byte strings, properties a set of         *)
(* [name, value] with distinct names.                                        *)

(* Labels and properties are written in canonical order: normalise_strings,  *)
(* and the re-sort of write_properties.                                      *)
InCanonicalOrder(names) == SetToSortSeq(names, CanonicalBefore)

WriteProperties(props) ==
  LET names == InCanonicalOrder(DOMAIN props)
  IN  WriteHead(Major.map, Len(names))
        \o FlattenSeq([i \in DOMAIN names |-> WriteText(names[i]) \o WriteValue(props[names[i]])])

(* The strictly ascending order the readers require of successive names.     *)
Ascending(names, name) == names = <<>> \/ CanonicalBefore(Last(names), name)

RECURSIVE ReadNames(_, _, _)
ReadNames(s, n, names) ==
  IF n = 0 THEN Read(names, s)
  ELSE Then(ReadText(s), LAMBDA name, rest :
         Require(Ascending(names, name), ReadNames(rest, n - 1, Append(names, name))))

RECURSIVE ReadEntries(_, _, _, _)
ReadEntries(s, n, names, values) ==
  IF n = 0
  THEN Read([x \in Range(names) |-> values[CHOOSE i \in DOMAIN names : names[i] = x]], s)
  ELSE Then(ReadText(s), LAMBDA name, rest :
         Require(Ascending(names, name),
           Then(ReadValue(rest, 0), LAMBDA x, left :
             ReadEntries(left, n - 1, Append(names, name), Append(values, x)))))

ReadProperties(s) ==
  Then(ReadHead(Major.map, s), LAMBDA n, rest :
    Require(n <= Len(rest), ReadEntries(rest, n, <<>>, <<>>)))

(* NodeRecord: two-element array of the labels and the properties.           *)
EncodeNodeRecord(labels, props) ==
  LET names == InCanonicalOrder(labels)
  IN  WriteHead(Major.array, 2) \o WriteHead(Major.array, Len(names))
        \o FlattenSeq([i \in DOMAIN names |-> WriteText(names[i])]) \o WriteProperties(props)
DecodeNodeRecord(s) ==
  Then(ReadHead(Major.array, s), LAMBDA arity, r1 :
    Require(arity = 2, Then(ReadHead(Major.array, r1), LAMBDA n, r2 :
      Require(n <= Len(r2), Then(ReadNames(r2, n, <<>>), LAMBDA names, r3 :
        Whole(Then(ReadProperties(r3), LAMBDA props, left :
          Read([labels |-> Range(names), props |-> props], left))))))))

(* EdgeRecord: the properties map itself.                                    *)
EncodeEdgeRecord(props) == WriteProperties(props)
DecodeEdgeRecord(s) == Whole(ReadProperties(s))
=============================================================================
