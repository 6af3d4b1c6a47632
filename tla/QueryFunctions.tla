----------------------------- MODULE QueryFunctions -----------------------------
(***************************************************************************)
(* Operators and functions of the expression evaluator that need no row     *)
(* (acetone-cypher exec/eval.rs and exec/functions.rs).                     *)
(*                                                                          *)
(* An outcome is [ok, v, log]: a value, or an error kind, after the charges *)
(* the evaluation made on the query's resource governor, in order.  The     *)
(* governor refuses at the first charge over a limit, so charging and       *)
(* limiting are separate: Governor.tla folds the log.  Characters are       *)
(* numbers: the digits 0..9, the dot, the minus sign and the letters of the *)
(* names NaN and Infinity.  A property, label or type is named by the       *)
(* string of its one number.  Case mapping, trimming, rounding to whole     *)
(* floats, square roots and powers are left out.                            *)
(***************************************************************************)
EXTENDS Overlay

Ok(v) == [ok |-> TRUE, v |-> v, log |-> <<>>]
Fail(kind) == [ok |-> FALSE, v |-> kind, log |-> <<>>]
After(log, r) == [r EXCEPT !.log = log \o @]
Charged(resource, n, r) == After(<< <<resource, n>> >>, r)
Then(r, Next(_)) == IF r.ok THEN After(r.log, Next(r.v)) ELSE r
Each(start, items, Step(_, _)) ==
  LET upto[i \in 0..Len(items)] ==
        IF i = 0 THEN start ELSE Then(upto[i - 1], LAMBDA acc : Step(acc, items[i]))
  IN  upto[Len(items)]

TypeError == Fail("type")

---------------------------------------------------------------------------
(* Ternary logic                                                             *)

(* truth: a boolean or null, anything else is an error.                      *)
Truth(x) == IF Kind(x) \in {"bool", "null"} THEN Ok(x) ELSE TypeError
Not3(x) == IF x = Null THEN Null ELSE Bool(~x[2])
Logic(op, a, b) ==
  CASE op = "and" -> IF Bool(FALSE) \in {a, b} THEN Bool(FALSE)
                     ELSE IF {a, b} = {Bool(TRUE)} THEN Bool(TRUE) ELSE Null
    [] op = "or" -> IF Bool(TRUE) \in {a, b} THEN Bool(TRUE)
                    ELSE IF {a, b} = {Bool(FALSE)} THEN Bool(FALSE) ELSE Null
    [] op = "xor" -> IF Null \in {a, b} THEN Null ELSE Bool(a /= b)

---------------------------------------------------------------------------
(* Arithmetic                                                                *)

Checked(n) == IF n \in IntMin..IntMax THEN Ok(Whole(n)) ELSE Fail("overflow")
Truncated(x, y) == Sign(x) * Sign(y) * (Abs(x) \div Abs(y))

(* The float format of QueryValue: exact up to twice ExactLimit halves, then *)
(* even whole numbers.                                                       *)
Rounded(h) ==
  IF h \in (-2 * ExactLimit)..(2 * ExactLimit) THEN h
  ELSE IF h >= PosInf THEN PosInf ELSE IF h <= NegInf THEN NegInf
  ELSE 2 * RoundEven(Truncated(h, 2))
NegateF(h) == CASE h = NaN -> NaN [] h = 0 -> NegZero [] h = NegZero -> 0 [] OTHER -> -h
PlusF(a, b) ==
  CASE NaN \in {a, b} \/ {a, b} = {PosInf, NegInf} -> NaN
    [] {a, b} \cap {PosInf, NegInf} /= {} -> IF PosInf \in {a, b} THEN PosInf ELSE NegInf
    [] a = NegZero -> b
    [] b = NegZero -> a
    [] OTHER -> Rounded(a + b)
TimesF(a, b) ==
  LET zero == {a, b} \cap {0, NegZero} /= {}
      infinite == {a, b} \cap {PosInf, NegInf} /= {}
      negative == (a < 0 \/ a = NegZero) /= (b < 0 \/ b = NegZero)
  IN  CASE NaN \in {a, b} \/ (zero /\ infinite) -> NaN
        [] infinite -> IF negative THEN NegInf ELSE PosInf
        [] zero -> IF negative THEN NegZero ELSE 0
        [] OTHER -> Rounded(Truncated(a * b, 2))
DivideF(a, b) ==
  LET negative == (a < 0 \/ a = NegZero) /= (b < 0 \/ b = NegZero)
      aInfinite == a \in {PosInf, NegInf}
      bInfinite == b \in {PosInf, NegInf}
  IN  CASE NaN \in {a, b} \/ (aInfinite /\ bInfinite) \/ {a, b} \subseteq {0, NegZero} -> NaN
        [] aInfinite \/ b \in {0, NegZero} -> IF negative THEN NegInf ELSE PosInf
        [] bInfinite \/ a \in {0, NegZero} -> IF negative THEN NegZero ELSE 0
        [] OTHER -> Rounded(Truncated(2 * a, b))
ModuloF(a, b) ==
  CASE NaN \in {a, b} \/ a \in {PosInf, NegInf} \/ b \in {0, NegZero} -> NaN
    [] b \in {PosInf, NegInf} \/ a \in {0, NegZero} -> a
    [] OTHER -> a - b * Truncated(a, b)
FloatOf(x) == IF Kind(x) = "float" THEN x[2] ELSE AsF64(x)
FloatArith(op, a, b) ==
  Float(CASE op = "add" -> PlusF(FloatOf(a), FloatOf(b))
          [] op = "sub" -> PlusF(FloatOf(a), NegateF(FloatOf(b)))
          [] op = "mul" -> TimesF(FloatOf(a), FloatOf(b))
          [] op = "div" -> DivideF(FloatOf(a), FloatOf(b))
          [] op = "mod" -> ModuloF(FloatOf(a), FloatOf(b)))
IntArith(op, m, n) ==
  CASE op = "add" -> Checked(m + n)
    [] op = "sub" -> Checked(m - n)
    [] op = "mul" -> Checked(m * n)
    [] op \in {"div", "mod"} /\ n = 0 -> Fail("division_by_zero")
    [] op \in {"div", "mod"} /\ m = IntMin /\ n = -1 -> Fail("overflow")
    [] op = "div" -> Ok(Whole(Truncated(m, n)))
    [] op = "mod" -> Ok(Whole(m - n * Truncated(m, n)))
Arith(op, a, b) ==
  CASE Null \in {a, b} -> Ok(Null)
    [] Kind(a) = "int" /\ Kind(b) = "int" -> IntArith(op, a[2], b[2])
    [] IsNumber(a) /\ IsNumber(b) /\ {Kind(a), Kind(b)} /= {"int"} -> Ok(FloatArith(op, a, b))
    [] OTHER -> TypeError

---------------------------------------------------------------------------
(* Rendering and parsing of numbers                                          *)

Dot == 10
Minus == 11
NaNName == <<12, 13, 12>>
InfinityName == <<14, 15, 16, 15, 15, 15, 17, 18>>
RECURSIVE Digits(_)
Digits(n) == IF n < 10 THEN <<n>> ELSE Append(Digits(n \div 10), n % 10)
RenderInt(n) == IF n < 0 THEN <<Minus>> \o Digits(-n) ELSE Digits(n)
FormatFloat(h) ==
  CASE h = NaN -> NaNName
    [] h = PosInf -> InfinityName
    [] h = NegInf -> <<Minus>> \o InfinityName
    [] h = NegZero -> <<Minus, 0, Dot, 0>>
    [] OTHER -> (IF h < 0 THEN <<Minus>> ELSE <<>>) \o Digits(Abs(h) \div 2) \o <<Dot, IF h % 2 = 0 THEN 0 ELSE 5>>
Render(x) == IF Kind(x) = "int" THEN RenderInt(x[2]) ELSE FormatFloat(x[2])

RECURSIVE NumberOf(_)
NumberOf(digits) == IF digits = <<>> THEN 0 ELSE 10 * NumberOf(SubSeq(digits, 1, Len(digits) - 1)) + digits[Len(digits)]
AllDigits(s) == s /= <<>> /\ \A i \in DOMAIN s : s[i] \in 0..9
Unsigned(s) == IF s /= <<>> /\ s[1] = Minus THEN Tail(s) ELSE s
ParsesInt(s) ==
  LET n == NumberOf(Unsigned(s))
  IN  AllDigits(Unsigned(s)) /\ (IF Unsigned(s) = s THEN n <= IntMax ELSE -n >= IntMin)
ParseInt(s) == IF Unsigned(s) = s THEN NumberOf(s) ELSE -NumberOf(Unsigned(s))
(* Parsed as a float: digits, or digits, a dot and a half.                   *)
ParseFloat(s) ==
  LET u == Unsigned(s)
      whole == SubSeq(u, 1, Len(u) - 2)
      half == IF Len(u) > 2 /\ u[Len(u) - 1] = Dot /\ AllDigits(whole) /\ u[Len(u)] \in {0, 5} THEN <<u[Len(u)] \div 5>> ELSE <<>>
      magnitude == IF u = NaNName THEN NaN ELSE IF u = InfinityName THEN PosInf
                   ELSE IF half /= <<>> THEN Rounded(2 * NumberOf(whole) + half[1]) ELSE Rounded(2 * NumberOf(u))
  IN  IF ~(u \in {NaNName, InfinityName} \/ half /= <<>> \/ AllDigits(u)) THEN Null
      ELSE Float(IF u = s THEN magnitude ELSE NegateF(magnitude))
(* x.trunc() as i64: saturating, NaN to zero.                                *)
TruncateF(h) ==
  CASE h \in {NaN, NegZero} -> 0
    [] Truncated(h, 2) > IntMax -> IntMax
    [] Truncated(h, 2) < IntMin -> IntMin
    [] OTHER -> Truncated(h, 2)

---------------------------------------------------------------------------
(* Collections                                                               *)

EnsureNestable(x) == IF NestingExceeds(x, MaxDepth - 1) THEN Fail("value_depth") ELSE Ok(x)

(* add: the resulting size is charged before the value is built.             *)
Add(a, b) ==
  LET texts == (IF Kind(a) = "string" THEN a[2] ELSE Render(a)) \o (IF Kind(b) = "string" THEN b[2] ELSE Render(b))
  IN  CASE Null \in {a, b} -> Ok(Null)
        [] "string" \in {Kind(a), Kind(b)} /\ {Kind(a), Kind(b)} \subseteq {"string", "int", "float"} ->
             Charged("collection", Len(texts), Ok(Str(texts)))
        [] Kind(a) = "list" /\ Kind(b) = "list" -> Charged("collection", Len(a[2] \o b[2]), Ok(List(a[2] \o b[2])))
        [] Kind(a) = "list" /\ Kind(b) \notin {"list", "null"} ->
             Charged("collection", Len(a[2]) + 1, Then(EnsureNestable(b), LAMBDA x : Ok(List(Append(a[2], x)))))
        [] Kind(b) = "list" /\ Kind(a) \notin {"list", "null"} ->
             Charged("collection", Len(b[2]) + 1, Then(EnsureNestable(a), LAMBDA x : Ok(List(<<x>> \o b[2]))))
        [] OTHER -> Arith("add", a, b)

Membership(needle, items) ==
  LET results == {Eq3(needle, items[i]) : i \in DOMAIN items}
  IN  IF Bool(TRUE) \in results THEN Bool(TRUE) ELSE IF Null \in results THEN Null ELSE Bool(FALSE)

Affix(op, s, t) ==
  CASE op = "starts" -> StartsWith(s, t)
    [] op = "ends" -> Len(t) <= Len(s) /\ SubSeq(s, Len(s) - Len(t) + 1, Len(s)) = t
    [] op = "contains" -> \E i \in 0..Len(s) - Len(t) : SubSeq(s, i + 1, i + Len(t)) = t

Compare(op, a, b) ==
  LET order == Cmp3(a, b)
  IN  IF IsNumber(a) /\ IsNumber(b) /\ (IsNaN(a) \/ IsNaN(b)) THEN Bool(FALSE)
      ELSE IF order = Incomparable THEN Null
      ELSE Bool(CASE op = "lt" -> order = -1 [] op = "le" -> order /= 1
                  [] op = "gt" -> order = 1 [] op = "ge" -> order /= -1)

Unary(op, x) ==
  CASE op = "not" -> Then(Truth(x), LAMBDA t : Ok(Not3(t)))
    [] op = "minus" /\ Kind(x) = "int" -> Checked(-x[2])
    [] op = "minus" /\ Kind(x) = "float" -> Ok(Float(NegateF(x[2])))
    [] x = Null \/ (op = "plus" /\ IsNumber(x)) -> Ok(x)
    [] OTHER -> TypeError

Binary(op, a, b) ==
  CASE op = "eq" -> Ok(Eq3(a, b))
    [] op = "ne" -> Ok(Not3(Eq3(a, b)))
    [] op \in {"lt", "le", "gt", "ge"} -> Ok(Compare(op, a, b))
    [] op = "add" -> Add(a, b)
    [] op \in {"sub", "mul", "div", "mod"} -> Arith(op, a, b)
    [] op = "in" -> IF b = Null THEN Ok(Null) ELSE IF Kind(b) = "list" THEN Ok(Membership(a, b[2])) ELSE TypeError
    [] op \in {"starts", "ends", "contains"} ->
         Ok(IF Kind(a) = "string" /\ Kind(b) = "string" THEN Bool(Affix(op, a[2], b[2])) ELSE Null)
    [] op = "matches" -> Fail("unsupported")

Lookup(f, p) == IF p \in DOMAIN f THEN f[p] ELSE Null
PropertyAccess(base, p) ==
  CASE base = Null -> Ok(Null)
    [] Kind(base) \in {"node", "rel"} -> Ok(Lookup(base[2].properties, p))
    [] Kind(base) = "map" -> Ok(Lookup(base[2], p))
    [] OTHER -> TypeError

IndexAccess(base, index) ==
  LET at == IF index[2] < 0 THEN index[2] + Len(base[2]) ELSE index[2]
      name == IF Len(index[2]) = 1 THEN index[2][1] ELSE -1
  IN  CASE Null \in {base, index} -> Ok(Null)
        [] Kind(base) = "list" /\ Kind(index) = "int" -> Ok(IF at \in 0..Len(base[2]) - 1 THEN base[2][at + 1] ELSE Null)
        [] Kind(base) \in {"map", "node", "rel"} /\ Kind(index) = "string" -> PropertyAccess(base, name)
        [] OTHER -> TypeError

Clamp(n, len) ==
  LET at == IF n < 0 THEN n + len ELSE n IN IF at < 0 THEN 0 ELSE IF at > len THEN len ELSE at

(* A bound is <<>> when absent.                                              *)
SliceAccess(base, from, to) ==
  LET len == Len(base[2])
      bound(b, default) == IF b = <<>> THEN default ELSE Clamp(b[2], len)
      bad(b) == b /= <<>> /\ Kind(b) \notin {"int", "null"}
  IN  CASE base = Null -> Ok(Null)
        [] Kind(base) \notin {"list", "null"} -> TypeError
        [] OTHER -> IF bad(from) THEN TypeError ELSE IF from = Null THEN Ok(Null)
                    ELSE IF bad(to) THEN TypeError ELSE IF to = Null THEN Ok(Null)
                    ELSE Ok(List(SubSeq(base[2], bound(from, 0) + 1, bound(to, len))))

(* quantify over the ternary results of the predicate.                       *)
Quantified(kind, results) ==
  LET t == Cardinality({i \in DOMAIN results : results[i] = Bool(TRUE)})
      n == Cardinality({i \in DOMAIN results : results[i] = Null})
      f == Len(results) - t - n
  IN  CASE kind = "any" -> IF t >= 1 THEN Bool(TRUE) ELSE IF n >= 1 THEN Null ELSE Bool(FALSE)
        [] kind = "all" -> IF f >= 1 THEN Bool(FALSE) ELSE IF n >= 1 THEN Null ELSE Bool(TRUE)
        [] kind = "none" -> IF t >= 1 THEN Bool(FALSE) ELSE IF n >= 1 THEN Null ELSE Bool(TRUE)
        [] kind = "single" -> IF t = 1 /\ n = 0 THEN Bool(TRUE)
                              ELSE IF t >= 2 \/ (t = 0 /\ n = 0) THEN Bool(FALSE) ELSE Null
=============================================================================
