------------------------------ MODULE QueryValue ------------------------------
(***************************************************************************)
(* Runtime values of the query engine (acetone-cypher exec/value.rs) and    *)
(* the comparison regimes over them: ternary equality, ternary ordering,    *)
(* the global sort order, and the canonical DISTINCT key.                   *)
(*                                                                          *)
(* A value is <<kind, payload>>.  Integers have Width bits.  A float is a   *)
(* whole number of halves, exact for integers below ExactLimit and then     *)
(* only even, with sentinels for NaN, the infinities and negative zero: the *)
(* shape of i64 against f64 at a size that can be enumerated.  A string is  *)
(* a sequence of characters, a map a function from property numbers, an     *)
(* entity id a tuple.  A stored value the runtime does not model (a date)   *)
(* is carried as <<"stored", n>> and renders as a string.                   *)
(***************************************************************************)
EXTENDS Integers, Sequences, FiniteSets

CONSTANTS Width,        \* bits of an integer (64 in the code)
          MaxDepth      \* MAX_VALUE_DEPTH

ASSUME QueryBounds == Width \in 4..8 /\ MaxDepth \in Nat \ {0}

IntMax == 2 ^ (Width - 1) - 1
IntMin == -(2 ^ (Width - 1))
ExactLimit == 2 ^ (Width - 2)

NaN == 4 * 2 ^ Width
PosInf == 3 * 2 ^ Width
NegInf == -PosInf
NegZero == 5 * 2 ^ Width

Null == <<"null", 0>>
Bool(b) == <<"bool", b>>
Whole(n) == <<"int", n>>
Float(halves) == <<"float", halves>>
Str(chars) == <<"string", chars>>
List(items) == <<"list", items>>
Map(f) == <<"map", f>>
Node(n) == <<"node", n>>
Rel(r) == <<"rel", r>>
Path(nodes, rels) == <<"path", [nodes |-> nodes, rels |-> rels]>>
Stored(n) == <<"stored", n>>

Kind(x) == x[1]
IsNumber(x) == Kind(x) \in {"int", "float"}

SeqCompare(a, b) ==
  LET differ == {i \in DOMAIN a \cap DOMAIN b : a[i] /= b[i]}
      i == CHOOSE i \in differ : \A j \in differ : i <= j
  IN  IF differ /= {} THEN IF a[i] < b[i] THEN -1 ELSE 1
      ELSE IF Len(a) < Len(b) THEN -1 ELSE IF Len(a) > Len(b) THEN 1 ELSE 0

Sign(n) == IF n < 0 THEN -1 ELSE IF n > 0 THEN 1 ELSE 0

(* Rounding to the nearest float, ties to even.                              *)
RoundEven(n) == IF n % 2 = 0 THEN n ELSE IF (n + 1) % 4 = 0 THEN n + 1 ELSE n - 1
AsF64(x) ==
  IF Kind(x) = "float" THEN IF x[2] = NegZero THEN 0 ELSE x[2]
  ELSE 2 * (IF x[2] \in -ExactLimit..ExactLimit THEN x[2] ELSE RoundEven(x[2]))
IsNaN(x) == Kind(x) = "float" /\ x[2] = NaN
IsInfinite(x) == Kind(x) = "float" /\ x[2] \in {PosInf, NegInf}
Integral(x) == ~IsNaN(x) /\ ~IsInfinite(x) /\ AsF64(x) % 2 = 0

(* render_stored: the characters a carried value presents in every query.    *)
RenderStored(n) == <<9, n>>
Decayed(x) == IF Kind(x) = "stored" THEN Str(RenderStored(x[2])) ELSE x
TypeName(x) == Kind(Decayed(x))

(* eq3 over the elements of two containers: a definite difference wins over  *)
(* an unknown, an unknown over equality.                                     *)
AllEqual(results) ==
  IF Bool(FALSE) \in results THEN Bool(FALSE)
  ELSE IF Null \in results THEN Null ELSE Bool(TRUE)

Ids(entities) == [i \in DOMAIN entities |-> entities[i].id]

RECURSIVE Eq3(_, _)
Eq3Raw(a, b) ==
  IF Kind(a) = "null" \/ Kind(b) = "null" THEN Null
  ELSE IF Kind(a) = "int" /\ Kind(b) = "int" THEN Bool(a[2] = b[2])
  ELSE IF IsNumber(a) /\ IsNumber(b)
       THEN Bool(AsF64(a) = AsF64(b) /\ ~IsNaN(a) /\ ~IsNaN(b))
  ELSE IF Kind(a) /= Kind(b) THEN Bool(FALSE)
  ELSE CASE Kind(a) \in {"bool", "string"} -> Bool(a[2] = b[2])
         [] Kind(a) \in {"list", "map"} ->
              IF DOMAIN a[2] /= DOMAIN b[2] THEN Bool(FALSE)
              ELSE AllEqual({Eq3(a[2][i], b[2][i]) : i \in DOMAIN a[2]})
         [] Kind(a) \in {"node", "rel"} -> Bool(a[2].id = b[2].id)
         [] Kind(a) = "path" -> Bool(Ids(a[2].nodes) = Ids(b[2].nodes)
                                     /\ Ids(a[2].rels) = Ids(b[2].rels))

Eq3(a, b) == Eq3Raw(Decayed(a), Decayed(b))

Incomparable == 9

(* cmp3: only values of one comparable family order; an incomparable pair of *)
(* elements makes the lists incomparable, the first unequal pair decides.    *)
RECURSIVE Cmp3(_, _)
Cmp3Lists(a, b) ==
  LET at == {i \in DOMAIN a \cap DOMAIN b : Cmp3(a[i], b[i]) /= 0}
  IN  IF at = {} THEN Sign(Len(a) - Len(b))
      ELSE LET i == CHOOSE i \in at : \A j \in at : i <= j IN Cmp3(a[i], b[i])
Cmp3Raw(a, b) ==
  CASE Kind(a) = "int" /\ Kind(b) = "int" -> Sign(a[2] - b[2])
    [] IsNumber(a) /\ IsNumber(b) /\ (Kind(a) = "float" \/ Kind(b) = "float") ->
         IF IsNaN(a) \/ IsNaN(b) THEN Incomparable ELSE Sign(AsF64(a) - AsF64(b))
    [] Kind(a) = "string" /\ Kind(b) = "string" -> SeqCompare(a[2], b[2])
    [] Kind(a) = "bool" /\ Kind(b) = "bool" ->
         IF a[2] = b[2] THEN 0 ELSE IF b[2] THEN -1 ELSE 1
    [] Kind(a) = "list" /\ Kind(b) = "list" -> Cmp3Lists(a[2], b[2])
    [] OTHER -> Incomparable
Cmp3(a, b) == Cmp3Raw(Decayed(a), Decayed(b))

RankOf == [map |-> 0, node |-> 1, rel |-> 2, list |-> 3, path |-> 4, string |-> 5,
           bool |-> 6, int |-> 7, float |-> 7, null |-> 8]

(* The memcomparable image of an entity id's parts is abstracted to the      *)
(* lexicographic order of its numbers.                                       *)
RECURSIVE Flat(_)
Flat(ids) == IF ids = <<>> THEN <<>> ELSE Head(ids) \o Flat(Tail(ids))

RECURSIVE KeysAscending(_)
KeysAscending(S) ==
  IF S = {} THEN <<>>
  ELSE LET k == CHOOSE k \in S : \A j \in S : k <= j IN <<k>> \o KeysAscending(S \ {k})

(* global_cmp: total over all values.                                        *)
RECURSIVE GlobalCmp(_, _)
GlobalCmpSeqs(a, b) ==
  LET at == {i \in DOMAIN a \cap DOMAIN b : GlobalCmp(a[i], b[i]) /= 0}
  IN  IF at = {} THEN Sign(Len(a) - Len(b))
      ELSE LET i == CHOOSE i \in at : \A j \in at : i <= j IN GlobalCmp(a[i], b[i])
GlobalCmpNumbers(a, b) ==
  IF Kind(a) = "int" /\ Kind(b) = "int" THEN Sign(a[2] - b[2])
  ELSE CASE IsNaN(a) /\ IsNaN(b) -> 0
         [] IsNaN(a) -> 1
         [] IsNaN(b) -> -1
         [] OTHER -> Sign(AsF64(a) - AsF64(b))
GlobalCmpRaw(a, b) ==
  IF RankOf[Kind(a)] /= RankOf[Kind(b)] THEN Sign(RankOf[Kind(a)] - RankOf[Kind(b)])
  ELSE CASE Kind(a) = "null" -> 0
         [] IsNumber(a) -> GlobalCmpNumbers(a, b)
         [] Kind(a) = "string" -> SeqCompare(a[2], b[2])
         [] Kind(a) = "bool" -> IF a[2] = b[2] THEN 0 ELSE IF b[2] THEN -1 ELSE 1
         [] Kind(a) = "list" -> GlobalCmpSeqs(a[2], b[2])
         [] Kind(a) = "map" ->
              LET ka == KeysAscending(DOMAIN a[2])
                  kb == KeysAscending(DOMAIN b[2])
              IN  IF ka /= kb THEN SeqCompare(ka, kb)
                  ELSE GlobalCmpSeqs([i \in DOMAIN ka |-> a[2][ka[i]]],
                                     [i \in DOMAIN kb |-> b[2][kb[i]]])
         [] Kind(a) \in {"node", "rel"} -> SeqCompare(a[2].id, b[2].id)
         [] Kind(a) = "path" -> SeqCompare(Flat(Ids(a[2].nodes) \o Ids(a[2].rels)),
                                           Flat(Ids(b[2].nodes) \o Ids(b[2].rels)))
GlobalCmp(a, b) == GlobalCmpRaw(Decayed(a), Decayed(b))
Equivalent(a, b) == GlobalCmp(a, b) = 0

(* push_number_key: an exact integer keys as that integer whatever its kind. *)
NumberKey(x) ==
  CASE Kind(x) = "int" -> <<0, x[2]>>
    [] IsNaN(x) -> <<2>>
    [] Integral(x) /\ AsF64(x) >= 2 * IntMin /\ AsF64(x) < 2 * (IntMax + 1) -> <<0, AsF64(x) \div 2>>
    [] OTHER -> <<1, x[2]>>

(* distinct_key: kind tag, then length-prefixed fields.                      *)
Prefixed(s) == <<Len(s)>> \o s
RECURSIVE DistinctKey(_)
DistinctKeyRaw(x) ==
  CASE Kind(x) = "null" -> <<8>>
    [] IsNumber(x) -> <<7>> \o NumberKey(x)
    [] Kind(x) = "bool" -> <<6, IF x[2] THEN 1 ELSE 0>>
    [] Kind(x) = "string" -> <<5>> \o Prefixed(x[2])
    [] Kind(x) = "list" -> <<3, Len(x[2])>> \o Flat([i \in DOMAIN x[2] |-> DistinctKey(x[2][i])])
    [] Kind(x) = "map" ->
         LET ks == KeysAscending(DOMAIN x[2])
         IN  <<0, Len(ks)>> \o Flat([i \in DOMAIN ks |-> <<1, ks[i]>> \o DistinctKey(x[2][ks[i]])])
    [] Kind(x) = "node" -> <<1>> \o Prefixed(x[2].id)
    [] Kind(x) = "rel" -> <<2>> \o Prefixed(x[2].id)
    [] Kind(x) = "path" ->
         <<4, Len(x[2].nodes), Len(x[2].rels)>>
         \o Flat([i \in DOMAIN x[2].nodes |-> Prefixed(x[2].nodes[i].id)])
         \o Flat([i \in DOMAIN x[2].rels |-> Prefixed(x[2].rels[i].id)])
DistinctKey(x) == DistinctKeyRaw(Decayed(x))

(* nesting_exceeds: container levels, entities and scalars counting one.     *)
RECURSIVE NestingExceeds(_, _)
NestingExceeds(x, limit) ==
  \/ limit < 1
  \/ /\ Kind(x) \in {"list", "map"}
     /\ \E i \in DOMAIN x[2] : NestingExceeds(x[2][i], limit - 1)
=============================================================================
