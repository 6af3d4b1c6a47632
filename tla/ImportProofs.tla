----------------------------- MODULE ImportProofs -----------------------------
(* Theorems about Import, for every schema, source, batch size and bound.    *)
EXTENDS Import, WellFoundedInduction, TLAPS

-----------------------------------------------------------------------------
(* Putting a sequence of records.                                           *)

\* A concatenation has the values of its two parts.
LEMMA JoinedRange ==
  ASSUME NEW S, NEW a \in Seq(S), NEW b \in Seq(S)
  PROVE  Range(a \o b) = Range(a) \cup Range(b)
<1> DEFINE c == a \o b
<1>1. /\ DOMAIN a = 1..Len(a) /\ DOMAIN b = 1..Len(b) /\ DOMAIN c = 1..(Len(a) + Len(b))
      /\ Len(a) \in Nat /\ Len(b) \in Nat
      /\ \A i \in 1..Len(a) : c[i] = a[i]
      /\ \A i \in 1..Len(b) : c[Len(a) + i] = b[i]
  OBVIOUS
<1> HIDE DEF c
<1>2. ASSUME NEW i \in DOMAIN c PROVE c[i] \in Range(a) \cup Range(b)
  <2>1. CASE i \in 1..Len(a)
    BY <1>1, <2>1 DEF Range
  <2>2. CASE i \notin 1..Len(a)
    <3>1. i - Len(a) \in 1..Len(b) /\ i = Len(a) + (i - Len(a))
      BY <1>1, <2>2
    <3>2. c[i] = b[i - Len(a)]
      BY <1>1, <3>1
    <3> QED BY <1>1, <3>1, <3>2 DEF Range
  <2> QED BY <2>1, <2>2
<1>3. ASSUME NEW i \in DOMAIN a PROVE a[i] \in Range(c)
  <2>1. i \in DOMAIN c /\ c[i] = a[i]
    BY <1>1
  <2> QED BY <2>1 DEF Range
<1>4. ASSUME NEW i \in DOMAIN b PROVE b[i] \in Range(c)
  <2>1. Len(a) + i \in DOMAIN c /\ c[Len(a) + i] = b[i]
    BY <1>1
  <2> QED BY <2>1 DEF Range
<1>5. Range(c) = Range(a) \cup Range(b)
  BY <1>2, <1>3, <1>4 DEF Range
<1> QED BY <1>5 DEF c

\* A sequence cut in two is what its parts concatenate to.
LEMMA CutJoins ==
  ASSUME NEW S, NEW a \in Seq(S), NEW n \in 0..Len(a)
  PROVE  SubSeq(a, 1, n) \o SubSeq(a, n + 1, Len(a)) = a
<1> DEFINE x == SubSeq(a, 1, n)
           y == SubSeq(a, n + 1, Len(a))
           l == Len(a)
<1>0. l \in Nat /\ n \in 0..l
  OBVIOUS
<1>1. /\ x \in Seq(S) /\ Len(x) = n /\ \A i \in 1..n : x[i] = a[i]
  OBVIOUS
<1>2. /\ y \in Seq(S) /\ Len(y) = l - n /\ \A i \in 1..(l - n) : y[i] = a[n + i]
  OBVIOUS
<1> DEFINE c == x \o y
<1>3. /\ c \in Seq(S) /\ Len(c) = l
      /\ \A i \in 1..n : c[i] = x[i]
      /\ \A i \in 1..(l - n) : c[n + i] = y[i]
  <2> HIDE DEF x, y, l
  <2> QED BY <1>0, <1>1, <1>2, SMTT(30)
<1> HIDE DEF x, y, c
<1>4. ASSUME NEW i \in 1..Len(a) PROVE c[i] = a[i]
  <2> HIDE DEF l
  <2>0. i \in 1..l
    BY DEF l
  <2>1. CASE i <= n
    BY <2>0, <1>0, <1>1, <1>3, <2>1
  <2>2. CASE i > n
    <3>1. i - n \in 1..(l - n) /\ n + (i - n) = i
      BY <2>0, <1>0, <2>2
    <3>2. c[n + (i - n)] = y[i - n] /\ y[i - n] = a[n + (i - n)]
      BY <1>2, <1>3, <3>1
    <3> QED BY <3>1, <3>2
  <2> QED BY <2>0, <1>0, <2>1, <2>2
<1>5. c = a
  BY <1>3, <1>4
<1> QED BY <1>5 DEF x, y, c

\* A set of naturals that is not empty has a least element.
LEMMA LeastOf ==
  ASSUME NEW T \in SUBSET Nat, T # {}
  PROVE  \E x \in T : \A y \in T : x <= y
<1> DEFINE R == OpToRel(<, Nat)
<1>1. IsWellFoundedOn(R, Nat)
  BY NatLessThanWellFounded
<1>2. \A x, y \in Nat : <<y, x>> \in R <=> y < x
  BY DEF OpToRel
<1> HIDE DEF R
<1>3. \E x \in T : \A y \in T : ~(<<y, x>> \in R)
  BY <1>1, WFMin
<1>4. PICK x \in T : \A y \in T : ~(<<y, x>> \in R)
  BY <1>3
<1>5. ASSUME NEW y \in T PROVE x <= y
  <2>1. x \in Nat /\ y \in Nat /\ ~(y < x)
    BY <1>2, <1>4
  <2> QED BY <2>1
<1> QED BY <1>5


\* A bounded one has a greatest element.
LEMMA GreatestOf ==
  ASSUME NEW n \in Nat, NEW T \in SUBSET (1..n), T # {}
  PROVE  \E x \in T : \A y \in T : y <= x
<1> DEFINE U == {n - x : x \in T}
<1>0. PICK z \in T : TRUE
  OBVIOUS
<1>1. U \in SUBSET Nat /\ n - z \in U
  BY <1>0
<1>2. PICK u \in U : \A v \in U : u <= v
  <2> HIDE DEF U
  <2> QED BY <1>1, LeastOf
<1>3. PICK x \in T : u = n - x
  OBVIOUS
<1>4. ASSUME NEW y \in T PROVE y <= x
  <2>1. n - y \in U
    OBVIOUS
  <2>2. n - x <= n - y
    BY <2>1, <1>2, <1>3
  <2>3. x \in 1..n /\ y \in 1..n
    OBVIOUS
  <2> HIDE DEF U
  <2> QED BY <2>2, <2>3
<1> QED BY <1>4

Puts == NodePuts \cup EdgePuts \cup {Bad}

\* The record that survives is that of the last put of the key.
LEMMA LastPutIs ==
  ASSUME NEW s \in Seq(Puts), NEW k \in PutKeys(s)
  PROVE  \E i \in PutsOf(s, k) : LastPut(s, k) = s[i] /\ \A j \in PutsOf(s, k) : j <= i
<1>1. PutsOf(s, k) \in SUBSET (1..Len(s)) /\ Len(s) \in Nat
  BY DEF PutsOf
<1>2. PutsOf(s, k) # {}
  <2>1. PICK p \in Range(s) \cap NodePuts : p.key = k
    BY DEF PutKeys
  <2>2. PICK i \in DOMAIN s : p = s[i]
    BY <2>1 DEF Range
  <2>3. i \in PutsOf(s, k)
    BY <2>1, <2>2 DEF PutsOf
  <2> QED BY <2>3
<1>3. \E i \in PutsOf(s, k) : \A j \in PutsOf(s, k) : j <= i
  BY <1>1, <1>2, GreatestOf
<1> QED BY <1>3 DEF LastPut

\* Only that put can be it.
LEMMA LastPutUnique ==
  ASSUME NEW s \in Seq(Puts), NEW k \in PutKeys(s), NEW i \in PutsOf(s, k),
         \A j \in PutsOf(s, k) : j <= i
  PROVE  LastPut(s, k) = s[i]
<1>1. PICK m \in PutsOf(s, k) : LastPut(s, k) = s[m] /\ \A j \in PutsOf(s, k) : j <= m
  BY LastPutIs
<1>2. m \in Int /\ i \in Int /\ m <= i /\ i <= m
  BY <1>1 DEF PutsOf
<1> QED BY <1>1, <1>2

\* The keys a sequence puts are those its two parts put.
LEMMA PutKeysConcat ==
  ASSUME NEW a \in Seq(Puts), NEW b \in Seq(Puts)
  PROVE  PutKeys(a \o b) = PutKeys(a) \cup PutKeys(b)
<1>1. Range(a \o b) = Range(a) \cup Range(b)
  BY JoinedRange
<1> QED BY <1>1 DEF PutKeys

\* The last put of a concatenation is in the second part when that has one.
LEMMA LastPutConcat ==
  ASSUME NEW a \in Seq(Puts), NEW b \in Seq(Puts), NEW k \in PutKeys(a \o b)
  PROVE  LastPut(a \o b, k) = IF k \in PutKeys(b) THEN LastPut(b, k) ELSE LastPut(a, k)
<1> DEFINE c == a \o b
<1>1. /\ c \in Seq(Puts) /\ Len(c) = Len(a) + Len(b)
      /\ \A i \in 1..Len(a) : c[i] = a[i]
      /\ \A i \in 1..Len(b) : c[Len(a) + i] = b[i]
  OBVIOUS
<1>2. /\ DOMAIN a = 1..Len(a) /\ DOMAIN b = 1..Len(b) /\ DOMAIN c = 1..Len(c)
      /\ Len(a) \in Nat /\ Len(b) \in Nat
  BY <1>1
<1>3. ASSUME NEW i \in PutsOf(c, k) PROVE i \in PutsOf(a, k) \/ i - Len(a) \in PutsOf(b, k)
  <2>1. CASE i <= Len(a)
    BY <2>1, <1>1, <1>2, <1>3 DEF PutsOf
  <2>2. CASE i > Len(a)
    <3>1. i - Len(a) \in 1..Len(b) /\ i = Len(a) + (i - Len(a))
      BY <2>2, <1>1, <1>2, <1>3 DEF PutsOf
    <3>2. c[i] = b[i - Len(a)]
      BY <3>1, <1>1
    <3> QED BY <3>1, <3>2, <1>2, <1>3 DEF PutsOf
  <2> QED BY <2>1, <2>2, <1>1, <1>2 DEF PutsOf
<1>4. CASE k \in PutKeys(b)
  <2>1. PICK m \in PutsOf(b, k) : LastPut(b, k) = b[m] /\ \A j \in PutsOf(b, k) : j <= m
    BY <1>4, LastPutIs
  <2>2. m \in 1..Len(b) /\ b[m] \in NodePuts /\ b[m].key = k
    BY <2>1, <1>2 DEF PutsOf
  <2>3. Len(a) + m \in PutsOf(c, k) /\ c[Len(a) + m] = b[m]
    BY <2>2, <1>1, <1>2 DEF PutsOf
  <2>4. ASSUME NEW j \in PutsOf(c, k) PROVE j <= Len(a) + m
    <3>1. CASE j \in PutsOf(a, k)
      BY <3>1, <2>2, <1>2 DEF PutsOf
    <3>2. CASE j - Len(a) \in PutsOf(b, k)
      <4>1. j - Len(a) <= m /\ j \in Int
        BY <3>2, <2>1, <2>4, <1>1, <1>2 DEF PutsOf
      <4> QED BY <4>1, <2>2, <1>2
    <3> QED BY <3>1, <3>2, <1>3, <2>4
  <2>5. LastPut(c, k) = c[Len(a) + m]
    BY <2>3, <2>4, <1>1, LastPutUnique
  <2> QED BY <2>1, <2>3, <2>5, <1>4
<1>5. CASE k \notin PutKeys(b)
  <2>1. k \in PutKeys(a)
    BY <1>5, PutKeysConcat
  <2>2. PICK m \in PutsOf(a, k) : LastPut(a, k) = a[m] /\ \A j \in PutsOf(a, k) : j <= m
    BY <2>1, LastPutIs
  <2>3. m \in PutsOf(c, k) /\ c[m] = a[m]
    BY <2>2, <1>1, <1>2 DEF PutsOf
  <2>4. PutsOf(b, k) = {}
    BY <1>5 DEF PutsOf, PutKeys, Range
  <2>5. \A j \in PutsOf(c, k) : j <= m
    BY <2>2, <2>4, <1>3
  <2>6. LastPut(c, k) = c[m]
    BY <2>3, <2>5, <1>1, LastPutUnique
  <2> QED BY <2>2, <2>3, <2>6, <1>5
<1> QED BY <1>4, <1>5

\* Putting two sequences one after the other puts their concatenation.
LEMMA PutAllConcat ==
  ASSUME NEW nodes, NEW a \in Seq(Puts), NEW b \in Seq(Puts)
  PROVE  PutAll(PutAll(nodes, a), b) = PutAll(nodes, a \o b)
<1>1. PutKeys(a \o b) = PutKeys(a) \cup PutKeys(b)
  BY PutKeysConcat
<1>2. \A k \in PutKeys(a) \cup PutKeys(b) :
        LastPut(a \o b, k) = IF k \in PutKeys(b) THEN LastPut(b, k) ELSE LastPut(a, k)
  BY <1>1, LastPutConcat
<1> QED BY <1>1, <1>2 DEF PutAll

-----------------------------------------------------------------------------
(* What is always so of the branches and of the import's own record.        *)

Pcs == {"create", "checkout", "seed", "batch", "reset", "commit", "restore", "cleanup", "done"}
Results == {"ok", "dirty", "config", "locked", "mapping", "constraints", "dangling", "nothing",
            "nochange", "committed"}
Runs == [pc : Pcs, result : Results, source : Seq(Puts), rest : Seq(Puts), size : BatchSizes,
         target : Branches \cup {"none"}, original : Branches, created : BOOLEAN,
         daemon : BOOLEAN, retried : BOOLEAN, runs : Int]
Rests == [pc : {"idle"}, runs : Int]

PerBranch(f) == f = [b \in Branches |-> f[b]]

Types ==
  /\ imp \in Rests \cup Runs
  /\ head \in Branches
  /\ PerBranch(tips) /\ tips[head] # None
  /\ PerBranch(before[1])

\* Where the import stands.
Placed ==
  imp \in Runs =>
    /\ tips[imp.original] # None
    /\ imp.target = "none" => head = imp.original /\ ~imp.created
    /\ imp.pc # "done" => imp.target # imp.original
    /\ imp.pc \in {"create", "checkout", "cleanup"} => imp.target # "none" /\ head = imp.original
    /\ imp.pc \in {"seed", "batch", "reset", "commit", "restore"} => head = Target
    /\ imp.pc = "checkout" => tips[imp.target] # None
    /\ imp.pc = "done" => head \in {imp.original, imp.target}
    /\ imp.pc \in {"create", "checkout", "seed", "batch", "commit"} => imp.result = "ok"
    /\ imp.pc = "reset" => imp.result \in {"mapping", "constraints", "locked", "dangling"}
    /\ imp.pc = "cleanup" => imp.created /\ ~Succeeded

CommitsOf(t, o) == (UNION {t[b].commits : b \in {b \in Branches : t[b] /= None}}) \cup o

\* Commits are numbered in the order they are made.
Numbered == \E n \in Nat \ {0} : Commits = 1..n

\* A branch the import created and may yet remove holds no commit of its own.
Removable ==
  /\ imp.created
  /\ \/ imp.pc \in {"checkout", "seed", "batch", "reset", "commit"}
     \/ imp.pc \in {"restore", "cleanup"} /\ ~Succeeded
NothingToLose ==
  imp \in Runs /\ Removable => tips[imp.target].commits \subseteq tips[imp.original].commits \cup others

\* Of an import's record only these change as it proceeds.
Same == /\ imp'.source = imp.source /\ imp'.target = imp.target /\ imp'.original = imp.original
        /\ imp'.size = imp.size /\ imp'.runs = imp.runs
        /\ imp'.daemon = imp.daemon /\ imp'.retried = imp.retried

\* A resting import has no fields but these.
LEMMA TwoShapes ==
  /\ \A i \in Runs : i \notin Rests /\ i.pc # "idle"
  /\ \A i \in Rests : i \notin Runs /\ i.pc = "idle"
  BY DEF Runs, Rests, Pcs

\* Going on changes where the import stands and nothing else of it.
LEMMA GotoIs ==
  ASSUME imp \in Runs, NEW p \in Pcs, Goto(p)
  PROVE  /\ imp' \in Runs /\ Same /\ imp'.pc = p /\ imp'.result = imp.result
         /\ imp'.rest = imp.rest /\ imp'.created = imp.created
  BY DEF Goto, Runs, Same

\* Going on with a result changes where the import stands and its result.
LEMMA FailIs ==
  ASSUME imp \in Runs, NEW p \in Pcs, NEW r \in Results, Fail(p, r)
  PROVE  /\ imp' \in Runs /\ Same /\ imp'.pc = p /\ imp'.result = r
         /\ imp'.rest = imp.rest /\ imp'.created = imp.created
  BY ZenonT(20) DEF Fail, Runs, Same

\* A tip is not None.
LEMMA TipIsNotNone ==
  \A g, c : [graph |-> g, commits |-> c] # None
  <1> SUFFICES ASSUME NEW g, NEW c, [graph |-> g, commits |-> c] = None PROVE FALSE
      OBVIOUS
  <1>1. DOMAIN [graph |-> g, commits |-> c] = DOMAIN None
      OBVIOUS
  <1> QED
      BY <1>1 DEF None

-----------------------------------------------------------------------------
(* What each step does, field by field.                                     *)

\* An import begins with a refusal (a dirty workspace, the current branch as
\* its target), on the current branch, or with its branch to create.
LEMMA BeginIs ==
  ASSUME Types, NEW s \in Seq(Puts), NEW size \in BatchSizes, NEW t \in Branches \cup {"none"},
         NEW d \in BOOLEAN, NEW r \in BOOLEAN, NEW n \in Int, Begin(s, size, t, d, r, n)
  PROVE  /\ imp' \in Runs /\ imp'.target = t /\ imp'.original = head
         /\ imp'.source = s /\ imp'.rest = s /\ imp'.created = FALSE
         /\ \/ Dirty /\ imp'.pc = "done" /\ imp'.result = "dirty"
            \/ ~Dirty /\ t = head /\ imp'.pc = "done" /\ imp'.result = "config"
            \/ ~Dirty /\ t = "none" /\ imp'.pc = "seed" /\ imp'.result = "ok"
            \/ ~Dirty /\ t \notin {head, "none"} /\ imp'.pc = "create" /\ imp'.result = "ok"
  <1> DEFINE pc == IF Dirty \/ t = head THEN "done" ELSE IF t = "none" THEN "seed" ELSE "create"
             result == IF Dirty THEN "dirty" ELSE IF t = head THEN "config" ELSE "ok"
  <1>1. /\ \/ Dirty /\ pc = "done" /\ result = "dirty"
           \/ ~Dirty /\ t = head /\ pc = "done" /\ result = "config"
           \/ ~Dirty /\ t = "none" /\ pc = "seed" /\ result = "ok"
           \/ ~Dirty /\ t \notin {head, "none"} /\ pc = "create" /\ result = "ok"
      <2>1. head # "none"
          <3>1. head \in {"main", "side"}
              BY DEF Branches, Types
          <3> QED
              BY <3>1
      <2>2. CASE Dirty
          BY <2>2
      <2>3. CASE ~Dirty /\ t = head
          BY <2>1, <2>3
      <2>4. CASE ~Dirty /\ t = "none"
          BY <2>1, <2>4
      <2>5. CASE ~Dirty /\ t \notin {head, "none"}
          BY <2>5
      <2> QED
          BY <2>2, <2>3, <2>4, <2>5
  <1>2. pc \in Pcs /\ result \in Results
      BY <1>1 DEF Pcs, Results
  <1>3. imp' = [pc |-> pc, result |-> result, source |-> s, rest |-> s, size |-> size, target |-> t,
                original |-> head, created |-> FALSE, daemon |-> d, retried |-> r, runs |-> n]
      BY DEF Begin
  <1> HIDE DEF pc, result
  <1>4. imp' \in Runs
      BY <1>2, <1>3 DEF Runs, Types
  <1> QED
      BY <1>1, <1>3, <1>4

\* A command begins an import from the state it will be compared with.
LEMMA StartIs ==
  ASSUME Types, Start
  PROVE  /\ imp.pc = "idle" /\ imp' \in Runs /\ imp'.original = head /\ imp'.rest = imp'.source
         /\ imp'.created = FALSE
         /\ \/ Dirty /\ imp'.pc = "done" /\ imp'.result = "dirty"
            \/ ~Dirty /\ imp'.target = head /\ imp'.pc = "done" /\ imp'.result = "config"
            \/ ~Dirty /\ imp'.target = "none" /\ imp'.pc = "seed" /\ imp'.result = "ok"
            \/ ~Dirty /\ imp'.target \notin {head, "none"} /\ imp'.pc = "create" /\ imp'.result = "ok"
         /\ before' = <<tips, head, ws>> /\ met' = {}
         /\ UNCHANGED <<tips, head, ws, others>>
  <1>1. PICK n \in 0..MaxSource, size \in BatchSizes, t \in Branches \cup {"none"}, d \in BOOLEAN :
          \E s \in [1..n -> NodePuts \cup EdgePuts \cup {Bad}] : Begin(s, size, t, d, FALSE, imp.runs + 1)
      BY DEF Start
  <1>2. PICK s \in [1..n -> Puts] : Begin(s, size, t, d, FALSE, imp.runs + 1)
      BY <1>1, ZenonT(20) DEF Puts
  <1>3. s \in Seq(Puts)
      BY ImportAssumption
  <1>4. imp.pc = "idle" /\ imp.runs + 1 \in Int
      BY TwoShapes DEF Start, Types, Rests, Runs
  <1>5. FALSE \in BOOLEAN
      OBVIOUS
  <1> QED
      BY <1>2, <1>3, <1>4, <1>5, BeginIs, ZenonT(20) DEF Start

\* The target branch is created at the current one only if it is missing.
LEMMA CreateIs ==
  ASSUME Types, CreateBranch
  PROVE  /\ imp \in Runs /\ imp.pc = "create" /\ imp' \in Runs /\ Same
         /\ imp'.pc = "checkout" /\ imp'.result = imp.result /\ imp'.rest = imp.rest
         /\ imp'.created = (tips[imp.target] = None)
         /\ tips' = [tips EXCEPT ![imp.target] = IF @ = None THEN tips[head] ELSE @]
         /\ UNCHANGED <<head, ws, others, before, met>>
  <1>1. imp \in Runs
      BY TwoShapes DEF CreateBranch, Types
  <1> QED
      BY <1>1, ZenonT(20) DEF CreateBranch, Runs, Pcs, Same

\* A checkout refused leaves the branch and the workspace; one done takes the
\* branch's graph.
LEMMA CheckedOutIs ==
  ASSUME NEW b \in Branches, CheckedOut(b)
  PROVE  /\ CheckoutError(b) \in {"locked", "dirty", "ok"}
         /\ (CheckoutError(b) = "locked") <=> (lock # "free")
         /\ CheckoutError(b) = "dirty" => Dirty
         /\ CheckoutError(b) = "ok" => head' = b /\ ws' = tips[b].graph
         /\ CheckoutError(b) # "ok" => UNCHANGED <<head, ws>>
  BY DEF CheckedOut, CheckoutError

\* Checking out the target: on it, or refused by the lock or by uncommitted
\* changes.
LEMMA SwitchIs ==
  ASSUME Types, SwitchBranch, imp.target \in Branches
  PROVE  /\ imp \in Runs /\ imp.pc = "checkout" /\ imp' \in Runs /\ Same
         /\ imp'.rest = imp.rest /\ imp'.created = imp.created
         /\ \/ /\ imp'.pc = "seed" /\ imp'.result = imp.result /\ met' = met
               /\ head' = imp.target /\ ws' = tips[imp.target].graph
            \/ /\ imp'.pc = "done" /\ UNCHANGED <<head, ws>>
               /\ \/ imp'.result = "locked" /\ met' = met \cup {"locked"}
                  \/ imp'.result = "dirty" /\ met' = met /\ Dirty
         /\ UNCHANGED <<tips, others, before>>
  <1>1. imp \in Runs /\ imp.pc = "checkout"
      BY TwoShapes DEF SwitchBranch, Types
  <1> DEFINE e == CheckoutError(imp.target)
  <1>2. /\ e \in {"locked", "dirty", "ok"}
        /\ (e = "locked") <=> (lock # "free")
        /\ e = "dirty" => Dirty
        /\ e = "ok" => head' = imp.target /\ ws' = tips[imp.target].graph
        /\ e # "ok" => UNCHANGED <<head, ws>>
      BY CheckedOutIs DEF SwitchBranch
  <1>3. /\ IF e = "ok" THEN Goto("seed") ELSE Fail("done", e)
        /\ IF lock /= "free" THEN Meets("locked") ELSE UNCHANGED met
        /\ UNCHANGED <<tips, others, before>>
      BY DEF SwitchBranch
  <1>4. "seed" \in Pcs /\ "done" \in Pcs /\ e \in Results
      BY <1>2 DEF Pcs, Results
  <1> HIDE DEF e
  <1>5. CASE e = "ok"
      <2>1. Goto("seed")
          BY <1>3, <1>5
      <2>2. met' = met
          BY <1>2, <1>3, <1>5
      <2> QED
          BY <1>1, <1>2, <1>3, <1>4, <1>5, <2>1, <2>2, GotoIs
  <1>6. CASE e # "ok"
      <2>1. Fail("done", e)
          BY <1>3, <1>6
      <2>2. \/ e = "locked" /\ met' = met \cup {"locked"}
            \/ e = "dirty" /\ met' = met /\ Dirty
          BY <1>2, <1>3, <1>6 DEF Meets
      <2> QED
          BY <1>1, <1>2, <1>3, <1>4, <1>6, <2>1, <2>2, FailIs
  <1> QED
      BY <1>5, <1>6

\* Seeding reads the claims of the workspace's nodes and changes nothing
\* else.
LEMMA SeedIs ==
  ASSUME Types, SeedTracker
  PROVE  /\ imp \in Runs /\ imp.pc = "seed" /\ imp' \in Runs /\ Same
         /\ imp'.pc = "batch" /\ imp'.result = imp.result /\ imp'.rest = imp.rest
         /\ imp'.created = imp.created
         /\ tracker' = UNION {Claims(k, ws.nodes[k], FALSE) : k \in DOMAIN ws.nodes}
         /\ UNCHANGED <<tips, head, ws, others, before, met>>
  <1>1. imp \in Runs /\ imp.pc = "seed" /\ "batch" \in Pcs
      BY TwoShapes DEF SeedTracker, Types, Pcs
  <1> QED
      BY <1>1, GotoIs DEF SeedTracker

\* The next batch is the start of what is left, and leaves the rest of it.
LEMMA BatchIs ==
  ASSUME imp \in Runs, imp.rest # <<>>
  PROVE  LET left == SubSeq(imp.rest, Len(Batch) + 1, Len(imp.rest)) IN
         /\ Batch \in Seq(Puts) /\ left \in Seq(Puts) /\ imp.rest = Batch \o left
         /\ Batch # <<>> /\ left # imp.rest
  <1> DEFINE r == imp.rest
             n == IF imp.size < Len(r) THEN imp.size ELSE Len(r)
             left == SubSeq(r, n + 1, Len(r))
  <1>1. r \in Seq(Puts) /\ imp.size \in Nat \ {0} /\ Len(r) \in Nat \ {0}
      <2>1. r \in Seq(Puts) /\ imp.size \in BatchSizes
          BY DEF Runs
      <2>2. imp.size \in Nat \ {0}
          BY <2>1, ImportAssumption
      <2>3. r # <<>>
          OBVIOUS
      <2> HIDE DEF r
      <2>4. Len(r) \in Nat \ {0}
          BY <2>1, <2>3
      <2> QED
          BY <2>1, <2>2, <2>4
  <1>2. n \in 1..Len(r)
      BY <1>1
  <1>3. Batch = SubSeq(r, 1, n)
      BY DEF Batch
  <1> HIDE DEF n, r
  <1>4. Batch \in Seq(Puts) /\ Len(Batch) = n
      BY <1>1, <1>2, <1>3
  <1>5. left \in Seq(Puts) /\ Len(left) = Len(r) - n
      BY <1>1, <1>2
  <1>6. Batch \o left = r
      BY <1>1, <1>2, <1>3, CutJoins
  <1>7. Batch # <<>> /\ left # r
      BY <1>1, <1>2, <1>4, <1>5
  <1> QED
      BY <1>4, <1>5, <1>6, <1>7 DEF r

\* A batch is saved whole, with its claims, or ends the batches with an
\* error.
LEMMA SaveIs ==
  ASSUME Types, SaveBatch
  PROVE  /\ imp \in Runs /\ imp.pc = "batch" /\ imp.rest # <<>> /\ imp' \in Runs /\ Same
         /\ imp'.created = imp.created
         /\ \/ /\ imp'.pc = "batch" /\ imp'.result = imp.result /\ met' = met
               /\ imp'.rest = SubSeq(imp.rest, Len(Batch) + 1, Len(imp.rest))
               /\ ws' = Staged /\ tracker' = Applied /\ ~Violates(Applied)
            \/ /\ imp'.pc = "reset" /\ imp'.rest = imp.rest /\ ws' = ws
               /\ imp'.result \in {"mapping", "constraints", "locked", "dangling"}
               /\ imp'.result = "constraints" => Violates(Applied)
               /\ \/ imp'.result = "locked" /\ met' = met \cup {"locked"}
                  \/ imp'.result # "locked" /\ met' = met
         /\ UNCHANGED <<tips, head, others, before>>
  <1> DEFINE e == BatchError
             left == SubSeq(imp.rest, Len(Batch) + 1, Len(imp.rest))
  <1>1. imp \in Runs /\ imp.pc = "batch" /\ imp.rest # <<>>
      BY TwoShapes DEF SaveBatch, Types
  <1>2. \/ e = "ok" /\ Bad \notin Range(Batch) /\ ~Violates(Applied)
        \/ e \in {"mapping", "constraints", "locked", "dangling"} /\ (e = "constraints" => Violates(Applied))
      BY DEF BatchError
  <1>3. left \in Seq(Puts)
      BY <1>1, BatchIs
  <1>4. /\ tracker' = IF Bad \in Range(Batch) THEN tracker ELSE Applied
        /\ IF e = "ok"
           THEN ws' = Staged /\ imp' = [imp EXCEPT !.rest = left]
           ELSE Fail("reset", e) /\ UNCHANGED ws
        /\ IF e = "locked" THEN Meets("locked") ELSE UNCHANGED met
        /\ UNCHANGED <<tips, head, others, before>>
      BY DEF SaveBatch, Saved
  <1> HIDE DEF e, left
  <1>5. CASE e = "ok"
      <2>1. imp' = [imp EXCEPT !.rest = left] /\ met' = met /\ ws' = Staged /\ tracker' = Applied
          BY <1>2, <1>4, <1>5
      <2>2. /\ imp' \in Runs /\ Same /\ imp'.created = imp.created /\ imp'.pc = "batch"
            /\ imp'.result = imp.result /\ imp'.rest = left
          BY <2>1, <1>1, <1>3, ZenonT(20) DEF Runs, Same
      <2> QED
          BY <1>1, <1>2, <1>4, <1>5, <2>1, <2>2 DEF left
  <1>6. CASE e # "ok"
      <2>1. Fail("reset", e) /\ ws' = ws /\ "reset" \in Pcs /\ e \in Results
          BY <1>2, <1>4, <1>6 DEF Pcs, Results
      <2>2. /\ imp' \in Runs /\ Same /\ imp'.pc = "reset" /\ imp'.result = e
            /\ imp'.rest = imp.rest /\ imp'.created = imp.created
          BY <2>1, <1>1, FailIs
      <2>3. \/ e = "locked" /\ met' = met \cup {"locked"}
            \/ e # "locked" /\ met' = met
          BY <1>4 DEF Meets
      <2> QED
          BY <1>1, <1>2, <1>4, <1>6, <2>1, <2>2, <2>3
  <1> QED
      BY <1>5, <1>6

\* The workspace is reset to the branch unless somebody holds the lock.
LEMMA ResetIs ==
  ASSUME Types, ResetWorkspace
  PROVE  /\ imp \in Runs /\ imp.pc = "reset" /\ imp' \in Runs /\ Same
         /\ imp'.pc = "restore" /\ imp'.result = imp.result /\ imp'.rest = imp.rest
         /\ imp'.created = imp.created
         /\ \/ ws' = tips[head].graph /\ met' = met
            \/ ws' = ws /\ met' = met \cup {"locked"}
         /\ UNCHANGED <<tips, head, others, before>>
  <1>1. imp \in Runs /\ imp.pc = "reset" /\ "restore" \in Pcs
      BY TwoShapes DEF ResetWorkspace, Types, Pcs
  <1>2. /\ Goto("restore")
        /\ \/ ws' = tips[head].graph /\ met' = met
           \/ ws' = ws /\ met' = met \cup {"locked"}
        /\ UNCHANGED <<tips, head, others, before>>
      BY DEF ResetWorkspace, Meets
  <1> QED
      BY <1>1, <1>2, GotoIs

\* With no records left there is something to commit, or no change.
LEMMA FinishIs ==
  ASSUME Types, FinishBatches
  PROVE  /\ imp \in Runs /\ imp.pc = "batch" /\ imp.rest = <<>> /\ imp' \in Runs /\ Same
         /\ imp'.rest = imp.rest /\ imp'.created = imp.created
         /\ \/ Dirty /\ imp'.pc = "commit" /\ imp'.result = imp.result
            \/ ~Dirty /\ imp'.pc = "restore" /\ imp'.result = "nochange"
         /\ UNCHANGED <<tips, head, ws, others, before, met>>
  <1>1. /\ imp \in Runs /\ imp.pc = "batch" /\ imp.rest = <<>>
        /\ "restore" \in Pcs /\ "commit" \in Pcs /\ "nochange" \in Results
      BY TwoShapes DEF FinishBatches, Types, Pcs, Results
  <1>2. CASE Dirty
      BY <1>1, <1>2, GotoIs DEF FinishBatches
  <1>3. CASE ~Dirty
      BY <1>1, <1>3, FailIs DEF FinishBatches
  <1> QED
      BY <1>2, <1>3

\* The commit is made on the current branch, refused by the lock, or finds
\* nothing.
LEMMA CommitIs ==
  ASSUME Types, CommitImport
  PROVE  /\ imp \in Runs /\ imp.pc = "commit" /\ imp' \in Runs /\ Same
         /\ imp'.pc = "restore" /\ imp'.rest = imp.rest /\ imp'.created = imp.created
         /\ \/ /\ imp'.result = "committed" /\ met' = met
               /\ tips' = [tips EXCEPT ![head] = NewCommit(ws)]
            \/ imp'.result = "locked" /\ met' = met \cup {"locked"} /\ tips' = tips
            \/ imp'.result = "nothing" /\ met' = met /\ tips' = tips /\ ~Dirty
         /\ UNCHANGED <<head, ws, others, before>>
  <1> DEFINE e == CommitError
  <1>1. imp \in Runs /\ imp.pc = "commit" /\ "restore" \in Pcs /\ "committed" \in Results
      BY TwoShapes DEF CommitImport, Types, Pcs, Results
  <1>2. e \in {"locked", "nothing", "ok"} /\ e \in Results /\ (e = "nothing" => ~Dirty)
      BY DEF CommitError, Results
  <1>3. /\ IF e = "ok" THEN Fail("restore", "committed") /\ tips' = [tips EXCEPT ![head] = NewCommit(ws)]
           ELSE Fail("restore", e) /\ UNCHANGED tips
        /\ IF e = "locked" THEN Meets("locked") ELSE UNCHANGED met
        /\ UNCHANGED <<head, ws, others, before>>
      BY DEF CommitImport
  <1> HIDE DEF e
  <1>4. CASE e = "ok"
      <2>1. Fail("restore", "committed") /\ tips' = [tips EXCEPT ![head] = NewCommit(ws)] /\ met' = met
          BY <1>3, <1>4
      <2> QED
          BY <1>1, <1>3, <2>1, FailIs
  <1>5. CASE e # "ok"
      <2>1. Fail("restore", e) /\ tips' = tips
          BY <1>3, <1>5
      <2>2. \/ e = "locked" /\ met' = met \cup {"locked"}
            \/ e = "nothing" /\ met' = met /\ ~Dirty
          BY <1>2, <1>3, <1>5 DEF Meets
      <2> QED
          BY <1>1, <1>2, <1>3, <2>1, <2>2, FailIs
  <1> QED
      BY <1>4, <1>5

\* Going back to the original branch: nothing to do, done, or refused.
LEMMA RestoreIs ==
  ASSUME Types, RestoreBranch
  PROVE  /\ imp \in Runs /\ imp.pc = "restore" /\ imp' \in Runs /\ Same
         /\ imp'.rest = imp.rest /\ imp'.created = imp.created
         /\ \/ /\ imp.target = "none" /\ imp'.pc = "done" /\ imp'.result = imp.result
               /\ UNCHANGED <<head, ws, met>>
            \/ /\ imp.target # "none" /\ imp'.result = imp.result /\ met' = met
               /\ head' = imp.original /\ ws' = tips[imp.original].graph
               /\ \/ imp.created /\ ~Succeeded /\ imp'.pc = "cleanup"
                  \/ (~imp.created \/ Succeeded) /\ imp'.pc = "done"
            \/ /\ imp.target # "none" /\ imp'.pc = "done" /\ UNCHANGED <<head, ws>>
               /\ Succeeded => imp'.result \in {"locked", "dirty"}
               /\ ~Succeeded => imp'.result = imp.result
               /\ met' = met \cup {"locked"} \/ (met' = met /\ Dirty)
               /\ Succeeded /\ imp'.result = "dirty" => Dirty
         /\ UNCHANGED <<tips, others, before>>
  <1> DEFINE e == CheckoutError(imp.original)
  <1>1. imp \in Runs /\ imp.pc = "restore" /\ "done" \in Pcs /\ "cleanup" \in Pcs
      BY TwoShapes DEF RestoreBranch, Types, Pcs
  <1>2. imp.original \in Branches /\ imp.created \in BOOLEAN /\ imp.result \in Results /\ Succeeded \in BOOLEAN
      BY <1>1 DEF Runs, Succeeded
  <1>3. CASE imp.target = "none"
      <2>1. Goto("done") /\ UNCHANGED <<head, ws, met>> /\ UNCHANGED <<tips, others, before>>
          BY <1>3 DEF RestoreBranch
      <2> QED
          BY <1>1, <1>3, <2>1, GotoIs
  <1>4. CASE imp.target # "none"
      <2> DEFINE pc == IF imp.created /\ ~Succeeded /\ e = "ok" THEN "cleanup" ELSE "done"
                 result == IF Succeeded /\ e /= "ok" THEN e ELSE imp.result
      <2>1. /\ CheckedOut(imp.original)
            /\ imp' = [imp EXCEPT !.pc = pc, !.result = result]
            /\ IF e = "locked" THEN Meets("locked") ELSE UNCHANGED met
            /\ UNCHANGED <<tips, others, before>>
          BY <1>4 DEF RestoreBranch
      <2>2. /\ e \in {"locked", "dirty", "ok"}
            /\ e = "dirty" => Dirty
            /\ e = "ok" => head' = imp.original /\ ws' = tips[imp.original].graph
            /\ e # "ok" => UNCHANGED <<head, ws>>
          BY <1>2, <2>1, CheckedOutIs
      <2> HIDE DEF e
      <2>3. pc \in Pcs /\ result \in Results
          BY <1>1, <1>2, <2>2 DEF Results
      <2>4. /\ e = "ok" => /\ result = imp.result
                           /\ \/ imp.created /\ ~Succeeded /\ pc = "cleanup"
                              \/ (~imp.created \/ Succeeded) /\ pc = "done"
            /\ e # "ok" => /\ pc = "done"
                           /\ Succeeded => result = e
                           /\ ~Succeeded => result = imp.result
          BY <1>2
      <2>5. /\ imp' \in Runs /\ Same /\ imp'.rest = imp.rest /\ imp'.created = imp.created
            /\ imp'.pc = pc /\ imp'.result = result
          <3> HIDE DEF pc, result
          <3> QED
              BY <1>1, <2>1, <2>3, ZenonT(20) DEF Runs, Same
      <2> HIDE DEF pc, result
      <2>6. CASE e = "ok"
          <3>1. met' = met
              BY <2>1, <2>6
          <3> QED
              BY <1>1, <1>4, <2>1, <2>2, <2>4, <2>5, <2>6, <3>1
      <2>7. CASE e # "ok"
          <3>1. met' = met \cup {"locked"} \/ (met' = met /\ Dirty)
              BY <2>1, <2>2, <2>7 DEF Meets
          <3> QED
              BY <1>1, <1>4, <2>1, <2>2, <2>4, <2>5, <2>7, <3>1
      <2> QED
          BY <2>6, <2>7
  <1> QED
      BY <1>3, <1>4

\* The clean-up of a failed import's own branch.
LEMMA RemoveIs ==
  ASSUME Types, RemoveBranch
  PROVE  /\ imp \in Runs /\ imp.pc = "cleanup" /\ imp' \in Runs /\ Same
         /\ imp'.pc = "done" /\ imp'.result = imp.result /\ imp'.rest = imp.rest
         /\ imp'.created = imp.created
         /\ tips' = [tips EXCEPT ![imp.target] = IF head = imp.target THEN @ ELSE None]
         /\ UNCHANGED <<head, ws, others, before, met>>
  <1>1. imp \in Runs /\ imp.pc = "cleanup" /\ "done" \in Pcs
      BY TwoShapes DEF RemoveBranch, Types, Pcs
  <1> QED
      BY <1>1, GotoIs DEF RemoveBranch

\* An import returns, or the daemon begins it again.
LEMMA ReturnIs ==
  ASSUME Types, Return
  PROVE  /\ imp \in Runs /\ imp.pc = "done"
         /\ \/ imp' \in Rests
            \/ /\ imp.result = "locked" /\ imp' \in Runs
               /\ imp'.target = imp.target /\ imp'.original = head /\ imp'.source = imp.source
               /\ imp'.rest = imp.source /\ imp'.created = FALSE
               /\ \/ Dirty /\ imp'.pc = "done" /\ imp'.result = "dirty"
                  \/ ~Dirty /\ imp.target = head /\ imp'.pc = "done" /\ imp'.result = "config"
                  \/ ~Dirty /\ imp.target = "none" /\ imp'.pc = "seed" /\ imp'.result = "ok"
                  \/ ~Dirty /\ imp.target \notin {head, "none"} /\ imp'.pc = "create" /\ imp'.result = "ok"
         /\ UNCHANGED <<tips, head, ws, others, before, met>>
  <1>1. imp \in Runs /\ imp.pc = "done" /\ UNCHANGED <<tips, head, ws, others, before, met>>
      BY TwoShapes DEF Return, Types
  <1>2. /\ imp.source \in Seq(Puts) /\ imp.size \in BatchSizes /\ imp.target \in Branches \cup {"none"}
        /\ imp.runs \in Int /\ TRUE \in BOOLEAN
      BY <1>1 DEF Runs
  <1>3. CASE Retries
      <2>1. Begin(imp.source, imp.size, imp.target, TRUE, TRUE, imp.runs) /\ imp.result = "locked"
          BY <1>3 DEF Return, Retries
      <2> QED
          BY <1>1, <1>2, <2>1, BeginIs, ZenonT(20)
  <1>4. CASE ~Retries
      <2>1. imp' = [pc |-> "idle", runs |-> imp.runs]
          BY <1>4 DEF Return
      <2>2. imp' \in Rests
          BY <1>2, <2>1 DEF Rests
      <2> QED
          BY <1>1, <2>2
  <1> QED
      BY <1>3, <1>4

\* A killed import leaves everything but itself.
LEMMA KillIs ==
  ASSUME Types, Kill
  PROVE  /\ imp \in Runs /\ imp.pc # "done" /\ imp' \in Rests
         /\ UNCHANGED <<tips, head, ws, others, before, met>>
  <1>1. imp \in Runs /\ imp.pc # "done" /\ imp.runs \in Int
      BY TwoShapes DEF Kill, Types, Runs
  <1> QED
      BY <1>1 DEF Kill, Rests

OtherStep == OtherAcquires \/ OtherSaves \/ OtherCommits \/ OtherDiscards \/ OtherDies

\* What the other writers do: lock and unlock, write the workspace, or commit it.
LEMMA OtherIs ==
  ASSUME OtherStep
  PROVE  /\ UNCHANGED <<imp, head, before, tracker>>
         /\ \/ UNCHANGED <<tips, ws, others, met>>
            \/ met' = met \cup {"saved"} /\ UNCHANGED <<tips, others>>
            \/ /\ met' = met \cup {"saved"} /\ ws' = ws
               /\ tips' = [tips EXCEPT ![head] = NewCommit(ws)]
               /\ others' = others \cup (NewCommit(ws).commits \ tips[head].commits)
  BY DEF OtherStep, OtherAcquires, OtherSaves, OtherCommits, OtherDiscards, OtherDies, OtherLeft, Meets

-----------------------------------------------------------------------------
(* The numbering of the commits.                                            *)

\* The commits of the branches and of the others, one by one.
LEMMA CommitsOfAre ==
  ASSUME NEW t, NEW o, NEW c
  PROVE  c \in CommitsOf(t, o) <=> (c \in o \/ \E b \in Branches : t[b] # None /\ c \in t[b].commits)
  <1> DEFINE S == {t[b].commits : b \in {b \in Branches : t[b] /= None}}
  <1>1. c \in CommitsOf(t, o) <=> (c \in o \/ \E s \in S : c \in s)
      <2>1. CommitsOf(t, o) = (UNION S) \cup o
          BY DEF CommitsOf
      <2> HIDE DEF S
      <2> QED
          BY <2>1
  <1>2. ASSUME NEW s \in S, c \in s PROVE \E b \in Branches : t[b] # None /\ c \in t[b].commits
      BY <1>2
  <1>3. ASSUME NEW b \in Branches, t[b] # None, c \in t[b].commits PROVE \E s \in S : c \in s
      BY <1>3
  <1> QED
      BY <1>1, <1>2, <1>3

\* Commits is this of the present branches.
LEMMA CommitsNow == Commits = CommitsOf(tips, others) /\ Commits' = CommitsOf(tips', others')
  BY DEF Commits, CommitsOf

\* The commits of the present branches, one by one.
LEMMA CommitsAre ==
  ASSUME NEW c
  PROVE  c \in Commits <=> (c \in others \/ \E b \in Branches : tips[b] # None /\ c \in tips[b].commits)
  BY CommitsOfAre, CommitsNow

\* A new commit takes a number no commit has.
LEMMA NewNumber ==
  ASSUME Types, Numbered, NEW g
  PROVE  \E c : /\ c \notin Commits
                /\ \E n \in Nat \ {0} : Commits \cup {c} = 1..n
                /\ NewCommit(g) = [graph |-> g, commits |-> tips[head].commits \cup {c}]
  <1>1. PICK n \in Nat \ {0} : Commits = 1..n
      BY DEF Numbered
  <1> DEFINE last == CHOOSE c \in Commits : \A d \in Commits : d <= c
  <1>2. last = n
      <2>1. n \in Commits /\ \A d \in Commits : d <= n
          BY <1>1
      <2>2. last \in Commits /\ \A d \in Commits : d <= last
          BY <2>1
      <2> QED
          BY <1>1, <2>1, <2>2
  <1>3. NewCommit(g) = [graph |-> g, commits |-> tips[head].commits \cup {n + 1}]
      <2>1. NewCommit(g) = [graph |-> g, commits |-> tips[head].commits \cup {last + 1}]
          BY DEF NewCommit
      <2> QED
          BY <1>2, <2>1
  <1>4. n + 1 \notin Commits /\ Commits \cup {n + 1} = 1..(n + 1) /\ n + 1 \in Nat \ {0}
      BY <1>1
  <1> QED
      BY <1>3, <1>4, ZenonT(20)

\* Committing the workspace adds that one number to the commits.
LEMMA CommitNumbers ==
  ASSUME Types, Numbered, tips' = [tips EXCEPT ![head] = NewCommit(ws)],
         \/ others' = others
         \/ others' = others \cup (NewCommit(ws).commits \ tips[head].commits)
  PROVE  /\ Numbered' /\ PerBranch(tips')
         /\ \A b \in Branches : tips[b] # None => tips'[b] # None
         /\ \E c : /\ c \notin Commits
                   /\ tips'[head] = [graph |-> ws, commits |-> tips[head].commits \cup {c}]
                   /\ others' = others \/ others' = others \cup {c}
                   /\ NewCommit(ws).commits \ tips[head].commits = {c}
  <1>1. PICK c : /\ c \notin Commits
                 /\ \E n \in Nat \ {0} : Commits \cup {c} = 1..n
                 /\ NewCommit(ws) = [graph |-> ws, commits |-> tips[head].commits \cup {c}]
      BY NewNumber
  <1>2. /\ head \in Branches /\ tips = [b \in Branches |-> tips[b]] /\ tips[head] # None
      BY DEF Types, PerBranch
  <1>3. /\ tips'[head] = [graph |-> ws, commits |-> tips[head].commits \cup {c}]
        /\ \A b \in Branches : b # head => tips'[b] = tips[b]
        /\ tips' = [b \in Branches |-> tips'[b]]
      BY <1>1, <1>2, ZenonT(20)
  <1>4. c \notin tips[head].commits
      BY <1>1, <1>2, CommitsAre
  <1>5. NewCommit(ws).commits \ tips[head].commits = {c}
      BY <1>1, <1>4
  <1>6. others' = others \/ others' = others \cup {c}
      BY <1>5
  <1>7. tips'[head] # None
      BY <1>3, TipIsNotNone
  <1>8. ASSUME NEW d PROVE d \in Commits' <=> d \in Commits \cup {c}
      <2>1. d \in Commits' <=> (d \in others' \/ \E b \in Branches : tips'[b] # None /\ d \in tips'[b].commits)
          BY CommitsOfAre, CommitsNow
      <2>2. (\E b \in Branches : tips'[b] # None /\ d \in tips'[b].commits)
              <=> (d = c \/ \E b \in Branches : tips[b] # None /\ d \in tips[b].commits)
          <3>1. d \in tips'[head].commits <=> (d = c \/ d \in tips[head].commits)
              BY <1>3
          <3> QED
              BY <3>1, <1>2, <1>3, <1>7
      <2> QED
          BY <2>1, <2>2, <1>6, CommitsAre
  <1>9. Commits' = Commits \cup {c}
      BY <1>8
  <1>10. Numbered'
      BY <1>1, <1>9 DEF Numbered
  <1>11. PerBranch(tips') /\ \A b \in Branches : tips[b] # None => tips'[b] # None
      BY <1>3, <1>7 DEF PerBranch
  <1> QED
      BY <1>1, <1>3, <1>5, <1>6, <1>10, <1>11

-----------------------------------------------------------------------------
(* The invariant every other one rests on.                                  *)

Core == Types /\ Placed /\ Numbered /\ NothingToLose

\* The fields of a running import are what they should be.
LEMMA RunFields ==
  ASSUME imp \in Runs
  PROVE  /\ imp.pc \in Pcs /\ imp.result \in Results /\ imp.source \in Seq(Puts) /\ imp.rest \in Seq(Puts)
         /\ imp.target \in Branches \cup {"none"} /\ imp.original \in Branches /\ imp.created \in BOOLEAN
         /\ (imp.target # "none") <=> (imp.target \in Branches)
         /\ Target \in Branches
  BY DEF Runs, Branches, Target

\* The branches where a step leaves them.
LEMMA SameTips ==
  ASSUME Numbered, UNCHANGED <<tips, others>>
  PROVE  Numbered'
  BY DEF Numbered, Commits, CommitsOf

\* The first state satisfies the core invariant.
LEMMA CoreInit == Init => Core
  <1> SUFFICES ASSUME Init PROVE Core
      OBVIOUS
  <1>1. PICK g : tips = [b \in Branches |-> IF b = "main" THEN [graph |-> g, commits |-> {1}] ELSE None]
      BY ZenonT(20) DEF Init
  <1>2. /\ head = "main" /\ imp = [pc |-> "idle", runs |-> 0] /\ others = {} /\ before = <<tips, head, ws>>
        /\ "main" \in Branches
      BY DEF Init, Idle, Branches
  <1>3. tips["main"] = [graph |-> g, commits |-> {1}] /\ tips["main"] # None
      BY <1>1, <1>2, TipIsNotNone
  <1>4. Types
      BY <1>1, <1>2, <1>3 DEF Types, PerBranch, Rests
  <1>5. imp \notin Runs
      BY <1>2, TwoShapes DEF Rests
  <1>6. ASSUME NEW c PROVE c \in Commits <=> c \in 1..1
      <2>1. \A b \in Branches : b # "main" => tips[b] = None
          BY <1>1
      <2>2. c \in Commits <=> c \in tips["main"].commits
          BY <2>1, <1>2, <1>3, CommitsAre
      <2>3. tips["main"].commits = {1}
          BY <1>3
      <2> QED
          BY <2>2, <2>3
  <1>7. Numbered
      <2>1. Commits = 1..1
          BY <1>6
      <2> QED
          BY <2>1 DEF Numbered
  <1> QED
      BY <1>4, <1>5, <1>7 DEF Core, Placed, NothingToLose

\* A fresh or retried import stands where it should.
LEMMA BeginPlaced ==
  ASSUME Types, imp' \in Runs, imp'.original = head, imp'.created = FALSE, UNCHANGED <<tips, head>>,
         \/ imp'.pc = "done"
         \/ imp'.target = "none" /\ imp'.pc = "seed" /\ imp'.result = "ok"
         \/ imp'.target \notin {head, "none"} /\ imp'.pc = "create" /\ imp'.result = "ok"
  PROVE  Placed' /\ NothingToLose'
  <1>1. head # "none" /\ head' = head /\ tips' = tips /\ tips[head] # None
      BY DEF Types, Branches
  <1>2. NothingToLose'
      BY DEF NothingToLose, Removable
  <1>3. Placed'
      BY <1>1 DEF Placed, Target
  <1> QED
      BY <1>2, <1>3

\* Starting keeps the core invariant: nothing is created yet.
LEMMA StartCore ==
  ASSUME Core, Start
  PROVE  Core'
  <1>1. /\ imp' \in Runs /\ imp'.original = head /\ imp'.created = FALSE
        /\ \/ imp'.pc = "done"
           \/ imp'.target = "none" /\ imp'.pc = "seed" /\ imp'.result = "ok"
           \/ imp'.target \notin {head, "none"} /\ imp'.pc = "create" /\ imp'.result = "ok"
        /\ before' = <<tips, head, ws>> /\ UNCHANGED <<tips, head, others>>
      BY StartIs, ZenonT(20) DEF Core
  <1>2. Types'
      BY <1>1 DEF Core, Types, PerBranch
  <1> QED
      BY <1>1, <1>2, BeginPlaced, SameTips DEF Core

\* So does returning, or beginning again in the daemon.
LEMMA ReturnCore ==
  ASSUME Core, Return
  PROVE  Core'
  <1>1. UNCHANGED <<tips, head, others, before>>
      BY ReturnIs DEF Core
  <1>2. CASE imp' \in Rests
      <2>1. imp' \notin Runs
          BY <1>2, TwoShapes
      <2>2. Types'
          BY <1>1, <1>2 DEF Core, Types, PerBranch
      <2> QED
          BY <1>1, <2>1, <2>2, SameTips DEF Core, Placed, NothingToLose
  <1>3. CASE imp' \notin Rests
      <2>1. /\ imp' \in Runs /\ imp'.original = head /\ imp'.created = FALSE
            /\ \/ imp'.pc = "done"
               \/ imp'.target = "none" /\ imp'.pc = "seed" /\ imp'.result = "ok"
               \/ imp'.target \notin {head, "none"} /\ imp'.pc = "create" /\ imp'.result = "ok"
          BY <1>3, ReturnIs, ZenonT(20) DEF Core
      <2>2. Types'
          BY <1>1, <2>1 DEF Core, Types, PerBranch
      <2> QED
          BY <1>1, <2>1, <2>2, BeginPlaced, SameTips DEF Core
  <1> QED
      BY <1>2, <1>3

\* So does a crash, after which no import runs.
LEMMA KillCore ==
  ASSUME Core, Kill
  PROVE  Core'
  <1>1. imp' \in Rests /\ imp' \notin Runs /\ UNCHANGED <<tips, head, others, before>>
      BY KillIs, TwoShapes DEF Core
  <1>2. Types'
      BY <1>1 DEF Core, Types, PerBranch
  <1> QED
      BY <1>1, <1>2, SameTips DEF Core, Placed, NothingToLose

\* A step that moves no branch keeps the invariant when it ends in its place.
LEMMA QuietCore ==
  ASSUME Core, imp \in Runs, imp' \in Runs, Same, UNCHANGED <<tips, others, before>>,
         head' \in Branches, tips[head'] # None, Placed', Removable' => Removable
  PROVE  Core'
  <1>1. Types'
      BY DEF Core, Types, PerBranch
  <1>2. NothingToLose'
      BY DEF Core, NothingToLose, Same
  <1> QED
      BY <1>1, <1>2, SameTips DEF Core

\* An import that is already on its branch moves on along its own course.
LEMMA CourseCore ==
  ASSUME Core, imp \in Runs, imp' \in Runs, Same, UNCHANGED <<tips, head, others, before>>,
         imp'.created = imp.created, imp.pc \in {"seed", "batch", "reset", "commit"},
         \/ imp'.pc \in {"batch", "commit"} /\ imp'.result = imp.result /\ imp.pc # "reset"
         \/ imp'.pc = "reset" /\ imp'.result \in {"mapping", "constraints", "locked", "dangling"}
         \/ imp'.pc = "restore"
  PROVE  Core'
  <1>1. Target' = Target /\ head' = head /\ tips' = tips
      BY DEF Same, Target
  <1>2. head \in Branches /\ tips[head] # None
      BY DEF Core, Types
  <1>3. Placed'
      BY <1>1 DEF Core, Placed, Same
  <1>4. Removable' => Removable
      BY DEF Removable
  <1> QED
      BY <1>1, <1>2, <1>3, <1>4, QuietCore

\* So does seeding.
LEMMA SeedCore ==
  ASSUME Core, SeedTracker
  PROVE  Core'
  BY SeedIs, CourseCore DEF Core

\* So does saving a batch.
LEMMA SaveCore ==
  ASSUME Core, SaveBatch
  PROVE  Core'
  <1>1. /\ imp \in Runs /\ imp.pc = "batch" /\ imp' \in Runs /\ Same /\ imp'.created = imp.created
        /\ UNCHANGED <<tips, head, others, before>>
        /\ \/ imp'.pc = "batch" /\ imp'.result = imp.result
           \/ imp'.pc = "reset" /\ imp'.result \in {"mapping", "constraints", "locked", "dangling"}
      BY SaveIs DEF Core
  <1> QED
      BY <1>1, CourseCore

\* So does the reset, after an error that was not a success.
LEMMA ResetCore ==
  ASSUME Core, ResetWorkspace
  PROVE  Core'
  BY ResetIs, CourseCore DEF Core

\* So does finishing the batches.
LEMMA FinishCore ==
  ASSUME Core, FinishBatches
  PROVE  Core'
  BY FinishIs, CourseCore DEF Core

\* So does the checkout of the target.
LEMMA SwitchCore ==
  ASSUME Core, SwitchBranch
  PROVE  Core'
  <1>1. imp \in Runs /\ imp.pc = "checkout"
      BY TwoShapes DEF Core, Types, SwitchBranch
  <1>2. /\ imp.target # "none" /\ imp.target \in Branches /\ head = imp.original /\ tips[imp.target] # None
        /\ imp.result = "ok"
      BY <1>1, RunFields DEF Core, Placed
  <1>3. /\ imp' \in Runs /\ Same /\ imp'.created = imp.created /\ UNCHANGED <<tips, others, before>>
        /\ \/ imp'.pc = "seed" /\ imp'.result = imp.result /\ head' = imp.target
           \/ imp'.pc = "done" /\ head' = head
      BY <1>2, SwitchIs DEF Core
  <1>4. head' \in Branches /\ tips[head'] # None
      BY <1>2, <1>3 DEF Core, Types
  <1>5. Placed'
      BY <1>1, <1>2, <1>3 DEF Core, Placed, Same, Target
  <1>6. Removable' => Removable
      BY <1>1, <1>3 DEF Removable
  <1> QED
      BY <1>1, <1>3, <1>4, <1>5, <1>6, QuietCore

\* So does going back to the original branch.
LEMMA RestoreCore ==
  ASSUME Core, RestoreBranch
  PROVE  Core'
  <1>1. /\ imp \in Runs /\ imp.pc = "restore" /\ imp' \in Runs /\ Same /\ imp'.created = imp.created
        /\ UNCHANGED <<tips, others, before>>
        /\ \/ imp.target = "none" /\ imp'.pc = "done" /\ head' = head
           \/ /\ imp.target # "none" /\ head' = imp.original
              /\ \/ imp.created /\ ~Succeeded /\ imp'.pc = "cleanup" /\ imp'.result = imp.result
                 \/ imp'.pc = "done"
           \/ imp.target # "none" /\ imp'.pc = "done" /\ head' = head
      BY RestoreIs DEF Core
  <1>2. /\ imp.original \in Branches /\ tips[imp.original] # None /\ head = Target
        /\ imp.target # imp.original /\ (imp.target = "none" => ~imp.created)
        /\ head \in Branches /\ tips[head] # None
      BY <1>1, RunFields DEF Core, Placed, Types
  <1>3. head' \in Branches /\ tips[head'] # None
      BY <1>1, <1>2
  <1>4. Placed'
      BY <1>1, <1>2 DEF Placed, Same, Target, Succeeded
  <1>5. Removable' => Removable
      BY <1>1 DEF Removable, Succeeded
  <1> QED
      BY <1>1, <1>3, <1>4, <1>5, QuietCore

\* Branches that come and go leave the commits, when none is lost with them.
LEMMA SameCommits ==
  ASSUME Numbered, others' = others,
         \A c : (\E b \in Branches : tips'[b] # None /\ c \in tips'[b].commits)
                  => (c \in others \/ \E b \in Branches : tips[b] # None /\ c \in tips[b].commits),
         \A c : (\E b \in Branches : tips[b] # None /\ c \in tips[b].commits)
                  => (c \in others \/ \E b \in Branches : tips'[b] # None /\ c \in tips'[b].commits)
  PROVE  Numbered'
  <1>1. ASSUME NEW c PROVE c \in Commits' <=> c \in Commits
      <2>1. c \in Commits' <=> (c \in others' \/ \E b \in Branches : tips'[b] # None /\ c \in tips'[b].commits)
          BY CommitsOfAre, CommitsNow
      <2> QED
          BY <2>1, CommitsAre
  <1>2. Commits' = Commits
      BY <1>1
  <1> QED
      BY <1>2 DEF Numbered

\* So does creating the branch: its commits are those of the original.
LEMMA CreateCore ==
  ASSUME Core, CreateBranch
  PROVE  Core'
  <1>1. /\ imp \in Runs /\ imp.pc = "create" /\ imp' \in Runs /\ Same
        /\ imp'.pc = "checkout" /\ imp'.result = imp.result
        /\ imp'.created = (tips[imp.target] = None)
        /\ tips' = [tips EXCEPT ![imp.target] = IF @ = None THEN tips[head] ELSE @]
        /\ UNCHANGED <<head, others, before>>
      BY CreateIs DEF Core
  <1>2. /\ imp.target # "none" /\ imp.target \in Branches /\ head = imp.original /\ imp.target # imp.original
        /\ imp.result = "ok" /\ imp.original \in Branches
        /\ head \in Branches /\ tips[head] # None /\ tips = [b \in Branches |-> tips[b]]
      BY <1>1, RunFields DEF Core, Placed, Types, PerBranch
  <1>3. /\ tips'[imp.target] = IF tips[imp.target] = None THEN tips[head] ELSE tips[imp.target]
        /\ tips'[imp.target] # None
        /\ \A b \in Branches : b # imp.target => tips'[b] = tips[b]
        /\ tips' = [b \in Branches |-> tips'[b]]
      BY <1>1, <1>2
  <1>4. Types'
      BY <1>1, <1>2, <1>3 DEF Core, Types, PerBranch
  <1>5. Placed'
      BY <1>1, <1>2, <1>3 DEF Placed, Same, Target
  <1>6. NothingToLose'
      BY <1>1, <1>2, <1>3, ZenonT(20) DEF NothingToLose, Removable, Same
  <1>7. Numbered'
      BY <1>1, <1>2, <1>3, SameCommits DEF Core
  <1> QED
      BY <1>4, <1>5, <1>6, <1>7 DEF Core

\* So does removing the branch: the original still holds all its commits.
LEMMA RemoveCore ==
  ASSUME Core, RemoveBranch
  PROVE  Core'
  <1>1. /\ imp \in Runs /\ imp.pc = "cleanup" /\ imp' \in Runs /\ Same
        /\ imp'.pc = "done" /\ imp'.created = imp.created
        /\ tips' = [tips EXCEPT ![imp.target] = IF head = imp.target THEN @ ELSE None]
        /\ UNCHANGED <<head, others, before>>
      BY RemoveIs DEF Core
  <1>2. /\ imp.target # "none" /\ imp.target \in Branches /\ head = imp.original /\ imp.target # imp.original
        /\ imp.original \in Branches /\ ~Succeeded
        /\ head \in Branches /\ tips[head] # None /\ tips = [b \in Branches |-> tips[b]]
      BY <1>1, RunFields DEF Core, Placed, Types, PerBranch
  <1>3. /\ tips'[imp.target] = None
        /\ \A b \in Branches : b # imp.target => tips'[b] = tips[b]
        /\ tips' = [b \in Branches |-> tips'[b]]
      BY <1>1, <1>2
  <1>4. Types'
      BY <1>1, <1>2, <1>3 DEF Core, Types, PerBranch
  <1>5. Placed'
      BY <1>1, <1>2, <1>3 DEF Placed, Same, Target
  <1>6. NothingToLose'
      BY <1>1 DEF NothingToLose, Removable
  <1>7. imp.created => tips[imp.target].commits \subseteq tips[imp.original].commits \cup others
      BY <1>1, <1>2 DEF Core, NothingToLose, Removable
  <1>8. imp.created
      BY <1>1 DEF Core, Placed
  <1>9. Numbered'
      BY <1>1, <1>2, <1>3, <1>7, <1>8, SameCommits DEF Core
  <1> QED
      BY <1>4, <1>5, <1>6, <1>9 DEF Core

\* So does the commit, which leaves the created branch to stay.
LEMMA CommitCore ==
  ASSUME Core, CommitImport
  PROVE  Core'
  <1>1. /\ imp \in Runs /\ imp.pc = "commit" /\ imp' \in Runs /\ Same
        /\ imp'.pc = "restore" /\ imp'.created = imp.created /\ UNCHANGED <<head, others, before>>
        /\ \/ imp'.result = "committed" /\ tips' = [tips EXCEPT ![head] = NewCommit(ws)]
           \/ tips' = tips
      BY CommitIs DEF Core
  <1>2. CASE tips' = tips
      BY <1>1, <1>2, CourseCore
  <1>3. CASE imp'.result = "committed" /\ tips' = [tips EXCEPT ![head] = NewCommit(ws)]
      <2>1. /\ Numbered' /\ PerBranch(tips')
            /\ \A b \in Branches : tips[b] # None => tips'[b] # None
          BY <1>1, <1>3, CommitNumbers DEF Core
      <2>2. Types'
          BY <1>1, <2>1 DEF Core, Types, PerBranch
      <2>3. imp.original \in Branches
          BY <1>1, RunFields
      <2>4. Placed'
          BY <1>1, <2>1, <2>3 DEF Core, Placed, Same, Target
      <2>5. NothingToLose'
          BY <1>1, <1>3 DEF NothingToLose, Removable, Succeeded
      <2> QED
          BY <2>1, <2>2, <2>4, <2>5 DEF Core
  <1> QED
      BY <1>1, <1>2, <1>3

\* So does what the others do on the current branch.
LEMMA OtherCore ==
  ASSUME Core, OtherStep
  PROVE  Core'
  <1>1. UNCHANGED <<imp, head, before>>
      BY OtherIs
  <1>2. CASE UNCHANGED <<tips, others>>
      <2>1. Types' /\ Placed' /\ NothingToLose'
          BY <1>1, <1>2 DEF Core, Types, PerBranch, Placed, Target, Succeeded, NothingToLose, Removable
      <2> QED
          BY <1>2, <2>1, SameTips DEF Core
  <1>3. CASE /\ tips' = [tips EXCEPT ![head] = NewCommit(ws)]
             /\ others' = others \cup (NewCommit(ws).commits \ tips[head].commits)
      <2>1. /\ Numbered' /\ PerBranch(tips')
            /\ \A b \in Branches : tips[b] # None => tips'[b] # None
          BY <1>3, CommitNumbers DEF Core
      <2>2. PICK c : /\ tips'[head] = [graph |-> ws, commits |-> tips[head].commits \cup {c}]
                     /\ NewCommit(ws).commits \ tips[head].commits = {c}
          BY <1>3, CommitNumbers, ZenonT(20) DEF Core
      <2>3. /\ others' = others \cup {c} /\ tips'[head].commits = tips[head].commits \cup {c}
            /\ \A b \in Branches : b # head => tips'[b] = tips[b]
          BY <1>3, <2>2 DEF Core, Types, PerBranch
      <2>4. Types'
          BY <1>1, <2>1 DEF Core, Types, PerBranch
      <2>5. Placed'
          <3>1. CASE imp \in Runs
              <4>1. /\ imp.original \in Branches
                    /\ (imp.target # "none") <=> (imp.target \in Branches)
                  BY <3>1, RunFields
              <4> QED
                  BY <1>1, <2>1, <4>1 DEF Core, Placed, Target, Succeeded
          <3>2. CASE imp \notin Runs
              BY <1>1, <3>2 DEF Placed
          <3> QED
              BY <3>1, <3>2
      <2>6. NothingToLose'
          <3>1. SUFFICES ASSUME imp \in Runs, Removable
                         PROVE  tips'[imp.target].commits \subseteq tips'[imp.original].commits \cup others'
              BY <1>1 DEF NothingToLose, Removable, Succeeded
          <3>2. /\ imp.original \in Branches /\ imp.target \in Branches
              BY <3>1, RunFields DEF Core, Placed, Removable
          <3>3. tips[imp.target].commits \subseteq tips[imp.original].commits \cup others
              BY <3>1 DEF Core, NothingToLose
          <3>4. /\ tips'[imp.target].commits \subseteq tips[imp.target].commits \cup {c}
                /\ tips[imp.original].commits \subseteq tips'[imp.original].commits
              BY <2>3, <3>2
          <3> QED
              BY <2>3, <3>3, <3>4
      <2> QED
          BY <2>1, <2>4, <2>5, <2>6 DEF Core
  <1> QED
      BY <1>2, <1>3, OtherIs

\* Every step keeps it.
LEMMA CoreStep == Core /\ [Next]_vars => Core'
  <1> SUFFICES ASSUME Core, [Next]_vars PROVE Core'
      OBVIOUS
  <1>1. CASE UNCHANGED vars
      <2>1. UNCHANGED <<tips, head, imp, others, before>>
          BY <1>1 DEF vars
      <2>2. Types' /\ Placed' /\ NothingToLose'
          BY <2>1 DEF Core, Types, PerBranch, Placed, Target, Succeeded, NothingToLose, Removable
      <2> QED
          BY <2>1, <2>2, SameTips DEF Core
  <1>2. CASE ImportStep
      BY <1>2, CreateCore, SwitchCore, SeedCore, SaveCore, ResetCore, FinishCore, CommitCore, RestoreCore,
         RemoveCore, ReturnCore DEF ImportStep
  <1>3. CASE OtherStep
      BY <1>3, OtherCore
  <1> QED
      BY <1>1, <1>2, <1>3, StartCore, KillCore DEF Next, OtherStep

\* Core is an invariant of the import among the other writers.
LEMMA CoreInvariant == Spec => []Core
  BY CoreInit, CoreStep, PTL DEF Spec

-----------------------------------------------------------------------------
(* What an import leaves alone.                                             *)

\* A batch only adds keys to the workspace's nodes.
LEMMA BatchAdds ==
  ASSUME Core, [Next]_vars, imp.pc = "batch", imp'.pc = "batch", imp' # imp
  PROVE  DOMAIN ws.nodes \subseteq DOMAIN ws'.nodes
  <1>1. CASE SaveBatch
      <2>1. ws' = Staged
          BY <1>1, SaveIs DEF Core
      <2> QED
          BY <2>1 DEF Staged, PutAll
  <1>2. imp \in Runs
      BY TwoShapes DEF Core, Types
  <1>3. imp' = imp \/ imp.pc # "batch" \/ imp'.pc # "batch" \/ SaveBatch
      <2>1. CASE ImportStep
          BY <2>1, SeedIs, ResetIs, FinishIs DEF Core, ImportStep, CreateBranch, SwitchBranch, CommitImport,
             RestoreBranch, RemoveBranch, Return
      <2>2. CASE OtherStep
          BY <2>2, OtherIs
      <2>3. CASE Start \/ Kill \/ UNCHANGED vars
          BY <2>3, KillIs, TwoShapes DEF Core, Start, vars
      <2> QED
          BY <2>1, <2>2, <2>3 DEF Next, OtherStep
  <1> QED
      BY <1>1, <1>3

\* The import's own steps move its target and no other branch.
LEMMA OnlyTargetMoves ==
  ASSUME Core, [Next]_vars, imp.pc # "idle", imp.pc # "done", ops' = ops, others' = others,
         NEW b \in Branches
  PROVE  tips'[b] = tips[b] \/ b = Target
  <1>1. imp \in Runs
      BY TwoShapes DEF Core, Types
  <1>2. tips = [x \in Branches |-> tips[x]] /\ Types /\ Numbered
      BY DEF Core, Types, PerBranch
  <1>3. CASE CreateBranch
      <2>1. imp.pc = "create" /\ tips' = [tips EXCEPT ![imp.target] = IF @ = None THEN tips[head] ELSE @]
          BY <1>2, <1>3, CreateIs
      <2>2. imp.target = Target
          BY <1>1, <2>1 DEF Core, Placed, Target
      <2> QED
          BY <1>2, <2>1, <2>2
  <1>4. CASE RemoveBranch
      <2>1. /\ imp.pc = "cleanup"
            /\ tips' = [tips EXCEPT ![imp.target] = IF head = imp.target THEN @ ELSE None]
          BY <1>2, <1>4, RemoveIs
      <2>2. imp.target = Target
          BY <1>1, <2>1 DEF Core, Placed, Target
      <2> QED
          BY <1>2, <2>1, <2>2
  <1>5. CASE CommitImport
      <2>1. imp.pc = "commit" /\ (tips' = tips \/ tips' = [tips EXCEPT ![head] = NewCommit(ws)])
          BY <1>2, <1>5, CommitIs
      <2>2. head = Target
          BY <1>1, <2>1 DEF Core, Placed
      <2> QED
          BY <1>2, <2>1, <2>2
  <1>6. CASE OtherStep
      <2>1. CASE tips' = tips
          BY <2>1
      <2>2. CASE /\ tips' = [tips EXCEPT ![head] = NewCommit(ws)]
                 /\ others' = others \cup (NewCommit(ws).commits \ tips[head].commits)
          <3>1. PICK c : c \notin Commits /\ NewCommit(ws).commits \ tips[head].commits = {c}
              BY <1>2, <2>2, CommitNumbers, ZenonT(20)
          <3>2. c \in others' /\ c \notin others
              BY <2>2, <3>1, CommitsAre
          <3> QED
              BY <3>2
      <2> QED
          BY <1>6, <2>1, <2>2, OtherIs
  <1>7. CASE UNCHANGED tips
      BY <1>7
  <1>8. CASE Start \/ Return
      BY <1>8 DEF Start, Return
  <1> QED
      BY <1>3, <1>4, <1>5, <1>6, <1>7, <1>8, ZenonT(20) DEF Next, ImportStep, OtherStep, SwitchBranch, SeedTracker, SaveBatch,
         ResetWorkspace, FinishBatches, RestoreBranch, Kill, vars

\* Saving a batch drops no node another writer staged, and an import moves no branch but its
\* target: import.rs writes over a fresh read of the workspace and commits on the branch it
\* checked out.
THEOREM ImportLeavesOthers == Spec => OthersUndisturbed
  <1>1. Core /\ [Next]_vars =>
          [imp.pc = "batch" /\ imp'.pc = "batch" /\ imp' /= imp => DOMAIN ws.nodes \subseteq DOMAIN ws'.nodes]_vars
      BY BatchAdds
  <1>2. Core /\ [Next]_vars =>
          [(imp.pc /= "idle" /\ ops' = ops /\ others' = others /\ imp.pc /= "done") =>
             \A b \in Branches : tips'[b] = tips[b] \/ b = Target]_vars
      BY OnlyTargetMoves
  <1>3. Spec => BatchKeepsOthersWork
      BY <1>1, CoreInvariant, PTL DEF Spec, BatchKeepsOthersWork
  <1>4. Spec => OtherBranchesUntouched
      BY <1>2, CoreInvariant, PTL DEF Spec, OtherBranchesUntouched
  <1> QED
      BY <1>3, <1>4 DEF OthersUndisturbed

-----------------------------------------------------------------------------
(* An import that met nobody.                                               *)

\* Before the import's commit, or without one.
Early ==
  \/ imp.pc \in {"create", "checkout", "seed", "batch", "reset", "commit", "cleanup"}
  \/ imp.pc = "restore" /\ ~Succeeded

CleanInv ==
  imp \in Runs /\ met = {} /\ imp.result # "dirty" =>
    /\ imp.original = before[2]
    /\ imp.result # "locked"
    /\ imp.pc \in {"create", "checkout", "seed", "restore", "cleanup", "done"} => ~Dirty
    /\ imp.pc = "create" => ~imp.created
    /\ imp.created => before[1][imp.target] = None
    /\ Early => \A b \in Branches : (b = imp.target /\ imp.created) \/ tips[b] = before[1][b]
    /\ imp.pc = "done" => head = before[2] /\ (~Succeeded => tips = before[1])

\* An import that starts is compared with the present state.
LEMMA StartClean ==
  ASSUME Core, Start
  PROVE  CleanInv'
  <1>1. /\ imp' \in Runs /\ imp'.original = head /\ imp'.created = FALSE
        /\ \/ Dirty /\ imp'.pc = "done" /\ imp'.result = "dirty"
           \/ ~Dirty /\ imp'.pc = "done" /\ imp'.result = "config"
           \/ ~Dirty /\ imp'.pc = "seed" /\ imp'.result = "ok"
           \/ ~Dirty /\ imp'.pc = "create" /\ imp'.result = "ok"
        /\ before' = <<tips, head, ws>> /\ UNCHANGED <<tips, head, ws>>
      BY StartIs, ZenonT(20) DEF Core
  <1>2. Dirty' <=> Dirty
      BY <1>1 DEF Dirty
  <1>3. before'[1] = tips /\ before'[2] = head
      BY <1>1
  <1> QED
      BY <1>1, <1>2, <1>3 DEF CleanInv, Early

\* Nothing to show of an import that rests or met somebody.
LEMMA RestsClean ==
  ASSUME imp' \in Rests \/ met' # {}
  PROVE  CleanInv'
  BY TwoShapes DEF CleanInv

\* An import begun again met the lock, so nothing is claimed of it.
LEMMA ReturnClean ==
  ASSUME Core, CleanInv, Return
  PROVE  CleanInv'
  <1>1. CASE imp' \in Rests
      BY <1>1, RestsClean
  <1>2. CASE imp' \notin Rests
      <2>1. imp \in Runs /\ imp.result = "locked" /\ met' = met
          BY <1>2, ReturnIs, ZenonT(20) DEF Core
      <2>2. met # {}
          BY <2>1 DEF CleanInv
      <2> QED
          BY <2>1, <2>2, RestsClean
  <1> QED
      BY <1>1, <1>2

\* Only the created branch is new.
LEMMA CreateClean ==
  ASSUME Core, CleanInv, CreateBranch
  PROVE  CleanInv'
  <1>1. /\ imp \in Runs /\ imp.pc = "create" /\ imp' \in Runs /\ Same
        /\ imp'.pc = "checkout" /\ imp'.result = imp.result
        /\ imp'.created = (tips[imp.target] = None)
        /\ tips' = [tips EXCEPT ![imp.target] = IF @ = None THEN tips[head] ELSE @]
        /\ UNCHANGED <<head, ws, before, met>>
      BY CreateIs DEF Core
  <1>2. /\ imp.target \in Branches /\ head = imp.original /\ imp.target # imp.original
        /\ head \in Branches /\ tips = [b \in Branches |-> tips[b]]
      BY <1>1, RunFields DEF Core, Placed, Types, PerBranch
  <1>3. /\ \A b \in Branches : b # imp.target \/ tips[imp.target] # None => tips'[b] = tips[b]
        /\ tips'[head] = tips[head]
      BY <1>1, <1>2
  <1>4. SUFFICES ASSUME met = {}, imp.result # "dirty" PROVE CleanInv'
      BY <1>1, RestsClean DEF CleanInv
  <1>5. /\ imp.original = before[2] /\ imp.result # "locked" /\ ~Dirty /\ ~imp.created
        /\ \A b \in Branches : tips[b] = before[1][b]
      BY <1>1, <1>4 DEF CleanInv, Early
  <1>6. ~Dirty'
      BY <1>1, <1>3, <1>5 DEF Dirty
  <1>7. imp'.created => before'[1][imp'.target] = None
      BY <1>1, <1>2, <1>5 DEF Same
  <1>8. \A b \in Branches : (b = imp'.target /\ imp'.created) \/ tips'[b] = before'[1][b]
      BY <1>1, <1>3, <1>5, ZenonT(20) DEF Same
  <1> QED
      BY <1>1, <1>5, <1>6, <1>7, <1>8 DEF CleanInv, Same

\* A checkout nobody hindered is of a clean workspace.
LEMMA SwitchClean ==
  ASSUME Core, CleanInv, SwitchBranch
  PROVE  CleanInv'
  <1>1. imp \in Runs /\ imp.pc = "checkout"
      BY TwoShapes DEF Core, Types, SwitchBranch
  <1>2. imp.target \in Branches /\ imp.result = "ok"
      BY <1>1, RunFields DEF Core, Placed
  <1>3. /\ imp' \in Runs /\ Same /\ imp'.created = imp.created /\ UNCHANGED <<tips, before>>
        /\ \/ /\ imp'.pc = "seed" /\ imp'.result = imp.result /\ met' = met
              /\ head' = imp.target /\ ws' = tips[imp.target].graph
           \/ met' # {}
           \/ imp'.result = "dirty"
      BY <1>2, SwitchIs DEF Core
  <1>4. CASE met' # {} \/ imp'.result = "dirty"
      BY <1>4 DEF CleanInv
  <1>5. CASE /\ imp'.pc = "seed" /\ imp'.result = imp.result /\ met' = met
             /\ head' = imp.target /\ ws' = tips[imp.target].graph
      <2>1. ~Dirty'
          BY <1>3, <1>5 DEF Dirty
      <2> QED
          BY <1>1, <1>2, <1>3, <1>5, <2>1 DEF CleanInv, Early, Same
  <1> QED
      BY <1>3, <1>4, <1>5

\* A step of the import on its branch that moves no branch.
LEMMA CourseClean ==
  ASSUME CleanInv, imp \in Runs, imp' \in Runs, Same, imp'.created = imp.created,
         UNCHANGED <<tips, before, met>>, imp.result # "dirty", imp'.result # "locked",
         imp.pc \in {"seed", "batch", "reset", "commit"},
         imp'.pc \in {"batch", "reset", "commit"} \/ (imp'.pc = "restore" /\ ~Dirty')
  PROVE  CleanInv'
  BY DEF CleanInv, Early, Same

\* Saving batches touches no branch, and the reset cleans the workspace.
LEMMA OnBranchClean ==
  ASSUME Core, CleanInv, SeedTracker \/ SaveBatch \/ FinishBatches \/ ResetWorkspace
  PROVE  CleanInv'
  <1>1. SUFFICES ASSUME met' = {} PROVE CleanInv'
      BY RestsClean
  <1>2. CASE SeedTracker
      <2>1. imp \in Runs /\ imp.pc = "seed"
          BY <1>2, SeedIs DEF Core
      <2>2. imp.result = "ok"
          BY <2>1 DEF Core, Placed
      <2> QED
          BY <1>1, <1>2, <2>1, <2>2, SeedIs, CourseClean DEF Core
  <1>3. CASE SaveBatch
      <2>1. /\ imp \in Runs /\ imp.pc = "batch" /\ imp' \in Runs /\ Same /\ imp'.created = imp.created
            /\ met' = met /\ UNCHANGED <<tips, before>>
            /\ \/ imp'.pc = "batch" /\ imp'.result = imp.result
               \/ imp'.pc = "reset" /\ imp'.result # "locked"
          BY <1>1, <1>3, SaveIs DEF Core
      <2>2. imp.result = "ok"
          BY <2>1 DEF Core, Placed
      <2> QED
          BY <2>1, <2>2, CourseClean
  <1>4. CASE FinishBatches
      <2>1. /\ imp \in Runs /\ imp.pc = "batch" /\ imp' \in Runs /\ Same /\ imp'.created = imp.created
            /\ UNCHANGED <<tips, head, ws, before, met>>
            /\ \/ imp'.pc = "commit" /\ imp'.result = imp.result
               \/ ~Dirty /\ imp'.pc = "restore" /\ imp'.result = "nochange"
          BY <1>4, FinishIs DEF Core
      <2>2. imp.result = "ok"
          BY <2>1 DEF Core, Placed
      <2>3. ~Dirty => ~Dirty'
          BY <2>1 DEF Dirty
      <2> QED
          BY <2>1, <2>2, <2>3, CourseClean
  <1>5. CASE ResetWorkspace
      <2>1. /\ imp \in Runs /\ imp.pc = "reset" /\ imp' \in Runs /\ Same /\ imp'.created = imp.created
            /\ imp'.pc = "restore" /\ imp'.result = imp.result
            /\ ws' = tips[head].graph /\ UNCHANGED <<tips, head, before, met>>
          BY <1>1, <1>5, ResetIs DEF Core
      <2>2. imp.result # "dirty"
          BY <2>1 DEF Core, Placed
      <2>3. ~Dirty'
          BY <2>1 DEF Dirty
      <2>4. imp.result # "locked"
          BY <1>1, <2>1, <2>2 DEF CleanInv
      <2> QED
          BY <2>1, <2>2, <2>3, <2>4, CourseClean
  <1> QED
      BY <1>2, <1>3, <1>4, <1>5

\* The commit leaves the workspace clean, and the import a success.
LEMMA CommitClean ==
  ASSUME Core, CleanInv, CommitImport
  PROVE  CleanInv'
  <1>1. SUFFICES ASSUME met' = {} PROVE CleanInv'
      BY RestsClean
  <1>2. /\ imp \in Runs /\ imp.pc = "commit" /\ imp' \in Runs /\ Same /\ imp'.created = imp.created
        /\ imp'.pc = "restore" /\ met' = met /\ UNCHANGED <<head, ws, others, before>>
        /\ \/ imp'.result = "committed" /\ tips' = [tips EXCEPT ![head] = NewCommit(ws)]
           \/ imp'.result = "nothing" /\ tips' = tips /\ ~Dirty
      BY <1>1, CommitIs DEF Core
  <1>3. imp.result = "ok"
      BY <1>2 DEF Core, Placed
  <1>4. CASE imp'.result = "committed" /\ tips' = [tips EXCEPT ![head] = NewCommit(ws)]
      <2>1. PICK c : tips'[head] = [graph |-> ws, commits |-> tips[head].commits \cup {c}]
          BY <1>2, <1>4, CommitNumbers, ZenonT(20) DEF Core
      <2>2. ~Dirty'
          BY <1>2, <2>1 DEF Dirty
      <2> QED
          BY <1>2, <1>3, <1>4, <2>2 DEF CleanInv, Early, Succeeded, Same
  <1>5. CASE imp'.result = "nothing" /\ tips' = tips /\ ~Dirty
      <2>1. ~Dirty'
          BY <1>2, <1>5 DEF Dirty
      <2> QED
          BY <1>2, <1>3, <1>5, <2>1, CourseClean
  <1> QED
      BY <1>2, <1>4, <1>5

\* Nobody hinders going back from a clean workspace.
LEMMA RestoreClean ==
  ASSUME Core, CleanInv, RestoreBranch
  PROVE  CleanInv'
  <1>1. SUFFICES ASSUME met' = {}, imp'.result # "dirty" PROVE CleanInv'
      BY DEF CleanInv
  <1>2. /\ imp \in Runs /\ imp.pc = "restore" /\ imp' \in Runs /\ Same /\ imp'.created = imp.created
        /\ met' = met /\ UNCHANGED <<tips, before>> /\ (imp.result # "dirty")
        /\ \/ /\ imp.target = "none" /\ imp'.pc = "done" /\ imp'.result = imp.result
              /\ UNCHANGED <<head, ws>>
           \/ /\ imp.target # "none" /\ imp'.result = imp.result
              /\ head' = imp.original /\ ws' = tips[imp.original].graph
              /\ \/ imp.created /\ ~Succeeded /\ imp'.pc = "cleanup"
                 \/ (~imp.created \/ Succeeded) /\ imp'.pc = "done"
           \/ Dirty
      <2>1. imp.result # "dirty"
          BY <1>1, RestoreIs DEF Core, Succeeded
      <2> QED
          BY <1>1, <2>1, RestoreIs DEF Core
  <1>3. /\ imp.original = before[2] /\ imp.result # "locked" /\ ~Dirty
        /\ imp.created => before[1][imp.target] = None
        /\ ~Succeeded => \A b \in Branches : (b = imp.target /\ imp.created) \/ tips[b] = before[1][b]
      BY <1>1, <1>2 DEF CleanInv, Early
  <1>4. ~Succeeded /\ ~imp.created => tips = before[1]
      <2>1. tips = [b \in Branches |-> tips[b]] /\ before[1] = [b \in Branches |-> before[1][b]]
          BY DEF Core, Types, PerBranch
      <2> QED
          BY <1>3, <2>1
  <1>5. CASE imp.target = "none"
      <2>1. /\ imp'.pc = "done" /\ imp'.result = imp.result /\ UNCHANGED <<head, ws>>
          BY <1>2, <1>3, <1>5
      <2>2. head = imp.original /\ ~imp.created
          BY <1>2, <1>5 DEF Core, Placed
      <2>3. ~Dirty' /\ (Succeeded' <=> Succeeded)
          BY <1>2, <1>3, <2>1 DEF Dirty, Succeeded
      <2> QED
          BY <1>2, <1>3, <1>4, <2>1, <2>2, <2>3 DEF CleanInv, Early, Same
  <1>6. CASE imp.target # "none"
      <2>1. /\ imp'.result = imp.result /\ head' = imp.original /\ ws' = tips[imp.original].graph
            /\ \/ imp.created /\ ~Succeeded /\ imp'.pc = "cleanup"
               \/ (~imp.created \/ Succeeded) /\ imp'.pc = "done"
          BY <1>2, <1>3, <1>6
      <2>2. ~Dirty' /\ (Succeeded' <=> Succeeded)
          BY <1>2, <2>1 DEF Dirty, Succeeded
      <2>3. CASE imp'.pc = "cleanup"
          BY <1>2, <1>3, <2>1, <2>2, <2>3 DEF CleanInv, Early, Same
      <2>4. CASE imp'.pc = "done"
          <3>1. ~Succeeded => tips = before[1]
              BY <1>4, <2>1, <2>4
          <3> QED
              BY <1>2, <1>3, <2>1, <2>2, <2>4, <3>1 DEF CleanInv, Early, Same
      <2> QED
          BY <2>1, <2>3, <2>4
  <1> QED
      BY <1>5, <1>6

\* Without the created branch the branches are those of before.
LEMMA RemoveClean ==
  ASSUME Core, CleanInv, RemoveBranch
  PROVE  CleanInv'
  <1>1. /\ imp \in Runs /\ imp.pc = "cleanup" /\ imp' \in Runs /\ Same
        /\ imp'.pc = "done" /\ imp'.created = imp.created /\ imp'.result = imp.result
        /\ tips' = [tips EXCEPT ![imp.target] = IF head = imp.target THEN @ ELSE None]
        /\ UNCHANGED <<head, ws, before, met>>
      BY RemoveIs DEF Core
  <1>2. /\ imp.target \in Branches /\ head = imp.original /\ imp.target # imp.original /\ imp.created
        /\ head \in Branches /\ tips = [b \in Branches |-> tips[b]]
        /\ before[1] = [b \in Branches |-> before[1][b]]
      BY <1>1, RunFields DEF Core, Placed, Types, PerBranch
  <1>3. SUFFICES ASSUME met = {}, imp.result # "dirty" PROVE CleanInv'
      BY <1>1 DEF CleanInv
  <1>4. /\ imp.original = before[2] /\ imp.result # "locked" /\ ~Dirty
        /\ before[1][imp.target] = None
        /\ \A b \in Branches : b = imp.target \/ tips[b] = before[1][b]
      BY <1>1, <1>2, <1>3 DEF CleanInv, Early
  <1>5. tips' = [b \in Branches |-> IF b = imp.target THEN None ELSE tips[b]]
      BY <1>1, <1>2
  <1>6. tips' = before[1] /\ tips'[head] = tips[head]
      BY <1>2, <1>4, <1>5
  <1>7. ~Dirty'
      BY <1>1, <1>4, <1>6 DEF Dirty
  <1> QED
      BY <1>1, <1>2, <1>4, <1>6, <1>7 DEF CleanInv, Early, Same

\* What the others do either changes nothing here or is met.
LEMMA OtherClean ==
  ASSUME Core, CleanInv, OtherStep
  PROVE  CleanInv'
  <1>1. CASE UNCHANGED <<tips, ws, others, met>>
      BY <1>1, OtherIs DEF CleanInv, Early, Dirty, Succeeded
  <1>2. CASE met' = met \cup {"saved"}
      BY <1>2, RestsClean
  <1> QED
      BY <1>1, <1>2, OtherIs

\* Every step of an import that met nobody keeps its way back clear.
LEMMA CleanStep == Core /\ CleanInv /\ [Next]_vars => CleanInv'
  <1> SUFFICES ASSUME Core, CleanInv, [Next]_vars PROVE CleanInv'
      OBVIOUS
  <1>1. CASE UNCHANGED vars
      BY <1>1 DEF CleanInv, Early, Dirty, Succeeded, vars
  <1>2. CASE ImportStep
      BY <1>2, CreateClean, SwitchClean, OnBranchClean, CommitClean, RestoreClean, RemoveClean, ReturnClean
         DEF ImportStep
  <1>3. CASE OtherStep
      BY <1>3, OtherClean
  <1>4. CASE Kill
      BY <1>4, KillIs, RestsClean DEF Core
  <1> QED
      BY <1>1, <1>2, <1>3, <1>4, StartClean DEF Next, OtherStep

\* An import that met no other writer returns with a clean workspace on the branch it started
\* from, and when it failed every branch is where it was: run's reset, its way back to the
\* original branch and the removal of the branch it created.
THEOREM ImportReturnsClean == Spec => []CleanReturn
  <1>1. Init => CleanInv
      BY TwoShapes DEF Init, Idle, CleanInv, Rests
  <1>2. Core /\ CleanInv => CleanReturn
      <2> SUFFICES ASSUME Core, CleanInv, imp.pc = "done", met = {}, imp.result \notin {"dirty"}
                   PROVE  ~Dirty /\ head = before[2] /\ (~Succeeded => tips = before[1])
          BY DEF CleanReturn
      <2>1. imp \in Runs
          BY TwoShapes DEF Core, Types
      <2> QED
          BY <2>1 DEF CleanInv
  <1> QED
      BY <1>1, <1>2, CleanStep, CoreInvariant, PTL DEF Spec

-----------------------------------------------------------------------------
(* The UNIQUE claims, and what they say of the nodes they were made for.    *)

\* The record r of key k holds value x in its UNIQUE property p.
Held(k, r, p, x) ==
  k.label \in DOMAIN Labels /\ p \in Labels[k.label].unique /\ p \in DOMAIN r /\ x = r[p]

\* One of the nodes, of key k, does.
Owns(nodes, p, x, k) == k \in DOMAIN nodes /\ Held(k, nodes[k], p, x)

\* Somebody claims value x of property p for key k.
Claimed(t, p, x, k) == \E c \in t : c.prop = p /\ c.value = x /\ c.key = k

\* The claims are those of the nodes, whoever imported them.
Exact(t, nodes) ==
  /\ \A c \in t : Owns(nodes, c.prop, c.value, c.key)
  /\ \A p, x, k : Owns(nodes, p, x, k) => Claimed(t, p, x, k)

OfNodes(nodes) == UNION {Claims(k, nodes[k], FALSE) : k \in DOMAIN nodes}
Triples(t) == {<<c.prop, c.value, c.key>> : c \in t}

\* A record claims what it holds, and nothing else.
LEMMA ClaimsAre ==
  ASSUME NEW k, NEW r, NEW i
  PROVE  /\ \A c \in Claims(k, r, i) : c.key = k /\ Held(k, r, c.prop, c.value)
         /\ \A p, x : Held(k, r, p, x) => Claimed(Claims(k, r, i), p, x, k)
  <1>1. CASE k.label \in DOMAIN Labels
      <2> DEFINE claim(p) == [prop |-> p, value |-> r[p], key |-> k, imported |-> i]
                 P == Labels[k.label].unique \cap DOMAIN r
      <2>1. Claims(k, r, i) = {claim(p) : p \in P}
          BY <1>1 DEF Claims
      <2>2. \A p : claim(p).prop = p /\ claim(p).value = r[p] /\ claim(p).key = k
          OBVIOUS
      <2> HIDE DEF claim
      <2>3. ASSUME NEW c \in Claims(k, r, i)
            PROVE  c.key = k /\ Held(k, r, c.prop, c.value)
          <3>1. PICK p \in P : c = claim(p)
              BY <2>1
          <3>2. c.key = k /\ c.prop = p /\ c.value = r[p]
              BY <2>2, <3>1
          <3> QED
              BY <1>1, <3>2 DEF Held
      <2>4. ASSUME NEW p, NEW x, Held(k, r, p, x) PROVE Claimed(Claims(k, r, i), p, x, k)
          <3>1. p \in P /\ x = r[p]
              BY <2>4 DEF Held
          <3>2. claim(p) \in Claims(k, r, i)
              BY <2>1, <3>1
          <3> QED
              BY <2>2, <3>1, <3>2 DEF Claimed
      <2> QED
          BY <2>3, <2>4
  <1>2. CASE k.label \notin DOMAIN Labels
      BY <1>2 DEF Claims, Held
  <1> QED
      BY <1>1, <1>2

\* What is claimed in a part of the claims is claimed.
LEMMA ClaimedWithin ==
  ASSUME NEW s, NEW t, s \subseteq t, NEW p, NEW x, NEW k, Claimed(s, p, x, k)
  PROVE  Claimed(t, p, x, k)
  BY DEF Claimed

\* Seeding claims what the nodes hold.
LEMMA SeedExact ==
  ASSUME NEW nodes
  PROVE  Exact(OfNodes(nodes), nodes)
  <1> DEFINE no == FALSE
             S == {Claims(k, nodes[k], no) : k \in DOMAIN nodes}
  <1>1. OfNodes(nodes) = UNION S
      BY DEF OfNodes
  <1> HIDE DEF no
  <1>2. ASSUME NEW c \in OfNodes(nodes) PROVE Owns(nodes, c.prop, c.value, c.key)
      <2>1. PICK s \in S : c \in s
          BY <1>1
      <2>2. PICK k \in DOMAIN nodes : s = Claims(k, nodes[k], no)
          BY <2>1
      <2>3. c \in Claims(k, nodes[k], no)
          BY <2>1, <2>2
      <2>4. c.key = k /\ Held(k, nodes[k], c.prop, c.value)
          BY <2>3, ClaimsAre, SMTT(15), ZenonT(20)
      <2> QED
          BY <2>4 DEF Owns
  <1>3. ASSUME NEW p, NEW x, NEW k, Owns(nodes, p, x, k)
        PROVE  Claimed(OfNodes(nodes), p, x, k)
      <2>1. k \in DOMAIN nodes /\ Held(k, nodes[k], p, x)
          BY <1>3 DEF Owns
      <2>2. Claimed(Claims(k, nodes[k], no), p, x, k)
          BY <2>1, ClaimsAre, SMTT(15), ZenonT(20)
      <2>3. Claims(k, nodes[k], no) \in S
          BY <2>1
      <2>4. Claims(k, nodes[k], no) \subseteq OfNodes(nodes)
          BY <1>1, <2>3
      <2> QED
          BY <2>2, <2>4, ClaimedWithin
  <1> QED
      BY <1>2, <1>3 DEF Exact

\* Two exact trackers of the same nodes differ only in who imported them.
LEMMA ExactTriples ==
  ASSUME NEW t, NEW nodes, Exact(t, nodes)
  PROVE  Triples(t) = Triples(OfNodes(nodes))
  <1> DEFINE u == OfNodes(nodes)
  <1>1. Exact(u, nodes)
      BY SeedExact
  <1> HIDE DEF u
  <1>2. ASSUME NEW a, NEW b, Exact(a, nodes), Exact(b, nodes), NEW c \in a
        PROVE  <<c.prop, c.value, c.key>> \in Triples(b)
      <2>1. Owns(nodes, c.prop, c.value, c.key)
          BY <1>2 DEF Exact
      <2>2. Claimed(b, c.prop, c.value, c.key)
          BY <1>2, <2>1 DEF Exact
      <2>3. PICK d \in b : d.prop = c.prop /\ d.value = c.value /\ d.key = c.key
          BY <2>2 DEF Claimed
      <2>4. <<c.prop, c.value, c.key>> = <<d.prop, d.value, d.key>>
          BY <2>3
      <2> QED
          BY <2>4 DEF Triples
  <1>3. ASSUME NEW e \in Triples(t) PROVE e \in Triples(u)
      <2>1. PICK c \in t : e = <<c.prop, c.value, c.key>>
          BY <1>3 DEF Triples
      <2> QED
          BY <1>1, <1>2, <2>1
  <1>4. ASSUME NEW e \in Triples(u) PROVE e \in Triples(t)
      <2>1. PICK c \in u : e = <<c.prop, c.value, c.key>>
          BY <1>4 DEF Triples
      <2> QED
          BY <1>1, <1>2, <2>1
  <1> QED
      BY <1>3, <1>4 DEF u

\* The node set with a batch put into it.
LEMMA PutAllIs ==
  ASSUME NEW nodes, NEW b
  PROVE  /\ DOMAIN PutAll(nodes, b) = DOMAIN nodes \cup PutKeys(b)
         /\ \A k \in PutKeys(b) : PutAll(nodes, b)[k] = LastPut(b, k).record
         /\ \A k \in DOMAIN nodes \ PutKeys(b) : PutAll(nodes, b)[k] = nodes[k]
  BY DEF PutAll

\* Over is what becomes of the nodes when the puts replace what their keys held.
Over(nodes, puts, after) ==
  /\ DOMAIN after = DOMAIN nodes \cup DOMAIN puts
  /\ \A k \in DOMAIN puts : after[k] = puts[k]
  /\ \A k \in DOMAIN nodes \ DOMAIN puts : after[k] = nodes[k]

\* The surviving puts of a batch, over the nodes, are the batch put.
LEMMA SurvivingOver ==
  ASSUME NEW nodes
  PROVE  /\ Over(nodes, Surviving, PutAll(nodes, Batch))
         /\ DOMAIN Surviving = PutKeys(Batch)
         /\ \A k \in PutKeys(Batch) : Surviving[k] = LastPut(Batch, k).record
  <1>1. DOMAIN Surviving = PutKeys(Batch)
      <2>1. DOMAIN Surviving = DOMAIN (<<>>) \cup PutKeys(Batch)
          BY PutAllIs DEF Surviving
      <2>2. DOMAIN (<<>>) = {}
          OBVIOUS
      <2> QED
          BY <2>1, <2>2
  <1>2. \A k \in PutKeys(Batch) : Surviving[k] = LastPut(Batch, k).record
      BY PutAllIs, ZenonT(20) DEF Surviving
  <1> DEFINE after == PutAll(nodes, Batch)
  <1>3. /\ DOMAIN after = DOMAIN nodes \cup PutKeys(Batch)
        /\ \A k \in PutKeys(Batch) : after[k] = LastPut(Batch, k).record
        /\ \A k \in DOMAIN nodes \ PutKeys(Batch) : after[k] = nodes[k]
      BY PutAllIs
  <1> HIDE DEF after
  <1>4. Over(nodes, Surviving, after)
      BY <1>1, <1>2, <1>3 DEF Over
  <1> QED
      BY <1>1, <1>2, <1>4 DEF after

\* Unclaiming what a put replaces and claiming what it holds keeps the claims exact.
LEMMA ClaimExact ==
  ASSUME NEW t, NEW nodes, NEW puts, NEW after, Exact(t, nodes), Over(nodes, puts, after)
  PROVE  Exact(Claim(t, puts), after)
  <1> DEFINE yes == TRUE
             S == {Claims(k, puts[k], yes) : k \in DOMAIN puts}
             kept == {c \in t : c.key \notin DOMAIN puts}
  <1>1. Claim(t, puts) = kept \cup (UNION S)
      BY DEF Claim
  <1> HIDE DEF yes
  <1>2. ASSUME NEW c \in Claim(t, puts) PROVE Owns(after, c.prop, c.value, c.key)
      <2>1. CASE c \in t /\ c.key \notin DOMAIN puts
          <3>1. Owns(nodes, c.prop, c.value, c.key)
              BY <2>1 DEF Exact
          <3> QED
              BY <2>1, <3>1 DEF Over, Owns
      <2>2. CASE c \in UNION S
          <3>1. PICK k \in DOMAIN puts : c \in Claims(k, puts[k], yes)
              BY <2>2
          <3>2. c.key = k /\ Held(k, puts[k], c.prop, c.value)
              BY <3>1, ClaimsAre, SMTT(15), ZenonT(20)
          <3> QED
              BY <3>1, <3>2 DEF Over, Owns
      <2> QED
          BY <1>1, <2>1, <2>2
  <1>3. ASSUME NEW p, NEW x, NEW k, Owns(after, p, x, k)
        PROVE  Claimed(Claim(t, puts), p, x, k)
      <2>1. CASE k \in DOMAIN puts
          <3>1. Held(k, puts[k], p, x)
              BY <1>3, <2>1 DEF Owns, Over
          <3>2. Claimed(Claims(k, puts[k], yes), p, x, k)
              BY <3>1, ClaimsAre, SMTT(15), ZenonT(20)
          <3>3. Claims(k, puts[k], yes) \in S
              BY <2>1
          <3>4. Claims(k, puts[k], yes) \subseteq Claim(t, puts)
              BY <1>1, <3>3
          <3> QED
              BY <3>2, <3>4, ClaimedWithin
      <2>2. CASE k \notin DOMAIN puts
          <3>1. Owns(nodes, p, x, k)
              BY <1>3, <2>2 DEF Owns, Over
          <3>2. Claimed(t, p, x, k)
              BY <3>1 DEF Exact
          <3>3. PICK c \in t : c.prop = p /\ c.value = x /\ c.key = k
              BY <3>2 DEF Claimed
          <3>4. c \in Claim(t, puts)
              BY <1>1, <2>2, <3>3
          <3> QED
              BY <3>3, <3>4 DEF Claimed
      <2> QED
          BY <2>1, <2>2
  <1> QED
      BY <1>2, <1>3 DEF Exact

-----------------------------------------------------------------------------
(* The checks of a batch are the checks of the nodes it ends with.          *)

Lacks(nodes, k) == \E p \in Labels[k.label].exists : ~Present(nodes[k], Labels[k.label], p)
Mistyped(nodes, k) ==
  \E p \in DOMAIN Labels[k.label].types :
    \E x \in Holds(k, nodes[k], Labels[k.label], p) : ~Matches(Labels[k.label].types[p], x)
Shares(nodes, k, other) ==
  /\ other \in DOMAIN nodes /\ other # k /\ other.label = k.label
  /\ \E p : /\ p \in Labels[k.label].unique /\ p \in DOMAIN nodes[k]
            /\ p \in DOMAIN nodes[other] /\ nodes[other][p] = nodes[k][p]

\* A breach is one of three things about one node.
LEMMA BreachedIs ==
  ASSUME NEW nodes, NEW focus
  PROVE  Breached(Labels, nodes, focus) <=>
           \E k \in DOMAIN nodes : /\ k \in focus /\ k.label \in DOMAIN Labels
                                   /\ Lacks(nodes, k) \/ Mistyped(nodes, k) \/ \E other : Shares(nodes, k, other)
  BY DEF Breached, Lacks, Mistyped, Shares

\* Two claims of t that no batch may hold, of k and of other.
Clash(t, k, other) ==
    \E c, d \in t : /\ c.key = k /\ d.key = other /\ c.prop = d.prop /\ c.value = d.value
                    /\ c.key.label = d.key.label /\ c.key # d.key

\* Two nodes that share a UNIQUE value have a claim each.
LEMMA SharedClaims ==
  ASSUME NEW t, NEW nodes, Exact(t, nodes), NEW k \in DOMAIN nodes, NEW other,
         k.label \in DOMAIN Labels, Shares(nodes, k, other)
  PROVE  Clash(t, k, other)
  <1>1. PICK p : /\ p \in Labels[k.label].unique /\ p \in DOMAIN nodes[k]
                 /\ p \in DOMAIN nodes[other] /\ nodes[other][p] = nodes[k][p]
      BY DEF Shares
  <1>2. Owns(nodes, p, nodes[k][p], k) /\ Owns(nodes, p, nodes[k][p], other)
      BY <1>1 DEF Owns, Held, Shares
  <1>3. Claimed(t, p, nodes[k][p], k) /\ Claimed(t, p, nodes[k][p], other)
      BY <1>2 DEF Exact
  <1>4. PICK c \in t : c.prop = p /\ c.value = nodes[k][p] /\ c.key = k
      BY <1>3 DEF Claimed
  <1>5. PICK d \in t : d.prop = p /\ d.value = nodes[k][p] /\ d.key = other
      BY <1>3 DEF Claimed
  <1>6. other # k /\ other.label = k.label
      BY DEF Shares
  <1> QED
      BY <1>4, <1>5, <1>6 DEF Clash

\* What a batch's checks refuse is a breach of the nodes it would end with.
LEMMA RefusedIsBreached ==
  ASSUME NEW t, NEW nodes, NEW after, NEW focus, Exact(t, after), Over(nodes, Surviving, after),
         DOMAIN Surviving \subseteq focus, Violates(t)
  PROVE  Breached(Labels, after, focus)
  <1>1. DOMAIN Surviving \subseteq DOMAIN after /\ \A k \in DOMAIN Surviving : after[k] = Surviving[k]
      BY DEF Over
  <1>2. CASE \E k \in DOMAIN Surviving :
               /\ k.label \in DOMAIN Labels
               /\ \E p \in Labels[k.label].exists : ~Present(Surviving[k], Labels[k.label], p)
      <2>1. PICK k \in DOMAIN Surviving :
               /\ k.label \in DOMAIN Labels
               /\ \E p \in Labels[k.label].exists : ~Present(Surviving[k], Labels[k.label], p)
          BY <1>2
      <2>2. Lacks(after, k) /\ k \in DOMAIN after /\ k \in focus
          BY <1>1, <2>1 DEF Lacks
      <2> QED
          BY <2>1, <2>2, BreachedIs
  <1>3. CASE \E c, d \in t : /\ c.key \in DOMAIN Surviving /\ c.key /= d.key
                             /\ c.prop = d.prop /\ c.value = d.value /\ c.key.label = d.key.label
      <2>1. PICK c \in t, d \in t : /\ c.key \in DOMAIN Surviving /\ c.key /= d.key
                                    /\ c.prop = d.prop /\ c.value = d.value /\ c.key.label = d.key.label
          BY <1>3
      <2>2. Owns(after, c.prop, c.value, c.key) /\ Owns(after, d.prop, d.value, d.key)
          BY DEF Exact
      <2>3. Shares(after, c.key, d.key) /\ c.key.label \in DOMAIN Labels
          BY <2>1, <2>2, ZenonT(20) DEF Owns, Held, Shares
      <2>4. c.key \in DOMAIN after /\ c.key \in focus
          BY <1>1, <2>1
      <2> QED
          BY <2>3, <2>4, BreachedIs
  <1> QED
      BY <1>2, <1>3 DEF Violates

\* Accepted batches, one after the other, leave no breach.
LEMMA AcceptedIsSound ==
  ASSUME NEW t, NEW nodes, NEW after, NEW focus, Exact(t, after), Over(nodes, Surviving, after),
         \A k \in DOMAIN Surviving : k.label \in DOMAIN Labels => ~Mistyped(Surviving, k),
         ~Breached(Labels, nodes, focus), ~Violates(t)
  PROVE  ~Breached(Labels, after, focus \cup DOMAIN Surviving)
  <1> SUFFICES ASSUME NEW k \in DOMAIN after, k \in focus \cup DOMAIN Surviving, k.label \in DOMAIN Labels,
                      Lacks(after, k) \/ Mistyped(after, k) \/ \E other : Shares(after, k, other)
               PROVE  FALSE
      BY BreachedIs
  <1>0. \A other : Shares(after, k, other) => Clash(t, k, other)
      BY SharedClaims, SMTT(15), ZenonT(20)
  <1>1. \A x \in DOMAIN Surviving : after[x] = Surviving[x]
      BY DEF Over
  <1>2. \A other : Clash(t, k, other) => k \notin DOMAIN Surviving /\ other \notin DOMAIN Surviving
      <2> SUFFICES ASSUME NEW other, Clash(t, k, other)
                   PROVE  k \notin DOMAIN Surviving /\ other \notin DOMAIN Surviving
          OBVIOUS
      <2>1. PICK c \in t : \E d \in t :
              /\ c.key = k /\ d.key = other /\ c.prop = d.prop /\ c.value = d.value
              /\ c.key.label = d.key.label /\ c.key # d.key
          BY DEF Clash
      <2>2. PICK d \in t :
              /\ c.key = k /\ d.key = other /\ c.prop = d.prop /\ c.value = d.value
              /\ c.key.label = d.key.label /\ c.key # d.key
          BY <2>1
      <2>3. \A u, v \in t : u.key # v.key /\ u.prop = v.prop /\ u.value = v.value /\ u.key.label = v.key.label
              => u.key \notin DOMAIN Surviving
          BY DEF Violates
      <2>4. c.key \notin DOMAIN Surviving
          BY <2>2, <2>3, SMTT(15), ZenonT(20)
      <2>5. d.key \notin DOMAIN Surviving
          BY <2>2, <2>3, SMTT(15), ZenonT(20)
      <2> QED
          BY <2>2, <2>4, <2>5
  <1>3. CASE k \in DOMAIN Surviving
      <2>1. CASE Lacks(after, k)
          BY <1>1, <1>3, <2>1 DEF Lacks, Violates
      <2>2. CASE Mistyped(after, k)
          BY <1>1, <1>3, <2>2 DEF Mistyped
      <2>3. CASE \E other : Shares(after, k, other)
          <3>1. PICK other : Shares(after, k, other)
              BY <2>3
          <3>2. Clash(t, k, other)
              BY <1>0, <3>1
          <3> QED
              BY <1>2, <1>3, <3>2
      <2> QED
          BY <2>1, <2>2, <2>3
  <1>4. CASE k \notin DOMAIN Surviving
      <2>1. k \in focus /\ k \in DOMAIN nodes /\ after[k] = nodes[k]
          BY <1>4 DEF Over
      <2>2. CASE Lacks(after, k) \/ Mistyped(after, k)
          <3>1. Lacks(nodes, k) \/ Mistyped(nodes, k)
              BY <2>1, <2>2 DEF Lacks, Mistyped
          <3> QED
              BY <2>1, <3>1, BreachedIs
      <2>3. CASE \E other : Shares(after, k, other)
          <3>1. PICK other : Shares(after, k, other)
              BY <2>3
          <3>2. Clash(t, k, other)
              BY <1>0, <3>1
          <3>3. other \notin DOMAIN Surviving
              BY <1>2, <3>2
          <3>4. other \in DOMAIN nodes /\ after[other] = nodes[other]
              BY <3>1, <3>3 DEF Shares, Over
          <3>5. Shares(nodes, k, other)
              BY <2>1, <3>1, <3>4 DEF Shares
          <3> QED
              BY <2>1, <3>5, BreachedIs
      <2> QED
          BY <2>2, <2>3
  <1> QED
      BY <1>3, <1>4

\* What survives in a batch holds values of the declared types.
LEMMA SurvivorsConform ==
  ASSUME Batch \in Seq(Puts)
  PROVE  \A k \in DOMAIN Surviving : k.label \in DOMAIN Labels => ~Mistyped(Surviving, k)
  <1> SUFFICES ASSUME NEW k \in DOMAIN Surviving, k.label \in DOMAIN Labels PROVE ~Mistyped(Surviving, k)
      OBVIOUS
  <1>1. k \in PutKeys(Batch)
      BY SurvivingOver
  <1>2. Surviving[k] = LastPut(Batch, k).record
      BY <1>1, SurvivingOver
  <1>3. PICK i \in PutsOf(Batch, k) : LastPut(Batch, k) = Batch[i]
      BY <1>1, LastPutIs
  <1>4. Batch[i] \in NodePuts /\ Batch[i].key = k /\ Batch[i].record = Surviving[k]
      BY <1>2, <1>3 DEF PutsOf
  <1>5. PICK put \in NodePuts : put = Batch[i]
      BY <1>4
  <1>6. put.key.label \in DOMAIN Labels => \A p \in DOMAIN Labels[put.key.label].types :
          \A x \in Holds(put.key, put.record, Labels[put.key.label], p) : Matches(Labels[put.key.label].types[p], x)
      BY ImportAssumption, ZenonT(20)
  <1>7. put.key = k /\ put.record = Surviving[k]
      BY <1>4, <1>5
  <1>8. \A p \in DOMAIN Labels[k.label].types :
          \A x \in Holds(k, Surviving[k], Labels[k.label], p) : Matches(Labels[k.label].types[p], x)
      BY <1>6, <1>7
  <1> QED
      BY <1>8 DEF Mistyped

\* Saving a batch keeps the claims exact, and refuses and accepts as the final state would.
LEMMA BatchDecides ==
  ASSUME NEW pre \in Seq(Puts), imp \in Runs, imp.rest # <<>>, Exact(tracker, ws.nodes)
  PROVE  /\ Exact(Applied, Staged.nodes)
         /\ Violates(Applied) /\ PutKeys(Batch) \subseteq Imported => Breached(Labels, Staged.nodes, Imported)
         /\ ~Violates(Applied) /\ ~Breached(Labels, ws.nodes, PutKeys(pre))
              => ~Breached(Labels, Staged.nodes, PutKeys(pre \o Batch))
  <1>1. Batch \in Seq(Puts)
      BY BatchIs
  <1>2. Staged.nodes = PutAll(ws.nodes, Batch)
      BY DEF Staged
  <1>3. Over(ws.nodes, Surviving, Staged.nodes) /\ DOMAIN Surviving = PutKeys(Batch)
      BY <1>2, SurvivingOver
  <1>4. Exact(Applied, Staged.nodes)
      BY <1>3, ClaimExact DEF Applied
  <1>5. PutKeys(pre \o Batch) = PutKeys(pre) \cup PutKeys(Batch)
      BY <1>1, PutKeysConcat
  <1>6. Violates(Applied) /\ PutKeys(Batch) \subseteq Imported => Breached(Labels, Staged.nodes, Imported)
      BY <1>3, <1>4, RefusedIsBreached
  <1>7. ~Violates(Applied) /\ ~Breached(Labels, ws.nodes, PutKeys(pre))
              => ~Breached(Labels, Staged.nodes, PutKeys(pre \o Batch))
      <2>1. \A k \in DOMAIN Surviving : k.label \in DOMAIN Labels => ~Mistyped(Surviving, k)
          BY <1>1, SurvivorsConform
      <2>2. ~Violates(Applied) /\ ~Breached(Labels, ws.nodes, PutKeys(pre))
              => ~Breached(Labels, Staged.nodes, PutKeys(pre) \cup DOMAIN Surviving)
          BY <1>3, <1>4, <2>1, AcceptedIsSound, ZenonT(20)
      <2>3. PutKeys(pre) \cup DOMAIN Surviving = PutKeys(pre \o Batch)
          BY <1>3, <1>5
      <2> QED
          BY <2>2, <2>3
  <1> QED
      BY <1>4, <1>6, <1>7

-----------------------------------------------------------------------------
(* Where an import nobody else wrote during starts from, retried or not.    *)

\* Refused by the lock, and back where it was: what the daemon may begin again.
Retriable == imp.pc = "done" /\ imp.result = "locked" /\ head = imp.original

Undisturbed == imp \in Runs /\ "saved" \notin met

BaseInv ==
  Undisturbed =>
    /\ before[2] \in Branches /\ before[1][before[2]] # None
    /\ imp.original = before[2] \/ (imp.pc = "done" /\ imp.result \in {"dirty", "config"})
    /\ imp.created => before[1][imp.target] = None
    /\ Early \/ Retriable =>
         /\ tips[imp.original] = before[1][imp.original]
         /\ imp.target # "none" => tips[imp.target] \in {before[1][imp.target], Base}

\* Nothing to show of an import that rests or was disturbed.
LEMMA RestsBase ==
  ASSUME imp' \in Rests \/ "saved" \in met'
  PROVE  BaseInv'
  BY TwoShapes DEF BaseInv, Undisturbed

\* The base is settled by the fields that do not change.
LEMMA SameBase ==
  ASSUME Same, before' = before
  PROVE  Base' = Base /\ Target' = Target
  BY DEF Same, Base, Target

\* While it is on its branch, the branch is still at the commit the import is based on.
LEMMA AtBase ==
  ASSUME Core, BaseInv, Undisturbed, imp.pc \in {"seed", "batch", "reset", "commit"}
  PROVE  head = Target /\ tips[Target] = Base /\ Base # None
  <1>1. /\ before[1][before[2]] # None /\ imp.original = before[2]
        /\ tips[imp.original] = before[1][imp.original]
        /\ imp.target # "none" => tips[imp.target] \in {before[1][imp.target], Base}
      BY DEF BaseInv, Early
  <1>2. head = Target /\ tips[head] # None
      BY DEF Core, Placed, Types, Undisturbed
  <1>3. CASE imp.target = "none"
      BY <1>1, <1>2, <1>3 DEF Target, Base
  <1>4. CASE imp.target # "none"
      <2>1. Target = imp.target
          BY <1>4 DEF Target
      <2> QED
          BY <1>1, <1>2, <1>4, <2>1 DEF Base
  <1> QED
      BY <1>3, <1>4

\* A new import is based on the state it starts in.
LEMMA StartBase ==
  ASSUME Core, Start
  PROVE  BaseInv'
  <1>1. /\ imp' \in Runs /\ imp'.original = head /\ imp'.created = FALSE
        /\ before' = <<tips, head, ws>> /\ UNCHANGED <<tips, head, ws>>
      BY StartIs DEF Core
  <1>2. before'[1] = tips /\ before'[2] = head /\ head \in Branches /\ tips[head] # None
      BY <1>1 DEF Core, Types
  <1> QED
      BY <1>1, <1>2 DEF BaseInv

\* A step that moves no branch and leaves the import's record.
LEMMA QuietBase ==
  ASSUME BaseInv, imp \in Runs, imp' \in Runs, Same, imp'.created = imp.created, UNCHANGED <<tips, before>>,
         "saved" \notin met' => "saved" \notin met, imp.pc # "done",
         Early' \/ Retriable' => Early
  PROVE  BaseInv'
  <1>1. Base' = Base
      BY SameBase
  <1> QED
      BY <1>1 DEF BaseInv, Undisturbed, Same

\* Until the commit no step moves a branch.
LEMMA CourseBase ==
  ASSUME Core, BaseInv, SwitchBranch \/ SeedTracker \/ SaveBatch \/ FinishBatches \/ ResetWorkspace
  PROVE  BaseInv'
  <1>1. CASE SwitchBranch
      <2>1. imp \in Runs /\ imp.pc = "checkout"
          BY <1>1, TwoShapes DEF Core, Types, SwitchBranch
      <2>2. imp.target \in Branches
          BY <2>1, RunFields DEF Core, Placed
      <2>3. /\ imp' \in Runs /\ Same /\ imp'.created = imp.created /\ UNCHANGED <<tips, before>>
            /\ "saved" \notin met' => "saved" \notin met
          BY <1>1, <2>2, SwitchIs DEF Core
      <2> QED
          BY <2>1, <2>3, QuietBase DEF Early
  <1>2. CASE SeedTracker
      BY <1>2, SeedIs, QuietBase DEF Core, Early
  <1>3. CASE SaveBatch
      <2>1. /\ imp \in Runs /\ imp.pc = "batch" /\ imp' \in Runs /\ Same /\ imp'.created = imp.created
            /\ UNCHANGED <<tips, before>> /\ ("saved" \notin met' => "saved" \notin met)
          BY <1>3, SaveIs DEF Core
      <2> QED
          BY <2>1, QuietBase DEF Early
  <1>4. CASE FinishBatches
      BY <1>4, FinishIs, QuietBase DEF Core, Early
  <1>5. CASE ResetWorkspace
      <2>1. /\ imp \in Runs /\ imp.pc = "reset" /\ imp' \in Runs /\ Same /\ imp'.created = imp.created
            /\ UNCHANGED <<tips, before>> /\ ("saved" \notin met' => "saved" \notin met)
          BY <1>5, ResetIs DEF Core
      <2> QED
          BY <2>1, QuietBase DEF Early
  <1> QED
      BY <1>1, <1>2, <1>3, <1>4, <1>5

\* The branch is created at its base.
LEMMA CreateBase ==
  ASSUME Core, BaseInv, CreateBranch
  PROVE  BaseInv'
  <1>1. /\ imp \in Runs /\ imp.pc = "create" /\ imp' \in Runs /\ Same
        /\ imp'.created = (tips[imp.target] = None) /\ imp'.pc = "checkout"
        /\ tips' = [tips EXCEPT ![imp.target] = IF @ = None THEN tips[head] ELSE @]
        /\ UNCHANGED <<head, before, met>>
      BY CreateIs DEF Core
  <1>2. /\ imp.target \in Branches /\ imp.target # "none" /\ head = imp.original /\ imp.target # imp.original
        /\ imp.original \in Branches /\ tips = [b \in Branches |-> tips[b]]
      BY <1>1, RunFields DEF Core, Placed, Types, PerBranch
  <1>3. SUFFICES ASSUME Undisturbed PROVE BaseInv'
      BY <1>1 DEF BaseInv, Undisturbed
  <1>4. /\ before[2] \in Branches /\ before[1][before[2]] # None /\ imp.original = before[2]
        /\ tips[imp.original] = before[1][imp.original]
        /\ tips[imp.target] \in {before[1][imp.target], Base}
      BY <1>1, <1>2, <1>3 DEF BaseInv, Early
  <1>5. Base = IF before[1][imp.target] = None THEN before[1][imp.original] ELSE before[1][imp.target]
      BY <1>2 DEF Base, Target
  <1>6. Base' = Base
      BY <1>1, SameBase
  <1>7. /\ tips'[imp.original] = tips[imp.original]
        /\ tips'[imp.target] = IF tips[imp.target] = None THEN tips[imp.original] ELSE tips[imp.target]
      BY <1>1, <1>2
  <1>8. tips[imp.target] = None => before[1][imp.target] = None /\ tips'[imp.target] = Base
      BY <1>4, <1>5, <1>7
  <1>9. tips'[imp.target] \in {before[1][imp.target], Base}
      BY <1>4, <1>7, <1>8
  <1> QED
      BY <1>1, <1>4, <1>6, <1>7, <1>8, <1>9, ZenonT(20) DEF BaseInv, Same

\* A commit ends the time the branches are held to the base.
LEMMA CommitBase ==
  ASSUME Core, BaseInv, CommitImport
  PROVE  BaseInv'
  <1>1. /\ imp \in Runs /\ imp.pc = "commit" /\ imp' \in Runs /\ Same /\ imp'.created = imp.created
        /\ imp'.pc = "restore" /\ before' = before /\ ("saved" \notin met' => "saved" \notin met)
        /\ imp'.result = "committed" \/ tips' = tips
      BY CommitIs DEF Core
  <1>2. CASE tips' = tips
      BY <1>1, <1>2, QuietBase DEF Early
  <1>3. CASE imp'.result = "committed"
      <2>1. ~Early' /\ ~Retriable'
          BY <1>1, <1>3 DEF Early, Retriable, Succeeded
      <2> QED
          BY <1>1, <2>1 DEF BaseInv, Undisturbed, Same
  <1> QED
      BY <1>1, <1>2, <1>3

\* Going back moves no branch.
LEMMA RestoreBase ==
  ASSUME Core, BaseInv, RestoreBranch
  PROVE  BaseInv'
  <1>1. /\ imp \in Runs /\ imp.pc = "restore" /\ imp' \in Runs /\ Same /\ imp'.created = imp.created
        /\ UNCHANGED <<tips, before>> /\ ("saved" \notin met' => "saved" \notin met)
        /\ \/ imp.target = "none" /\ imp'.pc = "done" /\ imp'.result = imp.result
           \/ imp.target # "none" /\ imp'.result = imp.result /\ (imp'.pc = "done" \/ ~Succeeded)
           \/ /\ imp.target # "none" /\ imp'.pc = "done" /\ head' = head
              /\ ~Succeeded => imp'.result = imp.result
      BY RestoreIs DEF Core
  <1>2. head = Target /\ imp.target # imp.original
      BY <1>1 DEF Core, Placed
  <1>3. CASE ~Succeeded
      BY <1>1, <1>3, QuietBase DEF Early
  <1>4. CASE Succeeded
      <2>1. imp'.pc = "done"
          BY <1>1, <1>4
      <2>2. ~Retriable'
          <3>1. imp'.result = imp.result \/ head' # imp'.original
              BY <1>1, <1>2, <1>4 DEF Target, Same
          <3> QED
              BY <1>4, <3>1 DEF Retriable, Succeeded
      <2>3. ~Early'
          BY <2>1 DEF Early
      <2> QED
          BY <1>1, <2>2, <2>3, QuietBase
  <1> QED
      BY <1>3, <1>4

\* Removing the created branch leaves what was there before: no branch.
LEMMA RemoveBase ==
  ASSUME Core, BaseInv, RemoveBranch
  PROVE  BaseInv'
  <1>1. /\ imp \in Runs /\ imp.pc = "cleanup" /\ imp' \in Runs /\ Same
        /\ imp'.pc = "done" /\ imp'.created = imp.created
        /\ tips' = [tips EXCEPT ![imp.target] = IF head = imp.target THEN @ ELSE None]
        /\ UNCHANGED <<head, before, met>>
      BY RemoveIs DEF Core
  <1>2. /\ imp.target \in Branches /\ head = imp.original /\ imp.target # imp.original /\ imp.created
        /\ imp.original \in Branches /\ tips = [b \in Branches |-> tips[b]]
      BY <1>1, RunFields DEF Core, Placed, Types, PerBranch
  <1>3. SUFFICES ASSUME Undisturbed PROVE BaseInv'
      BY <1>1 DEF BaseInv, Undisturbed
  <1>4. /\ before[2] \in Branches /\ before[1][before[2]] # None /\ imp.original = before[2]
        /\ tips[imp.original] = before[1][imp.original] /\ before[1][imp.target] = None
      BY <1>1, <1>2, <1>3 DEF BaseInv, Early
  <1>5. tips'[imp.original] = tips[imp.original] /\ tips'[imp.target] = None
      BY <1>1, <1>2
  <1> QED
      BY <1>1, <1>4, <1>5 DEF BaseInv, Same

\* An import begun again starts from branches that are still those of before.
LEMMA ReturnBase ==
  ASSUME Core, BaseInv, Return
  PROVE  BaseInv'
  <1>1. CASE imp' \in Rests
      BY <1>1, RestsBase
  <1>2. CASE imp' \notin Rests
      <2>1. /\ imp \in Runs /\ imp.pc = "done" /\ imp.result = "locked" /\ imp' \in Runs
            /\ imp'.target = imp.target /\ imp'.original = head /\ imp'.created = FALSE
            /\ UNCHANGED <<tips, head, before, met>>
            /\ \/ imp'.pc = "done" /\ imp'.result \in {"dirty", "config"}
               \/ imp.target # head
          <3>1. head # "none"
              BY DEF Core, Types, Branches
          <3> QED
              BY <1>2, <3>1, ReturnIs, ZenonT(20) DEF Core
      <2>2. head \in {imp.original, imp.target}
          BY <2>1 DEF Core, Placed
      <2>3. SUFFICES ASSUME Undisturbed PROVE BaseInv'
          BY <2>1 DEF BaseInv, Undisturbed
      <2>4. before[2] \in Branches /\ before[1][before[2]] # None /\ imp.original = before[2]
          BY <2>1, <2>3 DEF BaseInv
      <2>5. CASE imp.target # head
          <3>1. head = imp.original /\ imp'.original = imp.original
              BY <2>1, <2>2, <2>5
          <3>2. Base' = Base
              BY <2>1, <3>1 DEF Base, Target
          <3>3. /\ tips[imp.original] = before[1][imp.original]
                /\ imp.target # "none" => tips[imp.target] \in {before[1][imp.target], Base}
              BY <2>1, <2>3, <3>1 DEF BaseInv, Retriable
          <3> QED
              BY <2>1, <2>4, <3>1, <3>2, <3>3 DEF BaseInv
      <2>6. CASE imp.target = head
          <3>1. imp'.pc = "done" /\ imp'.result \in {"dirty", "config"}
              BY <2>1, <2>6
          <3>2. ~Early' /\ ~Retriable'
              BY <3>1 DEF Early, Retriable
          <3> QED
              BY <2>1, <2>4, <3>1, <3>2 DEF BaseInv
      <2> QED
          BY <2>5, <2>6
  <1> QED
      BY <1>1, <1>2

\* What the others do either moves no branch or counts as a disturbance.
LEMMA OtherBase ==
  ASSUME BaseInv, OtherStep
  PROVE  BaseInv'
  <1>1. CASE UNCHANGED <<tips, ws, others, met>>
      <2>1. UNCHANGED <<imp, head, before>>
          BY OtherIs
      <2> QED
          BY <1>1, <2>1 DEF BaseInv, Undisturbed, Early, Retriable, Succeeded, Base, Target
  <1>2. CASE "saved" \in met'
      BY <1>2, RestsBase
  <1> QED
      BY <1>1, <1>2, OtherIs

\* Every step of an undisturbed import keeps its base.
LEMMA BaseStep == Core /\ BaseInv /\ [Next]_vars => BaseInv'
  <1> SUFFICES ASSUME Core, BaseInv, [Next]_vars PROVE BaseInv'
      OBVIOUS
  <1>1. CASE UNCHANGED vars
      BY <1>1 DEF BaseInv, Undisturbed, Early, Retriable, Succeeded, Base, Target, vars
  <1>2. CASE ImportStep
      BY <1>2, CreateBase, CourseBase, CommitBase, RestoreBase, RemoveBase, ReturnBase DEF ImportStep
  <1>3. CASE OtherStep
      BY <1>3, OtherBase
  <1>4. CASE Kill
      BY <1>4, KillIs, RestsBase DEF Core
  <1> QED
      BY <1>1, <1>2, <1>3, <1>4, StartBase DEF Next, OtherStep

-----------------------------------------------------------------------------
(* What the batches put, and what is committed of them.                     *)

Whole(s) == [nodes |-> PutAll(Base.graph.nodes, s),
             edges |-> Base.graph.edges \cup (Range(s) \cap EdgePuts)]

\* The workspace is the base with the part of the source that was read put into it.
InBatches(pre) ==
  /\ imp.source = pre \o imp.rest
  /\ (pre = <<>> /\ ws = Base.graph) \/ ws = Whole(pre)
  /\ Exact(tracker, ws.nodes)
  /\ ~Breached(Labels, ws.nodes, PutKeys(pre))

WholeInv ==
  Undisturbed =>
    /\ imp.pc \in {"create", "checkout", "seed"} => imp.rest = imp.source
    /\ imp.pc = "seed" => ws = Base.graph
    /\ imp.pc = "batch" => \E pre \in Seq(Puts) : InBatches(pre)
    /\ imp.pc = "commit" => ws = Whole(imp.source) /\ ~Breached(Labels, ws.nodes, Imported)
    /\ imp.pc = "reset" /\ imp.result = "constraints" => Breached(Labels, Staged.nodes, Imported)
    /\ imp.pc \in {"restore", "done"} /\ imp.result = "committed" =>
         /\ tips[Target].graph = Whole(imp.source)
         /\ \E c \in tips[Target].commits : tips[Target].commits \ Base.commits = {c}
         /\ ~Breached(Labels, tips[Target].graph.nodes, Imported)

\* Staging a batch puts the source that far.
LEMMA WholeAppend ==
  ASSUME imp \in Runs, imp.rest # <<>>, NEW pre \in Seq(Puts),
         (pre = <<>> /\ ws = Base.graph) \/ ws = Whole(pre)
  PROVE  Staged = Whole(pre \o Batch)
  <1>1. Batch \in Seq(Puts)
      BY BatchIs
  <1>2. CASE pre = <<>> /\ ws = Base.graph
      <2>1. pre \o Batch = Batch
          BY <1>1, <1>2
      <2> QED
          BY <1>2, <2>1 DEF Staged, Whole
  <1>3. CASE ws = Whole(pre)
      <2>1. ws.nodes = PutAll(Base.graph.nodes, pre) /\ ws.edges = Base.graph.edges \cup (Range(pre) \cap EdgePuts)
          BY <1>3 DEF Whole
      <2>2. PutAll(ws.nodes, Batch) = PutAll(Base.graph.nodes, pre \o Batch)
          BY <1>1, <2>1, PutAllConcat
      <2>3. Range(pre \o Batch) = Range(pre) \cup Range(Batch)
          BY <1>1, JoinedRange
      <2>4. ws.edges \cup (Range(Batch) \cap EdgePuts) = Base.graph.edges \cup (Range(pre \o Batch) \cap EdgePuts)
          BY <2>1, <2>3
      <2> QED
          BY <2>2, <2>4, ZenonT(20) DEF Staged, Whole
  <1> QED
      BY <1>2, <1>3

\* Nothing to show of an import that rests or was disturbed.
LEMMA RestsWhole ==
  ASSUME imp' \in Rests \/ "saved" \in met'
  PROVE  WholeInv'
  BY TwoShapes DEF WholeInv, Undisturbed

\* A graph the import is based on stays what it is.
LEMMA SameWhole ==
  ASSUME Same, before' = before
  PROVE  Base' = Base /\ Target' = Target /\ Imported' = Imported /\ \A s : Whole(s)' = Whole(s)
  <1>1. Base' = Base /\ Target' = Target
      BY SameBase
  <1> QED
      BY <1>1 DEF Same, Imported, Whole

\* A new import has the whole source to read and its base in the workspace.
LEMMA StartWhole ==
  ASSUME Core, Start
  PROVE  WholeInv'
  <1>1. /\ imp' \in Runs /\ imp'.original = head /\ imp'.rest = imp'.source
        /\ before' = <<tips, head, ws>> /\ UNCHANGED <<tips, head, ws>>
        /\ \/ imp'.pc = "done" /\ imp'.result \in {"dirty", "config"}
           \/ ~Dirty /\ imp'.target = "none" /\ imp'.pc = "seed"
           \/ imp'.pc = "create"
      BY StartIs DEF Core
  <1>2. imp'.pc = "seed" => ws' = (Base.graph)'
      BY <1>1 DEF Dirty, Base, Target
  <1> QED
      BY <1>1, <1>2 DEF WholeInv

\* So has one begun again.
LEMMA ReturnWhole ==
  ASSUME Core, BaseInv, Return
  PROVE  WholeInv'
  <1>1. CASE imp' \in Rests
      BY <1>1, RestsWhole
  <1>2. CASE imp' \notin Rests
      <2>1. /\ imp \in Runs /\ imp.pc = "done" /\ imp.result = "locked" /\ imp' \in Runs
            /\ imp'.target = imp.target /\ imp'.original = head /\ imp'.rest = imp'.source
            /\ UNCHANGED <<tips, head, ws, before, met>>
            /\ \/ imp'.pc = "done" /\ imp'.result \in {"dirty", "config"}
               \/ ~Dirty /\ imp.target = "none" /\ imp'.pc = "seed"
               \/ imp'.pc = "create"
          BY <1>2, ReturnIs, ZenonT(20) DEF Core
      <2>2. SUFFICES ASSUME Undisturbed PROVE WholeInv'
          BY <2>1 DEF WholeInv, Undisturbed
      <2>3. imp'.pc = "seed" => ws' = (Base.graph)'
          <3>1. SUFFICES ASSUME imp'.pc = "seed" PROVE ws' = (Base.graph)'
              OBVIOUS
          <3>2. ~Dirty /\ imp.target = "none" /\ head = imp.original
              BY <2>1, <3>1 DEF Core, Placed
          <3>3. tips[imp.original] = before[1][imp.original]
              BY <2>1, <2>2, <3>2 DEF BaseInv, Retriable
          <3>4. Base' = before[1][imp.original]
              BY <2>1, <3>2 DEF Base, Target
          <3> QED
              BY <2>1, <3>2, <3>3, <3>4 DEF Dirty
      <2> QED
          BY <2>1, <2>3 DEF WholeInv
  <1> QED
      BY <1>1, <1>2

\* Checking the target out brings its base into the workspace.
LEMMA BranchWhole ==
  ASSUME Core, BaseInv, WholeInv, CreateBranch \/ SwitchBranch
  PROVE  WholeInv'
  <1>1. CASE CreateBranch
      BY <1>1, CreateIs DEF Core, WholeInv, Undisturbed, Same
  <1>2. CASE SwitchBranch
      <2>1. imp \in Runs /\ imp.pc = "checkout"
          BY <1>2, TwoShapes DEF Core, Types, SwitchBranch
      <2>2. imp.target \in Branches /\ imp.target # "none" /\ tips[imp.target] # None
          BY <2>1, RunFields DEF Core, Placed
      <2>3. /\ imp' \in Runs /\ Same /\ imp'.rest = imp.rest /\ UNCHANGED <<tips, before>>
            /\ "saved" \notin met' => "saved" \notin met
            /\ \/ imp'.pc = "seed" /\ ws' = tips[imp.target].graph
               \/ imp'.pc = "done" /\ imp'.result \in {"locked", "dirty"}
          BY <1>2, <2>2, SwitchIs DEF Core
      <2>4. SUFFICES ASSUME Undisturbed PROVE WholeInv'
          BY <2>1, <2>3 DEF WholeInv, Undisturbed
      <2>5. tips[imp.target] = Base
          <3>1. tips[imp.target] \in {before[1][imp.target], Base}
              BY <2>1, <2>2, <2>4 DEF BaseInv, Early
          <3> QED
              BY <2>2, <3>1 DEF Base, Target
      <2>6. imp'.rest = imp'.source
          BY <2>1, <2>3, <2>4 DEF WholeInv, Same
      <2>7. Base' = Base
          BY <2>3, SameBase
      <2> QED
          BY <2>3, <2>5, <2>6, <2>7 DEF WholeInv
  <1> QED
      BY <1>1, <1>2

\* Seeding makes the tracker exact for the base, with nothing put.
LEMMA SeedWhole ==
  ASSUME Core, WholeInv, SeedTracker
  PROVE  WholeInv'
  <1>1. /\ imp \in Runs /\ imp.pc = "seed" /\ imp' \in Runs /\ Same
        /\ imp'.pc = "batch" /\ imp'.rest = imp.rest
        /\ tracker' = OfNodes(ws.nodes) /\ UNCHANGED <<ws, before, met>>
      BY SeedIs, ZenonT(20) DEF Core, OfNodes
  <1>2. SUFFICES ASSUME Undisturbed PROVE WholeInv'
      BY <1>1 DEF WholeInv, Undisturbed
  <1>3. imp.rest = imp.source /\ ws = Base.graph /\ imp.source \in Seq(Puts)
      BY <1>1, <1>2, RunFields DEF WholeInv
  <1>4. <<>> \in Seq(Puts) /\ <<>> \o imp.source = imp.source
      BY <1>3
  <1>5. PutKeys(<<>>) = {}
      <2>1. Range(<<>>) = {}
          BY DEF Range
      <2> QED
          BY <2>1 DEF PutKeys
  <1>6. ~Breached(Labels, ws.nodes, PutKeys(<<>>))
      BY <1>5, BreachedIs
  <1>7. Exact(tracker', ws.nodes)
      BY <1>1, SeedExact
  <1>8. Base' = Base
      BY <1>1, SameBase
  <1>9. InBatches(<<>>)'
      BY <1>1, <1>3, <1>4, <1>6, <1>7, <1>8 DEF InBatches, Same
  <1> QED
      BY <1>1, <1>4, <1>9 DEF WholeInv

\* A saved batch keeps the tracker exact and the puts so far free of
\* breaches; one refused for the constraints holds a breach.
LEMMA SaveWhole ==
  ASSUME Core, WholeInv, SaveBatch
  PROVE  WholeInv'
  <1> DEFINE left == SubSeq(imp.rest, Len(Batch) + 1, Len(imp.rest))
  <1>1. /\ imp \in Runs /\ imp.pc = "batch" /\ imp.rest # <<>> /\ imp' \in Runs /\ Same
        /\ before' = before /\ ("saved" \notin met' => "saved" \notin met)
        /\ \/ /\ imp'.pc = "batch" /\ imp'.rest = left
              /\ ws' = Staged /\ tracker' = Applied /\ ~Violates(Applied)
           \/ /\ imp'.pc = "reset" /\ imp'.rest = imp.rest /\ ws' = ws
              /\ imp'.result = "constraints" => Violates(Applied)
      BY SaveIs DEF Core
  <1>2. SUFFICES ASSUME Undisturbed PROVE WholeInv'
      BY <1>1 DEF WholeInv, Undisturbed
  <1>3. PICK pre \in Seq(Puts) : InBatches(pre)
      BY <1>1, <1>2 DEF WholeInv
  <1>4. Batch \in Seq(Puts) /\ left \in Seq(Puts) /\ imp.rest = Batch \o left
      BY <1>1, BatchIs
  <1> HIDE DEF left
  <1>5. imp.source = (pre \o Batch) \o left /\ pre \o Batch \in Seq(Puts)
      <2>1. imp.source = pre \o (Batch \o left)
          BY <1>3, <1>4 DEF InBatches
      <2>2. (pre \o Batch) \o left = pre \o (Batch \o left)
          <3> DEFINE all == Seq(Puts)
          <3>1. \A a, b, c \in all : (a \o b) \o c = a \o (b \o c)
              OBVIOUS
          <3>2. pre \in all /\ Batch \in all /\ left \in all
              BY <1>4
          <3> HIDE DEF all
          <3> QED
              BY <3>1, <3>2, ZenonT(20)
      <2>3. pre \o Batch \in Seq(Puts)
          BY <1>4
      <2> QED
          BY <2>1, <2>2, <2>3
  <1>6. PutKeys(Batch) \subseteq Imported
      <2>1. PutKeys(imp.source) = (PutKeys(pre) \cup PutKeys(Batch)) \cup PutKeys(left)
          BY <1>4, <1>5, PutKeysConcat, ZenonT(20)
      <2> QED
          BY <2>1 DEF Imported
  <1>7. /\ Exact(Applied, Staged.nodes)
        /\ Violates(Applied) => Breached(Labels, Staged.nodes, Imported)
        /\ ~Violates(Applied) => ~Breached(Labels, Staged.nodes, PutKeys(pre \o Batch))
      BY <1>1, <1>3, <1>6, BatchDecides DEF InBatches
  <1>8. Base' = Base /\ Imported' = Imported /\ \A s : Whole(s)' = Whole(s)
      BY <1>1, SameWhole
  <1>9. CASE /\ imp'.pc = "batch" /\ imp'.rest = left
             /\ ws' = Staged /\ tracker' = Applied /\ ~Violates(Applied)
      <2>0. PICK now \in Seq(Puts) : now = pre \o Batch
          BY <1>5, ZenonT(20)
      <2>1. ws' = Whole(now)
          BY <1>1, <1>3, <1>9, <2>0, WholeAppend DEF InBatches
      <2>2. Exact(tracker', ws'.nodes) /\ ~Breached(Labels, ws'.nodes, PutKeys(now))
          BY <1>7, <1>9, <2>0
      <2>3. imp'.source = now \o imp'.rest
          BY <1>1, <1>5, <1>9, <2>0 DEF Same
      <2>4. InBatches(now)'
          <3>1. ws' = Whole(now)'
              BY <1>8, <2>1
          <3> QED
              BY <2>2, <2>3, <3>1 DEF InBatches
      <2> QED
          BY <1>9, <2>3, <2>4 DEF WholeInv
  <1>10. CASE /\ imp'.pc = "reset" /\ imp'.rest = imp.rest /\ ws' = ws
              /\ imp'.result = "constraints" => Violates(Applied)
      <2>1. Staged' = Staged
          BY <1>1, <1>10 DEF Staged, Batch, Same
      <2>2. imp'.result = "constraints" => Breached(Labels, Staged.nodes, Imported)
          BY <1>7, <1>10
      <2> QED
          BY <1>8, <1>10, <2>1, <2>2 DEF WholeInv
  <1> QED
      BY <1>1, <1>9, <1>10

\* After the last batch the workspace is the whole source put into the base.
LEMMA FinishWhole ==
  ASSUME Core, BaseInv, WholeInv, FinishBatches
  PROVE  WholeInv'
  <1>1. /\ imp \in Runs /\ imp.pc = "batch" /\ imp.rest = <<>> /\ imp' \in Runs /\ Same
        /\ \/ Dirty /\ imp'.pc = "commit"
           \/ imp'.pc = "restore" /\ imp'.result = "nochange"
        /\ UNCHANGED <<ws, before, met>>
      BY FinishIs DEF Core
  <1>2. SUFFICES ASSUME Undisturbed, Dirty, imp'.pc = "commit" PROVE WholeInv'
      BY <1>1 DEF WholeInv, Undisturbed
  <1>3. PICK pre \in Seq(Puts) : InBatches(pre)
      BY <1>1, <1>2 DEF WholeInv
  <1>4. imp.source = pre
      BY <1>1, <1>3 DEF InBatches
  <1>5. ws # Base.graph
      BY <1>1, <1>2, AtBase DEF Dirty
  <1>6. ws = Whole(imp.source) /\ ~Breached(Labels, ws.nodes, Imported)
      BY <1>3, <1>4, <1>5 DEF InBatches, Imported
  <1>7. imp'.source = imp.source /\ Imported' = Imported /\ \A s : Whole(s)' = Whole(s)
      BY <1>1, SameWhole DEF Same
  <1> QED
      BY <1>1, <1>2, <1>6, <1>7 DEF WholeInv

\* The commit holds the whole source, in one commit more than the base.
LEMMA CommitWhole ==
  ASSUME Core, BaseInv, WholeInv, CommitImport
  PROVE  WholeInv'
  <1>1. /\ imp \in Runs /\ imp.pc = "commit" /\ imp' \in Runs /\ Same /\ imp'.pc = "restore"
        /\ UNCHANGED <<head, ws, others, before>> /\ ("saved" \notin met' => "saved" \notin met)
        /\ imp'.result = "committed" => tips' = [tips EXCEPT ![head] = NewCommit(ws)]
      BY CommitIs DEF Core
  <1>2. SUFFICES ASSUME Undisturbed, imp'.result = "committed" PROVE WholeInv'
      BY <1>1 DEF WholeInv, Undisturbed
  <1>3. head = Target /\ tips[Target] = Base
      BY <1>1, <1>2, AtBase
  <1>4. PICK c : c \notin Commits /\ tips'[head] = [graph |-> ws, commits |-> tips[head].commits \cup {c}]
      BY <1>1, <1>2, CommitNumbers DEF Core
  <1>5. c \notin tips[head].commits
      BY <1>4, CommitsAre DEF Core, Types
  <1>6. tips'[Target].commits \ Base.commits = {c} /\ tips'[Target].graph = ws
      <2>1. tips'[Target] = [graph |-> ws, commits |-> Base.commits \cup {c}] /\ c \notin Base.commits
          BY <1>3, <1>4, <1>5
      <2>2. tips'[Target].graph = ws /\ tips'[Target].commits = Base.commits \cup {c}
          BY <2>1
      <2>3. (Base.commits \cup {c}) \ Base.commits = {c}
          BY <2>1
      <2> QED
          BY <2>2, <2>3
  <1>7. \E d \in tips'[Target].commits : tips'[Target].commits \ Base.commits = {d}
      BY <1>6
  <1>8. ws = Whole(imp.source) /\ ~Breached(Labels, ws.nodes, Imported)
      BY <1>1, <1>2 DEF WholeInv
  <1>9. /\ imp'.source = imp.source /\ Imported' = Imported /\ Target' = Target /\ Base' = Base
        /\ \A s : Whole(s)' = Whole(s)
      BY <1>1, SameWhole DEF Same
  <1> QED
      BY <1>1, <1>2, <1>6, <1>7, <1>8, <1>9 DEF WholeInv

\* Leaving the branch, or removing it, changes nothing that was committed.
LEMMA LeaveWhole ==
  ASSUME Core, WholeInv, ResetWorkspace \/ RestoreBranch \/ RemoveBranch
  PROVE  WholeInv'
  <1>1. CASE ResetWorkspace
      <2>1. imp \in Runs /\ imp.pc = "reset" /\ imp'.pc = "restore" /\ imp'.result = imp.result
          BY <1>1, ResetIs DEF Core
      <2>2. imp.result # "committed"
          BY <2>1 DEF Core, Placed
      <2> QED
          BY <2>1, <2>2 DEF WholeInv
  <1>2. CASE RemoveBranch
      <2>1. imp \in Runs /\ imp.pc = "cleanup" /\ imp'.pc = "done" /\ imp'.result = imp.result
          BY <1>2, RemoveIs DEF Core
      <2>2. imp.result # "committed"
          BY <2>1 DEF Core, Placed, Succeeded
      <2> QED
          BY <2>1, <2>2 DEF WholeInv
  <1>3. CASE RestoreBranch
      <2>1. /\ imp \in Runs /\ imp.pc = "restore" /\ Same /\ imp'.pc \in {"cleanup", "done"}
            /\ imp'.result = "committed" => imp.result = "committed"
            /\ UNCHANGED <<tips, before>> /\ ("saved" \notin met' => "saved" \notin met)
          BY <1>3, RestoreIs DEF Core, Succeeded
      <2>2. /\ imp'.source = imp.source /\ Imported' = Imported /\ Target' = Target /\ Base' = Base
            /\ \A s : Whole(s)' = Whole(s)
          BY <2>1, SameWhole DEF Same
      <2> QED
          BY <2>1, <2>2 DEF WholeInv, Undisturbed
  <1> QED
      BY <1>1, <1>2, <1>3

\* A step that changes none of these keeps them.
LEMMA StillWhole ==
  ASSUME WholeInv, UNCHANGED <<imp, tips, ws, tracker, before, met>>
  PROVE  WholeInv'
  <1>1. /\ Base' = Base /\ Target' = Target /\ Imported' = Imported /\ Staged' = Staged
        /\ \A s : Whole(s)' = Whole(s)
      BY SameWhole DEF Same, Staged, Batch
  <1>2. ASSUME NEW pre \in Seq(Puts), InBatches(pre) PROVE InBatches(pre)'
      BY <1>1, <1>2 DEF InBatches
  <1> QED
      BY <1>1, <1>2 DEF WholeInv, Undisturbed

\* What the others do either changes nothing here or counts as a disturbance.
LEMMA OtherWhole ==
  ASSUME WholeInv, OtherStep
  PROVE  WholeInv'
  <1>1. CASE UNCHANGED <<tips, ws, others, met>>
      BY <1>1, OtherIs, StillWhole
  <1>2. CASE "saved" \in met'
      BY <1>2, RestsWhole
  <1> QED
      BY <1>1, <1>2, OtherIs

\* Every step of an undisturbed import keeps the source whole.
LEMMA WholeStep == Core /\ BaseInv /\ WholeInv /\ [Next]_vars => WholeInv'
  <1> SUFFICES ASSUME Core, BaseInv, WholeInv, [Next]_vars PROVE WholeInv'
      OBVIOUS
  <1>1. CASE UNCHANGED vars
      BY <1>1, StillWhole DEF vars
  <1>2. CASE ImportStep
      BY <1>2, BranchWhole, SeedWhole, SaveWhole, FinishWhole, CommitWhole, LeaveWhole, ReturnWhole
         DEF ImportStep
  <1>3. CASE OtherStep
      BY <1>3, OtherWhole
  <1>4. CASE Kill
      BY <1>4, KillIs, RestsWhole DEF Core
  <1> QED
      BY <1>1, <1>2, <1>3, <1>4, StartWhole DEF Next, OtherStep

\* The invariants give the import's promise.
LEMMA WholeIsFaithful ==
  ASSUME Core, WholeInv
  PROVE  ImportIsFaithful
  <1>1. imp.pc # "idle" => imp \in Runs
      BY TwoShapes DEF Core, Types
  <1>2. CommitIsWholeSource
      BY <1>1 DEF CommitIsWholeSource, WholeInv, Undisturbed, Whole
  <1>3. TrackerIsExact
      <2> SUFFICES ASSUME imp.pc = "batch", "saved" \notin met
                   PROVE  Triples(tracker) = Triples(OfNodes(ws.nodes))
          BY ZenonT(20) DEF TrackerIsExact, Triples, OfNodes
      <2>1. PICK pre \in Seq(Puts) : InBatches(pre)
          BY <1>1 DEF WholeInv, Undisturbed
      <2> QED
          BY <2>1, ExactTriples DEF InBatches
  <1>4. BatchChecksAreFinalStateChecks
      BY <1>1 DEF BatchChecksAreFinalStateChecks, WholeInv, Undisturbed
  <1> QED
      BY <1>2, <1>3, <1>4 DEF ImportIsFaithful

\* What an import nobody else wrote during commits is one commit over the target's tip, with
\* every record of the source applied in order whatever the batch size; its UNIQUE tracker is
\* exact before every batch, and its batch checks accept and refuse as a check of the final
\* nodes would (stream_batches, apply_batch, UniqueTracker, and the daemon's retry).
THEOREM ImportKeepsItsPromise == Spec => []ImportIsFaithful
  <1>1. Init => BaseInv /\ WholeInv
      BY TwoShapes DEF Init, Idle, BaseInv, WholeInv, Undisturbed, Rests
  <1>2. Core /\ WholeInv => ImportIsFaithful
      BY WholeIsFaithful
  <1> QED
      BY <1>1, <1>2, BaseStep, WholeStep, CoreInvariant, PTL DEF Spec
=============================================================================
