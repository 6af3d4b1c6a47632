------------------------------ MODULE MCStorage ------------------------------
(***************************************************************************)
(* Small maps, batches, ranges and hand-made trees for the prolly-tree     *)
(* operators.  A state holds one call's inputs; the invariants compare     *)
(* what the code computes with a definition over plain functions.  The     *)
(* cases of the encodings, records, checks and of fsck are those of MCData. *)
(***************************************************************************)
EXTENDS ProllyReads, MCData

Tight == [min |-> 4, mask |-> 2, max |-> 6]
Loose == [min |-> 3, mask |-> 3, max |-> 9]
Profiles == {Tight, Loose}

KeyMax == 7
Keys == 1..KeyMax
Values == 1..2
StartValue(k) == 1 + (k % 2)
Pairs(contents) == InKeyOrder(contents)
Tree(p, contents) == BulkLoad(p, Pairs(contents)).root
Maps == {[k \in ks |-> StartValue(k)] : ks \in SUBSET Keys}

Ops == Keys \X (Values \cup {Delete})
Batches == {<<o>> : o \in Ops}
           \cup {<<o, q>> : o \in Ops, q \in {x \in Ops : x[1] \in {4}}}
Bounds == {[t |-> "all", k |-> NoKey]}
          \cup [t : {"in", "ex"}, k : {1, 3, 4, 7}]

Value(contents, k) == IF k \in DOMAIN contents THEN contents[k] ELSE Delete
After(contents, ops) ==
    LET last == LastWins(ops)
        keep == (DOMAIN contents \ DOMAIN last)
                \cup {k \in DOMAIN last : last[k] # Delete}
    IN  [k \in keep |-> IF k \in DOMAIN last THEN last[k] ELSE contents[k]]

RECURSIVE Chunks(_)
Chunks(chunk) ==
    {chunk} \cup (IF Level(chunk) = 0 THEN {}
                  ELSE UNION {Chunks(Content(e)) : e \in {Entries(chunk)[i] : i \in 1..Len(Entries(chunk))}})

\* Trees a store could hand out, of three levels over three keys: every leaf,
\* every claim, shared subtrees included.
Forged1 == {<<>>, <<1>>, <<2>>, <<3>>, <<1, 2>>, <<2, 3>>}
ForgedLeaves == {<<0, [i \in 1..Len(ks) |-> <<ks[i], 1>>]>> : ks \in Forged1}
Over(level, chunks) ==
    {<<level, <<<<k, c>>>>>> : k \in 1..3, c \in chunks}
    \cup {<<level, <<<<k[1], c>>, <<k[2], d>>>>>> :
            k \in {<<1, 2>>, <<1, 3>>, <<2, 3>>}, c \in chunks, d \in chunks}
ForgedInner == Over(1, ForgedLeaves)

Build == /\ case.op = "start"
         /\ \E p \in Profiles, m \in Maps : case' = [op |-> "tree", params |-> p, map |-> m]
ApplyOne == /\ case.op = "tree"
            /\ \E ops \in Batches :
                  case' = [op |-> "batch", params |-> case.params, map |-> case.map, ops |-> ops]
ReadRange == /\ case.op = "tree"
             /\ \E lo \in Bounds, hi \in Bounds :
                   case' = [op |-> "scan", params |-> case.params, map |-> case.map,
                            lo |-> lo, hi |-> hi]
MergeTwo == /\ case.op = "start"
            /\ \E ks \in SUBSET {1, 2, 5}, a \in Batches, b \in Batches :
                 /\ \A i \in 1..Len(a) : a[i][1] \in {1, 2, 5}
                 /\ \A i \in 1..Len(b) : b[i][1] \in {1, 2, 5}
                 /\ case' = [op |-> "merge", ours |-> a, theirs |-> b,
                             map |-> [k \in ks \cup {3, 4, 6, 7} |-> StartValue(k)]]
LoseChunk == /\ case.op = "tree"
             /\ \E c \in Chunks(Tree(case.params, case.map).hash),
                   o \in {<<1, 2>>, <<4, Delete>>, <<7, 1>>} :
                   case' = [op |-> "lost", params |-> case.params, map |-> case.map,
                            o |-> o, chunk |-> c]
ForgeLeft == /\ case.op = "start"
             /\ \E c \in ForgedInner : case' = [op |-> "left", inner |-> c]
Forge == /\ case.op = "left"
         /\ \E ks \in {<<1, 2>>, <<1, 3>>, <<2, 3>>}, d \in ForgedInner :
               case' = [op |-> "forged",
                        root |-> <<2, <<<<ks[1], case.inner>>, <<ks[2], d>>>>>>]

Next == DataNext \/ FsckNext \/ Build \/ ApplyOne \/ ReadRange \/ MergeTwo \/ LoseChunk \/ ForgeLeft \/ Forge
Spec == Init /\ [][Next]_case

-----------------------------------------------------------------------------
(***************************************************************************)
(* apply_batch, which re-chunks only around the changed keys and attaches  *)
(* every other chunk unread, yields bit for bit the tree bulk_load builds  *)
(* from the resulting contents, whatever the batch and the shape of the    *)
(* old tree (tree.rs, "History independence").                             *)
(***************************************************************************)
HistoryIndependence ==
    case.op = "batch" =>
        LET built == ApplyBatch(Intact, Tree(case.params, case.map), case.ops)
        IN  /\ ~built.err
            /\ built.root = Tree(case.params, After(case.map, case.ops))

(***************************************************************************)
(* Every chunk of the new tree was written by the batch or was already in  *)
(* the old tree, so nothing dangles; and every recorded (new, predecessor) *)
(* pair names a chunk the batch wrote and a chunk of the old tree, so the  *)
(* consolidator never gets a delta base that does not exist.               *)
(***************************************************************************)
SpliceLeavesNothingDangling ==
    case.op = "batch" =>
        LET old == Tree(case.params, case.map)
            built == ApplyBatch(Intact, old, case.ops)
        IN  /\ Chunks(built.root.hash) \subseteq Chunks(old.hash) \cup built.puts
            /\ \A pair \in built.pairs : pair[1] \in built.puts /\ pair[2] \in Chunks(old.hash)

(***************************************************************************)
(* A chunk is never cut before its second entry: only the last chunk of a  *)
(* level may hold one, so each level has at most half the chunks (rounded  *)
(* up) of the one below and every build reaches a root (chunker.rs: the    *)
(* non-convergent fixed point is structurally impossible).                 *)
(***************************************************************************)
FanOutConverges ==
    case.op = "batch" =>
        LET root == Tree(case.params, case.map)
            n == Cardinality(DOMAIN case.map)
            at(level) == {c \in Chunks(root.hash) : Level(c) = level}
        IN  /\ n > 0 => 2 * Cardinality(at(0)) <= n + 1
            /\ \A l \in 1..TopLevel(root) :
                  2 * Cardinality(at(l)) <= Cardinality(at(l - 1)) + 1

(***************************************************************************)
(* diff streams exactly the changed keys, ascending, with both values,     *)
(* between trees of any heights and even of different chunk parameters,    *)
(* although it skips every subtree the two share.                          *)
(***************************************************************************)
DiffIsExact ==
    case.op = "batch" =>
        LET to == After(case.map, case.ops)
            changed == {k \in Keys : Value(case.map, k) # Value(to, k)}
            expected == SelectSeq([k \in Keys |-> <<k, Value(case.map, k), Value(to, k)>>],
                                  LAMBDA d : d[1] \in changed)
        IN  \A q \in Profiles :
               Diff(Intact, Tree(case.params, case.map), Tree(q, to))
                    = Stream(expected, FALSE)

(***************************************************************************)
(* Forward and reverse scans yield exactly the entries inside the bounds,  *)
(* in opposite orders, also when the seek lands between two chunks, before *)
(* the first or after the last key, or in an empty or inverted range; and  *)
(* a lookup agrees with the map for every key.                             *)
(***************************************************************************)
ScansAreExact ==
    case.op = "scan" =>
        LET root == Tree(case.params, case.map)
            inside(e) == WithinExit(case.hi, "forward", Key(e))
                         /\ WithinExit(case.lo, "reverse", Key(e))
            expected == SelectSeq(Pairs(case.map), inside)
        IN  /\ Scan(Intact, root, case.lo, case.hi) = Stream(expected, FALSE)
            /\ ScanRev(Intact, root, case.lo, case.hi) = Stream(Reverse(expected), FALSE)
            /\ \A k \in Keys : Get(Intact, root, k) = Value(case.map, k)

(***************************************************************************)
(* merge is the per-key three-way merge: a change of one side is taken, an *)
(* identical change is taken once, divergent changes leave the key out of  *)
(* the merged tree and in the conflict stream; and swapping the sides      *)
(* swaps only the conflict's columns.                                      *)
(***************************************************************************)
ThreeWay(out, base, ours, theirs) ==
    LET v(m, k) == Value(m, k)
        clash == {k \in Keys : /\ v(ours, k) # v(base, k) /\ v(theirs, k) # v(base, k)
                               /\ v(ours, k) # v(theirs, k)}
        pick(k) == IF v(ours, k) # v(base, k) THEN v(ours, k) ELSE v(theirs, k)
        merged == [k \in {x \in Keys \ clash : pick(x) # Delete} |-> pick(k)]
    IN  /\ ~out.err
        /\ out.root = Tree(Tight, merged)
        /\ out.conflicts = SelectSeq([k \in Keys |-> <<k, v(base, k), v(ours, k), v(theirs, k)>>],
                                     LAMBDA c : c[1] \in clash)
Swapped(out, swapped) ==
    /\ swapped.root = out.root
    /\ swapped.conflicts = [i \in 1..Len(out.conflicts) |->
                              <<out.conflicts[i][1], out.conflicts[i][2],
                                out.conflicts[i][4], out.conflicts[i][3]>>]
MergeIsThreeWay ==
    case.op = "merge" =>
        LET merge(base, ours, theirs) == Merge(Intact, Tree(Tight, base), Tree(Tight, ours), Tree(Tight, theirs))
            judge(base, ours, theirs) ==
                \A out \in {merge(base, ours, theirs)} :
                    /\ ThreeWay(out, base, ours, theirs)
                    /\ Swapped(out, merge(base, theirs, ours))
        IN  judge(case.map, After(case.map, case.ours), After(case.map, case.theirs))

(***************************************************************************)
(* The anchor walk returns every chunk of a root, leaves included, even    *)
(* when one accumulator already holds another version's chunks and prunes  *)
(* the shared subtrees: what git gc may not prune is complete.             *)
(***************************************************************************)
AnchorsAreComplete ==
    case.op = "batch" =>
        LET old == Tree(case.params, case.map)
            new == Tree(case.params, After(case.map, case.ops))
            first == CollectReachable(Intact, old, {})
        IN  CollectReachable(Intact, new, first.out)
              = Collected(Chunks(old.hash) \cup Chunks(new.hash), FALSE)

(***************************************************************************)
(* The entry estimate reads at most LevelSamples nodes per level, is zero  *)
(* only for the empty map, and is exact when every node of every level was *)
(* sampled: a planner may divide its budget by it.                         *)
(***************************************************************************)
EstimateIsBounded ==
    case.op = "scan" =>
        LET n == Cardinality(DOMAIN case.map)
            judge(root, e) ==
                /\ ~e.err
                /\ e.reads <= LevelSamples * root.height
                /\ (e.num = 0) <=> (n = 0)
                /\ e.reads = Cardinality(Chunks(root.hash)) => e.num = n * e.den
        IN  \A root \in {Tree(case.params, case.map)} : judge(root, EstimateEntries(Intact, root))

(***************************************************************************)
(* With one chunk lost no operation returns a wrong answer: a lookup fails *)
(* or is right, a scan yields a correct prefix and then an error, a batch  *)
(* fails or builds the right tree without reading the lost chunk, and the  *)
(* integrity walk reports the lost chunk.                                  *)
(***************************************************************************)
LossNeverMisleads ==
    case.op = "lost" =>
        LET store == [Intact EXCEPT !.missing = {case.chunk}]
            root == Tree(case.params, case.map)
            all == [t |-> "all", k |-> NoKey]
            s == Scan(store, root, all, all)
            built == ApplyBatch(store, root, <<case.o>>)
        IN  /\ \A k \in Keys : Get(store, root, k) \in {Failed, Value(case.map, k)}
            /\ IsPrefix(s.items, Pairs(case.map)) /\ s.err
            /\ \/ built.err
               \/ built.root = Tree(case.params, After(case.map, <<case.o>>))
            /\ VerifyReachable(store, root) = {<<case.chunk, "missing">>}

(***************************************************************************)
(* A tree the integrity walk finds clean reads back consistently: the full *)
(* scan does not fail, and agrees with the lookup of every key; this holds *)
(* for trees with shared or misplaced subtrees, although the walk expands  *)
(* each inner node once (verify.rs argues that a misplaced shared subtree  *)
(* cannot go undetected).  A tree that is not clean never yields keys out  *)
(* of order.                                                               *)
(***************************************************************************)
VerifiedTreesReadBack ==
    case.op = "forged" =>
        LET root == Root(case.root, Tight)
            all == [t |-> "all", k |-> NoKey]
            s == Scan(Intact, root, all, all)
        IN  /\ Ascending(s.items)
            /\ VerifyReachable(Intact, root) = {} =>
                 /\ ~s.err
                 /\ \A k \in 1..3 :
                      Get(Intact, root, k) = (IF \E i \in 1..Len(s.items) : Key(s.items[i]) = k
                                              THEN 1 ELSE Delete)

---------------------------------------------------------------------------
(* A map has one tree, however it was reached: a spliced batch is the bulk   *)
(* load of its result, leaves no chunk unwritten, and levels converge.       *)
TreesAreCanonical == HistoryIndependence /\ SpliceLeavesNothingDangling /\ FanOutConverges

(* Scans, diffs, merges, estimates and anchor walks of trees agree with the  *)
(* plain maps the trees stand for.                                           *)
TreeReadsAreExact ==
  ScansAreExact /\ DiffIsExact /\ MergeIsThreeWay /\ EstimateIsBounded /\ AnchorsAreComplete

(* A lost chunk or a misplaced subtree is an error, never a wrong answer.    *)
DamageNeverMisleads == LossNeverMisleads /\ VerifiedTreesReadBack
=============================================================================
