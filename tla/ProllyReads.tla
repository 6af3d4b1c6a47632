----------------------------- MODULE ProllyReads -----------------------------
(***************************************************************************)
(* The ordered operations on prolly trees: range scans in both directions, *)
(* structural diff, three-way merge, chunk-set enumeration, entry          *)
(* estimation and the integrity walk (scan.rs, diff.rs, merge.rs, walk.rs, *)
(* verify.rs).  A stream is modelled as the sequence it yields with the    *)
(* flag `err` for a final error item.                                      *)
(***************************************************************************)
EXTENDS Prolly

CONSTANT LevelSamples \* LEVEL_SAMPLES

Stream(items, err) == [items |-> items, err |-> err]

(***************************************************************************)
(* Scans.  A bound is [t, k] with t in {"in", "ex", "all"}.                *)
(***************************************************************************)
\* partition_point: how many refs or entries lie before the entry side.
Below(seq, k) == Len(SelectSeq(seq, LAMBDA e : Key(e) < k))
UpTo(seq, k) == Len(SelectSeq(seq, LAMBDA e : Key(e) <= k))

SplitRefs(refs, bound, dir) ==
    CASE bound.t = "all" -> IF dir = "forward" THEN 0 ELSE Len(refs) - 1
      [] bound.t = "in"  -> Below(refs, bound.k)
      [] bound.t = "ex"  -> IF dir = "forward" THEN UpTo(refs, bound.k) ELSE Below(refs, bound.k)

StartInLeaf(entries, bound, dir) ==
    CASE bound.t = "all" -> IF dir = "forward" THEN 0 ELSE Len(entries)
      [] bound.t = "in"  -> IF dir = "forward" THEN Below(entries, bound.k)
                                               ELSE UpTo(entries, bound.k)
      [] bound.t = "ex"  -> IF dir = "forward" THEN UpTo(entries, bound.k)
                                               ELSE Below(entries, bound.k)

\* A position: the frames above the leaf (0-based child index), the leaf and
\* the place in it; done ends the scan, err ends it with an error item.
At(stack, leaf, pos) == [stack |-> stack, leaf |-> leaf, pos |-> pos,
                         done |-> FALSE, err |-> FALSE]
Ended(err) == [stack |-> <<>>, leaf |-> <<>>, pos |-> 0, done |-> TRUE, err |-> err]

RECURSIVE SeekFrom(_, _, _, _, _, _, _)
SeekFrom(store, chunk, level, last, stack, bound, dir) ==
    IF ~Readable(store, chunk, level, last, NoKey) THEN Ended(TRUE)
    ELSE IF level = 0
    THEN At(stack, Entries(chunk), StartInLeaf(Entries(chunk), bound, dir))
    ELSE LET refs == Entries(chunk)
             split == SplitRefs(refs, bound, dir)
             idx == IF dir = "forward" \/ split < Len(refs) THEN split ELSE Len(refs) - 1
         IN  IF idx = Len(refs) THEN Ended(FALSE)
             ELSE SeekFrom(store, Content(refs[idx + 1]), level - 1, Key(refs[idx + 1]),
                           Append(stack, [refs |-> refs, idx |-> idx, child |-> level - 1]),
                           bound, dir)

\* Drop the exhausted frames and step the innermost one that is not.
CanStep(frame, dir) == IF dir = "forward" THEN frame.idx + 1 < Len(frame.refs) ELSE frame.idx > 0
RECURSIVE Stepped(_, _)
Stepped(stack, dir) ==
    IF stack = <<>> THEN <<>>
    ELSE IF CanStep(Last(stack), dir)
    THEN Append(Front(stack),
                [Last(stack) EXCEPT !.idx = IF dir = "forward" THEN @ + 1 ELSE @ - 1])
    ELSE Stepped(Front(stack), dir)

\* Descend to a leaf on this direction's near side.
RECURSIVE NearLeaf(_, _, _, _, _, _)
NearLeaf(store, chunk, level, last, stack, dir) ==
    IF ~Readable(store, chunk, level, last, NoKey) THEN Ended(TRUE)
    ELSE LET refs == Entries(chunk)
             idx == IF dir = "forward" THEN 0 ELSE Len(refs) - 1
         IN  IF level = 0 THEN At(stack, refs, IF dir = "forward" THEN 0 ELSE Len(refs))
             ELSE NearLeaf(store, Content(refs[idx + 1]), level - 1, Key(refs[idx + 1]),
                           Append(stack, [refs |-> refs, idx |-> idx, child |-> level - 1]), dir)

AdvanceLeaf(store, s, dir) ==
    LET stack == Stepped(s.stack, dir)
        frame == Last(stack)
        ref == frame.refs[frame.idx + 1]
    IN  IF stack = <<>> THEN Ended(FALSE)
        ELSE NearLeaf(store, Content(ref), frame.child, Key(ref), stack, dir)

WithinExit(exit, dir, key) ==
    CASE exit.t = "all" -> TRUE
      [] exit.t = "in"  -> IF dir = "forward" THEN key <= exit.k ELSE key >= exit.k
      [] exit.t = "ex"  -> IF dir = "forward" THEN key < exit.k ELSE key > exit.k

Monotonic(prev, dir, key) ==
    prev = NoKey \/ (IF dir = "forward" THEN key > prev ELSE key < prev)

RECURSIVE Drain(_, _, _, _, _, _)
Drain(store, s, exit, dir, prev, out) ==
    LET inLeaf == IF dir = "forward" THEN s.pos < Len(s.leaf) ELSE s.pos > 0
        entry == s.leaf[IF dir = "forward" THEN s.pos + 1 ELSE s.pos]
    IN  IF s.done THEN Stream(out, s.err)
        ELSE IF ~inLeaf THEN Drain(store, AdvanceLeaf(store, s, dir), exit, dir, prev, out)
        ELSE IF ~WithinExit(exit, dir, Key(entry)) THEN Stream(out, FALSE)
        ELSE IF ~Monotonic(prev, dir, Key(entry)) THEN Stream(out, TRUE)
        ELSE Drain(store, [s EXCEPT !.pos = IF dir = "forward" THEN @ + 1 ELSE @ - 1],
                   exit, dir, Key(entry), Append(out, entry))

Scan(store, root, start, end) ==
    Drain(store, SeekFrom(store, root.hash, TopLevel(root), NoKey, <<>>, start, "forward"),
          end, "forward", NoKey, <<>>)
ScanRev(store, root, start, end) ==
    Drain(store, SeekFrom(store, root.hash, TopLevel(root), NoKey, <<>>, end, "reverse"),
          start, "reverse", NoKey, <<>>)

(***************************************************************************)
(* Structural diff.  A difference is <<key, before, after>>; an absent     *)
(* value is Delete.  A region pairs two key-aligned runs of refs.          *)
(***************************************************************************)
Region(level, a, b, pseudo) == [level |-> level, a |-> a, b |-> b, pseudo |-> pseudo]

AllReadable(store, refs, level, pseudo) ==
    \A i \in 1..Len(refs) :
        Readable(store, Content(refs[i]), level, IF pseudo THEN NoKey ELSE Key(refs[i]), NoKey)
Expanded(refs) == FlattenSeq([i \in 1..Len(refs) |-> Entries(Content(refs[i]))])

\* A mismatched stretch may end where both sides have reached the same key.
SpansBothBegun(ra, rb) == ra # <<>> /\ rb # <<>>
SpansAgree(ra, rb) == ra # <<>> /\ rb # <<>> /\ Key(Last(ra)) = Key(Last(rb))

\* Extend a mismatched stretch until both sides end at the same key.
RECURSIVE Stretch(_, _, _, _)
Stretch(a, b, ra, rb) ==
    LET extendA == ra = <<>> \/ (rb # <<>> /\ Key(Last(ra)) < Key(Last(rb)))
    IN  IF SpansAgree(ra, rb)
        THEN [a |-> a, b |-> b, ra |-> ra, rb |-> rb]
        ELSE IF a # <<>> /\ (extendA \/ b = <<>>)
        THEN Stretch(Tail(a), b, Append(ra, Head(a)), rb)
        ELSE IF b # <<>> THEN Stretch(a, Tail(b), ra, Append(rb, Head(b)))
        ELSE [a |-> a, b |-> b, ra |-> ra, rb |-> rb]

RECURSIVE AlignRegions(_, _, _)
AlignRegions(a, b, level) ==
    IF a = <<>> /\ b = <<>> THEN <<>>
    ELSE IF a # <<>> /\ b # <<>> /\ Content(Head(a)) = Content(Head(b))
    THEN AlignRegions(Tail(a), Tail(b), level)
    ELSE LET s == Stretch(a, b, <<>>, <<>>)
         IN  <<Region(level, s.ra, s.rb, FALSE)>> \o AlignRegions(s.a, s.b, level)

\* Key-merge of a level-0 region; each side's next leaf is read only when its
\* buffer is empty.
RECURSIVE LeafMerge(_, _, _, _, _, _, _)
LeafMerge(store, ra, rb, a, b, pseudo, out) ==
    LET dry(buf, refs) == buf = <<>> /\ refs # <<>>
        readable(refs) == Readable(store, Content(Head(refs)), 0,
                                   IF pseudo THEN NoKey ELSE Key(Head(refs)), NoKey)
        onlyA == a # <<>> /\ (b = <<>> \/ Key(Head(a)) < Key(Head(b)))
        onlyB == b # <<>> /\ (a = <<>> \/ Key(Head(b)) < Key(Head(a)))
    IN  CASE dry(a, ra) ->
               IF ~readable(ra) THEN Stream(out, TRUE)
               ELSE LeafMerge(store, Tail(ra), rb, Entries(Content(Head(ra))), b, pseudo, out)
          [] ~dry(a, ra) /\ dry(b, rb) ->
               IF ~readable(rb) THEN Stream(out, TRUE)
               ELSE LeafMerge(store, ra, Tail(rb), a, Entries(Content(Head(rb))), pseudo, out)
          [] ~dry(a, ra) /\ ~dry(b, rb) /\ a = <<>> /\ b = <<>> -> Stream(out, FALSE)
          [] ~dry(a, ra) /\ ~dry(b, rb) /\ onlyA ->
               LeafMerge(store, ra, rb, Tail(a), b, pseudo,
                         Append(out, <<Key(Head(a)), Content(Head(a)), Delete>>))
          [] ~dry(a, ra) /\ ~dry(b, rb) /\ onlyB ->
               LeafMerge(store, ra, rb, a, Tail(b), pseudo,
                         Append(out, <<Key(Head(b)), Delete, Content(Head(b))>>))
          [] OTHER ->
               LeafMerge(store, ra, rb, Tail(a), Tail(b), pseudo,
                         IF Content(Head(a)) = Content(Head(b)) THEN out
                         ELSE Append(out, <<Key(Head(a)), Content(Head(a)), Content(Head(b))>>))

RECURSIVE DrainRegions(_, _, _)
DrainRegions(store, regions, out) ==
    IF regions = <<>> THEN Stream(out, FALSE)
    ELSE LET r == Head(regions)
             merged == LeafMerge(store, r.a, r.b, <<>>, <<>>, r.pseudo, out)
         IN  IF r.level = 0
             THEN IF merged.err THEN merged
                  ELSE DrainRegions(store, Tail(regions), merged.items)
             ELSE IF ~(AllReadable(store, r.a, r.level, r.pseudo)
                       /\ AllReadable(store, r.b, r.level, r.pseudo))
             THEN Stream(out, TRUE)
             ELSE DrainRegions(store,
                               AlignRegions(Expanded(r.a), Expanded(r.b), r.level - 1)
                                 \o Tail(regions), out)

\* Expand the taller root until both runs are at the same level.
RECURSIVE Lowered(_, _, _, _)
Lowered(store, refs, level, target) ==
    IF level <= target THEN Stream(refs, FALSE)
    ELSE IF ~AllReadable(store, refs, level, TRUE) THEN Stream(refs, TRUE)
    ELSE Lowered(store, Expanded(refs), level - 1, target)

Diff(store, a, b) ==
    LET la == Lowered(store, <<<<NoKey, a.hash>>>>, TopLevel(a), TopLevel(b))
        lb == Lowered(store, <<<<NoKey, b.hash>>>>, TopLevel(b), TopLevel(a))
        level == IF TopLevel(a) < TopLevel(b) THEN TopLevel(a) ELSE TopLevel(b)
    IN  IF a.hash = b.hash THEN Stream(<<>>, FALSE)
        ELSE IF la.err \/ lb.err THEN Stream(<<>>, TRUE)
        ELSE DrainRegions(store, <<Region(level, la.items, lb.items, TRUE)>>, <<>>)

(***************************************************************************)
(* Three-way merge.  A conflict is <<key, base, ours, theirs>>; its key is *)
(* removed from the merged tree.                                           *)
(***************************************************************************)
ToOp(d) == <<d[1], d[3]>>

ConflictOp(o, t) == <<o[1], Delete>>

RECURSIVE MergeStreams(_, _, _)
MergeStreams(o, t, m) ==
    LET onlyO == o # <<>> /\ (t = <<>> \/ Head(o)[1] < Head(t)[1])
        onlyT == t # <<>> /\ (o = <<>> \/ Head(t)[1] < Head(o)[1])
    IN  CASE o = <<>> /\ t = <<>> -> m
          [] onlyO -> MergeStreams(Tail(o), t, [m EXCEPT !.ops = Append(@, ToOp(Head(o)))])
          [] onlyT -> MergeStreams(o, Tail(t), [m EXCEPT !.ops = Append(@, ToOp(Head(t)))])
          [] o # <<>> /\ t # <<>> /\ Head(o)[1] = Head(t)[1] ->
               IF Head(o)[2] # Head(t)[2] THEN [m EXCEPT !.err = TRUE]
               ELSE IF Head(o)[3] = Head(t)[3]
               THEN MergeStreams(Tail(o), Tail(t), [m EXCEPT !.ops = Append(@, ToOp(Head(o)))])
               ELSE MergeStreams(Tail(o), Tail(t),
                      [m EXCEPT !.ops = Append(@, ConflictOp(Head(o), Head(t))),
                                !.conflicts = Append(@, <<Head(o)[1], Head(t)[2],
                                                          Head(o)[3], Head(t)[3]>>)])

Unmerged(base) == [root |-> base, conflicts |-> <<>>, err |-> TRUE]
MergedRoot(store, base, m) ==
    LET applied == ApplyBatch(store, base, m.ops)
    IN  IF m.err THEN Unmerged(base)
        ELSE [root |-> applied.root, conflicts |-> m.conflicts, err |-> applied.err]
MergeDiffs(store, base, o, t) ==
    IF o.err \/ t.err THEN Unmerged(base)
    ELSE MergedRoot(store, base, MergeStreams(o.items, t.items, [ops |-> <<>>, conflicts |-> <<>>, err |-> FALSE]))
Merge(store, base, ours, theirs) ==
    IF base.params # ours.params \/ base.params # theirs.params THEN Unmerged(base)
    ELSE MergeDiffs(store, base, Diff(store, base, ours), Diff(store, base, theirs))

(***************************************************************************)
(* Chunk-set enumeration: leaves are never read; a chunk already collected *)
(* prunes its subtree.                                                     *)
(***************************************************************************)
\* A level-1 node's children are leaves: collected, never read.
HasInnerChildren(level) == level > 1

Collected(out, err) == [out |-> out, err |-> err]

RECURSIVE CollectFrom(_, _, _)
CollectFrom(store, frontier, out) ==
    IF frontier = <<>> THEN Collected(out, FALSE)
    ELSE LET f == Last(frontier)
             refs == Entries(f.hash)
             new == SelectSeq(refs, LAMBDA r : Content(r) \notin out)
             inner == IF HasInnerChildren(f.level)
                      THEN [i \in 1..Len(new) |-> [hash |-> Content(new[i]),
                                                   level |-> f.level - 1,
                                                   last |-> Key(new[i])]]
                      ELSE <<>>
         IN  IF ~Readable(store, f.hash, f.level, f.last, NoKey) THEN Collected(out, TRUE)
             ELSE CollectFrom(store, Front(frontier) \o inner,
                              out \cup {Content(refs[i]) : i \in 1..Len(refs)})

CollectReachable(store, root, out) ==
    IF root.hash \in out THEN Collected(out, FALSE)
    ELSE CollectFrom(store,
                     IF TopLevel(root) > 0
                     THEN <<[hash |-> root.hash, level |-> TopLevel(root), last |-> NoKey]>>
                     ELSE <<>>,
                     out \cup {root.hash})

(***************************************************************************)
(* Entry estimate: the mean fan-out of a few nodes of each level.  The     *)
(* f64 product is kept as the fraction num / den.                          *)
(***************************************************************************)
Spread(len, want) ==
    IF len <= want THEN [i \in 1..len |-> i]
    ELSE [i \in 1..want |-> (i * len) \div (want + 1) + 1]

DivCeil(a, b) == (a + b - 1) \div b

SampledRefs(frontier) ==
    FlattenSeq([n \in 1..Len(frontier) |->
        LET refs == Entries(Content(frontier[n]))
            picks == Spread(Len(refs), DivCeil(LevelSamples, Len(frontier)))
        IN  [i \in 1..Len(picks) |-> refs[picks[i]]]])
Truncated(seq) == SubSeq(seq, 1, IF Len(seq) < LevelSamples THEN Len(seq) ELSE LevelSamples)
TotalEntries(frontier) ==
    FoldLeft(LAMBDA acc, r : acc + Len(Entries(Content(r))), 0, frontier)

\* The estimate so far, times the mean over the sampled nodes of a level.
TimesMean(num, den, total, sampled) == <<num * total, den * sampled>>

Estimate(num, den, reads, err) == [num |-> num, den |-> den, reads |-> reads, err |-> err]

RECURSIVE EstimateFrom(_, _, _, _, _, _)
EstimateFrom(store, frontier, level, num, den, reads) ==
    LET scaled == TimesMean(num, den, TotalEntries(frontier), Len(frontier))
        next == Estimate(scaled[1], scaled[2], reads + Len(frontier), FALSE)
    IN  IF \E i \in 1..Len(frontier) :
              ~Readable(store, Content(frontier[i]), level, Key(frontier[i]), NoKey)
        THEN Estimate(0, 1, reads, TRUE)
        ELSE IF level = 0 THEN next
        ELSE EstimateFrom(store, Truncated(SampledRefs(frontier)), level - 1,
                          next.num, next.den, next.reads)

EstimateEntries(store, root) ==
    EstimateFrom(store, <<<<NoKey, root.hash>>>>, TopLevel(root), 1, 1, 0)

(***************************************************************************)
(* The integrity walk.  A fault is <<chunk, kind>>.                        *)
(***************************************************************************)
PositionFault(chunk, ref) ==
    Level(chunk) # ref.level \/ ~Positioned(chunk, ref.last, ref.min)

DecodesSelf(chunk) == DecodesAt(chunk, Level(chunk))

\* The first child inherits the bound of its parent, each later one is bounded
\* by its left sibling.
ChildRefsUnbounded(chunk, min) ==
    [i \in 1..Len(Entries(chunk)) |->
        [hash |-> Content(Entries(chunk)[i]), level |-> Level(chunk) - 1,
         last |-> Key(Entries(chunk)[i]),
         min |-> IF i = 1 THEN NoKey ELSE Key(Entries(chunk)[i - 1])]]
ChildRefs(chunk, min) ==
    [i \in 1..Len(Entries(chunk)) |->
        [hash |-> Content(Entries(chunk)[i]), level |-> Level(chunk) - 1,
         last |-> Key(Entries(chunk)[i]),
         min |-> IF i = 1 THEN min ELSE Key(Entries(chunk)[i - 1])]]

RECURSIVE VerifyFrom(_, _, _, _)
VerifyFrom(store, frontier, expanded, faults) ==
    IF frontier = <<>> THEN faults
    ELSE LET ref == Last(frontier)
             rest == Front(frontier)
             chunk == ref.hash
             skip(kind) == VerifyFrom(store, rest, expanded, faults \cup {<<chunk, kind>>})
         IN  IF chunk \notin expanded /\ chunk \in store.missing THEN skip("missing")
             ELSE IF chunk \notin expanded /\ (chunk \in store.damaged \/ ~DecodesSelf(chunk))
             THEN skip("corrupt")
             ELSE IF PositionFault(chunk, ref) THEN skip("corrupt")
             ELSE IF chunk \in expanded \/ Level(chunk) = 0
             THEN VerifyFrom(store, rest, expanded, faults)
             ELSE VerifyFrom(store, rest \o ChildRefs(chunk, ref.min),
                             expanded \cup {chunk}, faults)

VerifyReachable(store, root) ==
    VerifyFrom(store, <<[hash |-> root.hash, level |-> TopLevel(root),
                         last |-> NoKey, min |-> NoKey]>>, {}, {})
=============================================================================
