------------------------------- MODULE Prolly -------------------------------
(***************************************************************************)
(* Prolly trees (crates/acetone-prolly): content-defined chunking, bulk    *)
(* load, batched mutation by splicing, lookup, and the node checks every   *)
(* read applies.                                                           *)
(*                                                                         *)
(* A chunk is <<level, entries>>.  An entry is <<key, value>> in a leaf    *)
(* and <<last key, chunk>> above: the address of a chunk IS its content,   *)
(* so a hash is the chunk itself and hash equality is chunk equality.      *)
(* Keys are positive numbers in byte order, a value is its byte length     *)
(* plus what the gear hash tells apart.  A root is [hash, height, params]. *)
(* A store is [missing, damaged]: the chunks the object store does not     *)
(* hold, and those it holds and cannot return.                             *)
(***************************************************************************)
EXTENDS Integers, Sequences, FiniteSets, SequencesExt

CONSTANTS MaxHeight, \* MAX_HEIGHT
          HashBits   \* width of the gear hash

NoKey == 0
NoChunk == <<-1, <<>>>>
Intact == [missing |-> {}, damaged |-> {}]

Level(chunk) == chunk[1]
Entries(chunk) == chunk[2]
Key(entry) == entry[1]
Content(entry) == entry[2]

(***************************************************************************)
(* Chunker.                                                                *)
(***************************************************************************)
\* A params value in existence satisfies what ChunkParams::new demands.
ValidParams(p) == /\ 0 < p.min
                  /\ p.min <= p.max
                  /\ p.mask \in 1..(HashBits - 1)

\* The stand-in for a 20-byte digest: a number that depends on every entry.
RECURSIVE Digest(_)
Digest(chunk) ==
    FoldLeft(LAMBDA acc, e :
                 (acc * 5 + Key(e) * 3
                    + (IF Level(chunk) = 0 THEN Content(e) ELSE Digest(Content(e)))) % 64,
             Level(chunk) + 1, Entries(chunk))

\* Serialised length of an entry: an inner entry is its key and a digest.
EntryLen(level, e) == IF level = 0 THEN 1 + Content(e) ELSE 2

\* What an entry's bytes add to the rolling hash.
GearOf(level, e) ==
    Key(e) * 11 + (IF level = 0 THEN Content(e) * 7 ELSE Digest(Content(e)))

FreshChunker == [hash |-> 0, len |-> 0, entries |-> 0]

Rolled(c, level, e) ==
    [hash    |-> (c.hash * 2^EntryLen(level, e) + GearOf(level, e)) % 2^HashBits,
     len     |-> c.len + EntryLen(level, e),
     entries |-> c.entries + 1]

\* The cut decision after feeding an entry, on the state that includes it.
CutsAfter(p, c, level, e) ==
    /\ c.entries >= 2
    /\ \/ c.len >= p.max
       \/ /\ c.len >= p.min
          /\ c.hash % 2^p.mask < EntryLen(level, e)

(***************************************************************************)
(* Node checks: what a read validates before anything is used.             *)
(***************************************************************************)
Ascending(entries) ==
    \A i \in 1..(Len(entries) - 1) : Key(entries[i]) < Key(entries[i + 1])

DecodesAt(chunk, level) ==
    /\ Level(chunk) = level
    /\ level > 0 => Entries(chunk) # <<>>
    /\ Ascending(Entries(chunk))

FirstKey(chunk) == IF Entries(chunk) = <<>> THEN NoKey ELSE Key(Head(Entries(chunk)))
LastKey(chunk) == IF Entries(chunk) = <<>> THEN NoKey ELSE Key(Last(Entries(chunk)))

\* The parent's claims about a child; NoKey where the caller has none.
Positioned(chunk, last, min) ==
    /\ last # NoKey => LastKey(chunk) = last
    /\ (min # NoKey /\ FirstKey(chunk) # NoKey) => FirstKey(chunk) > min

\* read_node succeeds: the caller then uses the chunk, here its own content.
Readable(store, chunk, level, last, min) ==
    /\ chunk \notin store.missing \cup store.damaged
    /\ DecodesAt(chunk, level)
    /\ Positioned(chunk, last, min)

(***************************************************************************)
(* The level builder.  `puts` are the chunks written, `pairs` the (new     *)
(* chunk, predecessor) pairs a recording batch returns, `err` a failed     *)
(* read, after which nothing more happens.                                 *)
(***************************************************************************)
NewBuilder == [chunker |-> FreshChunker, buf |-> <<>>, out |-> <<>>,
               base |-> NoChunk, puts |-> {}, pairs |-> {}, err |-> FALSE]

\* The pair a written chunk adds: none for a chunk with no predecessor or one
\* that came out as its own predecessor.
Predecessor(chunk, base) ==
    IF base \in {NoChunk, chunk} THEN {} ELSE {<<chunk, base>>}

AtBoundary(b) == b.buf = <<>>

OutChunk(last, chunk) == [kind |-> "chunk", last |-> last, hash |-> chunk,
                          level |-> Level(chunk), final |-> FALSE]

Emit(level, b) ==
    LET chunk == <<level, b.buf>>
    IN  [b EXCEPT !.out = Append(@, OutChunk(LastKey(chunk), chunk)),
                  !.buf = <<>>,
                  !.chunker = FreshChunker,
                  !.puts = @ \cup {chunk},
                  !.pairs = @ \cup Predecessor(chunk, b.base)]

PushEntry(p, level, b, e) ==
    LET rolled == Rolled(b.chunker, level, e)
        pushed == [b EXCEPT !.buf = Append(@, e), !.chunker = rolled]
    IN  IF CutsAfter(p, rolled, level, e) THEN Emit(level, pushed) ELSE pushed

PushAll(p, level, b, base, entries) ==
    FoldLeft(LAMBDA acc, e : PushEntry(p, level, acc, e), [b EXCEPT !.base = base], entries)

(***************************************************************************)
(* Items of a level's input stream: fresh entries, an untouched old chunk  *)
(* of this level, or an untouched subtree of a higher one.                 *)
(***************************************************************************)
FreshItem(entries, base) ==
    [kind |-> "fresh", entries |-> entries, hash |-> base, last |-> NoKey,
     level |-> 0, final |-> FALSE]
RefItem(level, at, ref, final) ==
    [kind |-> IF level = at THEN "old" ELSE "subtree", entries |-> <<>>,
     hash |-> Content(ref), last |-> Key(ref), level |-> level, final |-> final]

\* An old chunk passes through unread only where its trailing cut would be
\* made again: the builder is between chunks, and the cut was content-defined
\* or is at the end of this stream too.
PassesAtBoundary(b, item, isLast) == AtBoundary(b)
PassesThrough(b, item, isLast) == AtBoundary(b) /\ (~item.final \/ isLast)

RefsAsItems(chunk, at, final) ==
    [j \in 1..Len(Entries(chunk)) |->
        RefItem(Level(chunk) - 1, at, Entries(chunk)[j],
                final /\ j = Len(Entries(chunk)))]

RECURSIVE ChunkItems(_, _, _, _, _)
ChunkItems(store, p, level, queue, b) ==
    IF b.err \/ queue = <<>> THEN b
    ELSE LET item == Head(queue)
             rest == Tail(queue)
             readable == Readable(store, item.hash, item.level, item.last, NoKey)
         IN  CASE item.kind = "fresh" ->
                    ChunkItems(store, p, level, rest,
                               PushAll(p, level, b, item.hash, item.entries))
               [] item.kind # "fresh" /\ PassesThrough(b, item, rest = <<>>) ->
                    ChunkItems(store, p, level, rest,
                               [b EXCEPT !.out = Append(@,
                                  [kind |-> IF item.kind = "old" THEN "chunk" ELSE "subtree",
                                   last |-> item.last, hash |-> item.hash,
                                   level |-> item.level, final |-> item.final])])
               [] item.kind # "fresh" /\ ~PassesThrough(b, item, rest = <<>>) /\ ~readable ->
                    [b EXCEPT !.err = TRUE]
               [] item.kind = "old" /\ ~PassesThrough(b, item, rest = <<>>) /\ readable ->
                    ChunkItems(store, p, level, rest,
                               PushAll(p, level, b, item.hash, Entries(item.hash)))
               [] item.kind = "subtree" /\ ~PassesThrough(b, item, rest = <<>>) /\ readable ->
                    ChunkItems(store, p, level,
                               RefsAsItems(item.hash, level, item.final) \o rest, b)

\* The end of a level's stream: the open chunk is emitted, and a leaf level
\* has at least one chunk, if need be an empty one.
Finish(level, b) ==
    IF ~b.err /\ (~AtBoundary(b) \/ (b.out = <<>> /\ level = 0)) THEN Emit(level, b) ELSE b

ChunkLevel(store, p, level, items, b) ==
    Finish(level, ChunkItems(store, p, level, items,
                             [NewBuilder EXCEPT !.puts = b.puts, !.pairs = b.pairs]))

(***************************************************************************)
(* Promotion: one level's outputs become the next level's items; a parent  *)
(* opened on the way down is re-attached when exactly its children         *)
(* survived, in order.                                                     *)
(***************************************************************************)
Flushed(items, fresh) ==
    IF fresh = <<>> THEN items ELSE Append(items, FreshItem(fresh, NoChunk))

RunMatches(outputs, i, parent) ==
    LET k == Len(Entries(parent.hash))
    IN  /\ Len(outputs) - i + 1 >= k
        /\ \A j \in 1..k : /\ outputs[i + j - 1].kind = "chunk"
                           /\ outputs[i + j - 1].hash = Content(Entries(parent.hash)[j])

\* The first opened parent, from p on, that a run at output i could match.
RECURSIVE SkipPassed(_, _, _, _)
SkipPassed(outputs, i, opened, p) ==
    IF p <= Len(opened) /\ ~RunMatches(outputs, i, opened[p])
                        /\ opened[p].last <= outputs[i].last
    THEN SkipPassed(outputs, i, opened, p + 1) ELSE p

RECURSIVE PromoteFrom(_, _, _, _, _, _, _)
PromoteFrom(outputs, i, opened, p, fresh, items, next) ==
    IF i > Len(outputs) THEN Flushed(items, fresh)
    ELSE LET o == outputs[i]
             q == IF o.kind = "chunk" THEN SkipPassed(outputs, i, opened, p) ELSE p
             attach(level, last, hash, final) ==
                 Append(Flushed(items, fresh), RefItem(level, next, <<last, hash>>, final))
         IN  IF o.kind = "subtree"
             THEN PromoteFrom(outputs, i + 1, opened, p, <<>>,
                              attach(o.level, o.last, o.hash, o.final), next)
             ELSE IF q <= Len(opened) /\ RunMatches(outputs, i, opened[q])
             THEN PromoteFrom(outputs, i + Len(Entries(opened[q].hash)), opened, q + 1, <<>>,
                              attach(next, opened[q].last, opened[q].hash, opened[q].final), next)
             ELSE PromoteFrom(outputs, i + 1, opened, q,
                              Append(fresh, <<o.last, o.hash>>), items, next)

Promote(outputs, opened, next) == PromoteFrom(outputs, 1, opened, 1, <<>>, <<>>, next)

(***************************************************************************)
(* Building: chunk level after level until one output remains.             *)
(***************************************************************************)
Root(chunk, params) == [hash |-> chunk, height |-> Level(chunk) + 1, params |-> params]
TopLevel(root) == root.height - 1
Built(root, b, err) == [root |-> root, puts |-> b.puts, pairs |-> b.pairs, err |-> err]

\* b is the builder that finished the level below `next`.
RECURSIVE BuildUpon(_, _, _, _, _)
BuildUpon(store, p, next, opened, b) ==
    IF b.err THEN Built(Root(NoChunk, p), b, TRUE)
    ELSE IF Len(b.out) = 1 THEN Built(Root(b.out[1].hash, p), b, FALSE)
    ELSE IF next >= MaxHeight THEN Built(Root(NoChunk, p), b, TRUE)
    ELSE LET items == Promote(b.out, IF next \in DOMAIN opened THEN opened[next] ELSE <<>>, next)
         IN  BuildUpon(store, p, next + 1, opened, ChunkLevel(store, p, next, items, b))

BuildLevels(store, p, items, opened) ==
    BuildUpon(store, p, 1, opened, ChunkLevel(store, p, 0, items, NewBuilder))

\* Sorting and "last one wins" make a function of what was submitted.
InKeyOrder(contents) ==
    [i \in 1..Cardinality(DOMAIN contents) |->
        LET k == CHOOSE k \in DOMAIN contents :
                    Cardinality({x \in DOMAIN contents : x < k}) = i - 1
        IN  <<k, contents[k]>>]

LastWins(pairs) ==
    [k \in {Key(pairs[i]) : i \in 1..Len(pairs)} |->
        Content(pairs[CHOOSE i \in 1..Len(pairs) :
                        /\ Key(pairs[i]) = k
                        /\ \A j \in (i + 1)..Len(pairs) : Key(pairs[j]) # k])]

BulkLoad(p, pairs) ==
    BuildLevels(Intact, p, <<FreshItem(InKeyOrder(LastWins(pairs)), NoChunk)>>, <<>>)

(***************************************************************************)
(* Batches.  An op is <<key, value>>; the value Delete removes the key.    *)
(***************************************************************************)
Delete == 0

MergeOps(entries, ops) ==
    LET touched == {Key(ops[i]) : i \in 1..Len(ops)}
        kept == SelectSeq(entries, LAMBDA e : Key(e) \notin touched)
        put == SelectSeq(ops, LAMBDA o : Content(o) # Delete)
    IN  SortSeq(kept \o put, LAMBDA a, b : Key(a) < Key(b))

\* The ops a child takes: those up to its last key, and every remaining one
\* for the last child.
OpsFor(ops, ref, isLast) ==
    SelectSeq(ops, LAMBDA o : isLast \/ Key(o) <= Key(ref))

Opened(chunk, final) == [hash |-> chunk, last |-> LastKey(chunk), final |-> final]

\* One level of a walk: d accumulates items, opened parents and failure.
RECURSIVE Descend(_, _, _, _, _, _, _, _)
RECURSIVE DescendRefs(_, _, _, _, _, _, _)
Descend(store, chunk, level, last, min, final, ops, d) ==
    IF d.err \/ ~Readable(store, chunk, level, last, min) THEN [d EXCEPT !.err = TRUE]
    ELSE IF level = 0
    THEN [d EXCEPT !.items = Append(@, FreshItem(MergeOps(Entries(chunk), ops), chunk))]
    ELSE DescendRefs(store, chunk, 1, min, final, ops,
                     [d EXCEPT !.opened[level] = Append(@, Opened(chunk, final))])
DescendRefs(store, chunk, i, min, final, ops, d) ==
    IF d.err \/ i > Len(Entries(chunk)) THEN d
    ELSE LET ref == Entries(chunk)[i]
             isLast == i = Len(Entries(chunk))
             mine == OpsFor(ops, ref, isLast)
             rest == SelectSeq(ops, LAMBDA o : ~(isLast \/ Key(o) <= Key(ref)))
             after == IF mine = <<>>
                      THEN [d EXCEPT !.items = Append(@, RefItem(Level(chunk) - 1, 0, ref,
                                                                final /\ isLast))]
                      ELSE Descend(store, Content(ref), Level(chunk) - 1, Key(ref), min,
                                   final /\ isLast, mine, d)
         IN  DescendRefs(store, chunk, i + 1, Key(ref), final, rest, after)

ApplyBatch(store, root, submitted) ==
    LET ops == InKeyOrder(LastWins(submitted))
        d == Descend(store, root.hash, TopLevel(root), NoKey, NoKey, TRUE, ops,
                     [items |-> <<>>, opened |-> [l \in 1..TopLevel(root) |-> <<>>],
                      err |-> FALSE])
    IN  IF ops = <<>> THEN Built(root, NewBuilder, FALSE)
        ELSE IF d.err THEN Built(root, NewBuilder, TRUE)
        ELSE BuildLevels(store, root.params, d.items, d.opened)

(***************************************************************************)
(* Point lookup: one root-to-leaf path.                                    *)
(***************************************************************************)
Failed == -1

RECURSIVE GetFrom(_, _, _, _, _, _)
GetFrom(store, chunk, level, last, min, key) ==
    IF ~Readable(store, chunk, level, last, min) THEN Failed
    ELSE IF level = 0
    THEN LET hits == SelectSeq(Entries(chunk), LAMBDA e : Key(e) = key)
         IN  IF hits = <<>> THEN Delete ELSE Content(hits[1])
    ELSE LET below == SelectSeq(Entries(chunk), LAMBDA r : Key(r) < key)
             idx == Len(below) + 1
         IN  IF idx > Len(Entries(chunk)) THEN Delete
             ELSE GetFrom(store, Content(Entries(chunk)[idx]), level - 1,
                          Key(Entries(chunk)[idx]),
                          IF idx > 1 THEN Key(Entries(chunk)[idx - 1]) ELSE min, key)

Get(store, root, key) == GetFrom(store, root.hash, TopLevel(root), NoKey, NoKey, key)
=============================================================================
