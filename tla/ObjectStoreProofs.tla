--------------------------- MODULE ObjectStoreProofs ---------------------------
(***************************************************************************)
(* Proofs about ObjectStore: that no object is lost and no stored object is *)
(* denied, for any objects, refs, runs, faults and repacks.                 *)
(***************************************************************************)
EXTENDS ObjectStore, TLAPS

-----------------------------------------------------------------------------
(* The inductive invariants.                                                *)

Settled == {"prune", "supersede", "retire", "truncate", "write"}
Indexed == {"syncIdx", "keep", "syncKeep"}
Planned == {"install", "syncPack", "index"} \cup Indexed \cup Settled
GcStates == {"idle", "roots", "walk"} \cup Planned
ReaderStates == {"quiet", "packs", "loose", "open", "found", "missing"}

Run == [pc : GcStates, seen : [AllRefs -> Objects \cup {None}],
        stem : Stems \cup {None}, guard : SUBSET Objects, todo : SUBSET Stems,
        keep : SUBSET Stems, retiring : Stems \cup {None},
        pruneLoose : BOOLEAN, prunePacks : BOOLEAN]
Lookups == [pc : ReaderStates, object : Objects \cup {None},
            view : SUBSET Stems, known : SUBSET Objects, attempt : 0..3]

\* Types, and the fields that are set in each state of a run.
Types ==
  /\ loose \subseteq Objects /\ foreign \subseteq Objects
  /\ packFile \subseteq Stems /\ idxFile \subseteq Stems /\ keepFile \subseteq Stems
  /\ sidecar \subseteq Stems
  /\ volatile \subseteq {"pack", "idx", "keep"} \X Stems
  /\ hints \in 0..MaxHints
  /\ refs \in [AllRefs -> Objects \cup {None}]
  /\ gcLock \in BOOLEAN
  /\ gc \in Run
  /\ reader \in Lookups
  /\ gc.pc # "idle" => gcLock
  /\ gc.pc \in Planned => gc.stem \in Stems
  /\ gc.pc = "retire" => gc.retiring \in Stems
  /\ repacks \in Nat

\* The order of the file steps: an index is published over a pack whose own
\* directory entry is durable, and a pack goes after its index.
FileOrder ==
  /\ idxFile \subseteq packFile
  /\ \A s \in Stems : <<"pack", s>> \in volatile => s \notin idxFile
  /\ gc.pc \in {"syncPack", "index"} => gc.stem \in packFile \ idxFile
  /\ gc.pc = "index" => <<"pack", gc.stem>> \notin volatile
  /\ gc.pc = "retire" => gc.retiring \notin idxFile

\* What ensure_keep takes an existing marker for: that the pack it marks is
\* durable.  It fails only where a power loss follows two kills, one between
\* the rename and the fsync of the index, one between those of the marker.
MarkedIsDurable ==
  gc.pc = "keep" /\ gc.stem \in keepFile \cap idxFile => <<"idx", gc.stem>> \notin volatile

Durable(s) == s \in idxFile /\ <<"idx", s>> \notin volatile
\* A copy no power loss can take.
Stable(o) == o \in loose \/ o \in foreign \/ \E s \in Stems : Durable(s) /\ o \in s.objects

\* Every object has a stable copy, what a stored object, a ref or the run's own
\* snapshot names is stored, and the run prunes only under a durable pack.
RunInv ==
  /\ gc.pc \in Planned => gc.stem.objects \subseteq Available
  /\ gc.pc \in Indexed => gc.stem \in idxFile \/ gc.stem.objects \subseteq foreign
  /\ gc.pc \in Settled => Durable(gc.stem) \/ gc.stem.objects \subseteq foreign
  /\ gc.pc \in {"supersede", "retire"} => gc.stem \notin gc.todo
Content ==
  /\ \A o \in Available : Stable(o) /\ Kids[o] \subseteq Available
  /\ \A r \in AllRefs : refs[r] # None => refs[r] \in Available
  /\ \A r \in AllRefs : gc.seen[r] # None => gc.seen[r] \in Available
  /\ RunInv

\* The guard holds what the code refs reached when the run read them.
Guarded ==
  gc.pc \in Planned =>
    /\ gc.guard \subseteq Available
    /\ \A o \in gc.guard : Kids[o] \subseteq gc.guard
    /\ \A r \in CodeRefs : gc.seen[r] # None => gc.seen[r] \in gc.guard

\* A lookup in progress asks for a stored object; it misses at most once, when
\* a loose file is pruned under it, and then finds the object in a pack.
LookupInv ==
  /\ reader.pc # "missing"
  /\ reader.pc = "quiet" <=> reader.object = None
  /\ reader.pc # "quiet" => reader.object \in Available
  /\ reader.pc \in {"loose", "open"} => reader.object \notin reader.known /\ Listed = {}
  /\ reader.attempt < 3
  /\ reader.attempt = 2 => reader.pc \notin {"open", "quiet"} /\ reader.object \notin loose

-----------------------------------------------------------------------------
(* Types                                                                    *)

\* What Reach computes is stored.
LEMMA ReachAvailable == \A S : Reach(S) \subseteq Available
  BY DEF Reach

\* What is stored is a set of objects.
LEMMA AvailableObjects ==
  ASSUME Types PROVE Available \subseteq Objects
  BY DEF Types, Available, Packed, Stems

\* The initial state is well typed.
LEMMA TypesInit == Init => Types
  <1> SUFFICES ASSUME Init PROVE Types
      OBVIOUS
  <1>1. gc \in Run /\ gc.pc = "idle"
      BY DEF Init, Idle, Run, GcStates
  <1>2. reader \in Lookups
      BY DEF Init, Quiet, Lookups, ReaderStates
  <1>3. hints \in 0..MaxHints
      BY ObjectStoreAssumption DEF Init, ObjectStoreAssumption
  <1>4. refs \in [AllRefs -> Objects \cup {None}] /\ gcLock \in BOOLEAN
      BY DEF Init
  <1> QED
      BY <1>1, <1>2, <1>3, <1>4 DEF Init, Types, Planned, Indexed, Settled

\* The file steps of a run keep the types.
LEMMA RunTypes ==
  ASSUME Types, GcLock \/ Consolidate PROVE Types'
  <1> USE DEF Types, Run, Planned, Indexed, Settled, GcStates
  <1>1. CASE GcLock
      <2>1. PICK options \in BOOLEAN :
              gc' = [Idle EXCEPT !.pc = "roots", !.pruneLoose = options, !.prunePacks = options]
          BY <1>1 DEF GcLock
      <2>2. gc' \in Run /\ gc'.pc = "roots"
          BY <2>1 DEF Idle
      <2> QED
          BY <1>1, <2>2 DEF GcLock, disk, counters
  <1>2. CASE GcRoots
      BY <1>2 DEF GcRoots, GcOnly, disk, counters
  <1>3. CASE GcWalk
      <2>1. [objects |-> Reach(Held(GraphRefs, gc.seen)), hints |-> hints] \in Stems
          BY ReachAvailable, AvailableObjects DEF Stems
      <2>2. Reach(Held(CodeRefs, gc.seen)) \subseteq Objects
          BY ReachAvailable, AvailableObjects
      <2>3. gc' \in Run /\ gc'.pc = "install" /\ gc'.stem \in Stems
          BY <1>3, <2>1, <2>2 DEF GcWalk
      <2> QED
          BY <1>3, <2>3 DEF GcWalk, GcOnly, disk, counters
  <1>4. CASE GcInstalled
      BY <1>4 DEF GcInstalled, GcOnly, disk, counters
  <1>5. CASE GcPublishPack
      BY <1>5 DEF GcPublishPack, GcOnly, counters
  <1>6. CASE GcSyncPack \/ GcSyncIdx \/ GcSyncKeep
      BY <1>6 DEF GcSyncPack, GcSyncIdx, GcSyncKeep, FsyncDir, GcOnly, counters
  <1>7. CASE GcPublishIdx
      BY <1>7 DEF GcPublishIdx, GcOnly, counters
  <1>8. CASE GcKept \/ GcKeep
      BY <1>8 DEF GcKept, GcKeep, GcOnly, disk, counters
  <1>9. CASE GcPruneLoose
      BY <1>9 DEF GcPruneLoose, GcOnly, disk, counters
  <1>10. CASE GcPruned
      <2>1. gc' \in Run /\ gc'.pc \in {"supersede", "truncate"} /\ gc'.stem = gc.stem
          BY <1>10 DEF GcPruned, GcOnly
      <2> QED
          BY <1>10, <2>1 DEF GcPruned, GcOnly, disk, counters
  <1>11. CASE \E t \in gc.todo : GcSurvivor(t)
      <2> PICK t \in gc.todo : GcSurvivor(t)
          BY <1>11
      <2>1. t \in Stems
          OBVIOUS
      <2>2. gc' \in Run /\ gc'.pc = "supersede" /\ gc'.stem = gc.stem /\ gc.pc = "supersede"
          BY <2>1 DEF GcSurvivor
      <2> QED
          BY <2>2 DEF GcSurvivor, GcOnly, disk, counters
  <1>12. CASE \E t \in gc.todo : GcRetireIdx(t)
      <2> PICK t \in gc.todo : GcRetireIdx(t)
          BY <1>12
      <2>1. t \in Stems
          OBVIOUS
      <2>2. gc' \in Run /\ gc'.retiring = t /\ gc'.stem = gc.stem /\ gc.pc = "supersede"
          BY <2>1 DEF GcRetireIdx
      <2> QED
          BY <2>1, <2>2 DEF GcRetireIdx, GcOnly, counters
  <1>13. CASE GcRetirePack
      BY <1>13 DEF GcRetirePack, GcOnly, counters
  <1>14. CASE GcSuperseded \/ GcTruncate
      BY <1>14 DEF GcSuperseded, GcTruncate, GcOnly, disk, counters
  <1>15. CASE GcRecord
      BY <1>15 DEF GcRecord, GcOnly, Idle, disk, counters
  <1> QED
      BY <1>1, <1>2, <1>3, <1>4, <1>5, <1>6, <1>7, <1>8, <1>9, <1>10, <1>11, <1>12, <1>13,
         <1>14, <1>15 DEF Consolidate

\* So do the writers, the faults and the lookups.
LEMMA OtherTypes ==
  ASSUME Types, Writers \/ Faults \/ Reader PROVE Types'
  <1>1. CASE \E o \in Objects : Write(o)
      BY <1>1 DEF Write, Types, disk, counters
  <1>2. CASE \E r \in AllRefs, o \in Objects : SetRef(r, o)
      BY <1>2 DEF SetRef, Types, disk, counters
  <1>3. CASE \E r \in AllRefs : DeleteRef(r)
      BY <1>3 DEF DeleteRef, Types, disk, counters
  <1>4. CASE RecordBaseHint
      <2>1. hints' \in 0..MaxHints
          BY <1>4, ObjectStoreAssumption DEF RecordBaseHint, Types, ObjectStoreAssumption
      <2> QED
          BY <1>4, <2>1 DEF RecordBaseHint, Types, disk, counters
  <1> DEFINE idle == Idle
  <1>5. idle \in Run /\ idle.pc = "idle"
      BY DEF Idle, Run, GcStates
  <1>6. Quiet \in Lookups
      BY DEF Quiet, Lookups, ReaderStates
  <1>7. CASE GcStop
      BY <1>7, <1>5 DEF GcStop, Types, Planned, Indexed, Settled, disk
  <1>8. CASE PowerLoss
      BY <1>8, <1>5, <1>6 DEF PowerLoss, Types, Planned, Indexed, Settled
  <1>9. CASE Writeback \/ ClearLock
      BY <1>9 DEF Writeback, ClearLock, Types, disk, counters
  <1>10. CASE ForeignRepack
      <2>1. UNION {s.objects : s \in (packFile \cap idxFile) \ keepFile} \subseteq Objects
          BY DEF Types, Stems
      <2> QED
          BY <1>10, <2>1 DEF ForeignRepack, Types
  <1>11. CASE Reader
      <2> USE DEF Types, Lookups, ReaderStates
      <2>1. Miss \in Lookups
          <3>1. reader.attempt < 3 => reader.attempt + 1 \in 0..3
              OBVIOUS
          <3> QED
              BY <3>1 DEF Miss, LOOKUP_ATTEMPTS
      <2>2. Refresh \in Lookups
          BY <2>1 DEF Refresh
      <2>3. reader' \in Lookups
          <3>1. CASE \E o \in Probed : Lookup(o)
              <4>1. 1 \in 0..3 /\ Probed \subseteq Objects
                  BY ObjectStoreAssumption DEF ObjectStoreAssumption
              <4> QED
                  BY <3>1, <4>1 DEF Lookup, Reading
          <3>2. CASE SearchPacks
              BY <3>2, <2>2 DEF SearchPacks, Reading
          <3>3. CASE SearchLoose \/ OpenLoose
              BY <3>3, <2>1, <2>2 DEF SearchLoose, OpenLoose, Reading
          <3>4. CASE LookupDone
              <4>1. 0 \in 0..3
                  OBVIOUS
              <4> QED
                  BY <3>4, <4>1 DEF LookupDone, Reading
          <3> QED
              BY <1>11, <3>1, <3>2, <3>3, <3>4 DEF Reader
      <2>4. UNCHANGED <<loose, foreign, disk, sidecar, hints, refs, gcLock, gc, repacks>>
          BY <1>11 DEF Reader, Lookup, SearchPacks, SearchLoose, OpenLoose, LookupDone, Reading,
                       counters
      <2> QED
          BY <2>3, <2>4 DEF disk
  <1> QED
      BY <1>1, <1>2, <1>3, <1>4, <1>7, <1>8, <1>9, <1>10, <1>11 DEF Writers, Faults

\* Every step keeps the types.
LEMMA TypesStep ==
  ASSUME Types, [Next]_vars PROVE Types'
  <1>1. CASE UNCHANGED vars
      BY <1>1 DEF Types, vars, disk, counters
  <1> QED
      BY <1>1, RunTypes, OtherTypes DEF Next

-----------------------------------------------------------------------------
(* The files of a pack                                                      *)

\* An index is published after its pack's entry is durable, and removed
\* before its pack.
LEMMA FileOrderStep ==
  ASSUME Types, FileOrder, [Next]_vars PROVE FileOrder'
  <1> USE DEF FileOrder
  <1>1. CASE GcLock \/ GcRoots \/ GcWalk \/ GcInstalled \/ GcPruneLoose \/ GcSuperseded
             \/ GcTruncate \/ GcRecord
      <2>1. UNCHANGED <<idxFile, packFile, volatile>>
          BY <1>1 DEF GcLock, GcRoots, GcWalk, GcInstalled, GcPruneLoose, GcSuperseded,
                      GcTruncate, GcRecord, disk
      <2>2. gc'.pc \notin {"syncPack", "index", "retire"}
          <3>1. CASE GcLock
              BY <3>1 DEF GcLock, Idle
          <3>2. CASE GcRecord \/ GcPruneLoose
              BY <3>2 DEF GcRecord, GcPruneLoose, Idle
          <3> QED
              BY <1>1, <3>1, <3>2 DEF GcRoots, GcWalk, GcInstalled, GcSuperseded, GcTruncate,
                                      Types, Run
      <2> QED
          BY <2>1, <2>2
  <1>2. CASE GcPublishPack
      <2>1. gc'.pc = "syncPack" /\ gc'.stem = gc.stem /\ gc.stem \in Stems
          BY <1>2 DEF GcPublishPack, Types, Run, Planned, Indexed, Settled
      <2> QED
          BY <1>2, <2>1 DEF GcPublishPack
  <1>3. CASE GcSyncPack
      <2>1. gc'.pc = "index" /\ gc'.stem = gc.stem
          BY <1>3 DEF GcSyncPack, FsyncDir, Types, Run
      <2> QED
          BY <1>3, <2>1 DEF GcSyncPack, FsyncDir
  <1>4. CASE GcPublishIdx
      <2>1. gc'.pc = "syncIdx"
          BY <1>4 DEF GcPublishIdx, Types, Run
      <2> QED
          BY <1>4, <2>1 DEF GcPublishIdx
  <1>5. CASE GcSyncIdx \/ GcSyncKeep
      <2>1. gc'.pc \in {"keep", "prune"}
          BY <1>5 DEF GcSyncIdx, GcSyncKeep, FsyncDir, Types, Run
      <2> QED
          BY <1>5, <2>1 DEF GcSyncIdx, GcSyncKeep, FsyncDir
  <1>6. CASE GcKept \/ GcKeep \/ GcPruned \/ \E t \in gc.todo : GcSurvivor(t)
      <2>1. /\ UNCHANGED <<idxFile, packFile>>
            /\ \A s \in Stems : <<"pack", s>> \in volatile' => <<"pack", s>> \in volatile
          BY <1>6 DEF GcKept, GcKeep, GcPruned, GcSurvivor, disk
      <2>2. gc'.pc \notin {"syncPack", "index", "retire"}
          BY <1>6 DEF GcKept, GcKeep, GcPruned, GcSurvivor, Types, Run
      <2> QED
          BY <2>1, <2>2
  <1>7. CASE \E t \in gc.todo : GcRetireIdx(t)
      <2> PICK t \in gc.todo : GcRetireIdx(t)
          BY <1>7
      <2>1. gc'.pc = "retire" /\ gc'.retiring = t
          BY DEF GcRetireIdx, Types, Run
      <2> QED
          BY <2>1 DEF GcRetireIdx
  <1>8. CASE GcRetirePack
      <2>1. gc'.pc = "supersede"
          BY <1>8 DEF GcRetirePack, Types, Run
      <2> QED
          BY <1>8, <2>1 DEF GcRetirePack
  <1>9. CASE Writers \/ Reader \/ ClearLock \/ UNCHANGED vars
      <2>1. UNCHANGED <<idxFile, packFile, volatile, gc>>
          BY <1>9 DEF Writers, Write, SetRef, DeleteRef, RecordBaseHint, ClearLock, vars, disk,
             Reader, Lookup, SearchPacks, SearchLoose, OpenLoose, LookupDone, Reading
      <2> QED
          BY <2>1
  <1>10. CASE GcStop
      BY <1>10 DEF GcStop, Idle, disk
  <1>11. CASE PowerLoss
      <2>1. PICK lost \in SUBSET volatile :
              /\ packFile' = {s \in packFile : <<"pack", s>> \notin lost}
              /\ idxFile' = {s \in idxFile : <<"idx", s>> \notin lost}
          BY <1>11 DEF PowerLoss
      <2>2. gc'.pc = "idle" /\ volatile' = {}
          BY <1>11 DEF PowerLoss, Idle
      <2> QED
          BY <2>1, <2>2 DEF Types
  <1>12. CASE Writeback
      BY <1>12 DEF Writeback
  <1>13. CASE ForeignRepack
      BY <1>13 DEF ForeignRepack
  <1> QED
      BY <1>1, <1>2, <1>3, <1>4, <1>5, <1>6, <1>7, <1>8, <1>9, <1>10, <1>11, <1>12, <1>13
      DEF Next, Consolidate, Faults

\* A run in progress holds the gc lock, whatever refs, hints and packs there
\* are, and a lookup makes at most LOOKUP_ATTEMPTS attempts.
THEOREM TypeCorrect == Spec => []TypeOK
  <1>1. Types => TypeOK
      BY DEF Types, TypeOK, Lookups, LOOKUP_ATTEMPTS
  <1> QED
      BY <1>1, TypesInit, TypesStep, PTL DEF Spec

\* No step, kill, power loss or foreign gc leaves an index over a missing pack:
\* install_pack makes the .pack durable before it renames the .idx in, and
\* supersede_packs removes the .idx first.
THEOREM IndexNeverDangles == Spec => []IndexHasPack
  <1>1. Init => Types /\ FileOrder
      BY TypesInit DEF Init, FileOrder, Idle
  <1>2. Types /\ FileOrder /\ [Next]_vars => Types' /\ FileOrder'
      BY TypesStep, FileOrderStep
  <1>3. FileOrder => IndexHasPack
      BY DEF FileOrder, IndexHasPack
  <1> QED
      BY <1>1, <1>2, <1>3, PTL DEF Spec

-----------------------------------------------------------------------------
(* Nothing is lost                                                          *)

Keeps == (\A o \in Available : Stable(o)') /\ Available' \subseteq Available
Files == <<loose, foreign, packFile, idxFile, volatile>>

\* A pack is readable once it has its index.
LEMMA AvailableIs ==
  ASSUME FileOrder
  PROVE  \A o : o \in Available <=> o \in loose \/ o \in foreign \/ \E s \in idxFile : o \in s.objects
  BY DEF FileOrder, Available, Packed

\* A step that leaves the files alone keeps every copy.
LEMMA FilesKept ==
  ASSUME Content, UNCHANGED Files PROVE Keeps
  BY DEF Content, Keeps, Files, Stable, Durable, Available, Packed

\* The consolidation keeps every object: it publishes what is stored, prunes
\* what its durable pack holds, and retires packs its own pack contains.
LEMMA RunKeeps ==
  ASSUME Types, FileOrder, FileOrder', Content, GcLock \/ Consolidate PROVE Keeps
  <1> DEFINE Has(o) == o \in loose \/ o \in foreign \/ \E s \in idxFile : o \in s.objects
  <1>a. \A o : o \in Available <=> Has(o)
      BY AvailableIs
  <1>b. \A o : o \in Available' <=> Has(o)'
      BY DEF FileOrder, Available, Packed
  <1>c. \A o \in Available : Stable(o)
      BY DEF Content
  <1>1. CASE GcLock \/ GcRoots \/ GcWalk \/ GcInstalled \/ GcKept \/ GcPruned \/ GcSuperseded
             \/ GcTruncate \/ GcRecord \/ \E t \in gc.todo : GcSurvivor(t)
      <2>1. UNCHANGED Files
          BY <1>1 DEF GcLock, GcRoots, GcWalk, GcInstalled, GcKept, GcPruned, GcSuperseded,
                      GcTruncate, GcRecord, GcSurvivor, GcOnly, disk, Files
      <2> QED
          BY <2>1, FilesKept
  <1>2. CASE GcPublishPack \/ GcKeep
      <2>1. /\ UNCHANGED <<loose, foreign, idxFile>>
            /\ \A s : <<"idx", s>> \in volatile' => <<"idx", s>> \in volatile
          BY <1>2 DEF GcPublishPack, GcKeep, GcOnly
      <2> QED
          BY <1>a, <1>b, <1>c, <2>1 DEF Keeps, Stable, Durable
  <1>3. CASE GcSyncPack \/ GcSyncIdx \/ GcSyncKeep
      <2>1. UNCHANGED <<loose, foreign, idxFile>> /\ volatile' = {}
          BY <1>3 DEF GcSyncPack, GcSyncIdx, GcSyncKeep, FsyncDir, GcOnly
      <2> QED
          BY <1>a, <1>b, <1>c, <2>1 DEF Keeps, Stable, Durable
  <1>4. CASE GcPublishIdx
      <2>1. /\ UNCHANGED <<loose, foreign>>
            /\ idxFile' = idxFile \cup {gc.stem}
            /\ volatile' = volatile \cup {<<"idx", gc.stem>>}
          BY <1>4 DEF GcPublishIdx, GcOnly
      <2>2. gc.stem \notin idxFile /\ gc.stem.objects \subseteq Available
          BY <1>4 DEF GcPublishIdx, FileOrder, Content, RunInv, Planned, Indexed, Settled
      <2>3. \A o \in Available : Stable(o)'
          BY <1>c, <2>1, <2>2 DEF Stable, Durable
      <2>4. Available' \subseteq Available
          BY <1>a, <1>b, <2>1, <2>2
      <2> QED
          BY <2>3, <2>4 DEF Keeps
  <1>5. CASE GcPruneLoose
      <2>1. PICK p \in gc.stem.objects : loose' = loose \ {p}
          BY <1>5 DEF GcPruneLoose, Prunable
      <2>2. UNCHANGED <<foreign, idxFile, volatile>>
          BY <1>5 DEF GcPruneLoose, GcOnly, disk
      <2>3. Durable(gc.stem) \/ gc.stem.objects \subseteq foreign
          BY <1>5 DEF GcPruneLoose, Content, RunInv, Settled
      <2>4. gc.stem \in Stems
          BY <1>5 DEF GcPruneLoose, Types, Planned, Indexed, Settled
      <2>5. \A o \in Available : Stable(o)'
          BY <1>c, <2>1, <2>2, <2>3, <2>4 DEF Stable, Durable
      <2>6. Available' \subseteq Available
          BY <1>a, <1>b, <2>1, <2>2
      <2> QED
          BY <2>5, <2>6 DEF Keeps
  <1>6. CASE \E t \in gc.todo : GcRetireIdx(t)
      <2> PICK t \in gc.todo : GcRetireIdx(t)
          BY <1>6
      <2>1. /\ UNCHANGED <<loose, foreign>>
            /\ idxFile' = idxFile \ {t}
            /\ volatile' = volatile \ {<<"idx", t>>}
            /\ t \in idxFile => t.objects \subseteq gc.stem.objects
          BY DEF GcRetireIdx, GcOnly, Contained
      <2>2. /\ Durable(gc.stem) \/ gc.stem.objects \subseteq foreign
            /\ gc.stem # t
          BY DEF GcRetireIdx, Content, RunInv, Settled
      <2>3. gc.stem \in Stems
          BY DEF GcRetireIdx, Types, Planned, Indexed, Settled
      <2>4. \A o \in Available : Stable(o)'
          BY <1>c, <2>1, <2>2, <2>3 DEF Stable, Durable
      <2>5. Available' \subseteq Available
          BY <1>a, <1>b, <2>1
      <2> QED
          BY <2>4, <2>5 DEF Keeps
  <1>7. CASE GcRetirePack
      <2>1. /\ UNCHANGED <<loose, foreign, idxFile>>
            /\ volatile' \subseteq volatile
          BY <1>7 DEF GcRetirePack, GcOnly
      <2> QED
          BY <1>a, <1>b, <1>c, <2>1 DEF Keeps, Stable, Durable
  <1> QED
      BY <1>1, <1>2, <1>3, <1>4, <1>5, <1>6, <1>7 DEF Consolidate

\* So do a kill, a power loss, a foreign gc, refs and lookups.
LEMMA OthersKeep ==
  ASSUME Types, FileOrder, FileOrder', Content,
         \/ Faults \/ Reader \/ UNCHANGED vars \/ RecordBaseHint
         \/ \E r \in AllRefs, o \in Objects : SetRef(r, o)
         \/ \E r \in AllRefs : DeleteRef(r)
  PROVE  Keeps
  <1> DEFINE Has(o) == o \in loose \/ o \in foreign \/ \E s \in idxFile : o \in s.objects
  <1>a. \A o : o \in Available <=> Has(o)
      BY AvailableIs
  <1>b. \A o : o \in Available' <=> Has(o)'
      BY DEF FileOrder, Available, Packed
  <1>c. \A o \in Available : Stable(o)
      BY DEF Content
  <1>1. CASE Faults
      <2>1. CASE GcStop \/ ClearLock
          <3>1. UNCHANGED Files
              BY <2>1 DEF GcStop, ClearLock, disk, Files
          <3> QED
              BY <3>1, FilesKept
      <2>2. CASE PowerLoss
          <3>1. PICK lost \in SUBSET volatile : idxFile' = {s \in idxFile : <<"idx", s>> \notin lost}
              BY <2>2 DEF PowerLoss
          <3>2. UNCHANGED <<loose, foreign>> /\ volatile' = {}
              BY <2>2 DEF PowerLoss
          <3>3. \A o \in Available : Stable(o)'
              BY <1>c, <3>1, <3>2 DEF Stable, Durable
          <3>4. Available' \subseteq Available
              BY <1>a, <1>b, <3>1, <3>2
          <3> QED
              BY <3>3, <3>4 DEF Keeps
      <2>3. CASE Writeback
          <3>1. UNCHANGED <<loose, foreign, idxFile>> /\ volatile' = {}
              BY <2>3 DEF Writeback
          <3> QED
              BY <1>a, <1>b, <1>c, <3>1 DEF Keeps, Stable, Durable
      <2>4. CASE ForeignRepack
          <3> DEFINE mine == (packFile \cap idxFile) \ keepFile
          <3>1. /\ foreign' = foreign \cup loose \cup UNION {s.objects : s \in mine}
                /\ loose' = {}
                /\ idxFile' = idxFile \ mine
                /\ volatile' = {v \in volatile : v[2] \notin mine}
              BY <2>4 DEF ForeignRepack
          <3>2. mine \subseteq idxFile
              OBVIOUS
          <3> HIDE DEF mine
          <3>3. Available' \subseteq Available
              BY <1>a, <1>b, <3>1, <3>2
          <3>4. \A s \in Stems : Durable(s) => s \in mine \/ Durable(s)'
              BY <3>1 DEF Durable
          <3>5. \A o \in Available : Stable(o)'
              BY <1>c, <3>1, <3>4 DEF Stable
          <3> QED
              BY <3>3, <3>5 DEF Keeps
      <2> QED
          BY <1>1, <2>1, <2>2, <2>3, <2>4 DEF Faults
  <1>2. CASE ~Faults
      <2>1. UNCHANGED Files
          BY <1>2 DEF Reader, Lookup, SearchPacks, SearchLoose, OpenLoose, LookupDone, Reading,
             vars, disk, Files, RecordBaseHint, SetRef, DeleteRef
      <2> QED
          BY <2>1, FilesKept
  <1> QED
      BY <1>1, <1>2

\* A write adds one object, above what it names; no other step adds any.
LEMMA OnlyGrows ==
  ASSUME Types, FileOrder, FileOrder', Content, [Next]_vars
  PROVE  \/ Keeps /\ Available' = Available
         \/ \E o \in Objects : /\ Kids[o] \subseteq Available /\ Available' = Available \cup {o}
                               /\ Write(o)
  <1>1. CASE \E o \in Objects : Write(o)
      <2> PICK o \in Objects : Write(o)
          BY <1>1
      <2>1. Available' = Available \cup {o}
          BY DEF Write, disk, Available, Packed
      <2> QED
          BY <2>1 DEF Write
  <1>2. CASE ~(\E o \in Objects : Write(o))
      <2>1. Keeps
          BY <1>2, RunKeeps, OthersKeep DEF Next, Writers
      <2>2. \A o : Stable(o)' => o \in Available'
          BY DEF FileOrder, Available, Packed, Stable, Durable
      <2> QED
          BY <2>1, <2>2 DEF Keeps
  <1> QED
      BY <1>1, <1>2

\* A run keeps what it knows of its pack: what it lists is stored, and from the
\* second fsync on it is durable or a foreign gc holds its objects.
LEMMA RunInvStep ==
  ASSUME Types, FileOrder, RunInv, Available \subseteq Available', MarkedIsDurable, [Next]_vars
  PROVE  RunInv'
  <1> DEFINE Pack == gc'.stem = gc.stem /\ foreign \subseteq foreign'
  <1>1. CASE Writers \/ Reader \/ ClearLock \/ GcPruneLoose \/ UNCHANGED vars
      <2>1. UNCHANGED <<idxFile, volatile, foreign, gc>>
          BY <1>1 DEF Writers, Write, SetRef, DeleteRef, RecordBaseHint, ClearLock, vars, disk,
             Reader, Lookup, SearchPacks, SearchLoose, OpenLoose, LookupDone, Reading,
             GcPruneLoose, GcOnly
      <2> QED
          BY <2>1 DEF RunInv, Durable
  <1>2. CASE GcLock \/ GcRoots \/ GcRecord \/ GcStop \/ PowerLoss
      <2>1. gc'.pc \in {"idle", "roots", "walk"}
          <3>1. CASE GcRoots
              BY <3>1 DEF GcRoots, Types, Run
          <3>2. CASE GcLock
              BY <3>2 DEF GcLock, Idle
          <3>3. CASE GcRecord \/ GcStop \/ PowerLoss
              BY <3>3 DEF GcRecord, GcStop, PowerLoss, Idle
          <3> QED
              BY <1>2, <3>1, <3>2, <3>3
      <2> QED
          BY <2>1 DEF RunInv, Planned, Indexed, Settled
  <1>3. CASE GcWalk
      <2>1. gc'.pc = "install" /\ gc'.stem.objects = Reach(Held(GraphRefs, gc.seen))
          BY <1>3 DEF GcWalk, Types, Run
      <2> QED
          BY <2>1, ReachAvailable DEF RunInv, Settled, Indexed
  <1>4. CASE GcInstalled
      <2>1. gc'.pc = "keep" /\ Pack /\ idxFile' = idxFile /\ gc.pc = "install"
          BY <1>4 DEF GcInstalled, GcOnly, Types, Run, disk
      <2>2. gc.stem \in idxFile
          BY <1>4 DEF GcInstalled
      <2> QED
          BY <2>1, <2>2 DEF RunInv, Planned, Indexed, Settled
  <1>5. CASE GcPublishPack \/ GcSyncPack
      <2>1. gc'.pc \in {"syncPack", "index"} /\ Pack /\ gc.pc \in {"install", "syncPack"}
          BY <1>5 DEF GcPublishPack, GcSyncPack, FsyncDir, GcOnly, Types, Run
      <2> QED
          BY <2>1 DEF RunInv, Planned, Indexed, Settled
  <1>6. CASE GcPublishIdx
      <2>1. gc'.pc = "syncIdx" /\ Pack /\ gc.pc = "index" /\ gc.stem \in idxFile'
          BY <1>6 DEF GcPublishIdx, GcOnly, Types, Run
      <2> QED
          BY <2>1 DEF RunInv, Planned, Indexed, Settled
  <1>7. CASE GcSyncIdx \/ GcSyncKeep
      <2>1. /\ gc'.pc \in {"keep", "prune"} /\ Pack /\ gc.pc \in Indexed
            /\ volatile' = {} /\ idxFile' = idxFile
          BY <1>7 DEF GcSyncIdx, GcSyncKeep, FsyncDir, GcOnly, Types, Run, Indexed
      <2> QED
          BY <2>1 DEF RunInv, Planned, Indexed, Settled, Durable
  <1>15. CASE GcKept
      <2>1. gc'.pc = "prune" /\ Pack /\ gc.pc = "keep" /\ UNCHANGED <<idxFile, volatile>>
          BY <1>15 DEF GcKept, GcOnly, Types, Run, disk
      <2>2. Durable(gc.stem) \/ gc.stem.objects \subseteq foreign
          BY <1>15, <2>1 DEF GcKept, MarkedIsDurable, RunInv, Indexed, Durable
      <2> QED
          BY <2>1, <2>2 DEF RunInv, Planned, Settled, Indexed, Durable
  <1>16. CASE GcKeep
      <2>1. gc'.pc = "syncKeep" /\ Pack /\ gc.pc = "keep" /\ idxFile' = idxFile
          BY <1>16 DEF GcKeep, GcOnly, Types, Run
      <2> QED
          BY <2>1 DEF RunInv, Planned, Indexed, Settled
  <1>8. CASE GcSuperseded \/ GcTruncate
      <2>1. /\ gc'.pc \in {"truncate", "write"} /\ Pack
            /\ gc.pc \in {"supersede", "truncate"} /\ UNCHANGED <<idxFile, volatile>>
          BY <1>8 DEF GcSuperseded, GcTruncate, GcOnly, Types, Run, disk
      <2> QED
          BY <2>1 DEF RunInv, Planned, Indexed, Settled, Durable
  <1>9. CASE GcPruned
      <2>1. /\ gc'.pc \in {"supersede", "truncate"} /\ Pack /\ gc.pc = "prune"
            /\ UNCHANGED <<idxFile, volatile>>
            /\ gc'.pc = "supersede" => gc.stem \notin gc'.todo
          BY <1>9 DEF GcPruned, GcOnly, Types, Run, disk
      <2> QED
          BY <2>1 DEF RunInv, Planned, Indexed, Settled, Durable
  <1>10. CASE \E t \in gc.todo : GcSurvivor(t)
      <2>1. /\ gc'.pc = "supersede" /\ Pack /\ gc.pc = "supersede"
            /\ UNCHANGED <<idxFile, volatile>> /\ gc'.todo \subseteq gc.todo
          BY <1>10 DEF GcSurvivor, GcOnly, Types, Run, disk
      <2> QED
          BY <2>1 DEF RunInv, Planned, Indexed, Settled, Durable
  <1>11. CASE \E t \in gc.todo : GcRetireIdx(t)
      <2> PICK t \in gc.todo : GcRetireIdx(t)
          BY <1>11
      <2>1. /\ gc'.pc = "retire" /\ Pack /\ gc.pc = "supersede" /\ gc'.todo \subseteq gc.todo
            /\ idxFile' = idxFile \ {t} /\ volatile' \subseteq volatile
          BY DEF GcRetireIdx, GcOnly, Types, Run
      <2> QED
          BY <2>1 DEF RunInv, Planned, Indexed, Settled, Durable
  <1>12. CASE GcRetirePack
      <2>1. /\ gc'.pc = "supersede" /\ Pack /\ gc.pc = "retire" /\ gc'.todo = gc.todo
            /\ idxFile' = idxFile /\ volatile' \subseteq volatile
          BY <1>12 DEF GcRetirePack, GcOnly, Types, Run
      <2> QED
          BY <2>1 DEF RunInv, Planned, Indexed, Settled, Durable
  <1>13. CASE Writeback
      <2>1. UNCHANGED <<gc, idxFile, foreign>> /\ volatile' = {}
          BY <1>13 DEF Writeback
      <2> QED
          BY <2>1 DEF RunInv, Durable
  <1>14. CASE ForeignRepack
      <2> DEFINE mine == (packFile \cap idxFile) \ keepFile
      <2>1. /\ foreign' = foreign \cup loose \cup UNION {s.objects : s \in mine}
            /\ idxFile' = idxFile \ mine /\ volatile' \subseteq volatile
            /\ gc' = gc
          BY <1>14 DEF ForeignRepack
      <2> HIDE DEF mine
      <2> QED
          BY <2>1 DEF RunInv, Durable
  <1> QED
      BY <1>1, <1>2, <1>3, <1>4, <1>5, <1>6, <1>7, <1>8, <1>9, <1>10, <1>11, <1>12, <1>13, <1>14,
         <1>15, <1>16
      DEF Next, Consolidate, Faults

\* The snapshot of the refs a run holds is its own, or is empty.
LEMMA SeenStep ==
  ASSUME Types, [Next]_vars
  PROVE  \/ gc'.seen = gc.seen
         \/ gc'.seen = refs
         \/ gc'.seen = [r \in AllRefs |-> None]
  <1>1. CASE GcLock \/ GcRecord \/ GcStop \/ PowerLoss
      <2>1. CASE GcLock
          BY <2>1 DEF GcLock, Idle
      <2>2. CASE GcRecord
          BY <2>2 DEF GcRecord, Idle
      <2>3. CASE GcStop
          BY <2>3 DEF GcStop, Idle
      <2>4. CASE PowerLoss
          <3>1. gc' = Idle
              BY <2>4 DEF PowerLoss
          <3> QED
              BY <3>1 DEF Idle
      <2> QED
          BY <1>1, <2>1, <2>2, <2>3, <2>4
  <1>2. CASE GcRoots
      BY <1>2 DEF GcRoots, Types, Run
  <1>3. CASE Writers \/ Reader \/ ClearLock \/ UNCHANGED vars \/ Writeback \/ ForeignRepack
             \/ GcPruneLoose
      BY <1>3 DEF Writers, Write, SetRef, DeleteRef, RecordBaseHint, ClearLock, vars,
             Reader, Lookup, SearchPacks, SearchLoose, OpenLoose, LookupDone, Reading,
             Writeback, ForeignRepack, GcPruneLoose
  <1>4. CASE GcWalk \/ GcInstalled \/ GcPublishPack \/ GcSyncPack \/ GcPublishIdx \/ GcSyncIdx
             \/ GcKept \/ GcKeep \/ GcSyncKeep \/ GcPruned \/ GcRetirePack \/ GcSuperseded \/ GcTruncate
      BY <1>4 DEF GcWalk, GcInstalled, GcPublishPack, GcSyncPack, GcPublishIdx, GcSyncIdx, FsyncDir,
             GcKept, GcKeep, GcSyncKeep, GcPruned, GcRetirePack, GcSuperseded, GcTruncate, Types, Run
  <1>5. CASE \E s \in gc.todo : GcSurvivor(s) \/ GcRetireIdx(s)
      BY <1>5 DEF GcSurvivor, GcRetireIdx, Types, Run
  <1> QED
      BY <1>1, <1>2, <1>3, <1>4, <1>5 DEF Next, Consolidate, Faults

\* Every step keeps the objects, their copies and the names of them.
LEMMA ContentStep ==
  ASSUME Types, FileOrder, FileOrder', Content, MarkedIsDurable, [Next]_vars
  PROVE  Content' /\ Available \subseteq Available'
  <1>1. Available \subseteq Available'
      BY OnlyGrows
  <1>2. \A o \in Available' : Stable(o)' /\ Kids[o] \subseteq Available'
      <2>1. CASE Keeps /\ Available' = Available
          BY <2>1 DEF Keeps, Content
      <2>2. ASSUME NEW p \in Objects, Kids[p] \subseteq Available,
                   Available' = Available \cup {p}, Write(p)
            PROVE  \A o \in Available' : Stable(o)' /\ Kids[o] \subseteq Available'
          <3>1. \A o \in Available : Stable(o)'
              BY <2>2 DEF Content, Write, Stable, Durable, disk
          <3>2. Stable(p)'
              BY <2>2 DEF Write, Stable
          <3> QED
              BY <2>2, <3>1, <3>2 DEF Content
      <2> QED
          BY <2>1, <2>2, OnlyGrows
  <1>3. \A r \in AllRefs : refs'[r] # None => refs'[r] \in Available'
      <2>1. CASE \E r \in AllRefs, o \in Objects : SetRef(r, o)
          BY <1>1, <2>1 DEF SetRef, Content, Types
      <2>2. CASE \E r \in AllRefs : DeleteRef(r)
          BY <1>1, <2>2 DEF DeleteRef, Content, Types
      <2>3. CASE refs' = refs
          BY <1>1, <2>3 DEF Content
      <2>4. \/ refs' = refs
            \/ \E r \in AllRefs, o \in Objects : SetRef(r, o)
            \/ \E r \in AllRefs : DeleteRef(r)
          <3>1. GcLock \/ Consolidate => refs' = refs
              BY DEF GcLock, Consolidate, GcRoots, GcWalk, GcInstalled, GcPublishPack, GcSyncPack,
                 GcPublishIdx, GcSyncIdx, FsyncDir, GcKept, GcKeep, GcSyncKeep, GcPruneLoose,
                 GcPruned, GcSurvivor,
                 GcRetireIdx, GcRetirePack, GcSuperseded, GcTruncate, GcRecord, GcOnly
          <3>2. Faults \/ Reader \/ UNCHANGED vars => refs' = refs
              BY DEF Faults, GcStop, PowerLoss, Writeback, ClearLock, ForeignRepack, Reader, vars,
                 Lookup, SearchPacks, SearchLoose, OpenLoose, LookupDone, Reading
          <3> QED
              BY <3>1, <3>2 DEF Next, Writers, Write, RecordBaseHint
      <2> QED
          BY <2>1, <2>2, <2>3, <2>4
  <1>4. \A r \in AllRefs : gc'.seen[r] # None => gc'.seen[r] \in Available'
      BY <1>1, SeenStep DEF Content
  <1>5. RunInv'
      BY <1>1, RunInvStep DEF Content
  <1> QED
      BY <1>1, <1>2, <1>3, <1>4, <1>5 DEF Content

-----------------------------------------------------------------------------
(* The guard                                                                *)

\* A plan is made by the walk and keeps its guard and its snapshot.
LEMMA PlanStep ==
  ASSUME Types, [Next]_vars, gc'.pc \in Planned
  PROVE  GcWalk \/ (gc.pc \in Planned /\ gc'.guard = gc.guard /\ gc'.seen = gc.seen)
  <1>1. ~GcLock /\ ~GcRecord /\ ~GcStop /\ ~PowerLoss
      <2>1. GcLock => gc'.pc = "roots"
          BY DEF GcLock, Idle
      <2>2. GcRecord \/ GcStop \/ PowerLoss => gc'.pc = "idle"
          <3>1. Idle.pc = "idle"
              BY DEF Idle
          <3>2. GcRecord \/ GcStop \/ PowerLoss => gc' = Idle
              BY DEF GcRecord, GcStop, PowerLoss
          <3> QED
              BY <3>1, <3>2
      <2> QED
          BY <2>1, <2>2 DEF Planned, Indexed, Settled
  <1>2. ~GcRoots
      BY DEF GcRoots, Types, Run, Planned, Indexed, Settled
  <1>3. CASE Writers \/ Reader \/ ClearLock \/ UNCHANGED vars \/ Writeback \/ ForeignRepack
             \/ GcPruneLoose
      BY <1>3 DEF Writers, Write, SetRef, DeleteRef, RecordBaseHint, ClearLock, vars,
             Reader, Lookup, SearchPacks, SearchLoose, OpenLoose, LookupDone, Reading,
             Writeback, ForeignRepack, GcPruneLoose
  <1>4. CASE GcInstalled \/ GcPublishPack \/ GcSyncPack \/ GcPublishIdx \/ GcSyncIdx
             \/ GcKept \/ GcKeep \/ GcSyncKeep \/ GcPruned \/ GcRetirePack \/ GcSuperseded \/ GcTruncate
      BY <1>4 DEF GcInstalled, GcPublishPack, GcSyncPack, GcPublishIdx, GcSyncIdx, FsyncDir,
             GcKept, GcKeep, GcSyncKeep, GcPruned, GcRetirePack, GcSuperseded, GcTruncate,
             Types, Run, Planned, Indexed, Settled
  <1>5. CASE \E s \in gc.todo : GcSurvivor(s) \/ GcRetireIdx(s)
      BY <1>5 DEF GcSurvivor, GcRetireIdx, Types, Run, Planned, Indexed, Settled
  <1> QED
      BY <1>1, <1>2, <1>3, <1>4, <1>5 DEF Next, Consolidate, Faults

\* A walk returns its roots and is closed under what its objects name.
LEMMA ReachClosed ==
  ASSUME NEW S, \A o \in Available : Kids[o] \subseteq Available
  PROVE  /\ S \cap Available \subseteq Reach(S)
         /\ \A o \in Reach(S) : Kids[o] \subseteq Reach(S)
  BY DEF Reach, Closed

\* A walk stays inside every closed set of stored objects that holds its roots.
LEMMA ReachLeast ==
  ASSUME NEW S, NEW T \in SUBSET Available, S \subseteq T, \A o \in T : Kids[o] \subseteq T
  PROVE  Reach(S) \subseteq T
  BY DEF Reach, Closed

\* The guard keeps what the code refs reached.
LEMMA GuardedStep ==
  ASSUME Types, Content, Guarded, Available \subseteq Available', [Next]_vars PROVE Guarded'
  <1> SUFFICES ASSUME gc'.pc \in Planned PROVE Guarded'
      BY DEF Guarded
  <1>1. CASE GcWalk
      <2> DEFINE S == Held(CodeRefs, gc.seen)
      <2>1. gc'.guard = Reach(S) /\ gc'.seen = gc.seen
          BY <1>1 DEF GcWalk, Types, Run
      <2>2. \A r \in CodeRefs : gc.seen[r] # None => gc.seen[r] \in S \cap Available
          BY DEF Content, Held, AllRefs
      <2> HIDE DEF S
      <2>3. S \cap Available \subseteq Reach(S) /\ \A o \in Reach(S) : Kids[o] \subseteq Reach(S)
          BY ReachClosed DEF Content
      <2> QED
          BY <2>1, <2>2, <2>3, ReachAvailable DEF Guarded
  <1>2. CASE gc.pc \in Planned /\ gc'.guard = gc.guard /\ gc'.seen = gc.seen
      BY <1>2 DEF Guarded
  <1> QED
      BY <1>1, <1>2, PlanStep

-----------------------------------------------------------------------------
(* Lookups                                                                  *)

\* A stored object never becomes loose again.
LEMMA LooseOnce ==
  ASSUME [Next]_vars PROVE \A o \in Available : o \in loose' => o \in loose
  <1>1. CASE \E o \in Objects : Write(o)
      BY <1>1 DEF Write
  <1>2. CASE GcPruneLoose \/ ForeignRepack
      BY <1>2 DEF GcPruneLoose, ForeignRepack
  <1>3. GcLock \/ (Consolidate /\ ~GcPruneLoose) => loose' = loose
      BY DEF GcLock, Consolidate, GcRoots, GcWalk, GcInstalled, GcPublishPack, GcSyncPack,
         GcPublishIdx, GcSyncIdx, FsyncDir, GcKept, GcKeep, GcSyncKeep, GcPruned, GcSurvivor,
         GcRetireIdx, GcRetirePack, GcSuperseded, GcTruncate, GcRecord
  <1>4. (Faults /\ ~ForeignRepack) \/ Reader \/ UNCHANGED vars => loose' = loose
      BY DEF Faults, GcStop, PowerLoss, Writeback, ClearLock, Reader, vars,
         Lookup, SearchPacks, SearchLoose, OpenLoose, LookupDone, Reading
  <1> QED
      BY <1>1, <1>2, <1>3, <1>4 DEF Next, Writers, SetRef, DeleteRef, RecordBaseHint

\* Other processes leave a lookup alone, except that power loss ends it.
LEMMA ReaderAlone ==
  ASSUME [Next]_vars, ~Reader PROVE reader' = reader \/ PowerLoss
  <1>1. GcLock \/ Consolidate => reader' = reader
      BY DEF GcLock, Consolidate, GcRoots, GcWalk, GcInstalled, GcPublishPack, GcSyncPack,
         GcPublishIdx, GcSyncIdx, FsyncDir, GcKept, GcKeep, GcSyncKeep, GcPruneLoose, GcPruned,
         GcSurvivor,
         GcRetireIdx, GcRetirePack, GcSuperseded, GcTruncate, GcRecord, GcOnly
  <1>2. (Faults /\ ~PowerLoss) \/ UNCHANGED vars => reader' = reader
      BY DEF Faults, GcStop, Writeback, ClearLock, ForeignRepack, vars
  <1> QED
      BY <1>1, <1>2 DEF Next, Writers, Write, SetRef, DeleteRef, RecordBaseHint

\* What each step of a lookup comes to: the refresh of a search never finds
\* the indexes unchanged, and the one miss is a loose file pruned under it.
Steps ==
  \/ \E o \in Available : reader.pc = "quiet" /\ o \in Probed
        /\ reader' = [reader EXCEPT !.pc = "packs", !.object = o, !.attempt = 1]
  \/ reader.pc \in {"packs", "open"} /\ reader' = [reader EXCEPT !.pc = "found"]
  \/ reader.pc = "packs" /\ reader.object \notin reader.known /\ Listed = {}
        /\ reader' = [reader EXCEPT !.pc = "loose"]
  \/ reader.pc \in {"packs", "loose"}
        /\ reader' = [reader EXCEPT !.pc = "packs", !.view = idxFile, !.known = foreign]
  \/ reader.pc = "loose" /\ reader.object \in loose /\ reader' = [reader EXCEPT !.pc = "open"]
  \/ reader.pc = "open" /\ reader.object \notin loose
        /\ reader' = [reader EXCEPT !.pc = "packs", !.attempt = @ + 1]
  \/ reader.pc = "found"
        /\ reader' = [reader EXCEPT !.pc = "quiet", !.object = None, !.attempt = 0]

LEMMA LookupSteps ==
  ASSUME Types, FileOrder, LookupInv, Reader PROVE Steps
  <1>1. CASE \E o \in Probed : Lookup(o)
      BY <1>1 DEF Lookup, Reading, Steps
  <1>2. CASE SearchPacks
      <2>1. CASE reader.object \in reader.known \/ Listed \cap packFile # {}
          BY <1>2, <2>1 DEF SearchPacks, Reading, Steps
      <2>2. CASE reader.object \notin reader.known /\ Listed = {}
          BY <1>2, <2>2 DEF SearchPacks, Reading, Steps
      <2>3. CASE Listed # {} /\ Listed \cap packFile = {} /\ reader.object \notin reader.known
          <3>1. reader.view # idxFile
              BY <2>3 DEF Listed, FileOrder
          <3> QED
              BY <1>2, <2>3, <3>1 DEF SearchPacks, Reading, Refresh, Steps
      <2> QED
          BY <2>1, <2>2, <2>3
  <1>3. CASE SearchLoose
      <2>1. CASE reader.object \in loose
          BY <1>3, <2>1 DEF SearchLoose, Reading, Steps
      <2>2. CASE reader.object \notin loose
          <3>1. reader.object \in Available /\ reader.object \notin reader.known /\ Listed = {}
              BY <1>3 DEF SearchLoose, LookupInv
          <3>2. ~(reader.view = idxFile /\ reader.known = foreign)
              BY <2>2, <3>1, AvailableIs DEF Listed
          <3> QED
              BY <1>3, <2>2, <3>2 DEF SearchLoose, Reading, Refresh, Steps
      <2> QED
          BY <2>1, <2>2
  <1>4. CASE OpenLoose
      <2>1. CASE reader.object \in loose
          BY <1>4, <2>1 DEF OpenLoose, Reading, Steps
      <2>2. CASE reader.object \notin loose
          <3>1. reader.attempt < LOOKUP_ATTEMPTS
              BY DEF LookupInv, LOOKUP_ATTEMPTS
          <3> QED
              BY <1>4, <2>2, <3>1 DEF OpenLoose, Reading, Miss, Steps
      <2> QED
          BY <2>1, <2>2
  <1>5. CASE LookupDone
      BY <1>5 DEF LookupDone, Reading, LookupInv, Steps
  <1> QED
      BY <1>1, <1>2, <1>3, <1>4, <1>5 DEF Reader

\* Every step keeps a lookup on its way to the object.
LEMMA LookupStep ==
  ASSUME Types, FileOrder, LookupInv, Available \subseteq Available', [Next]_vars
  PROVE  LookupInv'
  <1>1. CASE ~Reader /\ reader' = reader
      <2>1. Listed' = Listed
          BY <1>1 DEF Listed
      <2>2. reader.attempt = 2 => reader.pc # "quiet"
          BY DEF LookupInv
      <2>3. reader.attempt = 2 => reader.object \notin loose'
          BY <2>2, LooseOnce DEF LookupInv
      <2> QED
          BY <1>1, <2>1, <2>3 DEF LookupInv
  <1>2. CASE PowerLoss
      BY <1>2 DEF PowerLoss, Quiet, LookupInv
  <1>3. CASE Reader
      <2>1. Steps
          BY <1>3, LookupSteps
      <2>2. loose' = loose
          BY <1>3 DEF Reader, Lookup, SearchPacks, SearchLoose, OpenLoose, LookupDone, Reading
      <2>3. None \notin Available
          BY AvailableObjects, ObjectStoreAssumption DEF ObjectStoreAssumption
      <2> reader \in Lookups /\ reader.attempt \in 0..3
          BY DEF Types, Lookups
      <2> DEFINE Same == reader'.object = reader.object /\ reader'.attempt = reader.attempt
                 Index == reader'.known = reader.known /\ Listed' = Listed
      <2>4. ASSUME NEW o \in Available, o \in Probed, reader.pc = "quiet",
                   reader' = [reader EXCEPT !.pc = "packs", !.object = o, !.attempt = 1]
            PROVE  LookupInv'
          <3>1. reader'.pc = "packs" /\ reader'.object = o /\ reader'.attempt = 1
              BY <2>4 DEF Lookups
          <3> QED
              BY <2>3, <3>1 DEF LookupInv
      <2>5. CASE reader.pc \in {"packs", "open"} /\ reader' = [reader EXCEPT !.pc = "found"]
          <3>1. reader'.pc = "found" /\ Same
              BY <2>5 DEF Lookups
          <3> QED
              BY <2>2, <2>3, <2>5, <3>1 DEF LookupInv
      <2>6. CASE reader.pc = "packs" /\ reader.object \notin reader.known /\ Listed = {}
                 /\ reader' = [reader EXCEPT !.pc = "loose"]
          <3>1. reader'.pc = "loose" /\ Same /\ Index
              BY <2>6 DEF Lookups, Listed
          <3> QED
              BY <2>2, <2>3, <2>6, <3>1 DEF LookupInv
      <2>7. CASE reader.pc \in {"packs", "loose"}
                 /\ reader' = [reader EXCEPT !.pc = "packs", !.view = idxFile, !.known = foreign]
          <3>1. reader'.pc = "packs" /\ Same
              BY <2>7 DEF Lookups
          <3> QED
              BY <2>2, <2>3, <2>7, <3>1 DEF LookupInv
      <2>8. CASE reader.pc = "loose" /\ reader.object \in loose
                 /\ reader' = [reader EXCEPT !.pc = "open"]
          <3>1. reader'.pc = "open" /\ Same /\ Index
              BY <2>8 DEF Lookups, Listed
          <3> QED
              BY <2>2, <2>3, <2>8, <3>1 DEF LookupInv
      <2>9. CASE reader.pc = "open" /\ reader.object \notin loose
                 /\ reader' = [reader EXCEPT !.pc = "packs", !.attempt = @ + 1]
          <3>1. /\ reader'.pc = "packs" /\ reader'.object = reader.object
                /\ reader'.attempt = reader.attempt + 1
              BY <2>9 DEF Lookups
          <3>2. reader.attempt < 2
              BY <2>9 DEF LookupInv
          <3> QED
              BY <2>2, <2>3, <2>9, <3>1, <3>2 DEF LookupInv
      <2>10. CASE reader.pc = "found"
                  /\ reader' = [reader EXCEPT !.pc = "quiet", !.object = None, !.attempt = 0]
          <3>1. reader'.pc = "quiet" /\ reader'.object = None /\ reader'.attempt = 0
              BY <2>10 DEF Lookups
          <3> QED
              BY <3>1 DEF LookupInv
      <2> QED
          BY <2>1, <2>4, <2>5, <2>6, <2>7, <2>8, <2>9, <2>10 DEF Steps
  <1> QED
      BY <1>1, <1>2, <1>3, ReaderAlone

-----------------------------------------------------------------------------
(* The theorems                                                             *)

Inv == Types /\ FileOrder /\ Content /\ Guarded /\ LookupInv

\* The initial state satisfies the invariants.
LEMMA InvInit == Init => Inv
  <1> SUFFICES ASSUME Init PROVE Inv
      OBVIOUS
  <1>1. Available = {} /\ gc.pc = "idle" /\ \A r \in AllRefs : gc.seen[r] = None /\ refs[r] = None
      BY DEF Init, Idle, Available, Packed
  <1>2. FileOrder
      BY DEF Init, FileOrder, Idle
  <1>3. Content /\ Guarded
      BY <1>1 DEF Content, RunInv, Guarded, Planned, Indexed, Settled
  <1>4. LookupInv
      BY DEF Init, Quiet, LookupInv
  <1> QED
      BY <1>2, <1>3, <1>4, TypesInit DEF Inv

\* Every step keeps them, as long as a marked pack is durable.
LEMMA InvStep == Inv /\ MarkedIsDurable /\ [Next]_vars => Inv'
  <1> SUFFICES ASSUME Inv, MarkedIsDurable, [Next]_vars PROVE Inv'
      OBVIOUS
  <1>1. Types' /\ FileOrder'
      BY TypesStep, FileOrderStep DEF Inv
  <1>2. Content' /\ Available \subseteq Available'
      BY <1>1, ContentStep DEF Inv
  <1>3. Guarded' /\ LookupInv'
      BY <1>2, GuardedStep, LookupStep DEF Inv
  <1> QED
      BY <1>1, <1>2, <1>3 DEF Inv

\* Whatever a run deletes and wherever it stops, what every live ref reaches
\* stays whole (prune_loose, supersede_packs), provided that a pack
\* ensure_keep finds marked is durable, as install_pack takes it to be.
THEOREM RefsStayConnected == Spec /\ []MarkedIsDurable => []RefsConnected
  <1>1. Inv => RefsConnected
      <2> SUFFICES ASSUME Inv PROVE RefsConnected
          OBVIOUS
      <2>1. Held(AllRefs, refs) \subseteq Available
          BY DEF Inv, Content, Held
      <2>2. \A o \in Reach(Held(AllRefs, refs)) : Kids[o] \subseteq Available
          BY ReachAvailable DEF Inv, Content
      <2> QED
          BY <2>1, <2>2 DEF RefsConnected
  <1> QED
      BY <1>1, InvInit, InvStep, PTL DEF Spec

\* Only prune_loose and a foreign gc remove loose files.
LEMMA LooseRemoved ==
  ASSUME [Next]_vars, NEW o \in loose, o \notin loose' PROVE GcPruneLoose \/ ForeignRepack
  <1>1. GcLock \/ (Consolidate /\ ~GcPruneLoose) => loose' = loose
      BY DEF GcLock, Consolidate, GcRoots, GcWalk, GcInstalled, GcPublishPack, GcSyncPack,
         GcPublishIdx, GcSyncIdx, FsyncDir, GcKept, GcKeep, GcSyncKeep, GcPruned, GcSurvivor,
         GcRetireIdx, GcRetirePack, GcSuperseded, GcTruncate, GcRecord
  <1>2. (Faults /\ ~ForeignRepack) \/ Reader \/ UNCHANGED vars => loose' = loose
      BY DEF Faults, GcStop, PowerLoss, Writeback, ClearLock, Reader, vars,
         Lookup, SearchPacks, SearchLoose, OpenLoose, LookupDone, Reading
  <1>3. Writers => loose \subseteq loose'
      BY DEF Writers, Write, SetRef, DeleteRef, RecordBaseHint
  <1> QED
      BY <1>1, <1>2, <1>3 DEF Next

\* No run prunes a loose object that a code ref it read still reaches
\* (consolidate_scoped's guard).
THEOREM CodeStorageKept == Spec /\ []MarkedIsDurable => CodeObjectsUntouched
  <1> DEFINE Still == Held({r \in CodeRefs : refs[r] = gc.seen[r]}, refs)
             Step == \A o \in loose \ loose' : repacks' # repacks \/ o \notin Reach(Still)
  <1>1. Inv /\ [Next]_vars => Step
      <2> SUFFICES ASSUME Inv, [Next]_vars, NEW o \in loose, o \notin loose', repacks' = repacks
                   PROVE  o \notin Reach(Still)
          OBVIOUS
      <2>1. GcPruneLoose
          <3>1. ~ForeignRepack
              <4>1. ForeignRepack => repacks' = repacks + 1
                  BY DEF ForeignRepack
              <4> QED
                  BY <4>1 DEF Inv, Types
          <3> QED
              BY <3>1, LooseRemoved
      <2>2. o \notin gc.guard /\ gc.pc \in Planned
          BY <2>1 DEF GcPruneLoose, Prunable, Planned, Indexed, Settled
      <2>3. Still \subseteq gc.guard
          BY <2>2 DEF Inv, Guarded, Held
      <2>4. Reach(Still) \subseteq gc.guard
          <3> HIDE DEF Still
          <3> QED
              BY <2>2, <2>3, ReachLeast DEF Inv, Guarded
      <2> QED
          BY <2>2, <2>4
  <1>2. Inv /\ [Next]_vars =>
          [\A o \in loose \ loose' :
             \/ repacks' /= repacks
             \/ o \notin Reach(Held({r \in CodeRefs : refs[r] = gc.seen[r]}, refs))]_vars
      BY <1>1
  <1> QED
      BY <1>2, InvInit, InvStep, PTL DEF Spec, CodeObjectsUntouched

\* A lookup's own steps are a question, an answer, the end of one, or nothing
\* the promise shows.
LEMMA ReaderRefines ==
  ASSUME Inv, Reader PROVE [Promise!Next]_(Promise!vars)
  <1> DEFINE Shown == IF reader.pc \in {"found", "missing"} THEN reader.pc ELSE None
  <1>1. Steps
      BY LookupSteps DEF Inv
  <1>2. Available' = Available
      BY DEF Reader, Lookup, SearchPacks, SearchLoose, OpenLoose, LookupDone, Reading, disk,
             Available, Packed
  <1> reader \in Lookups
      BY DEF Inv, Types
  <1> USE DEF Promise!Next, Promise!vars
  <1>3. ASSUME NEW o \in Available, reader' = [reader EXCEPT !.pc = "packs", !.object = o, !.attempt = 1]
        PROVE  Promise!Ask
      <2>1. reader'.object = o /\ reader'.pc = "packs"
          BY <1>3 DEF Lookups
      <2> QED
          BY <1>2, <2>1 DEF Promise!Ask
  <1>4. CASE reader.pc \in {"packs", "open"} /\ reader' = [reader EXCEPT !.pc = "found"]
      <2>1. reader'.object = reader.object /\ reader'.pc = "found" /\ reader.object \in Available
          BY <1>4 DEF Lookups, Inv, LookupInv
      <2>2. Promise!Answer
          BY <1>2, <2>1 DEF Promise!Answer
      <2> QED
          BY <2>2
  <1>5. CASE /\ reader.pc \in {"packs", "loose", "open"} /\ reader'.pc \in {"packs", "loose", "open"}
             /\ reader'.object = reader.object
      <2>1. Shown = None /\ Shown' = None
          BY <1>5
      <2> QED
          BY <1>2, <1>5, <2>1
  <1>6. CASE reader' = [reader EXCEPT !.pc = "quiet", !.object = None, !.attempt = 0]
      <2>1. reader'.object = None /\ reader'.pc = "quiet"
          BY <1>6 DEF Lookups
      <2>2. Promise!Forget
          BY <1>2, <2>1 DEF Promise!Forget
      <2> QED
          BY <2>2
  <1> QED
      BY <1>1, <1>3, <1>4, <1>5, <1>6 DEF Steps, Lookups

\* A step of any other process is a write of an object, the end of a lookup,
\* or nothing the promise shows.
LEMMA OthersRefine ==
  ASSUME Inv, FileOrder', [Next]_vars, ~Reader PROVE [Promise!Next]_(Promise!vars)
  <1> USE DEF Promise!Next, Promise!vars
  <1>1. CASE reader' = reader
      <2>1. Available' = Available \/ \E o \in Objects : Available' = Available \cup {o}
          BY OnlyGrows DEF Inv
      <2> QED
          BY <1>1, <2>1 DEF Promise!Put
  <1>2. CASE PowerLoss
      <2>1. Available' = Available
          <3>1. Keeps
              BY <1>2, OthersKeep DEF Inv, Faults
          <3>2. \A o : Stable(o)' => o \in Available'
              BY DEF FileOrder, Available, Packed, Stable, Durable
          <3> QED
              BY <3>1, <3>2 DEF Keeps
      <2>2. reader'.object = None /\ reader'.pc = "quiet"
          BY <1>2 DEF PowerLoss, Quiet
      <2>3. Promise!Forget
          BY <2>1, <2>2 DEF Promise!Forget
      <2> QED
          BY <2>3
  <1> QED
      BY <1>1, <1>2, ReaderAlone

\* The files, packs and indexes, under consolidations, kills, power losses and
\* a foreign gc, implement the database the layers above use: an object that
\* was stored stays stored, and a lookup of one never ends in a miss
\* (LOOKUP_ATTEMPTS, find_object_settled).
THEOREM PromiseKept == Spec /\ []MarkedIsDurable => KeepsPromise
  <1>1. Init => Promise!Init
      <2> SUFFICES ASSUME Init PROVE Promise!Init
          OBVIOUS
      <2>1. reader = Quiet /\ Quiet.object = None /\ Quiet.pc = "quiet"
          BY DEF Init, Quiet
      <2>2. loose = {} /\ foreign = {} /\ packFile = {}
          BY DEF Init
      <2>3. Available = {}
          BY <2>2 DEF Available, Packed
      <2> QED
          BY <2>1, <2>3 DEF Promise!Init
  <1>2. Inv /\ [Next]_vars => [Promise!Next]_(Promise!vars)
      BY ReaderRefines, OthersRefine, TypesStep, FileOrderStep DEF Inv
  <1> QED
      BY <1>1, <1>2, InvInit, InvStep, PTL DEF Spec, KeepsPromise, Promise!Spec
=============================================================================
