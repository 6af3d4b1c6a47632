----------------------------- MODULE ObjectStore -----------------------------
(***************************************************************************)
(* The git object database as acetone-store uses it: loose objects written  *)
(* by commits, `gc` (GitStore::consolidate_scoped) rewriting the reachable  *)
(* set into one content-addressed pack and then pruning what the pack       *)
(* replaces, readers in other processes looking objects up meanwhile, and   *)
(* kills, power losses and a foreign `git gc` in between.                   *)
(*                                                                          *)
(* An object is its address; its bytes never change.  A pack is named by    *)
(* what it holds and by the delta hints it was planned with (the stem is    *)
(* the pack's checksum).                                                    *)
(***************************************************************************)
EXTENDS Naturals, FiniteSets

CONSTANTS
  Objects,      \* object addresses
  Kids,         \* [Objects -> SUBSET Objects]: what an object's bytes name
  GraphRefs,    \* refs the `is_graph_ref` predicate accepts
  CodeRefs,     \* refs it rejects: the co-tenant code's
  Targets,      \* [GraphRefs \cup CodeRefs -> SUBSET Objects]: what each may name
  None,
  MaxRuns,      \* bound: `gc` runs
  MaxHints,     \* bound: base hints recorded
  MaxFaults,    \* bound: kills, power losses and foreign gcs
  Probed        \* the objects lookups ask for

ASSUME ObjectStoreAssumption ==
  /\ Kids \in [Objects -> SUBSET Objects]
  /\ Targets \in [GraphRefs \cup CodeRefs -> SUBSET Objects]
  /\ GraphRefs \cap CodeRefs = {}
  /\ None \notin Objects
  /\ Probed \subseteq Objects
  /\ MaxRuns \in Nat /\ MaxHints \in Nat /\ MaxFaults \in Nat

VARIABLES
  loose,        \* loose object files
  foreign,      \* objects in packs git itself wrote
  packFile, idxFile, keepFile,  \* the stems with a .pack, .idx, .keep file
  volatile,     \* directory entries renamed in but not yet fsynced
  sidecar,      \* acetone-consolidation-packs: the stems to supersede
  hints,        \* lines of acetone-pack-bases
  refs,
  gcLock,       \* acetone-gc.lock exists
  gc,           \* the running consolidation
  reader,       \* one lookup in another process
  runs, faults, repacks         \* counters for the bounds

disk == <<packFile, idxFile, keepFile, volatile>>
counters == <<runs, faults, repacks>>
vars == <<loose, foreign, disk, sidecar, hints, refs, gcLock, gc, reader,
          counters>>

AllRefs == GraphRefs \cup CodeRefs
Stems == [objects : SUBSET Objects, hints : 0..MaxHints]
(* Mutant: a lookup is not retried. *)
OneAttempt == 1
LOOKUP_ATTEMPTS == 3

(* The objects a fresh lookup can reach: a pack counts once it has both files. *)
Packed == foreign \cup UNION {s.objects : s \in packFile \cap idxFile}
Available == loose \cup Packed

(* GitStore::reachable_from: the walk skips an object that is not present. *)
Closed(S) == \A o \in S : Kids[o] \cap Available \subseteq S
Reach(S) ==
  {o \in Available : \A T \in SUBSET Available :
                       S \cap Available \subseteq T /\ Closed(T) => o \in T}

Held(names, at) == {at[r] : r \in {n \in names : at[n] /= None}}

Idle == [pc |-> "idle", seen |-> [r \in AllRefs |-> None], stem |-> None,
         guard |-> {}, todo |-> {}, keep |-> {}, retiring |-> None,
         pruneLoose |-> TRUE, prunePacks |-> TRUE]
Quiet == [pc |-> "quiet", object |-> None, view |-> {}, known |-> {},
          attempt |-> 0]

Init ==
  /\ loose = {} /\ foreign = {} /\ volatile = {}
  /\ packFile = {} /\ idxFile = {} /\ keepFile = {}
  /\ sidecar = {} /\ hints = 0
  /\ refs = [r \in AllRefs |-> None]
  /\ gcLock = FALSE
  /\ gc = Idle
  /\ reader = Quiet
  /\ runs = 0 /\ faults = 0 /\ repacks = 0

-----------------------------------------------------------------------------
(* Writers *)

(* A blob, tree or commit is written after what it names (an anchor must be *)
(* found in the store first); gix writes no second copy of a stored object. *)
Write(o) ==
  /\ Kids[o] \subseteq Available
  /\ o \notin Available
  /\ loose' = loose \cup {o}
  /\ UNCHANGED <<foreign, disk, sidecar, hints, refs, gcLock, gc, reader,
                 counters>>

SetRef(r, o) ==
  /\ o \in Targets[r] \cap Available
  /\ refs[r] /= o
  /\ refs' = [refs EXCEPT ![r] = o]
  /\ UNCHANGED <<loose, foreign, disk, sidecar, hints, gcLock, gc, reader,
                 counters>>

DeleteRef(r) ==
  /\ refs[r] /= None
  /\ refs' = [refs EXCEPT ![r] = None]
  /\ UNCHANGED <<loose, foreign, disk, sidecar, hints, gcLock, gc, reader,
                 counters>>

RecordBaseHint ==
  /\ hints < MaxHints
  /\ hints' = hints + 1
  /\ UNCHANGED <<loose, foreign, disk, sidecar, refs, gcLock, gc, reader,
                 counters>>

-----------------------------------------------------------------------------
(* Consolidation, one file-system step at a time *)

GcOnly == UNCHANGED <<foreign, hints, refs, reader, counters>>

GcLock ==
  /\ gc.pc = "idle" /\ ~gcLock /\ runs < MaxRuns
  /\ gcLock' = TRUE
  /\ runs' = runs + 1
  /\ \E options \in BOOLEAN :
       gc' = [Idle EXCEPT !.pc = "roots", !.pruneLoose = options,
                          !.prunePacks = options]
  /\ UNCHANGED <<loose, foreign, disk, sidecar, hints, refs, reader,
                 faults, repacks>>

(* classify_ref_roots, then the two walks, the plan and the pack in memory.  *)
(* The roots are read once; refs may move before the walks.                  *)
GcRoots ==
  /\ gc.pc = "roots"
  /\ gc' = [gc EXCEPT !.pc = "walk", !.seen = refs]
  /\ GcOnly /\ UNCHANGED <<loose, disk, sidecar, gcLock>>

GcWalk ==
  /\ gc.pc = "walk"
  /\ gc' = [gc EXCEPT
        !.pc = "install",
        !.stem = [objects |-> Reach(Held(GraphRefs, gc.seen)), hints |-> hints],
        !.guard = Reach(Held(CodeRefs, gc.seen))]
  /\ GcOnly /\ UNCHANGED <<loose, disk, sidecar, gcLock>>

(* install_pack: an installed stem is left alone; otherwise the .pack is     *)
(* renamed in, the directory fsynced, then the same for the .idx.            *)
GcInstalled ==
  /\ gc.pc = "install"
  /\ gc.stem \in packFile \cap idxFile
  /\ gc' = [gc EXCEPT !.pc = "keep"]
  /\ GcOnly /\ UNCHANGED <<loose, disk, sidecar, gcLock>>

GcPublishPack ==
  /\ gc.pc = "install"
  /\ gc.stem \notin packFile \cap idxFile
  /\ packFile' = packFile \cup {gc.stem}
  /\ volatile' = volatile \cup {<<"pack", gc.stem>>}
  /\ gc' = [gc EXCEPT !.pc = "syncPack"]
  /\ GcOnly /\ UNCHANGED <<loose, idxFile, keepFile, sidecar, gcLock>>

FsyncDir(from, to) ==
  /\ gc.pc = from
  /\ volatile' = {}
  /\ gc' = [gc EXCEPT !.pc = to]
  /\ GcOnly /\ UNCHANGED <<loose, packFile, idxFile, keepFile, sidecar, gcLock>>

(* Mutant: the directory is not fsynced between the .pack and the .idx. *)
SyncSkipped ==
  /\ gc.pc = "syncPack"
  /\ gc' = [gc EXCEPT !.pc = "index"]
  /\ GcOnly /\ UNCHANGED <<loose, disk, sidecar, gcLock>>

GcSyncPack == FsyncDir("syncPack", "index")

GcPublishIdx ==
  /\ gc.pc = "index"
  /\ idxFile' = idxFile \cup {gc.stem}
  /\ volatile' = volatile \cup {<<"idx", gc.stem>>}
  /\ gc' = [gc EXCEPT !.pc = "syncIdx"]
  /\ GcOnly /\ UNCHANGED <<loose, packFile, keepFile, sidecar, gcLock>>

GcSyncIdx == FsyncDir("syncIdx", "keep")

(* ensure_keep: a marker that is there is left alone; a new one is fsynced,  *)
(* and every entry of the directory with it.                                 *)
GcKept ==
  /\ gc.pc = "keep"
  /\ gc.stem \in keepFile
  /\ gc' = [gc EXCEPT !.pc = "prune"]
  /\ GcOnly /\ UNCHANGED <<loose, disk, sidecar, gcLock>>

GcKeep ==
  /\ gc.pc = "keep"
  /\ gc.stem \notin keepFile
  /\ keepFile' = keepFile \cup {gc.stem}
  /\ volatile' = volatile \cup {<<"keep", gc.stem>>}
  /\ gc' = [gc EXCEPT !.pc = "syncKeep"]
  /\ GcOnly /\ UNCHANGED <<loose, packFile, idxFile, sidecar, gcLock>>

GcSyncKeep == FsyncDir("syncKeep", "prune")

(* Mutant: the code's objects are not guarded. *)
PruneUnguarded == IF gc.pruneLoose THEN gc.stem.objects \cap loose ELSE {}

(* prune_loose: one file at a time, never a guarded one *)
Prunable == IF gc.pruneLoose THEN (gc.stem.objects \ gc.guard) \cap loose ELSE {}

GcPruneLoose ==
  /\ gc.pc = "prune"
  /\ \E o \in Prunable : loose' = loose \ {o}
  /\ GcOnly /\ UNCHANGED <<gc, disk, sidecar, gcLock>>

(* read_pack_stems, at the head of supersede_packs and of record_pack_stem *)
GcPruned ==
  /\ gc.pc = "prune" /\ Prunable = {}
  /\ gc' = IF gc.prunePacks
           THEN [gc EXCEPT !.pc = "supersede", !.todo = sidecar \ {gc.stem},
                           !.keep = {gc.stem}]
           ELSE [gc EXCEPT !.pc = "truncate", !.keep = sidecar \cup {gc.stem}]
  /\ GcOnly /\ UNCHANGED <<loose, disk, sidecar, gcLock>>

(* Mutant: a prior pack goes whatever it holds. *)
AlwaysContained(s) == TRUE

(* A prior pack goes only if every object its index lists is in the new one *)
(* (or the index is already gone); the .idx is removed before the .pack.    *)
(* Removals are taken to reach the disk in the order they are made.         *)
Contained(s) == s \in idxFile => s.objects \subseteq gc.stem.objects

GcSurvivor(s) ==
  /\ gc.pc = "supersede" /\ s \in gc.todo /\ ~Contained(s)
  /\ gc' = [gc EXCEPT !.todo = @ \ {s}, !.keep = @ \cup {s}]
  /\ GcOnly /\ UNCHANGED <<loose, disk, sidecar, gcLock>>

GcRetireIdx(s) ==
  /\ gc.pc = "supersede" /\ s \in gc.todo /\ Contained(s)
  /\ idxFile' = idxFile \ {s}
  /\ volatile' = volatile \ {<<"idx", s>>}
  /\ gc' = [gc EXCEPT !.pc = "retire", !.retiring = s, !.todo = @ \ {s}]
  /\ GcOnly /\ UNCHANGED <<loose, packFile, keepFile, sidecar, gcLock>>

GcRetirePack ==
  /\ gc.pc = "retire"
  /\ packFile' = packFile \ {gc.retiring}
  /\ keepFile' = keepFile \ {gc.retiring}
  /\ volatile' = volatile \ {<<"pack", gc.retiring>>, <<"keep", gc.retiring>>}
  /\ gc' = [gc EXCEPT !.pc = "supersede", !.retiring = None]
  /\ GcOnly /\ UNCHANGED <<loose, idxFile, sidecar, gcLock>>

GcSuperseded ==
  /\ gc.pc = "supersede" /\ gc.todo = {}
  /\ gc' = [gc EXCEPT !.pc = "truncate"]
  /\ GcOnly /\ UNCHANGED <<loose, disk, sidecar, gcLock>>

(* write_pack_stems is std::fs::write: the file is truncated, then written. *)
GcTruncate ==
  /\ gc.pc = "truncate"
  /\ sidecar' = {}
  /\ gc' = [gc EXCEPT !.pc = "write"]
  /\ GcOnly /\ UNCHANGED <<loose, disk, gcLock>>

GcRecord ==
  /\ gc.pc = "write"
  /\ sidecar' = gc.keep
  /\ gcLock' = FALSE
  /\ gc' = Idle
  /\ GcOnly /\ UNCHANGED <<loose, disk>>

-----------------------------------------------------------------------------
(* Faults and the foreign git *)

(* A run stops half way: an error return drops its lock, a kill leaves it.  *)
GcStop ==
  /\ gc.pc /= "idle" /\ faults + repacks < MaxFaults
  /\ faults' = faults + 1
  /\ gcLock' \in BOOLEAN
  /\ gc' = Idle
  /\ UNCHANGED <<loose, foreign, disk, sidecar, hints, refs, reader, runs,
                 repacks>>

(* Power is lost: any directory entry not yet fsynced may be gone. *)
PowerLoss ==
  /\ faults + repacks < MaxFaults
  /\ faults' = faults + 1
  /\ \E lost \in SUBSET volatile :
       /\ packFile' = {s \in packFile : <<"pack", s>> \notin lost}
       /\ idxFile' = {s \in idxFile : <<"idx", s>> \notin lost}
       /\ keepFile' = {s \in keepFile : <<"keep", s>> \notin lost}
  /\ volatile' = {}
  /\ gc' = Idle
  /\ reader' = Quiet
  /\ UNCHANGED <<loose, foreign, sidecar, hints, refs, gcLock, runs, repacks>>

(* The kernel writes the directory back in its own time (external). *)
Writeback ==
  /\ volatile /= {}
  /\ volatile' = {}
  /\ UNCHANGED <<loose, foreign, packFile, idxFile, keepFile, sidecar, hints, refs,
                 gcLock, gc, reader, counters>>

(* The operator deletes the lock file a killed run left behind. *)
ClearLock ==
  /\ gcLock /\ gc.pc = "idle"
  /\ gcLock' = FALSE
  /\ UNCHANGED <<loose, foreign, disk, sidecar, hints, refs, gc, reader,
                 counters>>

(* A foreign `git gc` (external): repacks loose objects and the packs that   *)
(* carry no .keep, and removes what it repacked.                             *)
ForeignRepack ==
  LET mine == (packFile \cap idxFile) \ keepFile
  IN  /\ faults + repacks < MaxFaults
      /\ repacks' = repacks + 1
      /\ foreign' = foreign \cup loose \cup UNION {s.objects : s \in mine}
      /\ loose' = {}
      /\ packFile' = packFile \ mine
      /\ idxFile' = idxFile \ mine
      /\ volatile' = {v \in volatile : v[2] \notin mine}
      /\ UNCHANGED <<keepFile, sidecar, hints, refs, gcLock, gc, reader, runs,
                     faults>>

-----------------------------------------------------------------------------
(* A lookup in another process: gix's search over the indexes it has loaded, *)
(* then the loose files, then a refresh of the indexes (external), inside    *)
(* the retries of find_header and find_object_settled.                       *)

Reading(r) ==
  /\ reader' = r
  /\ UNCHANGED <<loose, foreign, disk, sidecar, hints, refs, gcLock, gc,
                 counters>>

Lookup(o) ==
  /\ reader.pc = "quiet"
  /\ o \in Available
  /\ Reading([reader EXCEPT !.pc = "packs", !.object = o, !.attempt = 1])

Listed == {s \in reader.view : reader.object \in s.objects}

(* An attempt that misses: the next one, or the answer once the last missed. *)
Miss ==
  IF reader.attempt < LOOKUP_ATTEMPTS
  THEN [reader EXCEPT !.pc = "packs", !.attempt = @ + 1]
  ELSE [reader EXCEPT !.pc = "missing"]

(* load_one_index: a changed set of indexes is searched again, an unchanged *)
(* one is a miss.                                                           *)
Refresh ==
  IF reader.view = idxFile /\ reader.known = foreign
  THEN Miss
  ELSE [reader EXCEPT !.pc = "packs", !.view = idxFile, !.known = foreign]

SearchPacks ==
  /\ reader.pc = "packs"
  /\ Reading(IF reader.object \in reader.known \/ Listed \cap packFile /= {}
             THEN [reader EXCEPT !.pc = "found"]
             ELSE IF Listed /= {}
             THEN Refresh           \* an index lists it, its .pack is gone
             ELSE [reader EXCEPT !.pc = "loose"])

SearchLoose ==
  /\ reader.pc = "loose"
  /\ Reading(IF reader.object \in loose
             THEN [reader EXCEPT !.pc = "open"]
             ELSE Refresh)

OpenLoose ==
  /\ reader.pc = "open"
  /\ Reading(IF reader.object \in loose
             THEN [reader EXCEPT !.pc = "found"]
             ELSE Miss)             \* listed, then pruned before the open

(* The caller has its answer; the handle keeps its loaded indexes. *)
LookupDone ==
  /\ reader.pc \in {"found", "missing"}
  /\ Reading([reader EXCEPT !.pc = "quiet", !.object = None, !.attempt = 0])

-----------------------------------------------------------------------------
Writers ==
  \/ \E o \in Objects : Write(o)
  \/ \E r \in AllRefs, o \in Objects : SetRef(r, o)
  \/ \E r \in AllRefs : DeleteRef(r)
  \/ RecordBaseHint

Consolidate ==
  \/ GcRoots \/ GcWalk
  \/ GcInstalled \/ GcPublishPack \/ GcSyncPack \/ GcPublishIdx \/ GcSyncIdx
  \/ GcKept \/ GcKeep \/ GcSyncKeep \/ GcPruneLoose \/ GcPruned
  \/ \E s \in gc.todo : GcSurvivor(s) \/ GcRetireIdx(s)
  \/ GcRetirePack \/ GcSuperseded \/ GcTruncate \/ GcRecord

Faults == GcStop \/ PowerLoss \/ Writeback \/ ClearLock \/ ForeignRepack

Reader ==
  \/ \E o \in Probed : Lookup(o)
  \/ SearchPacks \/ SearchLoose \/ OpenLoose \/ LookupDone

Next == Writers \/ GcLock \/ Consolidate \/ Faults \/ Reader

Spec == Init /\ [][Next]_vars

-----------------------------------------------------------------------------
(* Properties *)

TypeOK ==
  /\ loose \subseteq Objects /\ foreign \subseteq Objects
  /\ packFile \subseteq Stems /\ idxFile \subseteq Stems /\ keepFile \subseteq Stems
  /\ sidecar \subseteq Stems
  /\ volatile \subseteq {"pack", "idx", "keep"} \X Stems
  /\ refs \in [AllRefs -> Objects \cup {None}]
  /\ gcLock \in BOOLEAN
  /\ gc.pc /= "idle" => gcLock
  /\ reader.attempt \in 0..LOOKUP_ATTEMPTS

(* The promise of the layer, whatever gc, faults and readers do: no object   *)
(* that was stored is ever lost, and a lookup of a stored object never ends  *)
(* in a miss (consolidate's "representation-only", LOOKUP_ATTEMPTS).         *)
Promise ==
  INSTANCE ObjectDatabase WITH
    NoAnswer <- None,
    stored <- Available,
    asked <- reader.object,
    answer <- IF reader.pc \in {"found", "missing"} THEN reader.pc ELSE None

KeepsPromise == Promise!Spec

(* install_pack and supersede_packs never leave an index over a missing      *)
(* pack, even across a power loss between any two of their file steps.       *)
IndexHasPack == idxFile \subseteq packFile

(* What every live ref reaches stays whole: git would call the repository    *)
(* connected after any prefix of a run.                                      *)
RefsConnected ==
  LET held == Held(AllRefs, refs)
  IN  /\ held \subseteq Available
      /\ \A o \in Reach(held) : Kids[o] \subseteq Available

(* gc leaves storage the graph does not own exactly as it found it: a loose  *)
(* object reachable from a code ref that has not moved since the run read    *)
(* the refs is never pruned by the run (prune_loose's guard).                *)
CodeObjectsUntouched ==
  [][\A o \in loose \ loose' :
       \/ repacks' /= repacks
       \/ o \notin Reach(Held({r \in CodeRefs : refs[r] = gc.seen[r]}, refs))]_vars

=============================================================================
