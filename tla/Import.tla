-------------------------------- MODULE Import --------------------------------
(***************************************************************************)
(* `acetone import` (acetone-graph import.rs): a source is streamed into the *)
(* workspace in batches, each under its own writer lock, then committed; a  *)
(* failure resets the workspace, and with a target branch the import        *)
(* switches to it and back.  The daemon runs the same import and retries it *)
(* once when it met the lock of a dead writer.  Other writers of the same   *)
(* worktree save, commit, discard or die between the import's steps.        *)
(*                                                                          *)
(* A source record is a node put, an edge put, or one that cannot be read   *)
(* or mapped ("bad").                                                       *)
(***************************************************************************)
EXTENDS Constraints, TLC

CONSTANTS
  Labels,       \* the label definitions
  NodePuts,     \* the node records a source may hold: [key, record]
  EdgePuts,     \* the edges a source may hold: [src, dst]
  OtherPut,     \* the node another writer saves: [key, record]
  MaxSource,    \* bound: records of a source
  BatchSizes,   \* the --batch-size values
  MaxImports,   \* bound: imports
  MaxOps        \* bound: operations of other writers

(* A node record holds values of the declared types: mapping coerced them.   *)
ASSUME ImportAssumption ==
  /\ BatchSizes \subseteq Nat \ {0} /\ MaxSource \in Nat
  /\ \A put \in NodePuts : put.key.label \in DOMAIN Labels =>
       LET def == Labels[put.key.label] IN
       \A p \in DOMAIN def.types : \A x \in Holds(put.key, put.record, def, p) : Matches(def.types[p], x)

VARIABLES
  tips,         \* branch -> [graph, commits] or None; commits: those of its history
  head,         \* the checked-out branch
  ws,           \* the workspace's graph
  lock,         \* the writer lock: free, or another writer's, live or dead
  imp,          \* the import's progress
  tracker,      \* UniqueTracker: [prop, value, key, imported] claims
  others,       \* the commits other writers made
  before,       \* tips, head and ws when the import started
  met,          \* what the import met since: "saved", "locked"
  ops

vars == <<tips, head, ws, lock, imp, tracker, others, before, met, ops>>

Branches == {"main", "side"}
None == [none |-> TRUE]
Bad == [bad |-> TRUE]
Empty == [nodes |-> <<>>, edges |-> {}]
Idle == [pc |-> "idle", runs |-> 0]

(* Every commit made so far; a new one takes the next number.                *)
Commits == (UNION {tips[b].commits : b \in {b \in Branches : tips[b] /= None}}) \cup others
NewCommit(g) ==
  LET last == CHOOSE c \in Commits : \A d \in Commits : d <= c
  IN  [graph |-> g, commits |-> tips[head].commits \cup {last + 1}]

(* Repository::is_dirty: the workspace differs from the checked-out commit.  *)
Dirty == ws /= tips[head].graph

Init ==
  /\ \E g \in {Empty, [nodes |-> (OtherPut.key :> OtherPut.record), edges |-> {}]} :
       /\ ws = g
       /\ tips = [b \in Branches |-> IF b = "main" THEN [graph |-> g, commits |-> {1}] ELSE None]
  /\ head = "main" /\ lock = "free"
  /\ imp = Idle /\ tracker = {} /\ others = {}
  /\ before = <<tips, head, ws>> /\ met = {}
  /\ ops = 0

Goto(pc) == imp' = [imp EXCEPT !.pc = pc]
Fail(pc, result) == imp' = [imp EXCEPT !.pc = pc, !.result = result]
Meets(what) == met' = met \cup {what}

---------------------------------------------------------------------------
(* The start of run: a dirty workspace or the current branch as the target   *)
(* is refused before anything is staged.                                     *)
Begin(source, size, target, daemon, retried, runs) ==
  imp' = [pc |-> IF Dirty \/ target = head THEN "done"
                 ELSE IF target = "none" THEN "seed" ELSE "create",
          result |-> IF Dirty THEN "dirty" ELSE IF target = head THEN "config" ELSE "ok",
          source |-> source, rest |-> source, size |-> size, target |-> target,
          original |-> head, created |-> FALSE,
          daemon |-> daemon, retried |-> retried, runs |-> runs]

Start ==
  /\ imp.pc = "idle" /\ imp.runs < MaxImports
  /\ \E n \in 0..MaxSource, size \in BatchSizes, t \in Branches \cup {"none"}, d \in BOOLEAN :
       \E s \in [1..n -> NodePuts \cup EdgePuts \cup {Bad}] :
         Begin(s, size, t, d, FALSE, imp.runs + 1)
  /\ before' = <<tips, head, ws>> /\ met' = {}
  /\ UNCHANGED <<tips, head, ws, lock, tracker, others, ops>>

(* switch_to_branch, first half: create the branch at the head commit, or    *)
(* find it there.                                                            *)
CreateBranch ==
  /\ imp.pc = "create"
  /\ imp' = [imp EXCEPT !.pc = "checkout", !.created = tips[imp.target] = None]
  /\ tips' = [tips EXCEPT ![imp.target] = IF @ = None THEN tips[head] ELSE @]
  /\ UNCHANGED <<head, ws, lock, tracker, others, before, met, ops>>

(* Repository::checkout_branch under its lock: a workspace already at the    *)
(* target's content only moves the checked-out ref; a dirty one is refused.  *)
CheckoutError(b) ==
  IF lock /= "free" THEN "locked"
  ELSE IF ws /= tips[b].graph /\ Dirty THEN "dirty" ELSE "ok"
CheckedOut(b) ==
  IF CheckoutError(b) = "ok"
  THEN head' = b /\ ws' = tips[b].graph
  ELSE UNCHANGED <<head, ws>>

(* switch_to_branch, second half; its error returns at once.                 *)
SwitchBranch ==
  /\ imp.pc = "checkout"
  /\ CheckedOut(imp.target)
  /\ IF CheckoutError(imp.target) = "ok" THEN Goto("seed") ELSE Fail("done", CheckoutError(imp.target))
  /\ IF lock /= "free" THEN Meets("locked") ELSE UNCHANGED met
  /\ UNCHANGED <<tips, lock, tracker, others, before, ops>>

---------------------------------------------------------------------------
(* UniqueTracker                                                             *)

Claims(key, record, imported) ==
  IF key.label \in DOMAIN Labels
  THEN {[prop |-> p, value |-> record[p], key |-> key, imported |-> imported] :
          p \in Labels[key.label].unique \cap DOMAIN record}
  ELSE {}

(* claim, for each of the puts: what its key held before is unclaimed.       *)
Claim(t, puts) ==
  {c \in t : c.key \notin DOMAIN puts} \cup (UNION {Claims(k, puts[k], TRUE) : k \in DOMAIN puts})

(* seed: one pass over the workspace's nodes.                                *)
SeedTracker ==
  /\ imp.pc = "seed"
  /\ tracker' = UNION {Claims(k, ws.nodes[k], FALSE) : k \in DOMAIN ws.nodes}
  /\ Goto("batch")
  /\ UNCHANGED <<tips, head, ws, lock, others, before, met, ops>>

(* The next batch, the node puts that survive in it (the last record of a    *)
(* key wins) and its edge puts.                                              *)
Batch == SubSeq(imp.rest, 1, IF imp.size < Len(imp.rest) THEN imp.size ELSE Len(imp.rest))
PutsOf(batch, key) == {i \in DOMAIN batch : batch[i] \in NodePuts /\ batch[i].key = key}
LastPut(batch, key) == batch[CHOOSE i \in PutsOf(batch, key) : \A j \in PutsOf(batch, key) : j <= i]
PutKeys(batch) == {p.key : p \in Range(batch) \cap NodePuts}
PutAll(nodes, batch) ==
  [k \in DOMAIN nodes \cup PutKeys(batch) |->
     IF k \in PutKeys(batch) THEN LastPut(batch, k).record ELSE nodes[k]]
Surviving == PutAll(<<>>, Batch)

(* The workspace with the batch put into it.                                 *)
Staged == [nodes |-> PutAll(ws.nodes, Batch), edges |-> ws.edges \cup (Range(Batch) \cap EdgePuts)]

(* apply_batch: the surviving puts claim; a required property must be there, *)
(* and a touched claim must not end with two owners one of which is imported. *)
Applied == Claim(tracker, Surviving)
(* Mutant: only the batch's own records are compared with one another.       *)
ViolatesWithin(t) ==
  \/ \E k \in DOMAIN Surviving :
       /\ k.label \in DOMAIN Labels
       /\ \E p \in Labels[k.label].exists : ~Present(Surviving[k], Labels[k.label], p)
  \/ \E c, d \in t :
       /\ c.key \in DOMAIN Surviving /\ d.key \in DOMAIN Surviving /\ c.key /= d.key
       /\ c.prop = d.prop /\ c.value = d.value /\ c.key.label = d.key.label

Violates(t) ==
  \/ \E k \in DOMAIN Surviving :
       /\ k.label \in DOMAIN Labels
       /\ \E p \in Labels[k.label].exists : ~Present(Surviving[k], Labels[k.label], p)
  \/ \E c, d \in t :
       /\ c.key \in DOMAIN Surviving /\ c.key /= d.key
       /\ c.prop = d.prop /\ c.value = d.value /\ c.key.label = d.key.label

(* save's referential check: an edge put needs both endpoints.               *)
Dangling(g) == \E e \in Range(Batch) \cap EdgePuts : {e.src, e.dst} \ DOMAIN g.nodes /= {}

BatchError ==
  IF Bad \in Range(Batch) THEN "mapping"
  ELSE IF Violates(Applied) THEN "constraints"
  ELSE IF lock /= "free" THEN "locked"
  ELSE IF Dangling(Staged) THEN "dangling" ELSE "ok"

(* Mutant: batches are staged over the workspace the import started from.    *)
SavedOverStart ==
  [nodes |-> PutAll([k \in {k \in DOMAIN ws.nodes : \/ k \in DOMAIN before[3].nodes
                                                    \/ \E p \in Range(imp.source) \cap NodePuts : p.key = k} |-> ws.nodes[k]], Batch),
   edges |-> Staged.edges]

(* The graph one batch saves: begin_write reads the workspace anew.          *)
Saved == Staged

(* One turn of stream_batches: read and map a batch, check it, then stage    *)
(* and save it under the writer lock.                                        *)
SaveBatch ==
  /\ imp.pc = "batch" /\ imp.rest /= <<>>
  /\ tracker' = IF Bad \in Range(Batch) THEN tracker ELSE Applied
  /\ IF BatchError = "ok"
     THEN /\ ws' = Saved
          /\ imp' = [imp EXCEPT !.rest = SubSeq(@, Len(Batch) + 1, Len(@))]
     ELSE Fail("reset", BatchError) /\ UNCHANGED ws
  /\ IF BatchError = "locked" THEN Meets("locked") ELSE UNCHANGED met
  /\ UNCHANGED <<tips, head, lock, others, before, ops>>

(* Mutant: a failed import leaves what its batches staged.                   *)
ResetNothing ==
  /\ imp.pc = "reset"
  /\ Goto("restore")
  /\ UNCHANGED <<tips, head, ws, lock, tracker, others, before, met, ops>>

(* A failed import's best-effort reset; a held lock leaves the workspace.    *)
ResetWorkspace ==
  /\ imp.pc = "reset"
  /\ IF lock = "free" THEN ws' = tips[head].graph /\ UNCHANGED met
     ELSE UNCHANGED ws /\ Meets("locked")
  /\ Goto("restore")
  /\ UNCHANGED <<tips, head, lock, tracker, others, before, ops>>

(* All batches are in: an unchanged graph makes no commit.                   *)
FinishBatches ==
  /\ imp.pc = "batch" /\ imp.rest = <<>>
  /\ IF Dirty THEN Goto("commit") ELSE Fail("restore", "nochange")
  /\ UNCHANGED <<tips, head, ws, lock, tracker, others, before, met, ops>>

CommitError == IF lock /= "free" THEN "locked" ELSE IF ~Dirty THEN "nothing" ELSE "ok"

CommitImport ==
  /\ imp.pc = "commit"
  /\ IF CommitError = "ok"
     THEN Fail("restore", "committed") /\ tips' = [tips EXCEPT ![head] = NewCommit(ws)]
     ELSE Fail("restore", CommitError) /\ UNCHANGED tips
  /\ IF CommitError = "locked" THEN Meets("locked") ELSE UNCHANGED met
  /\ UNCHANGED <<head, ws, lock, tracker, others, before, ops>>

Succeeded == imp.result \in {"nochange", "committed"}

(* Back to the original branch; an import error wins over a restore error,   *)
(* and a failed import then removes the branch it created.                   *)
RestoreBranch ==
  /\ imp.pc = "restore"
  /\ IF imp.target = "none"
     THEN Goto("done") /\ UNCHANGED <<head, ws, met>>
     ELSE LET error == CheckoutError(imp.original)
          IN  /\ CheckedOut(imp.original)
              /\ imp' = [imp EXCEPT
                   !.pc = IF imp.created /\ ~Succeeded /\ error = "ok" THEN "cleanup" ELSE "done",
                   !.result = IF Succeeded /\ error /= "ok" THEN error ELSE @]
              /\ IF error = "locked" THEN Meets("locked") ELSE UNCHANGED met
  /\ UNCHANGED <<tips, lock, tracker, others, before, ops>>

RemoveBranch ==
  /\ imp.pc = "cleanup"
  /\ tips' = [tips EXCEPT ![imp.target] = IF head = imp.target THEN @ ELSE None]
  /\ Goto("done")
  /\ UNCHANGED <<head, ws, lock, tracker, others, before, met, ops>>

(* The import returned.  The daemon retries once an import that met a lock   *)
(* it can break: a dead writer's, or one that is gone.                       *)
Retries == imp.daemon /\ imp.result = "locked" /\ ~imp.retried /\ lock /= "live"
Return ==
  /\ imp.pc = "done"
  /\ IF Retries
     THEN lock' = "free" /\ Begin(imp.source, imp.size, imp.target, TRUE, TRUE, imp.runs)
     ELSE imp' = [pc |-> "idle", runs |-> imp.runs] /\ UNCHANGED lock
  /\ UNCHANGED <<tips, head, ws, tracker, others, before, met, ops>>

(* The importing process is killed between two steps.                        *)
Kill ==
  /\ imp.pc \notin {"idle", "done"} /\ ops < MaxOps
  /\ imp' = [pc |-> "idle", runs |-> imp.runs]
  /\ ops' = ops + 1
  /\ UNCHANGED <<tips, head, ws, lock, tracker, others, before, met>>

---------------------------------------------------------------------------
(* The other writers of the worktree, each under the writer lock.            *)

OtherAcquires ==
  /\ lock = "free" /\ ops < MaxOps
  /\ lock' = "live" /\ ops' = ops + 1
  /\ UNCHANGED <<tips, head, ws, imp, tracker, others, before, met>>

OtherLeft == UNCHANGED <<head, imp, tracker, before, ops>>

OtherSaves ==
  /\ lock = "live" /\ lock' = "free"
  /\ ws' = [ws EXCEPT !.nodes = Put(@, OtherPut.key, OtherPut.record)]
  /\ Meets("saved") /\ OtherLeft /\ UNCHANGED <<tips, others>>

OtherCommits ==
  /\ lock = "live" /\ lock' = "free" /\ Dirty
  /\ tips' = [tips EXCEPT ![head] = NewCommit(ws)]
  /\ others' = others \cup (NewCommit(ws).commits \ tips[head].commits)
  /\ Meets("saved") /\ OtherLeft /\ UNCHANGED ws

OtherDiscards ==
  /\ lock = "live" /\ lock' = "free"
  /\ ws' = tips[head].graph
  /\ Meets("saved") /\ OtherLeft /\ UNCHANGED <<tips, others>>

OtherDies ==
  /\ lock = "live" /\ lock' = "dead"
  /\ OtherLeft /\ UNCHANGED <<tips, ws, others, met>>

ImportStep ==
  \/ CreateBranch \/ SwitchBranch \/ SeedTracker \/ SaveBatch \/ ResetWorkspace
  \/ FinishBatches \/ CommitImport \/ RestoreBranch \/ RemoveBranch \/ Return

Next ==
  \/ Start \/ ImportStep \/ Kill
  \/ OtherAcquires \/ OtherSaves \/ OtherCommits \/ OtherDiscards \/ OtherDies

Spec == Init /\ [][Next]_vars

---------------------------------------------------------------------------
(* Type correctness, and the checked-out branch always exists.               *)
TypeOK ==
  /\ head \in Branches /\ tips[head] /= None
  /\ lock \in {"free", "live", "dead"}
  /\ met \subseteq {"saved", "locked"}
  /\ \A c \in tracker : c.prop \in Labels[c.key.label].unique
  /\ ws.edges \subseteq EdgePuts

Imported == PutKeys(imp.source)
Target == IF imp.target = "none" THEN imp.original ELSE imp.target
Base == IF before[1][Target] = None THEN before[1][imp.original] ELSE before[1][Target]

(* However the source was cut into batches, the commit of an import nobody   *)
(* else wrote during is one commit over the target's tip, and holds exactly  *)
(* the tip's graph with every source record applied in order.                *)
CommitIsWholeSource ==
  imp.pc = "done" /\ imp.result = "committed" /\ "saved" \notin met =>
    /\ tips[Target].graph = [nodes |-> PutAll(Base.graph.nodes, imp.source),
                             edges |-> Base.graph.edges \cup (Range(imp.source) \cap EdgePuts)]
    /\ \E c \in tips[Target].commits : tips[Target].commits \ Base.commits = {c}

(* An import that met no other writer returns with a clean workspace on the  *)
(* branch it started from; when it failed, every branch is as it was before. *)
CleanReturn ==
  imp.pc = "done" /\ met = {} /\ imp.result \notin {"dirty"} =>
    /\ ~Dirty /\ head = before[2]
    /\ ~Succeeded => tips = before[1]

(* Between batches the tracker claims what the workspace holds: seeding once *)
(* and unclaiming on replacement keeps it exact as long as nobody else       *)
(* writes.                                                                   *)
TrackerIsExact ==
  imp.pc = "batch" /\ "saved" \notin met =>
    {<<c.prop, c.value, c.key>> : c \in tracker}
      = {<<c.prop, c.value, c.key>> :
           c \in UNION {Claims(k, ws.nodes[k], FALSE) : k \in DOMAIN ws.nodes}}

(* What the batch checks accept and refuse is what check_nodes says of the   *)
(* workspace with the batch applied, blaming the records imported so far.    *)
BatchChecksAreFinalStateChecks ==
  "saved" \notin met =>
    /\ imp.pc = "done" /\ imp.result = "committed" =>
         ~Breached(Labels, tips[Target].graph.nodes, Imported)
    /\ imp.pc = "reset" /\ imp.result = "constraints" =>
         Breached(Labels, Staged.nodes, Imported)

(* Saving a batch drops no node another writer staged since the import began. *)
BatchKeepsOthersWork ==
  [][imp.pc = "batch" /\ imp'.pc = "batch" /\ imp' /= imp => DOMAIN ws.nodes \subseteq DOMAIN ws'.nodes]_vars

(* With a target branch the import itself moves no other branch: isolation   *)
(* of the branch the user was on.                                            *)
OtherBranchesUntouched ==
  [][(imp.pc /= "idle" /\ ops' = ops /\ others' = others /\ imp.pc /= "done") =>
       \A b \in Branches : tips'[b] = tips[b] \/ b = Target]_vars

(* An import is its source: what it commits is all of it over its base, and  *)
(* its batch-by-batch UNIQUE bookkeeping decides as the final state would.   *)
ImportIsFaithful == CommitIsWholeSource /\ TrackerIsExact /\ BatchChecksAreFinalStateChecks

(* Whatever another process saved or committed survives the batches, and no  *)
(* branch but the target moves.                                              *)
OthersUndisturbed == BatchKeepsOthersWork /\ OtherBranchesUntouched
=============================================================================
