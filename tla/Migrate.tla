------------------------------- MODULE Migrate -------------------------------
(***************************************************************************)
(* `acetone migrate` (rewrite_history): re-encode every reachable version   *)
(* and repoint the graph's branches, tags and workspace through a journalled *)
(* batched swing; while another process writes the workspace, commits or     *)
(* creates a branch (migrate takes no writer lock), processes are killed     *)
(* and migrate is run again.                                                 *)
(*                                                                          *)
(* A commit, and a workspace tree, is the encoding of its manifest (the     *)
(* chunk parameters) and the number of the last transaction it holds.  The  *)
(* rewrite is deterministic: the same commit always yields the same new     *)
(* one, and a new one yields itself.                                        *)
(***************************************************************************)
EXTENDS RefStore

CONSTANTS
  M,            \* the process that runs migrate
  W,            \* the process that writes and commits
  MaxRuns,      \* bound: runs of migrate
  MaxOps,       \* bound: writes, commits and branch creations
  MaxKills      \* bound: killed processes

VARIABLES
  mig,          \* rewrite_history's progress
  work,         \* the writer's progress
  runs, ops, kills,
  departed      \* what happened outside migrate's own guarantees

counts == <<runs, ops, kills>>
vars == <<refVars, mig, work, counts, departed>>

Branches == {"main", "side", "late"}   \* main is checked out; late may be created
Commit(g, n) == [gen |-> g, n |-> n]
Commits == [gen : {"old", "new"}, n : Nat]

ASSUME MigrateAssumption ==
  /\ M /= W /\ Procs = {M, W}
  /\ {"main", "side", "late", "ws", "journal"} \subseteq RefNames
  /\ None \notin Commits /\ None \notin Procs
  /\ None \notin [swings : SUBSET [name : RefNames, expected : Commits, new : Commits]]
Rewrite(c) == [c EXCEPT !.gen = "new"]
MigrateJournal(swings) == [swings |-> swings]

MigIdle == [pc |-> "idle", plan |-> {}, listed |-> {}]
WorkIdle == [pc |-> "idle", next |-> None]

Init ==
  /\ \E w \in {None, Commit("old", 0)} :
       RefInit([r \in RefNames |->
                  CASE r \in {"main", "side"} -> Commit("old", 0)
                    [] r = "ws" -> w
                    [] OTHER -> None])
  /\ mig = MigIdle /\ work = WorkIdle
  /\ runs = 0 /\ ops = 0 /\ kills = 0
  /\ departed = {}

Goto(pc) == mig' = [mig EXCEPT !.pc = pc]
Stop == mig' = MigIdle
MigOnly == UNCHANGED <<work, counts, departed>>

(* The call submitted in step `from` returned: on to `to`, or the error ends *)
(* the run as `?` does.                                                      *)
Returned(from, to) ==
  /\ mig.pc = from
  /\ call[M].pc = "none"
  /\ IF call[M].result = "ok" THEN Goto(to) ELSE Stop
  /\ MigOnly /\ UNCHANGED refVars

Call(from, to, swings) ==
  /\ mig.pc = from
  /\ Submit(M, swings)
  /\ Goto(to)
  /\ MigOnly /\ UNCHANGED <<refs, refsLock>>

-----------------------------------------------------------------------------
(* rewrite_history *)

MigrateStart ==
  /\ mig.pc = "idle" /\ runs < MaxRuns
  /\ runs' = runs + 1
  /\ Goto("journal?")
  /\ UNCHANGED <<refVars, work, ops, kills, departed>>

(* recover_pending: a journalled ref at neither of its values refuses the    *)
(* run and keeps the journal; otherwise the swings not yet made are made.    *)
Moved(s) == refs[s.name] \notin {s.expected, s.new}

(* Mutant: recovery completes every swing from whatever the ref holds. *)
RecoverBlindly ==
  /\ mig.pc = "journal?"
  /\ IF refs["journal"] = None
     THEN Goto("guard") /\ UNCHANGED refVars
     ELSE /\ Submit(M, {[s EXCEPT !.expected = refs[s.name]] : s \in refs["journal"].swings})
          /\ Goto("recovering")
          /\ UNCHANGED <<refs, refsLock>>
  /\ MigOnly

RecoverPending ==
  /\ mig.pc = "journal?"
  /\ IF refs["journal"] = None
     THEN Goto("guard") /\ UNCHANGED refVars
     ELSE LET swings == refs["journal"].swings
          IN  IF \E s \in swings : Moved(s)
              THEN Stop /\ UNCHANGED refVars
              ELSE /\ Submit(M, {s \in swings : refs[s.name] = s.expected})
                   /\ Goto("recovering")
                   /\ UNCHANGED <<refs, refsLock>>
  /\ MigOnly

(* Mutant: the journal outlives a completed recovery. *)
KeepJournal == Call("clear", "clearing", {})

Recovered == Returned("recovering", "clear")
ClearRecovered == Call("clear", "clearing", DeleteSwings("journal"))
RecoveryCleared == Returned("clearing", "guard")

(* is_dirty: the workspace differs from the checked-out commit's manifest.   *)
Dirty == refs["ws"] /= None /\ refs["ws"] /= refs["main"]

Guard ==
  /\ mig.pc = "guard"
  /\ IF Dirty THEN Stop ELSE Goto("list")
  /\ MigOnly /\ UNCHANGED refVars

(* list_refs, then peel, order and rewrite every commit (objects only). *)
ListRefs ==
  /\ mig.pc = "list"
  /\ mig' = [mig EXCEPT
        !.pc = "workspace",
        !.listed = {refs[b] : b \in {x \in Branches : refs[x] /= None}},
        !.plan = {Swing(b, refs[b], Rewrite(refs[b])) :
                    b \in {x \in Branches : refs[x] /= None
                                            /\ Rewrite(refs[x]) /= refs[x]}}]
  /\ MigOnly /\ UNCHANGED refVars

(* The workspace follows the rewritten head: the head is read again (it must *)
(* have been rewritten), the swing expects whatever the ref holds now.       *)
PlanWorkspace ==
  /\ mig.pc = "workspace"
  /\ LET tree == Rewrite(refs["main"])
         plan == IF refs["ws"] \in {None, tree} THEN mig.plan
                 ELSE mig.plan \cup {Swing("ws", refs["ws"], tree)}
     IN  IF refs["ws"] /= None /\ refs["main"] \notin mig.listed
         THEN Stop
         ELSE IF plan = {} THEN Stop
         ELSE mig' = [mig EXCEPT !.pc = "record", !.plan = plan]
  /\ MigOnly /\ UNCHANGED refVars

(* Mutant: the journal goes before the swing. *)
SwingUnjournalled == Call("swing", "swinging", mig.plan \cup DeleteSwings("journal"))

WriteJournal == Call("record", "recording", {Swing("journal", None, MigrateJournal(mig.plan))})
JournalWritten == Returned("recording", "swing")
SwingRefs == Call("swing", "swinging", mig.plan)
Swung == Returned("swinging", "delete")
DeleteJournal == Call("delete", "deleting", DeleteSwings("journal"))

Done ==
  /\ mig.pc = "deleting" /\ call[M].pc = "none"
  /\ Stop
  /\ MigOnly /\ UNCHANGED refVars

MigrateStep ==
  \/ RecoverPending \/ Recovered \/ ClearRecovered \/ RecoveryCleared
  \/ Guard \/ ListRefs \/ PlanWorkspace
  \/ WriteJournal \/ JournalWritten \/ SwingRefs \/ Swung
  \/ DeleteJournal \/ Done

-----------------------------------------------------------------------------
(* The other process: a transaction, a commit, a branch creation.            *)

WorkOnly == UNCHANGED <<mig, runs, kills>>

ReadWs == IF refs["ws"] = None THEN refs["main"] ELSE refs["ws"]

Begin(pc, next) ==
  /\ work.pc = "idle" /\ ops < MaxOps
  /\ ops' = ops + 1
  /\ work' = [pc |-> pc, next |-> next]
  /\ WorkOnly

(* Transaction::save: the workspace moves from what begin_write read.        *)
Transact ==
  LET next == [ReadWs EXCEPT !.n = @ + 1]
  IN  /\ Begin("last", next)
      /\ Submit(W, {Swing("ws", refs["ws"], next)})
      /\ UNCHANGED <<refs, refsLock, departed>>

(* commit_impl: the workspace manifest, whose encoding must be the branch    *)
(* tip's; ...                                                                *)
CommitCheck ==
  /\ ReadWs.gen = refs["main"].gen
  /\ Begin("commit", ReadWs)
  /\ UNCHANGED <<refVars, departed>>

(* ... then the parent is read again, and must differ from the manifest.  A  *)
(* migration that swung in between is a departure: the commit's encoding is  *)
(* no longer its parent's.                                                   *)
CommitWork ==
  /\ work.pc = "commit"
  /\ IF refs["main"] = work.next
     THEN work' = WorkIdle /\ UNCHANGED call
     ELSE /\ Submit(W, {Swing("main", refs["main"], work.next)})
          /\ work' = [work EXCEPT !.pc = "last"]
  /\ departed' = IF refs["main"].gen /= work.next.gen
                 THEN departed \cup {"crossed"} ELSE departed
  /\ WorkOnly /\ UNCHANGED <<refs, refsLock, ops>>

CreateBranch ==
  /\ Begin("last", None)
  /\ Submit(W, {Swing("late", None, refs["main"])})
  /\ UNCHANGED <<refs, refsLock, departed>>

WorkDone ==
  /\ call[W].pc = "none"
  /\ work.pc = "last"
  /\ work' = WorkIdle
  /\ WorkOnly /\ UNCHANGED <<refVars, ops, departed>>

WorkStep == CommitWork \/ WorkDone

-----------------------------------------------------------------------------
KillMigrate ==
  /\ mig.pc /= "idle" /\ kills < MaxKills
  /\ kills' = kills + 1
  /\ Stop
  /\ KillCall(M)
  /\ UNCHANGED <<work, runs, ops, departed>>

KillWork ==
  /\ work.pc /= "idle" /\ kills < MaxKills
  /\ kills' = kills + 1
  /\ work' = WorkIdle
  /\ KillCall(W)
  /\ UNCHANGED <<mig, runs, ops, departed>>

ClearLock == ClearRefsLock /\ UNCHANGED <<mig, work, counts, departed>>

(* The operator follows the refusal's advice and deletes the journal. *)
ClearJournal ==
  /\ mig.pc = "idle" /\ refs["journal"] /= None
  /\ \E s \in refs["journal"].swings : Moved(s)
  /\ refs' = [refs EXCEPT !["journal"] = None]
  /\ departed' = departed \cup {"operator"}
  /\ UNCHANGED <<refsLock, call, mig, work, counts>>

(* A ref update of either process.  Two are departures: the other process    *)
(* puts a branch it read in the old encoding in place after a migration      *)
(* listed the branches or died midway; and the workspace changes between the *)
(* migration's dirty check and its read of the workspace ref.                *)
Swinging ==
  \/ mig.pc \notin {"idle", "journal?", "guard", "list"}
  \/ refs["journal"] /= None
  \/ "new" \in {refs[b].gen : b \in {"main", "side"}}

StoreStep ==
  /\ \E p \in Procs : RefStep(p)
  /\ departed' = departed
       \cup (IF Swinging /\ refs["late"] = None /\ refs'["late"] /= None /\ refs'["late"].gen = "old"
             THEN {"late"} ELSE {})
       \cup (IF mig.pc \in {"list", "workspace"} /\ refs["ws"] /= refs'["ws"]
             THEN {"dirtied"} ELSE {})
  /\ UNCHANGED <<mig, work, counts>>

Next ==
  \/ MigrateStart \/ MigrateStep
  \/ Transact \/ CommitCheck \/ CreateBranch \/ WorkStep
  \/ StoreStep
  \/ KillMigrate \/ KillWork \/ ClearLock \/ ClearJournal

(* Processes that run keep running, the operator starts migrate again and    *)
(* clears the lock of a dead process.                                        *)
Spec == Init /\ [][Next]_vars
FairSpec == Spec /\ WF_vars(MigrateStart) /\ WF_vars(MigrateStep)
                 /\ WF_vars(WorkStep) /\ WF_vars(StoreStep) /\ WF_vars(ClearLock)

-----------------------------------------------------------------------------
(* Properties *)

\* The types, and that no update outlives the process that submitted it.
TypeOK ==
  /\ DOMAIN refs = RefNames
  /\ refsLock \in Procs \cup {None}
  /\ \A b \in Branches : refs[b] = None \/ refs[b].gen \in {"old", "new"}
  /\ \A s \in mig.plan : s.name \in Branches \cup {"ws"}
  /\ \A p \in Procs : call[p].todo \subseteq call[p].swings
  /\ mig.pc = "idle" => call[M].pc = "none"
  /\ work.pc = "idle" => call[W].pc = "none"

Generations == {refs[b].gen : b \in {x \in Branches : refs[x] /= None}}

(* The journal's guarantee: a death at any point leaves the branches and     *)
(* tags all old, all new, or with a journal that says which is which.  It    *)
(* holds unless an old branch appears behind the migration's back, a commit  *)
(* is caught between its two reads of the branch, or the operator deletes a  *)
(* journal.                                                                  *)
NeverSilentlyMixed ==
  mig.pc = "idle" /\ refs["journal"] = None /\ departed \cap {"late", "crossed", "operator"} = {}
     => Cardinality(Generations) = 1

(* No commit disappears from a branch, whoever swings it, and the workspace   *)
(* never goes back behind a transaction.                                      *)
CommitsKept ==
  \A b \in Branches : refs[b] /= None => refs'[b] /= None /\ refs'[b].n >= refs[b].n
WorkspaceKept == refs["ws"] /= None => refs'["ws"] /= None /\ refs'["ws"].n >= refs["ws"].n

(* What a user has done is kept: neither a swing nor its recovery after a    *)
(* kill discards a commit made meanwhile or uncommitted work, unless work    *)
(* was written after the migration had looked for any.                       *)
WorkKept == []["dirtied" \in departed \/ (CommitsKept /\ WorkspaceKept)]_vars

(* An interrupted migration does not stay interrupted: once the others are   *)
(* quiet and the dead process's lock is gone, the next run of migrate clears *)
(* the journal, unless a ref it names was moved by someone else (the refusal *)
(* that needs the operator).                                                 *)
Interrupted ==
  /\ refs["journal"] /= None
  /\ mig.pc = "idle" /\ runs < MaxRuns
  /\ work.pc = "idle" /\ ops = MaxOps /\ kills = MaxKills /\ refsLock = None

Recovers ==
  Interrupted ~>
    (refs["journal"] = None \/ (\E s \in refs["journal"].swings : Moved(s)))
=============================================================================
