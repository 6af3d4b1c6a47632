----------------------------- MODULE Repository -----------------------------
(***************************************************************************)
(* The version-control state machine of acetone-graph's Repository, seen    *)
(* from one worktree: branch refs, HEAD, the workspace ref, MERGE_HEAD and   *)
(* the operations that move them.                                           *)
(*                                                                         *)
(* Every operation that moves the workspace holds the worktree's writer     *)
(* lock, so at most one is running; `op` is where it stands.  One step is    *)
(* at most one ref write, so an operation can be interrupted between any    *)
(* two of them (a crash followed by removal of the stale lock, or a store   *)
(* error returned half way).  Branch creation and deletion and the other    *)
(* worktrees of the clone take no part in that lock.                        *)
(***************************************************************************)
EXTENDS GraphContent, Sequences

CONSTANTS Branch, Main,   \* branch names; the one HEAD names after init
          Batch,          \* the sets of writes a transaction may stage
          ForeignBatch,   \* the sets of writes another worktree commits
          AllowEmpty,     \* whether callers pass allow_empty, do not, or both
          MaxCommits,     \* bound on the commits ever written
          Windows         \* the unprotected windows something may fall in:
                          \*   "resolve": others act between resolve_all's
                          \*      reads and its transaction
                          \*   "delete": others act between delete_branch's
                          \*      look at HEAD and its deletion
                          \*   "remark": a merge stops between its workspace
                          \*      and the MERGE_HEAD it must replace
                          \*   "others": other worktrees commit to branches
                          \*      not checked out here
                          \*   "foreign": they commit to any branch

ASSUME RepositoryAssumption ==
  /\ Main \in Branch /\ MaxCommits \in Nat
  /\ Batch \subseteq Writes /\ ForeignBatch \subseteq Writes
  /\ AllowEmpty \subseteq BOOLEAN
  /\ Windows \subseteq {"resolve", "delete", "remark", "others", "foreign"}

VARIABLES commits,    \* the commit objects, by creation order
          branch,     \* branch[b]: its tip, 0 when the ref does not exist
          head,       \* the branch HEAD names
          ws,         \* the manifest the workspace ref names
          mergeHead,  \* MERGE_HEAD, 0 when the ref does not exist
          op,         \* the locked operation in progress
          pick,       \* resolve_all's source commit, read before the lock
          deleting    \* branches delete_branch has checked but not deleted

vars == <<commits, branch, head, ws, mergeHead, op, pick, deleting>>

CommitId == 1..MaxCommits
Ref == 0..MaxCommits

\* A commit: its parents, its ancestry (itself included) and its graph.
Commit == [parents : Seq(CommitId), anc : SUBSET CommitId, graph : Graph]

\* A manifest: the graph, whether it has a `conflicts` map, and its entries.
\* `from` is a history variable: the commit whose conflicted merge this
\* workspace comes from, 0 when it comes from no unfinished merge.
Manifest == [graph : Graph, marked : BOOLEAN, entries : SUBSET Entry, from : Ref]

Pc == {"idle", "commit", "guard", "write", "done", "merge", "mark",
       "mergeWrite", "mergeDone", "forward", "checkout", "setHead",
       "abort", "abortReset"}
Op == [pc : Pc, tip : Ref, theirs : Ref, target : Branch]

Idle == [pc |-> "idle", tip |-> 0, theirs |-> 0, target |-> Main]

Committed(g) == [graph |-> g, marked |-> FALSE, entries |-> {}, from |-> 0]

Ids == DOMAIN commits
Anc(c) == commits[c].anc

\* The commit HEAD resolves to, 0 on an unborn branch.
Tip == branch[head]

\* The manifest of the checked-out commit; the init blank on an unborn branch.
HeadGraph == IF Tip = 0 THEN Blank ELSE commits[Tip].graph

\* The workspace holds exactly the committed manifest of graph g.
Holds(g) == ws.graph = g /\ ~ws.marked

\* is_dirty
Dirty == ~Holds(HeadGraph)

\* ancestors, is_ancestor and merge_base: the maximal common ancestors.  The
\* code takes the smallest by hash; any of them may be it.
Common(a, b) == Anc(a) \intersect Anc(b)
Dominated(a, b) == UNION {Anc(c) \ {c} : c \in Common(a, b)}
MergeBases(a, b) == Common(a, b) \ Dominated(a, b)

\* The parent list of a commit: the branch tip if any, then MERGE_HEAD if any.
Parents(tip, theirs) ==
  IF tip = 0 THEN IF theirs = 0 THEN <<>> ELSE <<theirs>>
             ELSE IF theirs = 0 THEN <<tip>> ELSE <<tip, theirs>>

\* create_commit: the object store only grows.
NewCommit(parents, g) ==
  [parents |-> parents,
   anc |-> {Len(commits) + 1} \union UNION {Anc(p) : p \in {parents[i] : i \in DOMAIN parents}},
   graph |-> g]

Init ==
  /\ commits = <<>>
  /\ branch = [b \in Branch |-> 0]
  /\ head = Main
  /\ ws = Committed(Blank)
  /\ mergeHead = 0
  /\ op = Idle
  /\ pick = 0
  /\ deleting = {}

-----------------------------------------------------------------------------
(* Transaction::save and Transaction::commit.                               *)

\* The workspace after save_in_place applies the writes w.
Saved(w) ==
  LET left == ClearWritten(ws.entries, DOMAIN w) IN
  [ws EXCEPT !.graph = Applied(ws.graph, w), !.entries = left,
             !.marked = ws.marked /\ left # {}]

\* Mutant: save_in_place without its half-aborted-merge check.
AcceptsHalfAborted(w) == IntegrityHolds(ws.graph, w)

\* save_in_place accepts the staged writes w: not in a half-aborted merge, and
\* referential integrity holds.
Accepts(w) ==
  /\ ~(ws.marked /\ mergeHead = 0)
  /\ IntegrityHolds(ws.graph, w)

Save(w) ==
  /\ op.pc = "idle" /\ DOMAIN w # {}
  /\ Accepts(w)
  /\ ws' = Saved(w)
  /\ UNCHANGED <<commits, branch, head, mergeHead, op, pick, deleting>>

\* commit_impl, first part: MERGE_HEAD is read, then the staged writes saved.
CommitStart(w) ==
  /\ op.pc = "idle"
  /\ DOMAIN w # {} => Accepts(w)
  /\ ws' = IF DOMAIN w = {} THEN ws ELSE Saved(w)
  /\ op' = [Idle EXCEPT !.pc = "commit", !.theirs = mergeHead]
  /\ UNCHANGED <<commits, branch, head, mergeHead, pick, deleting>>

\* Mutant: MERGE_HEAD is trusted without the stale test.
CommitParentTrusting ==
  /\ op.pc = "commit"
  /\ op' = [op EXCEPT !.pc = "guard", !.tip = Tip]
  /\ UNCHANGED <<commits, branch, head, ws, mergeHead, pick, deleting>>

\* The parent is read; a MERGE_HEAD already in its history is stale, and
\* cleared.
CommitParent ==
  /\ op.pc = "commit"
  /\ LET stale == op.theirs # 0 /\ Tip # 0 /\ op.theirs \in Anc(Tip) IN
     /\ op' = [op EXCEPT !.pc = "guard", !.tip = Tip,
                         !.theirs = IF stale THEN 0 ELSE op.theirs]
     /\ mergeHead' = IF stale THEN 0 ELSE mergeHead
  /\ UNCHANGED <<commits, branch, head, ws, pick, deleting>>

\* Mutant: a completed merge is not validated again.
CompletableUnvalidated(base) == Cells(ws.entries) = {}

\* A merge may complete: every cell resolved, and the resolved graph
\* re-validated against the merge base.
Completable(base) ==
  /\ Cells(ws.entries) = {}
  /\ Introduced(commits[base].graph, ws.graph) = {}

\* An ordinary commit: no conflicts map, and a change to record unless the
\* caller is commit_allow_empty.
Ordinary(allowEmpty) ==
  /\ ~ws.marked
  /\ \/ allowEmpty
     \/ ~Holds(IF op.tip = 0 THEN Blank ELSE commits[op.tip].graph)

\* The bases of the merge being completed; none on an unborn branch.
Bases == IF op.tip = 0 THEN {} ELSE MergeBases(op.tip, op.theirs)

CommitGuard(allowEmpty) ==
  /\ op.pc = "guard"
  /\ IF op.theirs # 0 THEN \E base \in Bases : Completable(base)
                      ELSE Ordinary(allowEmpty)
  /\ ws' = [ws EXCEPT !.marked = FALSE, !.entries = {}]
  /\ op' = [op EXCEPT !.pc = "write"]
  /\ UNCHANGED <<commits, branch, head, mergeHead, pick, deleting>>

\* MergeState, NoMergeBase, MergeViolations, MergeInProgress, NothingToCommit.
CommitRefused(allowEmpty) ==
  /\ op.pc = "guard"
  /\ IF op.theirs # 0 THEN Bases = {} \/ \E base \in Bases : ~Completable(base)
                      ELSE ~Ordinary(allowEmpty)
  /\ op' = Idle
  /\ UNCHANGED <<commits, branch, head, ws, mergeHead, pick, deleting>>

\* Mutant: the branch is overwritten instead of compared and swapped.
CommitWriteBlind ==
  /\ op.pc = "write" /\ Len(commits) < MaxCommits
  /\ commits' = Append(commits, NewCommit(Parents(op.tip, op.theirs), ws.graph))
  /\ branch' = [branch EXCEPT ![head] = Len(commits) + 1]
  /\ ws' = [ws EXCEPT !.from = 0]
  /\ op' = IF op.theirs = 0 THEN Idle ELSE [op EXCEPT !.pc = "done"]
  /\ UNCHANGED <<head, mergeHead, pick, deleting>>

\* The branch moves by compare-and-swap from the parent.
CommitWrite ==
  /\ op.pc = "write" /\ Len(commits) < MaxCommits
  /\ Tip = op.tip
  /\ commits' = Append(commits, NewCommit(Parents(op.tip, op.theirs), ws.graph))
  /\ branch' = [branch EXCEPT ![head] = Len(commits) + 1]
  /\ ws' = [ws EXCEPT !.from = 0]
  /\ op' = IF op.theirs = 0 THEN Idle ELSE [op EXCEPT !.pc = "done"]
  /\ UNCHANGED <<head, mergeHead, pick, deleting>>

CommitDone ==
  /\ op.pc = "done"
  /\ mergeHead' = 0
  /\ op' = Idle
  /\ UNCHANGED <<commits, branch, head, ws, pick, deleting>>
-----------------------------------------------------------------------------
(* Repository::merge.                                                       *)

\* merge_with_author: the workspace must be clean; `theirs` is any revision.
MergeStart(t) ==
  /\ op.pc = "idle" /\ ~Dirty
  /\ op' = [Idle EXCEPT !.pc = "merge", !.theirs = t]
  /\ UNCHANGED <<commits, branch, head, ws, mergeHead, pick, deleting>>

\* `theirs` is already in our history.
MergeUpToDate ==
  /\ op.pc = "merge" /\ Tip # 0 /\ op.theirs \in Anc(Tip)
  /\ op' = Idle
  /\ UNCHANGED <<commits, branch, head, ws, mergeHead, pick, deleting>>

NoMergeBase ==
  /\ op.pc = "merge" /\ Tip # 0
  /\ MergeBases(Tip, op.theirs) = {}
  /\ op' = Idle
  /\ UNCHANGED <<commits, branch, head, ws, mergeHead, pick, deleting>>

\* fast_forward, workspace first: also how an unborn branch adopts `theirs`.
ForwardWorkspace ==
  /\ op.pc = "merge"
  /\ Tip # 0 => Tip # op.theirs /\ Tip \in Anc(op.theirs)
  /\ ws' = Committed(commits[op.theirs].graph)
  /\ op' = [op EXCEPT !.pc = "forward", !.tip = Tip]
  /\ UNCHANGED <<commits, branch, head, mergeHead, pick, deleting>>

ForwardBranch ==
  /\ op.pc = "forward" /\ Tip = op.tip
  /\ branch' = [branch EXCEPT ![head] = op.theirs]
  /\ op' = Idle
  /\ UNCHANGED <<commits, head, ws, mergeHead, pick, deleting>>

\* Our head and `theirs` have diverged over `base`.
Diverged(base) ==
  /\ op.pc = "merge" /\ Tip # 0
  /\ op.theirs \notin Anc(Tip) /\ Tip \notin Anc(op.theirs)
  /\ base \in MergeBases(Tip, op.theirs)

\* merge_manifests' result: the merged graph and the conflict entries.
MergedOver(base) ==
  MergedGraph(commits[base].graph, commits[Tip].graph, commits[op.theirs].graph)
EntriesOver(base) ==
  MergeEntries(commits[base].graph, commits[Tip].graph, commits[op.theirs].graph)

\* The merge is clean: the workspace moves first.
MergeClean(base) ==
  /\ Diverged(base)
  /\ EntriesOver(base) = {}
  /\ ws' = Committed(MergedOver(base))
  /\ op' = [op EXCEPT !.pc = "mergeWrite", !.tip = Tip]
  /\ UNCHANGED <<commits, branch, head, mergeHead, pick, deleting>>

\* write_merge_commit and the compare-and-swap of the branch.
MergeWrite ==
  /\ op.pc = "mergeWrite" /\ Len(commits) < MaxCommits
  /\ Tip = op.tip
  /\ commits' = Append(commits, NewCommit(Parents(op.tip, op.theirs), ws.graph))
  /\ branch' = [branch EXCEPT ![head] = Len(commits) + 1]
  /\ op' = [op EXCEPT !.pc = "mergeDone"]
  /\ UNCHANGED <<head, ws, mergeHead, pick, deleting>>

\* A clean merge clears a stale MERGE_HEAD.
MergeDone ==
  /\ op.pc = "mergeDone"
  /\ mergeHead' = 0
  /\ op' = Idle
  /\ UNCHANGED <<commits, branch, head, ws, pick, deleting>>

\* The merge has conflicts: the workspace becomes the partial merge ...
MergeConflicts(base) ==
  /\ Diverged(base)
  /\ EntriesOver(base) # {}
  /\ ws' = [graph |-> MergedOver(base), marked |-> TRUE,
            entries |-> EntriesOver(base), from |-> op.theirs]
  /\ op' = [op EXCEPT !.pc = "mark", !.tip = Tip]
  /\ UNCHANGED <<commits, branch, head, mergeHead, pick, deleting>>

\* ... and MERGE_HEAD is created; one left behind is deleted first.
DropMergeHead ==
  /\ op.pc = "mark" /\ mergeHead # 0
  /\ mergeHead' = 0
  /\ UNCHANGED <<commits, branch, head, ws, op, pick, deleting>>

MarkMergeHead ==
  /\ op.pc = "mark" /\ mergeHead = 0
  /\ mergeHead' = op.theirs
  /\ op' = Idle
  /\ UNCHANGED <<commits, branch, head, ws, pick, deleting>>

\* BranchConflict: the branch moved between the read and the swap.
BranchConflict ==
  /\ op.pc \in {"write", "forward", "mergeWrite"} /\ Tip # op.tip
  /\ op' = Idle
  /\ UNCHANGED <<commits, branch, head, ws, mergeHead, pick, deleting>>

-----------------------------------------------------------------------------
(* Repository::abort_merge, resolve_all, discard and reset.                 *)

\* Mutant: only MERGE_HEAD tells that there is something to abort.
AbortStartOnce ==
  /\ op.pc = "idle" /\ mergeHead # 0 /\ Tip # 0
  /\ ws' = [ws EXCEPT !.marked = TRUE]
  /\ op' = [Idle EXCEPT !.pc = "abort", !.tip = Tip]
  /\ UNCHANGED <<commits, branch, head, mergeHead, pick, deleting>>

\* A resolved merge is first marked with an empty conflicts map.
AbortStart ==
  /\ op.pc = "idle"
  /\ mergeHead # 0 \/ ws.marked
  /\ Tip # 0
  /\ ws' = [ws EXCEPT !.marked = TRUE]
  /\ op' = [Idle EXCEPT !.pc = "abort", !.tip = Tip]
  /\ UNCHANGED <<commits, branch, head, mergeHead, pick, deleting>>

AbortMergeHead ==
  /\ op.pc = "abort"
  /\ mergeHead' = 0
  /\ op' = [op EXCEPT !.pc = "abortReset"]
  /\ UNCHANGED <<commits, branch, head, ws, pick, deleting>>

AbortReset ==
  /\ op.pc = "abortReset"
  /\ ws' = Committed(commits[op.tip].graph)
  /\ op' = Idle
  /\ UNCHANGED <<commits, branch, head, mergeHead, pick, deleting>>

\* resolve_all reads the side it takes before begin_write takes the lock ...
ResolveRead(side) ==
  /\ "resolve" \in Windows
  /\ pick = 0 /\ mergeHead # 0 /\ Tip # 0
  /\ pick' = IF side = "ours" THEN Tip ELSE mergeHead
  /\ UNCHANGED <<commits, branch, head, ws, mergeHead, op, deleting>>

\* ... so what it resolves from is what it read, or a side of the merge when
\* nobody acted in between.
Sources == IF "resolve" \in Windows THEN {pick} \ {0}
           ELSE IF mergeHead # 0 /\ Tip # 0 THEN {Tip, mergeHead} ELSE {}

\* resolve_conflicts_from accepts the conflicts map, and save_in_place the
\* writes.  An empty map stages no write, so nothing would be saved.
Resolvable(source) ==
  /\ op.pc = "idle"
  /\ ws.marked /\ Markers(ws.entries) = {} /\ ws.entries # {}
  /\ IntegrityHolds(ws.graph, Resolution(ws.entries, commits[source].graph))

ResolveSave(source) ==
  /\ source \in Sources
  /\ Resolvable(source)
  /\ ws' = [ws EXCEPT !.graph = Applied(ws.graph,
                                  Resolution(ws.entries, commits[source].graph)),
                      !.marked = FALSE, !.entries = {}]
  /\ pick' = 0
  /\ UNCHANGED <<commits, branch, head, mergeHead, op, deleting>>

ResolveRefused ==
  /\ pick # 0 /\ ~Resolvable(pick)
  /\ pick' = 0
  /\ UNCHANGED <<commits, branch, head, ws, mergeHead, op, deleting>>

\* discard_workspace refuses while a merge is in progress.
Discard ==
  /\ op.pc = "idle" /\ mergeHead = 0 /\ ~ws.marked /\ Dirty
  /\ ws' = Committed(HeadGraph)
  /\ UNCHANGED <<commits, branch, head, mergeHead, op, pick, deleting>>

\* reset_workspace_to_head, a failed import's clean-up, leaves MERGE_HEAD.
Reset ==
  /\ op.pc = "idle"
  /\ ws' = Committed(HeadGraph)
  /\ UNCHANGED <<commits, branch, head, mergeHead, op, pick, deleting>>

-----------------------------------------------------------------------------
(* Repository::checkout_branch: workspace first, then HEAD.                 *)

CheckoutStart(b) ==
  /\ op.pc = "idle"
  /\ op' = [Idle EXCEPT !.pc = "checkout", !.target = b, !.theirs = branch[b]]
  /\ UNCHANGED <<commits, branch, head, ws, mergeHead, pick, deleting>>

\* The workspace already holds the target's manifest: only HEAD moves.
AtTarget == op.theirs # 0 /\ Holds(commits[op.theirs].graph)

CheckoutFast ==
  /\ op.pc = "checkout" /\ AtTarget
  /\ head' = op.target
  /\ ws' = [ws EXCEPT !.from = 0]
  /\ op' = Idle
  /\ UNCHANGED <<commits, branch, mergeHead, pick, deleting>>

\* DirtyWorkspace, NoSuchBranch.
CheckoutRefused ==
  /\ op.pc = "checkout" /\ ~AtTarget
  /\ Dirty \/ op.theirs = 0
  /\ op' = Idle
  /\ UNCHANGED <<commits, branch, head, ws, mergeHead, pick, deleting>>

\* Mutant: a checkout does not look for uncommitted work.
CheckoutWorkspaceDirty ==
  /\ op.pc = "checkout" /\ ~AtTarget
  /\ op.theirs # 0
  /\ ws' = Committed(commits[op.theirs].graph)
  /\ op' = [op EXCEPT !.pc = "setHead"]
  /\ UNCHANGED <<commits, branch, head, mergeHead, pick, deleting>>

CheckoutWorkspace ==
  /\ op.pc = "checkout" /\ ~AtTarget
  /\ ~Dirty /\ op.theirs # 0
  /\ ws' = Committed(commits[op.theirs].graph)
  /\ op' = [op EXCEPT !.pc = "setHead"]
  /\ UNCHANGED <<commits, branch, head, mergeHead, pick, deleting>>

CheckoutHead ==
  /\ op.pc = "setHead"
  /\ head' = op.target
  /\ op' = Idle
  /\ UNCHANGED <<commits, branch, ws, mergeHead, pick, deleting>>

-----------------------------------------------------------------------------
(* What takes no writer lock.                                               *)

\* The branch is checked out here, or is about to be.
InUse(b) == b = head \/ (op.pc \in {"checkout", "setHead"} /\ op.target = b)

CreateBranch(b, c) ==
  /\ branch[b] = 0
  /\ branch' = [branch EXCEPT ![b] = c]
  /\ UNCHANGED <<commits, head, ws, mergeHead, op, pick, deleting>>

\* delete_branch looks at HEAD ...
DeleteCheck(b) ==
  /\ "delete" \in Windows
  /\ b # head /\ branch[b] # 0
  /\ deleting' = {b}
  /\ UNCHANGED <<commits, branch, head, ws, mergeHead, op, pick>>

\* Mutant: the checked-out branch may be deleted.
DeleteBranchUnchecked(b) ==
  /\ branch[b] # 0
  /\ branch' = [branch EXCEPT ![b] = 0]
  /\ deleting' = {}
  /\ UNCHANGED <<commits, head, ws, mergeHead, op, pick>>

\* ... then deletes the ref.
DeleteBranch(b) ==
  /\ IF "delete" \in Windows THEN b \in deleting ELSE ~InUse(b)
  /\ branch[b] # 0
  /\ branch' = [branch EXCEPT ![b] = 0]
  /\ deleting' = {}
  /\ UNCHANGED <<commits, head, ws, mergeHead, op, pick>>

\* Another worktree, running this same code, lands a commit of the writes w
\* on branch b: an ordinary one, or the merge of t.
ForeignCommit(b, w, t) ==
  /\ Len(commits) < MaxCommits
  /\ "foreign" \in Windows \/ ("others" \in Windows /\ ~InUse(b))
  /\ branch[b] # 0
  /\ t # 0 => t \notin Anc(branch[b])
  /\ LET g == Applied(commits[branch[b]].graph, w) IN
     /\ WellFormed(g)
     /\ commits' = Append(commits, NewCommit(Parents(branch[b], t), g))
  /\ branch' = [branch EXCEPT ![b] = Len(commits) + 1]
  /\ UNCHANGED <<head, ws, mergeHead, op, pick, deleting>>

\* A crash, after which the stale writer lock is removed, or an error the
\* store returns at the next ref write.
Interrupt ==
  /\ op.pc # "idle"
  /\ op.pc = "mark" /\ mergeHead # 0 => "remark" \in Windows
  /\ op' = Idle
  /\ UNCHANGED <<commits, branch, head, ws, mergeHead, pick, deleting>>

-----------------------------------------------------------------------------
\* The next step of the operation that holds the lock.
Continue ==
  \/ CommitParent \/ CommitWrite \/ CommitDone
  \/ \E e \in AllowEmpty : CommitGuard(e) \/ CommitRefused(e)
  \/ MergeUpToDate \/ NoMergeBase
  \/ \E base \in Ids : MergeClean(base) \/ MergeConflicts(base)
  \/ MergeWrite \/ MergeDone \/ DropMergeHead \/ MarkMergeHead
  \/ ForwardWorkspace \/ ForwardBranch \/ BranchConflict
  \/ AbortMergeHead \/ AbortReset
  \/ CheckoutFast \/ CheckoutRefused \/ CheckoutWorkspace \/ CheckoutHead

Start ==
  \/ \E w \in Batch : Save(w)
  \/ \E w \in Batch \union {<<>>} : CommitStart(w)
  \/ \E t \in Ids : MergeStart(t)
  \/ AbortStart \/ Discard \/ Reset
  \/ \E b \in Branch : CheckoutStart(b)
  \/ \E side \in {"ours", "theirs"} : ResolveRead(side)
  \/ \E c \in Ids : ResolveSave(c)
  \/ ResolveRefused

Unlocked ==
  \/ \E b \in Branch : DeleteCheck(b) \/ DeleteBranch(b)
  \/ \E b \in Branch, c \in Ids : CreateBranch(b, c)
  \/ \E b \in Branch, w \in ForeignBatch, t \in Ids \union {0} :
        ForeignCommit(b, w, t)

Next == Start \/ Continue \/ Unlocked \/ Interrupt

Spec == Init /\ [][Next]_vars

\* An operation that holds the lock ends or is interrupted, and a user who
\* wants out of a merge re-runs `merge --abort` until one attempt is not
\* interrupted.
FairSpec ==
  /\ Spec
  /\ WF_vars(Continue \/ Interrupt)
  /\ SF_vars(AbortStart) /\ SF_vars(AbortMergeHead) /\ SF_vars(AbortReset)

-----------------------------------------------------------------------------
(* Properties.                                                              *)

\* An operation past its checks holds the commits it works with.
Operands ==
  /\ op.pc \in {"merge", "mark", "mergeWrite", "mergeDone", "forward", "setHead"}
        => op.theirs # 0
  /\ op.pc \in {"abort", "abortReset"} => op.tip # 0

\* Every ref names a commit that exists, a commit's parents and ancestry are
\* commits written before it, and an operation holds the commits it needs.
TypeOK ==
  /\ commits \in Seq(Commit) /\ Len(commits) <= MaxCommits
  /\ \A c \in Ids : /\ c \in Anc(c) /\ Anc(c) \subseteq 1..c
                    /\ \A i \in DOMAIN commits[c].parents :
                          commits[c].parents[i] \in 1..(c - 1)
  /\ branch \in [Branch -> Ids \union {0}]
  /\ head \in Branch
  /\ ws \in Manifest
  /\ mergeHead \in Ids \union {0}
  /\ op \in Op /\ op.tip \in Ids \union {0} /\ op.theirs \in Ids \union {0}
  /\ Operands
  /\ pick \in Ids \union {0}
  /\ deleting \subseteq Branch

\* Referential integrity of history: no commit, made by any of the paths that
\* write one (commit, merge completion, clean merge), contains an edge without
\* its endpoint nodes.
CommitsWellFormed == \A c \in Ids : WellFormed(commits[c].graph)

\* The second parent of a commit is a line of history the first does not
\* already contain: a MERGE_HEAD that outlived its merge never turns an
\* ordinary commit into a merge commit.
NoSpuriousMerge ==
  \A c \in Ids : LET p == commits[c].parents IN
    Len(p) = 2 => p[2] \notin Anc(p[1])

\* Whatever state a merge is left in, `merge --abort` is accepted: the branch
\* it would return to exists.
AbortAvailable == mergeHead # 0 \/ ws.marked => Tip # 0

\* Re-running `merge --abort` ends every merge, in whatever half-merged or
\* half-aborted state an interruption left it, unless the branch to return to
\* is deleted underneath it.
AbortFinishes ==
  (mergeHead # 0 \/ ws.marked) ~> ((mergeHead = 0 /\ ~ws.marked) \/ Tip = 0)

\* A branch that stays only ever moves to a descendant of its tip: no
\* operation, however it races with others, drops a commit from a branch.
BranchesMoveForward ==
  [][\A b \in Branch : branch[b] # 0 /\ branch'[b] # 0
        => branch[b] \in commits'[branch'[b]].anc]_vars

\* The content of an unfinished conflicted merge is never committed as
\* ordinary, single-parent work.
MergeNeverOrdinary ==
  [][ws.from # 0 /\ op.pc = "write" /\ op' # op /\ Tip' # Tip
        => Len(commits'[Len(commits')].parents) = 2]_vars

\* A commit, merge, fast-forward or checkout never replaces workspace content
\* that no commit holds: only a write, a resolution and the operations that
\* say they discard (abort, discard, reset) do.
UncommittedKept ==
  [][ws'.graph # ws.graph /\ op.pc \in {"merge", "checkout", "guard", "write"}
        => ws.graph = Blank \/ \E c \in Ids : commits[c].graph = ws.graph]_vars
=============================================================================
