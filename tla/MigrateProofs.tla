--------------------------- MODULE MigrateProofs ---------------------------
(***************************************************************************)
(* Proofs about Migrate and the ref updates of RefStore under it: checked    *)
(* swings find their refs, no silent mixture of encodings, no work lost.     *)
(* The inductive invariant is Inv: who holds the ref lock and what each      *)
(* update is made of (Calls), that the plan, the journal or the swings still *)
(* to be made cover every old branch (Encodings), and that plans and updates *)
(* keep the transactions of the refs they move (Transactions).               *)
(***************************************************************************)
EXTENDS Migrate, FiniteSetTheorems, TLAPS

-----------------------------------------------------------------------------
(* The inductive invariants                                                 *)

Planned == Branches \cup {"ws"}
PlanSwings == [name : Planned, expected : Commits, new : Commits]
Journals == [swings : SUBSET PlanSwings]
Values == Commits \cup {None} \cup Journals
AnySwings == [name : RefNames, expected : Values, new : Values]
MigSteps == {"idle", "journal?", "recovering", "clear", "clearing", "guard", "list",
             "workspace", "record", "recording", "swing", "swinging", "delete", "deleting"}

Distinct(S) == \A s, t \in S : s.name = t.name => s = t

\* A plan: one swing for a ref, to the new encoding; a branch keeps its history.
Plan(S) ==
  /\ S \in SUBSET PlanSwings
  /\ Distinct(S)
  /\ \A s \in S : s.new.gen = "new" /\ (s.name \in Branches => s.new.n = s.expected.n)

\* The updates each process makes.
WorkSwing(s) ==
  \/ s.name = "ws" /\ s.expected \in Commits \cup {None} /\ s.new \in Commits
  \/ s.name = "main" /\ s.expected \in Commits /\ s.new \in Commits
  \/ s.name = "late" /\ s.expected = None /\ s.new \in Commits
MigSwings(m, S) ==
  /\ m.pc \in {"recovering", "swinging"} => Plan(S)
  /\ m.pc = "recording" => S \subseteq {Swing("journal", None, MigrateJournal(m.plan))}
  /\ m.pc \in {"clearing", "deleting"} =>
       Distinct(S) /\ \A s \in S : s.name = "journal" /\ s.new = None

CallStates == [pc : {"none", "lock", "check", "apply"}, todo : SUBSET AnySwings,
               swings : SUBSET AnySwings, result : {None, "ok", "backend", "cas"}]
MigStates == [pc : MigSteps, plan : SUBSET PlanSwings, listed : SUBSET Commits]
WorkStates == [pc : {"idle", "commit", "last"}, next : Commits \cup {None}]

RefTypes ==
  /\ refs \in [RefNames -> Values]
  /\ refs["main"] \in Commits /\ refs["side"] \in Commits
  /\ refs["late"] \in Commits \cup {None} /\ refs["ws"] \in Commits \cup {None}
  /\ refs["journal"] # None => refs["journal"] \in Journals /\ Plan(refs["journal"].swings)
MigTypes ==
  /\ mig \in MigStates /\ Plan(mig.plan)
  /\ mig.pc = "workspace" => \A s \in mig.plan : s.name \in Branches
WorkTypes == work \in WorkStates /\ (work.pc = "commit" => work.next \in Commits)
CallTypes == call \in [Procs -> CallStates]
Types == RefTypes /\ MigTypes /\ WorkTypes /\ CallTypes

\* Who holds acetone-refs.lock, and what each update is made of.
Calls ==
  /\ \A p \in Procs : call[p].pc \in {"check", "apply"} => refsLock = p
  /\ \A p \in Procs : call[p].pc = "none" => call[p].todo = {}
  /\ mig.pc \notin {"recovering", "clearing", "recording", "swinging", "deleting"}
       => call[M].pc = "none"
  /\ work.pc # "last" => call[W].pc = "none"
  /\ \A s, t \in call[W].todo : s = t
  /\ \A s \in call[W].todo : WorkSwing(s)
  /\ MigSwings(mig, call[M].todo)

\* The encodings, while nothing happened that departs from the guarantee.
Old(b) == refs[b] # None /\ refs[b].gen = "old"
Covers(S) == \A b \in Branches : Old(b) => \E s \in S : s.name = b
Uniform == \A b \in Branches : refs[b] # None => refs[b].gen = refs["main"].gen
AllNew == \A b \in Branches : ~Old(b)
Undisturbed == departed \cap {"late", "crossed", "operator"} = {}
Active(p) == call[p].pc # "none" \/ call[p].result = "ok"
Over(p) == call[p].todo = {} /\ Active(p)

Settled ==
  /\ refs["journal"] = None => Uniform
  /\ refs["journal"] # None => Covers(refs["journal"].swings)

Progress ==
  /\ mig.pc \in {"guard", "list", "workspace", "record"} => refs["journal"] = None
  /\ mig.pc = "recording" => refs["journal"] \in {None, MigrateJournal(mig.plan)}
  /\ mig.pc = "recording" /\ Over(M) => refs["journal"] = MigrateJournal(mig.plan)
  /\ mig.pc \in {"swing", "swinging"} => refs["journal"] = MigrateJournal(mig.plan)
  /\ mig.pc = "clearing" /\ Over(M) => refs["journal"] = None
  /\ mig.pc = "recovering" => refs["journal"] # None
  /\ mig.pc \in {"workspace", "record", "recording", "swing"} => Covers(mig.plan)
  /\ mig.pc \in {"recovering", "swinging"} /\ Active(M) => Covers(call[M].todo)
  /\ mig.pc \in {"clear", "clearing", "delete", "deleting"} => AllNew

WorkUpdates ==
  \A s \in call[W].todo :
       /\ s.name = "main" => s.new.gen = s.expected.gen
       /\ s.name = "late" /\ refs["main"].gen = "old" => s.new.gen = "old"

Encodings == Settled /\ Progress /\ WorkUpdates

\* The transactions, while the dirty check is not raced.
Keeps(S) == \A s \in S : s.new.n = s.expected.n
RefsKeep ==
  /\ refs["ws"] # None => refs["ws"].n >= refs["main"].n
  /\ refs["journal"] # None => Keeps(refs["journal"].swings)
MigKeeps ==
  /\ mig.pc \in {"list", "workspace"} => refs["ws"] = None \/ refs["ws"].n = refs["main"].n
  /\ Keeps(mig.plan)
  /\ mig.pc \in {"recovering", "swinging"} => Keeps(call[M].todo)
WorkKeeps ==
  /\ work.pc = "commit" => refs["main"].n <= work.next.n /\ work.next.n <= ReadWs.n
  /\ \A s \in call[W].todo :
       /\ s.name = "ws" => s.new.n >= refs["main"].n /\ (s.expected # None => s.new.n >= s.expected.n)
       /\ s.name = "main" => s.expected.n <= s.new.n /\ s.new.n <= ReadWs.n
Transactions == RefsKeep /\ MigKeeps /\ WorkKeeps

Inv ==
  /\ Types /\ Calls /\ CheckedSwingsHold
  /\ Undisturbed => Encodings
  /\ "dirtied" \notin departed => Transactions

-----------------------------------------------------------------------------
(* Calls                                                                    *)

\* The two processes.
LEMMA TwoProcs == M \in Procs /\ W \in Procs /\ M # W /\ \A p \in Procs : p = M \/ p = W
  BY MigrateAssumption DEF MigrateAssumption

\* An update that was submitted waits for the lock, or is over when it is empty.
LEMMA SubmitIs ==
  ASSUME Types, NEW p \in Procs, NEW S \in SUBSET AnySwings, Submit(p, S)
  PROVE  /\ call' \in [Procs -> CallStates]
         /\ call[p].pc = "none"
         /\ call'[p].todo = S
         /\ S = {} => call'[p].pc = "none" /\ call'[p].result = "ok"
         /\ S # {} => call'[p].pc = "lock"
         /\ \A q \in Procs : q # p => call'[q] = call[q]
  BY DEF Submit, NoCall, Types, CallTypes, CallStates

\* An update that returned has nothing left to do.
LEMMA ReturnIs ==
  ASSUME Types, NEW p \in Procs, NEW r \in {"ok", "backend", "cas"}, call' = Return(p, r)
  PROVE  /\ call' \in [Procs -> CallStates]
         /\ call'[p].pc = "none" /\ call'[p].todo = {} /\ call'[p].result = r
         /\ \A q \in Procs : q # p => call'[q] = call[q]
  BY DEF Return, NoCall, Types, CallTypes, CallStates

\* A killed process has no update.
LEMMA KillIs ==
  ASSUME Types, NEW p \in Procs, KillCall(p)
  PROVE  /\ call' \in [Procs -> CallStates]
         /\ call'[p].pc = "none" /\ call'[p].todo = {} /\ call'[p].result = None
         /\ \A q \in Procs : q # p => call'[q] = call[q]
  BY DEF KillCall, NoCall, Types, CallTypes, CallStates

\* An update moves on under the lock.
LEMMA MovesOn ==
  ASSUME Types, NEW p \in Procs, NEW pc \in {"check", "apply"},
         call' = [call EXCEPT ![p].pc = pc]
  PROVE  /\ call' \in [Procs -> CallStates]
         /\ call'[p].pc = pc /\ call'[p].todo = call[p].todo
         /\ \A q \in Procs : q # p => call'[q] = call[q]
  BY DEF Types, CallTypes, CallStates

\* One swing of an update was applied.
LEMMA Applied ==
  ASSUME Types, NEW p \in Procs, NEW s, call' = [call EXCEPT ![p].todo = @ \ {s}]
  PROVE  /\ call' \in [Procs -> CallStates]
         /\ call'[p].pc = call[p].pc /\ call'[p].todo = call[p].todo \ {s}
         /\ \A q \in Procs : q # p => call'[q] = call[q]
  BY DEF Types, CallTypes, CallStates

\* What a swing puts in a ref.
LEMMA SwingIs ==
  ASSUME Types, Calls, NEW p \in Procs, NEW s \in call[p].todo
  PROVE  /\ s \in AnySwings
         /\ s.name \in {"main", "side", "late", "ws"} => s.new \in Commits
         /\ s.name = "journal" => p = M /\ s.new \in {None, MigrateJournal(mig.plan)}
         /\ s.name \in {"main", "side", "late", "ws", "journal"}
  <1>1. s \in AnySwings
      BY DEF Types, CallTypes, CallStates
  <1>2. CASE p = W
      BY <1>1, <1>2, TwoProcs DEF Calls, WorkSwing
  <1>3. CASE p = M
      <2>1. mig.pc \in {"recovering", "clearing", "recording", "swinging", "deleting"}
          BY <1>3, TwoProcs DEF Calls
      <2>2. CASE mig.pc \in {"recovering", "swinging"}
          BY <1>1, <1>3, <2>2 DEF Calls, MigSwings, Plan, PlanSwings, Planned, Branches
      <2>3. CASE mig.pc = "recording"
          BY <1>1, <1>3, <2>3 DEF Calls, MigSwings, Swing
      <2>4. CASE mig.pc \in {"clearing", "deleting"}
          BY <1>1, <1>3, <2>4 DEF Calls, MigSwings
      <2> QED
          BY <2>1, <2>2, <2>3, <2>4
  <1> QED
      BY <1>2, <1>3, TwoProcs

-----------------------------------------------------------------------------
(* Types                                                                    *)

\* The names are refs, commits and journals are values of refs, and no journal is None.
LEMMA Names ==
  /\ {"main", "side", "late", "ws", "journal"} \subseteq RefNames
  /\ None \in Values /\ Commits \subseteq Values /\ Journals \subseteq Values
  /\ None \notin Commits
  /\ \A S \in SUBSET PlanSwings : MigrateJournal(S) \in Journals /\ MigrateJournal(S).swings = S
                                  /\ MigrateJournal(S) # None
  <1>1. PlanSwings \subseteq [name : RefNames, expected : Commits, new : Commits]
      BY MigrateAssumption DEF MigrateAssumption, PlanSwings, Planned, Branches
  <1>2. \A S \in SUBSET PlanSwings :
           MigrateJournal(S) \in [swings : SUBSET [name : RefNames, expected : Commits, new : Commits]]
      BY <1>1 DEF MigrateJournal
  <1>3. \A S \in SUBSET PlanSwings : MigrateJournal(S) # None
      BY <1>2, MigrateAssumption DEF MigrateAssumption
  <1> QED
      BY <1>3, MigrateAssumption DEF MigrateAssumption, Values, Journals, MigrateJournal

\* Recording, clearing and deleting swing the journal.
LEMMA JournalSwing ==
  ASSUME NEW m, NEW S, MigSwings(m, S), m.pc \in {"recording", "clearing", "deleting"}, NEW s \in S
  PROVE  s.name = "journal"
  <1>1. CASE m.pc = "recording"
      <2>1. s = Swing("journal", None, MigrateJournal(m.plan))
          BY <1>1 DEF MigSwings
      <2> QED
          BY <2>1 DEF Swing
  <1>2. CASE m.pc \in {"clearing", "deleting"}
      BY <1>2 DEF MigSwings
  <1> QED
      BY <1>1, <1>2

\* A rewritten commit keeps its transactions.
LEMMA RewriteIs ==
  ASSUME NEW c \in Commits
  PROVE  Rewrite(c) \in Commits /\ Rewrite(c).gen = "new" /\ Rewrite(c).n = c.n
         /\ (c.gen = "new" => Rewrite(c) = c)
  BY DEF Rewrite, Commits

\* A step of migrate that moves on, and one that ends the run.
LEMMA GotoIs ==
  ASSUME Types, NEW pc \in MigSteps \ {"workspace"}, Goto(pc)
  PROVE  MigTypes' /\ mig'.pc = pc /\ mig'.plan = mig.plan /\ mig'.listed = mig.listed
  BY DEF Types, MigTypes, MigStates, Goto, Plan, Distinct

\* A run that ended has no plan.
LEMMA StopIs ==
  ASSUME Stop PROVE MigTypes' /\ mig'.pc = "idle" /\ mig'.plan = {}
  BY DEF Stop, MigIdle, MigTypes, MigStates, MigSteps, Plan, Distinct

\* The updates of migrate are updates of refs.
LEMMA PlansAreSwings ==
  /\ PlanSwings \subseteq AnySwings
  /\ \A S \in SUBSET PlanSwings : Swing("journal", None, MigrateJournal(S)) \in AnySwings
  <1>1. PlanSwings \subseteq AnySwings
      BY Names DEF PlanSwings, AnySwings, Planned, Branches
  <1>2. \A S \in SUBSET PlanSwings : Swing("journal", None, MigrateJournal(S)) \in AnySwings
      BY Names DEF AnySwings, Swing
  <1> QED
      BY <1>1, <1>2

\* Deleting the journal is at most one swing.
LEMMA DeleteIs ==
  ASSUME Types
  PROVE  /\ DeleteSwings("journal") \in SUBSET AnySwings
         /\ Distinct(DeleteSwings("journal"))
         /\ \A s \in DeleteSwings("journal") : s.name = "journal" /\ s.new = None
         /\ DeleteSwings("journal") = {} => refs["journal"] = None
  <1>1. CASE refs["journal"] = None
      BY <1>1 DEF DeleteSwings, Distinct
  <1>2. CASE refs["journal"] # None
      <2> DEFINE s == Swing("journal", refs["journal"], None)
      <2>1. DeleteSwings("journal") = {s}
          BY <1>2 DEF DeleteSwings
      <2>2. s \in AnySwings /\ s.name = "journal" /\ s.new = None
          <3>1. refs["journal"] \in Values
              BY Names DEF Types, RefTypes
          <3> QED
              BY <3>1, Names DEF Swing, AnySwings
      <2> HIDE DEF s
      <2> QED
          BY <2>1, <2>2 DEF Distinct
  <1> QED
      BY <1>1, <1>2

\* A part of a plan is a plan.
LEMMA SubPlan ==
  ASSUME NEW S, Plan(S), NEW T \in SUBSET S PROVE Plan(T)
  BY DEF Plan, Distinct

\* A ref update keeps the types.
LEMMA UpdateTypes ==
  ASSUME Types, Calls, NEW p \in Procs, RefStep(p) PROVE RefTypes' /\ CallTypes'
  <1> USE DEF Types
  <1>1. CASE AcquireRefs(p)
      BY <1>1, MovesOn DEF AcquireRefs, RefTypes, CallTypes
  <1>2. CASE LockTimeout(p)
      BY <1>2, ReturnIs DEF LockTimeout, RefTypes, CallTypes
  <1>3. CASE CheckSwings(p)
      BY <1>3, MovesOn, ReturnIs DEF CheckSwings, RefTypes, CallTypes
  <1>4. CASE ApplySwing(p)
      <2>1. PICK s \in call[p].todo : /\ refs' = [refs EXCEPT ![s.name] = s.new]
                                      /\ call' = [call EXCEPT ![p].todo = @ \ {s}]
          BY <1>4 DEF ApplySwing
      <2>2. /\ s.name \in RefNames /\ s.new \in Values
            /\ s.name \in {"main", "side", "late", "ws"} => s.new \in Commits
            /\ s.name = "journal" => s.new \in {None, MigrateJournal(mig.plan)}
          BY SwingIs DEF AnySwings
      <2>3. mig.plan \in SUBSET PlanSwings /\ Plan(mig.plan)
          BY DEF MigTypes, Plan
      <2>4. refs' \in [RefNames -> Values]
          BY <2>1, <2>2 DEF RefTypes
      <2>5. \A r \in RefNames : refs'[r] = IF r = s.name THEN s.new ELSE refs[r]
          BY <2>1, <2>2 DEF RefTypes
      <2>6. RefTypes'
          <3>1. /\ refs'["main"] \in Commits /\ refs'["side"] \in Commits
                /\ refs'["late"] \in Commits \cup {None} /\ refs'["ws"] \in Commits \cup {None}
              BY <2>2, <2>5, Names DEF RefTypes
          <3>2. refs'["journal"] # None =>
                  refs'["journal"] \in Journals /\ Plan(refs'["journal"].swings)
              BY <2>2, <2>3, <2>5, Names DEF RefTypes
          <3> QED
              BY <2>4, <3>1, <3>2 DEF RefTypes
      <2> QED
          BY <2>1, <2>6, Applied DEF CallTypes
  <1>5. CASE ReleaseRefs(p)
      BY <1>5, ReturnIs DEF ReleaseRefs, RefTypes, CallTypes
  <1> QED
      BY <1>1, <1>2, <1>3, <1>4, <1>5 DEF RefStep

\* The steps of migrate keep the types.
LEMMA MigrateTypes ==
  ASSUME Types, MigrateStart \/ MigrateStep PROVE Types'
  <1> USE DEF Types
  <1>a. M \in Procs /\ mig.plan \in SUBSET PlanSwings /\ Plan(mig.plan)
      BY TwoProcs DEF MigTypes, Plan
  <1>b. work' = work => WorkTypes'
      BY DEF WorkTypes
  <1>c. refs' = refs => RefTypes'
      BY DEF RefTypes
  <1>d. call' = call => CallTypes'
      BY DEF CallTypes
  <1>1. CASE MigrateStart
      BY <1>1, <1>b, <1>c, <1>d, GotoIs DEF MigrateStart, refVars, MigSteps
  <1>2. CASE RecoverPending
      <2>1. CASE refs["journal"] = None
          BY <1>2, <2>1, <1>b, <1>c, <1>d, GotoIs DEF RecoverPending, MigOnly, refVars, MigSteps
      <2> DEFINE swings == refs["journal"].swings
                 pending == {s \in swings : refs[s.name] = s.expected}
      <2>2. CASE refs["journal"] # None /\ \E s \in swings : Moved(s)
          BY <1>2, <2>2, <1>b, <1>c, <1>d, StopIs DEF RecoverPending, MigOnly, refVars
      <2>3. CASE refs["journal"] # None /\ ~\E s \in swings : Moved(s)
          <3>1. Submit(M, pending) /\ Goto("recovering") /\ UNCHANGED <<refs, refsLock>> /\ MigOnly
              BY <1>2, <2>3 DEF RecoverPending
          <3>2. pending \in SUBSET AnySwings
              BY <2>3, PlansAreSwings DEF RefTypes, Plan
          <3> QED
              BY <3>1, <3>2, <1>a, <1>b, <1>c, SubmitIs, GotoIs DEF CallTypes, MigOnly, MigSteps
      <2> QED
          BY <2>1, <2>2, <2>3
  <1>3. CASE Recovered \/ RecoveryCleared \/ JournalWritten \/ Swung
      <2>1. PICK to \in MigSteps \ {"workspace"} : Goto(to) \/ Stop
          BY <1>3 DEF Recovered, RecoveryCleared, JournalWritten, Swung, Returned, MigSteps
      <2>2. UNCHANGED <<refs, call, work>>
          BY <1>3 DEF Recovered, RecoveryCleared, JournalWritten, Swung, Returned, MigOnly, refVars
      <2> QED
          BY <2>1, <2>2, <1>b, <1>c, <1>d, GotoIs, StopIs
  <1>4. CASE Guard \/ Done
      <2>1. Goto("list") \/ Stop
          BY <1>4 DEF Guard, Done
      <2>2. UNCHANGED <<refs, call, work>>
          BY <1>4 DEF Guard, Done, MigOnly, refVars
      <2> QED
          BY <2>1, <2>2, <1>b, <1>c, <1>d, GotoIs, StopIs DEF MigSteps
  <1>5. CASE ClearRecovered \/ DeleteJournal \/ WriteJournal \/ SwingRefs
      <2>1. PICK to \in MigSteps \ {"workspace"}, S \in SUBSET AnySwings :
              Submit(M, S) /\ Goto(to) /\ MigOnly /\ UNCHANGED <<refs, refsLock>>
          <3>1. /\ DeleteSwings("journal") \in SUBSET AnySwings /\ mig.plan \in SUBSET AnySwings
                /\ {Swing("journal", None, MigrateJournal(mig.plan))} \in SUBSET AnySwings
              BY <1>a, DeleteIs, PlansAreSwings
          <3> QED
              BY <1>5, <3>1 DEF ClearRecovered, DeleteJournal, WriteJournal, SwingRefs, Call, MigSteps
      <2> QED
          BY <2>1, <1>a, <1>b, <1>c, SubmitIs, GotoIs DEF CallTypes, MigOnly
  <1>6. CASE ListRefs
      <2> DEFINE some == {x \in Branches : refs[x] # None}
                 old == {x \in Branches : refs[x] # None /\ Rewrite(refs[x]) # refs[x]}
                 plan == {Swing(b, refs[b], Rewrite(refs[b])) : b \in old}
      <2>1. \A b \in some : refs[b] \in Commits
          BY DEF RefTypes, Branches
      <2>2. \A b \in old : Swing(b, refs[b], Rewrite(refs[b])) \in PlanSwings
          BY <2>1, RewriteIs DEF PlanSwings, Planned, Swing
      <2>3. plan \in SUBSET PlanSwings
          BY <2>2
      <2>4. Plan(plan)
          BY <2>1, <2>3, RewriteIs DEF Plan, Distinct, Swing
      <2>5. mig' = [mig EXCEPT !.pc = "workspace", !.listed = {refs[b] : b \in some}, !.plan = plan]
          BY <1>6 DEF ListRefs
      <2>6. mig' \in MigStates /\ mig'.plan = plan
          BY <2>1, <2>3, <2>5 DEF MigTypes, MigStates, MigSteps
      <2>8. \A s \in plan : s.name \in Branches
          BY DEF Swing
      <2> HIDE DEF plan
      <2>7. MigTypes'
          BY <2>4, <2>6, <2>8 DEF MigTypes, Plan, Distinct
      <2> QED
          BY <1>6, <2>7, <1>b, <1>c, <1>d DEF ListRefs, MigOnly, refVars
  <1>7. CASE PlanWorkspace
      <2> DEFINE tree == Rewrite(refs["main"])
                 plan == IF refs["ws"] \in {None, tree} THEN mig.plan
                         ELSE mig.plan \cup {Swing("ws", refs["ws"], tree)}
      <2>1. Stop \/ mig' = [mig EXCEPT !.pc = "record", !.plan = plan]
          BY <1>7 DEF PlanWorkspace
      <2>2. Plan(plan)
          <3>1. CASE refs["ws"] \in {None, tree}
              BY <3>1, <1>a
          <3>2. CASE refs["ws"] \notin {None, tree}
              <4> DEFINE s == Swing("ws", refs["ws"], tree)
              <4>1. tree \in Commits /\ tree.gen = "new" /\ refs["ws"] \in Commits
                  BY <3>2, RewriteIs DEF RefTypes
              <4>2. s \in PlanSwings /\ s.name = "ws" /\ s.new = tree
                  BY <4>1 DEF PlanSwings, Planned, Swing
              <4>3. plan = mig.plan \cup {s}
                  BY <3>2
              <4>4. \A t \in mig.plan : t.name # "ws"
                  BY <1>7 DEF PlanWorkspace, MigTypes, Branches
              <4> HIDE DEF s, plan, tree
              <4>5. plan \in SUBSET PlanSwings
                  BY <1>a, <4>2, <4>3
              <4>6. Distinct(plan)
                  BY <1>a, <4>2, <4>3, <4>4 DEF Plan, Distinct
              <4>7. \A t \in plan : t.new.gen = "new" /\ (t.name \in Branches => t.new.n = t.expected.n)
                  BY <1>a, <4>1, <4>2, <4>3 DEF Plan, Branches
              <4> QED
                  BY <4>5, <4>6, <4>7 DEF Plan
          <3> QED
              BY <3>1, <3>2
      <2>3. plan \in SUBSET PlanSwings
          BY <2>2 DEF Plan
      <2> HIDE DEF plan
      <2>4. CASE mig' = [mig EXCEPT !.pc = "record", !.plan = plan]
          <3>1. mig' \in MigStates /\ mig'.plan = plan /\ mig'.pc = "record"
              BY <2>3, <2>4 DEF MigTypes, MigStates, MigSteps
          <3> QED
              BY <1>7, <2>2, <3>1, <1>b, <1>c, <1>d
              DEF PlanWorkspace, MigOnly, refVars, MigTypes, Plan, Distinct
      <2> QED
          BY <1>7, <2>1, <2>4, <1>b, <1>c, <1>d, StopIs DEF PlanWorkspace, MigOnly, refVars
  <1> QED
      BY <1>1, <1>2, <1>3, <1>4, <1>5, <1>6, <1>7 DEF MigrateStep

\* So do the other process, the kills and the operator.
LEMMA OtherTypes ==
  ASSUME Types, Calls,
         \/ Transact \/ CommitCheck \/ CreateBranch \/ WorkStep \/ StoreStep
         \/ KillMigrate \/ KillWork \/ ClearLock \/ ClearJournal \/ UNCHANGED vars
  PROVE  Types'
  <1> USE DEF Types
  <1>b. work' = work => WorkTypes'
      BY DEF WorkTypes
  <1>c. refs' = refs => RefTypes'
      BY DEF RefTypes
  <1>d. call' = call => CallTypes'
      BY DEF CallTypes
  <1>e. mig' = mig => MigTypes'
      BY DEF MigTypes, Plan, Distinct
  <1>f. ReadWs \in Commits
      BY DEF ReadWs, RefTypes
  <1>g. WorkIdle \in WorkStates /\ WorkIdle.pc = "idle"
      BY DEF WorkIdle, WorkStates
  <1>1. CASE Transact
      <2> DEFINE next == [ReadWs EXCEPT !.n = @ + 1]
                 s == Swing("ws", refs["ws"], next)
      <2>1. next \in Commits
          BY <1>f DEF Commits
      <2>2. s \in AnySwings
          BY <2>1, Names DEF AnySwings, Swing, RefTypes
      <2>3. work' = [pc |-> "last", next |-> next]
          BY <1>1 DEF Transact, Begin
      <2>4. Submit(W, {s}) /\ refs' = refs /\ mig' = mig
          BY <1>1 DEF Transact, Begin, WorkOnly
      <2> HIDE DEF next, s
      <2>5. WorkTypes'
          BY <2>1, <2>3 DEF WorkTypes, WorkStates
      <2> QED
          BY <2>2, <2>4, <2>5, <1>c, <1>e, TwoProcs, SubmitIs DEF CallTypes
  <1>2. CASE CommitCheck
      <2>1. work' = [pc |-> "commit", next |-> ReadWs] /\ UNCHANGED <<refs, call, mig>>
          BY <1>2 DEF CommitCheck, Begin, WorkOnly, refVars
      <2>2. WorkTypes'
          BY <1>f, <2>1 DEF WorkTypes, WorkStates
      <2> QED
          BY <2>1, <2>2, <1>c, <1>d, <1>e
  <1>3. CASE CreateBranch
      <2> DEFINE s == Swing("late", None, refs["main"])
      <2>1. s \in AnySwings
          BY Names DEF AnySwings, Swing, RefTypes
      <2>2. work' = [pc |-> "last", next |-> None]
          BY <1>3 DEF CreateBranch, Begin
      <2>3. Submit(W, {s}) /\ refs' = refs /\ mig' = mig
          BY <1>3 DEF CreateBranch, Begin, WorkOnly
      <2> HIDE DEF s
      <2>4. WorkTypes'
          BY <2>2 DEF WorkTypes, WorkStates
      <2> QED
          BY <2>1, <2>3, <2>4, <1>c, <1>e, TwoProcs, SubmitIs DEF CallTypes
  <1>4. CASE CommitWork
      <2>1. mig' = mig /\ refs' = refs
          BY <1>4 DEF CommitWork, WorkOnly
      <2>2. CASE refs["main"] = work.next
          BY <1>4, <2>1, <2>2, <1>c, <1>d, <1>e, <1>g DEF CommitWork, WorkTypes
      <2>3. CASE refs["main"] # work.next
          <3> DEFINE s == Swing("main", refs["main"], work.next)
          <3>1. Submit(W, {s}) /\ work' = [work EXCEPT !.pc = "last"]
              BY <1>4, <2>3 DEF CommitWork
          <3>2. s \in AnySwings
              BY <1>4, Names DEF CommitWork, AnySwings, Swing, RefTypes, WorkTypes
          <3> HIDE DEF s
          <3>3. WorkTypes'
              BY <3>1 DEF WorkTypes, WorkStates
          <3> QED
              BY <2>1, <3>1, <3>2, <3>3, <1>c, <1>e, TwoProcs, SubmitIs DEF CallTypes
      <2> QED
          BY <2>2, <2>3
  <1>5. CASE WorkDone
      BY <1>5, <1>c, <1>d, <1>e, <1>g DEF WorkDone, WorkOnly, refVars, WorkTypes
  <1>6. CASE StoreStep
      BY <1>6, <1>b, <1>e, UpdateTypes DEF StoreStep
  <1>7. CASE KillMigrate
      BY <1>7, <1>b, <1>c, StopIs, KillIs, TwoProcs DEF KillMigrate, KillCall, CallTypes
  <1>8. CASE KillWork
      BY <1>8, <1>c, <1>e, <1>g, KillIs, TwoProcs DEF KillWork, KillCall, CallTypes, WorkTypes
  <1>9. CASE ClearLock \/ UNCHANGED vars
      BY <1>9, <1>b, <1>c, <1>d, <1>e DEF ClearLock, ClearRefsLock, vars, refVars
  <1>10. CASE ClearJournal
      <2>1. RefTypes'
          BY <1>10, Names DEF ClearJournal, RefTypes
      <2> QED
          BY <1>10, <2>1, <1>b, <1>d, <1>e DEF ClearJournal
  <1> QED
      BY <1>1, <1>2, <1>3, <1>4, <1>5, <1>6, <1>7, <1>8, <1>9, <1>10 DEF WorkStep

-----------------------------------------------------------------------------
(* The lock                                                                 *)

\* A ref update only ever shrinks, and moves refs only under the lock.
LEMMA UpdateIs ==
  ASSUME Types, Calls, NEW p \in Procs, RefStep(p)
  PROVE  /\ call[p].pc # "none"
         /\ call'[p].todo \subseteq call[p].todo
         /\ call'[p].pc = "none" => call'[p].todo = {}
         /\ \A q \in Procs : q # p => call'[q] = call[q]
         /\ \A q \in Procs : call'[q].pc \in {"check", "apply"} => refsLock' = q
  <1>a. None \notin Procs
      BY MigrateAssumption DEF MigrateAssumption
  <1>b. \A q \in Procs : call[q].pc \in {"check", "apply"} => refsLock = q
      BY DEF Calls
  <1>1. CASE AcquireRefs(p)
      <2>1. call' = [call EXCEPT ![p].pc = "check"] /\ refsLock = None /\ refsLock' = p
            /\ call[p].pc = "lock"
          BY <1>1 DEF AcquireRefs
      <2> QED
          BY <2>1, <1>a, <1>b, MovesOn
  <1>2. CASE LockTimeout(p)
      <2>1. call' = Return(p, "backend") /\ refsLock' = refsLock /\ call[p].pc = "lock"
          BY <1>2 DEF LockTimeout
      <2> QED
          BY <2>1, <1>b, ReturnIs
  <1>3. CASE CheckSwings(p)
      <2>1. CASE call' = [call EXCEPT ![p].pc = "apply"] /\ refsLock' = refsLock
          BY <1>3, <2>1, <1>b, MovesOn DEF CheckSwings
      <2>2. CASE call' = Return(p, "cas") /\ refsLock' = None
          BY <1>3, <2>2, <1>b, ReturnIs DEF CheckSwings
      <2> QED
          BY <1>3, <2>1, <2>2 DEF CheckSwings
  <1>4. CASE ApplySwing(p)
      <2>1. PICK s \in call[p].todo : call' = [call EXCEPT ![p].todo = @ \ {s}]
          BY <1>4 DEF ApplySwing
      <2>2. refsLock' = refsLock /\ call[p].pc = "apply"
          BY <1>4 DEF ApplySwing
      <2> QED
          BY <2>1, <2>2, <1>b, Applied
  <1>5. CASE ReleaseRefs(p)
      <2>1. call' = Return(p, "ok") /\ refsLock' = None /\ call[p].pc = "apply"
          BY <1>5 DEF ReleaseRefs
      <2> QED
          BY <2>1, <1>b, ReturnIs
  <1> QED
      BY <1>1, <1>2, <1>3, <1>4, <1>5 DEF RefStep

\* What depends on the updates of one process.
MigCalls ==
  /\ call[M].pc \in {"check", "apply"} => refsLock = M
  /\ call[M].pc = "none" => call[M].todo = {}
  /\ mig.pc \notin {"recovering", "clearing", "recording", "swinging", "deleting"}
       => call[M].pc = "none"
  /\ MigSwings(mig, call[M].todo)
WorkCalls ==
  /\ call[W].pc \in {"check", "apply"} => refsLock = W
  /\ call[W].pc = "none" => call[W].todo = {}
  /\ work.pc # "last" => call[W].pc = "none"
  /\ \A s, t \in call[W].todo : s = t
  /\ \A s \in call[W].todo : WorkSwing(s)

\* The two processes' updates, apart.
LEMMA CallsAre == Calls <=> MigCalls /\ WorkCalls
  BY TwoProcs DEF Calls, MigCalls, WorkCalls

\* The same after a step.
LEMMA CallsArePrime == Calls' <=> MigCalls' /\ WorkCalls'
  BY TwoProcs DEF Calls, MigCalls, WorkCalls

\* A step of migrate submits what its state says.
LEMMA MigrateCalls ==
  ASSUME Types, Calls, MigrateStart \/ MigrateStep PROVE Calls'
  <1>a. M \in Procs /\ W \in Procs /\ M # W
      BY TwoProcs
  <1>b. MigCalls /\ WorkCalls
      BY CallsAre
  <1>c. call'[W] = call[W] /\ UNCHANGED <<work, refsLock>> => WorkCalls'
      BY <1>b DEF WorkCalls, WorkSwing
  <1>e. ASSUME call' = call, refsLock' = refsLock, work' = work, call[M].pc = "none"
        PROVE  Calls'
      <2>1. call'[M].pc = "none" /\ call'[M].todo = {}
          BY <1>b, <1>e DEF MigCalls
      <2>2. MigCalls'
          BY <2>1 DEF MigCalls, MigSwings, Plan, Distinct
      <2> QED
          BY <1>c, <1>e, <2>2, CallsArePrime
  <1>f. ASSUME NEW S \in SUBSET AnySwings, Submit(M, S), MigSwings(mig', S), refsLock' = refsLock,
               work' = work,
               mig'.pc \in {"recovering", "clearing", "recording", "swinging", "deleting"}
        PROVE  Calls'
      <2>1. call'[M].todo = S /\ call'[W] = call[W] /\ call'[M].pc \in {"none", "lock"}
            /\ (call'[M].pc = "none" => S = {})
          BY <1>a, <1>f, SubmitIs
      <2>2. MigSwings(mig', call'[M].todo)
          BY <1>f, <2>1
      <2>3. MigCalls'
          BY <1>f, <2>1, <2>2 DEF MigCalls
      <2> QED
          BY <1>c, <1>f, <2>1, <2>3, CallsArePrime
  <1>1. CASE MigrateStart \/ Guard \/ ListRefs \/ PlanWorkspace
      <2>1. call' = call /\ refsLock' = refsLock /\ work' = work
          BY <1>1 DEF MigrateStart, Guard, ListRefs, PlanWorkspace, MigOnly, refVars
      <2>2. call[M].pc = "none"
          BY <1>1, <1>b DEF MigrateStart, Guard, ListRefs, PlanWorkspace, MigCalls
      <2> QED
          BY <2>1, <2>2, <1>e
  <1>2. CASE Recovered \/ RecoveryCleared \/ JournalWritten \/ Swung \/ Done
      BY <1>2, <1>e DEF Recovered, RecoveryCleared, JournalWritten, Swung, Done, Returned, MigOnly,
                        refVars
  <1>3. CASE RecoverPending
      <2>1. CASE call' = call /\ refsLock' = refsLock /\ work' = work
          BY <1>3, <2>1, <1>b, <1>e DEF RecoverPending, MigCalls
      <2> DEFINE swings == refs["journal"].swings
                 pending == {s \in swings : refs[s.name] = s.expected}
      <2>2. CASE refs["journal"] # None /\ Submit(M, pending) /\ Goto("recovering")
                 /\ refsLock' = refsLock /\ work' = work
          <3>1. Plan(swings)
              BY <2>2 DEF Types, RefTypes
          <3>2. Plan(pending)
              BY <3>1, SubPlan
          <3>3. pending \in SUBSET AnySwings
              BY <3>2, PlansAreSwings DEF Plan
          <3>4. mig'.pc = "recovering"
              BY <2>2, GotoIs DEF MigSteps
          <3> HIDE DEF pending
          <3>5. MigSwings(mig', pending)
              BY <3>2, <3>4 DEF MigSwings, Plan, Distinct
          <3> QED
              BY <2>2, <3>3, <3>4, <3>5, <1>f
      <2> QED
          BY <1>3, <2>1, <2>2 DEF RecoverPending, MigOnly, refVars
  <1>4. CASE ClearRecovered \/ DeleteJournal
      <2> DEFINE S == DeleteSwings("journal")
      <2>1. /\ Submit(M, S) /\ refsLock' = refsLock /\ work' = work
            /\ Goto("clearing") \/ Goto("deleting")
          BY <1>4 DEF ClearRecovered, DeleteJournal, Call, MigOnly
      <2>2. mig'.pc \in {"clearing", "deleting"}
          BY <2>1, GotoIs DEF MigSteps
      <2>3. S \in SUBSET AnySwings /\ Distinct(S) /\ \A s \in S : s.name = "journal" /\ s.new = None
          BY DeleteIs
      <2> HIDE DEF S
      <2>4. MigSwings(mig', S)
          BY <2>2, <2>3 DEF MigSwings, Distinct
      <2> QED
          BY <2>1, <2>2, <2>3, <2>4, <1>f
  <1>5. CASE WriteJournal
      <2> DEFINE S == {Swing("journal", None, MigrateJournal(mig.plan))}
      <2>1. Submit(M, S) /\ refsLock' = refsLock /\ work' = work /\ Goto("recording")
          BY <1>5 DEF WriteJournal, Call, MigOnly
      <2>2. mig'.pc = "recording" /\ mig'.plan = mig.plan
          BY <2>1, GotoIs DEF MigSteps
      <2>3. S \in SUBSET AnySwings
          BY PlansAreSwings DEF Types, MigTypes, Plan
      <2>4. MigSwings(mig', S)
          BY <2>2 DEF MigSwings
      <2> HIDE DEF S
      <2> QED
          BY <2>1, <2>2, <2>3, <2>4, <1>f
  <1>6. CASE SwingRefs
      <2>1. Submit(M, mig.plan) /\ refsLock' = refsLock /\ work' = work /\ Goto("swinging")
          BY <1>6 DEF SwingRefs, Call, MigOnly
      <2>2. mig'.pc = "swinging" /\ mig'.plan = mig.plan
          BY <2>1, GotoIs DEF MigSteps
      <2>3. Plan(mig.plan) /\ mig.plan \in SUBSET AnySwings
          BY PlansAreSwings DEF Types, MigTypes, Plan
      <2>4. MigSwings(mig', mig.plan)
          BY <2>2, <2>3 DEF MigSwings, Plan, Distinct
      <2> QED
          BY <2>1, <2>2, <2>3, <2>4, <1>f
  <1> QED
      BY <1>1, <1>2, <1>3, <1>4, <1>5, <1>6 DEF MigrateStep

\* So do the other process, the kills and the operator.
LEMMA OtherCalls ==
  ASSUME Types, Calls,
         \/ Transact \/ CommitCheck \/ CreateBranch \/ WorkStep \/ StoreStep
         \/ KillMigrate \/ KillWork \/ ClearLock \/ ClearJournal \/ UNCHANGED vars
  PROVE  Calls'
  <1>a. M \in Procs /\ W \in Procs /\ M # W
      BY TwoProcs
  <1>b. MigCalls /\ WorkCalls
      BY CallsAre
  <1>c. call'[W] = call[W] /\ UNCHANGED <<work, refsLock>> => WorkCalls'
      BY <1>b DEF WorkCalls, WorkSwing
  <1>d. call'[M] = call[M] /\ UNCHANGED <<mig, refsLock>> => MigCalls'
      BY <1>b DEF MigCalls
  <1>e. ASSUME NEW s \in AnySwings, Submit(W, {s}), WorkSwing(s), work'.pc = "last",
               UNCHANGED <<mig, refsLock>>
        PROVE  Calls'
      <2>1. call'[M] = call[M] /\ call'[W].todo = {s} /\ call'[W].pc = "lock"
          BY <1>a, <1>e, SubmitIs
      <2>2. WorkCalls'
          BY <1>e, <2>1 DEF WorkCalls, WorkSwing
      <2> QED
          BY <1>d, <1>e, <2>1, <2>2, CallsArePrime
  <1>f. ReadWs \in Commits
      BY DEF ReadWs, Types, RefTypes
  <1>1. CASE Transact
      <2> DEFINE next == [ReadWs EXCEPT !.n = @ + 1]
                 s == Swing("ws", refs["ws"], next)
      <2>1. next \in Commits
          BY <1>f DEF Commits
      <2>2. Submit(W, {s}) /\ work'.pc = "last" /\ UNCHANGED <<mig, refsLock>>
          BY <1>1 DEF Transact, Begin, WorkOnly
      <2>3. s \in AnySwings /\ WorkSwing(s)
          BY <2>1, Names DEF AnySwings, Swing, Types, RefTypes, WorkSwing
      <2> HIDE DEF s
      <2> QED
          BY <2>2, <2>3, <1>e
  <1>2. CASE CreateBranch
      <2> DEFINE s == Swing("late", None, refs["main"])
      <2>1. Submit(W, {s}) /\ work'.pc = "last" /\ UNCHANGED <<mig, refsLock>>
          BY <1>2 DEF CreateBranch, Begin, WorkOnly
      <2>2. s \in AnySwings /\ WorkSwing(s)
          BY Names DEF AnySwings, Swing, Types, RefTypes, WorkSwing
      <2> HIDE DEF s
      <2> QED
          BY <2>1, <2>2, <1>e
  <1>3. CASE CommitWork /\ refs["main"] # work.next
      <2> DEFINE s == Swing("main", refs["main"], work.next)
      <2>1. Submit(W, {s}) /\ UNCHANGED <<mig, refsLock>> /\ work' = [work EXCEPT !.pc = "last"]
          BY <1>3 DEF CommitWork, WorkOnly
      <2>2. work'.pc = "last"
          BY <2>1 DEF Types, WorkTypes, WorkStates
      <2>3. s \in AnySwings /\ WorkSwing(s)
          BY <1>3, Names DEF CommitWork, AnySwings, Swing, Types, RefTypes, WorkTypes, WorkSwing
      <2> HIDE DEF s
      <2> QED
          BY <2>1, <2>2, <2>3, <1>e
  <1>4. CASE (CommitWork /\ refs["main"] = work.next) \/ WorkDone \/ CommitCheck
      <2>1. call' = call /\ UNCHANGED <<mig, refsLock>>
          BY <1>4 DEF CommitWork, WorkDone, CommitCheck, Begin, WorkOnly, refVars
      <2>2. call[W].pc = "none"
          BY <1>4, <1>b DEF CommitWork, WorkDone, CommitCheck, Begin, WorkCalls
      <2>3. WorkCalls'
          BY <1>b, <2>1, <2>2 DEF WorkCalls
      <2> QED
          BY <1>d, <2>1, <2>3, CallsArePrime
  <1>5. CASE StoreStep
      <2>1. PICK p \in Procs : RefStep(p)
          BY <1>5 DEF StoreStep
      <2>2. UNCHANGED <<mig, work>>
          BY <1>5 DEF StoreStep
      <2>3. /\ call[p].pc # "none" /\ call'[p].todo \subseteq call[p].todo
            /\ call'[p].pc = "none" => call'[p].todo = {}
            /\ \A q \in Procs : q # p => call'[q] = call[q]
            /\ \A q \in Procs : call'[q].pc \in {"check", "apply"} => refsLock' = q
          BY <2>1, UpdateIs
      <2>4. \A q \in Procs : call'[q].todo \subseteq call[q].todo
          BY <2>3
      <2>5. MigSwings(mig', call'[M].todo)
          BY <1>a, <1>b, <2>2, <2>4 DEF MigCalls, MigSwings, Plan, Distinct
      <2>6. MigCalls'
          BY <1>a, <1>b, <2>2, <2>3, <2>5 DEF MigCalls
      <2>7. WorkCalls'
          BY <1>a, <1>b, <2>2, <2>3, <2>4 DEF WorkCalls, WorkSwing
      <2> QED
          BY <2>6, <2>7, CallsArePrime
  <1>6. CASE KillMigrate
      <2>1. mig'.pc = "idle" /\ call'[M].pc = "none" /\ call'[M].todo = {} /\ call'[W] = call[W]
            /\ UNCHANGED <<work, refsLock>>
          BY <1>6, <1>a, StopIs, KillIs DEF KillMigrate, KillCall
      <2>2. MigCalls'
          BY <2>1 DEF MigCalls, MigSwings
      <2> QED
          BY <1>c, <2>1, <2>2, CallsArePrime
  <1>7. CASE KillWork
      <2>1. call'[W].pc = "none" /\ call'[W].todo = {} /\ call'[M] = call[M]
            /\ UNCHANGED <<mig, refsLock>>
          <3>1. KillCall(W) /\ UNCHANGED <<mig, refsLock>>
              BY <1>7 DEF KillWork, KillCall
          <3> QED
              BY <3>1, <1>a, KillIs
      <2>2. WorkCalls'
          BY <2>1 DEF WorkCalls
      <2> QED
          BY <1>d, <2>1, <2>2, CallsArePrime
  <1>8. CASE ClearLock
      <2>1. call' = call /\ UNCHANGED <<mig, work>> /\ refsLock # None /\ call[refsLock].pc = "none"
          BY <1>8 DEF ClearLock, ClearRefsLock
      <2>2. MigCalls' /\ WorkCalls'
          BY <1>b, <2>1 DEF MigCalls, WorkCalls, WorkSwing
      <2> QED
          BY <2>2, CallsArePrime
  <1>9. CASE ClearJournal \/ UNCHANGED vars
      BY <1>9, <1>c, <1>d, CallsArePrime DEF ClearJournal, vars, refVars
  <1> QED
      BY <1>1, <1>2, <1>3, <1>4, <1>5, <1>6, <1>7, <1>8, <1>9 DEF WorkStep

\* The swings of an update in progress move different refs.
LEMMA TodoDistinct ==
  ASSUME Calls, NEW p \in Procs, call[p].pc # "none" PROVE Distinct(call[p].todo)
  <1>1. CASE p = W
      BY <1>1 DEF Calls, Distinct
  <1>2. CASE p = M
      <2>1. mig.pc \in {"recovering", "clearing", "recording", "swinging", "deleting"}
          BY <1>2 DEF Calls
      <2> QED
          BY <1>2, <2>1 DEF Calls, MigSwings, Plan, Distinct
  <1> QED
      BY <1>1, <1>2, TwoProcs

\* An update that was just submitted, or whose process was killed, is not checked.
LEMMA NotChecked ==
  ASSUME Types, NEW p \in Procs, KillCall(p) \/ \E S : Submit(p, S)
  PROVE  call'[p].pc # "apply" /\ \A q \in Procs : q # p => call'[q] = call[q]
  BY DEF Types, CallTypes, CallStates, KillCall, Submit, NoCall

\* Nobody moves a ref under a checked update.
LEMMA CheckedStep ==
  ASSUME Types, Calls, CheckedSwingsHold, [Next]_vars PROVE CheckedSwingsHold'
  <1> SUFFICES ASSUME NEW p \in Procs, call'[p].pc = "apply", NEW t \in call'[p].todo
               PROVE  refs'[t.name] = t.expected
      BY DEF CheckedSwingsHold, Holds
  <1>a. M \in Procs /\ W \in Procs /\ M # W /\ (p = M \/ p = W)
      BY TwoProcs
  <1>b. ASSUME refs' = refs, call'[p] = call[p] PROVE refs'[t.name] = t.expected
      BY <1>b DEF CheckedSwingsHold, Holds
  <1>1. CASE StoreStep
      <2>1. PICK q \in Procs : RefStep(q)
          BY <1>1 DEF StoreStep
      <2>2. CASE ApplySwing(q)
          <3>1. PICK s \in call[q].todo : /\ refs' = [refs EXCEPT ![s.name] = s.new]
                                          /\ call' = [call EXCEPT ![q].todo = @ \ {s}]
              BY <2>2 DEF ApplySwing
          <3>2. call[q].pc = "apply" /\ refsLock = q
              BY <2>2 DEF ApplySwing, Calls
          <3>3. call'[q].todo = call[q].todo \ {s} /\ \A o \in Procs : o # q => call'[o] = call[o]
              BY <3>1, Applied
          <3>4. p = q
              BY <3>2, <3>3 DEF Calls
          <3>5. t \in call[q].todo /\ t # s
              BY <3>3, <3>4
          <3>6. t.name # s.name
              BY <3>2, <3>5, TodoDistinct DEF Distinct
          <3>7. refs'[t.name] = refs[t.name]
              BY <3>1, <3>5, <3>6, SwingIs DEF Types, RefTypes, AnySwings
          <3> QED
              BY <3>2, <3>5, <3>7 DEF CheckedSwingsHold, Holds
      <2>3. CASE CheckSwings(q)
          <3>1. CASE p = q
              <4>1. /\ call' = [call EXCEPT ![q].pc = "apply"] /\ refs' = refs
                    /\ \A s \in call[q].todo : Holds(s)
                  BY <2>3, <3>1, ReturnIs DEF CheckSwings
              <4>2. call'[q].todo = call[q].todo
                  BY <4>1, MovesOn
              <4> QED
                  BY <3>1, <4>1, <4>2 DEF Holds
          <3>2. CASE p # q
              BY <2>1, <2>3, <3>2, <1>b, UpdateIs DEF CheckSwings
          <3> QED
              BY <3>1, <3>2
      <2>4. CASE AcquireRefs(q) \/ LockTimeout(q) \/ ReleaseRefs(q)
          <3>1. p # q
              BY <2>4, MovesOn, ReturnIs DEF AcquireRefs, LockTimeout, ReleaseRefs
          <3> QED
              BY <2>1, <2>4, <3>1, <1>b, UpdateIs DEF AcquireRefs, LockTimeout, ReleaseRefs
      <2> QED
          BY <2>1, <2>2, <2>3, <2>4 DEF RefStep
  <1>2. CASE ClearJournal
      <2>1. call' = call /\ refs' = [refs EXCEPT !["journal"] = None] /\ mig.pc = "idle"
          BY <1>2 DEF ClearJournal
      <2>2. p = W
          BY <2>1, <1>a DEF Calls
      <2>3. t \in call[W].todo /\ t.name # "journal" /\ t.name \in RefNames
          BY <2>1, <2>2, <1>a, SwingIs DEF AnySwings
      <2> QED
          BY <2>1, <2>2, <2>3 DEF CheckedSwingsHold, Holds, Types, RefTypes
  <1>3. CASE ~StoreStep /\ ~ClearJournal
      <2>1. refs' = refs
          BY <1>3
          DEF Next, MigrateStart, MigrateStep, RecoverPending, Recovered, ClearRecovered,
              RecoveryCleared, Guard, ListRefs, PlanWorkspace, WriteJournal, JournalWritten,
              SwingRefs, Swung, DeleteJournal, Done, Returned, Call, Transact, CommitCheck,
              CreateBranch, WorkStep, CommitWork, WorkDone, KillMigrate, KillWork, KillCall,
              ClearLock, ClearRefsLock, vars, refVars
      <2>2. call' = call \/ (\E q \in Procs : KillCall(q) \/ \E S : Submit(q, S))
          <3>1. CASE MigrateStart \/ MigrateStep
              BY <1>a, <3>1
              DEF MigrateStart, MigrateStep, RecoverPending, Recovered, ClearRecovered,
                  RecoveryCleared, Guard, ListRefs, PlanWorkspace, WriteJournal, JournalWritten,
                  SwingRefs, Swung, DeleteJournal, Done, Returned, Call, refVars
          <3>2. CASE Transact \/ CommitCheck \/ CreateBranch \/ WorkStep
              BY <1>a, <3>2 DEF Transact, CommitCheck, CreateBranch, WorkStep, CommitWork, WorkDone, refVars
          <3>3. CASE KillMigrate \/ KillWork \/ ClearLock \/ UNCHANGED vars
              BY <1>a, <3>3 DEF KillMigrate, KillWork, ClearLock, ClearRefsLock, vars, refVars
          <3> QED
              BY <1>3, <3>1, <3>2, <3>3 DEF Next
      <2>3. call'[p] = call[p]
          BY <2>2, NotChecked
      <2> QED
          BY <2>1, <2>3, <1>b
  <1> QED
      BY <1>1, <1>2, <1>3

-----------------------------------------------------------------------------
(* Encodings                                                                *)

\* A swing that is applied finds its ref at the expected value, and moves no other ref.
LEMMA ApplyIs ==
  ASSUME Types, Calls, CheckedSwingsHold, NEW p \in Procs, ApplySwing(p)
  PROVE  \E s \in call[p].todo :
           /\ s \in AnySwings /\ s.expected = refs[s.name]
           /\ \A r \in {"main", "side", "late", "ws", "journal"} :
                refs'[r] = IF r = s.name THEN s.new ELSE refs[r]
           /\ call[p].pc = "apply" /\ call'[p].pc = "apply"
           /\ call'[p].todo = call[p].todo \ {s}
           /\ \A q \in Procs : q # p => call'[q] = call[q]
  <1>1. PICK s \in call[p].todo : /\ refs' = [refs EXCEPT ![s.name] = s.new]
                                  /\ call' = [call EXCEPT ![p].todo = @ \ {s}]
                                  /\ call[p].pc = "apply"
      BY DEF ApplySwing
  <1>2. s \in AnySwings /\ s.expected = refs[s.name]
      BY <1>1, SwingIs DEF CheckedSwingsHold, Holds
  <1>3. \A r \in {"main", "side", "late", "ws", "journal"} :
          refs'[r] = IF r = s.name THEN s.new ELSE refs[r]
      BY <1>1, Names DEF Types, RefTypes
  <1> QED
      BY <1>1, <1>2, <1>3, Applied

\* The other steps of an update move no ref, and one that is still active is as it was.
LEMMA NoApply ==
  ASSUME Types, Calls, NEW p \in Procs, RefStep(p), ~ApplySwing(p)
  PROVE  /\ refs' = refs
         /\ Active(p)' => Active(p) /\ call'[p].todo = call[p].todo
         /\ call'[p].todo \subseteq call[p].todo
         /\ \A q \in Procs : q # p => call'[q] = call[q]
  <1>1. CASE AcquireRefs(p)
      BY <1>1, MovesOn DEF AcquireRefs, Active
  <1>2. CASE LockTimeout(p)
      BY <1>2, ReturnIs DEF LockTimeout, Active
  <1>3. CASE CheckSwings(p)
      BY <1>3, MovesOn, ReturnIs DEF CheckSwings, Active
  <1>4. CASE ReleaseRefs(p)
      BY <1>4, ReturnIs DEF ReleaseRefs, Active
  <1> QED
      BY <1>1, <1>2, <1>3, <1>4 DEF RefStep

\* A run's progress only depends on the refs, the run and its update.
LEMMA ProgressKept ==
  ASSUME Progress, refs' = refs, mig' = mig, Active(M)' => Active(M) /\ call'[M].todo = call[M].todo
  PROVE  Progress'
  <1>1. Over(M)' => Over(M)
      BY DEF Over
  <1> QED
      BY <1>1 DEF Progress, Covers, AllNew, Old

\* Recovery completes every swing that was not made.
LEMMA PendingCovers ==
  ASSUME Types, Settled, refs["journal"] # None,
         ~\E s \in refs["journal"].swings : Moved(s)
  PROVE  Covers({s \in refs["journal"].swings : refs[s.name] = s.expected})
  <1> SUFFICES ASSUME NEW b \in Branches, Old(b)
               PROVE  \E s \in {t \in refs["journal"].swings : refs[t.name] = t.expected} : s.name = b
      BY DEF Covers
  <1>1. PICK s \in refs["journal"].swings : s.name = b
      BY DEF Settled, Covers
  <1>2. s.new.gen = "new" /\ refs[b] \in {s.expected, s.new}
      BY <1>1 DEF Types, RefTypes, Plan, Moved
  <1>3. refs[b] = s.expected
      BY <1>2 DEF Old
  <1> QED
      BY <1>1, <1>3

\* The list of branches covers the old ones.
LEMMA ListCovers ==
  ASSUME Types, ListRefs PROVE Covers(mig'.plan)
  <1> DEFINE plan == {Swing(b, refs[b], Rewrite(refs[b])) :
                        b \in {x \in Branches : refs[x] /= None /\ Rewrite(refs[x]) /= refs[x]}}
  <1>1. mig'.plan = plan
      BY DEF ListRefs, Types, MigTypes, MigStates
  <1> SUFFICES ASSUME NEW b \in Branches, Old(b) PROVE \E s \in plan : s.name = b
      BY <1>1 DEF Covers
  <1>2. refs[b] \in Commits
      BY DEF Old, Types, RefTypes, Branches
  <1>3. Rewrite(refs[b]) # refs[b] /\ refs[b] # None
      BY <1>2, RewriteIs DEF Old
  <1>4. Swing(b, refs[b], Rewrite(refs[b])) \in plan
      BY <1>3
  <1>5. Swing(b, refs[b], Rewrite(refs[b])).name = b
      BY DEF Swing
  <1> QED
      BY <1>4, <1>5

\* The steps between which migrate calls the ref store.
LEMMA StepNames ==
  MigSteps \ {"workspace"} = {"idle", "journal?", "recovering", "clear", "clearing", "guard", "list",
                              "record", "recording", "swing", "swinging", "delete", "deleting"}
  BY DEF MigSteps

\* An update that returned has nothing left to do.
LEMMA MigrateReturns ==
  ASSUME Types, Calls, NEW from \in MigSteps \ {"workspace"}, NEW to \in MigSteps \ {"workspace"},
         Returned(from, to)
  PROVE  /\ mig.pc = from /\ UNCHANGED <<refs, call>> /\ call[M].pc = "none" /\ call[M].todo = {}
         /\ \/ mig'.pc = to /\ mig'.plan = mig.plan /\ Active(M) /\ Over(M)
            \/ mig'.pc = "idle"
  <1>1. from \in MigSteps
      OBVIOUS
  <1> QED
      BY <1>1, TwoProcs, GotoIs, StopIs DEF Returned, refVars, Calls, Active, Over

\* A call of migrate submits its swings.
LEMMA MigrateSubmits ==
  ASSUME Types, NEW from \in MigSteps \ {"workspace"}, NEW to \in MigSteps \ {"workspace"}
  PROVE  \A S \in SUBSET AnySwings : Call(from, to, S) =>
           /\ mig.pc = from /\ mig'.pc = to /\ mig'.plan = mig.plan
           /\ refs' = refs /\ call'[W] = call[W] /\ call'[M].todo = S
  <1> SUFFICES ASSUME NEW S \in SUBSET AnySwings, Call(from, to, S)
               PROVE  /\ mig.pc = from /\ mig'.pc = to /\ mig'.plan = mig.plan
                      /\ refs' = refs /\ call'[W] = call[W] /\ call'[M].todo = S
      OBVIOUS
  <1>1. mig.pc = from /\ Submit(M, S) /\ Goto(to) /\ refs' = refs
      BY DEF Call
  <1>2. mig'.pc = to /\ mig'.plan = mig.plan
      BY <1>1, GotoIs
  <1>3. call'[W] = call[W] /\ call'[M].todo = S
      BY <1>1, TwoProcs, SubmitIs
  <1> QED
      BY <1>1, <1>2, <1>3

\* The plan is given up, kept, or extended by the workspace.
LEMMA WorkspacePlanned ==
  ASSUME Types, PlanWorkspace
  PROVE  /\ mig.pc = "workspace" /\ refs' = refs
         /\ \/ mig'.pc = "idle" /\ mig'.plan = {}
            \/ mig'.pc = "record" /\ mig'.plan = mig.plan
            \/ /\ mig'.pc = "record" /\ refs["ws"] # None
               /\ mig'.plan = mig.plan \cup {Swing("ws", refs["ws"], Rewrite(refs["main"]))}
  <1> DEFINE s == Swing("ws", refs["ws"], Rewrite(refs["main"]))
             plan == IF refs["ws"] \in {None, Rewrite(refs["main"])} THEN mig.plan
                     ELSE mig.plan \cup {s}
  <1>1. mig.pc = "workspace" /\ refs' = refs
      BY DEF PlanWorkspace, refVars
  <1>2. Stop \/ mig' = [mig EXCEPT !.pc = "record", !.plan = plan]
      BY DEF PlanWorkspace
  <1>3. CASE Stop
      BY <1>1, <1>3, StopIs
  <1>4. CASE mig' = [mig EXCEPT !.pc = "record", !.plan = plan]
      <2> HIDE DEF plan
      <2>1. mig'.pc = "record" /\ mig'.plan = plan
          BY <1>4 DEF Types, MigTypes, MigStates
      <2>2. plan = mig.plan \/ (refs["ws"] # None /\ plan = mig.plan \cup {s})
          BY DEF plan
      <2> QED
          BY <1>1, <2>1, <2>2
  <1> QED
      BY <1>2, <1>3, <1>4

\* Every step of migrate leaves the encodings covered by its plan or the journal.
LEMMA MigrateProgress ==
  ASSUME Types, Calls, Settled, Progress, MigrateStart \/ MigrateStep PROVE Progress'
  <1>a. mig'.pc \in {"idle", "journal?"} => Progress'
      BY DEF Progress
  <1>b. M \in Procs /\ mig.plan \in SUBSET PlanSwings /\ mig.plan \in SUBSET AnySwings
      BY TwoProcs, PlansAreSwings DEF Types, MigTypes, Plan
  <1>c. Covers({}) => AllNew
      BY DEF Covers, AllNew
  <1>d. refs' = refs => (AllNew => AllNew') /\ \A S : Covers(S) => \A b \in Branches : Old(b)' => \E s \in S : s.name = b
      BY DEF AllNew, Covers, Old
  <1>1. CASE MigrateStart
      BY <1>1, <1>a, GotoIs DEF MigrateStart, MigSteps
  <1>2. CASE RecoverPending
      <2>1. CASE refs["journal"] = None
          <3>1. mig'.pc = "guard" /\ refs' = refs
              BY <1>2, <2>1, GotoIs DEF RecoverPending, refVars, MigSteps
          <3> QED
              BY <2>1, <3>1 DEF Progress
      <2> DEFINE swings == refs["journal"].swings
                 pending == {s \in swings : refs[s.name] = s.expected}
      <2>2. CASE refs["journal"] # None /\ \E s \in swings : Moved(s)
          BY <1>2, <2>2, <1>a, StopIs DEF RecoverPending
      <2>3. CASE refs["journal"] # None /\ ~\E s \in swings : Moved(s)
          <3>1. Submit(M, pending) /\ Goto("recovering") /\ refs' = refs
              BY <1>2, <2>3 DEF RecoverPending
          <3>2. pending \in SUBSET AnySwings /\ Covers(pending)
              BY <2>3, PlansAreSwings, PendingCovers DEF Types, RefTypes, Plan
          <3>3. mig'.pc = "recovering" /\ call'[M].todo = pending
              BY <3>1, <3>2, <1>b, GotoIs, SubmitIs DEF MigSteps
          <3>4. Covers(call[M].todo)'
              BY <3>1, <3>2, <3>3 DEF Covers, Old
          <3> QED
              BY <2>3, <3>1, <3>3, <3>4 DEF Progress
      <2> QED
          BY <2>1, <2>2, <2>3
  <1>3. CASE Recovered
      <2>1. /\ mig.pc = "recovering" /\ refs' = refs /\ call[M].todo = {}
            /\ (mig'.pc = "clear" /\ Active(M)) \/ mig'.pc = "idle"
          BY <1>3, StepNames, MigrateReturns DEF Recovered
      <2>2. mig'.pc = "clear" => AllNew
          BY <2>1, <1>c DEF Progress
      <2> QED
          BY <2>1, <2>2, <1>a, <1>d DEF Progress
  <1>4. CASE ClearRecovered
      <2>1. /\ mig.pc = "clear" /\ mig'.pc = "clearing" /\ refs' = refs
            /\ call'[M].todo = DeleteSwings("journal")
          BY <1>4, DeleteIs, StepNames, MigrateSubmits DEF ClearRecovered
      <2>2. AllNew'
          BY <2>1, <1>d DEF Progress
      <2>3. Over(M)' => refs'["journal"] = None
          BY <2>1, DeleteIs DEF Over
      <2> QED
          BY <2>1, <2>2, <2>3 DEF Progress
  <1>5. CASE RecoveryCleared
      <2>1. /\ mig.pc = "clearing" /\ refs' = refs
            /\ (mig'.pc = "guard" /\ Over(M)) \/ mig'.pc = "idle"
          BY <1>5, StepNames, MigrateReturns DEF RecoveryCleared
      <2>2. mig'.pc = "guard" => refs'["journal"] = None
          BY <2>1 DEF Progress
      <2> QED
          BY <2>1, <2>2, <1>a DEF Progress
  <1>6. CASE Guard
      <2>1. mig.pc = "guard" /\ refs' = refs /\ mig'.pc \in {"idle", "list"}
          BY <1>6, StopIs, GotoIs DEF Guard, refVars, MigSteps
      <2> QED
          BY <2>1, <1>a DEF Progress
  <1>7. CASE ListRefs
      <2>1. mig.pc = "list" /\ refs' = refs /\ mig'.pc = "workspace"
          BY <1>7 DEF ListRefs, refVars, Types, MigTypes, MigStates
      <2>2. Covers(mig.plan)'
          BY <1>7, <2>1, ListCovers DEF Covers, Old
      <2> QED
          BY <2>1, <2>2 DEF Progress
  <1>8. CASE PlanWorkspace
      <2>1. /\ mig.pc = "workspace" /\ refs' = refs
            /\ (mig'.pc = "record" /\ mig.plan \subseteq mig'.plan) \/ mig'.pc = "idle"
          BY <1>8, WorkspacePlanned
      <2>2. mig'.pc = "record" => Covers(mig.plan)'
          BY <2>1 DEF Progress, Covers, Old
      <2> QED
          BY <2>1, <2>2, <1>a DEF Progress
  <1>9. CASE WriteJournal
      <2>1. /\ mig.pc = "record" /\ mig'.pc = "recording" /\ mig'.plan = mig.plan /\ refs' = refs
            /\ call'[M].todo = {Swing("journal", None, MigrateJournal(mig.plan))}
          <3> DEFINE S == {Swing("journal", None, MigrateJournal(mig.plan))}
          <3>1. S \in SUBSET AnySwings
              BY <1>b, PlansAreSwings
          <3>2. Call("record", "recording", S)
              BY <1>9 DEF WriteJournal
          <3> HIDE DEF S
          <3>3. /\ mig.pc = "record" /\ mig'.pc = "recording" /\ mig'.plan = mig.plan /\ refs' = refs
                /\ call'[M].todo = S
              BY <3>1, <3>2, StepNames, MigrateSubmits
          <3> QED
              BY <3>3 DEF S
      <2>2. Covers(mig.plan)'
          BY <2>1 DEF Progress, Covers, Old
      <2>3. ~Over(M)'
          BY <2>1 DEF Over
      <2> QED
          BY <2>1, <2>2, <2>3 DEF Progress
  <1>10. CASE JournalWritten
      <2>1. /\ mig.pc = "recording" /\ refs' = refs
            /\ (mig'.pc = "swing" /\ mig'.plan = mig.plan /\ Over(M)) \/ mig'.pc = "idle"
          BY <1>10, StepNames, MigrateReturns DEF JournalWritten
      <2>2. mig'.pc = "swing" => Covers(mig.plan)' /\ refs'["journal"] = MigrateJournal(mig'.plan)
          BY <2>1 DEF Progress, Covers, Old
      <2> QED
          BY <2>1, <2>2, <1>a DEF Progress
  <1>11. CASE SwingRefs
      <2>1. /\ mig.pc = "swing" /\ mig'.pc = "swinging" /\ mig'.plan = mig.plan /\ refs' = refs
            /\ call'[M].todo = mig.plan
          BY <1>11, <1>b, StepNames, MigrateSubmits DEF SwingRefs
      <2>2. Covers(call[M].todo)'
          BY <2>1 DEF Progress, Covers, Old
      <2> QED
          BY <2>1, <2>2 DEF Progress
  <1>12. CASE Swung
      <2>1. /\ mig.pc = "swinging" /\ refs' = refs /\ call[M].todo = {}
            /\ (mig'.pc = "delete" /\ Active(M)) \/ mig'.pc = "idle"
          BY <1>12, StepNames, MigrateReturns DEF Swung
      <2>2. mig'.pc = "delete" => AllNew
          BY <2>1, <1>c DEF Progress
      <2> QED
          BY <2>1, <2>2, <1>a, <1>d DEF Progress
  <1>13. CASE DeleteJournal
      <2>1. mig.pc = "delete" /\ mig'.pc = "deleting" /\ refs' = refs
          BY <1>13, DeleteIs, StepNames, MigrateSubmits DEF DeleteJournal
      <2>2. AllNew'
          BY <2>1, <1>d DEF Progress
      <2> QED
          BY <2>1, <2>2 DEF Progress
  <1>14. CASE Done
      BY <1>14, <1>a, StopIs DEF Done
  <1> QED
      BY <1>1, <1>2, <1>3, <1>4, <1>5, <1>6, <1>7, <1>8, <1>9, <1>10, <1>11, <1>12, <1>13, <1>14
      DEF MigrateStep

\* A swing of migrate brings a ref to the new encoding, or writes or deletes the journal.
LEMMA MigrateApplies ==
  ASSUME Types, Calls, CheckedSwingsHold, Encodings, ApplySwing(M), mig' = mig
  PROVE  Encodings'
  <1>a. M \in Procs /\ W \in Procs /\ M # W
      BY TwoProcs
  <1>1. PICK s \in call[M].todo :
           /\ s \in AnySwings /\ s.expected = refs[s.name]
           /\ \A r \in {"main", "side", "late", "ws", "journal"} :
                refs'[r] = IF r = s.name THEN s.new ELSE refs[r]
           /\ call[M].pc = "apply" /\ call'[M].pc = "apply"
           /\ call'[M].todo = call[M].todo \ {s}
           /\ \A q \in Procs : q # M => call'[q] = call[q]
      BY <1>a, ApplyIs
  <1>2. mig.pc \in {"recovering", "clearing", "recording", "swinging", "deleting"}
      BY <1>1 DEF Calls
  <1>3. call'[W] = call[W] /\ Active(M)
      BY <1>1, <1>a DEF Active
  <1>4. CASE mig.pc \in {"recovering", "swinging"}
      <2>1. s.name \in Planned /\ s.new.gen = "new" /\ s.name # "journal"
          BY <1>4 DEF Calls, MigSwings, Plan, PlanSwings, Planned, Branches
      <2>2. \A b \in Branches : Old(b)' => Old(b) /\ b # s.name
          BY <1>1, <2>1 DEF Old, Branches
      <2>3. refs'["journal"] = refs["journal"] /\ refs["journal"] # None
          <3>1. mig.plan \in SUBSET PlanSwings
              BY DEF Types, MigTypes, Plan
          <3> QED
              BY <1>1, <1>4, <2>1, <3>1, Names DEF Encodings, Progress
      <2>4. Settled'
          BY <2>2, <2>3 DEF Encodings, Settled, Covers
      <2>5. Covers(call[M].todo)'
          <3> SUFFICES ASSUME NEW b \in Branches, Old(b)' PROVE \E t \in call'[M].todo : t.name = b
              BY DEF Covers
          <3>1. PICK t \in call[M].todo : t.name = b
              BY <1>3, <1>4, <2>2 DEF Encodings, Progress, Covers
          <3> QED
              BY <1>1, <2>2, <3>1
      <2>6. Progress'
          BY <1>4, <2>3, <2>5 DEF Encodings, Progress
      <2>7. refs'["main"].gen = "old" => refs["main"].gen = "old"
          BY <1>1, <2>1
      <2> QED
          BY <1>3, <2>4, <2>6, <2>7 DEF Encodings, WorkUpdates
  <1>5. CASE mig.pc \in {"recording", "clearing", "deleting"}
      <2>1. s.name = "journal"
          <3>1. MigSwings(mig, call[M].todo)
              BY DEF Calls
          <3> QED
              BY <1>1, <1>5, <3>1, JournalSwing
      <2>2. \A b \in Branches : refs'[b] = refs[b]
          BY <1>1, <2>1 DEF Branches
      <2>3. refs'["journal"] = s.new
          BY <1>1, <2>1
      <2>4. WorkUpdates'
          BY <1>3, <2>2 DEF Encodings, WorkUpdates, Branches
      <2>5. CASE mig.pc = "recording"
          <3>1. s.new = MigrateJournal(mig.plan) /\ MigrateJournal(mig.plan) # None
                /\ MigrateJournal(mig.plan).swings = mig.plan
              <4>1. s = Swing("journal", None, MigrateJournal(mig.plan))
                  BY <2>5 DEF Calls, MigSwings
              <4>2. mig.plan \in SUBSET PlanSwings
                  BY DEF Types, MigTypes, Plan
              <4> QED
                  BY <4>1, <4>2, Names DEF Swing
          <3>2. Covers(mig.plan)'
              BY <2>2, <2>5 DEF Encodings, Progress, Covers, Old
          <3>3. Settled'
              BY <2>3, <3>1, <3>2 DEF Settled, Covers
          <3>4. Progress'
              BY <2>3, <2>5, <3>1, <3>2 DEF Progress
          <3> QED
              BY <2>4, <3>3, <3>4 DEF Encodings
      <2>6. CASE mig.pc \in {"clearing", "deleting"}
          <3>1. refs'["journal"] = None
              BY <2>3, <2>6 DEF Calls, MigSwings
          <3>2. AllNew /\ AllNew'
              BY <2>2, <2>6 DEF Encodings, Progress, AllNew, Old
          <3>3. Uniform'
              <4>1. \A b \in Branches : refs[b] # None => refs[b].gen = "new"
                  <5> SUFFICES ASSUME NEW b \in Branches, refs[b] # None PROVE refs[b].gen = "new"
                      OBVIOUS
                  <5>1. refs[b] \in Commits
                      BY DEF Types, RefTypes, Branches
                  <5> QED
                      BY <5>1, <3>2 DEF AllNew, Old, Commits
              <4>2. refs["main"] # None
                  BY Names DEF Types, RefTypes
              <4> QED
                  BY <2>2, <4>1, <4>2 DEF Uniform, Branches
          <3>4. Settled'
              BY <3>1, <3>3 DEF Settled
          <3>5. Progress'
              BY <2>6, <3>1, <3>2 DEF Progress
          <3> QED
              BY <2>4, <3>4, <3>5 DEF Encodings
      <2> QED
          BY <1>5, <2>5, <2>6
  <1> QED
      BY <1>2, <1>4, <1>5

\* A swing of the other process keeps the encodings: a commit has its parent's,
\* and an old branch that appears too late is a departure.
LEMMA WorkApplies ==
  ASSUME Types, Calls, CheckedSwingsHold, Encodings, ApplySwing(W), mig' = mig,
         Swinging /\ refs["late"] = None /\ refs'["late"] # None => refs'["late"].gen # "old"
  PROVE  Encodings'
  <1>a. M \in Procs /\ W \in Procs /\ M # W
      BY TwoProcs
  <1>1. PICK s \in call[W].todo :
           /\ s \in AnySwings /\ s.expected = refs[s.name]
           /\ \A r \in {"main", "side", "late", "ws", "journal"} :
                refs'[r] = IF r = s.name THEN s.new ELSE refs[r]
           /\ call'[W].todo = call[W].todo \ {s}
           /\ \A q \in Procs : q # W => call'[q] = call[q]
      BY <1>a, ApplyIs
  <1>2. call'[M] = call[M] /\ call'[W].todo = {}
      BY <1>1, <1>a DEF Calls
  <1>3. WorkUpdates'
      BY <1>2 DEF WorkUpdates
  <1>4. WorkSwing(s) /\ s.name # "journal" /\ refs'["journal"] = refs["journal"]
      BY <1>1 DEF Calls, WorkSwing
  <1>5. ASSUME \A b \in Branches : Old(b)' => Old(b) PROVE Progress'
      <2>1. (Active(M)' => Active(M)) /\ (Over(M)' => Over(M))
          BY <1>2 DEF Active, Over
      <2> QED
          BY <1>2, <1>4, <1>5, <2>1 DEF Encodings, Progress, Covers, AllNew
  <1>6. ASSUME \A b \in Branches : Old(b)' => Old(b), Uniform => Uniform' PROVE Encodings'
      <2>1. Settled'
          BY <1>4, <1>6 DEF Encodings, Settled, Covers
      <2> QED
          BY <1>3, <1>5, <1>6, <2>1 DEF Encodings
  <1>7. CASE s.name = "ws"
      <2>1. \A b \in Branches : refs'[b] = refs[b]
          BY <1>1, <1>7 DEF Branches
      <2> QED
          BY <1>6, <2>1 DEF Old, Uniform, Branches
  <1>8. CASE s.name = "main"
      <2>1. s.new.gen = refs["main"].gen /\ refs["main"] # None
          BY <1>1, <1>8, Names DEF Encodings, WorkUpdates, Types, RefTypes
      <2>2. \A b \in Branches : refs'[b] # None => refs[b] # None /\ refs'[b].gen = refs[b].gen
          BY <1>1, <1>8, <2>1 DEF Branches
      <2>3. refs'["main"].gen = refs["main"].gen
          BY <1>1, <1>8, <2>1
      <2> QED
          BY <1>6, <2>2, <2>3 DEF Old, Uniform
  <1>9. CASE s.name = "late"
      <2>1. refs["late"] = None /\ refs'["late"] = s.new /\ s.new \in Commits /\ s.new # None
          BY <1>1, <1>4, <1>9, Names DEF WorkSwing
      <2>2. refs'["main"] = refs["main"] /\ refs'["side"] = refs["side"]
          BY <1>1, <1>9
      <2>3. refs["main"].gen = "old" => s.new.gen = "old"
          BY <1>9 DEF Encodings, WorkUpdates
      <2>4. refs["main"].gen \in {"old", "new"} /\ s.new.gen \in {"old", "new"}
          BY <2>1 DEF Types, RefTypes, Commits
      <2>5. CASE s.new.gen = "new"
          <3>1. refs["main"].gen = "new"
              BY <2>3, <2>4, <2>5
          <3>2. \A b \in Branches : Old(b)' => Old(b)
              BY <2>1, <2>2, <2>5 DEF Old, Branches
          <3> QED
              BY <1>6, <2>1, <2>2, <2>5, <3>1, <3>2 DEF Uniform, Branches
      <2>6. CASE s.new.gen = "old"
          <3>1. /\ mig.pc \in {"idle", "journal?", "guard", "list"} /\ refs["journal"] = None
                /\ refs["main"].gen # "new"
              BY <2>1, <2>6 DEF Swinging
          <3>2. refs["main"].gen = "old"
              BY <2>4, <3>1
          <3>3. Uniform'
              BY <2>1, <2>2, <2>6, <3>1, <3>2 DEF Encodings, Settled, Uniform, Branches
          <3> QED
              BY <1>3, <1>4, <3>1, <3>3 DEF Encodings, Settled, Progress
      <2> QED
          BY <2>4, <2>5, <2>6
  <1> QED
      BY <1>4, <1>7, <1>8, <1>9 DEF WorkSwing

\* The encodings stay covered, step by step, while nothing departs from the guarantee.
LEMMA EncodingsStep ==
  ASSUME Types, Calls, CheckedSwingsHold, Undisturbed => Encodings, [Next]_vars, Undisturbed'
  PROVE  Encodings'
  <1>a. M \in Procs /\ W \in Procs /\ M # W
      BY TwoProcs
  <1>b. departed \subseteq departed'
      BY DEF Next, MigrateStart, MigrateStep, RecoverPending, Recovered, ClearRecovered,
             RecoveryCleared, Guard, ListRefs, PlanWorkspace, WriteJournal, JournalWritten,
             SwingRefs, Swung, DeleteJournal, Done, Returned, Call, MigOnly, Transact, CommitCheck,
             CreateBranch, WorkStep, CommitWork, WorkDone, StoreStep, KillMigrate, KillWork,
             ClearLock, ClearJournal, vars
  <1>c. Encodings
      BY <1>b DEF Undisturbed
  <1>d. refs' = refs => Settled'
      BY <1>c DEF Encodings, Settled, Uniform, Covers, Old
  <1>e. refs' = refs /\ mig' = mig /\ call'[M] = call[M] => Progress'
      BY <1>c, ProgressKept DEF Encodings, Active
  <1>f. refs' = refs /\ call'[W].todo \subseteq call[W].todo => WorkUpdates'
      BY <1>c DEF Encodings, WorkUpdates
  <1>g. ASSUME NEW s \in AnySwings, Submit(W, {s}), UNCHANGED <<refs, mig>>,
               s.name = "main" => s.new.gen = s.expected.gen,
               s.name = "late" => s.new = refs["main"]
        PROVE  Encodings'
      <2>1. call'[W].todo = {s} /\ call'[M] = call[M]
          BY <1>a, <1>g, SubmitIs
      <2>2. WorkUpdates'
          BY <1>g, <2>1 DEF WorkUpdates
      <2> QED
          BY <1>d, <1>e, <1>g, <2>1, <2>2 DEF Encodings
  <1>1. CASE MigrateStart \/ MigrateStep
      <2>1. refs' = refs
          BY <1>1
          DEF MigrateStart, MigrateStep, RecoverPending, Recovered, ClearRecovered,
              RecoveryCleared, Guard, ListRefs, PlanWorkspace, WriteJournal, JournalWritten,
              SwingRefs, Swung, DeleteJournal, Done, Returned, Call, refVars
      <2>2. call' = call \/ \E S : Submit(M, S)
          BY <1>1
          DEF MigrateStart, MigrateStep, RecoverPending, Recovered, ClearRecovered,
              RecoveryCleared, Guard, ListRefs, PlanWorkspace, WriteJournal, JournalWritten,
              SwingRefs, Swung, DeleteJournal, Done, Returned, Call, refVars
      <2>3. call'[W] = call[W]
          BY <1>a, <2>2, NotChecked
      <2>4. Progress'
          BY <1>1, <1>c, MigrateProgress DEF Encodings
      <2> QED
          BY <1>d, <1>f, <2>1, <2>3, <2>4 DEF Encodings
  <1>2. CASE Transact
      <2> DEFINE next == [ReadWs EXCEPT !.n = @ + 1]
                 s == Swing("ws", refs["ws"], next)
      <2>1. next \in Commits
          BY DEF ReadWs, Types, RefTypes, Commits
      <2>2. Submit(W, {s}) /\ UNCHANGED <<refs, mig>>
          BY <1>2 DEF Transact, Begin, WorkOnly
      <2>3. s \in AnySwings /\ s.name = "ws"
          BY <2>1, Names DEF AnySwings, Swing, Types, RefTypes
      <2> HIDE DEF s
      <2> QED
          BY <2>2, <2>3, <1>g
  <1>3. CASE CreateBranch
      <2> DEFINE s == Swing("late", None, refs["main"])
      <2>1. Submit(W, {s}) /\ UNCHANGED <<refs, mig>>
          BY <1>3 DEF CreateBranch, Begin, WorkOnly
      <2>2. s \in AnySwings /\ s.name = "late" /\ s.new = refs["main"]
          BY Names DEF AnySwings, Swing, Types, RefTypes
      <2> HIDE DEF s
      <2> QED
          BY <2>1, <2>2, <1>g
  <1>4. CASE CommitWork /\ refs["main"] # work.next
      <2> DEFINE s == Swing("main", refs["main"], work.next)
      <2>1. Submit(W, {s}) /\ UNCHANGED <<refs, mig>>
          BY <1>4 DEF CommitWork, WorkOnly
      <2>2. refs["main"].gen = work.next.gen
          BY <1>4 DEF CommitWork, Undisturbed
      <2>3. s \in AnySwings /\ s.name = "main" /\ s.new = work.next /\ s.expected = refs["main"]
          BY <1>4, Names DEF CommitWork, AnySwings, Swing, Types, RefTypes, WorkTypes
      <2> HIDE DEF s
      <2> QED
          BY <2>1, <2>2, <2>3, <1>g
  <1>5. CASE (CommitWork /\ refs["main"] = work.next) \/ WorkDone \/ CommitCheck \/ ClearLock
             \/ UNCHANGED vars
      <2>1. UNCHANGED <<refs, call, mig>>
          BY <1>5 DEF CommitWork, WorkDone, CommitCheck, Begin, WorkOnly, refVars, ClearLock,
                      ClearRefsLock, vars
      <2> QED
          BY <1>d, <1>e, <1>f, <2>1 DEF Encodings
  <1>6. CASE KillMigrate
      <2>1. mig'.pc = "idle" /\ call'[W] = call[W] /\ refs' = refs
          BY <1>6, <1>a, StopIs, KillIs DEF KillMigrate, KillCall
      <2>2. Progress'
          BY <2>1 DEF Progress
      <2> QED
          BY <1>d, <1>f, <2>1, <2>2 DEF Encodings
  <1>7. CASE KillWork
      <2>1. call'[W].todo = {} /\ call'[M] = call[M] /\ UNCHANGED <<refs, mig>>
          <3>1. KillCall(W) /\ UNCHANGED <<refs, mig>>
              BY <1>7 DEF KillWork, KillCall
          <3> QED
              BY <3>1, <1>a, KillIs
      <2> QED
          BY <1>d, <1>e, <1>f, <2>1 DEF Encodings
  <1>8. CASE ClearJournal
      BY <1>8 DEF ClearJournal, Undisturbed
  <1>9. CASE StoreStep
      <2>1. PICK p \in Procs : RefStep(p)
          BY <1>9 DEF StoreStep
      <2>2. mig' = mig
          BY <1>9 DEF StoreStep
      <2>3. CASE ApplySwing(p)
          <3>1. Swinging /\ refs["late"] = None /\ refs'["late"] # None => refs'["late"].gen # "old"
              BY <1>9 DEF StoreStep, Undisturbed
          <3> QED
              BY <1>a, <1>c, <2>2, <2>3, <3>1, TwoProcs, MigrateApplies, WorkApplies
      <2>4. CASE ~ApplySwing(p)
          <3>1. /\ refs' = refs
                /\ Active(p)' => Active(p) /\ call'[p].todo = call[p].todo
                /\ call'[p].todo \subseteq call[p].todo
                /\ \A q \in Procs : q # p => call'[q] = call[q]
              BY <2>1, <2>4, NoApply
          <3>2. Active(M)' => Active(M) /\ call'[M].todo = call[M].todo
              BY <3>1, <1>a DEF Active
          <3>3. Progress'
              BY <1>c, <2>2, <3>1, <3>2, ProgressKept DEF Encodings
          <3>4. call'[W].todo \subseteq call[W].todo
              BY <3>1, <1>a
          <3> QED
              BY <1>d, <1>f, <3>1, <3>3, <3>4 DEF Encodings
      <2> QED
          BY <2>3, <2>4
  <1> QED
      BY <1>1, <1>2, <1>3, <1>4, <1>5, <1>6, <1>7, <1>8, <1>9 DEF Next, WorkStep

-----------------------------------------------------------------------------
(* Transactions                                                             *)

\* A plan made after a clean dirty check keeps every transaction.
LEMMA MigrateKeeps ==
  ASSUME Types, Calls, RefsKeep, MigKeeps, MigrateStart \/ MigrateStep PROVE MigKeeps'
  <1>a. mig'.plan = {} /\ mig'.pc = "idle" => MigKeeps'
      BY DEF MigKeeps, Keeps
  <1>b. mig.plan \in SUBSET PlanSwings /\ mig.plan \in SUBSET AnySwings /\ M \in Procs
      BY PlansAreSwings, TwoProcs DEF Types, MigTypes, Plan
  <1>c. mig'.pc \notin {"list", "workspace", "recovering", "swinging"} /\ mig'.plan = mig.plan
          => MigKeeps'
      BY DEF MigKeeps
  <1>1. CASE MigrateStart
      BY <1>1, <1>c, GotoIs DEF MigrateStart, MigSteps
  <1>2. CASE RecoverPending
      <2>1. CASE refs["journal"] = None
          BY <1>2, <2>1, <1>c, GotoIs DEF RecoverPending, MigSteps
      <2> DEFINE swings == refs["journal"].swings
                 pending == {s \in swings : refs[s.name] = s.expected}
      <2>2. CASE refs["journal"] # None /\ \E s \in swings : Moved(s)
          BY <1>2, <2>2, <1>a, StopIs DEF RecoverPending
      <2>3. CASE refs["journal"] # None /\ ~\E s \in swings : Moved(s)
          <3>1. Submit(M, pending) /\ Goto("recovering")
              BY <1>2, <2>3 DEF RecoverPending
          <3>2. pending \in SUBSET AnySwings
              BY <2>3, PlansAreSwings DEF Types, RefTypes, Plan
          <3>3. mig'.pc = "recovering" /\ mig'.plan = mig.plan /\ call'[M].todo = pending
              BY <3>1, <3>2, <1>b, GotoIs, SubmitIs DEF MigSteps
          <3> QED
              BY <2>3, <3>3 DEF MigKeeps, RefsKeep, Keeps
      <2> QED
          BY <2>1, <2>2, <2>3
  <1>3. CASE Recovered \/ RecoveryCleared \/ JournalWritten \/ Swung
      <2>1. \/ mig'.pc \in {"clear", "guard", "swing", "delete"} /\ mig'.plan = mig.plan
            \/ mig'.pc = "idle" /\ mig'.plan = {}
          BY <1>3, GotoIs, StopIs DEF Recovered, RecoveryCleared, JournalWritten, Swung, Returned, MigSteps
      <2> QED
          BY <2>1, <1>a, <1>c
  <1>4. CASE ClearRecovered \/ WriteJournal \/ DeleteJournal
      <2>1. mig'.pc \in {"clearing", "recording", "deleting"} /\ mig'.plan = mig.plan
          BY <1>4, GotoIs DEF ClearRecovered, WriteJournal, DeleteJournal, Call, MigSteps
      <2> QED
          BY <2>1, <1>c
  <1>5. CASE Guard
      <2>1. CASE Dirty
          BY <1>5, <2>1, <1>a, StopIs DEF Guard
      <2>2. CASE ~Dirty
          <3>1. mig'.pc = "list" /\ mig'.plan = mig.plan /\ refs' = refs
              BY <1>5, <2>2, GotoIs DEF Guard, refVars, MigSteps
          <3> QED
              BY <2>2, <3>1 DEF MigKeeps, Dirty
      <2> QED
          BY <2>1, <2>2
  <1>6. CASE ListRefs
      <2> DEFINE plan == {Swing(b, refs[b], Rewrite(refs[b])) :
                            b \in {x \in Branches : refs[x] /= None /\ Rewrite(refs[x]) /= refs[x]}}
      <2>1. mig'.plan = plan /\ mig'.pc = "workspace" /\ refs' = refs /\ mig.pc = "list"
          BY <1>6 DEF ListRefs, refVars, Types, MigTypes, MigStates
      <2>2. Keeps(plan)
          <3> SUFFICES ASSUME NEW b \in Branches, refs[b] # None
                       PROVE  Rewrite(refs[b]).n = refs[b].n
              BY DEF Keeps, Swing
          <3>1. refs[b] \in Commits
              BY DEF Types, RefTypes, Branches
          <3> QED
              BY <3>1, RewriteIs
      <2> HIDE DEF plan
      <2> QED
          BY <2>1, <2>2 DEF MigKeeps
  <1>7. CASE PlanWorkspace
      <2> DEFINE s == Swing("ws", refs["ws"], Rewrite(refs["main"]))
      <2>1. mig.pc = "workspace"
          BY <1>7, WorkspacePlanned
      <2>2. \/ mig'.pc = "idle" /\ mig'.plan = {}
            \/ mig'.pc = "record" /\ mig'.plan = mig.plan
            \/ mig'.pc = "record" /\ mig'.plan = mig.plan \cup {s} /\ refs["ws"] # None
          BY <1>7, WorkspacePlanned
      <2>3. refs["ws"] # None => s.new.n = s.expected.n
          <3>1. Rewrite(refs["main"]).n = refs["main"].n
              BY RewriteIs DEF Types, RefTypes
          <3> QED
              BY <2>1, <3>1 DEF MigKeeps, Swing
      <2> HIDE DEF s
      <2>4. CASE mig'.pc = "record" /\ mig'.plan = mig.plan \cup {s} /\ refs["ws"] # None
          BY <2>3, <2>4 DEF MigKeeps, Keeps
      <2> QED
          BY <2>2, <2>4, <1>a, <1>c
  <1>8. CASE SwingRefs
      <2>1. mig'.pc = "swinging" /\ mig'.plan = mig.plan /\ call'[M].todo = mig.plan
          BY <1>8, <1>b, StepNames, MigrateSubmits DEF SwingRefs
      <2> QED
          BY <2>1 DEF MigKeeps
  <1>9. CASE Done
      BY <1>9, <1>a, StopIs DEF Done
  <1> QED
      BY <1>1, <1>2, <1>3, <1>4, <1>5, <1>6, <1>7, <1>8, <1>9 DEF MigrateStep

\* The commits of the refs count their transactions.
LEMMA Counts ==
  ASSUME Types
  PROVE  /\ refs["main"].n \in Nat /\ refs["side"].n \in Nat /\ ReadWs.n \in Nat
         /\ refs["ws"] # None => refs["ws"].n \in Nat
         /\ \A b \in Branches : refs[b] # None => refs[b].n \in Nat
  BY DEF Types, RefTypes, Commits, ReadWs, Branches

\* A swing of migrate leaves every ref with the transactions it had.
LEMMA MigrateApplyKeeps ==
  ASSUME Types, Calls, CheckedSwingsHold, Transactions, ApplySwing(M), UNCHANGED <<mig, work>>
  PROVE  /\ Transactions'
         /\ \A r \in {"main", "side", "late", "ws"} :
              refs[r] # None => refs'[r] # None /\ refs'[r].n = refs[r].n
  <1>a. M \in Procs /\ W \in Procs /\ M # W
      BY TwoProcs
  <1>1. PICK s \in call[M].todo :
           /\ s \in AnySwings /\ s.expected = refs[s.name]
           /\ \A r \in {"main", "side", "late", "ws", "journal"} :
                refs'[r] = IF r = s.name THEN s.new ELSE refs[r]
           /\ call[M].pc = "apply" /\ call'[M].pc = "apply"
           /\ call'[M].todo = call[M].todo \ {s}
           /\ \A q \in Procs : q # M => call'[q] = call[q]
      BY <1>a, ApplyIs
  <1>2. mig.pc \in {"recovering", "clearing", "recording", "swinging", "deleting"}
      BY <1>1 DEF Calls
  <1>3. call'[W] = call[W]
      BY <1>1, <1>a
  <1>4. \A r \in {"main", "side", "late", "ws"} :
          /\ refs[r] # None => refs'[r] # None /\ refs'[r].n = refs[r].n
          /\ refs[r] = None => refs'[r] = None
      <2>1. CASE mig.pc \in {"recovering", "swinging"}
          <3>1. s.expected # None /\ s.new # None /\ s.new.n = s.expected.n
              BY <2>1, Names DEF Calls, MigSwings, Plan, PlanSwings, Transactions, MigKeeps, Keeps
          <3> QED
              BY <1>1, <3>1
      <2>2. CASE mig.pc \in {"recording", "clearing", "deleting"}
          <3>1. s.name = "journal"
              <4>1. MigSwings(mig, call[M].todo)
                  BY DEF Calls
              <4> QED
                  BY <1>1, <2>2, <4>1, JournalSwing
          <3> QED
              BY <1>1, <3>1
      <2> QED
          BY <1>2, <2>1, <2>2
  <1>5. refs'["journal"] # None => Keeps(refs'["journal"].swings)
      <2>1. CASE s.name = "journal"
          <3>1. s.new \in {None, MigrateJournal(mig.plan)}
              BY <1>a, <2>1, SwingIs
          <3>2. MigrateJournal(mig.plan).swings = mig.plan
              BY Names DEF Types, MigTypes, Plan
          <3> QED
              BY <1>1, <2>1, <3>1, <3>2 DEF Transactions, MigKeeps
      <2>2. CASE s.name # "journal"
          BY <1>1, <2>2 DEF Transactions, RefsKeep
      <2> QED
          BY <2>1, <2>2
  <1>6. /\ refs["main"] # None /\ refs'["main"].n = refs["main"].n
        /\ refs'["ws"] # None => refs["ws"] # None /\ refs'["ws"].n = refs["ws"].n
        /\ ReadWs'.n = ReadWs.n
      <2>1. refs["main"] # None
          BY Names DEF Types, RefTypes
      <2> QED
          BY <1>4, <2>1 DEF ReadWs
  <1>7. RefsKeep'
      BY <1>5, <1>6 DEF Transactions, RefsKeep
  <1>8. MigKeeps'
      BY <1>1, <1>2 DEF Transactions, MigKeeps, Keeps
  <1>9. WorkKeeps'
      BY <1>3, <1>6 DEF Transactions, WorkKeeps
  <1> QED
      BY <1>4, <1>7, <1>8, <1>9 DEF Transactions

\* A swing of the other process adds transactions.
LEMMA WorkApplyKeeps ==
  ASSUME Types, Calls, CheckedSwingsHold, Transactions, ApplySwing(W), UNCHANGED <<mig, work>>
  PROVE  /\ (mig.pc \in {"list", "workspace"} => refs'["ws"] = refs["ws"]) => Transactions'
         /\ \A r \in {"main", "side", "late", "ws"} :
              refs[r] # None => refs'[r] # None /\ refs'[r].n >= refs[r].n
  <1>a. M \in Procs /\ W \in Procs /\ M # W
      BY TwoProcs
  <1>1. PICK s \in call[W].todo :
           /\ s \in AnySwings /\ s.expected = refs[s.name]
           /\ \A r \in {"main", "side", "late", "ws", "journal"} :
                refs'[r] = IF r = s.name THEN s.new ELSE refs[r]
           /\ call[W].pc = "apply" /\ call'[W].pc = "apply"
           /\ call'[W].todo = call[W].todo \ {s}
           /\ \A q \in Procs : q # W => call'[q] = call[q]
      BY <1>a, ApplyIs
  <1>2. /\ call'[M] = call[M] /\ call'[W].todo = {} /\ work.pc = "last"
        /\ WorkSwing(s) /\ s.name # "journal" /\ refs'["journal"] = refs["journal"]
      BY <1>1, <1>a DEF Calls, WorkSwing
  <1>3. /\ refs["main"].n \in Nat /\ refs["side"].n \in Nat /\ ReadWs.n \in Nat
        /\ refs["ws"] # None => refs["ws"].n \in Nat
        /\ \A b \in Branches : refs[b] # None => refs[b].n \in Nat
      BY Counts
  <1>4. s.new \in Commits /\ s.new # None /\ s.new.n \in Nat
      BY <1>2, Names DEF WorkSwing, Commits
  <1>5. ASSUME mig.pc \in {"list", "workspace"} => refs'["ws"] = refs["ws"]
        PROVE  Transactions'
      <2>1. WorkKeeps'
          BY <1>2 DEF WorkKeeps
      <2>2. refs'["ws"] # None => refs'["ws"].n >= refs'["main"].n
          <3>1. CASE s.name = "ws"
              BY <1>1, <3>1 DEF Transactions, WorkKeeps
          <3>2. CASE s.name = "main"
              <4>1. refs'["ws"] = refs["ws"] /\ refs'["main"] = s.new /\ s.new.n <= ReadWs.n
                  BY <1>1, <3>2 DEF Transactions, WorkKeeps
              <4> QED
                  BY <1>3, <1>4, <4>1 DEF ReadWs
          <3>3. CASE s.name = "late"
              BY <1>1, <3>3 DEF Transactions, RefsKeep
          <3> QED
              BY <1>2, <3>1, <3>2, <3>3 DEF WorkSwing
      <2>3. RefsKeep'
          BY <1>2, <2>2 DEF Transactions, RefsKeep
      <2>4. mig.pc \in {"list", "workspace"} => refs'["ws"] = None \/ refs'["ws"].n = refs'["main"].n
          <3>1. CASE s.name = "main" /\ mig.pc \in {"list", "workspace"} /\ refs["ws"] # None
              <4>1. refs'["ws"] = refs["ws"] /\ refs'["main"] = s.new /\ s.new.n <= ReadWs.n
                    /\ s.new.n >= refs["main"].n /\ refs["ws"].n = refs["main"].n
                  BY <1>1, <3>1, <1>3, <1>4 DEF Transactions, WorkKeeps, MigKeeps
              <4>2. ReadWs.n = refs["main"].n
                  BY <3>1, <4>1 DEF ReadWs
              <4> QED
                  BY <1>3, <1>4, <4>1, <4>2
          <3>2. CASE s.name # "main"
              BY <1>1, <1>5, <3>2 DEF Transactions, MigKeeps
          <3>3. CASE s.name = "main" /\ refs["ws"] = None
              BY <1>1, <3>3
          <3> QED
              BY <3>1, <3>2, <3>3
      <2>5. MigKeeps'
          BY <1>2, <2>4 DEF Transactions, MigKeeps
      <2> QED
          BY <2>1, <2>3, <2>5 DEF Transactions
  <1>6. ASSUME NEW r \in {"main", "side", "late", "ws"}, refs[r] # None
        PROVE  refs'[r] # None /\ refs'[r].n >= refs[r].n
      <2>1. refs[r].n \in Nat
          BY <1>3, <1>6 DEF Branches
      <2>2. CASE r # s.name
          BY <1>1, <1>6, <2>1, <2>2
      <2>3. CASE r = s.name
          <3>1. s.expected = refs[r] /\ refs'[r] = s.new /\ s.expected # None
              BY <1>1, <1>6, <2>3
          <3>2. s.name \in {"ws", "main"}
              BY <1>2, <3>1 DEF WorkSwing
          <3>3. s.new.n >= s.expected.n
              BY <1>4, <2>1, <3>1, <3>2 DEF Transactions, WorkKeeps
          <3> QED
              BY <1>4, <3>1, <3>3
      <2> QED
          BY <2>2, <2>3
  <1> QED
      BY <1>5, <1>6

\* Transactions are only ever added, step by step, while the dirty check is not raced.
LEMMA TransactionsStep ==
  ASSUME Types, Calls, CheckedSwingsHold, "dirtied" \notin departed => Transactions, [Next]_vars,
         "dirtied" \notin departed'
  PROVE  Transactions'
  <1>a. M \in Procs /\ W \in Procs /\ M # W
      BY TwoProcs
  <1>b. departed \subseteq departed'
      BY DEF Next, MigrateStart, MigrateStep, RecoverPending, Recovered, ClearRecovered,
             RecoveryCleared, Guard, ListRefs, PlanWorkspace, WriteJournal, JournalWritten,
             SwingRefs, Swung, DeleteJournal, Done, Returned, Call, MigOnly, Transact, CommitCheck,
             CreateBranch, WorkStep, CommitWork, WorkDone, StoreStep, KillMigrate, KillWork,
             ClearLock, ClearJournal, vars
  <1>c. Transactions
      BY <1>b
  <1>d. refs' = refs => RefsKeep' /\ ReadWs' = ReadWs
      BY <1>c DEF Transactions, RefsKeep, ReadWs
  <1>e. refs' = refs /\ mig' = mig /\ call'[M].todo \subseteq call[M].todo => MigKeeps'
      BY <1>c DEF Transactions, MigKeeps, Keeps
  <1>f. refs' = refs /\ call'[W].todo \subseteq call[W].todo /\ (work' = work \/ work'.pc # "commit")
          => WorkKeeps'
      BY <1>c, <1>d DEF Transactions, WorkKeeps
  <1>g. ASSUME NEW s \in AnySwings, Submit(W, {s}), UNCHANGED <<refs, mig>>, work'.pc = "last",
               s.name = "ws" => s.new.n >= refs["main"].n /\ (s.expected # None => s.new.n >= s.expected.n),
               s.name = "main" => s.expected.n <= s.new.n /\ s.new.n <= ReadWs.n
        PROVE  Transactions'
      <2>1. call'[W].todo = {s} /\ call'[M] = call[M]
          BY <1>a, <1>g, SubmitIs
      <2>2. WorkKeeps'
          BY <1>d, <1>g, <2>1 DEF WorkKeeps
      <2> QED
          BY <1>d, <1>e, <1>g, <2>1, <2>2 DEF Transactions
  <1>h. /\ refs["main"].n \in Nat /\ ReadWs.n \in Nat
        /\ refs["ws"] # None => refs["ws"].n \in Nat
        /\ ReadWs \in Commits /\ ReadWs.n >= refs["main"].n
      <2>1. ReadWs \in Commits
          BY DEF ReadWs, Types, RefTypes
      <2>2. ReadWs.n >= refs["main"].n
          BY <1>c, Counts DEF ReadWs, Transactions, RefsKeep
      <2> QED
          BY <2>1, <2>2, Counts
  <1>1. CASE MigrateStart \/ MigrateStep
      <2>1. UNCHANGED <<refs, work>>
          BY <1>1
          DEF MigrateStart, MigrateStep, RecoverPending, Recovered, ClearRecovered,
              RecoveryCleared, Guard, ListRefs, PlanWorkspace, WriteJournal, JournalWritten,
              SwingRefs, Swung, DeleteJournal, Done, Returned, Call, MigOnly, refVars
      <2>2. call' = call \/ \E S : Submit(M, S)
          BY <1>1
          DEF MigrateStart, MigrateStep, RecoverPending, Recovered, ClearRecovered,
              RecoveryCleared, Guard, ListRefs, PlanWorkspace, WriteJournal, JournalWritten,
              SwingRefs, Swung, DeleteJournal, Done, Returned, Call, refVars
      <2>3. call'[W] = call[W]
          BY <1>a, <2>2, NotChecked
      <2>4. MigKeeps'
          BY <1>1, <1>c, MigrateKeeps DEF Transactions
      <2> QED
          BY <1>d, <1>f, <2>1, <2>3, <2>4 DEF Transactions
  <1>2. CASE Transact
      <2> DEFINE next == [ReadWs EXCEPT !.n = @ + 1]
                 s == Swing("ws", refs["ws"], next)
      <2>1. next \in Commits /\ next.n = ReadWs.n + 1
          BY <1>h DEF Commits
      <2>2. Submit(W, {s}) /\ UNCHANGED <<refs, mig>> /\ work'.pc = "last"
          BY <1>2 DEF Transact, Begin, WorkOnly
      <2>3. s \in AnySwings /\ s.name = "ws" /\ s.new = next /\ s.expected = refs["ws"]
          BY <2>1, Names DEF AnySwings, Swing, Types, RefTypes
      <2>4. /\ next.n >= refs["main"].n
            /\ refs["ws"] # None => next.n >= refs["ws"].n
          BY <1>h, <2>1 DEF ReadWs
      <2> HIDE DEF s, next
      <2> QED
          BY <2>2, <2>3, <2>4, <1>g
  <1>3. CASE CreateBranch
      <2> DEFINE s == Swing("late", None, refs["main"])
      <2>1. Submit(W, {s}) /\ UNCHANGED <<refs, mig>> /\ work'.pc = "last"
          BY <1>3 DEF CreateBranch, Begin, WorkOnly
      <2>2. s \in AnySwings /\ s.name = "late"
          BY Names DEF AnySwings, Swing, Types, RefTypes
      <2> HIDE DEF s
      <2> QED
          BY <2>1, <2>2, <1>g
  <1>4. CASE CommitWork /\ refs["main"] # work.next
      <2> DEFINE s == Swing("main", refs["main"], work.next)
      <2>1. Submit(W, {s}) /\ UNCHANGED <<refs, mig>> /\ work' = [work EXCEPT !.pc = "last"]
          BY <1>4 DEF CommitWork, WorkOnly
      <2>2. work'.pc = "last" /\ work.pc = "commit"
          BY <1>4, <2>1 DEF CommitWork, Types, WorkTypes, WorkStates
      <2>3. s \in AnySwings /\ s.name = "main" /\ s.new = work.next /\ s.expected = refs["main"]
          BY <1>4, Names DEF CommitWork, AnySwings, Swing, Types, RefTypes, WorkTypes
      <2>4. refs["main"].n <= work.next.n /\ work.next.n <= ReadWs.n
          BY <1>c, <2>2 DEF Transactions, WorkKeeps
      <2> HIDE DEF s
      <2> QED
          BY <2>1, <2>2, <2>3, <2>4, <1>g
  <1>5. CASE CommitCheck
      <2>1. UNCHANGED <<refs, call, mig>> /\ work'.next = ReadWs
          BY <1>5 DEF CommitCheck, Begin, WorkOnly, refVars
      <2>2. WorkKeeps'
          BY <1>c, <1>d, <1>h, <2>1 DEF Transactions, WorkKeeps
      <2> QED
          BY <1>d, <1>e, <2>1, <2>2 DEF Transactions
  <1>6. CASE (CommitWork /\ refs["main"] = work.next) \/ WorkDone \/ ClearLock \/ UNCHANGED vars
      <2>1. UNCHANGED <<refs, call, mig>> /\ (work' = work \/ work'.pc = "idle")
          BY <1>6 DEF CommitWork, WorkDone, WorkOnly, WorkIdle, refVars, ClearLock, ClearRefsLock, vars
      <2> QED
          BY <1>d, <1>e, <1>f, <2>1 DEF Transactions
  <1>7. CASE KillMigrate
      <2>1. mig'.pc = "idle" /\ mig'.plan = {} /\ call'[W] = call[W] /\ UNCHANGED <<refs, work>>
          BY <1>7, <1>a, StopIs, KillIs DEF KillMigrate, KillCall
      <2>2. MigKeeps'
          BY <2>1 DEF MigKeeps, Keeps
      <2> QED
          BY <1>d, <1>f, <2>1, <2>2 DEF Transactions
  <1>8. CASE KillWork
      <2>1. call'[W].todo = {} /\ call'[M] = call[M] /\ UNCHANGED <<refs, mig>> /\ work'.pc = "idle"
          <3>1. KillCall(W) /\ UNCHANGED <<refs, mig>> /\ work'.pc = "idle"
              BY <1>8 DEF KillWork, KillCall, WorkIdle
          <3> QED
              BY <3>1, <1>a, KillIs
      <2> QED
          BY <1>d, <1>e, <1>f, <2>1 DEF Transactions
  <1>9. CASE ClearJournal
      <2>1. /\ refs'["journal"] = None /\ refs'["ws"] = refs["ws"] /\ refs'["main"] = refs["main"]
            /\ UNCHANGED <<call, mig, work>>
          BY <1>9, Names DEF ClearJournal, Types, RefTypes
      <2>2. ReadWs' = ReadWs
          BY <2>1 DEF ReadWs
      <2> QED
          BY <1>c, <2>1, <2>2 DEF Transactions, RefsKeep, MigKeeps, WorkKeeps
  <1>10. CASE StoreStep
      <2>1. PICK p \in Procs : RefStep(p)
          BY <1>10 DEF StoreStep
      <2>2. UNCHANGED <<mig, work>>
          BY <1>10 DEF StoreStep
      <2>3. CASE ApplySwing(p)
          <3>1. mig.pc \in {"list", "workspace"} => refs'["ws"] = refs["ws"]
              BY <1>10 DEF StoreStep
          <3> QED
              BY <1>a, <1>c, <2>2, <2>3, <3>1, TwoProcs, MigrateApplyKeeps, WorkApplyKeeps
      <2>4. CASE ~ApplySwing(p)
          <3>1. /\ refs' = refs /\ call'[p].todo \subseteq call[p].todo
                /\ \A q \in Procs : q # p => call'[q] = call[q]
              BY <2>1, <2>4, NoApply
          <3>2. call'[W].todo \subseteq call[W].todo /\ call'[M].todo \subseteq call[M].todo
              BY <3>1, <1>a
          <3> QED
              BY <1>d, <1>e, <1>f, <2>2, <3>1, <3>2 DEF Transactions
      <2> QED
          BY <2>3, <2>4
  <1> QED
      BY <1>1, <1>2, <1>3, <1>4, <1>5, <1>6, <1>7, <1>8, <1>9, <1>10 DEF Next, WorkStep

-----------------------------------------------------------------------------
(* The theorems                                                             *)

\* The repository before the first migration.
LEMMA Initially ==
  ASSUME Init PROVE Inv
  <1>1. PICK w \in {None, Commit("old", 0)} :
           RefInit([r \in RefNames |->
                      CASE r \in {"main", "side"} -> Commit("old", 0)
                        [] r = "ws" -> w
                        [] OTHER -> None])
      BY DEF Init
  <1>2. Commit("old", 0) \in Commits /\ Commit("old", 0).gen = "old" /\ Commit("old", 0).n = 0
      BY DEF Commit, Commits
  <1>3. /\ refs["main"] = Commit("old", 0) /\ refs["side"] = Commit("old", 0)
        /\ refs["late"] = None /\ refs["journal"] = None /\ refs["ws"] = w
      BY <1>1, Names DEF RefInit
  <1>4. refs \in [RefNames -> Values]
      <2>1. \A r \in RefNames : (CASE r \in {"main", "side"} -> Commit("old", 0)
                                   [] r = "ws" -> w
                                   [] OTHER -> None) \in Values
          <3> TAKE r \in RefNames
          <3>1. CASE r \in {"main", "side"}
              BY <1>2, <3>1, Names
          <3>2. CASE r = "ws"
              BY <1>2, <3>2, Names
          <3>3. CASE r \notin {"main", "side", "ws"}
              BY <3>3, Names
          <3> QED
              BY <3>1, <3>2, <3>3
      <2> QED
          BY <1>1, <2>1 DEF RefInit
  <1>5. \A p \in Procs : call[p].pc = "none" /\ call[p].todo = {} /\ call[p].result = None
      BY <1>1 DEF RefInit, NoCall
  <1>6. mig.pc = "idle" /\ mig.plan = {} /\ work.pc = "idle"
      BY DEF Init, MigIdle, WorkIdle
  <1>7. Types
      <2>1. RefTypes
          BY <1>2, <1>3, <1>4 DEF RefTypes
      <2>2. MigTypes
          BY DEF Init, MigIdle, MigTypes, MigStates, MigSteps, Plan, Distinct
      <2>3. WorkTypes
          BY DEF Init, WorkIdle, WorkTypes, WorkStates
      <2>4. CallTypes
          BY <1>1 DEF RefInit, NoCall, CallTypes, CallStates
      <2> QED
          BY <2>1, <2>2, <2>3, <2>4 DEF Types
  <1>8. Calls /\ CheckedSwingsHold
      BY <1>5, <1>6, TwoProcs DEF Calls, MigSwings, CheckedSwingsHold
  <1>9. Encodings
      <2>1. Settled
          BY <1>3 DEF Settled, Uniform, Branches
      <2>2. Progress
          BY <1>6 DEF Progress
      <2>3. WorkUpdates
          BY <1>5, TwoProcs DEF WorkUpdates
      <2> QED
          BY <2>1, <2>2, <2>3 DEF Encodings
  <1>10. Transactions
      <2>1. RefsKeep
          BY <1>2, <1>3 DEF RefsKeep
      <2>2. MigKeeps
          BY <1>6 DEF MigKeeps, Keeps
      <2>3. WorkKeeps
          BY <1>5, <1>6, TwoProcs DEF WorkKeeps
      <2> QED
          BY <2>1, <2>2, <2>3 DEF Transactions
  <1> QED
      BY <1>7, <1>8, <1>9, <1>10 DEF Inv

\* Every step keeps the invariant.
LEMMA Inductive ==
  ASSUME Inv, [Next]_vars PROVE Inv'
  <1>1. Types' /\ Calls'
      BY MigrateTypes, OtherTypes, MigrateCalls, OtherCalls DEF Inv, Next
  <1>2. CheckedSwingsHold'
      BY CheckedStep DEF Inv
  <1>3. Undisturbed' => Encodings'
      BY EncodingsStep DEF Inv
  <1>4. "dirtied" \notin departed' => Transactions'
      BY TransactionsStep DEF Inv
  <1> QED
      BY <1>1, <1>2, <1>3, <1>4 DEF Inv

\* The invariant holds in every reachable state.
LEMMA Invariance == Spec => []Inv
  <1>1. Init => Inv
      BY Initially
  <1>2. Inv /\ [Next]_vars => Inv'
      BY Inductive
  <1> QED
      BY <1>1, <1>2, PTL DEF Spec

\* write_refs_atomic's contract: between the check of a batch and its last swing no
\* process moves a ref that is still to be swung, whatever is killed and whoever waits.
THEOREM SwingsFindTheirRefs == Spec => []CheckedSwingsHold
  <1>1. Inv => CheckedSwingsHold
      BY DEF Inv
  <1> QED
      BY <1>1, Invariance, PTL

\* The journal's guarantee (migrate.rs): a repository in which no migration runs and no
\* journal is left has all its branches in one encoding, however the last runs ended.
THEOREM NoSilentMixture == Spec => []NeverSilentlyMixed
  <1>1. Inv => NeverSilentlyMixed
      <2> SUFFICES ASSUME Inv, Undisturbed, refs["journal"] = None
                   PROVE  Cardinality(Generations) = 1
          BY DEF NeverSilentlyMixed, Undisturbed
      <2>1. Uniform /\ refs["main"] # None
          BY Names DEF Inv, Encodings, Settled, Types, RefTypes
      <2>2. Generations = {refs["main"].gen}
          BY <2>1 DEF Generations, Uniform, Branches
      <2> QED
          BY <2>2, FS_Singleton
  <1> QED
      BY <1>1, Invariance, PTL

\* No step discards a commit of a branch or a transaction of the workspace: neither a
\* swing, nor the recovery of an interrupted one, nor the writer beside it, unless work
\* was written between migrate's dirty check and its read of the workspace.
THEOREM NoWorkLost == Spec => WorkKept
  <1>1. Inv /\ [Next]_vars => ["dirtied" \in departed \/ (CommitsKept /\ WorkspaceKept)]_vars
      <2> SUFFICES ASSUME Inv, [Next]_vars, "dirtied" \notin departed
                   PROVE  CommitsKept /\ WorkspaceKept
          OBVIOUS
      <2>a. Types /\ Calls /\ CheckedSwingsHold /\ Transactions
          BY DEF Inv
      <2>b. \A r \in {"main", "side", "late", "ws"} : refs[r] # None => refs[r].n \in Nat
          BY <2>a, Counts DEF Branches
      <2>c. ASSUME \A r \in {"main", "side", "late", "ws"} :
                     refs[r] # None => refs'[r] # None /\ refs'[r].n >= refs[r].n
            PROVE  CommitsKept /\ WorkspaceKept
          BY <2>c DEF CommitsKept, WorkspaceKept, Branches
      <2>1. CASE StoreStep
          <3>1. PICK p \in Procs : RefStep(p)
              BY <2>1 DEF StoreStep
          <3>2. UNCHANGED <<mig, work>>
              BY <2>1 DEF StoreStep
          <3>3. CASE ApplySwing(p)
              <4>1. p = M \/ p = W
                  BY TwoProcs
              <4>2. CASE p = M
                  BY <2>a, <2>b, <2>c, <3>2, <3>3, <4>2, MigrateApplyKeeps
              <4>3. CASE p = W
                  BY <2>a, <2>c, <3>2, <3>3, <4>3, WorkApplyKeeps
              <4> QED
                  BY <4>1, <4>2, <4>3
          <3>4. CASE ~ApplySwing(p)
              BY <2>a, <2>b, <2>c, <3>1, <3>4, NoApply
          <3> QED
              BY <3>3, <3>4
      <2>2. CASE ClearJournal
          <3>1. \A r \in {"main", "side", "late", "ws"} : refs'[r] = refs[r]
              BY <2>2, <2>a, Names DEF ClearJournal, Types, RefTypes
          <3> QED
              BY <2>b, <2>c, <3>1
      <2>3. CASE ~StoreStep /\ ~ClearJournal
          <3>1. refs' = refs
              BY <2>3
              DEF Next, MigrateStart, MigrateStep, RecoverPending, Recovered, ClearRecovered,
                  RecoveryCleared, Guard, ListRefs, PlanWorkspace, WriteJournal, JournalWritten,
                  SwingRefs, Swung, DeleteJournal, Done, Returned, Call, Transact, CommitCheck,
                  CreateBranch, WorkStep, CommitWork, WorkDone, KillMigrate, KillWork, KillCall,
                  ClearLock, ClearRefsLock, vars, refVars
          <3> QED
              BY <2>b, <2>c, <3>1
      <2> QED
          BY <2>1, <2>2, <2>3
  <1> QED
      BY <1>1, Invariance, PTL DEF Spec, WorkKept
=============================================================================
