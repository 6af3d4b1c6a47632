-------------------------- MODULE WriterLockProofs --------------------------
(***************************************************************************)
(* Proofs about WriterLock: the lock excludes, for any number of processes, *)
(* daemons, threads and pids, when nothing falls between the reading of the *)
(* lock file and the liveness probe.                                        *)
(***************************************************************************)
EXTENDS WriterLock, TLAPS

\* Running processes are told apart by their pids.
PidsDistinct ==
  \A p, q \in Process :
     status[p] = "running" => /\ pid[p] # 0
                              /\ status[q] = "running" /\ pid[p] = pid[q] => p = q

\* The lock file is its creator's, and records no other process.
LockRecords ==
  /\ lock.by = None => lock = NoLock
  /\ lock.by # None => status[Of[lock.by]] # "new"
  /\ lock.by # None /\ lock.holder.pid # 0 =>
        /\ lock.holder.pid = pid[Of[lock.by]]
        /\ lock.holder.start \in {None, Of[lock.by]}

\* Only a running process's writers are under way, an owner's lock is the file
\* at the path, and one recovery goes on at a time.
WritersExclude ==
  /\ \A w \in Writer : pc[w] # "idle" => Running(w)
  /\ \A w \in Writer : Owns(w) => lock.by = w
  /\ \A w \in Writer : pc[w] \in {"locked", "recover", "read", "stale", "retry"} =>
        Of[w] \in Daemon
  /\ \A w \in Writer : pc[w] \in {"recover", "read", "stale"} => mutex[Of[w]] = w
  /\ \A d \in Daemon : status[d] = "running" => flock = d

\* The inductive invariant.
LockInv ==
  /\ TypeOK /\ PidsDistinct /\ LockRecords /\ WritersExclude
  /\ BreaksOnlyStale
  /\ \A w \in Writer : pc[w] # "read"

\* Initially no process runs and there is no lock (Init).
LEMMA LockInvInit == Init => LockInv
  BY WriterLockAssumption
  DEF Init, LockInv, TypeOK, PidsDistinct, LockRecords, WritersExclude,
      BreaksOnlyStale, Stale, Owns, Running, Lock, Holder, NoLock, Unwritten

\* Whoever is judged dead from the lock file's own contents is: the creator of
\* the lock does not run any more (break_stale_lock's verdict).
LEMMA VerdictSound ==
  ASSUME LockInv, lock # NoLock, ~JudgedLive(lock.holder)
  PROVE  Stale
  <1>1. lock.by \in Writer /\ lock.holder.pid # 0
    BY DEF LockInv, TypeOK, LockRecords, Lock, JudgedLive
  <1>2. status[Of[lock.by]] # "running"
    BY <1>1, WriterLockAssumption DEF LockInv, LockRecords, JudgedLive
  <1> QED
    BY <1>1, <1>2 DEF LockInv, WritersExclude, Running, Owns, Stale

\* A process starting or ending keeps the invariant (spawn, exit and kill).
LEMMA ProcessKeepsLockInv ==
  ASSUME LockInv, NEW p \in Process,
         End(p) \/ \E n \in Pid : Start(p, n)
  PROVE  LockInv'
  <1>1. CASE End(p)
    <2>1. TypeOK'
      BY <1>1, WriterLockAssumption DEF End, LockInv, TypeOK, WritersExclude
    <2>2. PidsDistinct' /\ LockRecords'
      BY <1>1, WriterLockAssumption DEF End, LockInv, TypeOK, PidsDistinct, LockRecords, Lock
    <2>3. WritersExclude' /\ \A v \in Writer : pc'[v] # "read"
      BY <1>1, WriterLockAssumption DEF End, LockInv, TypeOK, WritersExclude, Running, Owns
    <2>4. BreaksOnlyStale'
      BY <1>1, WriterLockAssumption
      DEF End, LockInv, TypeOK, LockRecords, BreaksOnlyStale, Stale, Owns, Lock
    <2> QED
      BY <2>1, <2>2, <2>3, <2>4 DEF LockInv
  <1>2. ASSUME NEW n \in Pid, Start(p, n) PROVE LockInv'
    <2>1. TypeOK'
      BY <1>2, WriterLockAssumption DEF Start, LockInv, TypeOK
    <2>2. PidsDistinct' /\ LockRecords'
      BY <1>2, WriterLockAssumption DEF Start, LockInv, TypeOK, PidsDistinct, LockRecords, Lock
    <2>3. WritersExclude' /\ \A v \in Writer : pc'[v] # "read"
      BY <1>2, WriterLockAssumption DEF Start, LockInv, TypeOK, WritersExclude, Running, Owns
    <2>4. BreaksOnlyStale'
      BY <1>2 DEF Start, LockInv, BreaksOnlyStale, Stale, Owns
    <2> QED
      BY <2>1, <2>2, <2>3, <2>4 DEF LockInv
  <1> QED
    BY <1>1, <1>2

\* A writer's step keeps the invariant: the lock file operations of lock.rs and
\* the recovery of serve.rs.
LEMMA WriterKeepsLockInv ==
  ASSUME "judge" \notin Windows, LockInv, NEW w \in Writer, Step(w)
  PROVE  LockInv'
  <1>1. CASE Create(w)
    <2>1. TypeOK'
      BY <1>1, WriterLockAssumption
      DEF Create, LockInv, TypeOK, WritersExclude, Running, Lock, Holder, NoLock, Unwritten
    <2>2. PidsDistinct' /\ LockRecords'
      BY <1>1, WriterLockAssumption
      DEF Create, LockInv, TypeOK, PidsDistinct, LockRecords, WritersExclude,
          Running, Owns, Lock, Holder, NoLock, Unwritten
    <2>3. WritersExclude'
      BY <1>1, WriterLockAssumption
      DEF Create, LockInv, TypeOK, LockRecords, WritersExclude, BreaksOnlyStale,
          Stale, Running, Owns, Lock, Holder, NoLock, Unwritten
    <2>4. BreaksOnlyStale' /\ \A v \in Writer : pc'[v] # "read"
      BY <1>1, WriterLockAssumption
      DEF Create, LockInv, TypeOK, LockRecords, WritersExclude, BreaksOnlyStale,
          Stale, Running, Owns, Lock, Holder, NoLock, Unwritten
    <2> QED
      BY <2>1, <2>2, <2>3, <2>4 DEF LockInv
  <1>2. CASE Record(w)
    <2>1. TypeOK'
      <3>1. HolderOf(w) \in Holder
        BY WriterLockAssumption DEF HolderOf, LockInv, TypeOK, Holder
      <3>2. lock' \in Lock
        BY <1>2, <3>1 DEF Record, LockInv, TypeOK, Lock
      <3> QED
        BY <1>2, <3>2 DEF Record, LockInv, TypeOK
    <2>2. PidsDistinct' /\ LockRecords'
      BY <1>2, WriterLockAssumption, SMTT(30)
      DEF Record, HolderOf, LockInv, TypeOK, PidsDistinct, LockRecords, WritersExclude,
          Running, Owns, Lock, Holder, NoLock, Unwritten
    <2>3. WritersExclude'
      BY <1>2, WriterLockAssumption
      DEF Record, LockInv, TypeOK, LockRecords, WritersExclude, BreaksOnlyStale,
          Stale, Running, Owns, Lock, Holder, NoLock, Unwritten
    <2>4. BreaksOnlyStale' /\ \A v \in Writer : pc'[v] # "read"
      BY <1>2, WriterLockAssumption
      DEF Record, LockInv, TypeOK, LockRecords, WritersExclude, BreaksOnlyStale,
          Stale, Running, Owns, Lock, Holder, NoLock, Unwritten
    <2> QED
      BY <2>1, <2>2, <2>3, <2>4 DEF LockInv
  <1>3. CASE Contend(w)
    <2>1. TypeOK'
      BY <1>3, WriterLockAssumption
      DEF Contend, LockInv, TypeOK, WritersExclude, Running, Lock, Holder, NoLock, Unwritten
    <2>2. PidsDistinct' /\ LockRecords'
      BY <1>3, WriterLockAssumption
      DEF Contend, LockInv, TypeOK, PidsDistinct, LockRecords, WritersExclude,
          Running, Owns, Lock, Holder, NoLock, Unwritten
    <2>3. WritersExclude'
      BY <1>3, WriterLockAssumption
      DEF Contend, LockInv, TypeOK, LockRecords, WritersExclude, BreaksOnlyStale,
          Stale, Running, Owns, Lock, Holder, NoLock, Unwritten
    <2>4. BreaksOnlyStale' /\ \A v \in Writer : pc'[v] # "read"
      BY <1>3, WriterLockAssumption
      DEF Contend, LockInv, TypeOK, LockRecords, WritersExclude, BreaksOnlyStale,
          Stale, Running, Owns, Lock, Holder, NoLock, Unwritten
    <2> QED
      BY <2>1, <2>2, <2>3, <2>4 DEF LockInv
  <1>4. CASE Release(w)
    <2>1. TypeOK'
      BY <1>4, WriterLockAssumption
      DEF Release, LockInv, TypeOK, WritersExclude, Running, Lock, Holder, NoLock, Unwritten
    <2>2. PidsDistinct' /\ LockRecords'
      BY <1>4, WriterLockAssumption
      DEF Release, LockInv, TypeOK, PidsDistinct, LockRecords, WritersExclude,
          Running, Owns, Lock, Holder, NoLock, Unwritten
    <2>3. WritersExclude'
      BY <1>4, WriterLockAssumption
      DEF Release, LockInv, TypeOK, LockRecords, WritersExclude, BreaksOnlyStale,
          Stale, Running, Owns, Lock, Holder, NoLock, Unwritten
    <2>4. BreaksOnlyStale' /\ \A v \in Writer : pc'[v] # "read"
      BY <1>4, WriterLockAssumption
      DEF Release, LockInv, TypeOK, LockRecords, WritersExclude, BreaksOnlyStale,
          Stale, Running, Owns, Lock, Holder, NoLock, Unwritten
    <2> QED
      BY <2>1, <2>2, <2>3, <2>4 DEF LockInv
  <1>5. CASE Enter(w)
    <2>1. TypeOK'
      BY <1>5, WriterLockAssumption
      DEF Enter, LockInv, TypeOK, WritersExclude, Running, Lock, Holder, NoLock, Unwritten
    <2>2. PidsDistinct' /\ LockRecords'
      BY <1>5, WriterLockAssumption
      DEF Enter, LockInv, TypeOK, PidsDistinct, LockRecords, WritersExclude,
          Running, Owns, Lock, Holder, NoLock, Unwritten
    <2>3. WritersExclude'
      BY <1>5, WriterLockAssumption
      DEF Enter, LockInv, TypeOK, LockRecords, WritersExclude, BreaksOnlyStale,
          Stale, Running, Owns, Lock, Holder, NoLock, Unwritten
    <2>4. BreaksOnlyStale' /\ \A v \in Writer : pc'[v] # "read"
      BY <1>5, WriterLockAssumption
      DEF Enter, LockInv, TypeOK, LockRecords, WritersExclude, BreaksOnlyStale,
          Stale, Running, Owns, Lock, Holder, NoLock, Unwritten
    <2> QED
      BY <2>1, <2>2, <2>3, <2>4 DEF LockInv
  <1>6. CASE FoundAbsent(w)
    <2>1. TypeOK'
      BY <1>6, WriterLockAssumption
      DEF FoundAbsent, Leave, LockInv, TypeOK, WritersExclude, Running, Lock, Holder, NoLock, Unwritten
    <2>2. PidsDistinct' /\ LockRecords'
      BY <1>6, WriterLockAssumption
      DEF FoundAbsent, Leave, LockInv, TypeOK, PidsDistinct, LockRecords, WritersExclude,
          Running, Owns, Lock, Holder, NoLock, Unwritten
    <2>3. WritersExclude'
      BY <1>6, WriterLockAssumption
      DEF FoundAbsent, Leave, LockInv, TypeOK, LockRecords, WritersExclude, BreaksOnlyStale,
          Stale, Running, Owns, Lock, Holder, NoLock, Unwritten
    <2>4. BreaksOnlyStale' /\ \A v \in Writer : pc'[v] # "read"
      BY <1>6, WriterLockAssumption
      DEF FoundAbsent, Leave, LockInv, TypeOK, LockRecords, WritersExclude, BreaksOnlyStale,
          Stale, Running, Owns, Lock, Holder, NoLock, Unwritten
    <2> QED
      BY <2>1, <2>2, <2>3, <2>4 DEF LockInv
  <1>7. CASE FoundLive(w)
    <2>1. TypeOK'
      BY <1>7, WriterLockAssumption
      DEF FoundLive, Leave, Judging, LockInv, TypeOK, WritersExclude, Running, Lock, Holder, NoLock, Unwritten
    <2>2. PidsDistinct' /\ LockRecords'
      BY <1>7, WriterLockAssumption
      DEF FoundLive, Leave, Judging, LockInv, TypeOK, PidsDistinct, LockRecords, WritersExclude,
          Running, Owns, Lock, Holder, NoLock, Unwritten
    <2>3. WritersExclude'
      BY <1>7, WriterLockAssumption
      DEF FoundLive, Leave, Judging, LockInv, TypeOK, LockRecords, WritersExclude, BreaksOnlyStale,
          Stale, Running, Owns, Lock, Holder, NoLock, Unwritten
    <2>4. BreaksOnlyStale' /\ \A v \in Writer : pc'[v] # "read"
      BY <1>7, WriterLockAssumption
      DEF FoundLive, Leave, Judging, LockInv, TypeOK, LockRecords, WritersExclude, BreaksOnlyStale,
          Stale, Running, Owns, Lock, Holder, NoLock, Unwritten
    <2> QED
      BY <2>1, <2>2, <2>3, <2>4 DEF LockInv
  <1>8. CASE FoundStale(w)
    <2>1. TypeOK'
      BY <1>8, WriterLockAssumption
      DEF FoundStale, Judging, LockInv, TypeOK, WritersExclude, Running, Lock, Holder, NoLock, Unwritten
    <2>2. PidsDistinct' /\ LockRecords'
      BY <1>8, WriterLockAssumption
      DEF FoundStale, Judging, LockInv, TypeOK, PidsDistinct, LockRecords, WritersExclude,
          Running, Owns, Lock, Holder, NoLock, Unwritten
    <2>3. WritersExclude'
      BY <1>8, WriterLockAssumption
      DEF FoundStale, Judging, LockInv, TypeOK, LockRecords, WritersExclude, BreaksOnlyStale,
          Stale, Running, Owns, Lock, Holder, NoLock, Unwritten
    <2>4. BreaksOnlyStale' /\ \A v \in Writer : pc'[v] # "read"
      BY <1>8, VerdictSound, WriterLockAssumption
      DEF FoundStale, Judging, LockInv, TypeOK, LockRecords, WritersExclude, BreaksOnlyStale,
          Stale, Running, Owns, Lock, Holder, NoLock, Unwritten
    <2> QED
      BY <2>1, <2>2, <2>3, <2>4 DEF LockInv
  <1>9. CASE Break(w)
    <2>1. TypeOK'
      BY <1>9, WriterLockAssumption
      DEF Break, Leave, LockInv, TypeOK, WritersExclude, Running, Lock, Holder, NoLock, Unwritten
    <2>2. PidsDistinct' /\ LockRecords'
      BY <1>9, WriterLockAssumption
      DEF Break, Leave, LockInv, TypeOK, PidsDistinct, LockRecords, WritersExclude,
          Running, Owns, Lock, Holder, NoLock, Unwritten
    <2>3. WritersExclude'
      BY <1>9, WriterLockAssumption
      DEF Break, Leave, LockInv, TypeOK, LockRecords, WritersExclude, BreaksOnlyStale,
          Stale, Running, Owns, Lock, Holder, NoLock, Unwritten
    <2>4. BreaksOnlyStale' /\ \A v \in Writer : pc'[v] # "read"
      <3>1. \A v \in Writer : pc[v] = "stale" => v = w
        BY <1>9 DEF Break, LockInv, WritersExclude, Running
      <3> QED
        BY <1>9, <3>1 DEF Break, Leave, LockInv, TypeOK, BreaksOnlyStale
    <2> QED
      BY <2>1, <2>2, <2>3, <2>4 DEF LockInv
  <1> QED
    BY <1>1, <1>2, <1>3, <1>4, <1>5, <1>6, <1>7, <1>8, <1>9 DEF Step, ReadHolder

\* LockInv is an invariant of the lock.
LEMMA LockInvariant == ASSUME "judge" \notin Windows PROVE Spec => []LockInv
  <1>1. LockInv /\ [Next]_vars => LockInv'
    <2> SUFFICES ASSUME LockInv, [Next]_vars PROVE LockInv'
      OBVIOUS
    <2>1. CASE Next
      BY <2>1, ProcessKeepsLockInv, WriterKeepsLockInv DEF Next
    <2>2. CASE UNCHANGED vars
      BY <2>2
      DEF vars, LockInv, TypeOK, PidsDistinct, LockRecords, WritersExclude,
          BreaksOnlyStale, Stale, Owns, Running
    <2> QED
      BY <2>1, <2>2
  <1> QED
    BY <1>1, LockInvInit, PTL DEF Spec

\* At most one writer holds the lock of a worktree (WriteLock::acquire), for
\* any processes, threads, crashes, recoveries and pid reuse.
THEOREM WriterExclusion == ASSUME "judge" \notin Windows PROVE Spec => []SingleWriter
  <1>1. LockInv => SingleWriter
    BY DEF LockInv, WritersExclude, SingleWriter
  <1> QED
    BY <1>1, LockInvariant, PTL

\* What break_stale_lock removes is the file of a dead writer.
THEOREM RecoveryBreaksStale == ASSUME "judge" \notin Windows PROVE Spec => []BreaksOnlyStale
  <1>1. LockInv => BreaksOnlyStale
    BY DEF LockInv
  <1> QED
    BY <1>1, LockInvariant, PTL

\* The lock of a writer at work is removed by the writer itself only
\* (WriteLock::drop), never by break_stale_lock.
THEOREM LiveLockIsKept == ASSUME "judge" \notin Windows PROVE Spec => LiveLockKept
  <1> DEFINE Kept == \A w \in Writer : lock.by = w /\ Owns(w) /\ lock'.by # w
                        => pc[w] = "holding" /\ pc'[w] = "idle"
  <1>1. LockInv /\ [Next]_vars => Kept \/ UNCHANGED vars
    <2> SUFFICES ASSUME LockInv, Next, NEW v \in Writer,
                        lock.by = v, Owns(v), lock'.by # v
                 PROVE  pc[v] = "holding" /\ pc'[v] = "idle"
      OBVIOUS
    <2>1. ASSUME NEW p \in Process, End(p) \/ \E n \in Pid : Start(p, n) PROVE FALSE
      BY <2>1 DEF End, Start
    <2>2. ASSUME NEW w \in Writer, Step(w) PROVE pc[v] = "holding" /\ pc'[v] = "idle"
      <3>1. CASE Create(w) \/ Break(w)
        BY <3>1, WriterLockAssumption
        DEF Create, Break, NoLock, LockInv, BreaksOnlyStale, Stale
      <3>2. CASE Record(w)
        BY <3>2 DEF Record, LockInv, TypeOK, Lock
      <3>3. CASE Release(w)
        BY <3>3 DEF Release, Owns, LockInv, WritersExclude, TypeOK
      <3> QED
        BY <2>2, <3>1, <3>2, <3>3
        DEF Step, Contend, Enter, FoundAbsent, ReadHolder, FoundLive, FoundStale
    <2> QED
      BY <2>1, <2>2 DEF Next
  <1> QED
    BY <1>1, LockInvariant, PTL DEF Spec, LiveLockKept
=============================================================================
