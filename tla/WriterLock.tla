----------------------------- MODULE WriterLock -----------------------------
(***************************************************************************)
(* The single-writer lock of one worktree: the lock file of lock.rs, the    *)
(* writers that create and remove it, the processes that die holding it,    *)
(* and the daemon's recovery of a stale one (serve.rs).                     *)
(*                                                                         *)
(* A command-line process is one writer; a daemon has one writer per        *)
(* connection thread.  Only a daemon's writers recover.  A file system      *)
(* call is one step.                                                        *)
(***************************************************************************)
EXTENDS Naturals, FiniteSets

CONSTANTS Process, Daemon,  \* the processes ever started; the daemons of them
          Writer, Of,       \* the writers; Of[w]: the process w is part of
          Pid,              \* the pids the kernel hands out, and reuses
          None,             \* no writer, no process
          StartTimes,       \* the platform tells a process's start time
          Windows           \* the windows something may fall in:
                            \*   "judge": others act between the reading of
                            \*      the lock file and the liveness probe
                            \*   "empty": a writer dies after creating the
                            \*      lock file and before writing its holder,
                            \*      or that writing fails

ASSUME WriterLockAssumption ==
  /\ Daemon \subseteq Process
  /\ Of \in [Writer -> Process]
  /\ Pid \subseteq Nat \ {0}
  /\ None \notin Writer \union Process
  /\ StartTimes \in BOOLEAN
  /\ Windows \subseteq {"judge", "empty"}

VARIABLES status,  \* whether a process is new, running or dead
          pid,     \* the pid of a process that was started
          lock,    \* the lock file: who created it, the holder it records
          pc,      \* where each writer stands
          seen,    \* the lock contents each recovering writer has read
          mutex,   \* LOCK_RECOVERY: the writer in a daemon's recovery
          flock    \* the daemon that has the daemon lock

vars == <<status, pid, lock, pc, seen, mutex, flock>>

\* The lock file.  `by` is the writer that created it; the recorded holder is
\* a pid, 0 until it is written, and the start time, which identifies the
\* process.
Holder == [pid : Pid \union {0}, start : Process \union {None}]
Lock == [by : Writer \union {None}, holder : Holder]
Unwritten == [pid |-> 0, start |-> None]
NoLock == [by |-> None, holder |-> Unwritten]

Running(w) == status[Of[w]] = "running"

Init ==
  /\ status = [p \in Process |-> "new"]
  /\ pid = [p \in Process |-> 0]
  /\ lock = NoLock
  /\ pc = [w \in Writer |-> "idle"]
  /\ seen = [w \in Writer |-> Unwritten]
  /\ mutex = [d \in Daemon |-> None]
  /\ flock = None

-----------------------------------------------------------------------------
(* Processes.                                                               *)

\* Mutant: a daemon starts without DaemonLock::acquire.
StartUnguarded(p, n) ==
  /\ status[p] = "new"
  /\ \A q \in Process : status[q] = "running" => pid[q] # n
  /\ status' = [status EXCEPT ![p] = "running"]
  /\ pid' = [pid EXCEPT ![p] = n]
  /\ UNCHANGED <<lock, pc, seen, mutex, flock>>

\* A process starts with a pid no running process has.  A daemon takes the
\* kernel's daemon lock first, or does not start.
Start(p, n) ==
  /\ status[p] = "new"
  /\ \A q \in Process : status[q] = "running" => pid[q] # n
  /\ p \in Daemon => flock = None
  /\ status' = [status EXCEPT ![p] = "running"]
  /\ pid' = [pid EXCEPT ![p] = n]
  /\ flock' = IF p \in Daemon THEN p ELSE flock
  /\ UNCHANGED <<lock, pc, seen, mutex>>

\* A process ends, killed or on its own.  Its lock file stays; the kernel
\* releases the daemon lock.
End(p) ==
  /\ status[p] = "running"
  /\ "empty" \notin Windows => \A w \in Writer : Of[w] = p => pc[w] # "created"
  /\ status' = [status EXCEPT ![p] = "dead"]
  /\ pc' = [w \in Writer |-> IF Of[w] = p THEN "idle" ELSE pc[w]]
  /\ flock' = IF flock = p THEN None ELSE flock
  /\ mutex' = [d \in Daemon |-> IF d = p THEN None ELSE mutex[d]]
  /\ UNCHANGED <<pid, lock, seen>>

-----------------------------------------------------------------------------
(* WriteLock.                                                               *)

\* The lock file is created exclusively ...
Create(w) ==
  /\ Running(w) /\ pc[w] \in {"idle", "retry"} /\ lock = NoLock
  /\ lock' = [NoLock EXCEPT !.by = w]
  /\ pc' = [pc EXCEPT ![w] = "created"]
  /\ UNCHANGED <<status, pid, seen, mutex, flock>>

HolderOf(w) ==
  [pid |-> pid[Of[w]], start |-> IF StartTimes THEN Of[w] ELSE None]

\* ... then the holder is written, to the file this writer created wherever
\* it is now; a failure is ignored.
Record(w) ==
  /\ Running(w) /\ pc[w] = "created"
  /\ \/ lock' = IF lock.by = w THEN [lock EXCEPT !.holder = HolderOf(w)] ELSE lock
     \/ "empty" \in Windows /\ UNCHANGED lock
  /\ pc' = [pc EXCEPT ![w] = "holding"]
  /\ UNCHANGED <<status, pid, seen, mutex, flock>>

\* Locked: a daemon's writer goes on to recovery, once; any other gives up.
Contend(w) ==
  /\ Running(w) /\ pc[w] \in {"idle", "retry"} /\ lock # NoLock
  /\ pc[w] = "retry" \/ Of[w] \in Daemon
  /\ pc' = [pc EXCEPT ![w] = IF pc[w] = "idle" THEN "locked" ELSE "idle"]
  /\ UNCHANGED <<status, pid, lock, seen, mutex, flock>>

\* Drop removes whatever is at the path.
Release(w) ==
  /\ Running(w) /\ pc[w] = "holding"
  /\ lock' = NoLock
  /\ pc' = [pc EXCEPT ![w] = "idle"]
  /\ UNCHANGED <<status, pid, seen, mutex, flock>>

-----------------------------------------------------------------------------
(* break_stale_lock, behind LOCK_RECOVERY.                                  *)

\* Mutant: recoveries of one daemon are not serialised.
EnterUnserialised(w) ==
  /\ Running(w) /\ pc[w] = "locked"
  /\ mutex' = [mutex EXCEPT ![Of[w]] = w]
  /\ pc' = [pc EXCEPT ![w] = "recover"]
  /\ UNCHANGED <<status, pid, lock, seen, flock>>

Enter(w) ==
  /\ Running(w) /\ pc[w] = "locked" /\ mutex[Of[w]] = None
  /\ mutex' = [mutex EXCEPT ![Of[w]] = w]
  /\ pc' = [pc EXCEPT ![w] = "recover"]
  /\ UNCHANGED <<status, pid, lock, seen, flock>>

\* Mutant: recovery does not give LOCK_RECOVERY back.
LeaveLocked(w, to) ==
  /\ pc' = [pc EXCEPT ![w] = to]
  /\ UNCHANGED mutex

\* Recovery ends with the writer at `to`.
Leave(w, to) ==
  /\ mutex' = [mutex EXCEPT ![Of[w]] = None]
  /\ pc' = [pc EXCEPT ![w] = to]

\* The lock is, or may be, a live process's: no holder is recorded, or a
\* process has the recorded pid and no start time proves that it is another.
JudgedLive(h) ==
  \/ h.pid = 0
  \/ \E p \in Process : /\ status[p] = "running" /\ pid[p] = h.pid
                        /\ h.start \in {None, p}

\* StaleLockOutcome::Absent.
FoundAbsent(w) ==
  /\ Running(w) /\ pc[w] = "recover" /\ lock = NoLock
  /\ Leave(w, "retry")
  /\ UNCHANGED <<status, pid, lock, seen, flock>>

\* The contents are read ...
ReadHolder(w) ==
  /\ "judge" \in Windows
  /\ Running(w) /\ pc[w] = "recover" /\ lock # NoLock
  /\ seen' = [seen EXCEPT ![w] = lock.holder]
  /\ pc' = [pc EXCEPT ![w] = "read"]
  /\ UNCHANGED <<status, pid, lock, mutex, flock>>

\* ... and h is the holder w goes on to judge: at once if nothing falls in
\* the window.
Judging(w, h) ==
  \/ pc[w] = "read" /\ h = seen[w]
  \/ pc[w] = "recover" /\ "judge" \notin Windows /\ lock # NoLock /\ h = lock.holder

\* StaleLockOutcome::Live.
FoundLive(w) ==
  /\ Running(w)
  /\ \E h \in Holder : Judging(w, h) /\ JudgedLive(h)
  /\ Leave(w, "idle")
  /\ UNCHANGED <<status, pid, lock, seen, flock>>

\* The recorded holder is judged dead.
FoundStale(w) ==
  /\ Running(w)
  /\ \E h \in Holder : Judging(w, h) /\ ~JudgedLive(h)
  /\ pc' = [pc EXCEPT ![w] = "stale"]
  /\ UNCHANGED <<status, pid, lock, seen, mutex, flock>>

\* StaleLockOutcome::Broken: the file at the path is removed.
Break(w) ==
  /\ Running(w) /\ pc[w] = "stale"
  /\ lock' = NoLock
  /\ Leave(w, "retry")
  /\ UNCHANGED <<status, pid, seen, flock>>

-----------------------------------------------------------------------------
Step(w) ==
  \/ Create(w) \/ Record(w) \/ Contend(w) \/ Release(w)
  \/ Enter(w) \/ FoundAbsent(w) \/ ReadHolder(w) \/ FoundLive(w)
  \/ FoundStale(w) \/ Break(w)

Next ==
  \/ \E p \in Process : End(p) \/ \E n \in Pid : Start(p, n)
  \/ \E w \in Writer : Step(w)

Spec == Init /\ [][Next]_vars

\* Every writer of a running process keeps going: requests keep arriving at
\* the daemon, and a write ends.
FairSpec == Spec /\ \A w \in Writer : WF_vars(Step(w))

-----------------------------------------------------------------------------
(* Properties.                                                              *)

\* The types, and that locks the kernel or a process drops do not outlive
\* their owner: the daemon lock is a running daemon's, a recovery mutex its
\* own writer's.
TypeOK ==
  /\ status \in [Process -> {"new", "running", "dead"}]
  /\ pid \in [Process -> Pid \union {0}]
  /\ lock \in Lock
  /\ pc \in [Writer -> {"idle", "created", "holding", "locked", "recover",
                        "read", "stale", "retry"}]
  /\ seen \in [Writer -> Holder]
  /\ mutex \in [Daemon -> Writer \union {None}]
  /\ \A d \in Daemon : mutex[d] # None => Of[mutex[d]] = d /\ status[d] = "running"
  /\ flock \in Daemon \union {None}
  /\ flock # None => status[flock] = "running"

\* w owns the lock: its acquire succeeded and it has not released it.
Owns(w) == pc[w] \in {"created", "holding"}

\* At most one writer works on the worktree, whatever dies, recovers and
\* reuses pids in the meantime.
SingleWriter == \A v, w \in Writer : Owns(v) /\ Owns(w) => v = w

\* The lock file of a writer at work is removed by that writer only: recovery
\* never breaks a live lock.
LiveLockKept ==
  [][\A w \in Writer : lock.by = w /\ Owns(w) /\ lock'.by # w
        => pc[w] = "holding" /\ pc'[w] = "idle"]_vars

\* A lock its writer left behind by dying.
Stale == lock # NoLock /\ ~Owns(lock.by)

\* What a recovering writer is about to remove is a dead writer's lock still:
\* nobody broke it and acquired the lock anew since it was judged stale.
BreaksOnlyStale == \A w \in Writer : pc[w] = "stale" => Stale

\* A lock left by a dead writer does not stay while a daemon is running: a
\* write request of the daemon removes it.
StaleLockBroken == (Stale /\ flock # None) ~> (~Stale \/ flock = None)
=============================================================================
