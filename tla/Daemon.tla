------------------------------- MODULE Daemon -------------------------------
(***************************************************************************)
(* The daemon's processes (serve.rs): start-up at a socket path, the accept *)
(* loop with its connection limit, the handler threads that share the query *)
(* permits, SIGTERM with its drain and its repeat.                          *)
(*                                                                         *)
(* Several processes may be given one socket path.  What a connection reads *)
(* and writes is the subject of Connection: here a handler waits for a      *)
(* request, takes a permit, serves, releases the permit.                    *)
(***************************************************************************)
EXTENDS Naturals, FiniteSets

CONSTANTS Proc, Worktree,   \* the processes; the worktrees they may serve
          Conn,             \* the clients that connect, again and again
          Nobody,           \* no process
          MaxConnections,   \* MAX_CONNECTIONS
          MaxConcurrent     \* --max-concurrent

ASSUME DaemonAssumption ==
  /\ Nobody \notin Proc /\ IsFiniteSet(Conn)
  /\ MaxConnections \in Nat /\ MaxConcurrent \in Nat

VARIABLES worktree,  \* the worktree each process serves; never changes
          phase,     \* where the main thread of each process stands
          path,      \* the process whose socket the path names
          draining,  \* the drain flag of each process
          signals,   \* its signal thread: none yet, waiting or about to wake
          wakes,     \* a signal thread's connection is in its backlog
          expired,   \* the drain grace of the process ran out
          slots,     \* the free connection permits of each process
          permits,   \* its free query permits
          at,        \* the process each client is connected to
          conn       \* where the client's handler stands

vars == <<worktree, phase, path, draining, signals, wakes, expired, slots, permits, at, conn>>

(* The main thread: down, probe (the daemon lock is held), stale (a dead     *)
(* socket was found), bind, published, accept, drain (the loop is left),     *)
(* unlinked, grace (the listener is dropped), returned (out of `serve`, the  *)
(* daemon lock dropped, the threads still running).                          *)
Phase == {"down", "probe", "stale", "bind", "published", "accept", "drain",
          "unlinked", "grace", "returned"}
Listening(p) == phase[p] \in {"published", "accept", "drain", "unlinked"}
HasDaemonLock(p) == phase[p] \notin {"down", "returned"}

(* A handler: none, backlog (not accepted yet), open, idle, want (about to   *)
(* look at the permit count), asleep (in the condition variable), woken      *)
(* (about to look again), serving, then notify or fail (the count is         *)
(* incremented, the waiters not notified yet) after a request that was       *)
(* answered or an error that ends the thread.                                *)
Running == {"open", "idle", "want", "asleep", "woken", "serving", "notify", "fail"}
Handlers(p) == {c \in Conn : at[c] = p /\ conn[c] \in Running}
Serving(p) == {c \in Conn : at[c] = p /\ conn[c] = "serving"}
Asleep(p) == {c \in Conn : at[c] = p /\ conn[c] = "asleep"}

Init ==
  /\ worktree \in [Proc -> Worktree]
  /\ phase = [p \in Proc |-> "down"] /\ path = Nobody
  /\ draining = [p \in Proc |-> FALSE] /\ signals = [p \in Proc |-> "none"]
  /\ wakes = [p \in Proc |-> FALSE] /\ expired = [p \in Proc |-> FALSE]
  /\ slots = [p \in Proc |-> MaxConnections]
  /\ permits = [p \in Proc |-> MaxConcurrent]
  /\ at = [c \in Conn |-> Nobody] /\ conn = [c \in Conn |-> "none"]

Goto(p, where) == phase' = [phase EXCEPT ![p] = where]
Handlerless == UNCHANGED <<slots, permits, at, conn>>
Mainless == UNCHANGED <<worktree, phase, path, draining, signals, wakes, expired>>

\* The process is gone, and with it its threads, its locks and its sockets'
\* other ends; what the path names stays.
Gone(p) ==
  /\ Goto(p, "down")
  /\ draining' = [draining EXCEPT ![p] = FALSE]
  /\ signals' = [signals EXCEPT ![p] = "none"]
  /\ wakes' = [wakes EXCEPT ![p] = FALSE]
  /\ expired' = [expired EXCEPT ![p] = FALSE]
  /\ slots' = [slots EXCEPT ![p] = MaxConnections]
  /\ permits' = [permits EXCEPT ![p] = MaxConcurrent]
  /\ at' = [c \in Conn |-> IF at[c] = p THEN Nobody ELSE at[c]]
  /\ conn' = [c \in Conn |-> IF at[c] = p THEN "none" ELSE conn[c]]
  /\ UNCHANGED worktree

-----------------------------------------------------------------------------
(* Start-up.                                                                *)

\* Mutant: the daemon lock is not taken.
StartUnlocked(p) ==
  /\ phase[p] = "down" /\ Goto(p, "probe")
  /\ UNCHANGED <<worktree, path, draining, signals, wakes, expired>> /\ Handlerless

\* DaemonLock::acquire, or no daemon.
Start(p) ==
  /\ phase[p] = "down"
  /\ \A q \in Proc : worktree[q] = worktree[p] => ~HasDaemonLock(q)
  /\ Goto(p, "probe")
  /\ UNCHANGED <<worktree, path, draining, signals, wakes, expired>> /\ Handlerless

\* Whether the path exists, and someone accepts on it.
Probe(p) ==
  /\ phase[p] = "probe"
  /\ \/ path = Nobody /\ Goto(p, "bind")
     \/ path # Nobody /\ Listening(path) /\ Goto(p, "down")
     \/ path # Nobody /\ ~Listening(path) /\ Goto(p, "stale")
  /\ UNCHANGED <<worktree, path, draining, signals, wakes, expired>> /\ Handlerless

\* The socket found stale is removed, or whatever the path names by now.
RemoveStale(p) ==
  /\ phase[p] = "stale"
  /\ path' = Nobody /\ Goto(p, IF path = Nobody THEN "down" ELSE "bind")
  /\ UNCHANGED <<worktree, draining, signals, wakes, expired>> /\ Handlerless

\* Bound in the staging directory and renamed into place.
Publish(p) ==
  /\ phase[p] = "bind"
  /\ path' = p /\ Goto(p, "published")
  /\ UNCHANGED <<worktree, draining, signals, wakes, expired>> /\ Handlerless

\* The SIGTERM handler is registered and its thread spawned.
Register(p) ==
  /\ phase[p] = "published"
  /\ signals' = [signals EXCEPT ![p] = "wait"] /\ Goto(p, "accept")
  /\ UNCHANGED <<worktree, path, draining, wakes, expired>> /\ Handlerless

\* Or that fails, and SocketGuard unlinks the path.
RegisterFails(p) == phase[p] = "published" /\ path' = Nobody /\ Gone(p)

\* SIGKILL, or SIGTERM before its handler is registered.
Killed(p) == phase[p] # "down" /\ Gone(p) /\ UNCHANGED path

-----------------------------------------------------------------------------
(* The signal thread.                                                       *)

\* The first SIGTERM sets the flag ...
Sigterm(p) ==
  /\ signals[p] = "wait" /\ ~draining[p]
  /\ draining' = [draining EXCEPT ![p] = TRUE]
  /\ signals' = [signals EXCEPT ![p] = "wake"]
  /\ UNCHANGED <<worktree, phase, path, wakes, expired>> /\ Handlerless

\* ... and connects to whatever the path names, to wake the accept loop.
Wake(p) ==
  /\ signals[p] = "wake"
  /\ signals' = [signals EXCEPT ![p] = "wait"]
  /\ wakes' = [q \in Proc |-> wakes[q] \/ (q = path /\ Listening(q))]
  /\ UNCHANGED <<worktree, phase, path, draining, expired>> /\ Handlerless

\* A second SIGTERM exits at once, the socket left behind if it is there.
SecondSigterm(p) == signals[p] = "wait" /\ draining[p] /\ Gone(p) /\ UNCHANGED path

-----------------------------------------------------------------------------
(* The accept loop, and the drain after it.                                 *)

Connect(c) ==
  /\ conn[c] = "none" /\ path # Nobody /\ Listening(path)
  /\ at' = [at EXCEPT ![c] = path] /\ conn' = [conn EXCEPT ![c] = "backlog"]
  /\ UNCHANGED <<slots, permits>> /\ Mainless

\* Connection c has no end here any more.
Closed(c) == at' = [at EXCEPT ![c] = Nobody] /\ conn' = [conn EXCEPT ![c] = "none"]

InBacklog(p, c) == phase[p] = "accept" /\ at[c] = p /\ conn[c] = "backlog"

\* The handler has its permit before its thread is spawned.
Accept(p, c) ==
  /\ InBacklog(p, c) /\ ~draining[p] /\ slots[p] > 0
  /\ slots' = [slots EXCEPT ![p] = @ - 1]
  /\ conn' = [conn EXCEPT ![c] = "open"]
  /\ UNCHANGED <<permits, at>> /\ Mainless

\* At the limit the peer is told `busy`; where the thread cannot be spawned the
\* permit is dropped and the stream with it.
Refuse(p, c) ==
  /\ InBacklog(p, c) /\ ~draining[p]
  /\ Closed(c)
  /\ UNCHANGED <<slots, permits>> /\ Mainless

LeaveLoop(p) ==
  /\ draining[p] /\ Goto(p, "drain")
  /\ UNCHANGED <<worktree, path, draining, signals, expired>>

StayInLoop(p) ==
  ~draining[p] /\ UNCHANGED <<worktree, phase, path, draining, signals, expired>>

\* Any connection wakes a loop that is to drain; it is not served.
AcceptDraining(p, c) ==
  /\ InBacklog(p, c)
  /\ LeaveLoop(p) /\ Closed(c)
  /\ UNCHANGED <<wakes, slots, permits>>

\* A signal thread's connection; outside a drain (the thread was another
\* process's) it is a connection that ends at once.
AcceptWake(p) ==
  /\ phase[p] = "accept" /\ wakes[p] /\ wakes' = [wakes EXCEPT ![p] = FALSE]
  /\ LeaveLoop(p) \/ StayInLoop(p)
  /\ Handlerless

\* The connection accept was woken for is lost.
Lost(p) ==
  \/ wakes[p] /\ wakes' = [wakes EXCEPT ![p] = FALSE] /\ UNCHANGED <<at, conn>>
  \/ UNCHANGED wakes /\ \E c \in Conn : InBacklog(p, c) /\ Closed(c)

\* Mutant: the error arm goes back to accept, whatever the flag.
AcceptErrorLoops(p) ==
  /\ phase[p] = "accept" /\ Lost(p)
  /\ UNCHANGED <<worktree, phase, path, draining, signals, expired, slots, permits>>

\* accept fails: at the limit of the descriptors, say.
AcceptError(p) ==
  /\ phase[p] = "accept" /\ Lost(p)
  /\ LeaveLoop(p) \/ StayInLoop(p)
  /\ UNCHANGED <<slots, permits>>

Unlink(p) ==
  /\ phase[p] = "drain" /\ path' = Nobody /\ Goto(p, "unlinked")
  /\ UNCHANGED <<worktree, draining, signals, wakes, expired>> /\ Handlerless

\* With the listener go the connections it did not accept.
DropListener(p) ==
  /\ phase[p] = "unlinked" /\ Goto(p, "grace")
  /\ wakes' = [wakes EXCEPT ![p] = FALSE]
  /\ LET reset == {c \in Conn : at[c] = p /\ conn[c] = "backlog"} IN
       /\ at' = [c \in Conn |-> IF c \in reset THEN Nobody ELSE at[c]]
       /\ conn' = [c \in Conn |-> IF c \in reset THEN "none" ELSE conn[c]]
  /\ UNCHANGED <<worktree, path, draining, signals, expired, slots, permits>>

\* Mutant: the drain waits for the query permits.
GraceOverIdle(p) ==
  /\ phase[p] = "grace" /\ Goto(p, "returned")
  /\ expired' = [expired EXCEPT ![p] = MaxConcurrent - permits[p] # 0]
  /\ UNCHANGED <<worktree, path, draining, signals, wakes>> /\ Handlerless

\* No handler is active, by the count of the free permits, or the grace is
\* over.  `serve` returns, SocketGuard disarmed, and drops the daemon lock.
GraceOver(p) ==
  /\ phase[p] = "grace" /\ Goto(p, "returned")
  /\ expired' = [expired EXCEPT ![p] = MaxConnections - slots[p] # 0]
  /\ UNCHANGED <<worktree, path, draining, signals, wakes>> /\ Handlerless

Exit(p) == phase[p] = "returned" /\ Gone(p) /\ UNCHANGED path

-----------------------------------------------------------------------------
(* The handlers.                                                            *)

Step(c, from, to) == conn[c] = from /\ conn' = [conn EXCEPT ![c] = to]

\* The handler ends and drops its connection permit.
Ends(c) ==
  /\ slots' = [slots EXCEPT ![at[c]] = @ + 1]
  /\ Closed(c) /\ UNCHANGED permits /\ Mainless

\* The repository is opened and the hellos are exchanged ...
Greeted(c) == Step(c, "open", "idle") /\ UNCHANGED <<slots, permits, at>> /\ Mainless

\* ... or not; or the peer closes, or is silent until the timeout.
Quits(c) == conn[c] \in {"open", "idle"} /\ Ends(c)

\* A request with a verb that takes a permit.
Request(c) == Step(c, "idle", "want") /\ UNCHANGED <<slots, permits, at>> /\ Mainless

\* A verb no one knows is answered without one; a drain ends the connection.
Unknown(c) == conn[c] = "idle" /\ draining[at[c]] /\ Ends(c)

\* Mutant: `if` for `while`, a woken waiter does not look again.
AcquireOnce(c) ==
  LET p == at[c] IN
  /\ conn[c] \in {"want", "woken"}
  /\ \/ (permits[p] > 0 \/ conn[c] = "woken") /\ conn' = [conn EXCEPT ![c] = "serving"]
        /\ permits' = [permits EXCEPT ![p] = IF @ = 0 THEN 0 ELSE @ - 1]
     \/ permits[p] = 0 /\ conn[c] = "want" /\ conn' = [conn EXCEPT ![c] = "asleep"]
        /\ UNCHANGED permits
  /\ UNCHANGED <<slots, at>> /\ Mainless

\* Semaphore::acquire: the count is looked at under its mutex, before and
\* after every wait.
Acquire(c) ==
  LET p == at[c] IN
  /\ conn[c] \in {"want", "woken"}
  /\ \/ /\ permits[p] > 0 /\ permits' = [permits EXCEPT ![p] = @ - 1]
        /\ conn' = [conn EXCEPT ![c] = "serving"]
     \/ permits[p] = 0 /\ conn' = [conn EXCEPT ![c] = "asleep"] /\ UNCHANGED permits
  /\ UNCHANGED <<slots, at>> /\ Mainless

\* A wait may end for no reason.
WakesUp(c) == Step(c, "asleep", "woken") /\ UNCHANGED <<slots, permits, at>> /\ Mainless

\* The request is answered, or its handler fails: Permit is dropped, first the
\* count ...
Release(c, how) ==
  /\ Step(c, "serving", how)
  /\ permits' = [permits EXCEPT ![at[c]] = @ + 1]
  /\ UNCHANGED <<slots, at>> /\ Mainless

\* Mutant: a handler that fails does not notify.
NotifyAnswered(c) ==
  LET p == at[c]
      ends == conn[c] = "fail" \/ draining[p]
      last == IF ends THEN "none" ELSE "idle" IN
  /\ conn[c] \in {"notify", "fail"}
  /\ \/ (Asleep(p) = {} \/ conn[c] = "fail") /\ conn' = [conn EXCEPT ![c] = last]
     \/ \E w \in Asleep(p) : conn' = [conn EXCEPT ![c] = last, ![w] = "woken"]
  /\ at' = IF ends THEN [at EXCEPT ![c] = Nobody] ELSE at
  /\ slots' = IF ends THEN [slots EXCEPT ![p] = @ + 1] ELSE slots
  /\ UNCHANGED permits /\ Mainless

\* ... then notify_one.  After an answer the handler reads on, unless the daemon
\* drains.
Notify(c) ==
  LET p == at[c]
      ends == conn[c] = "fail" \/ draining[p]
      last == IF ends THEN "none" ELSE "idle" IN
  /\ conn[c] \in {"notify", "fail"}
  /\ \/ Asleep(p) = {} /\ conn' = [conn EXCEPT ![c] = last]
     \/ \E w \in Asleep(p) : conn' = [conn EXCEPT ![c] = last, ![w] = "woken"]
  /\ at' = IF ends THEN [at EXCEPT ![c] = Nobody] ELSE at
  /\ slots' = IF ends THEN [slots EXCEPT ![p] = @ + 1] ELSE slots
  /\ UNCHANGED permits /\ Mainless

-----------------------------------------------------------------------------
Signalled(p) == Sigterm(p) \/ SecondSigterm(p) \/ Killed(p)

StartUp(p) ==
  Start(p) \/ Probe(p) \/ RemoveStale(p) \/ Publish(p) \/ Register(p) \/ RegisterFails(p)

Accepting(p) ==
  \/ AcceptWake(p) \/ AcceptError(p)
  \/ \E c \in Conn : Accept(p, c) \/ Refuse(p, c) \/ AcceptDraining(p, c)

Draining(p) == Unlink(p) \/ DropListener(p) \/ GraceOver(p) \/ Exit(p)

Handler(c) ==
  \/ Greeted(c) \/ Quits(c) \/ Request(c) \/ Unknown(c) \/ Acquire(c) \/ WakesUp(c)
  \/ Release(c, "notify") \/ Release(c, "fail") \/ Notify(c)

Next ==
  \/ \E p \in Proc : Signalled(p) \/ StartUp(p) \/ Wake(p) \/ Accepting(p) \/ Draining(p)
  \/ \E c \in Conn : Connect(c) \/ Handler(c)

Spec == Init /\ [][Next]_vars

\* The threads of a process run: the accept loop while there is a connection to
\* accept, the drain, whose grace ends, and the signal thread.
FairSpec == Spec /\ \A p \in Proc : WF_vars(Accepting(p)) /\ WF_vars(Draining(p)) /\ WF_vars(Wake(p))

-----------------------------------------------------------------------------
(* Properties.                                                              *)

\* The permits are conserved: each is free, or with a handler that ends or
\* releases it.
TypeOK ==
  /\ worktree \in [Proc -> Worktree] /\ phase \in [Proc -> Phase]
  /\ path \in Proc \union {Nobody}
  /\ draining \in [Proc -> BOOLEAN] /\ wakes \in [Proc -> BOOLEAN]
  /\ signals \in [Proc -> {"none", "wait", "wake"}] /\ expired \in [Proc -> BOOLEAN]
  /\ at \in [Conn -> Proc \union {Nobody}]
  /\ conn \in [Conn -> Running \union {"none", "backlog"}]
  /\ \A c \in Conn : at[c] = Nobody <=> conn[c] = "none"
  /\ \A p \in Proc : /\ slots[p] + Cardinality(Handlers(p)) = MaxConnections
                     /\ permits[p] + Cardinality(Serving(p)) = MaxConcurrent

\* The mutex, the count and the condition variable of Semaphore implement a
\* pool of `--max-concurrent` permits, the count alone the connection limit.
QueryPool == INSTANCE PermitPool WITH holders <- [p \in Proc |-> Serving(p)],
                                      Owner <- Proc, Holder <- Conn, Permits <- MaxConcurrent
SlotPool == INSTANCE PermitPool WITH holders <- [p \in Proc |-> Handlers(p)],
                                     Owner <- Proc, Holder <- Conn, Permits <- MaxConnections
PermitsArePools == QueryPool!Spec /\ SlotPool!Spec

\* No wakeup is lost between Semaphore's count and its condition variable: a
\* request does not sleep beside a free permit that nobody is about to take or
\* to announce.
NoLostWakeup ==
  \A p \in Proc : permits[p] > 0 /\ Asleep(p) # {} =>
     \E c \in Conn : at[c] = p /\ conn[c] \in {"want", "woken", "notify", "fail"}

\* "wait for the in-flight handlers": a drain ends with no handler running,
\* unless its grace expired.
DrainWaits ==
  \A p \in Proc : phase[p] = "returned" /\ ~expired[p] => Handlers(p) = {}

\* No step of a daemon takes the path away from a live daemon of the same
\* worktree: start-up, drain and the guard of a failed start unlink only what
\* is dead or their own.
LiveSocketKept ==
  [][\A p \in Proc : path = p /\ Listening(p) /\ path' # p /\ phase'[p] = phase[p] =>
        \E q \in Proc : worktree[q] # worktree[p] /\ phase'[q] # phase[q]]_vars

\* The drain is not stranded: after SIGTERM the daemon ends, the wake-connect
\* racing other connections and accept errors, unless a daemon of another
\* worktree took its path.
DrainFinishes ==
  \A p \in Proc : (draining[p] /\ \A q \in Proc : worktree[q] = worktree[p]) ~> (phase[p] = "down")
=============================================================================
