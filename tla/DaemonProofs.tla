---------------------------- MODULE DaemonProofs ----------------------------
(***************************************************************************)
(* Proofs about Daemon: its permits are pools, no wakeup is lost, a drain   *)
(* waits for the handlers, and a live socket stays in place.                *)
(***************************************************************************)
EXTENDS Daemon, FiniteSetTheorems, TLAPS

-----------------------------------------------------------------------------
(* The inductive invariants                                                 *)

MainTypes ==
  /\ worktree \in [Proc -> Worktree] /\ phase \in [Proc -> Phase]
  /\ path \in Proc \union {Nobody}
  /\ draining \in [Proc -> BOOLEAN] /\ wakes \in [Proc -> BOOLEAN]
  /\ signals \in [Proc -> {"none", "wait", "wake"}] /\ expired \in [Proc -> BOOLEAN]
ConnTypes ==
  /\ slots \in [Proc -> Nat] /\ permits \in [Proc -> Nat]
  /\ at \in [Conn -> Proc \union {Nobody}]
  /\ conn \in [Conn -> Running \union {"none", "backlog"}]
  /\ \A c \in Conn : at[c] = Nobody <=> conn[c] = "none"
Types == MainTypes /\ ConnTypes

\* The daemon lock: one daemon of a worktree between its start and its return.
OneDaemon ==
  \A p, q \in Proc : worktree[p] = worktree[q] /\ HasDaemonLock(p) /\ HasDaemonLock(q) => p = q

\* The handlers of a process in some of the states.
In(S, p) == {c \in Conn : at[c] = p /\ conn[c] \in S}
Handling == [p \in Proc |-> Handlers(p)]
Holding == [p \in Proc |-> Serving(p)]

\* Every permit is free or held.
Conserved(h, free, max) == \A p \in Proc : free[p] + Cardinality(h[p]) = max

\* Where requests sleep, someone is awake for every free permit: one that will look
\* at the count again, or one that has yet to notify.
Waking(p) == In({"woken", "notify", "fail"}, p)
Awake == \A p \in Proc : Asleep(p) # {} => permits[p] <= Cardinality(Waking(p))

Inv ==
  /\ Types /\ OneDaemon /\ Awake /\ DrainWaits
  /\ Conserved(Handling, slots, MaxConnections)
  /\ Conserved(Holding, permits, MaxConcurrent)

-----------------------------------------------------------------------------
(* Pools                                                                    *)

\* What one step may do to a pool: nothing, hand out a free permit, take one back, or
\* end with its owner.
PoolStep(h, g, free, next, max) ==
  \/ g = h /\ next = free
  \/ \E p \in Proc, c \in Conn :
       /\ c \notin h[p] /\ free[p] > 0
       /\ g = [h EXCEPT ![p] = @ \union {c}] /\ next = [free EXCEPT ![p] = @ - 1]
  \/ \E p \in Proc, c \in Conn :
       /\ c \in h[p]
       /\ g = [h EXCEPT ![p] = @ \ {c}] /\ next = [free EXCEPT ![p] = @ + 1]
  \/ \E p \in Proc : g = [h EXCEPT ![p] = {}] /\ next = [free EXCEPT ![p] = max]

\* Such a step conserves the permits.
LEMMA PoolConserved ==
  ASSUME NEW h \in [Proc -> SUBSET Conn], NEW g, NEW free \in [Proc -> Nat], NEW next,
         NEW max \in Nat, Conserved(h, free, max), PoolStep(h, g, free, next, max)
  PROVE  Conserved(g, next, max)
  <1>a. \A p \in Proc : IsFiniteSet(h[p]) /\ Cardinality(h[p]) \in Nat
      BY DaemonAssumption, FS_Subset, FS_CardinalityType DEF DaemonAssumption
  <1> SUFFICES ASSUME NEW q \in Proc PROVE next[q] + Cardinality(g[q]) = max
      BY DEF Conserved
  <1>b. free[q] + Cardinality(h[q]) = max
      BY DEF Conserved
  <1>1. CASE g = h /\ next = free
      BY <1>1, <1>b
  <1>2. ASSUME NEW p \in Proc, NEW c \in Conn, c \notin h[p], free[p] > 0,
               g = [h EXCEPT ![p] = @ \union {c}], next = [free EXCEPT ![p] = @ - 1]
        PROVE  next[q] + Cardinality(g[q]) = max
      <2>1. CASE q = p
          <3>1. g[q] = h[q] \union {c} /\ next[q] = free[q] - 1
              BY <1>2, <2>1
          <3>2. Cardinality(h[q] \union {c}) = Cardinality(h[q]) + 1
              BY <1>2, <2>1, <1>a, FS_AddElement
          <3> QED
              BY <3>1, <3>2, <1>a, <1>b
      <2>2. CASE q # p
          BY <1>2, <2>2, <1>b
      <2> QED
          BY <2>1, <2>2
  <1>3. ASSUME NEW p \in Proc, NEW c \in Conn, c \in h[p],
               g = [h EXCEPT ![p] = @ \ {c}], next = [free EXCEPT ![p] = @ + 1]
        PROVE  next[q] + Cardinality(g[q]) = max
      <2>1. CASE q = p
          <3>1. g[q] = h[q] \ {c} /\ next[q] = free[q] + 1
              BY <1>3, <2>1
          <3>2. Cardinality(h[q] \ {c}) = Cardinality(h[q]) - 1
              BY <1>3, <2>1, <1>a, FS_RemoveElement
          <3> QED
              BY <3>1, <3>2, <1>a, <1>b
      <2>2. CASE q # p
          BY <1>3, <2>2, <1>b
      <2> QED
          BY <2>1, <2>2
  <1>4. ASSUME NEW p \in Proc, g = [h EXCEPT ![p] = {}], next = [free EXCEPT ![p] = max]
        PROVE  next[q] + Cardinality(g[q]) = max
      <2>1. CASE q = p
          <3>1. g[q] = {} /\ next[q] = max
              BY <1>4, <2>1
          <3> QED
              BY <3>1, FS_EmptySet
      <2>2. CASE q # p
          BY <1>4, <2>2, <1>b
      <2> QED
          BY <2>1, <2>2
  <1> QED
      BY <1>1, <1>2, <1>3, <1>4 DEF PoolStep

\* A permit is only handed out below the limit.
LEMMA PoolBounded ==
  ASSUME NEW h \in [Proc -> SUBSET Conn], NEW free \in [Proc -> Nat], NEW max \in Nat,
         Conserved(h, free, max), NEW p \in Proc, free[p] > 0
  PROVE  Cardinality(h[p]) < max
  <1>1. Cardinality(h[p]) \in Nat
      BY DaemonAssumption, FS_Subset, FS_CardinalityType DEF DaemonAssumption
  <1> QED
      BY <1>1 DEF Conserved

-----------------------------------------------------------------------------
(* Handlers                                                                 *)

\* A step of one connection moves it alone.
LEMMA OneMoves ==
  ASSUME NEW c \in Conn, \A d \in Conn : d # c => at'[d] = at[d] /\ conn'[d] = conn[d], NEW S
  PROVE  /\ \A p \in Proc : at'[c] = p /\ conn'[c] \in S => In(S, p)' = In(S, p) \union {c}
         /\ \A p \in Proc : ~(at'[c] = p /\ conn'[c] \in S) => In(S, p)' = In(S, p) \ {c}
         /\ \A p \in Proc : at[c] = p /\ conn[c] \in S <=> c \in In(S, p)
  BY DEF In

\* The handlers, the served and the sleeping requests.
LEMMA Sets ==
  /\ Handling = [p \in Proc |-> In(Running, p)]
  /\ Holding = [p \in Proc |-> In({"serving"}, p)]
  /\ \A p : Asleep(p) = In({"asleep"}, p)
  BY DEF Handling, Holding, Handlers, Serving, Asleep, In

\* The same after a step.
LEMMA SetsPrime ==
  /\ Handling' = [p \in Proc |-> In(Running, p)']
  /\ Holding' = [p \in Proc |-> In({"serving"}, p)']
  /\ \A p \in Proc : Asleep(p)' = In({"asleep"}, p)'
  BY DEF Handling, Holding, Handlers, Serving, Asleep, In

\* Only connection c moves.
Alone(c) == \A d \in Conn : d # c => at'[d] = at[d] /\ conn'[d] = conn[d]

\* What a step is to the handlers: nothing; the end of their process; the end of its
\* backlog; a connection made or lost in a backlog; or a step of one handler.
Outside(c) ==
  /\ Alone(c) /\ conn[c] \in {"none", "backlog"} /\ conn'[c] \in {"none", "backlog"}
  /\ at'[c] \in Proc \union {Nobody} /\ (at'[c] = Nobody <=> conn'[c] = "none")
  /\ at' \in [Conn -> Proc \union {Nobody}] /\ conn' \in [Conn -> Running \union {"none", "backlog"}]
  /\ UNCHANGED <<slots, permits>>
Leaves(c) == conn[c] \in {"open", "idle"} /\ Ends(c)
Shifts(c) == Greeted(c) \/ Request(c) \/ WakesUp(c)
Releases(c) == Release(c, "notify") \/ Release(c, "fail")

Effect ==
  \/ Handlerless
  \/ \E p \in Proc : Gone(p) \/ DropListener(p) \/ \E c \in Conn : Accept(p, c)
  \/ \E c \in Conn : \/ Outside(c) \/ Leaves(c) \/ Shifts(c) \/ Acquire(c) \/ Releases(c)
                     \/ Notify(c)

\* A connection that closes in the backlog, or outside.
LEMMA ClosedIs ==
  ASSUME Types, NEW c \in Conn, Closed(c)
  PROVE  /\ Alone(c) /\ at'[c] = Nobody /\ conn'[c] = "none"
         /\ at' \in [Conn -> Proc \union {Nobody}]
         /\ conn' \in [Conn -> Running \union {"none", "backlog"}]
  BY DEF Types, ConnTypes, Closed, Alone

\* Every step is one of them.
LEMMA Effects ==
  ASSUME Types, [Next]_vars PROVE Effect
  <1>1. ASSUME NEW p \in Proc,
               \/ Start(p) \/ Probe(p) \/ RemoveStale(p) \/ Publish(p) \/ Register(p) \/ Sigterm(p)
               \/ Wake(p) \/ AcceptWake(p) \/ Unlink(p) \/ GraceOver(p)
        PROVE  Handlerless
      BY <1>1 DEF Start, Probe, RemoveStale, Publish, Register, Sigterm, Wake, AcceptWake, Unlink,
                  GraceOver
  <1>2. ASSUME NEW p \in Proc,
               RegisterFails(p) \/ Killed(p) \/ SecondSigterm(p) \/ Exit(p)
        PROVE  Gone(p)
      BY <1>2 DEF RegisterFails, Killed, SecondSigterm, Exit
  <1>3. ASSUME NEW p \in Proc, NEW c \in Conn, InBacklog(p, c), Closed(c), UNCHANGED <<slots, permits>>
        PROVE  Outside(c)
      BY <1>3, ClosedIs DEF Outside, InBacklog
  <1>4. ASSUME NEW p \in Proc, NEW c \in Conn, Refuse(p, c) \/ AcceptDraining(p, c)
        PROVE  Outside(c)
      BY <1>3, <1>4 DEF Refuse, AcceptDraining
  <1>5. ASSUME NEW p \in Proc, AcceptError(p)
        PROVE  Handlerless \/ \E c \in Conn : Outside(c)
      <2>1. UNCHANGED <<slots, permits>> /\ Lost(p)
          BY <1>5 DEF AcceptError
      <2>2. CASE UNCHANGED <<at, conn>>
          BY <2>1, <2>2 DEF Handlerless
      <2>3. CASE \E c \in Conn : InBacklog(p, c) /\ Closed(c)
          BY <1>3, <2>1, <2>3
      <2> QED
          BY <2>1, <2>2, <2>3 DEF Lost
  <1>6. ASSUME NEW c \in Conn, Connect(c)
        PROVE  Outside(c)
      <2>1. path \in Proc /\ path # Nobody
          BY <1>6, DaemonAssumption DEF Connect, Types, MainTypes
      <2> QED
          BY <1>6, <2>1 DEF Connect, Outside, Alone, Types, ConnTypes
  <1>7. ASSUME NEW c \in Conn, Handler(c)
        PROVE  Leaves(c) \/ Shifts(c) \/ Acquire(c) \/ Releases(c) \/ Notify(c)
      BY <1>7 DEF Handler, Leaves, Shifts, Releases, Quits, Unknown
  <1>8. CASE UNCHANGED vars
      BY <1>8 DEF vars, Handlerless, Effect
  <1>9. CASE \E p \in Proc : Signalled(p) \/ StartUp(p) \/ Wake(p) \/ Accepting(p) \/ Draining(p)
      <2>1. PICK p \in Proc : Signalled(p) \/ StartUp(p) \/ Wake(p) \/ Accepting(p) \/ Draining(p)
          BY <1>9
      <2>2. CASE Signalled(p) \/ StartUp(p) \/ Wake(p) \/ Draining(p)
          BY <2>2, <1>1, <1>2 DEF Signalled, StartUp, Draining, Effect
      <2>3. CASE Accepting(p)
          BY <2>3, <1>1, <1>4, <1>5 DEF Accepting, Effect
      <2> QED
          BY <2>1, <2>2, <2>3
  <1>10. CASE \E c \in Conn : Connect(c) \/ Handler(c)
      BY <1>10, <1>6, <1>7 DEF Effect
  <1> QED
      BY <1>8, <1>9, <1>10 DEF Next

\* A handler belongs to a process.
LEMMA Owned ==
  ASSUME Types, NEW c \in Conn, conn[c] \in Running PROVE at[c] \in Proc /\ at[c] # Nobody
  BY DEF Types, ConnTypes, Running

\* The handlers' steps keep the types.
LEMMA ConnTypesStep ==
  ASSUME Types, Effect PROVE ConnTypes'
  <1> USE DEF Types
  <1>1. CASE Handlerless
      BY <1>1 DEF Handlerless, ConnTypes
  <1>2. ASSUME NEW p \in Proc, Gone(p) PROVE ConnTypes'
      BY <1>2, DaemonAssumption DEF DaemonAssumption, Gone, ConnTypes
  <1>3. ASSUME NEW p \in Proc, DropListener(p) PROVE ConnTypes'
      BY <1>3 DEF DropListener, ConnTypes
  <1>4. ASSUME NEW p \in Proc, NEW c \in Conn, Accept(p, c) PROVE ConnTypes'
      BY <1>4, DaemonAssumption DEF DaemonAssumption, Accept, InBacklog, ConnTypes, Running
  <1>5. ASSUME NEW c \in Conn, Outside(c) PROVE ConnTypes'
      BY <1>5 DEF Outside, Alone, ConnTypes
  <1>6. ASSUME NEW c \in Conn, Leaves(c) PROVE ConnTypes'
      <2>1. at[c] \in Proc
          BY <1>6, Owned DEF Leaves, Running
      <2> QED
          BY <1>6, <2>1, ClosedIs DEF Leaves, Ends, Alone, ConnTypes
  <1>7. ASSUME NEW c \in Conn, Shifts(c) PROVE ConnTypes'
      BY <1>7 DEF Shifts, Greeted, Request, WakesUp, Step, ConnTypes, Running
  <1>8. ASSUME NEW c \in Conn, Acquire(c) PROVE ConnTypes'
      <2>1. at[c] \in Proc
          BY <1>8, Owned DEF Acquire, Running
      <2> QED
          BY <1>8, <2>1 DEF Acquire, ConnTypes, Running
  <1>9. ASSUME NEW c \in Conn, Releases(c) PROVE ConnTypes'
      <2>1. at[c] \in Proc
          BY <1>9, Owned DEF Releases, Release, Step, Running
      <2> QED
          BY <1>9, <2>1 DEF Releases, Release, Step, ConnTypes, Running
  <1>10. ASSUME NEW c \in Conn, Notify(c) PROVE ConnTypes'
      <2> DEFINE ends == conn[c] = "fail" \/ draining[at[c]]
                 last == IF ends THEN "none" ELSE "idle"
      <2>1. at[c] \in Proc /\ at[c] # Nobody /\ conn[c] \in {"notify", "fail"}
          BY <1>10, Owned DEF Notify, Running
      <2>2. /\ at' = (IF ends THEN [at EXCEPT ![c] = Nobody] ELSE at)
            /\ slots' = (IF ends THEN [slots EXCEPT ![at[c]] = @ + 1] ELSE slots)
            /\ permits' = permits
            /\ \/ conn' = [conn EXCEPT ![c] = last]
               \/ \E w \in Asleep(at[c]) : conn' = [conn EXCEPT ![c] = last, ![w] = "woken"]
          BY <1>10 DEF Notify
      <2>3. slots' \in [Proc -> Nat] /\ permits' \in [Proc -> Nat]
            /\ at' \in [Conn -> Proc \union {Nobody}]
          BY <2>1, <2>2 DEF ConnTypes
      <2>4. conn' \in [Conn -> Running \union {"none", "backlog"}]
          BY <2>2 DEF ConnTypes, Running
      <2>5. \A d \in Conn : at'[d] = Nobody <=> conn'[d] = "none"
          <3>1. CASE conn' = [conn EXCEPT ![c] = last]
              BY <2>1, <2>2, <3>1 DEF ConnTypes
          <3>2. ASSUME NEW w \in Asleep(at[c]), conn' = [conn EXCEPT ![c] = last, ![w] = "woken"]
                PROVE  \A d \in Conn : at'[d] = Nobody <=> conn'[d] = "none"
              <4>1. w \in Conn /\ w # c /\ at[w] = at[c]
                  BY <2>1 DEF Asleep
              <4> QED
                  BY <2>1, <2>2, <3>2, <4>1 DEF ConnTypes
          <3> QED
              BY <2>2, <3>1, <3>2
      <2> QED
          BY <2>3, <2>4, <2>5 DEF ConnTypes
  <1> QED
      BY <1>1, <1>2, <1>3, <1>4, <1>5, <1>6, <1>7, <1>8, <1>9, <1>10 DEF Effect

\* Handlers move alone but for Notify, which moves one of two.
LEMMA AloneSteps ==
  ASSUME Types, NEW c \in Conn
  PROVE  /\ \A p \in Proc : Accept(p, c) => Alone(c) /\ conn[c] = "backlog" /\ conn'[c] = "open"
                                            /\ at[c] = p /\ at'[c] = p
         /\ Leaves(c) => Alone(c) /\ conn[c] \in {"open", "idle"} /\ conn'[c] = "none" /\ at'[c] = Nobody
         /\ Shifts(c) => /\ Alone(c) /\ at' = at /\ conn[c] \in {"open", "idle", "asleep"}
                         /\ conn'[c] \in {"idle", "want", "woken"}
         /\ Acquire(c) => /\ Alone(c) /\ at' = at /\ conn[c] \in {"want", "woken"}
                          /\ conn'[c] \in {"serving", "asleep"}
         /\ Releases(c) => /\ Alone(c) /\ at' = at /\ conn[c] = "serving"
                           /\ conn'[c] \in {"notify", "fail"}
  <1> USE DEF Types, ConnTypes
  <1>1. ASSUME NEW p \in Proc, Accept(p, c)
        PROVE  Alone(c) /\ conn[c] = "backlog" /\ conn'[c] = "open" /\ at[c] = p /\ at'[c] = p
      BY <1>1 DEF Accept, InBacklog, Alone
  <1>2. ASSUME Leaves(c)
        PROVE  Alone(c) /\ conn[c] \in {"open", "idle"} /\ conn'[c] = "none" /\ at'[c] = Nobody
      BY <1>2, ClosedIs DEF Leaves, Ends
  <1>3. ASSUME Shifts(c)
        PROVE  /\ Alone(c) /\ at' = at /\ conn[c] \in {"open", "idle", "asleep"}
               /\ conn'[c] \in {"idle", "want", "woken"}
      BY <1>3 DEF Shifts, Greeted, Request, WakesUp, Step, Alone
  <1>4. ASSUME Acquire(c)
        PROVE  /\ Alone(c) /\ at' = at /\ conn[c] \in {"want", "woken"}
               /\ conn'[c] \in {"serving", "asleep"}
      BY <1>4 DEF Acquire, Alone
  <1>5. ASSUME Releases(c)
        PROVE  Alone(c) /\ at' = at /\ conn[c] = "serving" /\ conn'[c] \in {"notify", "fail"}
      BY <1>5 DEF Releases, Release, Step, Alone
  <1> QED
      BY <1>1, <1>2, <1>3, <1>4, <1>5

\* A handler that notified is over or reads on; the one it woke, if any, slept.
LEMMA NotifyIs ==
  ASSUME Types, NEW c \in Conn, Notify(c)
  PROVE  /\ at[c] \in Proc /\ at[c] # Nobody /\ conn[c] \in {"notify", "fail"} /\ permits' = permits
         /\ \A d \in Conn : d # c => at'[d] = at[d]
         /\ \/ at'[c] = Nobody /\ conn'[c] = "none" /\ slots' = [slots EXCEPT ![at[c]] = @ + 1]
            \/ at'[c] = at[c] /\ conn'[c] = "idle" /\ slots' = slots
         /\ \/ Asleep(at[c]) = {} /\ \A d \in Conn : d # c => conn'[d] = conn[d]
            \/ \E w \in Asleep(at[c]) :
                 /\ w \in Conn /\ w # c /\ conn'[w] = "woken"
                 /\ \A d \in Conn : d # c /\ d # w => conn'[d] = conn[d]
  <1> DEFINE ends == conn[c] = "fail" \/ draining[at[c]]
             last == IF ends THEN "none" ELSE "idle"
  <1>1. at[c] \in Proc /\ at[c] # Nobody /\ conn[c] \in {"notify", "fail"} /\ permits' = permits
      BY Owned DEF Notify, Running
  <1>2. /\ at' = (IF ends THEN [at EXCEPT ![c] = Nobody] ELSE at)
        /\ slots' = (IF ends THEN [slots EXCEPT ![at[c]] = @ + 1] ELSE slots)
        /\ \/ Asleep(at[c]) = {} /\ conn' = [conn EXCEPT ![c] = last]
           \/ \E w \in Asleep(at[c]) : conn' = [conn EXCEPT ![c] = last, ![w] = "woken"]
      BY DEF Notify
  <1>3. CASE Asleep(at[c]) = {} /\ conn' = [conn EXCEPT ![c] = last]
      BY <1>1, <1>2, <1>3 DEF Types, ConnTypes
  <1>4. ASSUME NEW w \in Asleep(at[c]), conn' = [conn EXCEPT ![c] = last, ![w] = "woken"]
        PROVE  /\ \A d \in Conn : d # c => at'[d] = at[d]
               /\ \/ at'[c] = Nobody /\ conn'[c] = "none" /\ slots' = [slots EXCEPT ![at[c]] = @ + 1]
                  \/ at'[c] = at[c] /\ conn'[c] = "idle" /\ slots' = slots
               /\ w \in Conn /\ w # c /\ conn'[w] = "woken"
               /\ \A d \in Conn : d # c /\ d # w => conn'[d] = conn[d]
      <2>1. w \in Conn /\ w # c
          BY <1>1 DEF Asleep
      <2> QED
          BY <1>1, <1>2, <1>4, <2>1 DEF Types, ConnTypes
  <1> QED
      BY <1>1, <1>2, <1>3, <1>4

\* Membership decides how a set of handlers changes.
LEMMA SetsChange ==
  ASSUME NEW S, NEW G \in [Proc -> SUBSET Conn],
         \A q \in Proc, d \in Conn : d \in G[q] <=> at'[d] = q /\ conn'[d] \in S
  PROVE  [p \in Proc |-> In(S, p)'] = G
  BY DEF In

\* The connection permits are a pool.
LEMMA SlotsStep ==
  ASSUME Types, Effect
  PROVE  PoolStep(Handling, Handling', slots, slots', MaxConnections)
  <1>a. Handling \in [Proc -> SUBSET Conn] /\ Handling = [p \in Proc |-> In(Running, p)]
      BY Sets DEF In
  <1>b. \A q \in Proc, d \in Conn : d \in Handling[q] <=> at[d] = q /\ conn[d] \in Running
      BY <1>a DEF In
  <1>c. ASSUME NEW G \in [Proc -> SUBSET Conn],
               \A q \in Proc, d \in Conn : d \in G[q] <=> at'[d] = q /\ conn'[d] \in Running
        PROVE  Handling' = G
      BY <1>c, SetsChange, SetsPrime
  <1>d. ASSUME slots' = slots,
               \A q \in Proc, d \in Conn : (at'[d] = q /\ conn'[d] \in Running)
                                              <=> (at[d] = q /\ conn[d] \in Running)
        PROVE  PoolStep(Handling, Handling', slots, slots', MaxConnections)
      <2>1. Handling' = Handling
          BY <1>a, <1>b, <1>c, <1>d
      <2> QED
          BY <1>d, <2>1 DEF PoolStep
  <1>e. Nobody \notin Proc
      BY DaemonAssumption DEF DaemonAssumption
  <1>f. ASSUME NEW p \in Proc, NEW c \in Conn, c \in Handling[p],
               slots' = [slots EXCEPT ![p] = @ + 1], at'[c] = Nobody,
               \A d \in Conn : d # c => at'[d] = at[d] /\ (conn'[d] \in Running <=> conn[d] \in Running)
        PROVE  PoolStep(Handling, Handling', slots, slots', MaxConnections)
      <2> DEFINE G == [Handling EXCEPT ![p] = @ \ {c}]
      <2>1. G \in [Proc -> SUBSET Conn]
          BY <1>a
      <2>2. \A q \in Proc, d \in Conn : d \in G[q] <=> at'[d] = q /\ conn'[d] \in Running
          BY <1>a, <1>b, <1>e, <1>f
      <2>3. Handling' = G
          BY <1>c, <2>1, <2>2
      <2> QED
          BY <1>f, <2>3 DEF PoolStep
  <1>1. CASE Handlerless
      BY <1>1, <1>d DEF Handlerless
  <1>2. ASSUME NEW p \in Proc, Gone(p)
        PROVE  PoolStep(Handling, Handling', slots, slots', MaxConnections)
      <2> DEFINE G == [Handling EXCEPT ![p] = {}]
      <2>1. G \in [Proc -> SUBSET Conn]
          BY <1>a
      <2>2. \A q \in Proc, d \in Conn : d \in G[q] <=> at'[d] = q /\ conn'[d] \in Running
          BY <1>2, <1>a, <1>b, <1>e DEF Gone
      <2>3. Handling' = G
          BY <1>c, <2>1, <2>2
      <2> QED
          BY <1>2, <2>3 DEF PoolStep, Gone
  <1>3. ASSUME NEW p \in Proc, DropListener(p)
        PROVE  PoolStep(Handling, Handling', slots, slots', MaxConnections)
      BY <1>3, <1>d, <1>e DEF DropListener, Running
  <1>4. ASSUME NEW p \in Proc, NEW c \in Conn, Accept(p, c)
        PROVE  PoolStep(Handling, Handling', slots, slots', MaxConnections)
      <2> DEFINE G == [Handling EXCEPT ![p] = @ \union {c}]
      <2>1. G \in [Proc -> SUBSET Conn]
          BY <1>a
      <2>2. Alone(c) /\ conn[c] = "backlog" /\ conn'[c] = "open" /\ at[c] = p /\ at'[c] = p
          BY <1>4, AloneSteps
      <2>3. \A q \in Proc, d \in Conn : d \in G[q] <=> at'[d] = q /\ conn'[d] \in Running
          BY <2>2, <1>a, <1>b DEF Alone, Running
      <2>4. Handling' = G
          BY <1>c, <2>1, <2>3
      <2>5. c \notin Handling[p]
          BY <1>b, <2>2 DEF Running
      <2> QED
          BY <1>4, <2>4, <2>5 DEF PoolStep, Accept
  <1>5. ASSUME NEW c \in Conn, Outside(c)
        PROVE  PoolStep(Handling, Handling', slots, slots', MaxConnections)
      <2>1. \A q \in Proc, d \in Conn : (at'[d] = q /\ conn'[d] \in Running)
                                          <=> (at[d] = q /\ conn[d] \in Running)
          BY <1>5 DEF Outside, Alone, Running
      <2> QED
          BY <1>5, <1>d, <2>1 DEF Outside
  <1>6. ASSUME NEW c \in Conn, Leaves(c)
        PROVE  PoolStep(Handling, Handling', slots, slots', MaxConnections)
      <2>1. Alone(c) /\ conn[c] \in Running /\ at'[c] = Nobody
          BY <1>6, AloneSteps DEF Running
      <2>2. at[c] \in Proc /\ c \in Handling[at[c]]
          BY <2>1, <1>b, Owned
      <2>3. slots' = [slots EXCEPT ![at[c]] = @ + 1]
          BY <1>6 DEF Leaves, Ends
      <2> QED
          BY <1>f, <2>1, <2>2, <2>3 DEF Alone
  <1>7. ASSUME NEW c \in Conn, Shifts(c) \/ Acquire(c) \/ Releases(c)
        PROVE  PoolStep(Handling, Handling', slots, slots', MaxConnections)
      <2>1. Alone(c) /\ at' = at /\ conn[c] \in Running /\ conn'[c] \in Running
          BY <1>7, AloneSteps DEF Running
      <2>2. slots' = slots
          BY <1>7 DEF Shifts, Greeted, Request, WakesUp, Acquire, Releases, Release
      <2> QED
          BY <1>d, <2>1, <2>2 DEF Alone
  <1>8. ASSUME NEW c \in Conn, Notify(c)
        PROVE  PoolStep(Handling, Handling', slots, slots', MaxConnections)
      <2>1. /\ at[c] \in Proc /\ conn[c] \in Running
            /\ \A d \in Conn : d # c => at'[d] = at[d]
            /\ \/ at'[c] = Nobody /\ conn'[c] = "none" /\ slots' = [slots EXCEPT ![at[c]] = @ + 1]
               \/ at'[c] = at[c] /\ conn'[c] = "idle" /\ slots' = slots
          BY <1>8, NotifyIs DEF Running
      <2>2. \A d \in Conn : d # c => (conn'[d] \in Running <=> conn[d] \in Running)
          BY <1>8, NotifyIs DEF Asleep, Running
      <2>3. c \in Handling[at[c]]
          BY <2>1, <1>b
      <2>4. CASE at'[c] = Nobody /\ conn'[c] = "none" /\ slots' = [slots EXCEPT ![at[c]] = @ + 1]
          <3>1. \A d \in Conn : d # c => at'[d] = at[d] /\ (conn'[d] \in Running <=> conn[d] \in Running)
              BY <2>1, <2>2
          <3>2. at[c] \in Proc
              BY <2>1
          <3> HIDE DEF Handling
          <3> QED
              BY <1>f, <2>3, <2>4, <3>1, <3>2
      <2>5. CASE at'[c] = at[c] /\ conn'[c] = "idle" /\ slots' = slots
          <3>1. conn'[c] \in Running
              BY <2>5 DEF Running
          <3> QED
              BY <1>d, <2>1, <2>2, <2>5, <3>1
      <2> QED
          BY <2>1, <2>4, <2>5
  <1> QED
      BY <1>1, <1>2, <1>3, <1>4, <1>5, <1>6, <1>7, <1>8 DEF Effect

\* The query permits are a pool.
LEMMA PermitsStep ==
  ASSUME Types, Effect
  PROVE  PoolStep(Holding, Holding', permits, permits', MaxConcurrent)
  <1>a. Holding \in [Proc -> SUBSET Conn] /\ Holding = [p \in Proc |-> In({"serving"}, p)]
      BY Sets DEF In
  <1>b. \A q \in Proc, d \in Conn : d \in Holding[q] <=> at[d] = q /\ conn[d] = "serving"
      BY <1>a DEF In
  <1>c. ASSUME NEW G \in [Proc -> SUBSET Conn],
               \A q \in Proc, d \in Conn : d \in G[q] <=> at'[d] = q /\ conn'[d] = "serving"
        PROVE  Holding' = G
      <2>1. \A q \in Proc, d \in Conn : d \in G[q] <=> at'[d] = q /\ conn'[d] \in {"serving"}
          BY <1>c
      <2> QED
          BY <2>1, SetsChange, SetsPrime
  <1>d. ASSUME permits' = permits,
               \A q \in Proc, d \in Conn : (at'[d] = q /\ conn'[d] = "serving")
                                              <=> (at[d] = q /\ conn[d] = "serving")
        PROVE  PoolStep(Holding, Holding', permits, permits', MaxConcurrent)
      <2>1. Holding' = Holding
          BY <1>a, <1>b, <1>c, <1>d
      <2> QED
          BY <1>d, <2>1 DEF PoolStep
  <1>e. Nobody \notin Proc
      BY DaemonAssumption DEF DaemonAssumption
  <1>1. CASE Handlerless
      BY <1>1, <1>d DEF Handlerless
  <1>2. ASSUME NEW p \in Proc, Gone(p)
        PROVE  PoolStep(Holding, Holding', permits, permits', MaxConcurrent)
      <2> DEFINE G == [Holding EXCEPT ![p] = {}]
      <2>1. G \in [Proc -> SUBSET Conn]
          BY <1>a
      <2>2. \A q \in Proc, d \in Conn : d \in G[q] <=> at'[d] = q /\ conn'[d] = "serving"
          BY <1>2, <1>a, <1>b, <1>e DEF Gone
      <2>3. Holding' = G
          BY <1>c, <2>1, <2>2
      <2> QED
          BY <1>2, <2>3 DEF PoolStep, Gone
  <1>3. ASSUME NEW p \in Proc, DropListener(p)
        PROVE  PoolStep(Holding, Holding', permits, permits', MaxConcurrent)
      BY <1>3, <1>d, <1>e DEF DropListener
  <1>4. ASSUME NEW c \in Conn,
               \/ \E p \in Proc : Accept(p, c)
               \/ Outside(c) \/ Leaves(c) \/ Shifts(c)
        PROVE  PoolStep(Holding, Holding', permits, permits', MaxConcurrent)
      <2>1. Alone(c) /\ conn[c] # "serving" /\ conn'[c] # "serving"
          BY <1>4, AloneSteps DEF Outside
      <2>2. permits' = permits
          BY <1>4 DEF Accept, Outside, Leaves, Ends, Shifts, Greeted, Request, WakesUp
      <2> QED
          BY <1>d, <2>1, <2>2 DEF Alone
  <1>5. ASSUME NEW c \in Conn, Acquire(c)
        PROVE  PoolStep(Holding, Holding', permits, permits', MaxConcurrent)
      <2> DEFINE p == at[c]
                 G == [Holding EXCEPT ![p] = @ \union {c}]
      <2>1. Alone(c) /\ at' = at /\ conn[c] # "serving" /\ p \in Proc
          BY <1>5, AloneSteps, Owned DEF Acquire, Running
      <2>2. CASE permits[p] > 0 /\ permits' = [permits EXCEPT ![p] = @ - 1] /\ conn'[c] = "serving"
          <3>1. G \in [Proc -> SUBSET Conn]
              BY <1>a
          <3>2. \A q \in Proc, d \in Conn : d \in G[q] <=> at'[d] = q /\ conn'[d] = "serving"
              BY <2>1, <2>2, <1>a, <1>b DEF Alone
          <3>3. Holding' = G
              BY <1>c, <3>1, <3>2
          <3>4. c \notin Holding[p]
              BY <1>b, <2>1
          <3> QED
              BY <2>1, <2>2, <3>3, <3>4 DEF PoolStep
      <2>3. CASE permits' = permits /\ conn'[c] = "asleep"
          BY <1>d, <2>1, <2>3 DEF Alone
      <2>4. \/ permits[p] > 0 /\ permits' = [permits EXCEPT ![p] = @ - 1] /\ conn'[c] = "serving"
            \/ permits' = permits /\ conn'[c] = "asleep"
          BY <1>5 DEF Acquire, Types, ConnTypes
      <2> QED
          BY <2>2, <2>3, <2>4
  <1>6. ASSUME NEW c \in Conn, Releases(c)
        PROVE  PoolStep(Holding, Holding', permits, permits', MaxConcurrent)
      <2> DEFINE p == at[c]
                 G == [Holding EXCEPT ![p] = @ \ {c}]
      <2>1. Alone(c) /\ at' = at /\ conn[c] = "serving" /\ conn'[c] # "serving"
          BY <1>6, AloneSteps
      <2>2. p \in Proc /\ c \in Holding[p]
          BY <2>1, <1>b, Owned DEF Running
      <2>3. permits' = [permits EXCEPT ![p] = @ + 1]
          BY <1>6 DEF Releases, Release
      <2>4. G \in [Proc -> SUBSET Conn]
          BY <1>a
      <2>5. \A q \in Proc, d \in Conn : d \in G[q] <=> at'[d] = q /\ conn'[d] = "serving"
          BY <2>1, <1>a, <1>b DEF Alone
      <2>6. Holding' = G
          BY <1>c, <2>4, <2>5
      <2> QED
          BY <2>2, <2>3, <2>6 DEF PoolStep
  <1>7. ASSUME NEW c \in Conn, Notify(c)
        PROVE  PoolStep(Holding, Holding', permits, permits', MaxConcurrent)
      <2>1. /\ conn[c] # "serving" /\ conn'[c] # "serving" /\ permits' = permits
            /\ \A d \in Conn : d # c => at'[d] = at[d]
          BY <1>7, NotifyIs
      <2>2. \A d \in Conn : d # c => (conn'[d] = "serving" <=> conn[d] = "serving")
          BY <1>7, NotifyIs DEF Asleep
      <2> QED
          BY <1>d, <2>1, <2>2
  <1> QED
      BY <1>1, <1>2, <1>3, <1>4, <1>5, <1>6, <1>7 DEF Effect

-----------------------------------------------------------------------------
(* Wakeups                                                                  *)

\* Sets of handlers are finite.
LEMMA Finite ==
  ASSUME NEW S, NEW p PROVE IsFiniteSet(In(S, p)) /\ Cardinality(In(S, p)) \in Nat
  <1>1. In(S, p) \in SUBSET Conn
      BY DEF In
  <1> QED
      BY <1>1, DaemonAssumption, FS_Subset, FS_CardinalityType DEF DaemonAssumption

\* For every free permit someone stays awake while requests sleep.
LEMMA AwakeStep ==
  ASSUME Types, Awake, Effect PROVE Awake'
  <1> DEFINE wake == {"woken", "notify", "fail"}
  <1> SUFFICES ASSUME NEW q \in Proc, In({"asleep"}, q)' # {}
               PROVE  permits'[q] <= Cardinality(In(wake, q)')
      BY SetsPrime DEF Awake, Waking
  <1>a. /\ IsFiniteSet(In(wake, q)) /\ Cardinality(In(wake, q)) \in Nat /\ permits[q] \in Nat
        /\ In({"asleep"}, q) # {} => permits[q] <= Cardinality(In(wake, q))
      BY Finite, Sets DEF Awake, Waking, Types, ConnTypes
  <1>b. ASSUME permits'[q] = permits[q],
               \A d \in Conn : (at'[d] = q /\ conn'[d] \in wake) <=> (at[d] = q /\ conn[d] \in wake),
               In({"asleep"}, q) # {}
        PROVE  permits'[q] <= Cardinality(In(wake, q)')
      <2>1. In(wake, q)' = In(wake, q)
          BY <1>b DEF In
      <2> QED
          BY <1>a, <1>b, <2>1
  <1>c. Nobody \notin Proc
      BY DaemonAssumption DEF DaemonAssumption
  <1>1. CASE Handlerless
      BY <1>1, <1>b DEF Handlerless, In
  <1>2. ASSUME NEW p \in Proc, Gone(p) PROVE permits'[q] <= Cardinality(In(wake, q)')
      <2>1. q # p
          BY <1>2, <1>c DEF Gone, In
      <2>2. permits'[q] = permits[q]
          BY <1>2, <2>1 DEF Gone, Types, ConnTypes
      <2>3. \A d \in Conn : at'[d] = q <=> at[d] = q
          BY <1>2, <1>c, <2>1 DEF Gone
      <2>4. \A d \in Conn : at[d] = q => conn'[d] = conn[d]
          BY <1>2, <2>1 DEF Gone
      <2> QED
          BY <1>b, <2>2, <2>3, <2>4 DEF In
  <1>3. ASSUME NEW p \in Proc, DropListener(p) PROVE permits'[q] <= Cardinality(In(wake, q)')
      BY <1>3, <1>b, <1>c DEF DropListener, In
  <1>4. ASSUME NEW c \in Conn,
               \/ \E p \in Proc : Accept(p, c)
               \/ Outside(c) \/ Leaves(c) \/ Greeted(c) \/ Request(c)
        PROVE  permits'[q] <= Cardinality(In(wake, q)')
      <2>1. Alone(c) /\ conn[c] \notin wake \union {"asleep"} /\ conn'[c] \notin wake \union {"asleep"}
          <3>1. CASE Greeted(c) \/ Request(c)
              BY <3>1 DEF Greeted, Request, Step, Alone, Types, ConnTypes
          <3> QED
              BY <1>4, <3>1, AloneSteps DEF Outside
      <2>2. permits' = permits
          BY <1>4 DEF Accept, Outside, Leaves, Ends, Greeted, Request
      <2> QED
          BY <1>b, <2>1, <2>2 DEF Alone, In
  <1>5. ASSUME NEW c \in Conn, WakesUp(c) PROVE permits'[q] <= Cardinality(In(wake, q)')
      <2>1. Alone(c) /\ at' = at /\ conn[c] = "asleep" /\ conn'[c] = "woken" /\ permits' = permits
          BY <1>5 DEF WakesUp, Step, Alone, Types, ConnTypes
      <2>2. In({"asleep"}, q) # {}
          BY <2>1 DEF Alone, In
      <2>3. CASE at[c] = q
          <3>1. In(wake, q)' = In(wake, q) \union {c}
              BY <2>1, <2>3 DEF Alone, In
          <3>2. Cardinality(In(wake, q) \union {c}) >= Cardinality(In(wake, q))
              BY <1>a, FS_AddElement
          <3>3. Cardinality(In(wake, q) \union {c}) \in Nat
              BY <1>a, FS_AddElement, FS_CardinalityType
          <3> QED
              BY <1>a, <2>1, <2>2, <3>1, <3>2, <3>3
      <2>4. CASE at[c] # q
          BY <1>b, <2>1, <2>2, <2>4 DEF Alone
      <2> QED
          BY <2>3, <2>4
  <1>6. ASSUME NEW c \in Conn, Acquire(c) PROVE permits'[q] <= Cardinality(In(wake, q)')
      <2>1. /\ Alone(c) /\ at' = at /\ conn[c] \in {"want", "woken"} /\ at[c] \in Proc
            /\ \/ permits[at[c]] > 0 /\ permits' = [permits EXCEPT ![at[c]] = @ - 1] /\ conn'[c] = "serving"
               \/ permits[at[c]] = 0 /\ permits' = permits /\ conn'[c] = "asleep"
          BY <1>6, AloneSteps, Owned DEF Acquire, Running, Types, ConnTypes
      <2>2. CASE at[c] # q
          <3>1. permits'[q] = permits[q]
              BY <2>1, <2>2 DEF Types, ConnTypes
          <3> QED
              BY <1>b, <2>1, <2>2, <3>1 DEF Alone, In
      <2>3. CASE at[c] = q /\ conn'[c] = "serving"
          <3>1. In(wake, q)' = In(wake, q) \ {c} /\ In({"asleep"}, q) # {}
              BY <2>1, <2>3 DEF Alone, In
          <3>2. permits'[q] = permits[q] - 1
              BY <2>1, <2>3 DEF Types, ConnTypes
          <3>3. Cardinality(In(wake, q) \ {c}) >= Cardinality(In(wake, q)) - 1
              BY <1>a, FS_RemoveElement
          <3>4. Cardinality(In(wake, q) \ {c}) \in Nat
              BY <1>a, FS_RemoveElement, FS_CardinalityType
          <3> QED
              BY <1>a, <3>1, <3>2, <3>3, <3>4
      <2>4. CASE at[c] = q /\ conn'[c] = "asleep"
          <3>1. permits'[q] = 0
              BY <2>1, <2>4
          <3>3. In(wake, q)' = In(wake, q) \ {c}
              BY <2>1, <2>4 DEF Alone, In
          <3>2. Cardinality(In(wake, q) \ {c}) \in Nat
              BY <1>a, FS_RemoveElement, FS_CardinalityType
          <3> QED
              BY <3>1, <3>2, <3>3
      <2> QED
          BY <2>1, <2>2, <2>3, <2>4
  <1>7. ASSUME NEW c \in Conn, Releases(c) PROVE permits'[q] <= Cardinality(In(wake, q)')
      <2>1. /\ Alone(c) /\ at' = at /\ conn[c] = "serving" /\ conn'[c] \in {"notify", "fail"}
            /\ at[c] \in Proc /\ permits' = [permits EXCEPT ![at[c]] = @ + 1]
          BY <1>7, AloneSteps, Owned DEF Releases, Release, Running
      <2>2. In({"asleep"}, q) # {}
          BY <2>1 DEF Alone, In
      <2>3. CASE at[c] # q
          <3>1. permits'[q] = permits[q]
              BY <2>1, <2>3 DEF Types, ConnTypes
          <3> QED
              BY <1>b, <2>1, <2>2, <2>3, <3>1 DEF Alone
      <2>4. CASE at[c] = q
          <3>1. In(wake, q)' = In(wake, q) \union {c} /\ c \notin In(wake, q)
              BY <2>1, <2>4 DEF Alone, In
          <3>2. permits'[q] = permits[q] + 1
              BY <2>1, <2>4 DEF Types, ConnTypes
          <3>3. Cardinality(In(wake, q) \union {c}) = Cardinality(In(wake, q)) + 1
              BY <1>a, <3>1, FS_AddElement
          <3> QED
              <4>1. Cardinality(In(wake, q)') = Cardinality(In(wake, q)) + 1
                  BY <3>1, <3>3
              <4>2. permits[q] <= Cardinality(In(wake, q))
                  BY <1>a, <2>2
              <4> QED
                  BY <1>a, <3>2, <4>1, <4>2
      <2> QED
          BY <2>3, <2>4
  <1>8. ASSUME NEW c \in Conn, Notify(c) PROVE permits'[q] <= Cardinality(In(wake, q)')
      <2>1. /\ at[c] \in Proc /\ conn[c] \in {"notify", "fail"} /\ permits' = permits
            /\ \A d \in Conn : d # c => at'[d] = at[d]
            /\ conn'[c] \in {"none", "idle"} /\ at'[c] \in {Nobody, at[c]}
          BY <1>8, NotifyIs
      <2>2. CASE Asleep(at[c]) = {} /\ \A d \in Conn : d # c => conn'[d] = conn[d]
          <3>1. at[c] # q /\ In({"asleep"}, q) # {}
              BY <2>1, <2>2, Sets DEF In
          <3> QED
              BY <1>b, <1>c, <2>1, <2>2, <3>1
      <2>3. ASSUME NEW w \in Asleep(at[c]), w \in Conn, w # c, conn'[w] = "woken",
                   \A d \in Conn : d # c /\ d # w => conn'[d] = conn[d]
            PROVE  permits'[q] <= Cardinality(In(wake, q)')
          <3>1. at[w] = at[c] /\ conn[w] = "asleep" /\ at'[w] = at[c]
              BY <2>1, <2>3 DEF Asleep
          <3>2. In({"asleep"}, q) # {}
              BY <2>1, <2>3, <3>1 DEF In
          <3>3. CASE at[c] # q
              BY <1>b, <1>c, <2>1, <2>3, <3>1, <3>2, <3>3
          <3>4. CASE at[c] = q
              <4>1. /\ In(wake, q)' = (In(wake, q) \ {c}) \union {w}
                    /\ c \in In(wake, q) /\ w \notin In(wake, q)
                  BY <2>1, <2>3, <3>1, <3>4 DEF In
              <4>2. /\ IsFiniteSet(In(wake, q) \ {c})
                    /\ Cardinality(In(wake, q) \ {c}) = Cardinality(In(wake, q)) - 1
                  BY <1>a, <4>1, FS_RemoveElement
              <4>3. Cardinality((In(wake, q) \ {c}) \union {w}) = Cardinality(In(wake, q) \ {c}) + 1
                  BY <4>1, <4>2, FS_AddElement
              <4>4. Cardinality(In(wake, q)') = Cardinality(In(wake, q) \ {c}) + 1
                  BY <4>1, <4>3
              <4>5. permits[q] <= Cardinality(In(wake, q)) /\ permits'[q] = permits[q]
                  BY <1>a, <2>1, <3>2
              <4> QED
                  BY <1>a, <4>2, <4>4, <4>5
          <3> QED
              BY <3>3, <3>4
      <2> QED
          BY <1>8, <2>2, <2>3, NotifyIs
  <1> QED
      BY <1>1, <1>2, <1>3, <1>4, <1>5, <1>6, <1>7, <1>8 DEF Effect, Shifts

-----------------------------------------------------------------------------
(* The main and the signal threads                                          *)

\* What the main thread, its signals and the operating system do to process r.
MainStep(r) ==
  \/ Signalled(r) \/ StartUp(r) \/ Wake(r) \/ Draining(r) \/ AcceptWake(r) \/ AcceptError(r)
  \/ \E c \in Conn : AcceptDraining(r, c)

\* The other steps leave the main threads alone.
LEMMA MainSteps ==
  ASSUME [Next]_vars PROVE (\E r \in Proc : MainStep(r)) \/ Mainless
  <1>1. CASE UNCHANGED vars
      BY <1>1 DEF vars, Mainless
  <1>2. ASSUME NEW c \in Conn, Connect(c) \/ Handler(c) PROVE Mainless
      BY <1>2 DEF Connect, Handler, Greeted, Quits, Request, Unknown, Acquire, WakesUp, Release,
                  Notify, Ends
  <1>3. ASSUME NEW r \in Proc, NEW c \in Conn, Accept(r, c) \/ Refuse(r, c) PROVE Mainless
      BY <1>3 DEF Accept, Refuse
  <1> QED
      BY <1>1, <1>2, <1>3 DEF Next, MainStep, Accepting

\* A step of process r moves the phase of r alone: under the daemon lock unless it
\* just took it, and out of `serve` only at the end of the grace.
LEMMA PhasesMove ==
  ASSUME Types, NEW r \in Proc, MainStep(r)
  PROVE  /\ MainTypes' /\ worktree' = worktree
         /\ \A p \in Proc : p # r => phase'[p] = phase[p] /\ expired'[p] = expired[p]
         /\ HasDaemonLock(r)' => HasDaemonLock(r) \/ Start(r)
         /\ phase'[r] = "returned" =>
              GraceOver(r) \/ (phase[r] = "returned" /\ expired'[r] = expired[r])
         /\ path' # path => HasDaemonLock(r) /\ phase'[r] # phase[r]
  <1> USE DEF Types, MainTypes, Phase, HasDaemonLock
  <1>a. ASSUME Gone(r), path' = path \/ path' = Nobody, phase[r] = "published" \/ path' = path
        PROVE  /\ MainTypes' /\ worktree' = worktree
               /\ \A p \in Proc : p # r => phase'[p] = phase[p] /\ expired'[p] = expired[p]
               /\ phase'[r] = "down"
               /\ path' # path => HasDaemonLock(r) /\ phase'[r] # phase[r]
      BY <1>a DEF Gone, Goto
  <1>b. ASSUME NEW x \in Phase, Goto(r, x)
        PROVE  /\ phase' \in [Proc -> Phase] /\ phase'[r] = x
               /\ \A p \in Proc : p # r => phase'[p] = phase[p]
      BY <1>b DEF Goto
  <1>1. CASE RegisterFails(r) \/ Killed(r) \/ SecondSigterm(r) \/ Exit(r)
      BY <1>1, <1>a DEF RegisterFails, Killed, SecondSigterm, Exit
  <1>2. CASE Start(r)
      BY <1>2, <1>b DEF Start
  <1>3. CASE Probe(r)
      BY <1>3, <1>b DEF Probe
  <1>4. CASE RemoveStale(r)
      BY <1>4, <1>b DEF RemoveStale
  <1>5. CASE Publish(r)
      BY <1>5, <1>b DEF Publish
  <1>6. CASE Register(r)
      BY <1>6, <1>b DEF Register
  <1>7. CASE Sigterm(r)
      BY <1>7 DEF Sigterm
  <1>8. CASE Wake(r)
      <2>1. wakes' \in [Proc -> BOOLEAN]
          BY <1>8 DEF Wake
      <2>2. signals' \in [Proc -> {"none", "wait", "wake"}]
          BY <1>8 DEF Wake
      <2>3. UNCHANGED <<worktree, phase, path, draining, expired>>
          BY <1>8 DEF Wake
      <2> QED
          BY <2>1, <2>2, <2>3
  <1>c. ASSUME phase[r] = "accept", wakes' = wakes \/ wakes' = [wakes EXCEPT ![r] = FALSE],
               LeaveLoop(r) \/ StayInLoop(r)
        PROVE  /\ MainTypes' /\ worktree' = worktree /\ path' = path
               /\ \A p \in Proc : p # r => phase'[p] = phase[p] /\ expired'[p] = expired[p]
               /\ phase'[r] \in {"accept", "drain"}
      <2>1. wakes' \in [Proc -> BOOLEAN]
          BY <1>c
      <2>2. CASE LeaveLoop(r)
          BY <2>1, <2>2, <1>b DEF LeaveLoop
      <2>3. CASE StayInLoop(r)
          BY <1>c, <2>1, <2>3 DEF StayInLoop
      <2> QED
          BY <1>c, <2>2, <2>3
  <1>9. CASE AcceptWake(r)
      BY <1>9, <1>c DEF AcceptWake
  <1>10. CASE AcceptError(r)
      BY <1>10, <1>c DEF AcceptError, Lost
  <1>11. ASSUME NEW c \in Conn, AcceptDraining(r, c)
         PROVE  /\ MainTypes' /\ worktree' = worktree /\ path' = path
                /\ \A p \in Proc : p # r => phase'[p] = phase[p] /\ expired'[p] = expired[p]
                /\ phase[r] = "accept" /\ phase'[r] \in {"accept", "drain"}
      BY <1>11, <1>c DEF AcceptDraining, InBacklog
  <1>12. CASE Unlink(r)
      BY <1>12, <1>b DEF Unlink
  <1>13. CASE DropListener(r)
      BY <1>13, <1>b DEF DropListener
  <1>14. CASE GraceOver(r)
      <2>1. expired' \in [Proc -> BOOLEAN] /\ \A p \in Proc : p # r => expired'[p] = expired[p]
          BY <1>14 DEF GraceOver
      <2> QED
          BY <1>14, <1>b, <2>1 DEF GraceOver
  <1>15. CASE \E c \in Conn : AcceptDraining(r, c)
      BY <1>11, <1>15
  <1> QED
      BY <1>1, <1>2, <1>3, <1>4, <1>5, <1>6, <1>7, <1>8, <1>9, <1>10, <1>12, <1>13, <1>14, <1>15
      DEF MainStep, Signalled, StartUp, Draining

\* The types are kept.
LEMMA TypesStep ==
  ASSUME Types, [Next]_vars PROVE Types'
  <1>1. ConnTypes'
      BY Effects, ConnTypesStep
  <1>2. MainTypes'
      <2>1. CASE Mainless
          BY <2>1 DEF Mainless, Types, MainTypes
      <2> QED
          BY <2>1, MainSteps, PhasesMove
  <1> QED
      BY <1>1, <1>2 DEF Types

\* The daemon lock keeps a second daemon of the worktree out.
LEMMA OneDaemonStep ==
  ASSUME Types, OneDaemon, [Next]_vars PROVE OneDaemon'
  <1>1. CASE Mainless
      BY <1>1 DEF Mainless, OneDaemon, HasDaemonLock
  <1>2. ASSUME NEW r \in Proc, MainStep(r) PROVE OneDaemon'
      <2>1. /\ worktree' = worktree
            /\ \A p \in Proc : p # r => (HasDaemonLock(p)' <=> HasDaemonLock(p))
            /\ HasDaemonLock(r)' => HasDaemonLock(r) \/ Start(r)
          BY <1>2, PhasesMove DEF HasDaemonLock
      <2>2. CASE Start(r)
          <3>1. \A q \in Proc : worktree[q] = worktree[r] => ~HasDaemonLock(q)
              BY <2>2 DEF Start
          <3> QED
              BY <2>1, <3>1 DEF OneDaemon
      <2>3. CASE ~Start(r)
          <3>1. \A p \in Proc : HasDaemonLock(p)' => HasDaemonLock(p)
              BY <2>1, <2>3
          <3> QED
              BY <2>1, <3>1 DEF OneDaemon
      <2> QED
          BY <2>2, <2>3
  <1> QED
      BY <1>1, <1>2, MainSteps

\* A handler is only added by the accept loop.
LEMMA HandlersGrow ==
  ASSUME Types, Effect, NEW p \in Proc, phase[p] # "accept"
  PROVE  Handlers(p)' \subseteq Handlers(p)
  <1> SUFFICES ASSUME NEW d \in Conn, at'[d] = p, conn'[d] \in Running
               PROVE  at[d] = p /\ conn[d] \in Running
      BY DEF Handlers
  <1>a. Nobody # p
      BY DaemonAssumption DEF DaemonAssumption
  <1>1. CASE Handlerless
      BY <1>1 DEF Handlerless
  <1>2. ASSUME NEW r \in Proc, Gone(r) PROVE at[d] = p /\ conn[d] \in Running
      BY <1>2, <1>a DEF Gone, Running
  <1>3. ASSUME NEW r \in Proc, DropListener(r) PROVE at[d] = p /\ conn[d] \in Running
      BY <1>3, <1>a DEF DropListener, Running
  <1>4. ASSUME NEW r \in Proc, NEW c \in Conn, Accept(r, c) PROVE at[d] = p /\ conn[d] \in Running
      <2>1. Alone(c) /\ at'[c] = r /\ r # p
          BY <1>4, AloneSteps DEF Accept, InBacklog
      <2> QED
          BY <2>1 DEF Alone
  <1>5. ASSUME NEW c \in Conn, Outside(c) \/ Leaves(c) PROVE at[d] = p /\ conn[d] \in Running
      <2>1. Alone(c) /\ conn'[c] \notin Running
          BY <1>5, AloneSteps DEF Outside, Running
      <2> QED
          BY <2>1 DEF Alone
  <1>6. ASSUME NEW c \in Conn, Shifts(c) \/ Acquire(c) \/ Releases(c)
        PROVE  at[d] = p /\ conn[d] \in Running
      <2>1. Alone(c) /\ at' = at /\ conn[c] \in Running
          BY <1>6, AloneSteps DEF Running
      <2> QED
          BY <2>1 DEF Alone
  <1>7. ASSUME NEW c \in Conn, Notify(c) PROVE at[d] = p /\ conn[d] \in Running
      <2>1. at'[d] \in {Nobody, at[d]}
          BY <1>7, NotifyIs
      <2>2. conn[c] \in Running
          BY <1>7, NotifyIs DEF Running
      <2>3. d # c => conn[d] \in Running
          BY <1>7, NotifyIs DEF Asleep, Running
      <2> QED
          BY <1>a, <2>1, <2>2, <2>3
  <1> QED
      BY <1>1, <1>2, <1>3, <1>4, <1>5, <1>6, <1>7 DEF Effect

\* A drain that did not run out of its grace left no handler, and none comes back.
LEMMA DrainStep ==
  ASSUME Types, DrainWaits, Conserved(Handling, slots, MaxConnections), [Next]_vars
  PROVE  DrainWaits'
  <1> SUFFICES ASSUME NEW p \in Proc, phase'[p] = "returned", ~expired'[p]
               PROVE  Handlers(p)' = {}
      BY DEF DrainWaits
  <1>1. CASE phase[p] = "returned" /\ expired'[p] = expired[p]
      <2>1. Handlers(p) = {}
          BY <1>1 DEF DrainWaits
      <2> QED
          BY <1>1, <2>1, Effects, HandlersGrow
  <1>2. CASE GraceOver(p)
      <2>1. expired'[p] = (MaxConnections - slots[p] # 0) /\ UNCHANGED <<at, conn>>
          BY <1>2 DEF GraceOver, Types, MainTypes, Handlerless
      <2>7. MaxConnections - slots[p] = 0
          BY <2>1
      <2>8. slots[p] \in Nat /\ MaxConnections \in Nat
          BY DaemonAssumption DEF DaemonAssumption, Types, ConnTypes
      <2>2. slots[p] = MaxConnections
          BY <2>7, <2>8
      <2>3. slots[p] + Cardinality(Handlers(p)) = MaxConnections
          BY DEF Conserved, Handling
      <2>4. IsFiniteSet(Handlers(p)) /\ Cardinality(Handlers(p)) \in Nat
          BY Finite DEF Handlers, In
      <2>5. Cardinality(Handlers(p)) = 0
          BY <2>2, <2>3, <2>4, <2>8
      <2>6. Handlers(p) = {}
          BY <2>4, <2>5, FS_EmptySet
      <2> QED
          BY <2>1, <2>6 DEF Handlers
  <1>3. CASE Mainless
      BY <1>1, <1>3 DEF Mainless
  <1>4. ASSUME NEW r \in Proc, MainStep(r)
        PROVE  GraceOver(p) \/ (phase[p] = "returned" /\ expired'[p] = expired[p])
      BY <1>4, PhasesMove
  <1> QED
      BY <1>1, <1>2, <1>3, <1>4, MainSteps

-----------------------------------------------------------------------------
(* The theorems                                                             *)

\* The invariant holds initially.
LEMMA Initially ==
  ASSUME Init PROVE Inv
  <1>1. Types
      BY DaemonAssumption
      DEF Init, DaemonAssumption, Types, MainTypes, ConnTypes, Phase
  <1>2. OneDaemon /\ DrainWaits
      BY DEF Init, OneDaemon, HasDaemonLock, DrainWaits
  <1>3. \A p \in Proc : Handlers(p) = {} /\ Serving(p) = {} /\ Asleep(p) = {}
      BY DaemonAssumption DEF DaemonAssumption, Init, Handlers, Serving, Asleep
  <1>4. Awake
      BY <1>3 DEF Awake
  <1>5. Conserved(Handling, slots, MaxConnections) /\ Conserved(Holding, permits, MaxConcurrent)
      <2>1. \A p \in Proc : /\ slots[p] = MaxConnections /\ permits[p] = MaxConcurrent
                            /\ Handling[p] = {} /\ Holding[p] = {}
          BY <1>3 DEF Init, Handling, Holding
      <2>2. MaxConnections + 0 = MaxConnections /\ MaxConcurrent + 0 = MaxConcurrent
          BY DaemonAssumption DEF DaemonAssumption
      <2> QED
          BY <2>1, <2>2, FS_EmptySet DEF Conserved
  <1> QED
      BY <1>1, <1>2, <1>4, <1>5 DEF Inv

\* Every step keeps the invariant, and is a step of both pools.
LEMMA Inductive ==
  ASSUME Inv, [Next]_vars PROVE Inv'
  <1>1. Types /\ Effect
      BY Effects DEF Inv
  <1>2. Types' /\ OneDaemon' /\ Awake' /\ DrainWaits'
      BY <1>1, TypesStep, OneDaemonStep, AwakeStep, DrainStep DEF Inv
  <1>3. Handling \in [Proc -> SUBSET Conn] /\ Holding \in [Proc -> SUBSET Conn]
      BY DEF Handling, Holding, Handlers, Serving
  <1>4. slots \in [Proc -> Nat] /\ permits \in [Proc -> Nat]
        /\ MaxConnections \in Nat /\ MaxConcurrent \in Nat
      BY <1>1, DaemonAssumption DEF DaemonAssumption, Types, ConnTypes
  <1>5. Conserved(Handling', slots', MaxConnections)
      BY <1>1, <1>3, <1>4, SlotsStep, PoolConserved DEF Inv
  <1>6. Conserved(Holding', permits', MaxConcurrent)
      BY <1>1, <1>3, <1>4, PermitsStep, PoolConserved DEF Inv
  <1>7. Conserved(Handling, slots, MaxConnections)' /\ Conserved(Holding, permits, MaxConcurrent)'
      BY <1>5, <1>6 DEF Conserved
  <1> QED
      BY <1>2, <1>7 DEF Inv

\* The invariant holds in every reachable state.
LEMMA Invariance == Spec => []Inv
  <1>1. Init => Inv
      BY Initially
  <1>2. Inv /\ [Next]_vars => Inv'
      BY Inductive
  <1> QED
      BY <1>1, <1>2, PTL DEF Spec

\* Semaphore (serve.rs): no request sleeps beside a free query permit that nobody is
\* about to take or to announce, whatever wakes for no reason, fails or is killed.
THEOREM WakeupsArrive == Spec => []NoLostWakeup
  <1>1. Inv => NoLostWakeup
      <2> SUFFICES ASSUME Inv, NEW p \in Proc, permits[p] > 0, Asleep(p) # {}
                   PROVE  \E c \in Conn : at[c] = p /\ conn[c] \in {"want", "woken", "notify", "fail"}
          BY DEF NoLostWakeup
      <2>1. permits[p] <= Cardinality(Waking(p)) /\ permits[p] \in Nat
          BY DEF Inv, Awake, Types, ConnTypes
      <2>2. IsFiniteSet(Waking(p)) /\ Cardinality(Waking(p)) \in Nat
          BY Finite DEF Waking
      <2>3. Cardinality(Waking(p)) # 0
          BY <2>1, <2>2
      <2>4. Waking(p) # {}
          BY <2>3, FS_EmptySet
      <2> QED
          BY <2>4 DEF Waking, In
  <1> QED
      BY <1>1, Invariance, PTL

\* The drain of `serve`: it returns before its grace is over only when no handler runs,
\* and the count of free connection permits is enough to know that.
THEOREM DrainsWait == Spec => []DrainWaits
  <1>1. Inv => DrainWaits
      BY DEF Inv
  <1> QED
      BY <1>1, Invariance, PTL

\* DaemonLock: no step takes the socket path from a live daemon unless a daemon of
\* another worktree does.
THEOREM LiveSocketStays == Spec => LiveSocketKept
  <1>1. Inv /\ [Next]_vars =>
          [\A p \in Proc : path = p /\ Listening(p) /\ path' # p /\ phase'[p] = phase[p] =>
             \E q \in Proc : worktree[q] # worktree[p] /\ phase'[q] # phase[q]]_vars
      <2> SUFFICES ASSUME Inv, [Next]_vars, NEW p \in Proc,
                          path = p, Listening(p), path' # p, phase'[p] = phase[p]
                   PROVE  \E q \in Proc : worktree[q] # worktree[p] /\ phase'[q] # phase[q]
          OBVIOUS
      <2>1. ~Mainless
          BY DEF Mainless
      <2>2. PICK q \in Proc : MainStep(q)
          BY <2>1, MainSteps
      <2>3. HasDaemonLock(q) /\ phase'[q] # phase[q]
          BY <2>2, PhasesMove DEF Inv
      <2>4. HasDaemonLock(p) /\ q # p
          BY <2>3 DEF Listening, HasDaemonLock
      <2>5. worktree[q] # worktree[p]
          BY <2>3, <2>4 DEF Inv, OneDaemon
      <2> QED
          BY <2>3, <2>5
  <1> QED
      BY <1>1, Invariance, PTL DEF Spec, LiveSocketKept

\* A step of PermitPool, or none.
PoolMoves(h, g, max) ==
  \/ g = h
  \/ \E o \in Proc : g = [h EXCEPT ![o] = {}]
  \/ \E o \in Proc, c \in Conn :
       /\ c \notin h[o] /\ Cardinality(h[o]) < max
       /\ g = [h EXCEPT ![o] = @ \union {c}]
  \/ \E o \in Proc, c \in Conn : c \in h[o] /\ g = [h EXCEPT ![o] = @ \ {c}]

\* A pool's step is a step of PermitPool.
LEMMA PoolNext ==
  ASSUME NEW h \in [Proc -> SUBSET Conn], NEW g, NEW free \in [Proc -> Nat], NEW next,
         NEW max \in Nat, Conserved(h, free, max), PoolStep(h, g, free, next, max)
  PROVE  PoolMoves(h, g, max)
  <1>1. \A o \in Proc : free[o] > 0 => Cardinality(h[o]) < max
      BY PoolBounded
  <1> QED
      BY <1>1 DEF PoolStep, PoolMoves

\* The instances count as this module does.
LEMMA SameCount ==
  ASSUME NEW S
  PROVE  QueryPool!Cardinality(S) = Cardinality(S) /\ SlotPool!Cardinality(S) = Cardinality(S)
  BY DEF QueryPool!Cardinality, SlotPool!Cardinality, Cardinality

\* The two semaphores implement pools of --max-concurrent query permits and of
\* MAX_CONNECTIONS connection permits (PermitPool): what try_acquire, acquire, Permit's
\* drop, notify_one and the end of a process do is handing out below the limit, taking
\* back, or ending the pool.
THEOREM SemaphoresArePools == Spec => PermitsArePools
  <1>1. Init => QueryPool!Init /\ SlotPool!Init
      BY DaemonAssumption
      DEF DaemonAssumption, Init, QueryPool!Init, SlotPool!Init, Serving, Handlers
  <1>2. ASSUME Inv, [Next]_vars
        PROVE  /\ PoolStep(Handling, Handling', slots, slots', MaxConnections)
               /\ PoolStep(Holding, Holding', permits, permits', MaxConcurrent)
               /\ Handling \in [Proc -> SUBSET Conn] /\ Holding \in [Proc -> SUBSET Conn]
               /\ slots \in [Proc -> Nat] /\ permits \in [Proc -> Nat]
               /\ MaxConnections \in Nat /\ MaxConcurrent \in Nat
      <2>1. Types /\ Effect
          BY <1>2, Effects DEF Inv
      <2> QED
          BY <2>1, SlotsStep, PermitsStep, DaemonAssumption
          DEF DaemonAssumption, Types, ConnTypes, Handling, Holding, Handlers, Serving
  <1>3. Inv /\ [Next]_vars => [QueryPool!Next]_([p \in Proc |-> Serving(p)])
      <2> SUFFICES ASSUME Inv, [Next]_vars
                   PROVE  QueryPool!Next \/ [p \in Proc |-> Serving(p)]' = [p \in Proc |-> Serving(p)]
          OBVIOUS
      <2>1. Conserved(Holding, permits, MaxConcurrent)
          BY DEF Inv
      <2>2. PoolMoves(Holding, Holding', MaxConcurrent)
          BY <1>2, <2>1, PoolNext
      <2>3. CASE Holding' = Holding
          BY <2>3 DEF Holding
      <2>4. ASSUME NEW o \in Proc, Holding' = [Holding EXCEPT ![o] = {}] PROVE QueryPool!Next
          BY <2>4 DEF QueryPool!Next, QueryPool!Ends, Holding
      <2>5. ASSUME NEW o \in Proc, NEW c \in Conn, c \notin Holding[o], Cardinality(Holding[o]) < MaxConcurrent,
                   Holding' = [Holding EXCEPT ![o] = @ \union {c}]
            PROVE  QueryPool!Next
          <3>1. QueryPool!Cardinality(Holding[o]) = Cardinality(Holding[o])
              BY SameCount
          <3>2. QueryPool!Acquire(o, c)
              BY <2>5, <3>1 DEF QueryPool!Acquire, Holding
          <3> QED
              BY <3>2 DEF QueryPool!Next
      <2>6. ASSUME NEW o \in Proc, NEW c \in Conn, c \in Holding[o], Holding' = [Holding EXCEPT ![o] = @ \ {c}]
            PROVE  QueryPool!Next
          BY <2>6 DEF QueryPool!Next, QueryPool!Release, Holding
      <2> QED
          BY <2>2, <2>3, <2>4, <2>5, <2>6 DEF PoolMoves
  <1>4. Inv /\ [Next]_vars => [SlotPool!Next]_([p \in Proc |-> Handlers(p)])
      <2> SUFFICES ASSUME Inv, [Next]_vars
                   PROVE  SlotPool!Next \/ [p \in Proc |-> Handlers(p)]' = [p \in Proc |-> Handlers(p)]
          OBVIOUS
      <2>1. Conserved(Handling, slots, MaxConnections)
          BY DEF Inv
      <2>2. PoolMoves(Handling, Handling', MaxConnections)
          BY <1>2, <2>1, PoolNext
      <2>3. CASE Handling' = Handling
          BY <2>3 DEF Handling
      <2>4. ASSUME NEW o \in Proc, Handling' = [Handling EXCEPT ![o] = {}] PROVE SlotPool!Next
          BY <2>4 DEF SlotPool!Next, SlotPool!Ends, Handling
      <2>5. ASSUME NEW o \in Proc, NEW c \in Conn, c \notin Handling[o], Cardinality(Handling[o]) < MaxConnections,
                   Handling' = [Handling EXCEPT ![o] = @ \union {c}]
            PROVE  SlotPool!Next
          <3>1. SlotPool!Cardinality(Handling[o]) = Cardinality(Handling[o])
              BY SameCount
          <3>2. SlotPool!Acquire(o, c)
              BY <2>5, <3>1 DEF SlotPool!Acquire, Handling
          <3> QED
              BY <3>2 DEF SlotPool!Next
      <2>6. ASSUME NEW o \in Proc, NEW c \in Conn, c \in Handling[o], Handling' = [Handling EXCEPT ![o] = @ \ {c}]
            PROVE  SlotPool!Next
          BY <2>6 DEF SlotPool!Next, SlotPool!Release, Handling
      <2> QED
          BY <2>2, <2>3, <2>4, <2>5, <2>6 DEF PoolMoves
  <1> QED
      BY <1>1, <1>3, <1>4, Invariance, PTL DEF Spec, PermitsArePools, QueryPool!Spec, SlotPool!Spec
=============================================================================
