------------------------------- MODULE RefStore -------------------------------
(***************************************************************************)
(* Ref updates in acetone-store: every update is a set of swings            *)
(* (compare-and-swap steps) applied under the one lock file                 *)
(* <common_dir>/acetone-refs.lock.  write_ref and delete_ref are one swing, *)
(* write_refs_atomic several; a process that is killed leaves the lock, and *)
(* may leave a batch half applied.                                          *)
(*                                                                          *)
(* The clients (modules that extend this one) call Submit and read          *)
(* call[p].result; the caller blocks meanwhile.                             *)
(***************************************************************************)
EXTENDS Naturals, FiniteSets

CONSTANTS
  Procs,        \* processes that update refs
  RefNames,
  None          \* no ref, no value, no lock

VARIABLES
  refs,         \* [RefNames -> a value or None]
  refsLock,     \* the process that created acetone-refs.lock, or None
  call          \* each process's update in progress and its last result

refVars == <<refs, refsLock, call>>

Swing(r, expected, new) == [name |-> r, expected |-> expected, new |-> new]

NoCall == [pc |-> "none", todo |-> {}, swings |-> {}, result |-> None]

RefInit(initial) ==
  /\ refs = initial
  /\ refsLock = None
  /\ call = [p \in Procs |-> NoCall]

(* The entry of an update; an empty batch returns at once. *)
Submit(p, swings) ==
  /\ call[p].pc = "none"
  /\ call' = [call EXCEPT ![p] =
        IF swings = {} THEN [NoCall EXCEPT !.result = "ok"]
        ELSE [pc |-> "lock", todo |-> swings, swings |-> swings, result |-> None]]

(* delete_ref reads the ref before it takes the lock, and deletes only the  *)
(* value it read; an absent ref is nothing to delete.                       *)
DeleteSwings(r) == IF refs[r] = None THEN {} ELSE {Swing(r, refs[r], None)}

Return(p, result) == [call EXCEPT ![p] = [NoCall EXCEPT !.result = result]]

(* Mutant: the lock file is not created exclusively. *)
AcquireShared(p) ==
  /\ call[p].pc = "lock"
  /\ refsLock' = p
  /\ call' = [call EXCEPT ![p].pc = "check"]
  /\ UNCHANGED refs

AcquireRefs(p) ==
  /\ call[p].pc = "lock"
  /\ refsLock = None
  /\ refsLock' = p
  /\ call' = [call EXCEPT ![p].pc = "check"]
  /\ UNCHANGED refs

(* Marker::acquire_to_hold_resource gives up after its five seconds. *)
LockTimeout(p) ==
  /\ call[p].pc = "lock"
  /\ refsLock /= None
  /\ call' = Return(p, "backend")
  /\ UNCHANGED <<refs, refsLock>>

Holds(s) == refs[s.name] = s.expected

(* Every precondition (the create check and gix's prepare) before any move. *)
CheckSwings(p) ==
  /\ call[p].pc = "check"
  /\ IF \A s \in call[p].todo : Holds(s)
     THEN /\ call' = [call EXCEPT ![p].pc = "apply"]
          /\ UNCHANGED refsLock
     ELSE /\ call' = Return(p, "cas")
          /\ refsLock' = None
  /\ UNCHANGED refs

(* gix commits a prepared transaction one ref file at a time. *)
ApplySwing(p) ==
  /\ call[p].pc = "apply"
  /\ \E s \in call[p].todo :
       /\ refs' = [refs EXCEPT ![s.name] = s.new]
       /\ call' = [call EXCEPT ![p].todo = @ \ {s}]
  /\ UNCHANGED refsLock

ReleaseRefs(p) ==
  /\ call[p].pc = "apply" /\ call[p].todo = {}
  /\ refsLock' = None
  /\ call' = Return(p, "ok")
  /\ UNCHANGED refs

RefStep(p) ==
  \/ AcquireRefs(p) \/ LockTimeout(p) \/ CheckSwings(p)
  \/ (call[p].todo /= {} /\ ApplySwing(p)) \/ ReleaseRefs(p)

(* A killed process: its lock file, and the part of a batch it had applied, *)
(* stay behind.                                                             *)
KillCall(p) ==
  /\ call' = [call EXCEPT ![p] = NoCall]
  /\ UNCHANGED <<refs, refsLock>>

(* The operator deletes a lock whose process is gone. *)
ClearRefsLock ==
  /\ refsLock /= None
  /\ call[refsLock].pc = "none"
  /\ refsLock' = None
  /\ UNCHANGED <<refs, call>>

-----------------------------------------------------------------------------
(* Properties of every client *)

(* At most one process is between its check and its release. *)
OneUpdater ==
  \A p, q \in Procs :
     call[p].pc \in {"check", "apply"} /\ call[q].pc \in {"check", "apply"} => p = q

(* The compare-and-swap contract: whoever else updates refs meanwhile, a     *)
(* swing that is still to be applied once its batch was checked finds its    *)
(* ref at the expected value, so applying it discards nobody's update.       *)
CheckedSwingsHold ==
  \A p \in Procs : call[p].pc = "apply" => \A s \in call[p].todo : Holds(s)
=============================================================================
