----------------------------- MODULE PermitPool -----------------------------
(***************************************************************************)
(* What the semaphores promise: each owner's has at most `Permits` holders, *)
(* who come and go one at a time, until the owner ends and they with it.    *)
(***************************************************************************)
EXTENDS Naturals, FiniteSets

CONSTANTS Owner, Holder, Permits
VARIABLE holders

Init == holders = [o \in Owner |-> {}]

Acquire(o, h) ==
  /\ h \notin holders[o] /\ Cardinality(holders[o]) < Permits
  /\ holders' = [holders EXCEPT ![o] = @ \union {h}]

Release(o, h) == h \in holders[o] /\ holders' = [holders EXCEPT ![o] = @ \ {h}]

Ends(o) == holders' = [holders EXCEPT ![o] = {}]

Next == \E o \in Owner : Ends(o) \/ \E h \in Holder : Acquire(o, h) \/ Release(o, h)

Spec == Init /\ [][Next]_holders
=============================================================================
