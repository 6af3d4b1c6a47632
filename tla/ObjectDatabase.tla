--------------------------- MODULE ObjectDatabase ---------------------------
(***************************************************************************)
(* What the object store promises every layer above it: a content-addressed *)
(* set of objects that only grows, and a lookup that never denies an object *)
(* which was stored when it began.  ObjectStore, with its loose files,      *)
(* packs, indexes, prunes and crashes, implements this specification.       *)
(***************************************************************************)
CONSTANTS Objects, NoAnswer

VARIABLES
  stored,     \* the objects the database holds
  asked,      \* the object a reader is looking up, or NoAnswer
  answer      \* "found", "missing", or NoAnswer while the lookup runs

vars == <<stored, asked, answer>>

Init ==
  /\ stored \in SUBSET Objects
  /\ asked = NoAnswer
  /\ answer = NoAnswer

Put ==
  /\ \E o \in Objects : stored' = stored \cup {o}
  /\ UNCHANGED <<asked, answer>>

Ask ==
  /\ asked' \in stored
  /\ answer' = NoAnswer
  /\ UNCHANGED stored

Answer ==
  /\ asked \in stored
  /\ answer' = "found"
  /\ UNCHANGED <<stored, asked>>

Forget ==
  /\ asked' = NoAnswer
  /\ answer' = NoAnswer
  /\ UNCHANGED stored

Next == Put \/ Ask \/ Answer \/ Forget

Spec == Init /\ [][Next]_vars
=============================================================================
