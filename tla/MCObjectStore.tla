--------------------------- MODULE MCObjectStore ---------------------------
(* A commit sharing a blob with a co-tenant code commit. *)
EXTENDS ObjectStore

CONSTANTS b, c, f, main, code

MCObjects == {b, c, f}
MCKids == [o \in MCObjects |->
             IF o = b THEN {} ELSE {b}]
MCTargets == [r \in {main, code} |-> IF r = main THEN {c} ELSE {f}]
=============================================================================
