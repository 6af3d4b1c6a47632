---------------------------- MODULE MCWriterLock ----------------------------
(* Model checking instances of WriterLock: two daemons, the first with two   *)
(* connection threads, and two command-line writers or one.                  *)
EXTENDS WriterLock

MCDaemon == {"d1", "d2"}
MCProcess == {"c1", "c2"} \union MCDaemon
MCWriter == {"c1w", "c2w", "d1a", "d1b", "d2a"}
MCOf == [w \in MCWriter |->
           CASE w = "c1w" -> "c1" [] w = "c2w" -> "c2" [] w = "d2a" -> "d2"
             [] OTHER -> "d1"]

MCSmallProcess == {"c1"} \union MCDaemon
MCSmallWriter == {"c1w", "d1a", "d1b", "d2a"}
MCSmallOf == [w \in MCSmallWriter |-> MCOf[w]]
=============================================================================
