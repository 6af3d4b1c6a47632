---------------------------- MODULE MCRepository ----------------------------
(* Model checking instances of Repository: two nodes and an edge that ends at one of them. *)
EXTENDS Repository

MCNode == {"a", "b"}
MCEdge == {"e"}
MCEnds == [e \in MCEdge |-> {"a"}]
MCBranch == {"main", "dev"}

\* Put or delete the endpoint of the edge, put the edge; the second and third
\* also set the other node, so that two branches can dispute it.
MCBatch == {[a |-> Bare], [a |-> Absent, b |-> "v1"],
            [e |-> Bare, b |-> "v2"]}

\* A single node two branches can dispute.
MCOneNode == {"b"}
MCNoEdge == {}
MCNoEnds == [e \in MCNoEdge |-> {}]
MCTwoBatch == {[b |-> "v1"], [b |-> Absent]}
MCForeignBatch == {[b |-> "v2"]}
=============================================================================
