------------------------------- MODULE MCImport -------------------------------
(* Two nodes of one label (property 1 is UNIQUE, 2 is required) and an edge. *)
EXTENDS Import

Node(i) == [label |-> 1, key |-> <<Val("int", i)>>]
MCLabels == <<[key |-> <<3>>, exists |-> {2}, unique |-> {1}, types |-> <<"int">>]>>
Good(x) == <<Val("int", x), Val("int", 0)>>
MCNodePuts ==
  {[key |-> Node(1), record |-> Good(1)], [key |-> Node(1), record |-> Good(2)],
   [key |-> Node(2), record |-> Good(1)], [key |-> Node(2), record |-> <<Val("int", 1)>>]}
MCEdgePuts == {[src |-> Node(1), dst |-> Node(2)]}
MCOtherPut == [key |-> Node(3), record |-> Good(1)]
=============================================================================
