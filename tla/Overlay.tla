-------------------------------- MODULE Overlay --------------------------------
(***************************************************************************)
(* The write overlay of one statement (acetone-cypher exec/write.rs): a     *)
(* base source under the nodes and relationships the statement created,     *)
(* changed and deleted.  It is itself a source, and every read of a         *)
(* statement goes through it.  The ordered mutation log is left out: the    *)
(* statement's net effect is Changes.                                       *)
(***************************************************************************)
EXTENDS GraphSeeks

OverlayTag == 255
IsOverlay(id) == id /= <<>> /\ id[1] = OverlayTag

NoFunction == [x \in {} |-> x]
With(f, k, x) == [j \in DOMAIN f \cup {k} |-> IF j = k THEN x ELSE f[j]]
Without(f, k) == [j \in DOMAIN f \ {k} |-> f[j]]

NoEffects == [nodesCreated |-> 0, relsCreated |-> 0, propertiesSet |-> 0, labelsAdded |-> 0,
              labelsRemoved |-> 0, nodesDeleted |-> 0, relsDeleted |-> 0]
Counted(g, field, n) == [g EXCEPT !.summary[field] = @ + n]

NewOverlay(base) ==
  [kind |-> "overlay", base |-> base, created |-> <<>>, rels |-> <<>>, nodeOver |-> NoFunction,
   relOver |-> NoFunction, delNodes |-> {}, delRels |-> NoFunction, next |-> 0, summary |-> NoEffects]

---------------------------------------------------------------------------
(* Reading through the overlay                                               *)

OverlayNode(g, n) == IF n.id \in DOMAIN g.nodeOver THEN g.nodeOver[n.id] ELSE n
OverlayRel(g, r) == IF r.id \in DOMAIN g.relOver THEN g.relOver[r.id] ELSE r

(* current_node: some is FALSE when no live node has the id.                 *)
CurrentNode(g, id) ==
  LET made == WithId(g.created, id)
  IN  CASE id \in g.delNodes -> CannotServe
        [] id \in DOMAIN g.nodeOver -> Served(<<g.nodeOver[id]>>)
        [] made /= {} -> Served(<<g.created[CHOOSE i \in made : TRUE]>>)
        [] OTHER -> NodeAt(g.base, id)

(* current_rel: the caller's value unless the overlay knows a newer one.     *)
CurrentRel(g, r) ==
  LET made == WithId(g.rels, r.id)
  IN  IF r.id \in DOMAIN g.relOver THEN g.relOver[r.id]
      ELSE IF made /= {} THEN g.rels[CHOOSE i \in made : TRUE] ELSE r

(* Mutant: a deletion alone leaves the base's indexes authoritative.         *)
OverlayDirtyButDeletes(g) == g.created /= <<>> \/ DOMAIN g.nodeOver /= {}

OverlayDirty(g) == g.created /= <<>> \/ DOMAIN g.nodeOver /= {} \/ g.delNodes /= {}

LiveNodes(g, nodes) ==
  LET live == SelectSeq(nodes, LAMBDA n : n.id \notin g.delNodes)
  IN  [i \in DOMAIN live |-> OverlayNode(g, live[i])]

BaseOf(src) == IF src.kind = "overlay" THEN src.base ELSE src
GAllNodes(src) ==
  [AllNodes(BaseOf(src)) EXCEPT !.items = IF src.kind = "overlay" THEN LiveNodes(src, @ \o src.created) ELSE @]
GNodesByLabels(src, labels) ==
  [GAllNodes(src) EXCEPT !.items = SelectSeq(@, LAMBDA n : HasLabels(n, labels))]
GNodeAt(src, id) == IF src.kind = "overlay" THEN CurrentNode(src, id) ELSE NodeAt(src, id)

(* The end a created relationship leads to from a node, <<>> if none.        *)
FarEnd(r, id, direction) ==
  IF direction /= "in" /\ r.start = id THEN r.end
  ELSE IF direction /= "out" /\ r.end = id THEN r.start ELSE <<>>

(* What the base's expansion shows through the overlay, and the overlay's    *)
(* own relationships with their live far ends.                               *)
Through(g, pairs) ==
  LET kept == SelectSeq(pairs, LAMBDA p : p[1].id \notin DOMAIN g.delRels /\ p[2].id \notin g.delNodes)
  IN  [i \in DOMAIN kept |-> <<OverlayRel(g, kept[i][1]), OverlayNode(g, kept[i][2])>>]
WithLive(r, end) == IF end.some THEN << <<r, end.items[1]>> >> ELSE <<>>
OwnRels(g, id, direction, types) ==
  LET made == [i \in DOMAIN g.rels |-> OverlayRel(g, g.rels[i])]
      ends == [i \in DOMAIN made |-> <<made[i], FarEnd(made[i], id, direction)>>]
      leading == SelectSeq(ends, LAMBDA p : p[1].id \notin DOMAIN g.delRels /\ TypeOk(p[1], types) /\ p[2] /= <<>>)
  IN  Flat([i \in DOMAIN leading |-> WithLive(leading[i][1], CurrentNode(g, leading[i][2]))])
Overlaid(src, id, direction, types, base) ==
  IF src.kind /= "overlay" THEN base
  ELSE [base EXCEPT !.items = Through(src, @) \o OwnRels(src, id, direction, types)]
GExpand(src, id, direction, types) ==
  IF src.kind = "overlay" /\ id \in src.delNodes THEN Served(<<>>)
  ELSE Overlaid(src, id, direction, types, Expand(BaseOf(src), id, direction, types))

(* Seeks and their sizes come from the base while no node was written.       *)
GMaterialise(src, probe) ==
  IF src.kind = "overlay" /\ OverlayDirty(src) THEN CannotServe ELSE MaterialiseProbe(BaseOf(src), probe)
GSeekAnchor(src, probes) ==
  IF src.kind = "overlay" /\ OverlayDirty(src) THEN CannotServe ELSE SeekAnchor(BaseOf(src), probes)

---------------------------------------------------------------------------
(* Writes.  Each returns the overlay after it.                               *)

FreshId(g) == <<OverlayTag, g.next>>
CreateNode(g, labels, properties) ==
  Counted([g EXCEPT !.created = Append(@, [id |-> FreshId(g), labels |-> labels, properties |-> properties]),
                    !.next = @ + 1], "nodesCreated", 1)
CreateRel(g, start, type, end, properties) ==
  Counted([g EXCEPT !.rels = Append(@, [id |-> FreshId(g), type |-> type, start |-> start, end |-> end,
                                        properties |-> properties]),
                    !.next = @ + 1], "relsCreated", 1)

StoreNode(g, n) == [g EXCEPT !.nodeOver = With(@, n.id, n)]
StoreRel(g, r) == [g EXCEPT !.relOver = With(@, r.id, r)]

(* A null removes the property.                                              *)
Assigned(properties, p, x) == IF Kind(x) = "null" THEN Without(properties, p) ELSE With(properties, p, x)
Merged(properties, f) ==
  [p \in (DOMAIN properties \ DOMAIN f) \cup {q \in DOMAIN f : Kind(f[q]) /= "null"} |->
     IF p \in DOMAIN f THEN f[p] ELSE properties[p]]

SetNodeProperty(g, id, p, x) ==
  LET n == CurrentNode(g, id)
  IN  IF ~n.some THEN g
      ELSE Counted(StoreNode(g, [n.items[1] EXCEPT !.properties = Assigned(@, p, x)]), "propertiesSet", 1)
SetNodeProperties(g, id, f, merge) ==
  LET n == CurrentNode(g, id)
  IN  IF ~n.some THEN g
      ELSE Counted(StoreNode(g, [n.items[1] EXCEPT !.properties = Merged(IF merge THEN @ ELSE NoFunction, f)]),
                   "propertiesSet", Cardinality(DOMAIN f))
AddNodeLabel(g, id, label) ==
  LET n == CurrentNode(g, id)
  IN  IF ~n.some \/ (n.some /\ Has(n.items[1].labels, label)) THEN g
      ELSE Counted(StoreNode(g, [n.items[1] EXCEPT !.labels = Append(@, label)]), "labelsAdded", 1)
RemoveNodeLabel(g, id, label) ==
  LET n == CurrentNode(g, id)
  IN  IF ~n.some \/ (n.some /\ ~Has(n.items[1].labels, label)) THEN g
      ELSE Counted(StoreNode(g, [n.items[1] EXCEPT !.labels = SelectSeq(@, LAMBDA l : l /= label)]), "labelsRemoved", 1)
SetRelProperty(g, r, p, x) ==
  Counted(StoreRel(g, [CurrentRel(g, r) EXCEPT !.properties = Assigned(@, p, x)]), "propertiesSet", 1)
SetRelProperties(g, r, f, merge) ==
  Counted(StoreRel(g, [CurrentRel(g, r) EXCEPT !.properties = Merged(IF merge THEN @ ELSE NoFunction, f)]),
          "propertiesSet", Cardinality(DOMAIN f))

DeleteRel(g, r) ==
  IF r.id \in DOMAIN g.delRels THEN g
  ELSE Counted([g EXCEPT !.delRels = With(@, r.id, r)], "relsDeleted", 1)
DeleteNode(g, id) ==
  IF id \in g.delNodes THEN g ELSE Counted([g EXCEPT !.delNodes = @ \cup {id}], "nodesDeleted", 1)
HasIncidentRels(g, id) == GExpand(g, id, "both", {}).items /= <<>>

RECURSIVE DeleteRels(_, _)
DeleteRels(g, pairs) == IF pairs = <<>> THEN g ELSE DeleteRels(DeleteRel(g, Head(pairs)[1]), Tail(pairs))

DetachDeleteNode(g, id) == DeleteNode(DeleteRels(g, GExpand(g, id, "both", {}).items), id)

---------------------------------------------------------------------------
(* changes: the net effect as final states.                                  *)

Changes(g) ==
  LET createdIds == {g.created[i].id : i \in DOMAIN g.created}
      createdRels == {g.rels[i].id : i \in DOMAIN g.rels}
      kept == SelectSeq(g.created, LAMBDA n : n.id \notin g.delNodes)
      keptRels == SelectSeq(g.rels, LAMBDA r : r.id \notin DOMAIN g.delRels)
  IN  [createdNodes |-> [i \in DOMAIN kept |-> OverlayNode(g, kept[i])],
       modifiedNodes |-> {g.nodeOver[id] : id \in DOMAIN g.nodeOver \ (g.delNodes \cup createdIds)},
       deletedNodes |-> g.delNodes \ createdIds,
       createdRels |-> [i \in DOMAIN keptRels |-> OverlayRel(g, keptRels[i])],
       modifiedRels |-> {g.relOver[id] : id \in DOMAIN g.relOver \ (DOMAIN g.delRels \cup createdRels)},
       deletedRels |-> {g.delRels[id] : id \in DOMAIN g.delRels \ createdRels}]
=============================================================================
