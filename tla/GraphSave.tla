------------------------------- MODULE GraphSave -------------------------------
(***************************************************************************)
(* The save of a transaction over one version of the graph (acetone-graph   *)
(* repo.rs, save_in_place): the one place every writer passes through.      *)
(*                                                                          *)
(* A schema here also has exists and unique (label to properties), relTypes *)
(* (relationship type to declared property types) and surrogate (the labels *)
(* whose key is minted).  Staged work is                                    *)
(* [schema, ops]: schema is <<>> or <<the schema after it>>, an op is       *)
(* <<"put" or "delete", "node" or "edge", the record>>.  The conflicts map, *)
(* the manifest and the compare-and-swap of the workspace ref are           *)
(* Repository.tla's.                                                        *)
(***************************************************************************)
EXTENDS GraphSources

EmptySchema ==
  [keys |-> <<>>, types |-> <<>>, discs |-> <<>>, indexes |-> <<>>, exists |-> <<>>, unique |-> <<>>, relTypes |-> <<>>,
   surrogate |-> {}]
DeclaredBy(f, x) == IF x \in DOMAIN f THEN f[x] ELSE <<>>
DiscOf(schema, t) == IF t \in DOMAIN schema.discs THEN schema.discs[t] ELSE 0

(* PropertyType::matches over stored values.                                 *)
Conforms(type, x) == Kind(x) = "null" \/ Kind(x) = type \/ (type = "float" /\ Kind(x) = "int")

(* type_violations: a key property is judged in the key, any other in the    *)
(* record; rel_type_violations: a discriminator's property in both.          *)
StoredAs(n, p, schema) ==
  LET at == Positions(KeyNames(schema, n.label), p)
  IN  IF at /= {} THEN {n.key[i] : i \in at \cap DOMAIN n.key} ELSE {n.props[q] : q \in {p} \cap DOMAIN n.props}
NodeTypeViolations(n, schema) ==
  {p \in DOMAIN DeclaredBy(schema.types, n.label) :
     \E x \in StoredAs(n, p, schema) : ~Conforms(schema.types[n.label][p], x)}

EdgeTypeViolations(e, schema) ==
  {p \in DOMAIN DeclaredBy(schema.relTypes, e.rtype) :
     \E x \in {e.props[q] : q \in {p} \cap DOMAIN e.props} \cup {e.disc : q \in {p} \cap {DiscOf(schema, e.rtype)}} :
        ~Conforms(schema.relTypes[e.rtype][p], x)}

---------------------------------------------------------------------------
(* Staged operations, in order, per map.                                     *)

SameNode(a, b) == At(a) = At(b)
SameEdge(a, b) == a.src = b.src /\ a.rtype = b.rtype /\ a.dst = b.dst /\ a.disc = b.disc
Same(kind, a, b) == IF kind = "node" THEN SameNode(a, b) ELSE SameEdge(a, b)
Staged(ops, verb, kind) == {ops[i][3] : i \in {j \in DOMAIN ops : ops[j][1] = verb /\ ops[j][2] = kind}}
Touched(ops, kind) == Staged(ops, "put", kind) \cup Staged(ops, "delete", kind)
TouchedBy(ops, kind, x) == \E y \in Touched(ops, kind) : Same(kind, x, y)
RECURSIVE ApplyMap(_, _, _)
ApplyMap(S, ops, kind) ==
  IF ops = <<>> THEN S
  ELSE LET op == Head(ops)
           rest == {x \in S : ~Same(kind, x, op[3])}
       IN  ApplyMap(IF op[2] /= kind THEN S ELSE IF op[1] = "put" THEN rest \cup {op[3]} ELSE rest, Tail(ops), kind)

---------------------------------------------------------------------------
(* The checks of a save                                                      *)

CheckStagedNodeTypes(ops, schema) == \A n \in Staged(ops, "put", "node") : NodeTypeViolations(n, schema) = {}
CheckStagedEdgeTypes(ops, schema) == \A e \in Staged(ops, "put", "edge") : EdgeTypeViolations(e, schema) = {}

(* A label declared before may change its key only while no node has it.     *)
CheckLabelKeyStability(nodes, old, new) ==
  \A label \in DOMAIN old.keys \cap DOMAIN new.keys :
     old.keys[label] /= new.keys[label] => \A n \in nodes : n.label /= label

(* A type's effective discriminator may change only when no edge of it that  *)
(* was there before is there after; an absent entry declares none.           *)
CheckRelDiscStability(base, edges, old, new) ==
  \A t \in DOMAIN old.discs \cup DOMAIN new.discs :
     DiscOf(old, t) /= DiscOf(new, t)
     => \A e \in edges : e.rtype = t => ~\E b \in base : SameEdge(b, e)

Changed(old, new) == {p \in DOMAIN new : p \notin DOMAIN old \/ old[p] /= new[p]}

(* A changed declaration holds of the nodes and edges that stay as they are. *)
CheckRetypedLabels(nodes, ops, old, new) ==
  \A n \in nodes : TouchedBy(ops, "node", n)
     \/ NodeTypeViolations(n, new) \cap Changed(DeclaredBy(old.types, n.label), DeclaredBy(new.types, n.label)) = {}
CheckRetypedRelTypes(edges, ops, old, new) ==
  \A e \in edges : TouchedBy(ops, "edge", e)
     \/ EdgeTypeViolations(e, new) \cap Changed(DeclaredBy(old.relTypes, e.rtype), DeclaredBy(new.relTypes, e.rtype)) = {}

EndsAt(e, n) == e.src = At(n) \/ e.dst = At(n)
Holds(nodes, at) == \E n \in nodes : At(n) = at

(* Only the edges put and the nodes deleted are looked at, both against the  *)
(* maps the transaction ends with.                                           *)
CheckReferentialIntegrity(nodes, edges, ops) ==
  /\ \A e \in Staged(ops, "put", "edge") : Holds(nodes, e.src) /\ Holds(nodes, e.dst)
  /\ \A n \in Staged(ops, "delete", "node") : Holds(nodes, At(n)) \/ \A e \in edges : ~EndsAt(e, n)

(* A redefined index is dropped here, so that it is built in full.           *)
KeptIndexes(v, new) ==
  LET same == {name \in DOMAIN v.index : name \in DOMAIN new.indexes /\ v.schema.indexes[name] = new.indexes[name]}
  IN  [name \in same |-> v.index[name]]

SaveRefused(why) == [ok |-> FALSE, why |-> why]
SaveInPlace(v, staged) ==
  LET ops == staged.ops
      redeclared == staged.schema /= <<>>
      schema == IF redeclared THEN staged.schema[1] ELSE v.schema
      nodes == ApplyMap(v.nodes, ops, "node")
      edges == ApplyMap(v.edges, ops, "edge")
  IN  IF ~CheckStagedNodeTypes(ops, schema) THEN SaveRefused("type")
      ELSE IF ~CheckStagedEdgeTypes(ops, schema) THEN SaveRefused("edge_type")
      ELSE IF redeclared /\ ~CheckLabelKeyStability(v.nodes, v.schema, schema) THEN SaveRefused("label_key")
      ELSE IF redeclared /\ ~CheckRelDiscStability(v.edges, edges, v.schema, schema) THEN SaveRefused("discriminator")
      ELSE IF redeclared /\ ~CheckRetypedLabels(v.nodes, ops, v.schema, schema) THEN SaveRefused("type")
      ELSE IF redeclared /\ ~CheckRetypedRelTypes(v.edges, ops, v.schema, schema) THEN SaveRefused("edge_type")
      ELSE IF ~CheckReferentialIntegrity(nodes, edges, ops) THEN SaveRefused("dangling")
      ELSE [ok |-> TRUE,
            v |-> [v EXCEPT !.nodes = nodes, !.edges = edges, !.schema = schema,
                            !.index = MaintainAll(KeptIndexes(v, schema), v.nodes, nodes, schema)]]
=============================================================================
