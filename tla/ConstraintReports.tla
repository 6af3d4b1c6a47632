--------------------------- MODULE ConstraintReports ---------------------------
(***************************************************************************)
(* Declared-constraint validation (acetone-graph constraints.rs) as the     *)
(* bulk callers see it: what is reported, and in which order, of a node     *)
(* set, one upsert or one label.                                            *)
(***************************************************************************)
EXTENDS Constraints, SequencesExt

(* The canonical encoding order of values of one property: by type tag, then *)
(* by payload.                                                               *)
TypeTag == [null |-> 0, bool |-> 1, int |-> 2, float |-> 3, string |-> 4, date |-> 5]
ValueBefore(a, b) ==
  TypeTag[a.t] < TypeTag[b.t] \/ (a.t = b.t /\ a.v < b.v)
KeyBefore(a, b) ==
  a.label < b.label \/ (a.label = b.label /\ ValueBefore(a.key[1], b.key[1]))

InOrder(S) == SetToSortSeq(S, LAMBDA a, b : a < b)
KeysInOrder(S) == SetToSortSeq(S, KeyBefore)
ValuesInOrder(S) == SetToSortSeq(S, ValueBefore)

TypeViolations(key, record, def) ==
  LET bad == {p \in DOMAIN def.types :
                \E x \in Holds(key, record, def, p) : ~Matches(def.types[p], x)}
      breach(p) ==
        [kind |-> "type", node |-> key, prop |-> p, declared |-> def.types[p],
         actual |-> (CHOOSE x \in Holds(key, record, def, p) : TRUE).t]
  IN  [i \in DOMAIN InOrder(bad) |-> breach(InOrder(bad)[i])]

(* node_violations: one node's existence breaches, then its type breaches.   *)
NodeViolations(key, record, def) ==
  LET missing == InOrder({p \in def.exists : ~Present(record, def, p)})
  IN  [i \in DOMAIN missing |->
         [kind |-> "missing", node |-> key, prop |-> missing[i]]]
      \o TypeViolations(key, record, def)

Unique(label, p, x, members) ==
  [kind |-> "unique", label |-> label, prop |-> p, value |-> x,
   nodes |-> KeysInOrder(members)]

(* The colliding groups of one label, in property then value order.          *)
UniqueGroups(nodes, label, def, focus) ==
  LET held(p) == {nodes[k][p] : k \in {k \in DOMAIN nodes : k.label = label /\ p \in DOMAIN nodes[k]}}
      clash(p) == {x \in held(p) : /\ Cardinality(Owners(nodes, label, p, x)) >= 2
                                   /\ Owners(nodes, label, p, x) \cap focus /= {}}
      of(p) == [i \in DOMAIN ValuesInOrder(clash(p)) |->
                  LET x == ValuesInOrder(clash(p))[i]
                  IN  Unique(label, p, x, Owners(nodes, label, p, x))]
      props == InOrder(def.unique)
  IN  FlattenSeq([i \in DOMAIN props |-> of(props[i])])

(* check_nodes: a whole node set, blaming only the focus keys.               *)
CheckNodes(labels, nodes, focus) ==
  LET keys == KeysInOrder({k \in DOMAIN nodes : k \in focus /\ k.label \in DOMAIN labels})
      declared == InOrder(DOMAIN labels)
  IN  FlattenSeq([i \in DOMAIN keys |->
                    NodeViolations(keys[i], nodes[keys[i]], labels[keys[i].label])])
      \o FlattenSeq([i \in DOMAIN declared |->
                       UniqueGroups(nodes, declared[i], labels[declared[i]], focus)])

(* Mutant: the stored version of the written key is not skipped.             *)
CheckUpsertItself(labels, nodes, key, record) ==
  IF key.label \notin DOMAIN labels \/ Unconstrained(labels[key.label]) THEN <<>>
  ELSE LET def == labels[key.label]
           others(p) == Owners(nodes, key.label, p, record[p])
           clash == InOrder({p \in def.unique \cap DOMAIN record : others(p) /= {}})
       IN  NodeViolations(key, record, def)
           \o [i \in DOMAIN clash |->
                 Unique(key.label, clash[i], record[clash[i]], others(clash[i]) \cup {key})]

(* check_upsert: one would-be put, by a prefix scan of the written label     *)
(* that skips the stored version of the key and joins the written node to    *)
(* each group it collides with, at its key position.                         *)
CheckUpsert(labels, nodes, key, record) ==
  IF key.label \notin DOMAIN labels \/ Unconstrained(labels[key.label]) THEN <<>>
  ELSE LET def == labels[key.label]
           others(p) == Owners(nodes, key.label, p, record[p]) \ {key}
           clash == InOrder({p \in def.unique \cap DOMAIN record : others(p) /= {}})
       IN  NodeViolations(key, record, def)
           \o [i \in DOMAIN clash |->
                 Unique(key.label, clash[i], record[clash[i]], others(clash[i]) \cup {key})]

(* check_label: the backfill check of a (re)declared label.                  *)
CheckLabel(nodes, label, def) ==
  IF Unconstrained(def) THEN <<>>
  ELSE LET keys == KeysInOrder({k \in DOMAIN nodes : k.label = label})
       IN  FlattenSeq([i \in DOMAIN keys |-> NodeViolations(keys[i], nodes[keys[i]], def)])
           \o UniqueGroups(nodes, label, def, DOMAIN nodes)
=============================================================================
