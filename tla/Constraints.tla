------------------------------ MODULE Constraints ------------------------------
(***************************************************************************)
(* Declared constraints (acetone-graph constraints.rs): what it is for a    *)
(* node to lack a required property, to hold a value of another type or to  *)
(* share a UNIQUE value.  ConstraintReports has the checks and what they    *)
(* report.                                                                  *)
(*                                                                          *)
(* A value is [t, v]: its type and a comparable payload.  A node key is     *)
(* [label, key], the label an integer in encoding order and key a tuple of  *)
(* values; a record is a partial function from properties (integers in      *)
(* name order) to values; a node set is a function from keys to records.    *)
(* A label definition is [key, exists, unique, types].                      *)
(***************************************************************************)
EXTENDS Integers, Sequences, FiniteSets, Functions

Null == [t |-> "null", v |-> 0]
Val(t, v) == [t |-> t, v |-> v]

(* PropertyType::matches: null conforms to every type, an integer to float.  *)
Matches(type, value) ==
  \/ value.t = "null"
  \/ value.t = type
  \/ type = "float" /\ value.t = "int"

(* The value a property of the node holds: a key property's from the key     *)
(* tuple by position, any other from the record.                             *)
PositionIn(p, seq) == CHOOSE i \in 1..Len(seq) : seq[i] = p
Holds(key, record, def, p) ==
  IF p \in Range(def.key)
  THEN IF PositionIn(p, def.key) \in DOMAIN key.key
       THEN {key.key[PositionIn(p, def.key)]} ELSE {}
  ELSE IF p \in DOMAIN record THEN {record[p]} ELSE {}

Present(record, def, p) == p \in Range(def.key) \/ p \in DOMAIN record

(* A relationship type's breaches: a discriminator-named property is judged  *)
(* both in the record and in the edge key.                                   *)
RelTypeViolations(edge, record, def) ==
  LET candidates(p) == (IF p \in DOMAIN record THEN {record[p]} ELSE {})
                       \cup (IF def.disc = {p} THEN {edge.disc} ELSE {})
  IN  {p \in DOMAIN def.types : \E x \in candidates(p) : ~Matches(def.types[p], x)}

(* The nodes of `nodes` with this label and this value of property p.        *)
Owners(nodes, label, p, x) ==
  {k \in DOMAIN nodes : k.label = label /\ p \in DOMAIN nodes[k] /\ nodes[k][p] = x}

(* What check_nodes looks for, without the report: a node of the focus lacks *)
(* a required property or holds a value of another type, or shares a UNIQUE  *)
(* value with another node of its label.                                     *)
Breached(labels, nodes, focus) ==
  \E k \in DOMAIN nodes \cap focus :
    /\ k.label \in DOMAIN labels
    /\ LET def == labels[k.label] IN
       \/ \E p \in def.exists : ~Present(nodes[k], def, p)
       \/ \E p \in DOMAIN def.types :
            \E x \in Holds(k, nodes[k], def, p) : ~Matches(def.types[p], x)
       \/ \E other \in DOMAIN nodes \ {k}, p \in def.unique \cap DOMAIN nodes[k] :
            other.label = k.label /\ p \in DOMAIN nodes[other] /\ nodes[other][p] = nodes[k][p]

Unconstrained(def) == def.exists = {} /\ def.unique = {} /\ def.types = <<>>

Put(nodes, key, record) ==
  [k \in DOMAIN nodes \cup {key} |-> IF k = key THEN record ELSE nodes[k]]
=============================================================================
