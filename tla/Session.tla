-------------------------------- MODULE Session --------------------------------
(***************************************************************************)
(* A session over one workspace (acetone-cypher session.rs): statements of   *)
(* the language, schema changes and commits, one after another, each over    *)
(* the version the last one left.                                            *)
(*                                                                           *)
(* version is the workspace, head the last commit (what AT names), last what *)
(* the latest step was and did: [op, stmt, why, seen], why being "ok"        *)
(* or the refusal and seen what the statement's own reads saw when it ended. *)
(***************************************************************************)
EXTENDS Persist

CONSTANTS
  Statements,    \* the write statements a user may run
  Schemas,       \* the schemas a schema change may install
  Genesis,       \* the versions a session may start from
  Outcome,       \* WriteOutcome as a function of the statement, the workspace and HEAD
  MaxSteps       \* statements, schema changes and commits of one session

VARIABLES version, head, last, steps

vars == <<version, head, last, steps>>

HeadRef == 1
Idle == [op |-> "idle"]
NoLimits == [work |-> 1000000, rows |-> 1000000, hops |-> 1000000, scanned |-> 1000000, collection |-> 1000000,
             stride |-> 4096, timed |-> FALSE]

(* The graph as a reader sees it, without ids: nodes are [labels,            *)
(* properties], relationships [type, from, to, properties].                  *)
SeenNode(n) == [labels |-> {n.labels[i] : i \in DOMAIN n.labels}, properties |-> n.properties]
SeenFrom(n, out) ==
  [i \in DOMAIN out |-> [type |-> out[i][1].type, from |-> SeenNode(n), to |-> SeenNode(out[i][2]),
                         properties |-> out[i][1].properties]]
SeenGraph(nodes, rels) ==
  [nodes |-> {SeenNode(nodes[i]) : i \in DOMAIN nodes}, number |-> Len(nodes),
   rels |-> {rels[i] : i \in DOMAIN rels}, edges |-> Len(rels)]
Seen(src) ==
  LET all(nodes) == SeenGraph(nodes, Flat([i \in DOMAIN nodes |-> SeenFrom(nodes[i], GExpand(src, nodes[i].id, "out", {}).items)]))
  IN  all(GAllNodes(src).items)

(* run_write: the version it leaves, its refusal or "ok", and what the       *)
(* statement itself saw at its end.                                          *)
Ats(h) == [r \in {HeadRef} |-> h]
Executed(bound, v, h) == Then(bound, LAMBDA x : ExecuteWrite(x, v, Ats(h), NoFunction, NoLimits, 0))
Saved(bound, done, v, h) == Then(done, LAMBDA x : SaveChanges(bound.v, x, v, Ats(h)))
WriteOutcome(stmt, v, h) ==
  LET bound == BindFor(stmt, v, FALSE)
      done == Executed(bound, v, h)
      run == Saved(bound, done, v, h)
  IN  [version |-> IF run.ok THEN run.v ELSE v, why |-> IF run.ok THEN "ok" ELSE run.v,
       seen |-> Seen(IF done.ok THEN done.v.graph ELSE SnapshotSource(v))]

Ran(stmt, why, seen) == [op |-> "ran", stmt |-> stmt, why |-> why, seen |-> seen]

Init ==
  /\ version \in Genesis
  /\ head = version
  /\ last = Idle
  /\ steps = 0

RunStatement(stmt) ==
  /\ last = Idle
  /\ steps < MaxSteps
  /\ \E out \in {Outcome[stmt, version, head]} : version' = out.version /\ last' = Ran(stmt, out.why, out.seen)
  /\ steps' = steps + 1
  /\ UNCHANGED head

(* put_schema entries staged and saved by a transaction.                     *)
ChangeSchema(schema) ==
  LET saved == SaveInPlace(version, [schema |-> <<schema>>, ops |-> <<>>])
  IN  /\ last = Idle
      /\ steps < MaxSteps
      /\ schema /= version.schema
      /\ version' = IF saved.ok THEN saved.v ELSE version
      /\ last' = [op |-> "schema", schema |-> schema, why |-> IF saved.ok THEN "ok" ELSE saved.why]
      /\ steps' = steps + 1
      /\ UNCHANGED head

Commit ==
  /\ last = Idle
  /\ head /= version
  /\ steps < MaxSteps
  /\ head' = version
  /\ steps' = steps + 1
  /\ UNCHANGED <<version, last>>

Ready ==
  /\ last /= Idle
  /\ last' = Idle
  /\ UNCHANGED <<version, head, steps>>

Next ==
  \/ \E stmt \in Statements : RunStatement(stmt)
  \/ \E schema \in Schemas : ChangeSchema(schema)
  \/ Commit
  \/ Ready

Spec == Init /\ [][Next]_vars

---------------------------------------------------------------------------
(* Properties                                                                *)

(* Every saved version's declared indexes, moved incrementally from save to  *)
(* save by maintain, hold exactly what a rebuild from its records would.     *)
IndexesCurrent == version.index = RebuildAll(version.nodes, version.schema)

(* No statement that UniqueChecker lets through leaves two nodes of a label  *)
(* with one value of a property declared unique on it, whatever the          *)
(* statement swapped, replaced or deleted on the way.                        *)
UniqueHolds ==
  \A m, n \in version.nodes : \A p \in DeclaredSet(version.schema.unique, n.label) :
     /\ m /= n /\ m.label = n.label
     /\ p \in DOMAIN m.props \cap DOMAIN n.props
     /\ Null \notin {m.props[p], n.props[p]}
     => ~SameStored(m.props[p], n.props[p])

(* Every value a reader sees conforms to the type its property is declared   *)
(* with now (check_staged_node_types, check_retyped_labels): also one stored *)
(* before the declaration changed, and a key property or discriminator,      *)
(* which is stored in the key and not in the record.                         *)
Conforming(properties, types) == \A p \in DOMAIN properties \cap DOMAIN types : Conforms(types[p], properties[p])
TypesHold ==
  /\ \A n \in version.nodes : Conforming(NodeValue(n, version.schema).properties, DeclaredBy(version.schema.types, n.label))
  /\ \A e \in version.edges : Conforming(RelValue(e, version.schema).properties, DeclaredBy(version.schema.relTypes, e.rtype))

(* Both ends of every stored edge are stored nodes, and every stored edge's  *)
(* key has a discriminator exactly when its type declares one               *)
(* (check_referential_integrity, check_rel_type_disc_stability).             *)
EdgesWellFormed ==
  \A e \in version.edges :
     /\ Holds(version.nodes, e.src) /\ Holds(version.nodes, e.dst)
     /\ (e.disc = Null) = (DiscOf(version.schema, e.rtype) = 0)

(* A statement's saved effect is what its own reads saw when it ended: the   *)
(* overlay and the replay of its net changes (persist_changes) agree, for    *)
(* every mix of creations, changes and deletions of one statement.           *)
SavedAsSeen ==
  last.op = "ran" => (last.why = "ok" => Seen(SnapshotSource(version)) = last.seen)

(* A statement is refused for a clash of keys, unique values or parallel     *)
(* relationships only if the graph it would have left has one: what it frees *)
(* itself does not count (persist_changes, UniqueChecker).                   *)
KeyOf(n) == [l \in n.labels \cap DOMAIN version.schema.keys |->
               [i \in DOMAIN version.schema.keys[l] |-> Lookup(n.properties, version.schema.keys[l][i])]]
UniqueOf(n) == {<<l, p>> \in (n.labels \cap DOMAIN version.schema.keys) \X DOMAIN n.properties :
                  p \in DeclaredSet(version.schema.unique, l)}
Clash(m, n) == \E c \in UniqueOf(m) \cap UniqueOf(n) : m.properties[c[2]] = n.properties[c[2]]
SameEnds(q, r) ==
  LET d == DiscOf(version.schema, q.type)
  IN  /\ q.type = r.type /\ q.from = r.from /\ q.to = r.to
      /\ d = 0 \/ Lookup(q.properties, d) = Lookup(r.properties, d)
Lawful(seen) ==
  /\ Cardinality({KeyOf(n) : n \in seen.nodes}) = seen.number
  /\ \A m, n \in seen.nodes : m /= n => ~Clash(m, n)
  /\ Cardinality(seen.rels) = seen.edges
  /\ \A q, r \in seen.rels : q /= r => ~SameEnds(q, r)
RefusedOnlyIfUnlawful ==
  last.op = "ran" =>
    (last.why \in {"duplicate_key", "duplicate_in_statement", "unique", "duplicate_edge"} => ~Lawful(last.seen))

(* Access paths are invisible: the statement run without any of the binder's *)
(* seek hints, by scans only, is accepted or refused alike and saves the     *)
(* same version.                                                             *)
Unhinted(patterns) == [i \in DOMAIN patterns |-> [patterns[i] EXCEPT !.start.hints = <<>>]]
UnhintedClause(c) ==
  IF c[1] = "match" THEN [c EXCEPT ![3] = Unhinted(@)]
  ELSE IF c[1] = "merge" THEN [c EXCEPT ![2] = Unhinted(<<@>>)[1]] ELSE c
SeeksAreInvisible ==
  last = Idle /\ last'.op = "ran" =>
    LET bound == BindFor(last'.stmt, version, FALSE)
        plain == [bound EXCEPT !.v.clauses = [i \in DOMAIN @ |-> UnhintedClause(@[i])]]
        run == Saved(plain, Executed(plain, version, head), version, head)
        same == /\ last'.why = (IF run.ok THEN "ok" ELSE run.v)
                /\ run.ok => run.v = version'
    IN  bound.ok => plain = bound \/ same
=============================================================================
