-------------------------------- MODULE Persist --------------------------------
(***************************************************************************)
(* A statement's net changes replayed into a transaction (acetone-cypher    *)
(* persist.rs), and the session that runs statements (session.rs).          *)
(*                                                                          *)
(* An entity's id is its encoded key; decoding it is looking it up among    *)
(* the keys of the versions the statement can have read (known).  Message   *)
(* texts and advisories are left out.                                       *)
(***************************************************************************)
EXTENDS QueryBind, Governor, GraphSave

---------------------------------------------------------------------------
(* Conversion and identity                                                   *)

(* convert_value: a carried value goes back as what it was stored as.        *)
RECURSIVE StorableAt(_, _)
StorableAt(x, depth) ==
  /\ depth < MaxDepth
  /\ Kind(x) \notin {"map", "node", "rel", "path"}
  /\ Kind(x) = "list" => \A i \in DOMAIN x[2] : StorableAt(x[2][i], depth + 1)
RECURSIVE StoredValue(_)
StoredValue(x) ==
  CASE Kind(x) = "stored" -> <<"date", x[2]>>
    [] Kind(x) = "list" -> List([i \in DOMAIN x[2] |-> StoredValue(x[2][i])])
    [] OTHER -> x
StoredMap(f) ==
  IF \A p \in DOMAIN f : StorableAt(f[p], 0) THEN Ok([p \in DOMAIN f |-> StoredValue(f[p])]) ELSE Fail("value")

Deferred(x) == Kind(x) = "date"
KeyMaterial(x) == Kind(x) \in {"bool", "int", "float", "string"} /\ ~IsNaN(x)

DeclaredSet(f, label) == IF label \in DOMAIN f THEN f[label] ELSE {}

(* node_key_and_record.  Exactly one label of the node declares a key.       *)
KeyedLabels(n, schema) == SelectSeq(n.labels, LAMBDA l : l \in DOMAIN schema.keys)
NodeKeyAndRecord(n, schema) ==
  LET keyed == KeyedLabels(n, schema)
      primary == keyed[1]
      names == schema.keys[primary]
      values(f) == [i \in DOMAIN names |-> f[names[i]]]
      others == {p \in DOMAIN n.properties : ~Has(names, p)}
      build(f) == [label |-> primary, key |-> values(f), secondary |-> SelectSeq(n.labels, LAMBDA l : l /= primary),
                   props |-> [p \in others |-> f[p]]]
  IN  IF keyed = <<>> THEN Fail("identity") ELSE IF Len(keyed) > 1 THEN Fail("ambiguous")
      ELSE IF \E i \in DOMAIN names : names[i] \notin DOMAIN n.properties THEN Fail("identity")
      ELSE Then(StoredMap(n.properties), LAMBDA f :
                IF \E i \in DOMAIN names : Deferred(f[names[i]]) THEN Fail("key_type")
                ELSE IF \E i \in DOMAIN names : ~KeyMaterial(f[names[i]]) THEN Fail("key")
                ELSE Ok(build(f)))

---------------------------------------------------------------------------
(* Constraints of one statement's upserts (UniqueChecker)                    *)

Decode(id, known) == {at \in known.nodes : NodeId(at) = id}
DecodeEdge(id, known) == {e \in known.edges : EdgeId(e) = id}

Taken(at, v, deleted) == Holds(v.nodes, at) /\ at \notin deleted

(* A created node's key must be free, a stored node's unchanged, and no key  *)
(* written twice.                                                            *)
IdentityOk(acc, node, stored, v, deleted, known) ==
  LET original == Decode(node.id, known)
  IN  IF original = {} /\ Taken(At(stored), v, deleted) THEN Fail("duplicate_key")
      ELSE IF original /= {} /\ At(stored) \notin original THEN Fail("key_immutable")
      ELSE IF \E i \in DOMAIN acc : SameNode(acc[i], stored) THEN Fail("duplicate_in_statement")
      ELSE Ok(Append(acc, stored))

(* Stored nodes holding the value: by a declared single-property index where *)
(* there is one, else by a scan of the records.                              *)
IndexOn(schema, label, p) == {name \in DOMAIN schema.indexes : schema.indexes[name].label = label /\ schema.indexes[name].properties = <<p>>}
SameStored(x, y) == Encodable(x) /\ Encodable(y) /\ EncodeValue(x) = EncodeValue(y)
ScannedCollisions(v, label, p, x) ==
  {n \in v.nodes : n.label = label /\ p \in DOMAIN n.props /\ SameStored(n.props[p], x)}
IndexedCollisions(v, name, x) ==
  LET prefix == IndexHead(v.schema.indexes[name]) \o EncodeValue(List(<<x>>))
  IN  {n \in v.nodes : Encodable(x) /\ \E entry \in v.index[name] : entry.node = NodeId(At(n)) /\ StartsWith(entry.id, prefix)}
Collisions(v, label, p, x) ==
  LET named == IndexOn(v.schema, label, p)
  IN  IF named = {} THEN ScannedCollisions(v, label, p, x) ELSE IndexedCollisions(v, CHOOSE name \in named : TRUE, x)

Claimed(claims, claim) == claim \in claims

(* Mutant: a record this statement replaces still holds its old value.       *)
SupersededNever(n, written, deleted) == At(n) \in deleted

Superseded(n, written, deleted) == At(n) \in deleted \/ \E i \in DOMAIN written : SameNode(written[i], n)

UniqueOk(claims, stored, f, p, v, written, deleted) ==
  LET claim == <<stored.label, p, IF Encodable(f[p]) THEN EncodeValue(f[p]) ELSE <<>>>>
      clash == {n \in Collisions(v, stored.label, p, f[p]) : ~Superseded(n, written, deleted)}
  IN  IF claim[3] /= <<>> /\ Claimed(claims, claim) THEN Fail("unique")
      ELSE IF clash /= {} THEN Fail("unique") ELSE Ok(claims \cup (IF claim[3] = <<>> THEN {} ELSE {claim}))
CheckNode(claims, stored, v, written, deleted) ==
  LET schema == v.schema
      required == DeclaredSet(schema.exists, stored.label)
      f == [p \in DOMAIN stored.props \cup {schema.keys[stored.label][i] : i \in DOMAIN stored.key} |->
              CHOOSE x \in StoredAs(stored, p, schema) : TRUE]
      wanted == KeysAscending(DeclaredSet(schema.unique, stored.label) \cap DOMAIN f)
  IN  IF ~(required \subseteq DOMAIN f) THEN Fail("missing")
      ELSE IF NodeTypeViolations(stored, schema) /= {} THEN Fail("type")
      ELSE Each(Ok(claims), wanted, LAMBDA acc, p : UniqueOk(acc, stored, f, p, v, written, deleted))

---------------------------------------------------------------------------
(* Edges                                                                     *)

(* An endpoint is a node written by the statement or a decoded id.           *)
Endpoint(id, keys, known) == IF id \in DOMAIN keys THEN keys[id] ELSE CHOOSE at \in known.nodes : NodeId(at) = id
EdgeOf(r, disc, properties, keys, known) ==
  [src |-> Endpoint(r.start, keys, known), rtype |-> r.type, dst |-> Endpoint(r.end, keys, known),
   disc |-> disc, props |-> properties]

(* bound_edge_key: a stored relationship keeps the key its id encodes.       *)
BoundEdge(r, keys, known) ==
  LET decoded == DecodeEdge(r.id, known)
  IN  IF ~IsOverlay(r.id) /\ decoded /= {} THEN CHOOSE e \in decoded : TRUE ELSE EdgeOf(r, Null, NoFunction, keys, known)

(* created_edge_key and record_without_disc.                                 *)
CreatedEdge(r, keys, v, known) ==
  LET disc == DiscOf(v.schema, r.type)
      build(d, f) == Ok(EdgeOf(r, d, Without(f, disc), keys, known))
  IN  IF disc = 0 THEN Then(StoredMap(r.properties), LAMBDA f : build(Null, f))
      ELSE IF disc \notin DOMAIN r.properties THEN Fail("identity")
      ELSE Then(StoredMap(r.properties), LAMBDA f :
                IF Kind(f[disc]) = "null" \/ Deferred(f[disc]) THEN Fail("identity")
                ELSE IF ~Encodable(f[disc]) THEN Fail("key") ELSE build(f[disc], f))
StageCreatedEdge(acc, r, keys, v, known) ==
  Then(CreatedEdge(r, keys, v, known), LAMBDA e :
       IF \E b \in acc.existing : SameEdge(b, e) THEN Fail("duplicate_edge")
       ELSE IF EdgeTypeViolations(e, v.schema) /= {} THEN Fail("edge_type")
       ELSE Ok([existing |-> acc.existing \cup {e}, ops |-> Append(acc.ops, <<"put", "edge", e>>)]))

DiscKept(f, disc, e) == disc \in DOMAIN f /\ SameStored(f[disc], e.disc)
StageModifiedEdge(ops, r, keys, v, known) ==
  LET bound == BoundEdge(r, keys, known)
      disc == DiscOf(v.schema, bound.rtype)
      changed(f) == [bound EXCEPT !.props = IF disc = 0 THEN f ELSE Without(f, disc)]
  IN  Then(StoredMap(r.properties), LAMBDA f :
           IF disc /= 0 /\ ~DiscKept(f, disc, bound) THEN Fail("identity")
           ELSE IF EdgeTypeViolations(changed(f), v.schema) /= {} THEN Fail("edge_type")
           ELSE Ok(Append(ops, <<"put", "edge", changed(f)>>)))

---------------------------------------------------------------------------
(* persist_changes: the staged operations, deletions before upserts.         *)

Upserted(changes) == changes.createdNodes \o InOrder(changes.modifiedNodes)
Records(nodes, v, deleted, known) ==
  Each(Ok(<<>>), nodes, LAMBDA acc, n :
         Then(NodeKeyAndRecord(n, v.schema), LAMBDA stored : IdentityOk(acc, n, stored, v, deleted, known)))
StagedOps(verb, kind, items) == [i \in DOMAIN items |-> <<verb, kind, items[i]>>]

StagedInOrder(deletions, upserts) == deletions \o upserts

PersistChanges(changes, v, known) ==
  LET nodes == Upserted(changes)
      deleted == UNION {Decode(id, known) : id \in changes.deletedNodes}
      keyed(records) == [id \in {nodes[i].id : i \in DOMAIN nodes} |->
                           At(records[CHOOSE i \in DOMAIN nodes : nodes[i].id = id])]
      rels == InOrder(changes.deletedRels)
      gone(keys) == [i \in DOMAIN rels |-> BoundEdge(rels[i], keys, known)]
      asNode(at) == [id |-> NodeId(at), label |-> at.label, key |-> at.key]
      deletions(keys) == StagedOps("delete", "edge", gone(keys))
                         \o StagedOps("delete", "node", InOrder({asNode(at) : at \in deleted}))
      free(keys) == {b \in v.edges : ~\E i \in DOMAIN rels : SameEdge(gone(keys)[i], b)}
      created(keys, ops) ==
        Each(Ok([existing |-> free(keys), ops |-> ops]), changes.createdRels,
             LAMBDA acc, r : StageCreatedEdge(acc, r, keys, v, known))
      modified(keys, acc) ==
        Each(Ok(acc.ops), InOrder(changes.modifiedRels), LAMBDA ops, r : StageModifiedEdge(ops, r, keys, v, known))
  IN  Then(Records(nodes, v, deleted, known), LAMBDA records :
           Then(Each(Ok({}), records, LAMBDA claims, stored : CheckNode(claims, stored, v, records, deleted)), LAMBDA claims :
                LET keys == keyed(records)
                    staged == StagedInOrder(deletions(keys), StagedOps("put", "node", records))
                IN  Then(created(keys, staged), LAMBDA acc : modified(keys, acc))))

---------------------------------------------------------------------------
(* The session                                                               *)

KnownTo(v, ats) ==
  LET all == {v} \cup {ats[r] : r \in DOMAIN ats}
  IN  [nodes |-> UNION {{At(n) : n \in w.nodes} : w \in all},
       edges |-> UNION {{[e EXCEPT !.props = NoFunction] : e \in w.edges} : w \in all}]
Environment(base, ats, params) ==
  [base |-> base, at |-> [r \in DOMAIN ats |-> SnapshotSource(ats[r])], procs |-> <<>>, params |-> params]

(* bind: strict as soon as the schema declares structure.                    *)
Strict(schema) == DOMAIN schema.keys /= {} \/ DeclaredTypes(schema) /= {} \/ DOMAIN schema.indexes /= {}
BindFor(parsed, v, autodeclare) == BindStatement(parsed, v.schema, Strict(v.schema), autodeclare, <<>>)

(* run_write: the statement bound and run over the locked workspace, its     *)
(* changes replayed, and one save.  Coined relationship types join the       *)
(* schema in the same save, but never while a merge is unfinished.           *)
WithCoined(schema, coined) ==
  [schema EXCEPT !.relTypes = [t \in DOMAIN schema.relTypes \cup coined |-> DeclaredBy(schema.relTypes, t)]]
ExecuteWrite(bound, v, ats, params, limits, late) ==
  IF bound.coined /= {} /\ v.merging THEN Fail("merge_in_progress")
  ELSE Governed(RunVersioned(bound.clauses, Environment(SnapshotSource(v), ats, params)), limits, late)
SaveChanges(bound, done, v, ats) ==
  LET schema == IF bound.coined = {} THEN <<>> ELSE <<WithCoined(v.schema, bound.coined)>>
  IN  Then(PersistChanges(done.changes, v, KnownTo(v, ats)), LAMBDA ops :
           LET saved == SaveInPlace(v, [schema |-> schema, ops |-> ops])
           IN  IF saved.ok THEN Ok(saved.v) ELSE Fail(saved.why))

(* run_read: lazily over the store; a failed read surfaces at the end.       *)
Surfaced(r) == IF r.ok /\ \E i \in DOMAIN r.log : r.log[i][1] = "failed_read" THEN Fail("graph") ELSE r
RunBoundRead(bound, v, ats, params, limits, late) ==
  Surfaced(Governed(RunVersioned(bound.clauses, Environment(StoreSource(v), ats, params)), limits, late))
RunReadStatement(parsed, v, ats, params, limits, late) ==
  Then(BindFor(parsed, v, FALSE), LAMBDA bound : RunBoundRead(bound, v, ats, params, limits, late))
=============================================================================
