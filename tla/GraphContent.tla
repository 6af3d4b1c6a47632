---------------------------- MODULE GraphContent ----------------------------
(***************************************************************************)
(* The graph a manifest describes, and the pure functions the write and     *)
(* merge paths apply to it: the three-way merge of merge.rs and             *)
(* cell_merge.rs, the post-merge validation, the conflicts map of           *)
(* conflicts.rs and the transaction's referential-integrity check.          *)
(*                                                                         *)
(* A graph maps every key to its record.  A record is Absent, Bare (present *)
(* and without the one property the model tracks) or the value of that      *)
(* property.  An edge key determines its endpoint nodes.  Secondary labels, *)
(* further properties, schema entries and the maps derived from these two   *)
(* (edges_rev, indexes) are left out.                                       *)
(***************************************************************************)
EXTENDS Naturals, FiniteSets

CONSTANTS Node, Edge,   \* the keys of the `nodes` and `edges_fwd` maps
          Ends,         \* Ends[e]: the endpoint nodes encoded in edge key e
          Val           \* the values of the tracked property

Absent == "absent"
Bare == "bare"
Key == Node \union Edge
Record == {Absent, Bare} \union Val
Graph == [Key -> Record]
Blank == [k \in Key |-> Absent]

ASSUME KeysAssumption ==
  /\ Node \intersect Edge = {}
  /\ Ends \in [Edge -> SUBSET Node]
  /\ Absent \notin Val /\ Bare \notin Val

-----------------------------------------------------------------------------
(* Referential integrity.                                                   *)

\* An edge whose endpoint node is missing.
Dangling(g) == {e \in Edge : g[e] # Absent /\ \E n \in Ends[e] : g[n] = Absent}

\* A graph whose every edge has its endpoints.
WellFormed(g) == Dangling(g) = {}

\* The staged writes of one transaction: a partial function from keys to the
\* record put there (Absent for a delete).
Writes == UNION {[K -> Record] : K \in SUBSET Key}

Applied(g, w) == [k \in Key |-> IF k \in DOMAIN w THEN w[k] ELSE g[k]]

\* check_referential_integrity: each edge put has its endpoints in the new
\* graph, and no edge survives a node deleted.
IntegrityHolds(g, w) ==
  LET new == Applied(g, w) IN
  /\ \A e \in Edge \intersect DOMAIN w :
        w[e] # Absent => \A n \in Ends[e] : new[n] # Absent
  /\ \A n \in Node \intersect DOMAIN w :
        w[n] = Absent => \A e \in Edge : n \in Ends[e] => new[e] = Absent

-----------------------------------------------------------------------------
(* Three-way merge of one key.                                              *)

\* The property of a record; a missing record merges as an empty one.
Property(r) == IF r = Absent THEN Bare ELSE r

\* prolly merge: both sides changed the key, and differently.
Disputed(b, o, t) == o # t /\ o # b /\ t # b

\* Delete against modify: the record's existence is what is disputed.
RecordConflict(b, o, t) ==
  Disputed(b, o, t) /\ (o = Absent \/ t = Absent)

\* Both sides hold the record and set its property differently.
PropertyConflict(b, o, t) ==
  /\ Disputed(b, o, t)
  /\ o # Absent /\ t # Absent
  /\ Property(o) # Property(b) /\ Property(t) # Property(b)

\* The merged record: the side that changed; a disputed record is left out
\* and a disputed property is left out of its record.
MergedRecord(b, o, t) ==
  CASE RecordConflict(b, o, t)   -> Absent
    [] PropertyConflict(b, o, t) -> Bare
    [] o = t                     -> o
    [] o = b                     -> t
    [] t = b                     -> o
    [] OTHER                     -> IF Property(o) = Property(b) THEN t ELSE o

MergedGraph(b, o, t) == [k \in Key |-> MergedRecord(b[k], o[k], t[k])]

-----------------------------------------------------------------------------
(* Conflict entries: <<key, kind>>.                                         *)

Kind == {"record", "property", "graph"}
Entry == Key \X Kind

CellEntries(b, o, t) ==
  {x \in Entry : \/ x[2] = "record" /\ RecordConflict(b[x[1]], o[x[1]], t[x[1]])
                 \/ x[2] = "property" /\ PropertyConflict(b[x[1]], o[x[1]], t[x[1]])}

\* validate_merged's dangling-edge check: only breaches the merge introduced
\* relative to its base, by adding the edge or deleting the endpoint.
Introduced(b, m) ==
  {e \in Edge : /\ m[e] # Absent
                /\ \E n \in Ends[e] : /\ m[n] = Absent
                                      /\ b[e] = Absent \/ b[n] # Absent}

\* merge_manifests: cell conflicts short-circuit the graph validation.
MergeEntries(b, o, t) ==
  LET cells == CellEntries(b, o, t) IN
  IF cells # {} THEN cells
  ELSE Introduced(b, MergedGraph(b, o, t)) \X {"graph"}

Cells(entries) == {x \in entries : x[2] # "graph"}
Markers(entries) == {x \in entries : x[2] = "graph"}

\* clear_written: writing a conflicted key resolves its cell entries; a graph
\* marker is never cleared by a write.
ClearWritten(entries, K) == {x \in entries : x[2] = "graph" \/ x[1] \notin K}

\* resolve_conflicts_from: the write that takes each disputed cell from one
\* side.  A property conflict keeps the merged record and sets its property.
Resolution(entries, source) ==
  [k \in {x[1] : x \in Cells(entries)} |->
     IF <<k, "record">> \in entries THEN source[k] ELSE Property(source[k])]
=============================================================================
