-------------------------------- MODULE Fsck --------------------------------
(***************************************************************************)
(* `acetone fsck`: the walk over every workspace and every commit of a     *)
(* graph, the checks it makes of each version, and the memos that keep it  *)
(* from checking the same maps twice.  A repository is a record w:         *)
(*   refs     ref name -> <<"object", id>> or <<"ref", target name>>       *)
(*   shared, anchors, live    names of the refs/acetone/workspaces refs,   *)
(*            of the worktree anchors, of those whose worktree exists      *)
(*   graphs   marker name -> the scope of that graph                       *)
(*   invalid, alone, main     marker names that are no graph name, the     *)
(*            scope of a standalone repository, whether the process runs   *)
(*            in the main worktree                                         *)
(*   objects  id -> blob, tree, commit or tag                              *)
(*   maps     root chunk -> what the tree below it holds                   *)
(*   missing, corrupt    root chunks the store lost or damaged             *)
(* A map of the model is a leaf, or a root chunk above leaves; Prolly and  *)
(* ProllyReads model the trees.                                            *)
(***************************************************************************)
EXTENDS Naturals, Sequences, FiniteSets, SequencesExt

CONSTANTS MaxSymrefDepth, MaxTagPeelDepth

Advisories == {"EdgeAsymmetry", "IndexInconsistency", "Unverified", "ConstraintViolation"}
IsError(finding) == finding.fault[1] \notin Advisories

Verified == [roots |-> {}, manifests |-> {}, inputs |-> {}, chunkSets |-> {}, found |-> {}]
Push(v, origin, faults) == [v EXCEPT !.found = @ \cup {[origin |-> origin, fault |-> f] : f \in faults}]

\* Reading a map: its chunks are there, the root is a node of the recorded
\* height, and the entries decode.
ChunkFaults(w, c) == IF c \in w.missing THEN {<<"MissingChunk", c>>}
                     ELSE IF c \in w.corrupt THEN {<<"CorruptChunk", c>>} ELSE {}
Height(w, root) == IF w.maps[root[1]].leaves = {} THEN 1 ELSE 2
ReadFaults(w, root) ==
    IF root[2] = 0 THEN {<<"MapRoot", root>>}
    ELSE IF ChunkFaults(w, root[1]) # {} THEN ChunkFaults(w, root[1])
    ELSE IF root[2] # Height(w, root) THEN {<<"CorruptChunk", root[1], root[2]>>}
    ELSE UNION {ChunkFaults(w, c) : c \in w.maps[root[1]].leaves}
Readable(w, root) == ReadFaults(w, root) = {} /\ w.maps[root[1]].decodes
Entries(w, root) == w.maps[root[1]].entries

Primary(m) == {m.schema, m.nodes, m.fwd, m.rev}
IndexRoots(m) == {m.indexes[n] : n \in DOMAIN m.indexes}
AllRoots(m) == Primary(m) \cup IndexRoots(m) \cup m.conflicts

---------------------------------------------------------------------------
\* Checks of one version's maps.  Each is a record: whether it runs, the key
\* of its memo, and what it reports.

RootKeyHashOnly(root) == <<root[1]>>
RootKey(root) == root

VerifyMaps(w, origin, m, v) ==
    LET new == {r \in AllRoots(m) : RootKey(r) \notin v.roots}
        clean == {r \in new : ReadFaults(w, r) = {}}
    IN  Push([v EXCEPT !.roots = @ \cup {RootKey(r) : r \in clean}],
             origin, UNION {ReadFaults(w, r) : r \in new})
Sound(v, root) == RootKey(root) \in v.roots

Ends(e) == <<e[1], e[2]>>
EdgeSymmetry(w, m) ==
    LET fwd == {Ends(e) : e \in Entries(w, m.fwd)}
        rev == Entries(w, m.rev)
        differ == IF ~Readable(w, m.fwd) THEN {"forward not decoded"}
                  ELSE IF ~Readable(w, m.rev) THEN {"reverse not decoded"}
                  ELSE {d \in {"no reverse", "no forward"} :
                           IF d = "no reverse" THEN fwd \ rev # {} ELSE rev \ fwd # {}}
    IN  {<<"EdgeAsymmetry", d, m.fwd, m.rev>> : d \in differ}
CheckEdgeSymmetry(w, m, v) ==
    [runs |-> Sound(v, m.fwd) /\ Sound(v, m.rev),
     memo |-> <<"symmetry", m.fwd, m.rev>>, faults |-> EdgeSymmetry(w, m)]

Dangling(w, m) ==
    IF ~(Readable(w, m.nodes) /\ Readable(w, m.fwd)) THEN {}
    ELSE {<<"DanglingEdge", e, m.nodes, m.fwd>> :
             e \in {e \in Entries(w, m.fwd) :
                       ~{e[1], e[2]} \subseteq {n[1] : n \in Entries(w, m.nodes)}}}
CheckReferentialIntegrity(w, m, v) ==
    [runs |-> Sound(v, m.nodes) /\ Sound(v, m.fwd),
     memo |-> <<"referential", m.nodes, m.fwd>>, faults |-> Dangling(w, m)]

DeclaredIndexes(w, m) == {e[2] : e \in {e \in Entries(w, m.schema) : e[1] = "index"}}
IndexInconsistency(w, m, name) ==
    IF ~Readable(w, m.schema) THEN {}
    ELSE IF name \notin DeclaredIndexes(w, m) THEN {<<"IndexInconsistency", "not declared", m.schema, name>>}
    ELSE IF ~Readable(w, m.nodes) THEN {}
    ELSE LET expected == {n[1] : n \in {n \in Entries(w, m.nodes) : n[2]}}
         IN  IF Entries(w, m.indexes[name]) = expected THEN {}
             ELSE {<<"IndexInconsistency", "disagrees", m.nodes, m.indexes[name], name>>}
CheckIndexConsistency(w, m, name, v) ==
    [runs |-> Sound(v, m.nodes) /\ Sound(v, m.indexes[name]),
     memo |-> <<"index", m.schema, m.nodes, m.indexes[name], name>>,
     faults |-> IndexInconsistency(w, m, name)]
\* Not memoised: an index the schema declares and the manifest has no map for.
MissingIndexes(w, m) ==
    IF ~Readable(w, m.schema) THEN {}
    ELSE {<<"IndexInconsistency", "no map", m.schema, n>> : n \in DeclaredIndexes(w, m) \ DOMAIN m.indexes}

Declares(w, m, what) == \E e \in Entries(w, m.schema) : e[1] = what
RelTypeViolations(w, m) ==
    IF ~(Declares(w, m, "typed") /\ Readable(w, m.fwd)) THEN {}
    ELSE {<<"ConstraintViolation", "relationship", e, m.schema, m.fwd>> :
             e \in {e \in Entries(w, m.fwd) : ~e[3]}}
NodeViolations(w, m) ==
    IF ~(Declares(w, m, "required") /\ Readable(w, m.nodes)) THEN {}
    ELSE {<<"ConstraintViolation", "node", n, m.schema, m.nodes>> :
             n \in {n \in Entries(w, m.nodes) : ~n[2]}}
CheckConstraintViolations(w, m, v) ==
    [runs |-> Sound(v, m.schema) /\ Sound(v, m.nodes),
     memo |-> <<"constraints", m.schema, m.nodes>>,
     faults |-> IF Readable(w, m.schema) THEN RelTypeViolations(w, m) \cup NodeViolations(w, m) ELSE {}]

CheckCanonical(w, m, root, v) ==
    [runs |-> Sound(v, root), memo |-> <<"canonical", root, m.params>>,
     faults |-> IF m.params \in w.maps[root[1]].canonical THEN {}
                ELSE {<<"HistoryIndependence", root, m.params>>}]

ContentChecks(w, m, v) ==
    {CheckEdgeSymmetry(w, m, v), CheckReferentialIntegrity(w, m, v), CheckConstraintViolations(w, m, v)}
    \cup {CheckIndexConsistency(w, m, n, v) : n \in DOMAIN m.indexes}
    \cup {CheckCanonical(w, m, r, v) : r \in {m.nodes, m.fwd}}
CheckContent(w, origin, m, v) ==
    LET run == {c \in ContentChecks(w, m, v) : c.runs /\ c.memo \notin v.inputs}
    IN  Push([v EXCEPT !.inputs = @ \cup {c.memo : c \in run}], origin,
             UNION {c.faults : c \in run} \cup IF Sound(v, m.nodes) THEN MissingIndexes(w, m) ELSE {})

CheckManifest(w, origin, key, m, v) ==
    LET seen == [v EXCEPT !.manifests = @ \cup {key}]
    IN  IF key \in v.manifests THEN v
        ELSE IF ~m.decodes THEN Push(seen, origin, {<<"Manifest", "does not decode", key>>})
        ELSE CheckContent(w, origin, m, VerifyMaps(w, origin, m, seen))

---------------------------------------------------------------------------
\* Anchor completeness.  The anchors of a tree or commit: "some" with a set of
\* chunks, "none" without a chunks/ entry, "bad" when it cannot be read.

Anchors(shape, chunks) == [shape |-> shape, chunks |-> chunks]

\* A leaf is collected unread; a root whose chunk is already in the set is
\* not walked again.
Walked(m) ==
    LET s == <<m.schema, m.nodes, m.fwd, m.rev>>
             \o [i \in 1..Cardinality(DOMAIN m.indexes) |-> m.indexes[SetToSortSeq(DOMAIN m.indexes, <)[i]]]
             \o SetToSeq(m.conflicts)
    IN  {s[i] : i \in {i \in DOMAIN s : \A j \in 1..(i - 1) : s[j][1] # s[i][1]}}
Walkable(w, m) == /\ \A r \in AllRoots(m) : r[2] > 0
                  /\ \A r \in Walked(m) : r[2] = 1 \/ (ChunkFaults(w, r[1]) = {} /\ r[2] = Height(w, r))
ManifestChunkSet(w, m) ==
    UNION {{r[1]} \cup (IF r[2] = 1 THEN {} ELSE w.maps[r[1]].leaves) : r \in Walked(m)}

CheckAnchors(w, origin, m, own, coverage, v) ==
    LET hit == {c \in v.chunkSets : c.key = AllRoots(m)}
        set == [key |-> AllRoots(m), chunks |-> ManifestChunkSet(w, m)]
        known == [v EXCEPT !.chunkSets = @ \cup IF hit = {} THEN {set} ELSE {}]
        chunks == (CHOOSE c \in known.chunkSets : c.key = AllRoots(m)).chunks
        version == Last(origin)
        anchored == own.chunks \cup coverage
    IN  IF ~m.decodes THEN v
        ELSE IF hit = {} /\ ~Walkable(w, m) THEN Push(v, origin, {<<"Unverified", "anchors", version>>})
        ELSE IF own.shape = "bad" THEN Push(known, origin, {<<"AnchorIncomplete", "unreadable", version>>})
        ELSE IF chunks \subseteq anchored THEN known
        ELSE Push(known, origin, {<<"AnchorIncomplete", "chunks", version>>})

---------------------------------------------------------------------------
\* Refs.

Hops(w, name) ==
    LET hop[d \in 0..MaxSymrefDepth] ==
            IF d = 0 THEN <<"ref", name>>
            ELSE LET t == hop[d - 1]
                 IN  IF t[1] = "object" THEN t
                     ELSE IF t[2] \in DOMAIN w.refs THEN w.refs[t[2]] ELSE <<"none", 0>>
    IN  hop
ResolveSymref(w, name) ==
    LET hop == Hops(w, name)
        dangling == \E d \in 1..MaxSymrefDepth : hop[d][1] = "none"
    IN  IF dangling THEN <<"none", 0>>
        ELSE IF hop[MaxSymrefDepth][1] = "object" THEN hop[MaxSymrefDepth] ELSE <<"error", 0>>

Present(w, names) == names \cap DOMAIN w.refs
Direct(w, names) == SetToSortSeq({n \in Present(w, names) : w.refs[n][1] = "object"}, <)
Symbolic(w, names) == SetToSortSeq({n \in Present(w, names) : w.refs[n][1] = "ref"}, <)
\* The refs of a namespace that name an object: direct ones, then symbolic ones.
Listed(w, names) ==
    LET resolves(n) == ResolveSymref(w, n)[1] = "object"
        all == Direct(w, names) \o SelectSeq(Symbolic(w, names), resolves)
    IN  [i \in DOMAIN all |-> [name |-> all[i], id |-> ResolveSymref(w, all[i])[2]]]
PushResolvedSymref(w, names, failure, v) ==
    LET of(n) == CASE ResolveSymref(w, n)[1] = "none"  -> {<<"Unverified", "dangling", n>>}
                   [] ResolveSymref(w, n)[1] = "error" -> {<<failure, "symbolic", n>>}
                   [] OTHER -> {}
        push(u, n) == Push(u, <<"ref", n>>, of(n))
    IN  FoldLeft(push, v, Symbolic(w, names))

---------------------------------------------------------------------------
\* Workspaces.

Exists(w, id) == id \in DOMAIN w.objects
Kind(w, id) == IF Exists(w, id) THEN w.objects[id].kind ELSE "absent"
WorkspaceAnchors(w, id) ==
    CASE Kind(w, id) = "blob" -> Anchors("none", {})
      [] Kind(w, id) = "tree" -> w.objects[id].anchors
      [] OTHER -> Anchors("bad", {})
\* The manifest blob behind a workspace ref; 0 when there is none.
WorkspaceManifestHash(w, id) ==
    CASE Kind(w, id) = "blob" -> id
      [] Kind(w, id) = "tree" -> w.objects[id].manifest
      [] OTHER -> 0

CoverageSources(w, scope) == Listed(w, {scope.own}) \o Listed(w, w.anchors \cap w.live)
Coverage(w, scope) ==
    IF Listed(w, w.shared) = <<>> \/ ~w.main THEN {}
    ELSE UNION {WorkspaceAnchors(w, r.id).chunks : r \in Range(CoverageSources(w, scope))}

CheckWorkspace(w, scope, r, v) ==
    LET origin == <<"workspace", r.name>>
        blob == WorkspaceManifestHash(w, r.id)
        m == w.objects[blob].manifest
        covered == IF r.name \in w.shared THEN Coverage(w, scope) ELSE {}
    IN  IF blob = 0 THEN Push(v, origin, {<<"Manifest", "does not resolve", r.name>>})
        ELSE IF Kind(w, blob) # "blob" THEN Push(v, origin, {<<"Manifest", Kind(w, blob), r.name>>})
        ELSE CheckAnchors(w, origin, m, WorkspaceAnchors(w, r.id), covered,
                          CheckManifest(w, origin, blob, m, v))
CheckWorkspaces(w, scope, v) ==
    LET own == {scope.own} \cup scope.presplit
        refs == Listed(w, w.shared) \o Listed(w, own) \o Listed(w, w.anchors)
        each(u, r) == CheckWorkspace(w, scope, r, u)
    IN  FoldLeft(each, PushResolvedSymref(w, w.shared \cup own \cup w.anchors, "Manifest", v), refs)

---------------------------------------------------------------------------
\* Commits.

PeelTag(w, id) ==
    LET hop[d \in 0..MaxTagPeelDepth] ==
            IF d = 0 THEN id
            ELSE LET t == hop[d - 1]
                 IN  IF Kind(w, t) = "tag" THEN w.objects[t].target ELSE t
        last == hop[MaxTagPeelDepth - 1]
    IN  IF Kind(w, last) = "tag" THEN 0 ELSE last

\* The order of the walk: a stack of commits still to visit, those of one tip
\* after those of another, and no commit twice.
Successors(w, isTag, v) ==
    CASE Kind(w, v.id) = "commit" -> [i \in DOMAIN w.objects[v.id].parents |->
                                         [name |-> v.name, id |-> w.objects[v.id].parents[i], tip |-> FALSE]]
      [] Kind(w, v.id) = "tag" /\ isTag /\ v.tip /\ PeelTag(w, v.id) # 0 ->
             <<[name |-> v.name, id |-> PeelTag(w, v.id), tip |-> FALSE]>>
      [] OTHER -> <<>>
Turn(w, isTag, s) ==
    LET v == Last(s.stack)
    IN  IF \E i \in DOMAIN s.order : s.order[i].id = v.id THEN [s EXCEPT !.stack = Front(@)]
        ELSE [stack |-> Front(s.stack) \o Successors(w, isTag, v), order |-> Append(s.order, v)]
\* Each object is visited once and pushes its parents, of which it has at most two.
WalkOrder(w, isTag, names) ==
    LET refs == Listed(w, names)
        tips == [i \in DOMAIN refs |-> [name |-> refs[i].name, id |-> refs[i].id, tip |-> TRUE]]
        turn(s, i) == IF s.stack = <<>> THEN s ELSE Turn(w, isTag, s)
    IN  FoldLeft(turn, [stack |-> Reverse(tips), order |-> <<>>],
                 [i \in 1..(Len(refs) + 2 * Cardinality(DOMAIN w.objects)) |-> i]).order

Visit(w, isTag, visit, v) ==
    LET id == visit.id
        origin == <<"commit", visit.name, id>>
        c == w.objects[id]
        peels == Kind(w, id) = "tag" /\ isTag /\ visit.tip
    IN  IF Kind(w, id) = "commit"
        THEN CheckAnchors(w, origin, c.manifest, c.anchors, {}, CheckManifest(w, origin, id, c.manifest, v))
        ELSE IF peels /\ PeelTag(w, id) # 0 THEN v
        ELSE Push(v, origin, {<<"Commit", IF peels THEN "not peeled" ELSE Kind(w, id), id>>})
CheckCommitTips(w, names, isTag, v) ==
    LET each(u, visit) == Visit(w, isTag, visit, u)
    IN  FoldLeft(each, PushResolvedSymref(w, names, "Commit", v), WalkOrder(w, isTag, names))

---------------------------------------------------------------------------
\* Scopes: a standalone repository, one graph, or each of several in turn.

CheckStore(w, scope) ==
    CheckCommitTips(w, scope.tags, TRUE,
        CheckCommitTips(w, scope.branches, FALSE, CheckWorkspaces(w, scope, Verified))).found

Scopes(w) ==
    CASE Cardinality(DOMAIN w.graphs) = 0 -> {w.alone}
      [] Cardinality(DOMAIN w.graphs) = 1 ->
             {w.graphs[g] : g \in DOMAIN w.graphs \ w.invalid}
             \cup IF DOMAIN w.graphs \cap w.invalid = {} THEN {} ELSE {w.alone}
      [] OTHER -> {w.graphs[g] : g \in DOMAIN w.graphs \ w.invalid}
CheckPath(w) ==
    UNION {CheckStore(w, s) : s \in Scopes(w)}
    \cup {[origin |-> <<"ref", g>>, fault |-> <<"Unverified", "graph name", g>>] :
             g \in {g \in w.invalid \cap DOMAIN w.graphs : Cardinality(DOMAIN w.graphs) > 1}}
=============================================================================
