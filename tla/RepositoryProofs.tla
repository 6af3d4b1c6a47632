-------------------------- MODULE RepositoryProofs --------------------------
(* Theorems about Repository, and the graph functions of GraphContent it     *)
(* stores, for every graph, set of branches and bound.                       *)
EXTENDS Repository, TLAPS

-----------------------------------------------------------------------------
(* The graphs.                                                               *)

\* The graphs the functions build are graphs.
LEMMA GraphTypes ==
  /\ Blank \in Graph
  /\ \A g \in Graph, w \in Writes : Applied(g, w) \in Graph
  /\ \A b, o, t \in Graph : MergedGraph(b, o, t) \in Graph
<1>1. Blank \in Graph
  BY DEF Blank, Graph, Record
<1>2. ASSUME NEW g \in Graph, NEW w \in Writes PROVE Applied(g, w) \in Graph
  <2>1. PICK K \in SUBSET Key : w \in [K -> Record]
    BY <1>2 DEF Writes
  <2> QED BY <1>2, <2>1 DEF Applied, Graph
<1>3. ASSUME NEW b \in Graph, NEW o \in Graph, NEW t \in Graph
      PROVE MergedGraph(b, o, t) \in Graph
  <2>1. ASSUME NEW k \in Key PROVE MergedRecord(b[k], o[k], t[k]) \in Record
    BY <1>3, <2>1 DEF MergedRecord, RecordConflict, PropertyConflict, Disputed,
                      Graph, Record
  <2> QED BY <2>1 DEF MergedGraph, Graph
<1> QED BY <1>1, <1>2, <1>3

\* The empty graph has no dangling edge.
LEMMA BlankWellFormed == WellFormed(Blank)
BY KeysAssumption DEF WellFormed, Dangling, Blank, Key

\* check_referential_integrity is enough: a transaction it accepts keeps a
\* graph without dangling edges free of them, although it looks only at the
\* edges put and the nodes deleted.
THEOREM SaveKeepsWellFormed ==
  ASSUME NEW g \in Graph, NEW w \in Writes,
         WellFormed(g), IntegrityHolds(g, w)
  PROVE  WellFormed(Applied(g, w))
<1> DEFINE new == Applied(g, w)
<1>1. SUFFICES ASSUME NEW e \in Edge, new[e] # Absent,
                      NEW n \in Ends[e], new[n] = Absent
               PROVE FALSE
  BY DEF WellFormed, Dangling
<1>2. n \in Node /\ e \in Key /\ n \in Key /\ n # e
  BY <1>1, KeysAssumption DEF Key
<1>3. CASE e \in DOMAIN w
  <2>1. new[e] = w[e]
    BY <1>2, <1>3 DEF Applied
  <2> QED BY <1>1, <1>2, <1>3, <2>1 DEF IntegrityHolds
<1>4. CASE e \notin DOMAIN w /\ n \in DOMAIN w
  <2>1. new[n] = w[n]
    BY <1>2, <1>4 DEF Applied
  <2> QED BY <1>1, <1>2, <1>4, <2>1 DEF IntegrityHolds
<1>5. CASE e \notin DOMAIN w /\ n \notin DOMAIN w
  <2>1. new[e] = g[e] /\ new[n] = g[n]
    BY <1>2, <1>5 DEF Applied
  <2> QED BY <1>1, <2>1 DEF WellFormed, Dangling
<1> QED BY <1>3, <1>4, <1>5

\* validate_merged is enough: reporting only the dangling edges the merge
\* introduced over its base finds every one, when the base has none.
THEOREM ValidationComplete ==
  ASSUME NEW b \in Graph, NEW m \in Graph,
         WellFormed(b), Introduced(b, m) = {}
  PROVE  WellFormed(m)
BY DEF WellFormed, Dangling, Introduced

\* A merge reported clean has no dangling edge.
THEOREM CleanMergeWellFormed ==
  ASSUME NEW b \in Graph, NEW o \in Graph, NEW t \in Graph,
         WellFormed(b), MergeEntries(b, o, t) = {}
  PROVE  WellFormed(MergedGraph(b, o, t))
<1> DEFINE m == MergedGraph(b, o, t)
<1>1. Introduced(b, m) \X {"graph"} = {}
  BY DEF MergeEntries
<1>2. Introduced(b, m) = {}
  <2>1. ASSUME NEW e \in Introduced(b, m) PROVE FALSE
    <3>1. <<e, "graph">> \in Introduced(b, m) \X {"graph"}
      BY <2>1
    <3> QED BY <1>1, <3>1
  <2> QED BY <2>1
<1>3. m \in Graph
  BY GraphTypes
<1> QED BY <1>2, <1>3, ValidationComplete

\* Which side is called ours does not matter: the merged graph and the
\* conflicts are the same.
THEOREM MergeSymmetric ==
  ASSUME NEW b \in Graph, NEW o \in Graph, NEW t \in Graph
  PROVE  /\ MergedGraph(b, o, t) = MergedGraph(b, t, o)
         /\ CellEntries(b, o, t) = CellEntries(b, t, o)
<1>1. \A x, y, z \in Record :
         /\ RecordConflict(x, y, z) <=> RecordConflict(x, z, y)
         /\ PropertyConflict(x, y, z) <=> PropertyConflict(x, z, y)
  BY DEF RecordConflict, PropertyConflict, Disputed
<1>2. \A x, y, z \in Record : MergedRecord(x, y, z) = MergedRecord(x, z, y)
  BY DEF MergedRecord, RecordConflict, PropertyConflict, Disputed, Property
<1>3. \A k \in Key : b[k] \in Record /\ o[k] \in Record /\ t[k] \in Record
  BY DEF Graph
<1>4. MergedGraph(b, o, t) = MergedGraph(b, t, o)
  BY <1>2, <1>3 DEF MergedGraph
<1>5. CellEntries(b, o, t) = CellEntries(b, t, o)
  BY <1>1, <1>3 DEF CellEntries, Entry
<1> QED BY <1>4, <1>5

-----------------------------------------------------------------------------
(* What writing a commit does to the object store.                          *)

\* A new commit's record, and the old ones, after create_commit.
LEMMA AppendCommit ==
  ASSUME TypeOK, Len(commits) < MaxCommits,
         NEW p \in Ids \union {0}, NEW q \in Ids \union {0}, NEW g \in Graph,
         commits' = Append(commits, NewCommit(Parents(p, q), g))
  PROVE  LET n == Len(commits) + 1 IN
         /\ commits' \in Seq(Commit) /\ Len(commits') = n
         /\ Ids = 1..Len(commits) /\ Ids' = 1..n /\ Ids' = Ids \union {n}
         /\ \A c \in Ids : commits'[c] = commits[c]
         /\ commits'[n].parents = Parents(p, q) /\ commits'[n].graph = g
         /\ n \in commits'[n].anc /\ commits'[n].anc \subseteq 1..n
         /\ p # 0 => Anc(p) \subseteq commits'[n].anc
         /\ \A i \in DOMAIN Parents(p, q) : Parents(p, q)[i] \in Ids
<1> DEFINE n == Len(commits) + 1
           r == NewCommit(Parents(p, q), g)
           P == {Parents(p, q)[i] : i \in DOMAIN Parents(p, q)}
<1>1. /\ commits \in Seq(Commit) /\ Len(commits) \in Nat
      /\ Ids = 1..Len(commits) /\ MaxCommits \in Nat
  BY RepositoryAssumption DEF TypeOK, Ids
<1>2. /\ Parents(p, q) \in Seq(CommitId)
      /\ \A i \in DOMAIN Parents(p, q) : Parents(p, q)[i] \in Ids
      /\ p # 0 => p \in P
  <2>1. Ids \subseteq CommitId /\ 0 \notin Ids
    BY <1>1 DEF CommitId, TypeOK
  <2>2. CASE p = 0 /\ q = 0
    BY <2>2 DEF Parents
  <2>3. CASE p = 0 /\ q # 0
    BY <2>1, <2>3 DEF Parents
  <2>4. CASE p # 0 /\ q = 0
    <3>1. Parents(p, q) = <<p>> /\ p \in Ids /\ p \in CommitId
      BY <2>1, <2>4 DEF Parents
    <3>2. p \in P
      <4>1. 1 \in DOMAIN Parents(p, q) /\ Parents(p, q)[1] = p
        BY <3>1
      <4> QED BY <4>1
    <3> QED BY <3>1, <3>2
  <2>5. CASE p # 0 /\ q # 0
    <3>1. Parents(p, q) = <<p, q>> /\ p \in Ids /\ q \in Ids
          /\ p \in CommitId /\ q \in CommitId
      BY <2>1, <2>5 DEF Parents
    <3>2. p \in P
      <4>1. 1 \in DOMAIN Parents(p, q) /\ Parents(p, q)[1] = p
        BY <3>1
      <4> QED BY <4>1
    <3> QED BY <3>1, <3>2
  <2> QED BY <2>2, <2>3, <2>4, <2>5
<1>3. P \subseteq Ids
  BY <1>2
<1>4. \A c \in Ids : Anc(c) \subseteq 1..n
  BY <1>1 DEF TypeOK
<1>5. n \in r.anc /\ r.anc \subseteq 1..n
  <2>1. r.anc = {n} \union UNION {Anc(c) : c \in P}
    BY DEF NewCommit
  <2>2. n \in 1..n
    BY <1>1
  <2>3. \A c \in P : Anc(c) \subseteq 1..n
    BY <1>3, <1>4
  <2> HIDE DEF n, P, r
  <2> QED BY <2>1, <2>2, <2>3
<1>6. p # 0 => Anc(p) \subseteq r.anc
  BY <1>2 DEF NewCommit
<1>7. r \in Commit /\ r.parents = Parents(p, q) /\ r.graph = g
  <2>1. r.anc \in SUBSET CommitId
    BY <1>1, <1>5 DEF CommitId
  <2>2. /\ r.parents = Parents(p, q) /\ r.graph = g
        /\ r = [parents |-> r.parents, anc |-> r.anc, graph |-> r.graph]
    BY DEF NewCommit
  <2> HIDE DEF r
  <2> QED BY <1>2, <2>1, <2>2 DEF Commit
<1>8. /\ commits' \in Seq(Commit) /\ Len(commits') = n
      /\ commits'[n] = r /\ \A c \in Ids : commits'[c] = commits[c]
  BY <1>1, <1>7
<1>9. Ids' = 1..n /\ Ids' = Ids \union {n}
  BY <1>1, <1>8 DEF Ids
<1> QED BY <1>1, <1>2, <1>5, <1>6, <1>7, <1>8, <1>9

-----------------------------------------------------------------------------
(* Types of what the actions build.                                         *)

\* The conflict entries of a merge, what a write leaves of them, and the
\* writes of a resolution are of their types.
LEMMA EntryTypes ==
  /\ \A b, o, t \in Graph : MergeEntries(b, o, t) \in SUBSET Entry
  /\ \A E \in SUBSET Entry : \A K : ClearWritten(E, K) \in SUBSET Entry
  /\ \A E \in SUBSET Entry, g \in Graph : Resolution(E, g) \in Writes
<1>1. ASSUME NEW b \in Graph, NEW o \in Graph, NEW t \in Graph
      PROVE MergeEntries(b, o, t) \in SUBSET Entry
  <2>1. CellEntries(b, o, t) \in SUBSET Entry
    BY DEF CellEntries
  <2>2. Introduced(b, MergedGraph(b, o, t)) \X {"graph"} \in SUBSET Entry
    BY DEF Introduced, Entry, Key, Kind
  <2> QED BY <2>1, <2>2 DEF MergeEntries
<1>2. ASSUME NEW E \in SUBSET Entry, NEW K
      PROVE ClearWritten(E, K) \in SUBSET Entry
  BY DEF ClearWritten
<1>3. ASSUME NEW E \in SUBSET Entry, NEW g \in Graph
      PROVE Resolution(E, g) \in Writes
  <2> DEFINE K == {x[1] : x \in Cells(E)}
  <2>1. K \in SUBSET Key
    BY DEF Cells, Entry
  <2>2. \A k \in K : g[k] \in Record /\ Property(g[k]) \in Record
    BY <2>1 DEF Graph, Property, Record
  <2>3. Resolution(E, g) \in [K -> Record]
    BY <2>2 DEF Resolution
  <2> QED BY <2>1, <2>3 DEF Writes
<1> QED BY <1>1, <1>2, <1>3

\* Every manifest the code stores under the workspace ref is a manifest: a
\* committed one, a saved, resolved, marked or conflicted one.
LEMMA ManifestTypes ==
  ASSUME TypeOK
  PROVE  /\ \A g \in Graph : Committed(g) \in Manifest
         /\ \A c \in Ids : commits[c].graph \in Graph
         /\ HeadGraph \in Graph
         /\ ws.graph \in Graph /\ ws.entries \in SUBSET Entry
         /\ Tip \in Ids \union {0}
         /\ \A w \in Writes : Saved(w) \in Manifest
<1>1. \A g \in Graph : Committed(g) \in Manifest
  BY RepositoryAssumption DEF Committed, Manifest, Ref
<1>2. \A c \in Ids : commits[c].graph \in Graph
  <2>1. \A c \in Ids : commits[c] \in Commit
    BY DEF TypeOK, Ids
  <2> QED BY <2>1 DEF Commit
<1>3. Tip \in Ids \union {0}
  BY DEF TypeOK, Tip
<1>4. HeadGraph \in Graph
  BY <1>2, <1>3, GraphTypes DEF HeadGraph
<1>5. ws.graph \in Graph /\ ws.entries \in SUBSET Entry
  BY DEF TypeOK, Manifest
<1>6. ASSUME NEW w \in Writes PROVE Saved(w) \in Manifest
  <2>1. Applied(ws.graph, w) \in Graph
    BY <1>5, GraphTypes
  <2>2. ClearWritten(ws.entries, DOMAIN w) \in SUBSET Entry
    BY <1>5, EntryTypes
  <2>3. ws \in Manifest
    BY DEF TypeOK
  <2> QED BY <2>1, <2>2, <2>3 DEF Saved, Manifest
<1> QED BY <1>1, <1>2, <1>3, <1>4, <1>5, <1>6

\* Steps that write no commit and move no branch keep the type invariant when
\* what they assign has its type.
LEMMA TypeQuiet ==
  ASSUME TypeOK, UNCHANGED <<commits, branch>>,
         head' \in Branch, ws' \in Manifest, mergeHead' \in Ids \union {0},
         op' \in Op, op'.tip \in Ids \union {0}, op'.theirs \in Ids \union {0},
         Operands', pick' \in Ids \union {0}, deleting' \subseteq Branch
  PROVE  TypeOK'
<1>1. Ids' = Ids /\ \A c \in Ids : Anc(c)' = Anc(c)
  BY DEF Ids, Anc
<1> QED BY <1>1 DEF TypeOK

\* No operation holds the lock, and none of its commits is named.
LEMMA IdleType ==
  Idle \in Op /\ Idle.pc = "idle" /\ Idle.tip = 0 /\ Idle.theirs = 0
BY RepositoryAssumption DEF Idle, Op, Pc, Ref

\* Steps that write a commit, or move a branch to one that exists, do too.
LEMMA TypeMove ==
  ASSUME TypeOK, NEW b \in Branch, NEW c \in Ids' \union {0},
         \/ commits' = commits
         \/ /\ Len(commits) < MaxCommits
            /\ \E p, q \in Ids \union {0}, g \in Graph :
                  commits' = Append(commits, NewCommit(Parents(p, q), g)),
         branch' = [branch EXCEPT ![b] = c],
         UNCHANGED <<head, mergeHead, pick>>, ws' \in Manifest,
         op' \in Op, op'.tip \in {0, op.tip}, op'.theirs \in {0, op.theirs},
         Operands', deleting' \subseteq Branch
  PROVE  TypeOK'
<1>1. /\ Ids \subseteq Ids' /\ commits' \in Seq(Commit)
      /\ Len(commits') <= MaxCommits
  <2>1. CASE commits' = commits
    BY <2>1 DEF TypeOK, Ids
  <2>2. CASE commits' # commits
    <3>1. PICK p \in Ids \union {0}, q \in Ids \union {0}, g \in Graph :
             commits' = Append(commits, NewCommit(Parents(p, q), g))
      BY <2>2
    <3>2. Len(commits) \in Nat /\ MaxCommits \in Nat
      BY RepositoryAssumption DEF TypeOK
    <3>3. /\ commits' \in Seq(Commit) /\ Len(commits') = Len(commits) + 1
          /\ Ids' = Ids \union {Len(commits) + 1}
      BY <2>2, <3>1, AppendCommit
    <3> QED BY <2>2, <3>2, <3>3
  <2> QED BY <2>1, <2>2
<1>2. \A d \in Ids' : /\ d \in Anc(d)' /\ Anc(d)' \subseteq 1..d
                      /\ \A i \in DOMAIN commits'[d].parents :
                            commits'[d].parents[i] \in 1..(d - 1)
  <2>1. CASE commits' = commits
    BY <2>1 DEF TypeOK, Ids, Anc
  <2>2. CASE commits' # commits
    <3>1. PICK p \in Ids \union {0}, q \in Ids \union {0}, g \in Graph :
             commits' = Append(commits, NewCommit(Parents(p, q), g))
      BY <2>2
    <3> DEFINE n == Len(commits) + 1
    <3>2. /\ Ids = 1..Len(commits) /\ Ids' = Ids \union {n}
          /\ \A d \in Ids : commits'[d] = commits[d]
          /\ commits'[n].parents = Parents(p, q)
          /\ n \in commits'[n].anc /\ commits'[n].anc \subseteq 1..n
          /\ \A i \in DOMAIN Parents(p, q) : Parents(p, q)[i] \in Ids
      BY <2>2, <3>1, AppendCommit
    <3>3. Len(commits) \in Nat
      BY DEF TypeOK
    <3> HIDE DEF n
    <3>4. ASSUME NEW d \in Ids
          PROVE /\ d \in Anc(d)' /\ Anc(d)' \subseteq 1..d
                /\ \A i \in DOMAIN commits'[d].parents :
                      commits'[d].parents[i] \in 1..(d - 1)
      BY <3>2 DEF TypeOK, Anc
    <3>5. \A i \in DOMAIN commits'[n].parents :
             commits'[n].parents[i] \in 1..(n - 1)
      BY <3>2, <3>3 DEF n
    <3> QED BY <3>2, <3>4, <3>5 DEF Anc
  <2> QED BY <2>1, <2>2
<1>3. branch' \in [Branch -> Ids' \union {0}]
  BY <1>1 DEF TypeOK
<1> QED BY <1>1, <1>2, <1>3 DEF TypeOK

\* Every step of every operation keeps the type invariant.
LEMMA TypeStep == TypeOK /\ [Next]_vars => TypeOK'
<1> SUFFICES ASSUME TypeOK, [Next]_vars PROVE TypeOK'
  OBVIOUS
<1> USE DEF Op, Pc, Ref
<1>t. /\ head \in Branch /\ ws \in Manifest /\ mergeHead \in Ids \union {0}
      /\ op \in Op /\ op.tip \in Ids \union {0} /\ op.theirs \in Ids \union {0}
      /\ pick \in Ids \union {0} /\ deleting \subseteq Branch
      /\ Operands /\ Idle \in Op /\ Idle.pc = "idle" /\ Idle.tip = 0 /\ Idle.theirs = 0
      /\ Ids = 1..Len(commits) /\ Ids \subseteq Ref /\ Tip \in Ids \union {0}
      /\ branch \in [Branch -> Ids \union {0}] /\ op.target \in Branch
      /\ MaxCommits \in Nat /\ Len(commits) \in Nat /\ 0 \notin Ids
  BY IdleType, ManifestTypes, RepositoryAssumption DEF TypeOK, Ids
<1> HIDE DEF Idle
<1>1. ASSUME NEW w \in Batch, Save(w) PROVE TypeOK'
  BY <1>1, <1>t, ManifestTypes, TypeQuiet, RepositoryAssumption
     DEF Save, Operands
<1>2. ASSUME NEW w \in Batch \union {<<>>}, CommitStart(w) PROVE TypeOK'
  <2>1. ws' \in Manifest
    BY <1>2, <1>t, ManifestTypes, RepositoryAssumption DEF CommitStart
  <2>2. /\ op' \in Op /\ op'.tip \in Ids \union {0} /\ op'.theirs \in Ids \union {0}
        /\ Operands'
    BY <1>2, <1>t DEF Operands, CommitStart, Idle
  <2> QED BY <1>2, <1>t, <2>1, <2>2, TypeQuiet DEF Operands, CommitStart
<1>3. ASSUME CommitParent PROVE TypeOK'
  <2>1. /\ op' \in Op /\ op'.tip \in Ids \union {0} /\ op'.theirs \in Ids \union {0}
        /\ Operands'
    BY <1>3, <1>t DEF Operands, CommitParent
  <2> QED BY <1>3, <1>t, <2>1, TypeQuiet DEF Operands, CommitParent
<1>4. ASSUME NEW e \in AllowEmpty, CommitGuard(e) PROVE TypeOK'
  <2>1. ws' \in Manifest
    BY <1>4, <1>t, ManifestTypes DEF CommitGuard, Manifest
  <2>2. /\ op' \in Op /\ op'.tip \in Ids \union {0} /\ op'.theirs \in Ids \union {0}
        /\ Operands'
    BY <1>4, <1>t DEF Operands, CommitGuard
  <2> QED BY <1>4, <1>t, <2>1, <2>2, TypeQuiet DEF Operands, CommitGuard
<1>5. ASSUME NEW e \in AllowEmpty, CommitRefused(e) PROVE TypeOK'
  BY <1>5, <1>t, TypeQuiet DEF Operands, CommitRefused
<1>6. ASSUME CommitDone PROVE TypeOK'
  BY <1>6, <1>t, TypeQuiet DEF Operands, CommitDone
<1>7. ASSUME NEW t \in Ids, MergeStart(t) PROVE TypeOK'
  <2>1. /\ op' \in Op /\ op'.tip \in Ids \union {0} /\ op'.theirs \in Ids \union {0}
        /\ Operands'
    BY <1>7, <1>t DEF Operands, MergeStart, Idle
  <2> QED BY <1>7, <1>t, <2>1, TypeQuiet DEF Operands, MergeStart
<1>8. ASSUME MergeUpToDate \/ NoMergeBase \/ BranchConflict \/ Interrupt PROVE TypeOK'
  BY <1>8, <1>t, TypeQuiet DEF Operands, MergeUpToDate, NoMergeBase, BranchConflict, Interrupt
<1>9. ASSUME ForwardWorkspace PROVE TypeOK'
  <2>1. ws' \in Manifest
    BY <1>9, <1>t, ManifestTypes DEF Operands, ForwardWorkspace
  <2>2. /\ op' \in Op /\ op'.tip \in Ids \union {0} /\ op'.theirs \in Ids \union {0}
        /\ Operands'
    BY <1>9, <1>t DEF Operands, ForwardWorkspace
  <2> QED BY <1>9, <1>t, <2>1, <2>2, TypeQuiet DEF Operands, ForwardWorkspace
<1>10. ASSUME NEW base \in Ids, MergeClean(base) PROVE TypeOK'
  <2>1. ws' \in Manifest
    BY <1>10, <1>t, ManifestTypes, GraphTypes, EntryTypes DEF MergeClean, MergedOver, EntriesOver, Diverged, Operands
  <2>2. /\ op' \in Op /\ op'.tip \in Ids \union {0} /\ op'.theirs \in Ids \union {0}
        /\ Operands'
    BY <1>10, <1>t DEF Operands, MergeClean, Diverged, MergedOver, EntriesOver
  <2> QED BY <1>10, <1>t, <2>1, <2>2, TypeQuiet DEF MergeClean, MergedOver, EntriesOver
<1>11. ASSUME NEW base \in Ids, MergeConflicts(base) PROVE TypeOK'
  <2>1. ws' \in Manifest
    <3> DEFINE b == commits[base].graph
               o == commits[Tip].graph
               t == commits[op.theirs].graph
    <3>1. b \in Graph /\ o \in Graph /\ t \in Graph
      BY <1>11, <1>t, ManifestTypes DEF MergeConflicts, Diverged, MergedOver, EntriesOver, Operands
    <3>2. ws' = [graph |-> MergedGraph(b, o, t), marked |-> TRUE,
                 entries |-> MergeEntries(b, o, t), from |-> op.theirs]
      BY <1>11 DEF MergeConflicts, MergedOver, EntriesOver
    <3> HIDE DEF b, o, t
    <3>3. MergedGraph(b, o, t) \in Graph /\ MergeEntries(b, o, t) \in SUBSET Entry
      BY <3>1, GraphTypes, EntryTypes
    <3> QED BY <1>t, <3>2, <3>3 DEF Manifest
  <2>2. /\ op' \in Op /\ op'.tip \in Ids \union {0} /\ op'.theirs \in Ids \union {0}
        /\ Operands'
    BY <1>11, <1>t DEF Operands, MergeConflicts, Diverged, MergedOver, EntriesOver
  <2> QED BY <1>11, <1>t, <2>1, <2>2, TypeQuiet DEF MergeConflicts, MergedOver, EntriesOver
<1>12. ASSUME MergeDone PROVE TypeOK'
  BY <1>12, <1>t, TypeQuiet DEF Operands, MergeDone
<1>13. ASSUME DropMergeHead \/ MarkMergeHead PROVE TypeOK'
  BY <1>13, <1>t, TypeQuiet DEF Operands, DropMergeHead, MarkMergeHead
<1>14. ASSUME AbortStart PROVE TypeOK'
  <2>1. ws' \in Manifest
    BY <1>14, <1>t, ManifestTypes DEF AbortStart, Manifest
  <2>2. /\ op' \in Op /\ op'.tip \in Ids \union {0} /\ op'.theirs \in Ids \union {0}
        /\ Operands'
    BY <1>14, <1>t DEF Operands, AbortStart, Idle
  <2> QED BY <1>14, <1>t, <2>1, <2>2, TypeQuiet DEF Operands, AbortStart
<1>15. ASSUME AbortMergeHead PROVE TypeOK'
  <2>1. /\ op' \in Op /\ op'.tip \in Ids \union {0} /\ op'.theirs \in Ids \union {0}
        /\ Operands'
    BY <1>15, <1>t DEF Operands, AbortMergeHead
  <2> QED BY <1>15, <1>t, <2>1, TypeQuiet DEF Operands, AbortMergeHead
<1>16. ASSUME AbortReset PROVE TypeOK'
  <2>1. ws' \in Manifest
    BY <1>16, <1>t, ManifestTypes DEF Operands, AbortReset
  <2> QED BY <1>16, <1>t, <2>1, TypeQuiet DEF Operands, AbortReset
<1>17. ASSUME NEW side \in {"ours", "theirs"}, ResolveRead(side) PROVE TypeOK'
  BY <1>17, <1>t, TypeQuiet DEF Operands, ResolveRead
<1>18. ASSUME NEW c \in Ids, ResolveSave(c) PROVE TypeOK'
  <2>1. ws' \in Manifest
    BY <1>18, <1>t, ManifestTypes, GraphTypes, EntryTypes DEF ResolveSave, Manifest
  <2> QED BY <1>18, <1>t, <2>1, TypeQuiet DEF Operands, ResolveSave
<1>19. ASSUME ResolveRefused PROVE TypeOK'
  BY <1>19, <1>t, TypeQuiet DEF Operands, ResolveRefused
<1>20. ASSUME Discard \/ Reset PROVE TypeOK'
  <2>1. ws' \in Manifest
    BY <1>20, <1>t, ManifestTypes DEF Discard, Reset
  <2> QED BY <1>20, <1>t, <2>1, TypeQuiet DEF Operands, Discard, Reset
<1>21. ASSUME NEW b \in Branch, CheckoutStart(b) PROVE TypeOK'
  <2>1. /\ op' \in Op /\ op'.tip \in Ids \union {0} /\ op'.theirs \in Ids \union {0}
        /\ Operands'
    BY <1>21, <1>t DEF Operands, CheckoutStart, Idle
  <2> QED BY <1>21, <1>t, <2>1, TypeQuiet DEF Operands, CheckoutStart
<1>22. ASSUME CheckoutFast PROVE TypeOK'
  <2>1. ws' \in Manifest
    BY <1>22, <1>t, ManifestTypes DEF CheckoutFast, Manifest
  <2> QED BY <1>22, <1>t, <2>1, TypeQuiet DEF Operands, CheckoutFast
<1>23. ASSUME CheckoutRefused \/ CheckoutHead PROVE TypeOK'
  BY <1>23, <1>t, TypeQuiet DEF Operands, CheckoutRefused, CheckoutHead
<1>24. ASSUME CheckoutWorkspace PROVE TypeOK'
  <2>1. ws' \in Manifest
    BY <1>24, <1>t, ManifestTypes DEF CheckoutWorkspace
  <2>2. /\ op' \in Op /\ op'.tip \in Ids \union {0} /\ op'.theirs \in Ids \union {0}
        /\ Operands'
    BY <1>24, <1>t DEF Operands, CheckoutWorkspace
  <2> QED BY <1>24, <1>t, <2>1, <2>2, TypeQuiet DEF Operands, CheckoutWorkspace
<1>25. ASSUME NEW b \in Branch, DeleteCheck(b) PROVE TypeOK'
  BY <1>25, <1>t, TypeQuiet DEF Operands, DeleteCheck
<1>26. ASSUME CommitWrite PROVE TypeOK'
  <2>1. ws' \in Manifest
    BY <1>26, <1>t DEF CommitWrite, Manifest
  <2>2. /\ op' \in Op /\ op'.tip \in {0, op.tip} /\ op'.theirs \in {0, op.theirs}
        /\ Operands'
    BY <1>26, <1>t DEF Operands, CommitWrite
  <2>3. ws.graph \in Graph /\ Len(commits) + 1 \in Ids'
    BY <1>26, <1>t, ManifestTypes, AppendCommit DEF CommitWrite
  <2> QED BY <1>26, <1>t, <2>1, <2>2, <2>3, TypeMove DEF Operands, CommitWrite
<1>27. ASSUME MergeWrite PROVE TypeOK'
  <2>1. /\ op' \in Op /\ op'.tip \in {0, op.tip} /\ op'.theirs \in {0, op.theirs}
        /\ Operands'
    BY <1>27, <1>t DEF Operands, MergeWrite
  <2>2. ws.graph \in Graph /\ Len(commits) + 1 \in Ids'
    BY <1>27, <1>t, ManifestTypes, AppendCommit DEF MergeWrite
  <2> QED BY <1>27, <1>t, <2>1, <2>2, TypeMove DEF Operands, MergeWrite
<1>28. ASSUME ForwardBranch PROVE TypeOK'
  <2>1. Ids' = Ids
    BY <1>28 DEF ForwardBranch, Ids
  <2> QED BY <1>28, <1>t, <2>1, TypeMove DEF Operands, ForwardBranch
<1>29. ASSUME NEW b \in Branch, NEW c \in Ids, CreateBranch(b, c) PROVE TypeOK'
  <2>1. Ids' = Ids
    BY <1>29 DEF CreateBranch, Ids
  <2> QED BY <1>29, <1>t, <2>1, TypeMove DEF Operands, CreateBranch
<1>30. ASSUME NEW b \in Branch, DeleteBranch(b) PROVE TypeOK'
  <2>1. Ids' = Ids
    BY <1>30 DEF DeleteBranch, Ids
  <2> QED BY <1>30, <1>t, <2>1, TypeMove DEF Operands, DeleteBranch
<1>31. ASSUME NEW b \in Branch, NEW w \in ForeignBatch, NEW t \in Ids \union {0},
              ForeignCommit(b, w, t)
       PROVE TypeOK'
  <2> DEFINE g == Applied(commits[branch[b]].graph, w)
  <2>1. branch[b] \in Ids /\ g \in Graph
    BY <1>31, <1>t, ManifestTypes, GraphTypes, RepositoryAssumption
       DEF ForeignCommit
  <2> HIDE DEF g
  <2>2. /\ Len(commits) < MaxCommits
        /\ commits' = Append(commits, NewCommit(Parents(branch[b], t), g))
    BY <1>31 DEF ForeignCommit, g
  <2>3. Len(commits) + 1 \in Ids'
    BY <1>t, <2>1, <2>2, AppendCommit
  <2> QED BY <1>31, <1>t, <2>1, <2>2, <2>3, TypeMove DEF Operands, ForeignCommit
<1>32. CASE UNCHANGED vars
  BY <1>32, <1>t, TypeQuiet DEF Operands, vars
<1> QED BY <1>1, <1>2, <1>3, <1>4, <1>5, <1>6, <1>7, <1>8, <1>9, <1>10, <1>11, <1>12, <1>13, <1>14, <1>15, <1>16, <1>17, <1>18, <1>19, <1>20, <1>21, <1>22, <1>23, <1>24, <1>25, <1>26, <1>27, <1>28, <1>29, <1>30, <1>31, <1>32
        DEF Next, Start, Continue, Unlocked

\* What Repository::init leaves has the right types.
LEMMA InitType == Init => TypeOK
BY RepositoryAssumption, GraphTypes, IdleType
   DEF Init, TypeOK, Operands, Ids, Committed, Manifest, Ref

\* Every ref names a commit that exists and a commit's ancestry is older than
\* it, whatever interleaves.
THEOREM TypeCorrect == Spec => []TypeOK
BY InitType, TypeStep, PTL DEF Spec

-----------------------------------------------------------------------------
(* History: what the branches and the parents of commits may be.            *)

\* What the operation in progress knows of the two commits it read: a fast
\* forward goes to a descendant, and a second parent is not in the history of
\* the first.
Lineage ==
  /\ op.pc = "forward" /\ op.tip # 0 => op.tip \in Anc(op.theirs)
  /\ op.pc \in {"guard", "write", "mergeWrite"} /\ op.tip # 0 /\ op.theirs # 0
        => op.theirs \notin Anc(op.tip)

HistoryInv == TypeOK /\ Lineage /\ NoSpuriousMerge

\* The commits a step keeps keep their ancestry, and a commit the step adds
\* extends its first parent.
LEMMA HistoryGrows ==
  ASSUME TypeOK, [Next]_vars
  PROVE  /\ Ids \subseteq Ids' /\ \A c \in Ids : commits'[c] = commits[c]
         /\ \/ commits' = commits
            \/ /\ Ids' = Ids \union {Len(commits) + 1}
               /\ CommitWrite \/ MergeWrite
                  \/ \E b \in Branch, w \in ForeignBatch, t \in Ids \union {0} :
                        ForeignCommit(b, w, t)
<1>t. /\ op.tip \in Ids \union {0} /\ op.theirs \in Ids \union {0}
      /\ branch \in [Branch -> Ids \union {0}] /\ head \in Branch
      /\ ws.graph \in Graph /\ \A c \in Ids : commits[c].graph \in Graph
  BY ManifestTypes DEF TypeOK
<1>1. CASE CommitWrite \/ MergeWrite
  <2>1. commits' = Append(commits, NewCommit(Parents(op.tip, op.theirs), ws.graph))
        /\ Len(commits) < MaxCommits
    BY <1>1 DEF CommitWrite, MergeWrite
  <2>2. /\ \A c \in Ids : commits'[c] = commits[c]
        /\ Ids' = Ids \union {Len(commits) + 1}
    BY <1>t, <2>1, AppendCommit
  <2> QED BY <1>1, <2>2
<1>2. ASSUME NEW b \in Branch, NEW w \in ForeignBatch, NEW t \in Ids \union {0},
             ForeignCommit(b, w, t)
      PROVE  /\ \A c \in Ids : commits'[c] = commits[c]
             /\ Ids' = Ids \union {Len(commits) + 1}
  <2> DEFINE g == Applied(commits[branch[b]].graph, w)
  <2>1. branch[b] \in Ids /\ g \in Graph
    BY <1>2, <1>t, GraphTypes, RepositoryAssumption DEF ForeignCommit
  <2>2. commits' = Append(commits, NewCommit(Parents(branch[b], t), g))
        /\ Len(commits) < MaxCommits
    BY <1>2 DEF ForeignCommit
  <2> HIDE DEF g
  <2> QED BY <2>1, <2>2, AppendCommit
<1>3. CASE commits' = commits
  BY <1>3 DEF Ids
<1>4. \/ commits' = commits \/ CommitWrite \/ MergeWrite
      \/ \E b \in Branch, w \in ForeignBatch, t \in Ids \union {0} :
            ForeignCommit(b, w, t)
  BY DEF Next, Start, Continue, Unlocked, vars, Save, CommitStart, CommitParent,
    CommitGuard, CommitRefused, CommitDone, MergeStart, MergeUpToDate,
    NoMergeBase, MergeClean, MergeConflicts, MergeDone, MergedOver, EntriesOver, DropMergeHead,
    MarkMergeHead, ForwardWorkspace, ForwardBranch, BranchConflict, AbortStart,
    AbortMergeHead, AbortReset, ResolveRead, ResolveSave, ResolveRefused,
    Discard, Reset, CheckoutStart, CheckoutFast, CheckoutRefused,
    CheckoutWorkspace, CheckoutHead, CreateBranch, DeleteCheck, DeleteBranch,
    Interrupt
<1> QED BY <1>1, <1>2, <1>3, <1>4

\* Only four steps set the two commits Lineage speaks of.
LEMMA LineageStep ==
  ASSUME HistoryInv, [Next]_vars
  PROVE  Lineage'
<1>t. /\ TypeOK /\ Lineage /\ op \in Op /\ Tip \in Ids \union {0}
      /\ op.tip \in Ids \union {0} /\ op.theirs \in Ids \union {0}
      /\ mergeHead \in Ids \union {0} /\ Operands
      /\ Idle.pc = "idle"
  BY ManifestTypes, IdleType DEF HistoryInv, TypeOK
<1>g. \A c \in Ids : Anc(c)' = Anc(c)
  BY <1>t, HistoryGrows DEF Anc
<1>1. CASE op' = op
  BY <1>1, <1>t, <1>g DEF Lineage, Operands
<1>2. CASE op'.pc \notin {"forward", "guard", "write", "mergeWrite"}
  BY <1>2 DEF Lineage
<1>3. CASE CommitParent
  <2>1. op'.pc = "guard" /\ op'.tip = Tip
        /\ op'.theirs = IF op.theirs # 0 /\ Tip # 0 /\ op.theirs \in Anc(Tip)
                        THEN 0 ELSE op.theirs
    BY <1>3, <1>t DEF CommitParent, Op
  <2> QED BY <2>1, <1>t, <1>g DEF Lineage
<1>4. CASE \E e \in AllowEmpty : CommitGuard(e)
  <2>1. /\ op.pc = "guard" /\ op'.pc = "write"
        /\ op'.tip = op.tip /\ op'.theirs = op.theirs
    BY <1>4, <1>t DEF CommitGuard, Op
  <2> QED BY <2>1, <1>t, <1>g DEF Lineage
<1>5. CASE ForwardWorkspace
  <2>1. /\ op'.pc = "forward" /\ op'.tip = Tip /\ op'.theirs = op.theirs
        /\ Tip # 0 => Tip \in Anc(op.theirs)
        /\ op.theirs # 0
    BY <1>5, <1>t DEF ForwardWorkspace, Op, Operands
  <2> QED BY <2>1, <1>t, <1>g DEF Lineage
<1>6. CASE \E base \in Ids : MergeClean(base)
  <2>1. /\ op'.pc = "mergeWrite" /\ op'.tip = Tip /\ op'.theirs = op.theirs
        /\ Tip # 0 /\ op.theirs \notin Anc(Tip)
    BY <1>6, <1>t DEF MergeClean, Diverged, MergedOver, EntriesOver, Op
  <2> QED BY <2>1, <1>t, <1>g DEF Lineage
<1>7. \/ op' = op \/ op'.pc \notin {"forward", "guard", "write", "mergeWrite"}
      \/ CommitParent \/ ForwardWorkspace
      \/ \E e \in AllowEmpty : CommitGuard(e)
      \/ \E base \in Ids : MergeClean(base)
  BY <1>t DEF Op, Next, Start, Continue, Unlocked, vars, Save, CommitStart,
    CommitRefused, CommitWrite, CommitDone, MergeStart, MergeUpToDate,
    NoMergeBase, MergeConflicts, MergeWrite, MergeDone, MergedOver, EntriesOver, DropMergeHead,
    MarkMergeHead, ForwardBranch, BranchConflict, AbortStart,
    AbortMergeHead, AbortReset, ResolveRead, ResolveSave, ResolveRefused,
    Discard, Reset, CheckoutStart, CheckoutFast, CheckoutRefused,
    CheckoutWorkspace, CheckoutHead, CreateBranch, DeleteCheck, DeleteBranch,
    ForeignCommit, Interrupt, Idle
<1> QED BY <1>1, <1>2, <1>3, <1>4, <1>5, <1>6, <1>7

\* A commit written on two lines of history keeps NoSpuriousMerge.
LEMMA SecondParent ==
  ASSUME HistoryInv, Len(commits) < MaxCommits,
         NEW p \in Ids \union {0}, NEW q \in Ids \union {0}, NEW g \in Graph,
         p # 0 /\ q # 0 => q \notin Anc(p),
         commits' = Append(commits, NewCommit(Parents(p, q), g))
  PROVE  NoSpuriousMerge'
<1> DEFINE n == Len(commits) + 1
<1>1. /\ Ids = 1..Len(commits) /\ Ids' = Ids \union {n}
      /\ \A c \in Ids : commits'[c] = commits[c]
      /\ commits'[n].parents = Parents(p, q)
  BY AppendCommit DEF HistoryInv
<1> HIDE DEF n
<1>2. ASSUME NEW c \in Ids, Len(commits[c].parents) = 2
      PROVE  commits'[c].parents[2] \notin commits'[commits'[c].parents[1]].anc
  <2>1. commits[c].parents \in Seq(CommitId)
    <3>1. commits[c] \in Commit
      BY DEF HistoryInv, TypeOK, Ids
    <3> QED BY <3>1 DEF Commit
  <2>2. 1 \in DOMAIN commits[c].parents
    BY <1>2, <2>1
  <2>3. commits[c].parents[1] \in 1..(c - 1)
    BY <2>2 DEF HistoryInv, TypeOK
  <2>4. commits[c].parents[1] \in Ids
    BY <1>1, <2>3 DEF HistoryInv, TypeOK
  <2>5. commits[c].parents[2] \notin Anc(commits[c].parents[1])
    BY <1>2 DEF HistoryInv, NoSpuriousMerge
  <2> QED BY <1>1, <2>4, <2>5 DEF Anc
<1>3. ASSUME Len(Parents(p, q)) = 2
      PROVE  Parents(p, q)[2] \notin commits'[Parents(p, q)[1]].anc
  <2>1. p # 0 /\ q # 0
    BY <1>3 DEF Parents
  <2>2. Parents(p, q) = <<p, q>> /\ p \in Ids
    BY <2>1 DEF Parents
  <2> QED BY <1>1, <2>1, <2>2 DEF Anc
<1>4. \A c \in Ids' : Len(commits'[c].parents) = 2
         => commits'[c].parents[2] \notin commits'[commits'[c].parents[1]].anc
  <2>1. ASSUME NEW c \in Ids, Len(commits'[c].parents) = 2
        PROVE  commits'[c].parents[2] \notin commits'[commits'[c].parents[1]].anc
    BY <1>1, <1>2, <2>1
  <2>2. ASSUME Len(commits'[n].parents) = 2
        PROVE  commits'[n].parents[2] \notin commits'[commits'[n].parents[1]].anc
    BY <1>1, <1>3, <2>2
  <2> QED BY <1>1, <2>1, <2>2
<1> QED BY <1>4 DEF NoSpuriousMerge, Anc

\* History is preserved by every step.
LEMMA HistoryStep == HistoryInv /\ [Next]_vars => HistoryInv'
<1> SUFFICES ASSUME HistoryInv, [Next]_vars PROVE HistoryInv'
  OBVIOUS
<1>t. /\ TypeOK /\ Lineage /\ NoSpuriousMerge
      /\ op.tip \in Ids \union {0} /\ op.theirs \in Ids \union {0}
      /\ branch \in [Branch -> Ids \union {0}]
      /\ ws.graph \in Graph /\ \A c \in Ids : commits[c].graph \in Graph
  BY ManifestTypes DEF HistoryInv, TypeOK
<1>1. ASSUME commits' = commits PROVE NoSpuriousMerge'
  BY <1>1, <1>t DEF NoSpuriousMerge, Ids, Anc
<1>2. ASSUME CommitWrite \/ MergeWrite PROVE NoSpuriousMerge'
  BY <1>2, <1>t, SecondParent DEF CommitWrite, MergeWrite, Lineage
<1>3. ASSUME NEW b \in Branch, NEW w \in ForeignBatch, NEW t \in Ids \union {0},
             ForeignCommit(b, w, t)
      PROVE  NoSpuriousMerge'
  <2> DEFINE g == Applied(commits[branch[b]].graph, w)
  <2>1. branch[b] \in Ids /\ g \in Graph
    BY <1>3, <1>t, GraphTypes, RepositoryAssumption DEF ForeignCommit
  <2>2. /\ commits' = Append(commits, NewCommit(Parents(branch[b], t), g))
        /\ Len(commits) < MaxCommits
        /\ t # 0 => t \notin Anc(branch[b])
    BY <1>3 DEF ForeignCommit
  <2> HIDE DEF g
  <2> QED BY <2>1, <2>2, SecondParent
<1>4. NoSpuriousMerge'
  BY <1>1, <1>2, <1>3, <1>t, HistoryGrows
<1> QED BY <1>t, <1>4, TypeStep, LineageStep DEF HistoryInv

\* The history invariant holds throughout.
LEMMA HistoryHolds == Spec => []HistoryInv
<1>1. Init => HistoryInv
  <2> SUFFICES ASSUME Init PROVE HistoryInv
    OBVIOUS
  <2>1. Lineage /\ NoSpuriousMerge
    BY IdleType DEF Init, Lineage, NoSpuriousMerge, Ids
  <2> QED BY <2>1, InitType DEF HistoryInv
<1> QED BY <1>1, HistoryStep, PTL DEF Spec

\* A MERGE_HEAD that outlived its merge (a failed delete, a crash after the
\* branch moved) never turns an ordinary commit into a merge commit: for any
\* graph, any branches and any interleaving, the second parent of a commit is
\* not in the history of the first.
THEOREM SecondParentsAreNew == Spec => []NoSpuriousMerge
BY HistoryHolds, PTL DEF HistoryInv

\* The compare-and-swap of every ref write, with the ancestry checks that
\* precede it, means that no branch ever loses a commit, whatever other
\* worktrees and unlocked operations do in between.
THEOREM NoLostCommit == Spec => BranchesMoveForward
<1>1. ASSUME HistoryInv, [Next]_vars, NEW b \in Branch,
             branch[b] # 0, branch'[b] # 0
      PROVE  branch[b] \in commits'[branch'[b]].anc
  <2>t. /\ TypeOK /\ Lineage /\ branch \in [Branch -> Ids \union {0}]
        /\ op.tip \in Ids \union {0} /\ op.theirs \in Ids \union {0}
        /\ head \in Branch /\ Operands
        /\ ws.graph \in Graph /\ \A c \in Ids : commits[c].graph \in Graph
    BY <1>1, ManifestTypes DEF HistoryInv, TypeOK
  <2>1. \A c \in Ids : commits'[c] = commits[c] /\ c \in commits[c].anc
    BY <1>1, <2>t, HistoryGrows DEF TypeOK, Anc
  <2>2. CASE branch'[b] = branch[b]
    BY <1>1, <2>t, <2>1, <2>2
  <2>3. CASE CommitWrite \/ MergeWrite
    <3>1. /\ commits' = Append(commits, NewCommit(Parents(op.tip, op.theirs), ws.graph))
          /\ Len(commits) < MaxCommits /\ branch[head] = op.tip
          /\ branch' = [branch EXCEPT ![head] = Len(commits) + 1]
      BY <2>3 DEF CommitWrite, MergeWrite, Tip
    <3>2. op.tip # 0 => Anc(op.tip) \subseteq commits'[Len(commits) + 1].anc
      BY <2>t, <3>1, AppendCommit
    <3> QED BY <1>1, <2>t, <2>1, <2>2, <3>1, <3>2 DEF Anc
  <2>4. CASE ForwardBranch
    BY <1>1, <2>t, <2>1, <2>2, <2>4 DEF ForwardBranch, Lineage, Operands, Tip, Anc
  <2>5. ASSUME NEW f \in Branch, NEW w \in ForeignBatch, NEW t \in Ids \union {0},
               ForeignCommit(f, w, t)
        PROVE  branch[b] \in commits'[branch'[b]].anc
    <3> DEFINE g == Applied(commits[branch[f]].graph, w)
    <3>1. branch[f] \in Ids /\ g \in Graph
      BY <2>5, <2>t, GraphTypes, RepositoryAssumption DEF ForeignCommit
    <3>2. /\ commits' = Append(commits, NewCommit(Parents(branch[f], t), g))
          /\ Len(commits) < MaxCommits /\ branch[f] # 0
          /\ branch' = [branch EXCEPT ![f] = Len(commits) + 1]
      BY <2>5 DEF ForeignCommit
    <3> HIDE DEF g
    <3>3. Anc(branch[f]) \subseteq commits'[Len(commits) + 1].anc
      BY <2>t, <3>1, <3>2, AppendCommit
    <3> QED BY <1>1, <2>t, <2>1, <2>2, <3>1, <3>2, <3>3 DEF Anc
  <2>6. CASE \/ \E f \in Branch, c \in Ids : CreateBranch(f, c)
             \/ \E f \in Branch : DeleteBranch(f)
    BY <1>1, <2>t, <2>2, <2>6 DEF CreateBranch, DeleteBranch
  <2>7. \/ branch' = branch \/ CommitWrite \/ MergeWrite \/ ForwardBranch
        \/ \E f \in Branch, w \in ForeignBatch, t \in Ids \union {0} :
              ForeignCommit(f, w, t)
        \/ \E f \in Branch, c \in Ids : CreateBranch(f, c)
        \/ \E f \in Branch : DeleteBranch(f)
    BY <1>1 DEF Next, Start, Continue, Unlocked, vars, Save, CommitStart,
      CommitParent, CommitGuard, CommitRefused, CommitDone, MergeStart,
      MergeUpToDate, NoMergeBase, MergeClean, MergeConflicts, MergeDone, MergedOver, EntriesOver,
      DropMergeHead, MarkMergeHead, ForwardWorkspace, BranchConflict, AbortStart,
      AbortMergeHead, AbortReset, ResolveRead, ResolveSave, ResolveRefused,
      Discard, Reset, CheckoutStart, CheckoutFast, CheckoutRefused,
      CheckoutWorkspace, CheckoutHead, DeleteCheck, Interrupt
  <2> QED BY <2>2, <2>3, <2>4, <2>5, <2>6, <2>7
<1>2. HistoryInv /\ [Next]_vars
        => [\A b \in Branch : branch[b] # 0 /\ branch'[b] # 0
              => branch[b] \in commits'[branch'[b]].anc]_vars
  BY <1>1
<1> QED BY <1>2, HistoryHolds, PTL DEF Spec, BranchesMoveForward

-----------------------------------------------------------------------------
(* Uncommitted work.                                                        *)

\* Some commit holds the graph g, or it is the blank one init writes.
Known(g) == g = Blank \/ \E c \in Ids : commits[c].graph = g

\* merge looked at the workspace before it set out, and the writer lock keeps
\* the workspace as it was seen.
CleanInv == TypeOK /\ (op.pc = "merge" => Known(ws.graph))

\* A clean workspace holds a graph that is known.
LEMMA CleanIsKnown ==
  ASSUME TypeOK, ~Dirty
  PROVE  Known(ws.graph)
BY ManifestTypes DEF Dirty, Holds, HeadGraph, Known

\* The steps that move the workspace, and where the operation stands then.
LEMMA WorkspaceMoves ==
  ASSUME op \in Op, [Next]_vars
  PROVE  \/ ws' = ws
         \/ op.pc \in {"idle", "merge", "abortReset"} /\ op'.pc # "merge"
         \/ \E e \in AllowEmpty : CommitGuard(e)
         \/ CommitWrite \/ CheckoutFast \/ CheckoutWorkspace
<1>1. CASE \/ \E w \in Batch : Save(w)
           \/ Discard \/ Reset \/ \E c \in Ids : ResolveSave(c)
  <2>1. op.pc = "idle" /\ op' = op
    BY <1>1 DEF Save, Discard, Reset, ResolveSave, Resolvable
  <2> QED BY <2>1
<1>2. CASE AbortStart \/ (\E w \in Batch \union {<<>>} : CommitStart(w))
  <2>1. op.pc = "idle" /\ op'.pc \in {"abort", "commit"}
    BY <1>2 DEF AbortStart, CommitStart, Idle
  <2> QED BY <2>1
<1>3. CASE ForwardWorkspace \/ \E base \in Ids : MergeClean(base) \/ MergeConflicts(base)
  <2>1. op.pc = "merge" /\ op'.pc \in {"forward", "mergeWrite", "mark"}
    BY <1>3 DEF ForwardWorkspace, MergeClean, MergeConflicts, Diverged, Op
  <2> QED BY <2>1
<1>4. CASE AbortReset
  BY <1>4, IdleType DEF AbortReset
<1>5. CASE \/ \E t \in Ids : MergeStart(t)
           \/ \E b \in Branch : CheckoutStart(b)
           \/ \E side \in {"ours", "theirs"} : ResolveRead(side)
           \/ ResolveRefused
  BY <1>5 DEF MergeStart, CheckoutStart, ResolveRead, ResolveRefused
<1>6. CASE Unlocked \/ Interrupt \/ UNCHANGED vars
  BY <1>6 DEF Unlocked, CreateBranch, DeleteCheck, DeleteBranch, ForeignCommit,
    Interrupt, vars
<1>7. CASE Continue
  <2>1. \/ ws' = ws \/ ForwardWorkspace \/ AbortReset
        \/ \E base \in Ids : MergeClean(base) \/ MergeConflicts(base)
        \/ \E e \in AllowEmpty : CommitGuard(e)
        \/ CommitWrite \/ CheckoutFast \/ CheckoutWorkspace
    BY <1>7 DEF Continue, CommitParent, CommitRefused, CommitDone, MergeUpToDate,
      NoMergeBase, MergeWrite, MergeDone, DropMergeHead, MarkMergeHead,
      ForwardBranch, BranchConflict, AbortMergeHead, CheckoutRefused, CheckoutHead
  <2> QED BY <1>3, <1>4, <2>1
<1> QED BY <1>1, <1>2, <1>5, <1>6, <1>7 DEF Next, Start

\* merge sets out from a clean workspace.
LEMMA MergeSetsOut ==
  ASSUME op \in Op, [Next]_vars, op'.pc = "merge"
  PROVE  op.pc = "merge" \/ (~Dirty /\ ws' = ws)
<1>1. CASE \E t \in Ids : MergeStart(t)
  BY <1>1 DEF MergeStart
<1>2. CASE op' = op
  BY <1>2
<1>3. CASE op' = Idle
  BY <1>3, IdleType
<1>4. CASE Start
  BY <1>1, <1>2, <1>4 DEF Start, Save, CommitStart, AbortStart, Discard, Reset,
    CheckoutStart, ResolveRead, ResolveSave, ResolveRefused, Idle
<1>5. CASE Continue
  <2>1. CommitParent \/ CommitWrite \/ (\E e \in AllowEmpty : CommitGuard(e))
           => op'.pc \in {"guard", "write", "done"} \/ op' = Idle
    BY DEF CommitParent, CommitWrite, CommitGuard, Op
  <2>2. ForwardWorkspace \/ (\E base \in Ids : MergeClean(base) \/ MergeConflicts(base))
           => op.pc = "merge"
    BY DEF ForwardWorkspace, MergeClean, MergeConflicts, Diverged
  <2>3. MergeWrite \/ AbortMergeHead \/ CheckoutWorkspace
           => op'.pc \in {"mergeDone", "abortReset", "setHead"}
    BY DEF MergeWrite, AbortMergeHead, CheckoutWorkspace, Op
  <2> QED
    BY <1>2, <1>3, <1>5, <2>1, <2>2, <2>3 DEF Continue, CommitRefused, CommitDone,
      MergeUpToDate, NoMergeBase, MergeDone, DropMergeHead, MarkMergeHead,
      ForwardBranch, BranchConflict, AbortReset, CheckoutFast, CheckoutRefused,
      CheckoutHead
<1>6. CASE Unlocked \/ Interrupt \/ UNCHANGED vars
  BY <1>2, <1>3, <1>6 DEF Unlocked, CreateBranch, DeleteCheck, DeleteBranch,
    ForeignCommit, Interrupt, vars
<1> QED BY <1>4, <1>5, <1>6 DEF Next

\* What merge saw stays so until it acts on it.
LEMMA CleanStep == CleanInv /\ [Next]_vars => CleanInv'
<1> SUFFICES ASSUME CleanInv, [Next]_vars, op'.pc = "merge" PROVE Known(ws.graph)'
  BY TypeStep DEF CleanInv
<1>1. TypeOK /\ op \in Op
  BY DEF CleanInv, TypeOK
<1>2. Known(ws.graph)
  BY <1>1, MergeSetsOut, CleanIsKnown DEF CleanInv
<1>3. ws' = ws
  <2>1. CASE op.pc = "merge"
    BY <1>1, <2>1, WorkspaceMoves DEF CommitGuard, CommitWrite, CheckoutFast,
      CheckoutWorkspace
  <2> QED BY <1>1, <2>1, MergeSetsOut
<1>4. Ids \subseteq Ids' /\ \A c \in Ids : commits'[c] = commits[c]
  BY <1>1, HistoryGrows
<1> QED BY <1>2, <1>3, <1>4 DEF Known

\* Nothing but a write, a resolution or an operation that says it discards
\* replaces workspace content no commit holds: a merge acts on what it saw
\* when it set out, a checkout looks again before it moves the workspace, and
\* a commit leaves the content alone.
THEOREM UncommittedWorkKept == Spec => UncommittedKept
<1>1. ASSUME CleanInv, [Next]_vars, ws'.graph # ws.graph,
             op.pc \in {"merge", "checkout", "guard", "write"}
      PROVE  Known(ws.graph)
  <2>1. TypeOK /\ op \in Op /\ ws \in Manifest
    BY <1>1 DEF CleanInv, TypeOK
  <2>2. CASE op.pc = "merge"
    BY <1>1, <2>2 DEF CleanInv
  <2>3. CASE CheckoutWorkspace
    BY <2>1, <2>3, CleanIsKnown DEF CheckoutWorkspace
  <2>4. CASE (\E e \in AllowEmpty : CommitGuard(e)) \/ CommitWrite \/ CheckoutFast
    <3>1. ws'.graph = ws.graph
      BY <2>1, <2>4 DEF CommitGuard, CommitWrite, CheckoutFast, Manifest
    <3> QED BY <1>1, <3>1
  <2> QED BY <1>1, <2>1, <2>2, <2>3, <2>4, WorkspaceMoves
<1>2. CleanInv /\ [Next]_vars
        => [ws'.graph # ws.graph /\ op.pc \in {"merge", "checkout", "guard", "write"}
              => ws.graph = Blank \/ \E c \in Ids : commits[c].graph = ws.graph]_vars
  BY <1>1 DEF Known
<1>3. Init => CleanInv
  BY InitType, IdleType DEF Init, CleanInv
<1> QED BY <1>2, <1>3, CleanStep, PTL DEF Spec, UncommittedKept

-----------------------------------------------------------------------------
(* What a conflicted merge leaves behind, and why it is never committed as  *)
(* anything but a merge: when nothing falls in the windows of Windows,      *)
(* except that other worktrees commit to branches not checked out here.     *)

\* t is a line of history the checked-out branch does not contain.
Genuine(t) == t # 0 /\ Tip # 0 /\ t \notin Anc(Tip)

\* A merge that is recorded by MERGE_HEAD, or one half started or half aborted.
Unfinished == Genuine(mergeHead) \/ (ws.marked /\ mergeHead = 0)

\* Where an operation may stand while the workspace holds the content of an
\* unfinished merge.
Pending ==
  \/ op.pc \in {"idle", "checkout", "merge"} /\ Unfinished
  \/ op.pc \in {"commit", "guard"} /\ op.theirs = mergeHead /\ Unfinished
  \/ op.pc = "write" /\ op.theirs = mergeHead /\ Genuine(mergeHead)
  \/ op.pc = "mark" /\ Genuine(op.theirs)
  \/ op.pc \in {"abort", "abortReset"} /\ ws.marked /\ Unfinished

\* The workspace content is well-formed when it comes from no unfinished merge,
\* and once a commit has validated it.
ContentOK ==
  /\ CommitsWellFormed
  /\ ws.from = 0 \/ op.pc = "write" => WellFormed(ws.graph)

\* A merge in any state, and a checkout in progress, have their branch.
BranchOK ==
  /\ AbortAvailable
  /\ op.pc = "mark" => ws.marked
  /\ op.pc \in {"checkout", "setHead"} /\ op.theirs # 0 => branch[op.target] # 0

MergeInv == TypeOK /\ ContentOK /\ BranchOK /\ (ws.from # 0 => Pending)

-----------------------------------------------------------------------------
\* The facts about types the steps below use.
LEMMA MergeTypes ==
  ASSUME TypeOK
  PROVE  /\ head \in Branch /\ ws \in Manifest /\ mergeHead \in Ids \union {0}
         /\ op \in Op /\ op.tip \in Ids \union {0} /\ op.theirs \in Ids \union {0}
         /\ branch \in [Branch -> Ids \union {0}] /\ op.target \in Branch
         /\ Operands /\ 0 \notin Ids /\ Tip \in Ids \union {0}
         /\ Idle.pc = "idle" /\ Idle.theirs = 0
BY IdleType, ManifestTypes DEF TypeOK, Ids, Op

\* The steps that move the tip of the checked-out branch.
LEMMA TipMoves ==
  ASSUME TypeOK, [Next]_vars, Windows \subseteq {"others"}
  PROVE  \/ Tip' = Tip \/ CommitWrite \/ MergeWrite \/ ForwardBranch
         \/ CheckoutFast \/ CheckoutHead
         \/ Tip = 0 /\ Tip' # 0 /\ UNCHANGED <<ws, mergeHead, op, head>>
<1>t. branch \in [Branch -> Ids \union {0}] /\ head \in Branch /\ 0 \notin Ids
  BY MergeTypes
<1>1. ASSUME NEW b \in Branch, NEW c \in Ids, CreateBranch(b, c)
      PROVE  Tip' = Tip \/ (Tip = 0 /\ Tip' # 0 /\ UNCHANGED <<ws, mergeHead, op, head>>)
  BY <1>1, <1>t DEF CreateBranch, Tip
<1>2. ASSUME NEW b \in Branch, DeleteBranch(b) PROVE Tip' = Tip
  BY <1>2, <1>t DEF DeleteBranch, Tip, InUse
<1>3. ASSUME NEW b \in Branch, NEW w \in ForeignBatch, NEW t \in Ids \union {0},
             ForeignCommit(b, w, t)
      PROVE  Tip' = Tip
  BY <1>3, <1>t DEF ForeignCommit, Tip, InUse
<1>4. CASE UNCHANGED <<branch, head>>
  BY <1>4 DEF Tip
<1> QED BY <1>1, <1>2, <1>3, <1>4
  DEF Next, Start, Continue, Unlocked, vars, Save, CommitStart,
      CommitParent, CommitGuard, CommitRefused, CommitDone, MergeStart,
      MergeUpToDate, NoMergeBase, MergeClean, MergeConflicts, MergeDone, MergedOver, EntriesOver,
      DropMergeHead, MarkMergeHead, ForwardWorkspace, BranchConflict, AbortStart,
      AbortMergeHead, AbortReset, ResolveRead, ResolveSave, ResolveRefused,
      Discard, Reset, CheckoutStart, CheckoutRefused, CheckoutWorkspace,
      DeleteCheck, Interrupt

\* A branch a checkout is moving to is not deleted under it.
LEMMA TargetKept ==
  ASSUME TypeOK, [Next]_vars, Windows \subseteq {"others"},
         op.pc \in {"checkout", "setHead"}, branch[op.target] # 0
  PROVE  branch'[op.target] # 0
<1>t. /\ branch \in [Branch -> Ids \union {0}] /\ 0 \notin Ids
      /\ op.target \in Branch /\ head \in Branch
  BY MergeTypes
<1>1. ASSUME NEW b \in Branch, NEW c \in Ids, CreateBranch(b, c)
      PROVE  branch'[op.target] # 0
  BY <1>1, <1>t DEF CreateBranch
<1>2. ASSUME NEW b \in Branch, DeleteBranch(b) PROVE branch'[op.target] # 0
  BY <1>2, <1>t DEF DeleteBranch, InUse
<1>3. ASSUME NEW b \in Branch, NEW w \in ForeignBatch, NEW t \in Ids \union {0},
             ForeignCommit(b, w, t)
      PROVE  branch'[op.target] # 0
  BY <1>3, <1>t DEF ForeignCommit, InUse
<1>4. CASE branch' = branch
  BY <1>4
<1> QED BY <1>1, <1>2, <1>3, <1>4
  DEF Next, Start, Continue, Unlocked, vars, Save, CommitStart, CommitWrite,
      CommitParent, CommitGuard, CommitRefused, CommitDone, MergeStart, MergeWrite,
      MergeUpToDate, NoMergeBase, MergeClean, MergeConflicts, MergeDone, MergedOver, EntriesOver,
      DropMergeHead, MarkMergeHead, ForwardWorkspace, ForwardBranch,
      BranchConflict, AbortStart,
      AbortMergeHead, AbortReset, ResolveRead, ResolveSave, ResolveRefused,
      Discard, Reset, CheckoutStart, CheckoutRefused, CheckoutWorkspace,
      CheckoutFast, CheckoutHead, DeleteCheck, Interrupt

\* AbortAvailable, and what it needs, is preserved by every step.
LEMMA BranchStep ==
  ASSUME MergeInv, [Next]_vars, Windows \subseteq {"others"}
  PROVE  BranchOK'
<1>t. /\ head \in Branch /\ ws \in Manifest /\ mergeHead \in Ids \union {0}
      /\ op \in Op /\ op.theirs \in Ids \union {0} /\ Operands
      /\ branch \in [Branch -> Ids \union {0}] /\ op.target \in Branch
      /\ 0 \notin Ids /\ Idle.pc = "idle" /\ TypeOK
  BY MergeTypes DEF MergeInv
<1>b. BranchOK
  BY DEF MergeInv
<1>1. mergeHead' # 0 \/ ws'.marked => mergeHead # 0 \/ ws.marked \/ Tip # 0
  <2>1. ASSUME NEW w, ws' = Saved(w) PROVE ws'.marked => ws.marked
    BY <1>t, <2>1 DEF Saved, Manifest
  <2>2. CASE mergeHead' \in {0, mergeHead} /\ (ws'.marked => ws.marked)
    BY <2>2
  <2>3. CASE MarkMergeHead
    BY <1>b, <2>3 DEF BranchOK, MarkMergeHead
  <2>4. CASE \E base \in Ids : MergeConflicts(base)
    BY <2>4 DEF MergeConflicts, Diverged, MergedOver, EntriesOver
  <2>5. CASE AbortStart
    BY <2>5 DEF AbortStart
  <2>6. mergeHead' \in {0, mergeHead} \/ MarkMergeHead
    BY DEF Next, Start, Continue, Unlocked, vars, Save, CommitStart, CommitWrite,
      CommitParent, CommitGuard, CommitRefused, CommitDone, MergeStart, MergeWrite,
      MergeUpToDate, NoMergeBase, MergeClean, MergeConflicts, MergeDone, MergedOver, EntriesOver,
      DropMergeHead, ForwardWorkspace, ForwardBranch,
      BranchConflict, AbortStart, AbortMergeHead, AbortReset, ResolveRead,
      ResolveSave, ResolveRefused, Discard, Reset, CheckoutStart, CheckoutRefused,
      CheckoutWorkspace, CheckoutFast, CheckoutHead, CreateBranch, DeleteCheck,
      DeleteBranch, ForeignCommit, Interrupt
  <2>7. \/ ws' = ws \/ \E w \in Batch : ws' = Saved(w)
        \/ ws'.marked = FALSE \/ ws' = [ws EXCEPT !.from = 0]
        \/ AbortStart \/ \E base \in Ids : MergeConflicts(base)
    <3>1. CASE \E w \in Batch \union {<<>>} : CommitStart(w)
      <4>1. PICK w \in Batch \union {<<>>} :
               ws' = IF DOMAIN w = {} THEN ws ELSE Saved(w)
        BY <3>1 DEF CommitStart
      <4>2. CASE w = <<>>
        <5>1. DOMAIN w = {}
          BY <4>2
        <5> QED BY <4>1, <5>1
      <4>3. CASE w \in Batch
        BY <4>1, <4>3
      <4> QED BY <4>1, <4>2, <4>3
    <3>2. CASE Start /\ ~\E w \in Batch \union {<<>>} : CommitStart(w)
      <4>1. CASE \E c \in Ids : ResolveSave(c)
        BY <1>t, <4>1 DEF ResolveSave, Manifest
      <4>2. CASE Discard \/ Reset
        BY <4>2 DEF Discard, Reset, Committed
      <4> QED BY <3>2, <4>1, <4>2 DEF Start, Save, MergeStart, ResolveRead,
        ResolveRefused, CheckoutStart
    <3>3. CASE Continue
      <4>1. CASE \E e \in AllowEmpty : CommitGuard(e)
        BY <1>t, <4>1 DEF CommitGuard, Manifest
      <4>2. CASE \/ ForwardWorkspace \/ AbortReset \/ CheckoutWorkspace
                 \/ \E base \in Ids : MergeClean(base)
        BY <4>2 DEF ForwardWorkspace, AbortReset, CheckoutWorkspace, MergeClean,
          MergedOver, EntriesOver, Committed
      <4>3. CASE CommitWrite \/ CheckoutFast
        BY <4>3 DEF CommitWrite, CheckoutFast
      <4> QED BY <3>3, <4>1, <4>2, <4>3 DEF Continue, CommitParent,
        CommitRefused, CommitDone, MergeWrite, MergeUpToDate, NoMergeBase,
        MergeDone, DropMergeHead, MarkMergeHead, ForwardBranch, BranchConflict,
        AbortMergeHead, CheckoutRefused, CheckoutHead
    <3>4. CASE Unlocked \/ Interrupt \/ UNCHANGED vars
      BY <3>4 DEF Unlocked, vars, CreateBranch, DeleteCheck, DeleteBranch,
        ForeignCommit, Interrupt
    <3> QED BY <3>1, <3>2, <3>3, <3>4 DEF Next
  <2>8. CASE ws' = [ws EXCEPT !.from = 0]
    BY <1>t, <2>2, <2>3, <2>6, <2>8 DEF Manifest
  <2> QED BY <2>1, <2>2, <2>3, <2>4, <2>5, <2>6, <2>7, <2>8 DEF CommitStart
<1>2. AbortAvailable'
  <2>1. CASE Tip' = Tip
    BY <1>1, <1>b, <2>1 DEF BranchOK, AbortAvailable
  <2>2. CASE CommitWrite \/ MergeWrite
    <3>1. branch' = [branch EXCEPT ![head] = Len(commits) + 1] /\ head' = head
      BY <2>2 DEF CommitWrite, MergeWrite
    <3>2. Len(commits) \in Nat
      BY <1>t DEF TypeOK
    <3> QED BY <1>t, <3>1, <3>2 DEF AbortAvailable, Tip
  <2>3. CASE ForwardBranch
    BY <1>t, <2>3 DEF ForwardBranch, AbortAvailable, Tip, Operands
  <2>4. CASE CheckoutFast \/ CheckoutHead
    BY <1>t, <1>b, <2>4
       DEF CheckoutFast, CheckoutHead, AtTarget, AbortAvailable, Tip, Operands, BranchOK
  <2>5. CASE Tip = 0 /\ Tip' # 0
    BY <2>5 DEF AbortAvailable
  <2> QED BY <1>t, <2>1, <2>2, <2>3, <2>4, <2>5, TipMoves
<1>3. op'.pc = "mark" => ws'.marked
  <2>1. CASE op' = op /\ (ws'.marked <=> ws.marked)
    BY <1>b, <2>1 DEF BranchOK
  <2>2. CASE op'.pc # "mark"
    BY <2>2
  <2>3. CASE \E base \in Ids : MergeConflicts(base)
    BY <2>3 DEF MergeConflicts, MergedOver, EntriesOver
  <2> QED BY <1>t, <2>1, <2>2, <2>3
    DEF Next, Start, Continue, Unlocked, vars, Save, CommitStart, CommitWrite,
      CommitParent, CommitGuard, CommitRefused, CommitDone, MergeStart, MergeWrite,
      MergeUpToDate, NoMergeBase, MergeClean, MergeConflicts, MergeDone, MergedOver, EntriesOver,
      DropMergeHead, MarkMergeHead, ForwardWorkspace, ForwardBranch,
      BranchConflict, AbortStart, AbortMergeHead, AbortReset, ResolveRead,
      ResolveSave, ResolveRefused, Discard, Reset, CheckoutStart, CheckoutRefused,
      CheckoutWorkspace, CheckoutFast, CheckoutHead, CreateBranch, DeleteCheck,
      DeleteBranch, ForeignCommit, Interrupt, Op, Idle, Resolvable
<1>4. op'.pc \in {"checkout", "setHead"} /\ op'.theirs # 0 => branch'[op'.target] # 0
  <2>1. ASSUME op.pc \in {"checkout", "setHead"}, op.theirs # 0
        PROVE  branch'[op.target] # 0
    BY <1>t, <1>b, <2>1, TargetKept DEF BranchOK
  <2>2. CASE op' = op
    BY <2>1, <2>2
  <2>3. CASE op'.pc \notin {"checkout", "setHead"}
    BY <2>3
  <2>4. CASE \E b \in Branch : CheckoutStart(b)
    BY <1>t, <2>4 DEF CheckoutStart, Idle
  <2>5. CASE CheckoutWorkspace
    BY <1>t, <2>1, <2>5 DEF CheckoutWorkspace, Op
  <2> QED BY <1>t, <2>2, <2>3, <2>4, <2>5
    DEF Next, Start, Continue, Unlocked, vars, Save, CommitStart, CommitWrite,
      CommitParent, CommitGuard, CommitRefused, CommitDone, MergeStart, MergeWrite,
      MergeUpToDate, NoMergeBase, MergeClean, MergeConflicts, MergeDone, MergedOver, EntriesOver,
      DropMergeHead, MarkMergeHead, ForwardWorkspace, ForwardBranch,
      BranchConflict, AbortStart, AbortMergeHead, AbortReset, ResolveRead,
      ResolveSave, ResolveRefused, Discard, Reset, CheckoutStart, CheckoutRefused,
      CheckoutWorkspace, CheckoutFast, CheckoutHead, CreateBranch, DeleteCheck,
      DeleteBranch, ForeignCommit, Interrupt, Op, Idle
<1> QED BY <1>2, <1>3, <1>4 DEF BranchOK

\* The content of an unfinished merge stays recorded as such: no step leaves it
\* in the workspace without MERGE_HEAD or a conflicts map to show for it.
LEMMA PendingStep ==
  ASSUME MergeInv, [Next]_vars, Windows \subseteq {"others"}, ws'.from # 0
  PROVE  Pending'
<1> USE DEF Unfinished, Genuine
<1>t. /\ head \in Branch /\ ws \in Manifest /\ mergeHead \in Ids \union {0}
      /\ op \in Op /\ op.theirs \in Ids \union {0} /\ Operands
      /\ 0 \notin Ids /\ Idle.pc = "idle" /\ Idle.theirs = 0 /\ TypeOK
      /\ Tip \in Ids \union {0} /\ "remark" \notin Windows /\ "resolve" \notin Windows
  BY MergeTypes DEF MergeInv
<1>b. BranchOK /\ AbortAvailable
  BY DEF MergeInv, BranchOK
<1>p. ws.from # 0 => Pending
  BY DEF MergeInv
<1>g. Tip' = Tip /\ Tip # 0 => commits'[Tip'].anc = Anc(Tip)
  BY <1>t, HistoryGrows DEF Anc
<1>1. CASE UNCHANGED <<ws, mergeHead, op>>
  <2>1. Pending
    BY <1>1, <1>p
  <2>2. Tip # 0
    BY <1>b, <1>t, <2>1 DEF Pending, BranchOK, AbortAvailable
  <2>3. ~(CommitWrite \/ MergeWrite \/ ForwardBranch \/ CheckoutFast \/ CheckoutHead)
    BY <1>1, <1>t DEF CommitWrite, MergeWrite, ForwardBranch, CheckoutFast,
                      CheckoutHead, Op
  <2>4. Tip' = Tip
    BY <1>t, <2>2, <2>3, TipMoves
  <2> QED BY <1>1, <1>g, <2>1, <2>2, <2>4 DEF Pending, Anc
<1>2. ASSUME NEW w \in Batch, Save(w)
      PROVE  Pending'
  <2>1. ws'.from = ws.from /\ op.pc = "idle" /\ Accepts(w)
    BY <1>2, <1>t DEF Save, Saved, Manifest
  <2>2. Genuine(mergeHead)
    BY <1>p, <2>1 DEF Pending, Accepts
  <2> QED BY <1>2, <1>t, <2>1, <2>2 DEF Save, Pending, Tip, Anc
<1>3. ASSUME NEW w \in Batch \union {<<>>}, CommitStart(w)
      PROVE  Pending'
  <2>1. ws'.from = ws.from /\ op.pc = "idle"
    BY <1>3, <1>t DEF CommitStart, Saved, Manifest
  <2>2. op'.pc = "commit" /\ op'.theirs = mergeHead /\ mergeHead' = mergeHead
    BY <1>3 DEF CommitStart, Idle
  <2>3. Unfinished /\ (ws' # ws => Genuine(mergeHead))
    BY <1>3, <1>p, <2>1 DEF Pending, Accepts, CommitStart
  <2> QED BY <1>3, <2>2, <2>3 DEF CommitStart, Pending, Tip, Anc
<1>4. ASSUME CommitParent
      PROVE  Pending'
  <2>1. ws' = ws /\ op.pc = "commit" /\ op.theirs = mergeHead /\ Unfinished
    BY <1>4, <1>p DEF CommitParent, Pending
  <2>2. mergeHead' = mergeHead /\ op'.pc = "guard" /\ op'.theirs = mergeHead
    BY <1>4, <1>t, <2>1 DEF CommitParent, Op
  <2> QED BY <1>4, <2>1, <2>2 DEF CommitParent, Pending, Tip, Anc
<1>5. ASSUME NEW e \in AllowEmpty, CommitGuard(e)
      PROVE  Pending'
  <2>1. ws'.from = ws.from /\ op.pc = "guard" /\ op.theirs = mergeHead /\ Unfinished
    BY <1>5, <1>t, <1>p DEF CommitGuard, Pending, Manifest
  <2>2. Genuine(mergeHead)
    BY <1>5, <2>1 DEF CommitGuard, Ordinary
  <2>3. op'.pc = "write" /\ op'.theirs = mergeHead /\ mergeHead' = mergeHead
    BY <1>5, <1>t, <2>1 DEF CommitGuard, Op
  <2> QED BY <1>5, <2>2, <2>3 DEF CommitGuard, Pending, Tip, Anc
<1>6. ASSUME (\E e \in AllowEmpty : CommitRefused(e)) \/ MergeUpToDate \/ NoMergeBase
              \/ CheckoutRefused \/ BranchConflict \/ Interrupt
      PROVE  Pending'
  <2>1. /\ ws' = ws /\ op' = Idle /\ UNCHANGED <<commits, branch, head, mergeHead>>
        /\ op.pc = "mark" => mergeHead = 0
    BY <1>6, <1>t DEF CommitRefused, MergeUpToDate, NoMergeBase, CheckoutRefused,
      BranchConflict, Interrupt
  <2>2. Unfinished
    BY <1>p, <1>b, <2>1 DEF Pending, BranchOK
  <2> QED BY <1>t, <2>1, <2>2 DEF Pending, Tip, Anc
<1>7. ASSUME \/ \E t \in Ids : MergeStart(t)
             \/ \E b \in Branch : CheckoutStart(b)
      PROVE  Pending'
  <2>1. /\ ws' = ws /\ op.pc = "idle" /\ op'.pc \in {"merge", "checkout"}
        /\ UNCHANGED <<commits, branch, head, mergeHead>>
    BY <1>7 DEF MergeStart, CheckoutStart, Idle
  <2> QED BY <1>p, <2>1 DEF Pending, Tip, Anc
<1>8. ASSUME NEW base \in Ids, MergeConflicts(base)
      PROVE  Pending'
  <2>1. /\ op'.pc = "mark" /\ op'.theirs = op.theirs /\ Genuine(op.theirs)
        /\ UNCHANGED <<commits, branch, head>>
    BY <1>8, <1>t DEF MergeConflicts, Diverged, MergedOver, EntriesOver, Op, Operands
  <2> QED BY <2>1 DEF Pending, Tip, Anc
<1>9. ASSUME DropMergeHead
      PROVE  Pending'
  BY <1>9, <1>p DEF DropMergeHead, Pending, Tip, Anc
<1>10. ASSUME MarkMergeHead
      PROVE  Pending'
  BY <1>10, <1>p, <1>t DEF MarkMergeHead, Pending, Tip, Anc
<1>11. ASSUME AbortStart
      PROVE  Pending'
  <2>1. ws'.from = ws.from /\ ws'.marked /\ op.pc = "idle" /\ op'.pc = "abort"
        /\ UNCHANGED <<commits, branch, head, mergeHead>>
    BY <1>11, <1>t DEF AbortStart, Manifest, Idle
  <2> QED BY <1>p, <2>1 DEF Pending, Tip, Anc
<1>12. ASSUME AbortMergeHead
      PROVE  Pending'
  <2>1. ws' = ws /\ op.pc = "abort" /\ op'.pc = "abortReset" /\ mergeHead' = 0
    BY <1>12, <1>t DEF AbortMergeHead, Op
  <2> QED BY <1>p, <2>1 DEF Pending
<1>13. ASSUME NEW c \in Ids, ResolveSave(c)
      PROVE  Pending'
  <2>1. /\ ws'.from = ws.from /\ op.pc = "idle" /\ mergeHead # 0
        /\ UNCHANGED <<commits, branch, head, mergeHead, op>>
    BY <1>13, <1>t DEF ResolveSave, Resolvable, Sources, Manifest
  <2> QED BY <1>p, <2>1 DEF Pending, Tip, Anc
<1>14. ASSUME \/ CommitWrite \/ ForwardWorkspace \/ AbortReset \/ Discard \/ Reset
               \/ CheckoutFast \/ CheckoutWorkspace
               \/ \E base \in Ids : MergeClean(base)
       PROVE  FALSE
  BY <1>14, <1>t DEF CommitWrite, ForwardWorkspace, AbortReset, Discard, Reset,
    CheckoutFast, CheckoutWorkspace, MergeClean, MergedOver, EntriesOver, Committed, Manifest
<1>15. ASSUME \/ CommitDone \/ ForwardBranch \/ MergeWrite \/ MergeDone
              \/ CheckoutHead
       PROVE  FALSE
  BY <1>15, <1>p DEF CommitDone, ForwardBranch, MergeWrite, MergeDone,
    CheckoutHead, Pending
<1>16. ASSUME \/ Unlocked \/ ResolveRefused \/ UNCHANGED vars
              \/ \E side \in {"ours", "theirs"} : ResolveRead(side)
       PROVE  UNCHANGED <<ws, mergeHead, op>>
  BY <1>16 DEF Unlocked, vars, CreateBranch, DeleteCheck, DeleteBranch,
    ForeignCommit, ResolveRefused, ResolveRead
<1> QED BY <1>1, <1>2, <1>3, <1>4, <1>5, <1>6, <1>7, <1>8, <1>9, <1>10, <1>11, <1>12, <1>13, <1>14, <1>15, <1>16
        DEF Next, Start, Continue

\* A commit of a well-formed graph keeps every commit well-formed.
LEMMA CommitKeeps ==
  ASSUME TypeOK, CommitsWellFormed, Len(commits) < MaxCommits,
         NEW p \in Ids \union {0}, NEW q \in Ids \union {0},
         NEW g \in Graph, WellFormed(g),
         commits' = Append(commits, NewCommit(Parents(p, q), g))
  PROVE  CommitsWellFormed'
<1> DEFINE n == Len(commits) + 1
<1>1. /\ Ids' = Ids \union {n} /\ commits'[n].graph = g
      /\ \A c \in Ids : commits'[c] = commits[c]
  BY AppendCommit
<1> HIDE DEF n
<1>2. \A c \in Ids' : WellFormed(commits'[c].graph)
  BY <1>1 DEF CommitsWellFormed
<1> QED BY <1>2 DEF CommitsWellFormed, WellFormed, Dangling

\* Every commit is well-formed, and so is what the workspace holds when it
\* comes from no unfinished merge or has been validated: preserved by every
\* step.
LEMMA ContentStep ==
  ASSUME MergeInv, [Next]_vars, Windows \subseteq {"others"}
  PROVE  ContentOK'
<1>t. /\ ws \in Manifest /\ mergeHead \in Ids \union {0}
      /\ op \in Op /\ op.tip \in Ids \union {0} /\ op.theirs \in Ids \union {0}
      /\ branch \in [Branch -> Ids \union {0}]
      /\ Operands /\ 0 \notin Ids /\ Idle.pc = "idle" /\ TypeOK
      /\ Tip \in Ids \union {0} /\ ws.graph \in Graph /\ ws.entries \in SUBSET Entry
      /\ \A c \in Ids : commits[c].graph \in Graph
  BY MergeTypes, ManifestTypes DEF MergeInv
<1>c. /\ \A c \in Ids : WellFormed(commits[c].graph)
      /\ ws.from = 0 \/ op.pc = "write" => WellFormed(ws.graph)
      /\ CommitsWellFormed
  BY DEF MergeInv, ContentOK, CommitsWellFormed
<1>p. ws.from # 0 => Pending
  BY DEF MergeInv
<1>h. WellFormed(HeadGraph)
  BY <1>t, <1>c, BlankWellFormed DEF HeadGraph
<1> DEFINE Good == ws'.from = 0 \/ op'.pc = "write" => WellFormed(ws'.graph)
<1>1. CommitsWellFormed'
  <2>1. CASE commits' = commits
    BY <1>c, <2>1 DEF CommitsWellFormed, Ids, WellFormed, Dangling
  <2>2. CASE CommitWrite
    <3>1. WellFormed(ws.graph)
      BY <1>c, <2>2 DEF CommitWrite
    <3> QED BY <1>t, <1>c, <2>2, <3>1, CommitKeeps DEF CommitWrite
  <2>3. CASE MergeWrite
    <3>1. WellFormed(ws.graph)
      BY <1>c, <1>p, <2>3 DEF MergeWrite, Pending
    <3> QED BY <1>t, <1>c, <2>3, <3>1, CommitKeeps DEF MergeWrite
  <2>4. ASSUME NEW b \in Branch, NEW w \in ForeignBatch, NEW t \in Ids \union {0},
               ForeignCommit(b, w, t)
        PROVE  CommitsWellFormed'
    <3> DEFINE g == Applied(commits[branch[b]].graph, w)
    <3>1. branch[b] \in Ids /\ g \in Graph /\ WellFormed(g)
      BY <2>4, <1>t, GraphTypes, RepositoryAssumption DEF ForeignCommit
    <3>2. commits' = Append(commits, NewCommit(Parents(branch[b], t), g))
          /\ Len(commits) < MaxCommits
      BY <2>4 DEF ForeignCommit
    <3> HIDE DEF g
    <3> QED BY <1>t, <1>c, <3>1, <3>2, CommitKeeps
  <2> QED BY <1>t, <2>1, <2>2, <2>3, <2>4, HistoryGrows
<1>2. ASSUME NEW w \in Writes, IntegrityHolds(ws.graph, w),
             ws'.graph = Applied(ws.graph, w), ws'.from = ws.from,
             op'.pc # "write"
      PROVE  Good
  BY <1>2, <1>t, <1>c, SaveKeepsWellFormed
<1>3. ASSUME NEW w \in Batch, Save(w) PROVE Good
  <2>1. /\ ws'.graph = Applied(ws.graph, w) /\ ws'.from = ws.from
        /\ IntegrityHolds(ws.graph, w) /\ op'.pc # "write"
    BY <1>3, <1>t DEF Save, Saved, Manifest, Accepts
  <2> QED BY <1>2, <2>1, RepositoryAssumption
<1>4. ASSUME NEW w \in Batch \union {<<>>}, CommitStart(w) PROVE Good
  <2>1. op'.pc # "write"
    BY <1>4 DEF CommitStart, Idle
  <2>2. CASE ws' = ws
    BY <1>c, <2>1, <2>2
  <2>3. CASE ws' # ws
    <3>1. /\ ws'.graph = Applied(ws.graph, w) /\ ws'.from = ws.from
          /\ IntegrityHolds(ws.graph, w) /\ DOMAIN w # {}
      BY <1>4, <2>3, <1>t DEF CommitStart, Saved, Manifest, Accepts
    <3>2. w # <<>>
      BY <3>1
    <3> QED BY <1>2, <2>1, <3>1, <3>2, RepositoryAssumption
  <2> QED BY <2>2, <2>3
<1>5. ASSUME NEW e \in AllowEmpty, CommitGuard(e) PROVE Good
  <2>1. ws'.graph = ws.graph
    BY <1>5, <1>t DEF CommitGuard, Manifest
  <2>2. CASE op.theirs = 0
    <3>1. ws.from = 0
      BY <1>5, <1>p, <2>2 DEF CommitGuard, Ordinary, Pending, Unfinished, Genuine
    <3> QED BY <1>c, <2>1, <3>1
  <2>3. CASE op.theirs # 0
    <3>1. PICK base \in Bases : Completable(base)
      BY <1>5, <2>3 DEF CommitGuard
    <3>2. op.tip \in Ids /\ base \in Anc(op.tip)
      BY <1>t, <3>1 DEF Bases, MergeBases, Common
    <3>3. base \in Ids
      BY <1>t, <3>2 DEF TypeOK, Ids
    <3>4. WellFormed(ws.graph)
      BY <1>t, <1>c, <3>1, <3>3, ValidationComplete DEF Completable
    <3> QED BY <2>1, <3>4
  <2> QED BY <2>2, <2>3
<1>6. ASSUME NEW base \in Ids, MergeClean(base) PROVE Good
  <2> DEFINE b == commits[base].graph
             o == commits[Tip].graph
             t == commits[op.theirs].graph
  <2>1. /\ b \in Graph /\ o \in Graph /\ t \in Graph /\ WellFormed(b)
    BY <1>6, <1>t, <1>c DEF MergeClean, Diverged, MergedOver, EntriesOver, Operands
  <2>2. MergeEntries(b, o, t) = {} /\ ws' = Committed(MergedGraph(b, o, t))
    BY <1>6 DEF MergeClean, MergedOver, EntriesOver
  <2> HIDE DEF b, o, t
  <2>3. WellFormed(MergedGraph(b, o, t))
    BY <2>1, <2>2, CleanMergeWellFormed
  <2> QED BY <2>2, <2>3 DEF Committed
<1>7. ASSUME NEW base \in Ids, MergeConflicts(base) PROVE Good
  BY <1>7, <1>t DEF MergeConflicts, Diverged, MergedOver, EntriesOver, Operands, Op
<1>8. ASSUME ForwardWorkspace \/ CheckoutWorkspace PROVE Good
  BY <1>8, <1>t, <1>c DEF ForwardWorkspace, CheckoutWorkspace, Committed, Operands
<1>9. ASSUME AbortReset PROVE Good
  BY <1>9, <1>t, <1>c DEF AbortReset, Committed, Operands
<1>10. ASSUME Discard \/ Reset PROVE Good
  BY <1>10, <1>h DEF Discard, Reset, Committed
<1>11. ASSUME NEW c \in Ids, ResolveSave(c) PROVE Good
  <2> DEFINE w == Resolution(ws.entries, commits[c].graph)
  <2>1. w \in Writes
    BY <1>t, EntryTypes
  <2>2. /\ ws'.graph = Applied(ws.graph, w) /\ ws'.from = ws.from
        /\ IntegrityHolds(ws.graph, w) /\ op'.pc # "write"
    BY <1>11, <1>t DEF ResolveSave, Resolvable, Manifest
  <2> HIDE DEF w
  <2> QED BY <1>2, <2>1, <2>2
<1>12. ASSUME CheckoutFast PROVE Good
  BY <1>12, <1>t, <1>c DEF CheckoutFast, AtTarget, Holds, Manifest
<1>13. ASSUME CommitWrite PROVE Good
  BY <1>13, <1>t, <1>c DEF CommitWrite, Manifest
<1>14. ASSUME AbortStart PROVE Good
  BY <1>14, <1>t, <1>c DEF AbortStart, Manifest, Idle
<1>15. ASSUME ws' = ws, op'.pc = "write" => op.pc = "write" PROVE Good
  BY <1>15, <1>c
<1>16. Good
  <2>1. CASE Start
    BY <2>1, <1>3, <1>4, <1>10, <1>11, <1>14, <1>15 DEF Start, MergeStart,
      CheckoutStart, ResolveRead, ResolveRefused, Idle
  <2>2. CASE Continue
    <3>1. CASE \/ CommitParent \/ CommitDone \/ MergeUpToDate \/ NoMergeBase
               \/ \E e \in AllowEmpty : CommitRefused(e)
               \/ MergeWrite \/ MergeDone \/ DropMergeHead \/ MarkMergeHead
               \/ ForwardBranch \/ BranchConflict \/ AbortMergeHead
               \/ CheckoutRefused \/ CheckoutHead
      BY <3>1, <1>15, <1>t DEF CommitParent, CommitDone, MergeUpToDate,
        NoMergeBase, CommitRefused, MergeWrite, MergeDone, DropMergeHead,
        MarkMergeHead, ForwardBranch, BranchConflict, AbortMergeHead,
        CheckoutRefused, CheckoutHead, Op
    <3> QED BY <2>2, <3>1, <1>5, <1>6, <1>7, <1>8, <1>9, <1>12, <1>13 DEF Continue
  <2>3. CASE Unlocked \/ Interrupt \/ UNCHANGED vars
    BY <2>3, <1>15, <1>t DEF Unlocked, vars, CreateBranch, DeleteCheck,
      DeleteBranch, ForeignCommit, Interrupt
  <2> QED BY <2>1, <2>2, <2>3 DEF Next
<1> QED BY <1>1, <1>16 DEF ContentOK, WellFormed, Dangling

\* The merge invariant holds throughout.
LEMMA MergeHolds ==
  ASSUME Windows \subseteq {"others"}
  PROVE  Spec => []MergeInv
<1>1. Init => MergeInv
  <2> SUFFICES ASSUME Init PROVE MergeInv
    OBVIOUS
  <2>1. ContentOK
    BY BlankWellFormed DEF Init, ContentOK, CommitsWellFormed, Ids, Committed
  <2>2. BranchOK /\ ws.from = 0
    BY IdleType DEF Init, BranchOK, AbortAvailable, Committed
  <2> QED BY <2>1, <2>2, InitType DEF MergeInv
<1>2. MergeInv /\ [Next]_vars => MergeInv'
  BY TypeStep, ContentStep, BranchStep, PendingStep DEF MergeInv
<1> QED BY <1>1, <1>2, PTL DEF Spec

\* Referential integrity of history: whatever mixture of transactions,
\* merges, resolutions, aborts, checkouts and crashes produced it, no commit
\* has an edge without its endpoints.  It rests on
\* check_referential_integrity, on validate_merged being run again when a
\* merge is completed, and on that completion being impossible to avoid.
THEOREM HistoryWellFormed ==
  ASSUME Windows \subseteq {"others"}
  PROVE  Spec => []CommitsWellFormed
BY MergeHolds, PTL DEF MergeInv, ContentOK

\* `merge --abort` is accepted in every state a merge can be left in.
THEOREM AbortAlwaysAvailable ==
  ASSUME Windows \subseteq {"others"}
  PROVE  Spec => []AbortAvailable
BY MergeHolds, PTL DEF MergeInv, BranchOK

\* What a conflicted merge put in the workspace is committed with its second
\* parent or not at all, although commit_impl decides by MERGE_HEAD and the
\* conflicts map alone and an interruption may come between any two ref
\* writes.
THEOREM MergesAreRecorded ==
  ASSUME Windows \subseteq {"others"}
  PROVE  Spec => MergeNeverOrdinary
<1>1. ASSUME MergeInv, [Next]_vars, ws.from # 0, op.pc = "write", op' # op,
             Tip' # Tip
      PROVE  Len(commits'[Len(commits')].parents) = 2
  <2>t. /\ TypeOK /\ op.tip \in Ids \union {0} /\ op.theirs \in Ids \union {0}
        /\ ws.graph \in Graph
    BY <1>1, MergeTypes, ManifestTypes DEF MergeInv
  <2>1. Genuine(mergeHead) /\ op.theirs = mergeHead
    BY <1>1 DEF MergeInv, Pending
  <2>2. CommitWrite
    BY <1>1, <2>t, TipMoves DEF MergeWrite, ForwardBranch, CheckoutFast, CheckoutHead
  <2>3. op.tip # 0 /\ op.theirs # 0
    BY <2>1, <2>2 DEF CommitWrite, Genuine
  <2>4. /\ Len(commits') = Len(commits) + 1
        /\ commits'[Len(commits) + 1].parents = Parents(op.tip, op.theirs)
    BY <2>t, <2>2, AppendCommit DEF CommitWrite
  <2>5. Parents(op.tip, op.theirs) = <<op.tip, op.theirs>>
    BY <2>3 DEF Parents
  <2> QED BY <2>4, <2>5
<1>2. MergeInv /\ [Next]_vars
        => [ws.from # 0 /\ op.pc = "write" /\ op' # op /\ Tip' # Tip
              => Len(commits'[Len(commits')].parents) = 2]_vars
  BY <1>1
<1> QED BY <1>2, MergeHolds, PTL DEF Spec, MergeNeverOrdinary
=============================================================================
