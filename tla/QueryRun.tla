-------------------------------- MODULE QueryRun --------------------------------
(***************************************************************************)
(* The clause pipeline of the query engine (acetone-cypher exec/run.rs):    *)
(* every clause turns the rows of the one before into its own, write        *)
(* clauses through the overlay.  A projection is [items, grouping,          *)
(* aggregating, distinct, order, skip, limit, where]: items are <<expr,     *)
(* variable>>, order entries <<expr, descending>>.  Column names and the    *)
(* identifier provenance of columns are left out.                           *)
(***************************************************************************)
EXTENDS QueryEval

(* Rows are appended one by one, each charged against the set it joins.      *)
PushRow(out, row) == Charged("row", Len(out), Ok(Append(out, row)))

---------------------------------------------------------------------------
(* Projection                                                                *)

(* push_bound_children: the direct subexpressions; an absent one is <<>>.    *)
PropertyMaps(pattern) ==
  <<pattern.start.properties>> \o Flat([i \in DOMAIN pattern.steps |-> <<pattern.steps[i][1].properties, pattern.steps[i][2].properties>>])
EntryValues(f) == LET ks == KeysAscending(DOMAIN f) IN [i \in DOMAIN ks |-> f[ks[i]]]
Subexprs(e) ==
  CASE e[1] \in {"lit", "param", "var"} -> <<>>
    [] e[1] \in {"prop", "isnull", "haslabels"} -> <<e[2]>>
    [] e[1] = "unary" -> <<e[3]>>
    [] e[1] \in {"logic", "binary"} -> <<e[3], e[4]>>
    [] e[1] = "call" -> e[3]
    [] e[1] = "agg" -> <<e[4]>>
    [] e[1] = "list" -> e[2]
    [] e[1] = "map" -> EntryValues(e[2])
    [] e[1] = "case" -> <<e[2]>> \o Flat(e[3]) \o <<e[4]>>
    [] e[1] \in {"index", "slice"} -> Tail(e)
    [] e[1] = "listcomp" -> SubSeq(e, 3, 5)
    [] e[1] = "quantifier" -> SubSeq(e, 4, 5)
    [] e[1] = "reduce" -> <<e[3], e[5], e[6]>>
    [] e[1] = "exists" -> PropertyMaps(e[2])
    [] e[1] = "patterncomp" -> PropertyMaps(e[2]) \o <<e[3], e[4]>>

(* collect_aggregates: the aggregates of an expression, patterns aside.      *)
RECURSIVE Aggregates(_)
Aggregates(e) ==
  IF e = <<>> THEN {} ELSE IF e[1] = "agg" THEN {e} ELSE IF e[1] \in {"exists", "patterncomp"} THEN {}
  ELSE UNION {Aggregates(Subexprs(e)[i]) : i \in DOMAIN Subexprs(e)}

(* The values kept by key, in first-seen order.                              *)
FirstSeen(values, resource) ==
  LET keys == [i \in DOMAIN values |-> DistinctKey(values[i])]
      new(i) == \A j \in 1..i - 1 : keys[j] /= keys[i]
  IN  Each(Ok(<<>>), [i \in DOMAIN values |-> i], LAMBDA acc, i :
             IF new(i) THEN Charged(resource, Len(acc), Ok(Append(acc, values[i]))) ELSE Ok(acc))

(* Ties go to the first least value and to the last greatest.                *)
Least(values) ==
  values[CHOOSE i \in DOMAIN values : \A j \in DOMAIN values :
           LET c == GlobalCmp(values[i], values[j]) IN c < 0 \/ (c = 0 /\ i <= j)]
Greatest(values) ==
  values[CHOOSE i \in DOMAIN values : \A j \in DOMAIN values :
           LET c == GlobalCmp(values[i], values[j]) IN c > 0 \/ (c = 0 /\ i >= j)]

(* The integer and the float sums are kept apart until the end.              *)
SumOf(values) ==
  LET step(acc, x) ==
        CASE Kind(x) = "int" -> Then(Checked(acc[1][2] + x[2]), LAMBDA n : Ok(<<n, acc[2], acc[3]>>))
          [] Kind(x) = "float" -> Ok(<<acc[1], PlusF(acc[2], x[2]), TRUE>>)
          [] OTHER -> TypeError
  IN  Then(Each(Ok(<<Whole(0), 0, FALSE>>), values, step), LAMBDA s :
           Ok(IF s[3] THEN Float(PlusF(s[2], AsF64(s[1]))) ELSE s[1]))
AverageOf(values) ==
  LET step(acc, x) == IF IsNumber(x) THEN Ok(PlusF(acc, FloatOf(x))) ELSE TypeError
  IN  IF values = <<>> THEN Ok(Null)
      ELSE Then(Each(Ok(0), values, step), LAMBDA t : Ok(Float(DivideF(t, 2 * Len(values)))))

Extreme(name, values) == IF values = <<>> THEN Null ELSE IF name = "min" THEN Least(values) ELSE Greatest(values)

Arguments(arg, group, ctx) ==
  Each(Ok(<<>>), group, LAMBDA acc, row :
         IF arg = <<>> THEN Ok(Append(acc, Whole(1)))
         ELSE Then(Eval(arg, row, ctx), LAMBDA v : Ok(IF v = Null THEN acc ELSE Append(acc, v))))

(* accumulate: <<"agg", name, distinct, argument>> over the rows of a group. *)
Accumulate(e, group, ctx) ==
  LET finish(values) ==
        CASE e[2] = "count" -> Ok(Whole(Len(values)))
          [] e[2] = "collect" -> Charged("collection", Len(values), Then(Each(Ok(<<>>), values, AppendNestable), LAMBDA vs : Ok(List(vs))))
          [] e[2] = "sum" -> SumOf(values)
          [] e[2] = "avg" -> AverageOf(values)
          [] e[2] \in {"min", "max"} -> Ok(Extreme(e[2], values))
  IN  Then(Arguments(e[4], group, ctx), LAMBDA values :
           IF e[3] THEN Then(FirstSeen(values, "push"), finish) ELSE finish(values))

InOrderOf(S) == Distinct(CHOOSE s \in [1..Cardinality(S) -> S] : \A x \in S : Has(s, x))
EvalWithGroup(e, group, representative, ctx) ==
  LET slots == Each(Ok(NoFunction), InOrderOf(Aggregates(e)), LAMBDA acc, a :
                      Then(Accumulate(a, group, ctx), LAMBDA v : Ok(With(acc, a, v))))
  IN  Then(slots, LAMBDA aggs : Eval(e, representative, [ctx EXCEPT !.aggs = aggs]))

ItemsOf(p, evaluate(_), row) ==
  Each(Ok(row), p.items, LAMBDA out, item : Then(evaluate(item[1]), LAMBDA v : Ok(Bind(out, item[2], v))))

(* Grouping by the canonical keys of the grouping items; each new group is   *)
(* charged.  A group is <<key, rows>>.                                       *)
GroupKey(p, row, ctx) ==
  Each(Ok(<<>>), p.grouping, LAMBDA acc, i : Then(Eval(p.items[i][1], row, ctx), LAMBDA v : Ok(acc \o DistinctKey(v))))
Groups(rows, p, ctx) ==
  LET join(groups, row) ==
        Then(GroupKey(p, row, ctx), LAMBDA key :
             LET at == {i \in DOMAIN groups : groups[i][1] = key}
             IN  IF at = {} THEN Charged("push", Len(groups), Ok(Append(groups, <<key, <<row>>>>)))
                 ELSE Ok([groups EXCEPT ![CHOOSE i \in at : TRUE][2] = Append(@, row)]))
  IN  Each(Ok(<<>>), rows, join)
Aggregated(rows, p, ctx) ==
  LET emit(out, group) ==
        LET first == IF group[2] = <<>> THEN NoFunction ELSE group[2][1]
        IN  Then(ItemsOf(p, LAMBDA e : EvalWithGroup(e, group[2], first, ctx), first), LAMBDA row : PushRow(out, row))
  IN  Then(Groups(rows, p, ctx), LAMBDA groups :
           Each(Ok(<<>>), IF groups = <<>> /\ p.grouping = <<>> THEN << <<<<>>, <<>>>> >> ELSE groups, emit))
PerRow(rows, p, ctx) ==
  Each(Ok(<<>>), rows, LAMBDA out, row :
         Then(ItemsOf(p, LAMBDA e : Eval(e, row, ctx), row), LAMBDA next : PushRow(out, next)))

ProjectedKey(p, row) == Flat([i \in DOMAIN p.items |-> DistinctKey(Lookup(row, p.items[i][2]))])
Deduplicated(rows, p) ==
  LET new(i) == \A j \in 1..i - 1 : ProjectedKey(p, rows[j]) /= ProjectedKey(p, rows[i])
  IN  IF ~p.distinct THEN Ok(rows)
      ELSE Each(Ok(<<>>), [i \in DOMAIN rows |-> i], LAMBDA out, i : IF new(i) THEN PushRow(out, rows[i]) ELSE Ok(out))

(* A stable sort by the global order of the sort keys.                       *)
SortKeys(rows, p, ctx) ==
  Each(Ok(<<>>), rows, LAMBDA acc, row :
         Then(EvalAll([i \in DOMAIN p.order |-> p.order[i][1]], row, ctx), LAMBDA key : Ok(Append(acc, key))))
Before(p, a, b) ==
  LET signed(i) == IF p.order[i][2] THEN -GlobalCmp(a[i], b[i]) ELSE GlobalCmp(a[i], b[i])
      differ == {i \in DOMAIN a : signed(i) /= 0}
  IN  differ /= {} /\ signed(CHOOSE i \in differ : \A j \in differ : i <= j) < 0
Ordered(rows, p, ctx) ==
  LET precedes(keys, j, i) == Before(p, keys[j], keys[i]) \/ (j < i /\ ~Before(p, keys[i], keys[j]))
      rank(keys, i) == 1 + Cardinality({j \in DOMAIN rows : precedes(keys, j, i)})
  IN  IF p.order = <<>> THEN Ok(rows)
      ELSE Then(SortKeys(rows, p, ctx), LAMBDA keys :
                Ok([r \in DOMAIN rows |-> rows[CHOOSE i \in DOMAIN rows : rank(keys, i) = r]]))

(* SKIP and LIMIT, evaluated over no row; an absent one is <<>>.             *)
CountOf(e, absent, ctx) ==
  IF e = <<>> THEN Ok(absent)
  ELSE Then(Eval(e, NoFunction, ctx), LAMBDA v : IF Kind(v) = "int" /\ v[2] >= 0 THEN Ok(v[2]) ELSE Fail("invalid_argument"))
Paged(rows, p, ctx) ==
  Then(CountOf(p.skip, 0, ctx), LAMBDA skip :
       Then(CountOf(p.limit, Len(rows), ctx), LAMBDA limit : Ok(SubSeq(rows, skip + 1, IF skip + limit > Len(rows) THEN Len(rows) ELSE skip + limit))))
Filtered(rows, predicate, ctx) ==
  Each(Ok(<<>>), rows, LAMBDA out, row : Then(Passes(predicate, row, ctx), LAMBDA keep : Ok(IF keep THEN Append(out, row) ELSE out)))

(* ORDER BY, SKIP, LIMIT, and the WITH's WHERE last.                         *)
Shaped(rows, p, ctx) ==
  Then(Ordered(rows, p, ctx), LAMBDA sorted : Then(Paged(sorted, p, ctx), LAMBDA page : Filtered(page, p.where, ctx)))

Project(rows, p, ctx) ==
  Then(IF p.aggregating THEN Aggregated(rows, p, ctx) ELSE PerRow(rows, p, ctx), LAMBDA merged :
       Then(Deduplicated(merged, p), LAMBDA kept : Shaped(kept, p, ctx)))

---------------------------------------------------------------------------
(* Reading clauses                                                           *)

(* unwind_row_cap: <<>> when the next clause bounds nothing.                 *)
UnwindRowCap(next, ctx) ==
  IF next = <<>> THEN Ok(<<>>) ELSE IF next[1] /= "with" THEN Ok(<<>>)
  ELSE IF next[2].distinct \/ next[2].aggregating \/ next[2].order /= <<>> \/ next[2].limit = <<>> THEN Ok(<<>>)
  ELSE Then(CountOf(next[2].limit, 0, ctx), LAMBDA limit : Then(CountOf(next[2].skip, 0, ctx), LAMBDA skip : Ok(<<limit + skip>>)))
(* The loop ends for good at the first item that finds the output full: the  *)
(* accumulator is <<rows out, ended>>.                                       *)
Unwind(rows, e, alias, next, ctx) ==
  LET full(cap, out) == cap /= <<>> /\ Len(out) >= cap[1]
      push(cap, row, acc, item) ==
        IF acc[2] \/ full(cap, acc[1]) THEN Ok(<<acc[1], TRUE>>)
        ELSE Then(PushRow(acc[1], Bind(row, alias, item)), LAMBDA out : Ok(<<out, FALSE>>))
      step(cap, acc, row) ==
        IF acc[2] THEN Ok(acc)
        ELSE Then(Eval(e, row, ctx), LAMBDA v :
                  IF v = Null THEN Ok(acc)
                  ELSE IF Kind(v) = "list" THEN Each(Ok(acc), v[2], LAMBDA a, item : push(cap, row, a, item))
                  ELSE TypeError)
  IN  Then(UnwindRowCap(next, ctx), LAMBDA cap :
           Then(Each(Ok(<<<<>>, FALSE>>), rows, LAMBDA acc, row : step(cap, acc, row)), LAMBDA acc : Ok(acc[1])))

Mentioned(patterns) ==
  UNION {{patterns[i].path, patterns[i].start.var}
         \cup UNION {{patterns[i].steps[j][1].var, patterns[i].steps[j][2].var} : j \in DOMAIN patterns[i].steps} :
         i \in DOMAIN patterns} \ {0}
Nulled(row, vars) == [x \in DOMAIN row \cup vars |-> Lookup(row, x)]

(* The patterns of one MATCH share the relationships they have used.         *)
MatchStates(patterns, row, ctx) ==
  LET extend(pattern, states) ==
        Each(Ok(<<>>), states, LAMBDA next, state :
               Then(MatchPath(pattern, state, ctx), LAMBDA found : Each(Ok(next), found, PushRow)))
  IN  Each(Ok(<<[row |-> row, used |-> {}]>>), patterns, LAMBDA states, pattern : extend(pattern, states))

(* <<"match", optional, patterns, at, where>> for one row.                   *)
MatchRow(clause, row, ctx) ==
  Then(MatchStates(clause[3], row, ctx), LAMBDA states :
       Then(Filtered([i \in DOMAIN states |-> states[i].row], clause[5], ctx), LAMBDA kept :
            Ok(IF kept = <<>> /\ clause[2] THEN <<Nulled(row, Mentioned(clause[3]))>> ELSE kept)))
MatchClause(clause, rows, ctx) ==
  Each(Ok(<<>>), rows, LAMBDA out, row : Then(MatchRow(clause, row, ctx), LAMBDA found : Each(Ok(out), found, PushRow)))

(* resolve_at_ref, <<"ref", r>> or <<"param", p>>, and the version it names. *)
ResolveAt(at, env) ==
  LET ref == IF at[1] = "ref" THEN Ok(at[2])
             ELSE IF at[2] \notin DOMAIN env.params THEN Fail("missing_parameter")
             ELSE IF Kind(env.params[at[2]]) = "string" THEN Ok(env.params[at[2]][2]) ELSE TypeError
  IN  Then(ref, LAMBDA r : IF r \in DOMAIN env.at THEN Ok(env.at[r]) ELSE Fail("invalid_argument"))

(* A procedure is [columns, answer]: answer[args] is its tuples; yields are  *)
(* <<column, variable>>.                                                     *)
CallRow(procedure, yields, where, row, args, ctx, produced) ==
  LET bound(tuple) ==
        Each(Ok(row), yields, LAMBDA acc, y :
               LET at == CHOOSE i \in DOMAIN procedure.columns : procedure.columns[i] = y[1]
               IN  Ok(Bind(acc, y[2], IF at <= Len(tuple) THEN tuple[at] ELSE Null)))
      tuples == procedure.answer[args]
  IN  IF args \notin DOMAIN procedure.answer THEN Fail("invalid_argument")
      ELSE Each(Ok(produced), tuples, LAMBDA out, tuple :
                  Then(bound(tuple), LAMBDA next :
                       Then(Passes(where, next, ctx), LAMBDA keep : IF keep THEN PushRow(out, <<next, tuple>>) ELSE Ok(out))))
CallClause(clause, rows, procs, ctx) ==
  LET procedure == procs[clause[2]]
  IN  Each(Ok(<<>>), rows, LAMBDA out, row :
             Then(EvalAll(clause[3], row, ctx), LAMBDA args : CallRow(procedure, clause[4], clause[5], row, args, ctx, out)))

---------------------------------------------------------------------------
(* Write clauses.  Each threads [graph, row], then [graph, rows].            *)

Over(ctx, g) == [ctx EXCEPT !.src = g]
EvalPropertyMap(properties, row, ctx) ==
  IF properties = <<>> THEN Ok(NoFunction)
  ELSE Then(Eval(properties, row, ctx), LAMBDA v : IF Kind(v) = "map" THEN Ok(v[2]) ELSE TypeError)

(* resolve_or_create_node: [graph, row, node].  A position whose label has a *)
(* surrogate key is given one (mint, the external generator's next value)    *)
(* unless the map names it.                                                  *)
SurrogateKey == 0
Minted(pattern, properties, g) ==
  IF pattern.mint /\ SurrogateKey \notin DOMAIN properties THEN With(properties, SurrogateKey, Str(<<g.next>>)) ELSE properties
ResolveOrCreateNode(pattern, s, ctx) ==
  LET create(properties) ==
        LET g == CreateNode(s.graph, pattern.labels, Minted(pattern, properties, s.graph))
            n == g.created[Len(g.created)]
        IN  Ok([graph |-> g, row |-> Bind(s.row, pattern.var, Node(n)), node |-> n])
  IN  IF pattern.var /= 0 /\ pattern.var \in DOMAIN s.row
      THEN IF Kind(s.row[pattern.var]) = "node"
           THEN Ok([graph |-> s.graph, row |-> s.row, node |-> s.row[pattern.var][2]]) ELSE TypeError
      ELSE Then(EvalPropertyMap(pattern.properties, s.row, Over(ctx, s.graph)), create)

EndsOf(direction, prev, target) ==
  CASE direction = "out" -> Ok(<<prev.id, target.id>>)
    [] direction = "in" -> Ok(<<target.id, prev.id>>)
    [] direction = "both" -> Fail("invalid_argument")

CreatePath(pattern, s, ctx) ==
  LET relate(acc, step, t) ==
        Then(EvalPropertyMap(step[1].properties, t.row, Over(ctx, t.graph)), LAMBDA properties :
             Then(EndsOf(step[1].direction, acc.prev, t.node), LAMBDA ends :
                  LET g == CreateRel(t.graph, ends[1], CHOOSE x \in step[1].types : TRUE, ends[2], properties)
                      r == g.rels[Len(g.rels)]
                  IN  Ok([graph |-> g, row |-> Bind(t.row, step[1].var, Rel(r)), prev |-> t.node,
                          path |-> Extended(acc.path, r, t.node)])))
      advance(acc, step) == Then(ResolveOrCreateNode(step[2], acc, ctx), LAMBDA t : relate(acc, step, t))
  IN  Then(ResolveOrCreateNode(pattern.start, s, ctx), LAMBDA t :
           Then(Each(Ok([graph |-> t.graph, row |-> t.row, prev |-> t.node, path |-> [nodes |-> <<t.node>>, rels |-> <<>>]]),
                     pattern.steps, advance), LAMBDA acc :
                Ok([graph |-> acc.graph, row |-> Bind(acc.row, pattern.path, Path(acc.path.nodes, acc.path.rels))])))

(* refresh_entities: what the overlay holds a newer state of, and no more.   *)
Refreshed(v, g) ==
  CASE Kind(v) = "node" -> Node(OverlayNode(g, v[2]))
    [] Kind(v) = "rel" -> Rel(OverlayRel(g, v[2]))
    [] Kind(v) = "path" -> Path([i \in DOMAIN v[2].nodes |-> OverlayNode(g, v[2].nodes[i])],
                                [i \in DOMAIN v[2].rels |-> OverlayRel(g, v[2].rels[i])])
    [] OTHER -> v
RefreshEntities(row, g) == [x \in DOMAIN row |-> Refreshed(row[x], g)]

(* The target rebound to its state in the overlay after a write.             *)
Rebound(s, x, g) ==
  LET v == s.row[x]
      node == CurrentNode(g, v[2].id)
  IN  [graph |-> g,
       row |-> IF Kind(v) = "rel" THEN Bind(s.row, x, Rel(CurrentRel(g, v[2])))
               ELSE IF node.some THEN Bind(s.row, x, Node(node.items[1])) ELSE s.row]
WriteTo(s, x, OnNode(_), OnRel(_)) ==
  LET v == Lookup(s.row, x)
  IN  CASE v = Null -> Ok(s)
        [] Kind(v) = "node" -> Ok(Rebound(s, x, OnNode(v[2])))
        [] Kind(v) = "rel" -> Ok(Rebound(s, x, OnRel(v[2])))
        [] OTHER -> TypeError
SetProperty(s, x, p, v) ==
  WriteTo(s, x, LAMBDA n : SetNodeProperty(s.graph, n.id, p, v), LAMBDA r : SetRelProperty(s.graph, r, p, v))
SetLabels(s, x, labels, Change(_, _, _)) ==
  LET v == Lookup(s.row, x)
      upto[i \in 0..Len(labels)] == IF i = 0 THEN s.graph ELSE Change(upto[i - 1], v[2].id, labels[i])
  IN  IF v = Null THEN Ok(s) ELSE IF Kind(v) = "node" THEN Ok(Rebound(s, x, upto[Len(labels)])) ELSE TypeError

(* apply_set_map: a map, or the properties of an entity; null clears when    *)
(* replacing and does nothing when merging.                                  *)
ApplySetMap(s, x, v, merge) ==
  LET f == IF Kind(v) = "map" THEN v[2] ELSE IF v = Null THEN NoFunction ELSE v[2].properties
  IN  CASE v = Null /\ merge -> Ok(s)
        [] Kind(v) \notin {"map", "node", "rel", "null"} -> TypeError
        [] OTHER -> WriteTo(s, x, LAMBDA n : SetNodeProperties(s.graph, n.id, f, merge),
                            LAMBDA r : SetRelProperties(s.graph, r, f, merge))

(* <<"property", x, p, expr>>, <<"replace" or "merge", x, expr>>,            *)
(* <<"labels", x, labels>>.                                                  *)
ApplySetItem(item, s, ctx) ==
  CASE item[1] = "property" -> Then(Eval(item[4], s.row, Over(ctx, s.graph)), LAMBDA v : SetProperty(s, item[2], item[3], v))
    [] item[1] \in {"replace", "merge"} ->
         Then(Eval(item[3], s.row, Over(ctx, s.graph)), LAMBDA v : ApplySetMap(s, item[2], v, item[1] = "merge"))
    [] item[1] = "labels" -> SetLabels(s, item[2], item[3], AddNodeLabel)
ApplySetItems(items, s, ctx) ==
  Then(Each(Ok(s), items, LAMBDA t, item : ApplySetItem(item, t, ctx)), LAMBDA t :
       Ok([graph |-> t.graph, row |-> RefreshEntities(t.row, t.graph)]))
ApplyRemoveItem(item, s) ==
  IF item[1] = "property" THEN SetProperty(s, item[2], item[3], Null) ELSE SetLabels(s, item[2], item[3], RemoveNodeLabel)

Emitted(acc, s) == Then(PushRow(acc.rows, s.row), LAMBDA rows : Ok([graph |-> s.graph, rows |-> rows]))
Onto(acc, row) == [graph |-> acc.graph, row |-> row]
PerRowWrite(acc, rows, Write(_)) ==
  Each(Ok([acc EXCEPT !.rows = <<>>]), rows, LAMBDA a, row : Then(Write(Onto(a, row)), LAMBDA s : Emitted(a, s)))

CreateClause(patterns, acc, ctx) ==
  PerRowWrite(acc, acc.rows, LAMBDA s : Each(Ok(s), patterns, LAMBDA t, pattern : CreatePath(pattern, t, ctx)))
SetClause(items, acc, ctx) == PerRowWrite(acc, acc.rows, LAMBDA s : ApplySetItems(items, s, ctx))

(* REMOVE charges nothing for the rows it passes on.                         *)
RemoveClause(items, acc) ==
  Each(Ok([acc EXCEPT !.rows = <<>>]), acc.rows, LAMBDA a, row :
         Then(Each(Ok(Onto(a, row)), items, LAMBDA s, item : ApplyRemoveItem(item, s)), LAMBDA s :
              Ok([graph |-> s.graph, rows |-> Append(a.rows, RefreshEntities(s.row, s.graph))])))

(* Mutant: a match is looked for once, before the first row writes.          *)
MergeMatchesEarly(pattern, row, g, ctx) == MatchPath(pattern, [row |-> row, used |-> {}], Over(ctx, g.base))

MergeMatches(pattern, row, g, ctx) == MatchPath(pattern, [row |-> row, used |-> {}], Over(ctx, g))
MergeClause(pattern, onCreate, onMatch, acc, ctx) ==
  LET create(a, row) ==
        Then(CreatePath(pattern, Onto(a, row), ctx), LAMBDA s :
             Then(ApplySetItems(onCreate, s, ctx), LAMBDA t : Emitted(a, t)))
      update(a, found) ==
        Each(Ok(a), found, LAMBDA b, m : Then(ApplySetItems(onMatch, Onto(b, m.row), ctx), LAMBDA t : Emitted(b, t)))
  IN  Each(Ok([acc EXCEPT !.rows = <<>>]), acc.rows, LAMBDA a, row :
             Then(MergeMatches(pattern, row, a.graph, ctx), LAMBDA found :
                  IF found = <<>> THEN create(a, row) ELSE update(a, found)))

(* delete_clause: every target of every row is resolved, the relationships   *)
(* go, then the nodes in the order they were named.                          *)
DeleteTargets(v) ==
  CASE v = Null -> Ok([nodes |-> <<>>, rels |-> <<>>])
    [] Kind(v) = "node" -> Ok([nodes |-> <<v[2].id>>, rels |-> <<>>])
    [] Kind(v) = "rel" -> Ok([nodes |-> <<>>, rels |-> <<v[2]>>])
    [] Kind(v) = "path" -> Ok([nodes |-> Ids(v[2].nodes), rels |-> v[2].rels])
    [] OTHER -> TypeError
CollectTargets(targets, rows, ctx) ==
  LET join(acc, t) == [nodes |-> acc.nodes \o t.nodes, rels |-> acc.rels \o t.rels]
      collect(acc, row) ==
        Each(Ok(acc), targets, LAMBDA a, e : Then(Then(Eval(e, row, ctx), DeleteTargets), LAMBDA t : Ok(join(a, t))))
  IN  Each(Ok([nodes |-> <<>>, rels |-> <<>>]), rows, collect)

DeleteOne(detach, g, id) ==
  IF detach THEN Ok(DetachDeleteNode(g, id))
  ELSE IF HasIncidentRels(g, id) THEN Fail("invalid_argument") ELSE Ok(DeleteNode(g, id))
DeleteClause(detach, targets, acc, ctx) ==
  Then(CollectTargets(targets, acc.rows, Over(ctx, acc.graph)), LAMBDA t :
       Then(Each(Ok(DeleteRels(acc.graph, [i \in DOMAIN t.rels |-> <<t.rels[i]>>])), t.nodes,
                 LAMBDA g, id : DeleteOne(detach, g, id)), LAMBDA g :
            Ok([acc EXCEPT !.graph = g])))

---------------------------------------------------------------------------
(* run_versioned.  An environment is [base, at, procs, params]; the state    *)
(* is [graph, rows, result].                                                 *)

NoResult == <<>>
ResultRows(p, rows) == [r \in DOMAIN rows |-> [i \in DOMAIN p.items |-> Lookup(rows[r], p.items[i][2])]]
RunCall(clause, s, env, ctx) ==
  Then(CallClause(clause, s.rows, env.procs, ctx), LAMBDA produced :
       LET part(k) == [i \in DOMAIN produced |-> produced[i][k]]
       IN  Ok(IF clause[4] = <<>> THEN [s EXCEPT !.rows = <<>>, !.result = <<part(2)>>] ELSE [s EXCEPT !.rows = part(1)]))
RunMatch(clause, s, env, ctx) ==
  Then(IF clause[4] = <<>> THEN Ok(s.graph) ELSE ResolveAt(clause[4], env), LAMBDA src :
       Then(MatchClause(clause, s.rows, Over(ctx, src)), LAMBDA rows : Ok([s EXCEPT !.rows = rows])))
RunWrite(clause, s, ctx) ==
  LET acc == [graph |-> s.graph, rows |-> s.rows]
      done == CASE clause[1] = "create" -> CreateClause(clause[2], acc, ctx)
                [] clause[1] = "set" -> SetClause(clause[2], acc, ctx)
                [] clause[1] = "remove" -> RemoveClause(clause[2], acc)
                [] clause[1] = "delete" -> DeleteClause(clause[2], clause[3], acc, ctx)
                [] clause[1] = "merge" -> MergeClause(clause[2], clause[3], clause[4], acc, ctx)
  IN  Then(done, LAMBDA a : Ok([s EXCEPT !.graph = a.graph, !.rows = a.rows]))
RunClause(clauses, i, s, env) ==
  LET clause == clauses[i]
      next == IF i < Len(clauses) THEN clauses[i + 1] ELSE <<>>
      ctx == Context(s.graph, env.params)
  IN  CASE clause[1] = "match" -> RunMatch(clause, s, env, ctx)
        [] clause[1] = "unwind" -> Then(Unwind(s.rows, clause[2], clause[3], next, ctx), LAMBDA rows : Ok([s EXCEPT !.rows = rows]))
        [] clause[1] = "with" -> Then(Project(s.rows, clause[2], ctx), LAMBDA rows : Ok([s EXCEPT !.rows = rows]))
        [] clause[1] = "return" ->
             Then(Project(s.rows, clause[2], ctx), LAMBDA rows :
                  Ok([s EXCEPT !.rows = <<>>, !.result = <<ResultRows(clause[2], rows)>>]))
        [] clause[1] = "call" -> RunCall(clause, s, env, ctx)
        [] clause[1] \in {"create", "set", "remove", "delete", "merge"} -> RunWrite(clause, s, ctx)

(* A trailing CALL ... YIELD projects what it yields.                        *)
FinalRows(clauses, s) ==
  LET last == clauses[Len(clauses)]
  IN  IF s.result /= NoResult THEN s.result[1]
      ELSE IF last[1] = "call" /\ last[4] /= <<>>
      THEN [r \in DOMAIN s.rows |-> [i \in DOMAIN last[4] |-> Lookup(s.rows[r], last[4][i][2])]] ELSE <<>>
RunVersioned(clauses, env) ==
  LET start == [graph |-> NewOverlay(env.base), rows |-> <<NoFunction>>, result |-> NoResult]
  IN  IF \E p \in DOMAIN env.params : NestingExceeds(env.params[p], MaxDepth) THEN Fail("value_depth")
      ELSE Then(Each(Ok(start), [i \in DOMAIN clauses |-> i], LAMBDA s, i : RunClause(clauses, i, s, env)), LAMBDA s :
                Ok([rows |-> FinalRows(clauses, s), graph |-> s.graph, changes |-> Changes(s.graph)]))
=============================================================================
