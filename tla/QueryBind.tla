------------------------------- MODULE QueryBind -------------------------------
(***************************************************************************)
(* Name resolution, scoping and seek hints (acetone-cypher bind/binder.rs,  *)
(* bind/catalogue.rs): a parsed statement becomes the bound statement       *)
(* QueryRun executes, or is refused.                                        *)
(*                                                                          *)
(* A parsed statement has the forms of a bound one with names (numbers, 0   *)
(* for none) where that has variable ids, and patterns without hints.  A    *)
(* projection item is <<expression, alias>>, the expression <<"star">> for  *)
(* a star.  A binder is [vars, scope, coined, schema, strict, autodeclare]. *)
(* Suggestions, advisories and column texts are left out: a column without  *)
(* a name gets one of its own.                                              *)
(***************************************************************************)
EXTENDS QueryRun

CONSTANT ColumnNames   \* the first of the names given to unnamed columns

NewBinder(schema, strict, autodeclare) ==
  [vars |-> <<>>, scope |-> NoFunction, coined |-> {}, schema |-> schema, strict |-> strict, autodeclare |-> autodeclare]

Bound(x, b) == Ok(<<x, b>>)
Knows(b, name) == name \in DOMAIN b.scope
IdOf(b, name) == b.scope[name]
KindOf(b, id) == b.vars[id].kind
Declare(b, name, kind, labels) ==
  [b EXCEPT !.vars = Append(@, [kind |-> kind, labels |-> labels]), !.scope = With(@, name, Len(b.vars) + 1)]
Latest(b) == Len(b.vars)
Rescoped(b, scope) == [b EXCEPT !.scope = scope]

(* Binding each of a sequence in turn.                                       *)
BindEach(items, b, One(_, _)) ==
  Each(Ok(<<<<>>, b>>), items, LAMBDA acc, x : Then(One(x, acc[2]), LAMBDA r : Ok(<<Append(acc[1], r[1]), r[2]>>)))

---------------------------------------------------------------------------
(* Expressions                                                               *)

RECURSIVE BindExpr(_, _, _)
RECURSIVE PathPattern(_, _, _, _)
BindExprs(exprs, b, agg) == BindEach(exprs, b, LAMBDA e, c : BindExpr(e, c, agg))

(* The same form over other parts.                                           *)
Rebuilt(e, ps) ==
  CASE e[1] \in {"lit", "param", "var"} -> e
    [] e[1] \in {"prop", "isnull", "haslabels"} -> <<e[1], ps[1], e[3]>>
    [] e[1] = "unary" -> <<e[1], e[2], ps[1]>>
    [] e[1] \in {"logic", "binary"} -> <<e[1], e[2], ps[1], ps[2]>>
    [] e[1] = "call" -> <<e[1], e[2], ps>>
    [] e[1] = "agg" -> <<e[1], e[2], e[3], ps[1]>>
    [] e[1] = "list" -> <<e[1], ps>>
    [] e[1] = "map" -> <<e[1], [k \in DOMAIN e[2] |-> ps[CHOOSE i \in DOMAIN ps : KeysAscending(DOMAIN e[2])[i] = k]]>>
    [] e[1] = "case" -> <<e[1], ps[1], [i \in DOMAIN e[3] |-> <<ps[2 * i], ps[2 * i + 1]>>], ps[Len(ps)]>>
    [] e[1] \in {"index", "slice"} -> <<e[1]>> \o ps

Arity(name) ==
  CASE name = "coalesce" -> 1..9 [] name = "range" -> {2, 3} [] name = "substring" -> {2, 3} [] name = "replace" -> {3}
    [] name \in {"split", "left", "right"} -> {2}
    [] OTHER -> {1}

(* agg is where aggregates stand: "none" (not allowed), "ok" or "inside".    *)
BindAggregate(e, b, agg) ==
  IF agg = "none" THEN Fail("invalid_aggregation") ELSE IF agg = "inside" THEN Fail("nested_aggregation")
  ELSE IF e[4] = <<>> /\ e[2] /= "count" THEN Fail("arity")
  ELSE Then(BindExpr(e[4], b, "inside"), LAMBDA r : Bound(Rebuilt(e, <<r[1]>>), r[2]))

(* The body of a comprehension, quantifier or fold runs per element: its     *)
(* variables shadow, and aggregates are out.                                 *)
BindScoped(b, names, bodies) ==
  LET inner[i \in 0..Len(names)] == IF i = 0 THEN b ELSE Declare(inner[i - 1], names[i], "value", <<>>)
  IN  Then(BindExprs(bodies, inner[Len(names)], "none"), LAMBDA r : Bound(r[1], Rescoped(r[2], b.scope)))
BindListComprehension(e, b, agg) ==
  Then(BindExpr(e[3], b, agg), LAMBDA list :
       Then(BindScoped(list[2], <<e[2]>>, <<e[4], e[5]>>), LAMBDA r :
            Bound(<<e[1], Latest(list[2]) + 1, list[1]>> \o r[1], r[2])))
BindQuantifier(e, b, agg) ==
  Then(BindExpr(e[4], b, agg), LAMBDA list :
       Then(BindScoped(list[2], <<e[3]>>, <<e[5]>>), LAMBDA r :
            Bound(<<e[1], e[2], Latest(list[2]) + 1, list[1]>> \o r[1], r[2])))
BindReduce(e, b, agg) ==
  Then(BindExprs(<<e[3], e[5]>>, b, agg), LAMBDA given :
       Then(BindScoped(given[2], <<e[2], e[4]>>, <<e[6]>>), LAMBDA r :
            Bound(<<e[1], Latest(given[2]) + 1, given[1][1], Latest(given[2]) + 2, given[1][2]>> \o r[1], r[2])))
BindPatternComprehension(e, b) ==
  Then(PathPattern(e[2], b, TRUE, FALSE), LAMBDA p :
       Then(BindExprs(<<e[3], e[4]>>, p[2], "none"), LAMBDA r : Bound(<<e[1], p[1]>> \o r[1], Rescoped(r[2], b.scope))))

BindExpr(e, b, agg) ==
  IF e = <<>> THEN Bound(e, b)
  ELSE CASE e[1] = "var" -> IF Knows(b, e[2]) THEN Bound(<<"var", IdOf(b, e[2])>>, b) ELSE Fail("undefined_variable")
         [] e[1] = "agg" -> BindAggregate(e, b, agg)
         [] e[1] = "listcomp" -> BindListComprehension(e, b, agg)
         [] e[1] = "quantifier" -> BindQuantifier(e, b, agg)
         [] e[1] = "reduce" -> BindReduce(e, b, agg)
         [] e[1] = "exists" -> Then(PathPattern(e[2], b, FALSE, FALSE), LAMBDA p : Bound(<<e[1], p[1]>>, p[2]))
         [] e[1] = "patterncomp" -> BindPatternComprehension(e, b)
         [] e[1] = "call" /\ Len(e[3]) \notin Arity(e[2]) -> Fail("arity")
         [] OTHER -> Then(BindExprs(Subexprs(e), b, agg), LAMBDA r : Bound(Rebuilt(e, r[1]), r[2]))
---------------------------------------------------------------------------
(* Seek hints                                                                *)

LabelKey(schema, label) == IF label \in DOMAIN schema.keys THEN schema.keys[label] ELSE <<>>
Pinned(names, S) == names /= <<>> /\ \A i \in DOMAIN names : names[i] \in S

(* seek_index_on: the longest index with every property pinned, the last by  *)
(* name of those; index_on: the first single-property one.                   *)
SeekIndexOn(schema, label, S) ==
  LET fits == {x \in DOMAIN schema.indexes : schema.indexes[x].label = label /\ Pinned(schema.indexes[x].properties, S)}
      length(x) == Len(schema.indexes[x].properties)
  IN  IF fits = {} THEN <<>> ELSE <<CHOOSE x \in fits : \A y \in fits : length(y) < length(x) \/ (length(y) = length(x) /\ y <= x)>>
SingleIndexOn(schema, label, p) ==
  LET fits == {x \in DOMAIN schema.indexes : schema.indexes[x].label = label /\ schema.indexes[x].properties = <<p>>}
  IN  IF fits = {} THEN <<>> ELSE <<CHOOSE x \in fits : \A y \in fits : x <= y>>

Constant(e) == e /= <<>> /\ e[1] \in {"lit", "param"}

(* A key seek when the whole key is pinned, else an index seek.  Its values  *)
(* are the pins of var, or none of its own for the pattern's inline map.     *)
HintOn(schema, label, S, var, pins) ==
  LET valueOf(names) == IF var = 0 THEN <<>> ELSE [i \in DOMAIN names |-> pins[<<var, names[i]>>]]
      key == LabelKey(schema, label)
      found == SeekIndexOn(schema, label, S)
      properties == schema.indexes[found[1]].properties
  IN  IF Pinned(key, S) THEN << <<"key", label, key, valueOf(key)>> >>
      ELSE IF found = <<>> THEN <<>> ELSE << <<"index", found[1], properties, valueOf(properties)>> >>

(* index_hint: from the pattern's own map literal.                           *)
IndexHint(pattern, schema) ==
  LET properties == pattern.properties
      S == {p \in DOMAIN properties[2] : Constant(properties[2][p])}
  IN  IF Len(pattern.labels) /= 1 \/ properties = <<>> THEN <<>>
      ELSE IF properties[1] /= "map" THEN <<>> ELSE HintOn(schema, pattern.labels[1], S, 0, NoFunction)

AsProp(e) == IF e[1] = "prop" /\ e[2][1] = "var" THEN <<e[2][2], e[3]>> ELSE <<>>

(* collect_equality_pins: the last pin of a property wins.                   *)
RECURSIVE EqualityPins(_)
EqualityPins(e) ==
  LET a == EqualityPins(e[3])
      b == EqualityPins(e[4])
  IN  IF e[1] = "logic" /\ e[2] = "and" THEN [k \in DOMAIN a \cup DOMAIN b |-> IF k \in DOMAIN b THEN b[k] ELSE a[k]]
      ELSE IF e[1] /= "binary" THEN NoFunction ELSE IF e[2] /= "eq" THEN NoFunction
      ELSE IF AsProp(e[3]) /= <<>> /\ Constant(e[4]) THEN With(NoFunction, AsProp(e[3]), e[4])
      ELSE IF AsProp(e[4]) /= <<>> /\ Constant(e[3]) THEN With(NoFunction, AsProp(e[4]), e[3]) ELSE NoFunction

(* collect_range_bounds: <<lower, upper>> per property, the first of each    *)
(* side wins.                                                                *)
Mirrored(op) == CASE op = "gt" -> "lt" [] op = "ge" -> "le" [] op = "lt" -> "gt" [] op = "le" -> "ge"
SideOf(op, e) == IF op \in {"gt", "ge"} THEN <<<<e, op = "ge">>, NoBound>> ELSE <<NoBound, <<e, op = "le">>>>
FirstOf(a, b) == IF a = NoBound THEN b ELSE a
RECURSIVE RangeBounds(_)
RangeBounds(e) ==
  LET a == RangeBounds(e[3])
      b == RangeBounds(e[4])
  IN  IF e[1] = "logic" /\ e[2] = "and"
      THEN [k \in DOMAIN a \cup DOMAIN b |->
              IF k \notin DOMAIN a THEN b[k] ELSE IF k \notin DOMAIN b THEN a[k]
              ELSE <<FirstOf(a[k][1], b[k][1]), FirstOf(a[k][2], b[k][2])>>]
      ELSE IF e[1] /= "binary" THEN NoFunction ELSE IF e[2] \notin {"gt", "ge", "lt", "le"} THEN NoFunction
      ELSE IF AsProp(e[3]) /= <<>> /\ Constant(e[4]) THEN With(NoFunction, AsProp(e[3]), SideOf(e[2], e[4]))
      ELSE IF AsProp(e[4]) /= <<>> /\ Constant(e[3]) THEN With(NoFunction, AsProp(e[4]), SideOf(Mirrored(e[2]), e[3]))
      ELSE NoFunction

(* attach_equality_hints: no second hint on the same key or index.           *)
Targets(hints, hint) ==
  \E i \in DOMAIN hints : hints[i][2] = hint[2] /\ ((hints[i][1] = "key") = (hint[1] = "key"))
AttachEquality(start, pins, schema) ==
  LET S == {k[2] : k \in {j \in DOMAIN pins : j[1] = start.var}}
      hints == HintOn(schema, start.labels[1], S, start.var, pins)
  IN  IF start.var = 0 \/ Len(start.labels) /= 1 \/ S = {} THEN start
      ELSE IF hints = <<>> \/ Targets(start.hints, hints[1]) THEN start ELSE [start EXCEPT !.hints = @ \o hints]

(* attach_range_hints: the first bounded property with an index of its own.  *)
AttachRange(start, bounds, schema) ==
  LET served == {k[2] : k \in {j \in DOMAIN bounds : j[1] = start.var /\ SingleIndexOn(schema, start.labels[1], j[2]) /= <<>>}}
      p == CHOOSE p \in served : \A q \in served : p <= q
      both == bounds[<<start.var, p>>]
  IN  IF start.var = 0 \/ Len(start.labels) /= 1 THEN start ELSE IF served = {} THEN start
      ELSE [start EXCEPT !.hints = Append(@, <<"range", SingleIndexOn(schema, start.labels[1], p)[1], p, both[1], both[2]>>)]
AttachHints(patterns, where, schema) ==
  IF where = <<>> THEN patterns
  ELSE [i \in DOMAIN patterns |->
          [patterns[i] EXCEPT !.start = AttachRange(AttachEquality(@, EqualityPins(where), schema), RangeBounds(where), schema)]]

---------------------------------------------------------------------------
(* Patterns.  creating marks the patterns of CREATE and MERGE.               *)

(* A variable in node or relationship position: <<id or 0, binder>>.         *)
Position(name, b, introduce, allowed, fresh) ==
  IF name = 0 THEN Bound(0, b)
  ELSE IF Knows(b, name)
  THEN IF KindOf(b, IdOf(b, name)) \in allowed THEN Bound(IdOf(b, name), b)
       ELSE Fail(IF KindOf(b, IdOf(b, name)) = "path" THEN "already_bound" ELSE "type_conflict")
  ELSE IF introduce THEN Bound(Latest(b) + 1, fresh) ELSE Fail("new_variable_in_predicate")

NodePattern(n, b, introduce, creating) ==
  LET schema == b.schema
      unknown == b.strict /\ \E i \in DOMAIN n.labels : n.labels[i] \notin DOMAIN schema.keys
  IN  IF creating /\ n.var /= 0 /\ Knows(b, n.var) /\ (n.labels /= <<>> \/ n.properties /= <<>>) THEN Fail("bound_with_properties")
      ELSE IF unknown THEN Fail("unknown_label")
      ELSE Then(Position(n.var, b, introduce, {"node", "value"}, Declare(b, n.var, "node", n.labels)), LAMBDA v :
           Then(BindExpr(n.properties, v[2], "none"), LAMBDA r :
                Bound([var |-> v[1], labels |-> n.labels, properties |-> r[1], hints |-> IndexHint(n, schema),
                       mint |-> \E i \in DOMAIN n.labels : n.labels[i] \in schema.surrogate], r[2])))

RelKinds == {"rel", "rels", "value"}
DeclaredTypes(schema) == DOMAIN schema.relTypes \cup DOMAIN schema.discs
RelPattern(r, b, introduce) ==
  IF b.strict /\ ~(r.types \subseteq DeclaredTypes(b.schema) \cup b.coined) THEN Fail("unknown_type")
  ELSE Then(Position(r.var, b, introduce, RelKinds,
                     Declare(b, r.var, IF r.length = <<>> THEN "rel" ELSE "rels", <<>>)), LAMBDA v :
       Then(BindExpr(r.properties, v[2], "none"), LAMBDA e : Bound([r EXCEPT !.var = v[1], !.properties = e[1]], e[2])))

(* create_rel_pattern: fixed length, directed, one type, a fresh variable.   *)
(* An unknown type is coined when the session allows it.                     *)
CreateRelPattern(r, b) ==
  LET unknown == IF b.strict THEN r.types \ DeclaredTypes(b.schema) ELSE {}
      coined == [b EXCEPT !.coined = @ \cup unknown]
      declared == IF r.var = 0 THEN coined ELSE Declare(coined, r.var, "rel", <<>>)
  IN  IF r.length /= <<>> \/ r.direction = "both" \/ Cardinality(r.types) /= 1 THEN Fail("create_relationship")
      ELSE IF unknown /= {} /\ ~b.autodeclare THEN Fail("unknown_type")
      ELSE IF r.var /= 0 /\ Knows(b, r.var) THEN Fail("already_bound")
      ELSE Then(BindExpr(r.properties, declared, "none"), LAMBDA e :
                Bound([r EXCEPT !.var = IF @ = 0 THEN 0 ELSE Latest(declared), !.properties = e[1]], e[2]))

PathPattern(p, b, introduce, creating) ==
  LET named == IF p.path = 0 THEN b ELSE Declare(b, p.path, "path", <<>>)
      step(s, c) ==
        Then(IF creating THEN CreateRelPattern(s[1], c) ELSE RelPattern(s[1], c, introduce), LAMBDA r :
             Then(NodePattern(s[2], r[2], introduce, creating), LAMBDA n : Bound(<<r[1], n[1]>>, n[2])))
  IN  IF p.path /= 0 /\ Knows(b, p.path) THEN Fail("already_bound")
      ELSE IF p.path /= 0 /\ ~introduce THEN Fail("new_variable_in_predicate")
      ELSE Then(NodePattern(p.start, named, introduce, creating), LAMBDA n :
           Then(BindEach(p.steps, n[2], step), LAMBDA ss :
                Bound([start |-> n[1], steps |-> ss[1], path |-> IF p.path = 0 THEN 0 ELSE IdOf(named, p.path)], ss[2])))
---------------------------------------------------------------------------
(* Grouping keys                                                             *)

PatternVars(p) == ({p.start.var} \cup UNION {{p.steps[i][1].var, p.steps[i][2].var} : i \in DOMAIN p.steps}) \ {0}

(* same_bound: equality of bound expressions up to the local variables of    *)
(* corresponding iterations (pairs).  Patterns are never equal.              *)
RECURSIVE SameBoundIn(_, _, _)
SameParts(xs, ys, pairs) == Len(xs) = Len(ys) /\ \A i \in DOMAIN xs : SameBoundIn(xs[i], ys[i], pairs)
SameBoundIn(a, b, pairs) ==
  IF <<>> \in {a, b} THEN a = b
  ELSE IF a[1] /= b[1] \/ a[1] \in {"exists", "patterncomp"} THEN FALSE
  ELSE CASE a[1] = "lit" -> a[2] = b[2] \/ (Kind(a[2]) = "float" /\ Kind(b[2]) = "float" /\ AsF64(a[2]) = AsF64(b[2]))
         [] a[1] = "var" -> a = b \/ <<a[2], b[2]>> \in pairs
         [] a[1] = "listcomp" -> SameBoundIn(a[3], b[3], pairs) /\ SameParts(SubSeq(a, 4, 5), SubSeq(b, 4, 5), pairs \cup {<<a[2], b[2]>>})
         [] a[1] = "quantifier" -> a[2] = b[2] /\ SameBoundIn(a[4], b[4], pairs) /\ SameBoundIn(a[5], b[5], pairs \cup {<<a[3], b[3]>>})
         [] a[1] = "reduce" -> /\ SameParts(<<a[3], a[5]>>, <<b[3], b[5]>>, pairs)
                               /\ SameBoundIn(a[6], b[6], pairs \cup {<<a[2], b[2]>>, <<a[4], b[4]>>})
         [] a[1] = "map" -> DOMAIN a[2] = DOMAIN b[2] /\ SameParts(Subexprs(a), Subexprs(b), pairs)
         [] a[1] = "param" -> a = b
         [] OTHER -> /\ SameParts(Subexprs(a), Subexprs(b), pairs)
                     /\ Rebuilt(a, Subexprs(b)) = b
SameBound(a, b) == SameBoundIn(a, b, {})

(* digest_tree: a tree of the same shape, a local variable by its distance   *)
(* from the innermost and a zero without its sign.                           *)
PositionOf(locals, x) == LET at == Positions(locals, x) IN IF at = {} THEN -1 ELSE Len(locals) - CHOOSE i \in at : \A j \in at : j <= i

DigestVar(x, locals) == IF PositionOf(locals, x) < 0 THEN <<"free", x>> ELSE <<"local", PositionOf(locals, x)>>
RECURSIVE Digest(_, _)
Digests(es, locals) == [i \in DOMAIN es |-> Digest(es[i], locals)]
Digest(e, locals) ==
  IF e = <<>> THEN <<>>
  ELSE CASE e[1] = "lit" -> IF Kind(e[2]) = "float" THEN <<"lit", Float(AsF64(e[2]))>> ELSE e
         [] e[1] = "var" -> DigestVar(e[2], locals)
         [] e[1] = "listcomp" -> <<"listcomp", Digest(e[3], locals)>> \o Digests(SubSeq(e, 4, 5), Append(locals, e[2]))
         [] e[1] = "quantifier" -> <<"quantifier", e[2], Digest(e[4], locals), Digest(e[5], Append(locals, e[3]))>>
         [] e[1] = "reduce" -> <<"reduce", Digest(e[3], locals), Digest(e[5], locals), Digest(e[6], locals \o <<e[2], e[4]>>)>>
         [] e[1] \in {"exists", "patterncomp"} -> e
         [] OTHER -> Rebuilt(e, Digests(Subexprs(e), locals))

(* KeyIndex: a key is found by its digest, then confirmed.                   *)
WholeMatch(keys, e, locals) == \E k \in keys : Digest(k, <<>>) = Digest(e, locals) /\ SameBound(k, e)

(* validate_grouping_refs: every reference outside an aggregate is a key, an *)
(* output or a local.  In a projection item only simple keys match.          *)
RECURSIVE GroupingRefsOk(_, _, _, _, _)
AllGroupingRefsOk(es, keys, outputs, simple, locals) == \A i \in DOMAIN es : GroupingRefsOk(es[i], keys, outputs, simple, locals)
GroupingRefsOk(e, keys, outputs, simple, locals) ==
  IF e = <<>> THEN TRUE
  ELSE IF (~simple \/ e[1] \in {"var", "prop"}) /\ WholeMatch(keys, e, locals) THEN TRUE
  ELSE CASE e[1] = "agg" -> TRUE
         [] e[1] = "var" -> e[2] \in outputs \/ Has(locals, e[2])
         [] e[1] = "listcomp" -> /\ GroupingRefsOk(e[3], keys, outputs, simple, locals)
                                 /\ AllGroupingRefsOk(SubSeq(e, 4, 5), keys, outputs, simple, Append(locals, e[2]))
         [] e[1] = "quantifier" -> /\ GroupingRefsOk(e[4], keys, outputs, simple, locals)
                                   /\ GroupingRefsOk(e[5], keys, outputs, simple, Append(locals, e[3]))
         [] e[1] = "reduce" -> /\ AllGroupingRefsOk(<<e[3], e[5]>>, keys, outputs, simple, locals)
                               /\ GroupingRefsOk(e[6], keys, outputs, simple, locals \o <<e[2], e[4]>>)
         [] e[1] = "patterncomp" -> AllGroupingRefsOk(Subexprs(e), keys, outputs, simple, locals \o KeysAscending(PatternVars(e[2])))
         [] OTHER -> AllGroupingRefsOk(Subexprs(e), keys, outputs, simple, locals)

---------------------------------------------------------------------------
(* Projection                                                                *)

(* contains_aggregate, patterns included.                                    *)
RECURSIVE ContainsAggregate(_)
ContainsAggregate(e) ==
  e /= <<>> /\ (e[1] = "agg" \/ \E i \in DOMAIN Subexprs(e) : ContainsAggregate(Subexprs(e)[i]))

(* The items <<expression, name>>; a star is every visible name in order.    *)
BindItem(item, i, b, with) ==
  LET names == KeysAscending(DOMAIN b.scope)
  IN  IF item[1][1] = "star"
      THEN IF names = <<>> THEN Fail("no_variables") ELSE Bound([k \in DOMAIN names |-> <<<<"var", IdOf(b, names[k])>>, names[k]>>], b)
      ELSE IF item[2] = 0 /\ with /\ item[1][1] /= "var" THEN Fail("no_alias")
      ELSE Then(BindExpr(item[1], b, "ok"), LAMBDA r :
                Bound(<< <<r[1], IF item[2] /= 0 THEN item[2] ELSE IF item[1][1] = "var" THEN item[1][2] ELSE ColumnNames + i>> >>, r[2]))
BindItems(items, b, with) ==
  Then(BindEach([i \in DOMAIN items |-> i], b, LAMBDA i, c : BindItem(items[i], i, c, with)), LAMBDA r : Bound(Flat(r[1]), r[2]))

ItemsGrouped(items) ==
  LET keys == {items[i][1] : i \in {j \in DOMAIN items : ~ContainsAggregate(items[j][1])}}
  IN  \A i \in DOMAIN items : ContainsAggregate(items[i][1]) => GroupingRefsOk(items[i][1], keys, {}, TRUE, <<>>)

OrderGrouped(order, items, outputs, p, aggregating) ==
  LET keys == {items[i][1] : i \in {j \in DOMAIN items : ~aggregating \/ ~ContainsAggregate(items[j][1])}}
  IN  p.distinct \/ aggregating => \A i \in DOMAIN order : GroupingRefsOk(order[i], keys, outputs, FALSE, <<>>)

(* The outputs get ids of their own; a plain variable keeps its kind.        *)
Outputs(items, b) ==
  LET var(e) == IF e[1] = "var" THEN b.vars[e[2]] ELSE [kind |-> "value", labels |-> <<>>]
      upto[i \in 0..Len(items)] ==
        IF i = 0 THEN <<NoFunction, b>>
        ELSE <<With(upto[i - 1][1], items[i][2], Latest(b) + i), [upto[i - 1][2] EXCEPT !.vars = Append(@, var(items[i][1]))]>>
  IN  upto[Len(items)]
Union(old, new) == [x \in DOMAIN old \cup DOMAIN new |-> IF x \in DOMAIN new THEN new[x] ELSE old[x]]

Projection(p, b, with) ==
  LET bindOrder(items, out, aggregating) ==
        BindExprs([i \in DOMAIN p.order |-> p.order[i][1]], Rescoped(out[2], Union(b.scope, out[1])), IF aggregating THEN "ok" ELSE "none")
      shaped(items, out, paged, order, where, aggregating) ==
        [items |-> [i \in DOMAIN items |-> <<items[i][1], out[1][items[i][2]]>>],
         grouping |-> SelectSeq([i \in DOMAIN items |-> i], LAMBDA i : ~ContainsAggregate(items[i][1])),
         aggregating |-> aggregating, distinct |-> p.distinct,
         order |-> [i \in DOMAIN order |-> <<order[i], p.order[i][2]>>], skip |-> paged[1], limit |-> paged[2], where |-> where]
  IN  Then(BindItems(p.items, b, with), LAMBDA r :
      LET items == r[1]
          aggregating == \E i \in DOMAIN items : ContainsAggregate(items[i][1])
      IN  IF \E i \in DOMAIN items : \E j \in 1..i - 1 : items[i][2] = items[j][2] THEN Fail("column_conflict")
          ELSE IF aggregating /\ ~ItemsGrouped(items) THEN Fail("ambiguous_aggregation")
          ELSE Then(BindExprs(<<p.skip, p.limit>>, r[2], "none"), LAMBDA paged :
               LET out == Outputs(items, paged[2])
               IN  Then(bindOrder(items, out, aggregating), LAMBDA order :
                   IF ~OrderGrouped(order[1], items, {out[1][x] : x \in DOMAIN out[1]}, p, aggregating) THEN Fail("undefined_variable")
                   ELSE Then(BindExpr(p.where, order[2], "none"), LAMBDA where :
                             Bound(shaped(items, out, paged[1], order[1], where[1], aggregating), Rescoped(where[2], out[1]))))))
---------------------------------------------------------------------------
(* Clauses                                                                   *)

LabelsOf(b, id) == {b.vars[id].labels[i] : i \in DOMAIN b.vars[id].labels}

(* entity_target: labels are for nodes only.                                 *)
EntityTarget(b, name, allowed) ==
  IF ~Knows(b, name) THEN Fail("undefined_variable")
  ELSE IF KindOf(b, IdOf(b, name)) \in allowed THEN Ok(IdOf(b, name)) ELSE Fail("type_conflict")

(* reject_key_property and keyed_label, for the labels known when binding.   *)
KeyProtected(b, id, p) == b.strict /\ \E label \in LabelsOf(b, id) : Has(LabelKey(b.schema, label), p)
Keyed(b, id) == b.strict /\ \E label \in LabelsOf(b, id) : LabelKey(b.schema, label) /= <<>>

BindSetItem(item, b) ==
  LET value == item[Len(item)]
      literal == IF item[1] = "merge" /\ value[1] = "map" THEN DOMAIN value[2] ELSE {}
      refused(id) ==
        CASE item[1] = "property" -> KeyProtected(b, id, item[3])
          [] item[1] = "replace" -> Keyed(b, id)
          [] item[1] = "merge" -> \E p \in literal : KeyProtected(b, id, p)
  IN  Then(EntityTarget(b, item[2], IF item[1] = "labels" THEN {"node", "value"} ELSE {"node", "value", "rel"}), LAMBDA id :
           IF item[1] = "labels"
           THEN IF b.strict /\ \E i \in DOMAIN value : value[i] \notin DOMAIN b.schema.keys THEN Fail("unknown_label")
                ELSE Bound(<<"labels", id, value>>, b)
           ELSE IF refused(id) THEN Fail("key_property")
           ELSE Then(BindExpr(value, b, "none"), LAMBDA r : Bound([item EXCEPT ![2] = id, ![Len(item)] = r[1]], r[2])))
BindRemoveItem(item, b) ==
  Then(EntityTarget(b, item[2], IF item[1] = "labels" THEN {"node", "value"} ELSE {"node", "value", "rel"}), LAMBDA id :
       IF item[1] = "property" /\ KeyProtected(b, id, item[3]) THEN Fail("key_property") ELSE Bound([item EXCEPT ![2] = id], b))

BindMatch(c, b) ==
  Then(BindEach(c[3], b, LAMBDA p, d : PathPattern(p, d, TRUE, FALSE)), LAMBDA ps :
       Then(BindExpr(c[5], ps[2], "none"), LAMBDA w :
            Bound(<<"match", c[2], AttachHints(ps[1], w[1], b.schema), c[4], w[1]>>, w[2])))
BindUnwind(c, b) ==
  Then(BindExpr(c[2], b, "none"), LAMBDA r :
       IF Knows(b, c[3]) THEN Fail("already_bound")
       ELSE Bound(<<"unwind", r[1], Latest(r[2]) + 1>>, Declare(r[2], c[3], "value", <<>>)))

(* call_clause: procs maps a procedure to [columns, arity]; a yield is       *)
(* <<column, name>>.                                                         *)
BindYield(y, b, columns) ==
  IF ~Has(columns, y[1]) THEN Fail("unknown_column") ELSE IF Knows(b, y[2]) THEN Fail("already_bound")
  ELSE Bound(<<y[1], Latest(b) + 1>>, Declare(b, y[2], "value", <<>>))
BindCall(c, b, procs) ==
  IF c[2] \notin DOMAIN procs THEN Fail("procedure_not_found")
  ELSE IF Len(c[3]) \notin procs[c[2]].arity THEN Fail("arity")
  ELSE Then(BindExprs(c[3], b, "none"), LAMBDA args :
       Then(BindEach(c[4], args[2], LAMBDA y, d : BindYield(y, d, procs[c[2]].columns)), LAMBDA ys :
       Then(BindExpr(c[5], ys[2], "none"), LAMBDA w : Bound(<<"call", c[2], args[1], ys[1], w[1]>>, w[2]))))
BindMerge(c, b) ==
  Then(PathPattern(c[2], b, TRUE, TRUE), LAMBDA p :
       Then(BindEach(c[3], p[2], BindSetItem), LAMBDA made :
            Then(BindEach(c[4], made[2], BindSetItem), LAMBDA found : Bound(<<"merge", p[1], made[1], found[1]>>, found[2]))))

BindClause(c, b, procs) ==
  CASE c[1] = "match" -> BindMatch(c, b)
    [] c[1] = "unwind" -> BindUnwind(c, b)
    [] c[1] \in {"with", "return"} -> Then(Projection(c[2], b, c[1] = "with"), LAMBDA r : Bound(<<c[1], r[1]>>, r[2]))
    [] c[1] = "call" -> BindCall(c, b, procs)
    [] c[1] = "create" -> Then(BindEach(c[2], b, LAMBDA p, d : PathPattern(p, d, TRUE, TRUE)), LAMBDA r : Bound(<<"create", r[1]>>, r[2]))
    [] c[1] = "set" -> Then(BindEach(c[2], b, BindSetItem), LAMBDA r : Bound(<<"set", r[1]>>, r[2]))
    [] c[1] = "remove" -> Then(BindEach(c[2], b, BindRemoveItem), LAMBDA r : Bound(<<"remove", r[1]>>, r[2]))
    [] c[1] = "delete" -> Then(BindExprs(c[3], b, "none"), LAMBDA r : Bound(<<"delete", c[2], r[1]>>, r[2]))
    [] c[1] = "merge" -> BindMerge(c, b)

(* bind_with: [clauses, coined].                                             *)
BindStatement(clauses, schema, strict, autodeclare, procs) ==
  Then(BindEach(clauses, NewBinder(schema, strict, autodeclare), LAMBDA c, b : BindClause(c, b, procs)), LAMBDA r :
       Ok([clauses |-> r[1], coined |-> r[2].coined, vars |-> r[2].vars]))
=============================================================================
