------------------------------- MODULE QueryEval -------------------------------
(***************************************************************************)
(* The expression evaluator and the pattern matcher of the query engine     *)
(* (acetone-cypher exec/eval.rs, exec/functions.rs, exec/run.rs).           *)
(*                                                                          *)
(* An expression is a tuple tagged by its form; an absent part is <<>>.  A  *)
(* row is a partial function from variables (positive numbers, 0 for none)  *)
(* to values; a variable bound to null is in its domain.  A context holds   *)
(* the source, the parameters and, inside an aggregating projection, the    *)
(* value of each aggregate expression.                                      *)
(***************************************************************************)
EXTENDS QueryFunctions

Context(src, params) == [src |-> src, params |-> params, aggs |-> NoFunction]
Bind(row, x, v) == IF x = 0 THEN row ELSE With(row, x, v)
NameOf(n) == Str(<<n>>)
Names(S) == LET ks == KeysAscending(S) IN [i \in DOMAIN ks |-> NameOf(ks[i])]

(* A read of the source: an unreadable one answers empty and is remembered.  *)
ReadOf(answer) == IF answer.failed THEN Charged("failed_read", 0, Ok(answer)) ELSE Ok(answer)

---------------------------------------------------------------------------
(* functions::call                                                           *)

ChargedList(items) == Charged("collection", Len(items), Ok(List(items)))
Reversed(s) == [i \in DOMAIN s |-> s[Len(s) + 1 - i]]
Entities(wrap, entities) == [i \in DOMAIN entities |-> <<wrap, entities[i]>>]

NumericFunction(name, x) ==
  CASE ~IsNumber(x) -> TypeError
    [] name = "abs" /\ Kind(x) = "int" -> Checked(Abs(x[2]))
    [] name = "abs" /\ Kind(x) = "float" ->
         Ok(Float(IF x[2] = NegZero THEN 0 ELSE IF x[2] = NaN THEN NaN ELSE Abs(x[2])))
    [] name = "sign" -> Ok(Whole(IF IsNaN(x) THEN 0 ELSE Sign(AsF64(x))))

ListFunction(name, x) ==
  CASE name = "size" /\ Kind(x) \in {"list", "string"} -> Ok(Whole(Len(x[2])))
    [] name = "size" /\ Kind(x) = "map" -> Ok(Whole(Cardinality(DOMAIN x[2])))
    [] name = "length" /\ Kind(x) = "path" -> Ok(Whole(Len(x[2].rels)))
    [] name = "length" /\ Kind(x) \in {"list", "string"} -> Ok(Whole(Len(x[2])))
    [] name = "head" /\ Kind(x) = "list" -> Ok(IF x[2] = <<>> THEN Null ELSE Head(x[2]))
    [] name = "last" /\ Kind(x) = "list" -> Ok(IF x[2] = <<>> THEN Null ELSE x[2][Len(x[2])])
    [] name = "tail" /\ Kind(x) = "list" -> ChargedList(IF x[2] = <<>> THEN <<>> ELSE Tail(x[2]))
    [] name = "reverse" /\ Kind(x) = "list" -> ChargedList(Reversed(x[2]))
    [] name = "reverse" /\ Kind(x) = "string" -> Ok(Str(Reversed(x[2])))
    [] OTHER -> TypeError

EntityFunction(name, x, src) ==
  LET fields == IF Kind(x) = "map" THEN x[2] ELSE x[2].properties
      end(id) == Then(ReadOf(GNodeAt(src, id)), LAMBDA n : Ok(IF n.some /\ n.items /= <<>> THEN Node(n.items[1]) ELSE Null))
  IN  CASE name = "keys" /\ Kind(x) \in {"map", "node", "rel"} -> ChargedList(Names(DOMAIN fields))
        [] name = "properties" /\ Kind(x) \in {"map", "node", "rel"} -> Ok(Map(fields))
        [] name = "labels" /\ Kind(x) = "node" -> ChargedList([i \in DOMAIN x[2].labels |-> NameOf(x[2].labels[i])])
        [] name = "type" /\ Kind(x) = "rel" -> Ok(NameOf(x[2].type))
        [] name = "startNode" /\ Kind(x) = "rel" -> end(x[2].start)
        [] name = "endNode" /\ Kind(x) = "rel" -> end(x[2].end)
        [] name = "nodes" /\ Kind(x) = "path" -> ChargedList(Entities("node", x[2].nodes))
        [] name = "relationships" /\ Kind(x) = "path" -> ChargedList(Entities("rel", x[2].rels))
        [] OTHER -> TypeError

Range(args) ==
  LET step == IF Len(args) > 2 THEN args[3][2] ELSE 1
      start == args[1][2]
      span == args[2][2] - start
      count == IF (step > 0 /\ span < 0) \/ (step < 0 /\ span > 0) THEN 0 ELSE Truncated(span, step) + 1
  IN  IF (\E i \in DOMAIN args : Kind(args[i]) /= "int") THEN Fail("invalid_argument")
      ELSE IF step = 0 \/ Len(args) < 2 THEN Fail("invalid_argument")
      ELSE Charged("collection", count, Ok(List([i \in 1..count |-> Whole(start + (i - 1) * step)])))

(* The places a separator starts, left to right without overlap.  The empty  *)
(* separator stands at every boundary.                                       *)
RECURSIVE Occurrences(_, _, _)
Occurrences(s, sep, from) ==
  IF from + Len(sep) > Len(s) + 1 THEN <<>>
  ELSE IF SubSeq(s, from, from + Len(sep) - 1) = sep
       THEN <<from>> \o Occurrences(s, sep, from + (IF sep = <<>> THEN 1 ELSE Len(sep)))
       ELSE Occurrences(s, sep, from + 1)
Parts(s, sep) ==
  LET at == Occurrences(s, sep, 1)
      edges == <<1 - Len(sep)>> \o at \o <<Len(s) + 1>>
  IN  [i \in 1..Len(at) + 1 |-> SubSeq(s, edges[i] + Len(sep), edges[i + 1] - 1)]
Joined(parts, by) == Flat([i \in DOMAIN parts |-> IF i = 1 THEN parts[i] ELSE by \o parts[i]])

Negative(x) == Kind(x) = "int" /\ x[2] < 0
StringFunction(name, args) ==
  LET s == args[1][2]
      n == args[2][2]
      parts == Parts(s, n)
      result == Joined(parts, args[3][2])
      from == IF n > Len(s) THEN Len(s) ELSE n
      taken == IF Len(args) > 2 /\ from + args[3][2] < Len(s) THEN from + args[3][2] ELSE Len(s)
  IN  CASE name = "split" /\ Kind(args[1]) = "string" /\ Kind(args[2]) = "string" ->
             Charged("collection", Len(parts), Ok(List([i \in DOMAIN parts |-> Str(parts[i])])))
        [] name = "replace" /\ \A i \in 1..3 : Kind(args[i]) = "string" ->
             Charged("collection", Len(result), Ok(Str(result)))
        [] name \in {"left", "right", "substring"} /\ Kind(args[1]) = "string" /\ Negative(args[2]) -> Fail("invalid_argument")
        [] name = "left" /\ Kind(args[1]) = "string" /\ Kind(args[2]) = "int" -> Ok(Str(SubSeq(s, 1, from)))
        [] name = "right" /\ Kind(args[1]) = "string" /\ Kind(args[2]) = "int" -> Ok(Str(SubSeq(s, Len(s) - from + 1, Len(s))))
        [] name = "substring" /\ Kind(args[1]) = "string" /\ Kind(args[2]) = "int" ->
             IF Len(args) > 2 /\ Kind(args[3]) /= "int" THEN TypeError
             ELSE IF Len(args) > 2 /\ Negative(args[3]) THEN Fail("invalid_argument")
             ELSE Ok(Str(SubSeq(s, from + 1, taken)))
        [] OTHER -> TypeError

ToInteger(x) ==
  CASE Kind(x) = "int" -> Ok(x)
    [] Kind(x) = "float" -> Ok(Whole(TruncateF(x[2])))
    [] Kind(x) = "string" ->
         Ok(IF ParsesInt(x[2]) THEN Whole(ParseInt(x[2]))
            ELSE IF ParseFloat(x[2]) = Null THEN Null ELSE Whole(TruncateF(ParseFloat(x[2])[2])))
    [] OTHER -> TypeError
Conversion(name, x) ==
  CASE name = "toString" /\ Kind(x) = "string" -> Ok(x)
    [] name = "toString" /\ IsNumber(x) -> Ok(Str(Render(x)))
    [] name = "toInteger" -> ToInteger(x)
    [] name = "toFloat" /\ IsNumber(x) -> Ok(Float(FloatOf(x)))
    [] name = "toFloat" /\ Kind(x) = "string" -> Ok(ParseFloat(x[2]))
    [] OTHER -> TypeError

Call(name, args, src) ==
  LET known == {i \in DOMAIN args : args[i] /= Null}
  IN  CASE name = "coalesce" -> Ok(IF known = {} THEN Null ELSE args[CHOOSE i \in known : \A j \in known : i <= j])
        [] name = "range" -> Range(args)
        [] name \notin {"coalesce", "range"} /\ known /= DOMAIN args -> Ok(Null)
        [] OTHER ->
             CASE name \in {"abs", "sign"} -> NumericFunction(name, args[1])
               [] name \in {"size", "length", "head", "last", "tail", "reverse"} -> ListFunction(name, args[1])
               [] name \in {"split", "replace", "left", "right", "substring"} -> StringFunction(name, args)
               [] name \in {"toString", "toInteger", "toFloat"} -> Conversion(name, args[1])
               [] OTHER -> EntityFunction(name, args[1], src)
---------------------------------------------------------------------------
(* eval                                                                      *)

RECURSIVE Eval(_, _, _)
RECURSIVE MatchPath(_, _, _)
RECURSIVE PatternExists(_, _, _)

(* An optional predicate holds only when it is true.                         *)
Passes(predicate, row, ctx) ==
  IF predicate = <<>> THEN Ok(TRUE)
  ELSE Then(Eval(predicate, row, ctx), LAMBDA v : Then(Truth(v), LAMBDA t : Ok(t = Bool(TRUE))))

EvalAll(exprs, row, ctx) ==
  Each(Ok(<<>>), exprs, LAMBDA acc, e : Then(Eval(e, row, ctx), LAMBDA v : Ok(Append(acc, v))))

(* The list a comprehension, quantifier or fold runs over.                   *)
OverList(v, Next(_)) == IF v = Null THEN Ok(Null) ELSE IF Kind(v) = "list" THEN Next(v[2]) ELSE TypeError

AppendNestable(acc, v) == Then(EnsureNestable(v), LAMBDA x : Ok(Append(acc, x)))

EvalCase(e, row, ctx) ==
  LET hit(subject, when) ==
        IF e[2] = <<>> THEN Passes(when[1], row, ctx)
        ELSE Then(Eval(when[1], row, ctx), LAMBDA c : Ok(Eq3(subject, c) = Bool(TRUE)))
      taken(subject) ==
        Each(Ok(0), [i \in DOMAIN e[3] |-> i], LAMBDA found, i :
               IF found > 0 THEN Ok(found) ELSE Then(hit(subject, e[3][i]), LAMBDA h : Ok(IF h THEN i ELSE 0)))
  IN  Then(IF e[2] = <<>> THEN Ok(Null) ELSE Eval(e[2], row, ctx), LAMBDA subject :
           Then(taken(subject), LAMBDA i :
                IF i > 0 THEN Eval(e[3][i][2], row, ctx)
                ELSE IF e[4] = <<>> THEN Ok(Null) ELSE Eval(e[4], row, ctx)))

(* A list comprehension charges an element before its value is computed, a   *)
(* pattern comprehension after.                                              *)
EvalListComprehension(e, row, ctx) ==
  LET step(acc, item) ==
        LET inner == Bind(row, e[2], item)
            value == IF e[5] = <<>> THEN Ok(item) ELSE Eval(e[5], inner, ctx)
        IN  Then(Passes(e[4], inner, ctx), LAMBDA keep :
                 IF ~keep THEN Ok(acc)
                 ELSE Charged("push", Len(acc), Then(value, LAMBDA v : AppendNestable(acc, v))))
  IN  Then(Eval(e[3], row, ctx), LAMBDA v :
           OverList(v, LAMBDA items : Then(Each(Ok(<<>>), items, step), LAMBDA out : Ok(List(out)))))
EvalPatternComprehension(e, row, ctx) ==
  LET step(acc, matched) ==
        Then(Passes(e[3], matched.row, ctx), LAMBDA keep :
             IF ~keep THEN Ok(acc)
             ELSE Then(Eval(e[4], matched.row, ctx), LAMBDA v :
                       Then(AppendNestable(acc, v), LAMBDA out : Charged("push", Len(acc), Ok(out)))))
  IN  Then(MatchPath(e[2], [row |-> row, used |-> {}], ctx), LAMBDA found :
           Then(Each(Ok(<<>>), found, step), LAMBDA out : Ok(List(out))))

EvalQuantifier(e, row, ctx) ==
  LET step(acc, item) ==
        Charged("push", Len(acc),
                Then(Eval(e[5], Bind(row, e[3], item), ctx), LAMBDA v : Then(Truth(v), LAMBDA t : Ok(Append(acc, t)))))
  IN  Then(Eval(e[4], row, ctx), LAMBDA v :
           OverList(v, LAMBDA items : Then(Each(Ok(<<>>), items, step), LAMBDA results : Ok(Quantified(e[2], results)))))
EvalReduce(e, row, ctx) ==
  LET fold(items, init) ==
        Each(Ok(init), [i \in DOMAIN items |-> i], LAMBDA acc, i :
               Charged("push", i - 1, Eval(e[6], Bind(Bind(row, e[2], acc), e[4], items[i]), ctx)))
  IN  Then(Eval(e[5], row, ctx), LAMBDA v :
           OverList(v, LAMBDA items : Then(Eval(e[3], row, ctx), LAMBDA init : fold(items, init))))

(* A map literal's entries, a function from property to expression, are      *)
(* taken in ascending order.                                                 *)
EvalMap(f, row, ctx) ==
  LET ks == KeysAscending(DOMAIN f)
      values == Each(Ok(<<>>), ks, LAMBDA acc, k : Then(Eval(f[k], row, ctx), LAMBDA v : AppendNestable(acc, v)))
  IN  Then(values, LAMBDA vs : Ok(Map([k \in DOMAIN f |-> vs[CHOOSE i \in DOMAIN ks : ks[i] = k]])))

EvalHasLabels(x, labels) ==
  CASE x = Null -> Ok(Null)
    [] Kind(x) = "node" -> Ok(Bool(HasLabels(x[2], labels)))
    [] Kind(x) = "rel" -> Ok(Bool(\A i \in DOMAIN labels : labels[i] = x[2].type))
    [] OTHER -> Fail("invalid_argument")

(* A carried value decays where an operator, function or index consumes it.  *)
DecayedEval(e, row, ctx) == Then(Eval(e, row, ctx), LAMBDA v : Ok(Decayed(v)))
OptionalBound(e, row, ctx) == IF e = <<>> THEN Ok(<<>>) ELSE DecayedEval(e, row, ctx)

Eval(e, row, ctx) ==
  CASE e[1] = "lit" -> Ok(e[2])
    [] e[1] = "param" -> IF e[2] \in DOMAIN ctx.params THEN Ok(ctx.params[e[2]]) ELSE Fail("missing_parameter")
    [] e[1] = "var" -> Ok(Lookup(row, e[2]))
    [] e[1] = "prop" -> Then(Eval(e[2], row, ctx), LAMBDA v : PropertyAccess(v, e[3]))
    [] e[1] = "unary" -> Then(DecayedEval(e[3], row, ctx), LAMBDA v : Unary(e[2], v))
    [] e[1] = "logic" ->
         Then(Then(Eval(e[3], row, ctx), Truth), LAMBDA a :
              Then(Then(Eval(e[4], row, ctx), Truth), LAMBDA b : Ok(Logic(e[2], a, b))))
    [] e[1] = "binary" ->
         Then(DecayedEval(e[3], row, ctx), LAMBDA a : Then(DecayedEval(e[4], row, ctx), LAMBDA b : Binary(e[2], a, b)))
    [] e[1] = "isnull" -> Then(Eval(e[2], row, ctx), LAMBDA v : Ok(Bool((v = Null) /= e[3])))
    [] e[1] = "haslabels" -> Then(DecayedEval(e[2], row, ctx), LAMBDA v : EvalHasLabels(v, e[3]))
    [] e[1] = "call" ->
         Then(EvalAll(e[3], row, ctx), LAMBDA vs : Call(e[2], [i \in DOMAIN vs |-> Decayed(vs[i])], ctx.src))
    [] e[1] = "agg" -> IF e \in DOMAIN ctx.aggs THEN Ok(ctx.aggs[e]) ELSE Fail("unsupported")
    [] e[1] = "case" -> EvalCase(e, row, ctx)
    [] e[1] = "list" ->
         Then(Each(Ok(<<>>), e[2], LAMBDA acc, i : Then(Eval(i, row, ctx), LAMBDA v : AppendNestable(acc, v))),
              LAMBDA out : Ok(List(out)))
    [] e[1] = "map" -> EvalMap(e[2], row, ctx)
    [] e[1] = "listcomp" -> EvalListComprehension(e, row, ctx)
    [] e[1] = "quantifier" -> EvalQuantifier(e, row, ctx)
    [] e[1] = "reduce" -> EvalReduce(e, row, ctx)
    [] e[1] = "index" ->
         Then(DecayedEval(e[2], row, ctx), LAMBDA a : Then(DecayedEval(e[3], row, ctx), LAMBDA b : IndexAccess(a, b)))
    [] e[1] = "slice" ->
         Then(DecayedEval(e[2], row, ctx), LAMBDA b :
              Then(OptionalBound(e[3], row, ctx), LAMBDA from :
                   Then(OptionalBound(e[4], row, ctx), LAMBDA to : SliceAccess(b, from, to))))
    [] e[1] = "exists" -> Then(PatternExists(e[2], row, ctx), LAMBDA b : Ok(Bool(b)))
    [] e[1] = "patterncomp" -> EvalPatternComprehension(e, row, ctx)

---------------------------------------------------------------------------
(* Pattern predicates                                                        *)

(* probe_steps: whether the rest of the pattern can be walked.  The bound    *)
(* variables and labels of a step are looked at, its property maps are not.  *)
RECURSIVE ProbeSteps(_, _, _, _, _)
ProbeSteps(steps, at, from, row, ctx) ==
  LET rel == steps[at][1]
      node == steps[at][2]
      fits(p) ==
        /\ rel.var /= 0 => (Kind(Lookup(row, rel.var)) = "rel" /\ row[rel.var][2].id = p[1].id)
        /\ node.var /= 0 => (Kind(Lookup(row, node.var)) = "node" /\ row[node.var][2].id = p[2].id)
        /\ HasLabels(p[2], node.labels)
      try(found, p) ==
        IF found THEN Ok(TRUE)
        ELSE Charged("hop", 1, IF fits(p) THEN ProbeSteps(steps, at + 1, p[2], row, ctx) ELSE Ok(FALSE))
  IN  IF at > Len(steps) THEN Ok(TRUE)
      ELSE IF rel.length /= <<>> THEN Fail("unsupported")
      ELSE Then(ReadOf(GExpand(ctx.src, from.id, rel.direction, rel.types)), LAMBDA pairs : Each(Ok(FALSE), pairs.items, try))

PatternExists(pattern, row, ctx) ==
  LET start == pattern.start
      try(found, n) == IF found \/ ~HasLabels(n, start.labels) THEN Ok(found) ELSE ProbeSteps(pattern.steps, 1, n, row, ctx)
      starts ==
        IF start.var /= 0 THEN Ok(IF Kind(Lookup(row, start.var)) = "node" THEN <<row[start.var][2]>> ELSE <<>>)
        ELSE Then(ReadOf(GNodesByLabels(ctx.src, start.labels)), LAMBDA a : Charged("scan", Len(a.items), Ok(a.items)))
  IN  Then(starts, LAMBDA nodes : Each(Ok(FALSE), nodes, try))

---------------------------------------------------------------------------
(* Matching                                                                  *)

(* properties_satisfy: every entry of the pattern's map equals the entity's. *)
PropertiesSatisfy(properties, actual, row, ctx) ==
  IF properties = <<>> THEN Ok(TRUE)
  ELSE Then(Eval(properties, row, ctx), LAMBDA want :
            Ok(/\ Kind(want) = "map"
               /\ \A p \in DOMAIN want[2] : p \in DOMAIN actual /\ Eq3(actual[p], want[2][p]) = Bool(TRUE)))

PinnedTo(row, x, kind, entity) ==
  x /= 0 /\ x \in DOMAIN row => Kind(row[x]) = kind /\ row[x][2].id = entity.id

NodeSatisfies(n, pattern, row, ctx) ==
  IF ~HasLabels(n, pattern.labels) \/ ~PinnedTo(row, pattern.var, "node", n) THEN Ok(FALSE)
  ELSE PropertiesSatisfy(pattern.properties, n.properties, row, ctx)

(* A variable already bound keeps its value.                                 *)
BindFresh(row, x, v) == IF x = 0 \/ x \in DOMAIN row THEN row ELSE With(row, x, v)

(* resolve_probe: <<>> when the hint cannot resolve on this row.  A bound is *)
(* a literal or a parameter; a hint without values of its own reads the      *)
(* pattern's inline map.                                                     *)
BoundValue(b, ctx) == IF b[1] = "lit" THEN <<b[2]>> ELSE IF b[2] \in DOMAIN ctx.params THEN <<ctx.params[b[2]]>> ELSE <<>>
PinValues(names, bounds, pattern, row, ctx) ==
  LET given == [i \in DOMAIN bounds |-> BoundValue(bounds[i], ctx)]
  IN  IF bounds /= <<>> THEN Ok(IF Has(given, <<>>) THEN <<>> ELSE Flat(given))
      ELSE IF pattern.properties = <<>> THEN Ok(<<>>)
      ELSE Then(Eval(pattern.properties, row, ctx), LAMBDA v :
                Ok(IF Kind(v) = "map" /\ \A i \in DOMAIN names : names[i] \in DOMAIN v[2]
                   THEN [i \in DOMAIN names |-> v[2][names[i]]] ELSE <<>>))
ResolveRange(hint, ctx) ==
  LET side(b) == IF b = NoBound THEN NoBound ELSE BoundValue(b[1], ctx)
      resolved(b) == IF b = NoBound THEN NoBound ELSE <<side(b)[1], b[2]>>
      missing(b) == b /= NoBound /\ side(b) = <<>>
  IN  IF missing(hint[4]) \/ missing(hint[5]) THEN <<>>
      ELSE <<"range", hint[2], hint[3], resolved(hint[4]), resolved(hint[5])>>
ResolveProbe(hint, pattern, row, ctx) ==
  IF hint[1] = "range" THEN Ok(ResolveRange(hint, ctx))
  ELSE Then(PinValues(hint[3], hint[4], pattern, row, ctx), LAMBDA values :
            Ok(IF values = <<>> THEN <<>>
               ELSE IF hint[1] = "key" THEN <<"key", hint[2], values>> ELSE <<"index", hint[2], hint[3], values>>))

(* The anchors of a pattern's first node: a bound node, a seek, or a scan of *)
(* its labels.  Candidates are charged unless the anchor is bound.           *)
Anchors(pattern, row, ctx) ==
  LET start == pattern.start
      probes == Each(Ok(<<>>), start.hints, LAMBDA acc, hint :
                       Then(ResolveProbe(hint, start, row, ctx), LAMBDA probe :
                            Ok(IF probe = <<>> THEN acc ELSE Append(acc, probe))))
      scanned == ReadOf(GNodesByLabels(ctx.src, start.labels))
  IN  IF start.var /= 0 /\ start.var \in DOMAIN row
      THEN Ok(IF Kind(row[start.var]) = "node" THEN <<row[start.var][2]>> ELSE <<>>)
      ELSE Then(probes, LAMBDA ps :
                Then(ReadOf(GSeekAnchor(ctx.src, ps)), LAMBDA seek :
                     Then(IF seek.some THEN Ok(seek) ELSE scanned, LAMBDA a : Charged("scan", Len(a.items), Ok(a.items)))))

(* walk_steps and expand_var_length, appending to the matches found so far.  *)
RECURSIVE WalkSteps(_, _, _, _, _, _, _)
RECURSIVE WalkVarLength(_, _, _, _, _, _, _, _, _)

Crossed(state, r) == [state EXCEPT !.used = @ \cup {r.id}]
Extended(path, r, n) == [nodes |-> Append(path.nodes, n), rels |-> Append(path.rels, r)]

FreshRel(state, r) == r.id \notin state.used

StepFixed(pattern, at, state, path, ctx, results, p) ==
  LET rel == pattern.steps[at][1]
      node == pattern.steps[at][2]
      row == BindFresh(BindFresh(state.row, rel.var, Rel(p[1])), node.var, Node(p[2]))
      next == [Crossed(state, p[1]) EXCEPT !.row = row]
  IN  Charged("hop", 1,
        IF ~FreshRel(state, p[1]) THEN Ok(results)
        ELSE Then(PropertiesSatisfy(rel.properties, p[1].properties, state.row, ctx), LAMBDA relOk :
             IF ~relOk THEN Ok(results)
             ELSE Then(NodeSatisfies(p[2], node, state.row, ctx), LAMBDA nodeOk :
                  IF nodeOk /\ PinnedTo(row, rel.var, "rel", p[1]) /\ PinnedTo(row, node.var, "node", p[2])
                  THEN WalkSteps(pattern, at + 1, p[2], next, Extended(path, p[1], p[2]), ctx, results)
                  ELSE Ok(results))))

(* A relationship variable bound to a list pins the hops: <<ids>>, or <<>>   *)
(* when it is free.  Anything else bound there matches nothing.              *)
HopsMatchNothing(rel, row) ==
  /\ rel.var /= 0 /\ rel.var \in DOMAIN row
  /\ Kind(row[rel.var]) /= "list" \/ \E i \in DOMAIN row[rel.var][2] : Kind(row[rel.var][2][i]) /= "rel"
PinnedHops(rel, row) ==
  IF rel.var = 0 \/ rel.var \notin DOMAIN row THEN <<>>
  ELSE <<[i \in DOMAIN row[rel.var][2] |-> row[rel.var][2][i][2].id]>>

(* One frame of the walk: the node reached after some hops.                  *)
ReachedEnd(pattern, at, from, state, path, hops, pinned, ctx, results) ==
  LET rel == pattern.steps[at][1]
      node == pattern.steps[at][2]
      withHops == IF pinned = <<>> THEN Bind(state.row, rel.var, List(Entities("rel", hops))) ELSE state.row
      row == BindFresh(withHops, node.var, Node(from))
  IN  IF Len(hops) < rel.length[1] \/ (pinned /= <<>> /\ pinned[1] /= Ids(hops)) THEN Ok(results)
      ELSE Then(NodeSatisfies(from, node, state.row, ctx), LAMBDA ok :
                IF ok /\ PinnedTo(row, node.var, "node", from)
                THEN WalkSteps(pattern, at + 1, from, [state EXCEPT !.row = row], path, ctx, results)
                ELSE Ok(results))
Children(rel, from, state, hops, pinned, ctx) ==
  LET consider(acc, p) ==
        Charged("hop", 1,
          IF \/ pinned /= <<>> /\ (Len(hops) >= Len(pinned[1]) \/ pinned[1][Len(hops) + 1] /= p[1].id)
             \/ ~FreshRel(state, p[1])
          THEN Ok(acc)
          ELSE Then(PropertiesSatisfy(rel.properties, p[1].properties, state.row, ctx), LAMBDA ok :
                    Ok(IF ok THEN Append(acc, p) ELSE acc)))
  IN  Then(ReadOf(GExpand(ctx.src, from.id, rel.direction, rel.types)), LAMBDA a : Each(Ok(<<>>), a.items, consider))
WalkVarLength(pattern, at, from, state, path, hops, pinned, ctx, results) ==
  LET rel == pattern.steps[at][1]
      visit(found, p) ==
        WalkVarLength(pattern, at, p[2], Crossed(state, p[1]), Extended(path, p[1], p[2]), Append(hops, p[1]), pinned, ctx, found)
  IN  Then(ReachedEnd(pattern, at, from, state, path, hops, pinned, ctx, results), LAMBDA found :
           IF Len(hops) >= rel.length[2] THEN Ok(found)
           ELSE Then(Children(rel, from, state, hops, pinned, ctx), LAMBDA pairs : Each(Ok(found), pairs, visit)))

WalkSteps(pattern, at, from, state, path, ctx, results) ==
  LET rel == pattern.steps[at][1]
      done == [state EXCEPT !.row = Bind(@, pattern.path, Path(path.nodes, path.rels))]
  IN  IF at > Len(pattern.steps) THEN Charged("row", Len(results), Ok(Append(results, done)))
      ELSE IF rel.length = <<>>
      THEN Then(ReadOf(GExpand(ctx.src, from.id, rel.direction, rel.types)), LAMBDA a :
                Each(Ok(results), a.items, LAMBDA acc, p : StepFixed(pattern, at, state, path, ctx, acc, p)))
      ELSE IF HopsMatchNothing(rel, state.row) THEN Ok(results)
      ELSE WalkVarLength(pattern, at, from, state, path, <<>>, PinnedHops(rel, state.row), ctx, results)

MatchPath(pattern, state, ctx) ==
  LET walk(results, n) ==
        Then(NodeSatisfies(n, pattern.start, state.row, ctx), LAMBDA ok :
             IF ~ok THEN Ok(results)
             ELSE WalkSteps(pattern, 1, n, [state EXCEPT !.row = Bind(@, pattern.start.var, Node(n))],
                            [nodes |-> <<n>>, rels |-> <<>>], ctx, results))
  IN  Then(Anchors(pattern, state.row, ctx), LAMBDA nodes : Each(Ok(<<>>), nodes, walk))
=============================================================================
