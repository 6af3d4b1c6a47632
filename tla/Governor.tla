------------------------------- MODULE Governor -------------------------------
(***************************************************************************)
(* The per-query resource budget (acetone-cypher exec/governor.rs).  A log   *)
(* of charges is folded against the limits; the statement ends at the first  *)
(* charge that is refused.  Limits are [work, rows, hops, scanned,           *)
(* collection, stride, timed]; the clock passes the deadline during the      *)
(* charge numbered late (0: never).  The counters saturate at the top of u64 *)
(* in the code; the limits here are far below that.                          *)
(***************************************************************************)
EXTENDS QueryFunctions

NewMeter == [work |-> 0, polled |-> 0, hops |-> 0, scanned |-> 0, refused |-> "none"]
Refuse(meter, limit) == [meter EXCEPT !.refused = limit]

(* Mutant: the poll looks for an exact multiple of the stride.               *)
PollDueExactly(work, polled, stride) == work % stride = 0

(* The clock is read once per stride of work.                                *)
PollDue(work, polled, stride) == work - polled >= stride

ChargeWork(meter, n, limits, past) ==
  LET m == [meter EXCEPT !.work = @ + n]
      due == limits.timed /\ PollDue(m.work, m.polled, limits.stride)
  IN  IF m.work > limits.work THEN Refuse(m, "work")
      ELSE IF due /\ past THEN Refuse([m EXCEPT !.polled = m.work], "clock")
      ELSE IF due THEN [m EXCEPT !.polled = m.work] ELSE m

(* row, hop, collection, collection_push and scan.                           *)
ChargeRow(meter, len, limits, past) ==
  IF len >= limits.rows THEN Refuse(meter, "rows") ELSE ChargeWork(meter, 1, limits, past)
ChargeHop(meter, limits, past) ==
  LET m == [meter EXCEPT !.hops = @ + 1]
  IN  IF m.hops > limits.hops THEN Refuse(m, "hops") ELSE ChargeWork(m, 1, limits, past)
ChargeCollection(meter, len, limits, past) ==
  IF len > limits.collection THEN Refuse(meter, "collection") ELSE ChargeWork(meter, len, limits, past)
ChargePush(meter, len, limits, past) ==
  IF len >= limits.collection THEN Refuse(meter, "collection") ELSE ChargeWork(meter, 1, limits, past)
ChargeScan(meter, n, limits, past) ==
  LET m == [meter EXCEPT !.scanned = @ + n]
  IN  IF m.scanned > limits.scanned THEN Refuse(m, "scanned") ELSE ChargeWork(m, n, limits, past)

Charge(meter, entry, limits, past) ==
  CASE entry[1] = "row" -> ChargeRow(meter, entry[2], limits, past)
    [] entry[1] = "hop" -> ChargeHop(meter, limits, past)
    [] entry[1] = "collection" -> ChargeCollection(meter, entry[2], limits, past)
    [] entry[1] = "push" -> ChargePush(meter, entry[2], limits, past)
    [] entry[1] = "scan" -> ChargeScan(meter, entry[2], limits, past)
    [] entry[1] = "failed_read" -> meter

(* The meter after each charge of a log; a refusal is final.                 *)
Metered(log, limits, late) ==
  LET next(meter, i) == IF meter.refused /= "none" THEN meter ELSE Charge(meter, log[i], limits, late > 0 /\ i >= late)
      upto[i \in 0..Len(log)] == IF i = 0 THEN NewMeter ELSE next(upto[i - 1], i)
  IN  upto

(* What a governed statement answers: the limit it ran into before whatever  *)
(* the evaluation came to.                                                   *)
Governed(r, limits, late) ==
  LET end == Metered(r.log, limits, late)[Len(r.log)]
  IN  IF end.refused = "none" THEN r ELSE After(r.log, Fail(end.refused))
=============================================================================
