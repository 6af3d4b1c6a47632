-------------------------- MODULE ConnectionProofs --------------------------
(***************************************************************************)
(* Proofs about Connection: how replies relate to requests, for any number  *)
(* of requests, any payload cap and any length of a streamed reply.         *)
(***************************************************************************)
EXTENDS Connection, TLAPS

-----------------------------------------------------------------------------
(* The inductive invariants.                                                *)

\* The frames that wait are in the order of their requests, none of them older
\* than the request served last; a request comes before the rest of its frames.
InOrder ==
  /\ client = "new" => sent = 0 /\ inbox = <<>>
  /\ \A i \in DOMAIN inbox :
       /\ cur <= inbox[i].id /\ inbox[i].id <= sent
       /\ inbox[i].verb # "unknown" => inbox[i].kind = "request"
       /\ inbox[i].kind = "request" => cur < inbox[i].id
  /\ \A i, j \in DOMAIN inbox : i < j =>
       /\ inbox[i].id <= inbox[j].id
       /\ inbox[j].kind = "request" => inbox[i].id < inbox[j].id

\* Replies are to requests that were read, and one under way has no terminal
\* reply yet.
Unanswered ==
  /\ \A k \in DOMAIN out : out[k].id <= cur
  /\ server \in {"payload", "serve"} =>
       \A k \in DOMAIN out : out[k].id = cur => out[k].kind # "terminal"

\* From position k on, the inbox holds frames of the current payload: what ends
\* it comes last, once the client has stopped sending.
PayloadFrom(k) ==
  \A i \in DOMAIN inbox : i >= k =>
    /\ inbox[i].kind # "request"
    /\ inbox[i].kind # "chunk" => i = Len(inbox) /\ client # "sending"

\* From position k on, the inbox holds at most one request, with its payload.
RequestFrom(k) ==
  /\ Len(inbox) < k => client # "sending"
  /\ Len(inbox) >= k =>
       /\ inbox[k].kind = "request" /\ inbox[k].id = sent
       /\ inbox[k].verb \in {"payload", "import"} \/ (Len(inbox) = k /\ client # "sending")
       /\ PayloadFrom(k + 1)

\* A connection that refused no import for its format is in step with its
\* client: what it reads next is a request, or a part of the current payload.
InStep ==
  /\ server \in {"greet", "hello"} => cur = 0 /\ RequestFrom(2) /\ (client # "new" => inbox # <<>>)
  /\ server \notin {"greet", "hello"} => client # "new"
  /\ server = "read" => RequestFrom(1)
  /\ server = "payload" => cur = sent /\ PayloadFrom(1)
  /\ server = "serve" => cur = sent /\ inbox = <<>> /\ client # "sending"

\* A frame written in part is the last, of a connection that is closed.
TornCloses ==
  "row" \notin departed =>
    \A i \in DOMAIN out : out[i].kind = "torn" => i = Len(out) /\ server = "closed"

ConnectionInv ==
  /\ TypeOK /\ InOrder /\ Unanswered /\ TornCloses
  /\ "format" \notin departed => (server # "closed" => InStep) /\ OneTerminal

\* Initially nothing was sent and nothing written (Init).
LEMMA ConnectionInvInit == Init => ConnectionInv
  <1> SUFFICES ASSUME Init PROVE ConnectionInv
    OBVIOUS
  <1>1. inbox = <<>> /\ out = <<>> /\ DOMAIN inbox = {} /\ DOMAIN out = {} /\ Len(inbox) = 0
    BY DEF Init
  <1>2. TypeOK
    <2>1. inbox \in Seq(Frame) /\ out \in Seq(Reply)
      BY <1>1
    <2>2. sent \in Request \union {0} /\ chunks \in 0..(MaxPayload + 1) /\ cur \in 0..sent /\ count \in Nat
      BY ConnectionAssumption DEF Init
    <2> QED
      BY <2>1, <2>2 DEF Init, TypeOK, Verb
  <1>3. InOrder /\ Unanswered /\ TornCloses /\ OneTerminal
    BY <1>1 DEF Init, InOrder, Unanswered, TornCloses, OneTerminal
  <1>4. InStep
    BY <1>1 DEF Init, InStep, RequestFrom, PayloadFrom
  <1> QED
    BY <1>2, <1>3, <1>4 DEF ConnectionInv

-----------------------------------------------------------------------------
(* What appending and reading do to a sequence.                             *)

\* A frame is sent, or a reply written, behind the earlier ones (write_frame).
LEMMA Appended ==
  ASSUME NEW S, NEW s \in Seq(S), NEW e \in S
  PROVE  /\ Append(s, e) \in Seq(S)
         /\ Len(s) \in Nat /\ DOMAIN s = 1..Len(s)
         /\ Len(Append(s, e)) = Len(s) + 1 /\ DOMAIN Append(s, e) = 1..(Len(s) + 1)
         /\ \A i \in 1..Len(s) : Append(s, e)[i] = s[i]
         /\ Append(s, e)[Len(s) + 1] = e
  OBVIOUS

\* The first frame is read and the others move up (read_frame).
LEMMA Consumed ==
  ASSUME NEW S, NEW s \in Seq(S), s # <<>>
  PROVE  /\ Head(s) \in S /\ Head(s) = s[1]
         /\ Tail(s) \in Seq(S)
         /\ Len(s) \in Nat \ {0} /\ DOMAIN s = 1..Len(s)
         /\ Len(Tail(s)) = Len(s) - 1 /\ DOMAIN Tail(s) = 1..(Len(s) - 1)
         /\ \A i \in 1..(Len(s) - 1) : Tail(s)[i] = s[i + 1]
  OBVIOUS

-----------------------------------------------------------------------------
(* The client's steps.                                                      *)

\* A frame of the newest request keeps the order of the frames that wait.
LEMMA SendingKeepsOrder ==
  ASSUME TypeOK, InOrder, NEW f \in Frame,
         inbox' = Append(inbox, f), cur' = cur, client' # "new",
         sent' \in Nat, sent <= sent', f.id = sent',
         f.verb # "unknown" => f.kind = "request", f.kind = "request" => sent < sent'
  PROVE  InOrder'
  <1>1. /\ Len(inbox) \in Nat /\ DOMAIN inbox = 1..Len(inbox)
        /\ DOMAIN inbox' = 1..(Len(inbox) + 1)
        /\ \A i \in 1..Len(inbox) : inbox'[i] = inbox[i]
        /\ inbox'[Len(inbox) + 1] = f
    BY Appended DEF TypeOK
  <1>2. \A i \in DOMAIN inbox : inbox[i].id \in Nat
    <2>1. \A i \in DOMAIN inbox : inbox[i] \in Frame
      BY DEF TypeOK
    <2> QED
      BY <2>1, ConnectionAssumption DEF Frame, Request
  <1>3. sent \in Nat /\ cur \in Nat /\ cur <= sent
    BY ConnectionAssumption DEF TypeOK, Request
  <1>4. ASSUME NEW i \in DOMAIN inbox'
        PROVE  /\ cur <= inbox'[i].id /\ inbox'[i].id <= sent'
               /\ inbox'[i].verb # "unknown" => inbox'[i].kind = "request"
               /\ inbox'[i].kind = "request" => cur < inbox'[i].id
    <2>1. CASE i \in DOMAIN inbox
      BY <2>1, <1>1, <1>2, <1>3 DEF InOrder
    <2>2. CASE i = Len(inbox) + 1
      BY <2>2, <1>1, <1>3
    <2> QED
      BY <2>1, <2>2, <1>1
  <1>5. ASSUME NEW i \in DOMAIN inbox', NEW j \in DOMAIN inbox', i < j
        PROVE  /\ inbox'[i].id <= inbox'[j].id
               /\ inbox'[j].kind = "request" => inbox'[i].id < inbox'[j].id
    <2>1. i \in DOMAIN inbox /\ inbox'[i] = inbox[i] /\ inbox[i].id <= sent
      BY <1>1, <1>5 DEF InOrder
    <2>2. CASE j \in DOMAIN inbox
      BY <2>1, <2>2, <1>1, <1>5 DEF InOrder
    <2>3. CASE j = Len(inbox) + 1
      BY <2>1, <2>3, <1>1, <1>2, <1>3
    <2> QED
      BY <2>2, <2>3, <1>1
  <1> QED
    BY <1>4, <1>5 DEF InOrder

\* A client that says hello, asks, sends its payload or hangs up keeps the
\* invariant (docs/protocol.md's client against serve.rs).
LEMMA HelloKeepsInv ==
  ASSUME ConnectionInv, NEW good \in BOOLEAN, Hello(good)
  PROVE  ConnectionInv'
  <1> DEFINE f == Sent("hello", 0, "unknown", good)
  <1> USE ConnectionAssumption
  <1>1. f \in Frame /\ f.kind = "hello" /\ f.id = 0 /\ f.verb = "unknown"
    BY DEF Sent, Frame, Verb
  <1>2. inbox = <<>> /\ sent = 0 /\ inbox' = Append(inbox, f)
    BY DEF ConnectionInv, InOrder, Hello
  <1>3. inbox' \in Seq(Frame) /\ Len(inbox') = 1
    BY <1>1, <1>2
  <1>4. TypeOK'
    BY <1>3 DEF ConnectionInv, TypeOK, Hello, Client
  <1>5. InOrder'
    BY <1>1, <1>2, SendingKeepsOrder DEF ConnectionInv, TypeOK, Hello, Client
  <1>6. Unanswered' /\ TornCloses'
    BY DEF ConnectionInv, Hello, Client, Unanswered, TornCloses
  <1>7. ASSUME "format" \notin departed' PROVE (server' # "closed" => InStep') /\ OneTerminal'
    <2>1. OneTerminal' /\ "format" \notin departed
      BY <1>7 DEF ConnectionInv, Hello, Client, OneTerminal
    <2>2. ASSUME server # "closed" PROVE server \in {"greet", "hello"} /\ cur = 0
      BY <2>1, <2>2 DEF ConnectionInv, Hello, InStep
    <2> QED
      BY <2>1, <2>2, <1>3 DEF Hello, Client, InStep, RequestFrom
  <1> QED
    BY <1>4, <1>5, <1>6, <1>7 DEF ConnectionInv

\* A request is asked with a number above every earlier one.
LEMMA AskKeepsInv ==
  ASSUME ConnectionInv, NEW good \in BOOLEAN, NEW v \in Verb, Ask(v, good)
  PROVE  ConnectionInv'
  <1> DEFINE f == Sent("request", sent + 1, v, good)
  <1> USE ConnectionAssumption
  <1>1. sent \in Nat /\ sent' = sent + 1 /\ sent' \in Request
    BY DEF ConnectionInv, TypeOK, Request, Ask
  <1>2. f \in Frame /\ f.kind = "request" /\ f.id = sent' /\ f.verb = v
    BY <1>1 DEF Sent, Frame, Verb
  <1>3. /\ inbox' \in Seq(Frame) /\ Len(inbox) \in Nat /\ Len(inbox') = Len(inbox) + 1
        /\ DOMAIN inbox' = 1..(Len(inbox) + 1) /\ DOMAIN inbox = 1..Len(inbox)
        /\ inbox'[Len(inbox) + 1] = f
    BY <1>2, Appended DEF ConnectionInv, TypeOK, Ask
  <1>4. TypeOK'
    BY <1>1, <1>3 DEF ConnectionInv, TypeOK, Ask, Client, Request
  <1>5. InOrder'
    BY <1>1, <1>2, SendingKeepsOrder DEF ConnectionInv, TypeOK, Ask, Client
  <1>6. Unanswered' /\ TornCloses'
    BY DEF ConnectionInv, Ask, Client, Unanswered, TornCloses
  <1>7. ASSUME "format" \notin departed' PROVE (server' # "closed" => InStep') /\ OneTerminal'
    <2>1. OneTerminal' /\ "format" \notin departed
      BY <1>7 DEF ConnectionInv, Ask, Client, OneTerminal
    <2> SUFFICES ASSUME server # "closed" PROVE InStep'
      BY <2>1 DEF Ask, Client
    <2>2. InStep
      BY <2>1 DEF ConnectionInv
    <2>3. sent = 0 \/ \E k \in DOMAIN out : out[k].id = sent /\ out[k].kind = "terminal"
      BY <1>1 DEF Ask, Terminal
    <2>4. server \notin {"payload", "serve"}
      BY <2>2, <2>3 DEF ConnectionInv, TypeOK, InStep, Unanswered
    <2>5. \A i \in DOMAIN inbox : inbox[i].kind = "request" => inbox[i].id # sent
      BY <1>1, <2>3 DEF ConnectionInv, TypeOK, InOrder, Unanswered, Request, Frame, Reply
    <2>6. CASE server = "read"
      <3>1. Len(inbox) = 0
        BY <2>2, <2>5, <2>6, <1>3 DEF InStep, RequestFrom
      <3>2. RequestFrom(1)'
        BY <3>1, <1>2, <1>3 DEF RequestFrom, PayloadFrom, Ask
      <3> QED
        BY <3>2, <2>2, <2>6 DEF InStep, Ask, Client
    <2>7. CASE server \in {"greet", "hello"}
      <3>1. Len(inbox) = 1
        BY <2>2, <2>5, <2>7, <1>3 DEF InStep, RequestFrom, Ask
      <3>2. RequestFrom(2)'
        BY <3>1, <1>2, <1>3 DEF RequestFrom, PayloadFrom, Ask
      <3> QED
        BY <3>2, <2>2, <2>7, <1>3 DEF InStep, Ask, Client
    <2> QED
      BY <2>4, <2>6, <2>7 DEF ConnectionInv, TypeOK
  <1> QED
    BY <1>4, <1>5, <1>6, <1>7 DEF ConnectionInv

\* A chunk, the end of a payload, or a frame that does not belong in one.
LEMMA PayloadFrameKeepsInv ==
  ASSUME ConnectionInv, SendChunk \/ SendEnd \/ SendOdd
  PROVE  ConnectionInv'
  <1> USE ConnectionAssumption
  <1>1. PICK kind \in {"chunk", "end", "odd"} :
          inbox' = Append(inbox, Chunk(kind)) /\ (kind # "chunk" => client' # "sending")
    BY DEF SendChunk, SendEnd, SendOdd
  <1> DEFINE f == Chunk(kind)
  <1>2. /\ sent \in Nat /\ sent' = sent /\ client = "sending" /\ client' \in {"sending", "asked"}
        /\ UNCHANGED <<out, server, cur, verb, count, draining, departed>>
        /\ chunks' \in 0..(MaxPayload + 1) /\ broken' \in BOOLEAN
    <2>1. sent \in Nat /\ chunks \in 0..(MaxPayload + 1) /\ broken \in BOOLEAN
      BY DEF ConnectionInv, TypeOK, Request
    <2>2. CASE SendChunk
      BY <2>1, <2>2 DEF SendChunk, Client
    <2>3. CASE SendEnd
      BY <2>1, <2>3 DEF SendEnd, Client
    <2>4. CASE SendOdd
      BY <2>1, <2>4 DEF SendOdd, Client
    <2> QED
      BY <2>2, <2>3, <2>4
  <1>3. f \in Frame /\ f.kind = kind /\ f.id = sent /\ f.verb = "unknown"
    <2>1. f = [kind |-> kind, id |-> sent, verb |-> "unknown", good |-> TRUE]
      BY DEF Chunk, Sent
    <2> QED
      BY <2>1 DEF ConnectionInv, TypeOK, Frame, Verb
  <1>4. /\ inbox' \in Seq(Frame) /\ Len(inbox) \in Nat /\ Len(inbox') = Len(inbox) + 1
        /\ DOMAIN inbox' = 1..(Len(inbox) + 1) /\ DOMAIN inbox = 1..Len(inbox)
        /\ \A i \in 1..Len(inbox) : inbox'[i] = inbox[i]
        /\ inbox'[Len(inbox) + 1] = f
    BY <1>1, <1>3, Appended DEF ConnectionInv, TypeOK
  <1>5. TypeOK'
    BY <1>2, <1>4 DEF ConnectionInv, TypeOK
  <1>6. InOrder'
    BY <1>1, <1>2, <1>3, SendingKeepsOrder DEF ConnectionInv
  <1>7. Unanswered' /\ TornCloses'
    BY <1>2 DEF ConnectionInv, Unanswered, TornCloses
  <1>8. ASSUME "format" \notin departed' PROVE (server' # "closed" => InStep') /\ OneTerminal'
    <2>1. OneTerminal' /\ "format" \notin departed
      BY <1>2, <1>8 DEF ConnectionInv, OneTerminal
    <2> SUFFICES ASSUME server # "closed" PROVE InStep'
      BY <2>1, <1>2
    <2>2. InStep
      BY <2>1 DEF ConnectionInv
    <2>3. ASSUME NEW k \in Nat, PayloadFrom(k) PROVE PayloadFrom(k)'
      BY <2>3, <1>1, <1>2, <1>3, <1>4 DEF PayloadFrom
    <2>4. ASSUME NEW k \in {1, 2}, RequestFrom(k) PROVE RequestFrom(k)'
      <3>1. Len(inbox) >= k /\ inbox[k].verb \in {"payload", "import"} /\ PayloadFrom(k + 1)
        BY <2>4, <1>2, <1>4 DEF RequestFrom
      <3>2. PayloadFrom(k + 1)' /\ inbox'[k] = inbox[k]
        BY <3>1, <2>3, <1>4
      <3> QED
        BY <3>1, <3>2, <2>4, <1>2, <1>4 DEF RequestFrom
    <2>5. inbox' # <<>>
      BY <1>4
    <2> QED
      BY <2>2, <2>3, <2>4, <2>5, <1>2 DEF InStep
  <1> QED
    BY <1>5, <1>6, <1>7, <1>8 DEF ConnectionInv

\* The client hangs up: what it sent stays, nothing more follows.
LEMMA HangupKeepsInv ==
  ASSUME ConnectionInv, Hangup
  PROVE  ConnectionInv'
  <1>1. /\ UNCHANGED <<inbox, sent, chunks, out, server, cur, verb, count, draining, departed>>
        /\ client' = "gone" /\ broken' = TRUE /\ client # "new"
    BY DEF Hangup, Client
  <1>2. TypeOK' /\ InOrder' /\ Unanswered' /\ TornCloses'
    BY <1>1 DEF ConnectionInv, TypeOK, InOrder, Unanswered, TornCloses
  <1>3. \A k \in Nat : (PayloadFrom(k) => PayloadFrom(k)') /\ (RequestFrom(k) => RequestFrom(k)')
    BY <1>1 DEF PayloadFrom, RequestFrom
  <1> QED
    BY <1>1, <1>2, <1>3 DEF ConnectionInv, InStep, OneTerminal

-----------------------------------------------------------------------------
(* The handler's steps.                                                     *)

\* Reading a frame keeps the order of those that wait, whether or not it is the
\* next request.
LEMMA ReadingKeepsOrder ==
  ASSUME TypeOK, InOrder, Reads, cur' \in {cur, Head(inbox).id}, UNCHANGED <<sent, client>>
  PROVE  InOrder' /\ inbox' \in Seq(Frame) /\ Head(inbox) \in Frame
         /\ Head(inbox) = inbox[1] /\ cur <= Head(inbox).id /\ Head(inbox).id <= sent
         /\ (Head(inbox).kind = "request" => cur < Head(inbox).id)
         /\ (Head(inbox).verb # "unknown" => Head(inbox).kind = "request")
  <1>1. inbox # <<>> /\ inbox' = Tail(inbox)
    BY DEF Reads
  <1>2. /\ Head(inbox) \in Frame /\ Head(inbox) = inbox[1]
        /\ inbox' \in Seq(Frame)
        /\ Len(inbox) \in Nat \ {0} /\ DOMAIN inbox = 1..Len(inbox)
        /\ DOMAIN inbox' = 1..(Len(inbox) - 1)
        /\ \A i \in 1..(Len(inbox) - 1) : inbox'[i] = inbox[i + 1]
    BY <1>1, Consumed DEF TypeOK
  <1>3. \A i \in DOMAIN inbox' : i + 1 \in DOMAIN inbox /\ 1 \in DOMAIN inbox /\ 1 < i + 1 /\ inbox'[i] = inbox[i + 1]
    BY <1>2
  <1>4. client # "new"
    BY <1>1 DEF InOrder
  <1>5. ASSUME NEW i \in DOMAIN inbox'
        PROVE  /\ cur' <= inbox'[i].id /\ inbox'[i].id <= sent
               /\ inbox'[i].verb # "unknown" => inbox'[i].kind = "request"
               /\ inbox'[i].kind = "request" => cur' < inbox'[i].id
    BY <1>2, <1>3 DEF InOrder
  <1>6. ASSUME NEW i \in DOMAIN inbox', NEW j \in DOMAIN inbox', i < j
        PROVE  /\ inbox'[i].id <= inbox'[j].id
               /\ inbox'[j].kind = "request" => inbox'[i].id < inbox'[j].id
    <2>1. i + 1 < j + 1
      BY <1>6, <1>2
    <2> QED
      BY <2>1, <1>3 DEF InOrder
  <1>7. InOrder'
    BY <1>4, <1>5, <1>6 DEF InOrder
  <1> QED
    BY <1>2, <1>7 DEF InOrder

\* What waits behind the frame that is read.
LEMMA ReadingShifts ==
  ASSUME TypeOK, Reads, UNCHANGED <<sent, client>>
  PROVE  /\ \A k \in {1, 2} : PayloadFrom(k) => PayloadFrom(1)'
         /\ RequestFrom(2) => RequestFrom(1)'
         /\ Len(inbox) = 1 => inbox' = <<>>
         /\ Len(inbox) \in Nat \ {0} /\ 1 \in DOMAIN inbox
  <1>1. inbox # <<>> /\ inbox' = Tail(inbox)
    BY DEF Reads
  <1>2. /\ inbox' \in Seq(Frame)
        /\ Len(inbox) \in Nat \ {0} /\ DOMAIN inbox = 1..Len(inbox)
        /\ Len(inbox') = Len(inbox) - 1 /\ DOMAIN inbox' = 1..(Len(inbox) - 1)
        /\ \A i \in 1..(Len(inbox) - 1) : inbox'[i] = inbox[i + 1]
    BY <1>1, Consumed DEF TypeOK
  <1>3. ASSUME NEW k \in 1..3, PayloadFrom(k), NEW m \in Nat, m + 1 >= k PROVE PayloadFrom(m)'
    BY <1>2, <1>3 DEF PayloadFrom
  <1>4. ASSUME RequestFrom(2) PROVE RequestFrom(1)'
    <2>1. CASE Len(inbox) < 2
      BY <2>1, <1>2, <1>4 DEF RequestFrom
    <2>2. CASE Len(inbox) >= 2
      <3>1. PayloadFrom(3) /\ inbox'[1] = inbox[2]
        BY <2>2, <1>2, <1>4 DEF RequestFrom
      <3>2. PayloadFrom(2)'
        BY <3>1, <1>3
      <3> QED
        BY <2>2, <3>1, <3>2, <1>2, <1>4 DEF RequestFrom
    <2> QED
      BY <2>1, <2>2, <1>2
  <1>5. Len(inbox) = 1 => inbox' = <<>>
    BY <1>2
  <1> QED
    BY <1>2, <1>3, <1>4, <1>5

\* Writing a reply: it is the last, and the earlier ones stay.
LEMMA WritingKeeps ==
  ASSUME TypeOK, Unanswered, TornCloses, server # "closed", NEW r \in Reply, out' = Append(out, r),
         cur' \in Nat, cur <= cur', r.id <= cur',
         r.kind = "torn" => server' = "closed" \/ "row" \in departed', departed \subseteq departed',
         server' \in {"payload", "serve"} => r.kind # "terminal" /\ server = server' /\ cur' = cur
  PROVE  /\ out' \in Seq(Reply) /\ Unanswered' /\ TornCloses'
         /\ OneTerminal
            /\ (r.id # 0 => \A k \in DOMAIN out : out[k].id = r.id => out[k].kind # "terminal")
            => OneTerminal'
  <1>1. /\ out' \in Seq(Reply) /\ Len(out) \in Nat
        /\ DOMAIN out = 1..Len(out) /\ DOMAIN out' = 1..(Len(out) + 1) /\ Len(out') = Len(out) + 1
        /\ \A i \in 1..Len(out) : out'[i] = out[i]
        /\ out'[Len(out) + 1] = r
    BY Appended DEF TypeOK
  <1>2. \A k \in DOMAIN out : out[k].id \in Nat
    <2>1. \A k \in DOMAIN out : out[k] \in Reply
      BY DEF TypeOK
    <2> QED
      BY <2>1, ConnectionAssumption DEF Reply, Request
  <1>3. cur \in Nat
    BY ConnectionAssumption DEF TypeOK, Request
  <1>4. Unanswered'
    BY <1>1, <1>2, <1>3 DEF Unanswered
  <1>5. TornCloses'
    BY <1>1 DEF TornCloses
  <1>6. ASSUME OneTerminal, r.id # 0 => \A k \in DOMAIN out : out[k].id = r.id => out[k].kind # "terminal"
        PROVE  OneTerminal'
    <2> SUFFICES ASSUME NEW i \in DOMAIN out', NEW j \in DOMAIN out',
                        i < j, out'[i].kind = "terminal", out'[i].id # 0
                 PROVE  out'[j].id # out'[i].id
      BY DEF OneTerminal
    <2>1. i \in DOMAIN out /\ out'[i] = out[i]
      BY <1>1
    <2>2. CASE j \in DOMAIN out
      BY <2>1, <2>2, <1>1, <1>6 DEF OneTerminal
    <2>3. CASE j = Len(out) + 1
      BY <2>1, <2>3, <1>1, <1>6
    <2> QED
      BY <2>2, <2>3, <1>1
  <1> QED
    BY <1>1, <1>4, <1>5, <1>6

\* The greeting and the hellos: connection's first frames.
LEMMA GreetingKeepsInv ==
  ASSUME ConnectionInv, Greet \/ ReadHello
  PROVE  ConnectionInv'
  <1> USE ConnectionAssumption
  <1>1. TypeOK /\ InOrder /\ Unanswered /\ TornCloses /\ cur \in Nat /\ sent \in Nat
    BY DEF ConnectionInv, TypeOK, Request
  <1>2. \A kind \in {"hello", "terminal"} :
          LET r == [id |-> 0, kind |-> kind] IN r \in Reply /\ r.id = 0 /\ r.kind = kind
    BY DEF Reply
  <1>3. CASE Greet
    <2>1. /\ UNCHANGED <<inbox, cur, verb, count, broken, client, sent, chunks, draining, departed>>
          /\ server = "greet" /\ server' = "hello"
          /\ out' = Append(out, [id |-> 0, kind |-> "hello"])
      BY <1>3 DEF Greet, Server, Write
    <2>2. out' \in Seq(Reply) /\ Unanswered' /\ TornCloses' /\ (OneTerminal => OneTerminal')
      BY <1>1, <1>2, <2>1, WritingKeeps
    <2>3. TypeOK' /\ InOrder'
      BY <1>1, <2>1, <2>2 DEF TypeOK, InOrder
    <2>4. RequestFrom(2) => RequestFrom(2)'
      BY <2>1 DEF RequestFrom, PayloadFrom
    <2> QED
      BY <2>1, <2>2, <2>3, <2>4 DEF ConnectionInv, InStep
  <1>4. CASE ReadHello
    <2>1. /\ UNCHANGED <<cur, verb, count, broken, client, sent, chunks, draining, departed>>
          /\ server = "hello" /\ Reads
          /\ \/ server' = "read" /\ out' = out
             \/ server' = "closed" /\ out' = Append(out, [id |-> 0, kind |-> "terminal"])
      BY <1>4 DEF ReadHello, Server, Write
    <2>2. out' \in Seq(Reply) /\ Unanswered' /\ TornCloses' /\ (OneTerminal => OneTerminal')
      <3>1. CASE out' = out
        BY <3>1, <1>1, <2>1 DEF TypeOK, Unanswered, TornCloses, OneTerminal
      <3> QED
        BY <1>1, <1>2, <2>1, <3>1, WritingKeeps
    <2>3. InOrder' /\ inbox' \in Seq(Frame)
      BY <1>1, <2>1, ReadingKeepsOrder
    <2>4. TypeOK'
      BY <1>1, <2>1, <2>2, <2>3 DEF TypeOK
    <2>5. RequestFrom(2) => RequestFrom(1)'
      BY <1>1, <2>1, ReadingShifts
    <2>6. client # "new"
      BY <1>1, <2>1 DEF Reads, InOrder
    <2> QED
      BY <2>1, <2>2, <2>3, <2>4, <2>5, <2>6 DEF ConnectionInv, InStep
  <1> QED
    BY <1>3, <1>4

\* The next frame is taken for a request (connection's dispatch on the verb).
LEMMA ReadRequestKeepsInv ==
  ASSUME ConnectionInv, ReadRequest
  PROVE  ConnectionInv'
  <1> USE ConnectionAssumption
  <1> DEFINE f == Head(inbox)
  <1>1. TypeOK /\ InOrder /\ Unanswered /\ TornCloses /\ cur \in Nat /\ sent \in Nat
    BY DEF ConnectionInv, TypeOK, Request
  <1>2. /\ UNCHANGED <<broken, client, sent, chunks, draining, departed>>
        /\ server = "read" /\ Reads /\ cur' = f.id /\ verb' = f.verb /\ count' = 0
        /\ \/ /\ f.verb = "unknown" /\ server' \in {"read", "closed"}
              /\ out' = Append(out, [id |-> f.id, kind |-> "terminal"])
           \/ f.verb \in {"payload", "import"} /\ server' = "payload" /\ out' = out
           \/ f.verb \in {"rows", "stream"} /\ server' = "serve" /\ out' = out
    BY DEF ReadRequest, Server, After, Write
  <1>3. /\ InOrder' /\ inbox' \in Seq(Frame) /\ f \in Frame /\ f = inbox[1]
        /\ cur <= f.id /\ f.id <= sent
        /\ (f.kind = "request" => cur < f.id) /\ (f.verb # "unknown" => f.kind = "request")
    BY <1>1, <1>2, ReadingKeepsOrder
  <1>4. f.id \in Nat /\ f.id \in Request \union {0} /\ f.verb \in Verb
    BY <1>3 DEF Frame, Request
  <1>5. \A k \in DOMAIN out : out[k].id \in Nat /\ out[k].id <= cur
    <2>1. \A k \in DOMAIN out : out[k] \in Reply
      BY <1>1 DEF TypeOK
    <2> QED
      BY <1>1, <2>1 DEF Unanswered, Reply, Request
  <1>6. f.kind = "request" => \A k \in DOMAIN out : out[k].id # f.id
    BY <1>1, <1>3, <1>4, <1>5
  <1>7. /\ out' \in Seq(Reply) /\ Unanswered' /\ TornCloses'
        /\ (OneTerminal /\ f.kind = "request" => OneTerminal')
    <2>1. CASE out' = out
      <3>1. Unanswered'
        BY <2>1, <1>1, <1>2, <1>3, <1>4, <1>5, <1>6 DEF Unanswered
      <3> QED
        BY <3>1, <2>1, <1>1, <1>2 DEF TypeOK, TornCloses, OneTerminal
    <2>2. CASE out' # out
      <3> DEFINE r == [id |-> f.id, kind |-> "terminal"]
      <3>1. out' = Append(out, r) /\ server' \in {"read", "closed"}
        BY <1>2, <2>2
      <3>2. r \in Reply /\ r.id = f.id /\ r.kind = "terminal"
        BY <1>4 DEF Reply
      <3> HIDE DEF r
      <3> QED
        BY <3>1, <3>2, <1>1, <1>2, <1>3, <1>4, <1>6, WritingKeeps
    <2> QED
      BY <2>1, <2>2
  <1>8. TypeOK'
    BY <1>1, <1>2, <1>3, <1>4, <1>7 DEF TypeOK
  <1>9. ASSUME "format" \notin departed' PROVE (server' # "closed" => InStep') /\ OneTerminal'
    <2>1. InStep /\ OneTerminal /\ RequestFrom(1)
      BY <1>2, <1>9 DEF ConnectionInv, InStep
    <2>2. Len(inbox) \in Nat \ {0}
      BY <1>1, <1>2, ReadingShifts
    <2>3. /\ f.kind = "request" /\ f.id = sent /\ PayloadFrom(2)
          /\ f.verb \in {"payload", "import"} \/ (Len(inbox) = 1 /\ client # "sending")
      BY <2>1, <2>2, <1>3 DEF RequestFrom
    <2>4. OneTerminal'
      BY <2>1, <2>3, <1>7
    <2>5. PayloadFrom(1)' /\ (Len(inbox) = 1 => inbox' = <<>>)
      BY <2>3, <1>1, <1>2, ReadingShifts
    <2>6. client # "new"
      BY <1>1, <1>2 DEF Reads, InOrder
    <2>7. CASE server' = "payload"
      BY <2>3, <2>4, <2>5, <2>6, <2>7, <1>2 DEF InStep
    <2>8. CASE server' # "payload"
      <3>1. inbox' = <<>> /\ client # "sending"
        BY <2>3, <2>5, <2>8, <1>2
      <3> QED
        BY <3>1, <2>3, <2>4, <2>6, <2>8, <1>2 DEF InStep, RequestFrom
    <2> QED
      BY <2>4, <2>7, <2>8
  <1> QED
    BY <1>3, <1>7, <1>8, <1>9 DEF ConnectionInv

\* An import without its format is refused with its payload unread: the one
\* step after which the connection may be out of step.
LEMMA RefuseImportKeepsInv ==
  ASSUME ConnectionInv, RefuseImport
  PROVE  ConnectionInv'
  <1> USE ConnectionAssumption
  <1> DEFINE f == Head(inbox)
             r == [id |-> f.id, kind |-> "terminal"]
  <1>1. TypeOK /\ InOrder /\ Unanswered /\ TornCloses /\ cur \in Nat /\ sent \in Nat
    BY DEF ConnectionInv, TypeOK, Request
  <1>2. /\ UNCHANGED <<broken, client, sent, chunks, draining>> /\ departed' = departed \union {"format"}
        /\ server = "read" /\ Reads /\ cur' = f.id /\ verb' = "import" /\ count' = 0
        /\ server' \in {"read", "closed"} /\ out' = Append(out, r)
    BY DEF RefuseImport, Formatless, Departs, After, Write
  <1>3. InOrder' /\ inbox' \in Seq(Frame) /\ f \in Frame /\ cur <= f.id /\ f.id <= sent
    BY <1>1, <1>2, ReadingKeepsOrder
  <1>4. f.id \in Nat /\ f.id \in Request \union {0}
    BY <1>3 DEF Frame, Request
  <1>5. r \in Reply /\ r.id = f.id /\ r.kind = "terminal"
    BY <1>4 DEF Reply
  <1>6. out' \in Seq(Reply) /\ Unanswered' /\ TornCloses'
    <2> HIDE DEF r
    <2> QED
      BY <1>1, <1>2, <1>3, <1>4, <1>5, WritingKeeps
  <1>7. TypeOK'
    BY <1>1, <1>2, <1>3, <1>4, <1>6 DEF TypeOK, Verb
  <1> QED
    BY <1>2, <1>3, <1>6, <1>7 DEF ConnectionInv

\* The frames of a payload (read_payload, stage_import), and a peer that sends
\* nothing more.
LEMMA PayloadKeepsInv ==
  ASSUME ConnectionInv, ReadChunk \/ ReadEnd
  PROVE  ConnectionInv'
  <1> USE ConnectionAssumption
  <1>1. TypeOK /\ InOrder /\ Unanswered /\ TornCloses /\ cur \in Nat /\ sent \in Nat
    BY DEF ConnectionInv, TypeOK, Request
  <1>2. /\ UNCHANGED <<out, cur, verb, broken, client, sent, chunks, draining, departed>>
        /\ server = "payload" /\ Reads
        /\ \/ server' = "payload" /\ count' \in Nat /\ count' <= MaxPayload
           \/ server' = "serve" /\ count' = 0 /\ Head(inbox).kind = "end"
    BY <1>1 DEF ReadChunk, ReadEnd, Server, TypeOK
  <1>3. InOrder' /\ inbox' \in Seq(Frame) /\ Head(inbox) = inbox[1]
    BY <1>1, <1>2, ReadingKeepsOrder
  <1>4. TypeOK'
    BY <1>1, <1>2, <1>3 DEF TypeOK
  <1>5. Unanswered' /\ TornCloses'
    BY <1>1, <1>2 DEF Unanswered, TornCloses
  <1>6. ASSUME "format" \notin departed' PROVE (server' # "closed" => InStep') /\ OneTerminal'
    <2>1. cur = sent /\ PayloadFrom(1) /\ client # "new" /\ OneTerminal
      BY <1>2, <1>6 DEF ConnectionInv, InStep
    <2>2. PayloadFrom(1)' /\ (Len(inbox) = 1 => inbox' = <<>>) /\ 1 \in DOMAIN inbox
      BY <2>1, <1>1, <1>2, ReadingShifts
    <2>3. CASE server' = "payload"
      BY <2>1, <2>2, <2>3, <1>2 DEF InStep, OneTerminal
    <2>4. CASE server' = "serve"
      <3>1. inbox[1].kind = "end"
        BY <2>4, <1>2, <1>3
      <3>2. Len(inbox) = 1 /\ client # "sending"
        <4>1. inbox[1].kind # "chunk" /\ 1 >= 1
          BY <3>1
        <4> QED
          BY <4>1, <2>1, <2>2 DEF PayloadFrom
      <3> QED
        BY <3>2, <2>1, <2>2, <2>4, <1>2 DEF InStep, OneTerminal
    <2> QED
      BY <2>3, <2>4, <1>2
  <1> QED
    BY <1>3, <1>4, <1>5, <1>6 DEF ConnectionInv

\* The steps that close the connection, with or without a last frame.
LEMMA ClosingKeepsInv ==
  ASSUME ConnectionInv, StagingFails \/ RefusePayload \/ ReadNothing \/ FrameOverCap \/ Stalled \/ PeerGone
  PROVE  ConnectionInv'
  <1> USE ConnectionAssumption
  <1>1. TypeOK /\ InOrder /\ Unanswered /\ TornCloses /\ cur \in Nat /\ sent \in Nat
    BY DEF ConnectionInv, TypeOK, Request
  <1>2. /\ UNCHANGED <<cur, verb, count, client, sent, chunks, draining>>
        /\ server' = "closed" /\ server # "closed" /\ broken' \in BOOLEAN
        /\ departed \subseteq departed' /\ departed' \subseteq departed \union {"frame", "disk"}
        /\ (inbox' = inbox \/ Reads)
    <2>1. CASE StagingFails
      BY <2>1, <1>1 DEF StagingFails, Departs, TypeOK
    <2>2. CASE RefusePayload
      BY <2>2 DEF RefusePayload, Server
    <2>3. CASE ReadNothing
      BY <2>3 DEF ReadNothing, Server
    <2>4. CASE FrameOverCap
      BY <2>4, <1>1 DEF FrameOverCap, Departs, TypeOK
    <2>5. CASE Stalled
      BY <2>5 DEF Stalled, Server
    <2>6. CASE PeerGone
      BY <2>6, <1>1 DEF PeerGone, Server, TypeOK
    <2> QED
      BY <2>1, <2>2, <2>3, <2>4, <2>5, <2>6
  <1>3. \/ out' = out
        \/ /\ server \in {"payload", "serve"}
           /\ \E kind \in {"terminal", "torn"} : out' = Append(out, [id |-> cur, kind |-> kind])
    BY DEF StagingFails, RefusePayload, ReadNothing, FrameOverCap, Stalled, PeerGone, Write
  <1>4. InOrder' /\ inbox' \in Seq(Frame)
    <2>1. CASE Reads
      BY <1>1, <1>2, <2>1, ReadingKeepsOrder
    <2>2. CASE inbox' = inbox
      BY <1>1, <1>2, <2>2 DEF InOrder, TypeOK
    <2> QED
      BY <1>2, <2>1, <2>2
  <1>5. out' \in Seq(Reply) /\ Unanswered' /\ TornCloses' /\ (OneTerminal => OneTerminal')
    <2>1. CASE out' = out
      BY <2>1, <1>1, <1>2 DEF TypeOK, Unanswered, TornCloses, OneTerminal
    <2>2. CASE out' # out
      <3>1. PICK kind \in {"terminal", "torn"} : out' = Append(out, [id |-> cur, kind |-> kind])
        BY <1>3, <2>2
      <3> DEFINE r == [id |-> cur, kind |-> kind]
      <3>2. r \in Reply /\ r.id = cur /\ r.kind = kind /\ out' = Append(out, r)
        BY <3>1, <1>1 DEF TypeOK, Reply, Request
      <3>3. \A k \in DOMAIN out : out[k].id = cur => out[k].kind # "terminal"
        BY <1>1, <1>3, <2>2 DEF Unanswered
      <3> HIDE DEF r
      <3> QED
        BY <3>2, <3>3, <1>1, <1>2, WritingKeeps
    <2> QED
      BY <2>1, <2>2
  <1>6. TypeOK'
    BY <1>1, <1>2, <1>4, <1>5 DEF TypeOK
  <1> QED
    BY <1>2, <1>4, <1>5, <1>6 DEF ConnectionInv

\* A reply streamed or given (run_query, run_export, the terminal frame).
LEMMA ReplyKeepsInv ==
  ASSUME ConnectionInv, Stream \/ Answer \/ RowOverCap
  PROVE  ConnectionInv'
  <1> USE ConnectionAssumption
  <1>1. TypeOK /\ InOrder /\ Unanswered /\ TornCloses /\ cur \in Nat /\ sent \in Nat
    BY DEF ConnectionInv, TypeOK, Request
  <1>2. PICK kind \in {"stream", "terminal"} :
          /\ UNCHANGED <<inbox, cur, verb, broken, client, sent, chunks, draining, departed>>
          /\ server = "serve" /\ count' \in Nat
          /\ out' = Append(out, [id |-> cur, kind |-> kind])
          /\ IF kind = "stream" THEN server' = "serve" ELSE server' \in {"read", "closed"}
    <2>1. CASE Stream
      BY <2>1, <1>1 DEF Stream, Server, Write, TypeOK
    <2>2. CASE Answer \/ RowOverCap
      BY <2>2, <1>1 DEF Answer, RowOverCap, Server, Write, After, TypeOK
    <2> QED
      BY <2>1, <2>2
  <1> DEFINE r == [id |-> cur, kind |-> kind]
  <1>3. r \in Reply /\ r.id = cur /\ r.kind = kind /\ out' = Append(out, r)
    BY <1>1, <1>2 DEF TypeOK, Reply, Request
  <1>4. \A k \in DOMAIN out : out[k].id = cur => out[k].kind # "terminal"
    BY <1>1, <1>2 DEF Unanswered
  <1>5. out' \in Seq(Reply) /\ Unanswered' /\ TornCloses' /\ (OneTerminal => OneTerminal')
    <2> HIDE DEF r
    <2> QED
      BY <1>1, <1>2, <1>3, <1>4, WritingKeeps
  <1>6. TypeOK' /\ InOrder'
    BY <1>1, <1>2, <1>5 DEF TypeOK, InOrder
  <1>7. ASSUME "format" \notin departed' PROVE (server' # "closed" => InStep') /\ OneTerminal'
    <2>1. cur = sent /\ inbox = <<>> /\ client \notin {"new", "sending"} /\ OneTerminal
      BY <1>2, <1>7 DEF ConnectionInv, InStep
    <2>2. RequestFrom(1)'
      BY <2>1, <1>2 DEF RequestFrom
    <2> QED
      BY <2>1, <2>2, <1>2, <1>5 DEF InStep
  <1> QED
    BY <1>5, <1>6, <1>7 DEF ConnectionInv

\* A row written in part, and the error that follows it (run_query's sink).
LEMMA StalledRowKeepsInv ==
  ASSUME ConnectionInv, StalledRow
  PROVE  ConnectionInv'
  <1> USE ConnectionAssumption
  <1> DEFINE t == [id |-> cur, kind |-> "torn"]
             r == [id |-> cur, kind |-> "terminal"]
  <1>1. TypeOK /\ InOrder /\ Unanswered /\ TornCloses /\ cur \in Nat /\ sent \in Nat
    BY DEF ConnectionInv, TypeOK, Request
  <1>2. /\ UNCHANGED <<inbox, cur, verb, count, client, sent, chunks, draining>>
        /\ server = "serve" /\ server' \in {"read", "closed"} /\ broken' = TRUE
        /\ departed' = departed \union {"row"} /\ out' = out \o <<t, r>>
    BY DEF StalledRow, Departs, After
  <1>3. t \in Reply /\ r \in Reply /\ t.id = cur /\ r.id = cur /\ t.kind = "torn" /\ r.kind = "terminal"
    BY <1>1 DEF TypeOK, Reply, Request
  <1>4. /\ out' \in Seq(Reply) /\ Len(out) \in Nat /\ DOMAIN out = 1..Len(out)
        /\ DOMAIN out' = 1..(Len(out) + 2)
        /\ \A i \in 1..Len(out) : out'[i] = out[i]
        /\ out'[Len(out) + 1] = t /\ out'[Len(out) + 2] = r
    <2> HIDE DEF t, r
    <2> QED
      BY <1>1, <1>2, <1>3 DEF TypeOK
  <1>5. Unanswered' /\ TornCloses'
    BY <1>1, <1>2, <1>3, <1>4 DEF Unanswered, TornCloses
  <1>6. TypeOK' /\ InOrder'
    BY <1>1, <1>2, <1>4 DEF TypeOK, InOrder
  <1>7. ASSUME OneTerminal PROVE OneTerminal'
    <2>1. \A k \in DOMAIN out : out[k].id = cur => out[k].kind # "terminal"
      BY <1>1, <1>2 DEF Unanswered
    <2> QED
      BY <2>1, <1>3, <1>4, <1>7 DEF OneTerminal
  <1>8. ASSUME "format" \notin departed' PROVE (server' # "closed" => InStep') /\ OneTerminal'
    <2>1. cur = sent /\ inbox = <<>> /\ client \notin {"new", "sending"} /\ OneTerminal
      BY <1>2, <1>8 DEF ConnectionInv, InStep
    <2>2. RequestFrom(1)'
      BY <2>1, <1>2 DEF RequestFrom
    <2> QED
      BY <2>1, <2>2, <1>2, <1>7 DEF InStep
  <1> QED
    BY <1>5, <1>6, <1>8 DEF ConnectionInv

\* A step that changes at most the drain flag (Drain, or no step at all).
LEMMA DrainKeepsInv ==
  ASSUME ConnectionInv,
         UNCHANGED <<inbox, out, client, sent, chunks, server, cur, verb, count, broken, departed>>,
         draining' \in BOOLEAN
  PROVE  ConnectionInv'
  <1>1. TypeOK' /\ InOrder' /\ Unanswered' /\ TornCloses' /\ (OneTerminal => OneTerminal')
    BY DEF ConnectionInv, TypeOK, InOrder, Unanswered, TornCloses, OneTerminal
  <1>2. InStep => InStep'
    BY DEF InStep, RequestFrom, PayloadFrom
  <1> QED
    BY <1>1, <1>2 DEF ConnectionInv

-----------------------------------------------------------------------------
\* Every step of the client and of the handler keeps the invariant (Next).
LEMMA ConnectionInvStep == ConnectionInv /\ [Next]_vars => ConnectionInv'
  <1> SUFFICES ASSUME ConnectionInv, [Next]_vars PROVE ConnectionInv'
    OBVIOUS
  <1>1. CASE \E good \in BOOLEAN : Hello(good) \/ \E v \in Verb : Ask(v, good)
    BY <1>1, HelloKeepsInv, AskKeepsInv
  <1>2. CASE SendChunk \/ SendEnd \/ SendOdd \/ Hangup
    BY <1>2, PayloadFrameKeepsInv, HangupKeepsInv
  <1>3. CASE Handler
    BY <1>3, GreetingKeepsInv, ReadRequestKeepsInv, RefuseImportKeepsInv, PayloadKeepsInv,
       ClosingKeepsInv, ReplyKeepsInv, StalledRowKeepsInv
    DEF Handler
  <1>4. CASE Drain
    BY <1>4, DrainKeepsInv DEF Drain
  <1>5. CASE UNCHANGED vars
    BY <1>5, DrainKeepsInv DEF vars, ConnectionInv, TypeOK
  <1> QED
    BY <1>1, <1>2, <1>3, <1>4, <1>5 DEF Next

\* The inductive invariant holds of every behaviour.
LEMMA ConnectionInvariance == Spec => []ConnectionInv
  BY ConnectionInvInit, ConnectionInvStep, PTL DEF Spec

\* A request is answered once, and nothing follows its terminal frame, whatever
\* the client sends, breaks off or leaves unread, unless an import was refused
\* for its format before its payload was read (serve.rs connection, run_import).
THEOREM RepliesEnd == Spec => []TerminalEnds
  <1>1. ConnectionInv => TerminalEnds
    BY DEF ConnectionInv, TerminalEnds
  <1> QED
    BY <1>1, ConnectionInvariance, PTL

\* A frame written in part is the last thing the daemon writes, except where a
\* stalled row is answered as one that is too large (run_query's sink).
THEOREM TornFrameIsLast == Spec => []TornIsLast
  <1>1. ConnectionInv => TornIsLast
    BY DEF ConnectionInv, TornCloses, TornIsLast
  <1> QED
    BY <1>1, ConnectionInvariance, PTL

\* The handler starts work only for a request without a reply, even where it
\* reads the chunks of a refused import as requests (connection's dispatch).
THEOREM NoWorkTwice == Spec => WorkOnce
  <1>1. ASSUME ConnectionInv, [Next]_vars
        PROVE  [server = "read" /\ server' \in {"payload", "serve"} => ~Terminal(cur')]_vars
    <2> SUFFICES ASSUME server = "read", server' \in {"payload", "serve"} PROVE ~Terminal(cur')
      OBVIOUS
    <2>1. Unanswered'
      BY <1>1, ConnectionInvStep DEF ConnectionInv
    <2>2. out' = out
      BY <1>1
      DEF Next, Handler, vars, Client, Hello, Ask, SendChunk, SendEnd, SendOdd, Hangup, Drain,
          Greet, ReadHello, ReadRequest, RefuseImport, After, ReadChunk, StagingFails, ReadEnd, RefusePayload,
          ReadNothing, Stream, Answer, RowOverCap, FrameOverCap, Stalled, StalledRow, PeerGone
    <2> QED
      BY <2>1, <2>2 DEF Unanswered, Terminal
  <1> QED
    BY <1>1, ConnectionInvariance, PTL DEF WorkOnce, Spec
=============================================================================
