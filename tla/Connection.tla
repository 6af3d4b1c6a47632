----------------------------- MODULE Connection -----------------------------
(***************************************************************************)
(* One connection of the daemon (serve.rs): hello, requests, streamed       *)
(* payloads and replies, against a client that may leave, stall, break off  *)
(* a payload or send something else in the middle of one.                   *)
(*                                                                         *)
(* Frames are whole or torn; what they say is left out.  A verb is `rows`   *)
(* (query: streams rows), `stream` (export, fsck, report and the verbs that *)
(* answer with one frame), `payload` (schema-apply), `import`, or unknown.  *)
(***************************************************************************)
EXTENDS Naturals, Sequences

CONSTANTS MaxRequests,  \* bound on the requests a client sends
          MaxPayload,   \* the payload cap, in chunks
          MaxStream     \* bound on the frames streamed before the terminal one

ASSUME ConnectionAssumption ==
  MaxRequests \in Nat /\ MaxPayload \in Nat /\ MaxStream \in Nat

VARIABLES inbox,     \* the frames sent to the daemon that it has not read
          out,       \* the frames the daemon has written
          client,    \* what the client is doing
          sent,      \* the requests the client has sent
          chunks,    \* the chunks it has sent for the last one
          server,    \* where the daemon's handler stands
          cur, verb, \* the request it is serving
          count,     \* the chunks read, or the frames streamed, for it
          broken,    \* the client left, stalled or broke the protocol
          draining,  \* the daemon is draining
          departed   \* history: where the handler left the protocol, by
                     \*   "format": refusing an import with its payload unread
                     \*   "frame": not sending a frame over the frame cap
                     \*   "row": going on after a row was written in part
                     \*   "disk": giving up an import it could not stage

vars == <<inbox, out, client, sent, chunks, server, cur, verb, count, broken,
          draining, departed>>

Verb == {"rows", "stream", "payload", "import", "unknown"}
Request == 1..MaxRequests
Frame == [kind : {"hello", "request", "chunk", "end", "odd"},
          id : Request \union {0}, verb : Verb, good : BOOLEAN]
Reply == [id : Request \union {0}, kind : {"hello", "stream", "terminal", "torn"}]

Sent(kind, id, v, good) == [kind |-> kind, id |-> id, verb |-> v, good |-> good]
Chunk(kind) == Sent(kind, sent, "unknown", TRUE)
Write(id, kind) == out' = Append(out, [id |-> id, kind |-> kind])

Terminal(id) == [id |-> id, kind |-> "terminal"] \in {out[i] : i \in DOMAIN out}

Init ==
  /\ inbox = <<>> /\ out = <<>> /\ client = "new" /\ sent = 0 /\ chunks = 0
  /\ server = "greet" /\ cur = 0 /\ verb = "unknown" /\ count = 0
  /\ broken = FALSE /\ draining = FALSE /\ departed = {}

-----------------------------------------------------------------------------
(* The client, as docs/protocol.md describes it.                            *)

\* What the client does on its own leaves the daemon alone.
Client ==
  UNCHANGED <<out, server, cur, verb, count, draining, departed>>

Hello(good) ==
  /\ client = "new"
  /\ inbox' = Append(inbox, Sent("hello", 0, "unknown", good))
  /\ client' = "ready"
  /\ UNCHANGED <<sent, chunks, broken>> /\ Client

\* One request at a time: the last one has been answered.
Ask(v, good) ==
  /\ client \in {"ready", "asked"} /\ sent < MaxRequests
  /\ sent > 0 => Terminal(sent)
  /\ inbox' = Append(inbox, Sent("request", sent + 1, v, good))
  /\ sent' = sent + 1 /\ chunks' = 0
  /\ client' = IF v \in {"payload", "import"} THEN "sending" ELSE "asked"
  /\ UNCHANGED broken /\ Client

SendChunk ==
  /\ client = "sending" /\ chunks <= MaxPayload /\ chunks' = chunks + 1
  /\ inbox' = Append(inbox, Chunk("chunk"))
  /\ UNCHANGED <<client, sent, broken>> /\ Client

SendEnd ==
  /\ client = "sending"
  /\ inbox' = Append(inbox, Chunk("end"))
  /\ client' = "asked"
  /\ UNCHANGED <<sent, chunks, broken>> /\ Client

\* A frame that is no chunk, inside a payload.
SendOdd ==
  /\ client = "sending"
  /\ inbox' = Append(inbox, Chunk("odd"))
  /\ broken' = TRUE /\ client' = "asked"
  /\ UNCHANGED <<sent, chunks>> /\ Client

Hangup ==
  /\ client \notin {"new", "gone"}
  /\ client' = "gone" /\ broken' = TRUE
  /\ UNCHANGED <<inbox, sent, chunks>> /\ Client

-----------------------------------------------------------------------------
(* The daemon's handler.                                                    *)

Server == UNCHANGED <<client, sent, chunks, draining, departed>>

Departs(how) ==
  /\ departed' = departed \union {how}
  /\ UNCHANGED <<client, sent, chunks, draining>>

\* read_frame.
Reads == inbox # <<>> /\ inbox' = Tail(inbox)

\* The handler is done with a request: on to the next one, unless draining.
After == server' = IF draining THEN "closed" ELSE "read"

Greet ==
  /\ server = "greet"
  /\ Write(0, "hello") /\ server' = "hello"
  /\ UNCHANGED <<inbox, cur, verb, count, broken>> /\ Server

ReadHello ==
  /\ server = "hello"
  /\ Reads
  /\ LET f == Head(inbox) IN
       /\ IF f.kind = "hello" /\ f.good
          THEN server' = "read" /\ UNCHANGED out
          ELSE server' = "closed" /\ Write(0, "terminal")
  /\ UNCHANGED <<cur, verb, count, broken>> /\ Server

\* Mutant: a drain closes before the request just read is served.
ReadRequestDraining ==
  /\ server = "read"
  /\ Reads
  /\ LET f == Head(inbox) IN
       /\ f.verb = "import" => f.good
       /\ cur' = f.id /\ verb' = f.verb /\ count' = 0
       /\ \/ draining /\ server' = "closed" /\ UNCHANGED out
          \/ ~draining /\ f.verb = "unknown" /\ Write(f.id, "terminal") /\ After
          \/ ~draining /\ f.verb \in {"payload", "import"} /\ server' = "payload" /\ UNCHANGED out
          \/ ~draining /\ f.verb \in {"rows", "stream"} /\ server' = "serve" /\ UNCHANGED out
  /\ UNCHANGED broken /\ Server

\* Mutant: a frame without a verb is taken for the verb served before.
ReadRequestSticky ==
  /\ server = "read"
  /\ Reads
  /\ LET f == Head(inbox)
         v == IF f.kind = "request" THEN f.verb ELSE verb IN
       /\ v = "import" => f.good
       /\ cur' = f.id /\ verb' = v /\ count' = 0
       /\ \/ v = "unknown" /\ Write(f.id, "terminal") /\ After
          \/ v \in {"payload", "import"} /\ server' = "payload" /\ UNCHANGED out
          \/ v \in {"rows", "stream"} /\ server' = "serve" /\ UNCHANGED out
  /\ UNCHANGED broken /\ Server

\* An import without its format.
Formatless == server = "read" /\ Reads /\ Head(inbox).verb = "import" /\ ~Head(inbox).good

\* The next frame is taken for a request, whatever it is: one without a verb
\* is an unknown verb.
ReadRequest ==
  /\ server = "read"
  /\ Reads
  /\ LET f == Head(inbox) IN
       /\ f.verb = "import" => f.good
       /\ cur' = f.id /\ verb' = f.verb /\ count' = 0
       /\ \/ f.verb = "unknown" /\ Write(f.id, "terminal") /\ After
          \/ f.verb \in {"payload", "import"} /\ server' = "payload" /\ UNCHANGED out
          \/ f.verb \in {"rows", "stream"} /\ server' = "serve" /\ UNCHANGED out
  /\ UNCHANGED broken /\ Server

\* Refused before its payload is read.
RefuseImport ==
  /\ Formatless
  /\ cur' = Head(inbox).id /\ verb' = "import" /\ count' = 0
  /\ Write(Head(inbox).id, "terminal") /\ After
  /\ UNCHANGED broken /\ Departs("format")

ReadChunk ==
  /\ server = "payload"
  /\ Reads /\ Head(inbox).kind = "chunk"
  /\ count < MaxPayload /\ count' = count + 1
  /\ UNCHANGED <<out, server, cur, verb, broken>> /\ Server

\* The staging directory or file of an import cannot be written.
StagingFails ==
  /\ server = "payload" /\ verb = "import"
  /\ server' = "closed"
  /\ UNCHANGED <<inbox, out, cur, verb, count, broken>> /\ Departs("disk")

ReadEnd ==
  /\ server = "payload"
  /\ Reads /\ Head(inbox).kind = "end"
  /\ server' = "serve" /\ count' = 0
  /\ UNCHANGED <<out, cur, verb, broken>> /\ Server

\* Mutant: a refused payload leaves the connection open.
RefusePayloadOpen ==
  /\ server = "payload"
  /\ Reads
  /\ Head(inbox).kind # "end"
  /\ Head(inbox).kind = "chunk" => count = MaxPayload
  /\ Write(cur, "terminal") /\ After
  /\ broken' = TRUE
  /\ UNCHANGED <<cur, verb, count>> /\ Server

\* Too many chunks, or a frame that is none: the error is answered and the
\* connection closed, since what follows cannot be told from requests.
RefusePayload ==
  /\ server = "payload"
  /\ Reads
  /\ Head(inbox).kind # "end"
  /\ Head(inbox).kind = "chunk" => count = MaxPayload
  /\ Write(cur, "terminal") /\ server' = "closed"
  /\ broken' = TRUE
  /\ UNCHANGED <<cur, verb, count>> /\ Server

\* Nothing comes: the client closed its end, or the read timeout expired.
\* Inside a payload the end is answered with an error, a timeout is not.
ReadNothing ==
  /\ server \in {"hello", "read", "payload"} /\ inbox = <<>>
  /\ IF server = "payload" /\ client = "gone" THEN Write(cur, "terminal") ELSE UNCHANGED out
  /\ server' = "closed" /\ broken' = TRUE
  /\ UNCHANGED <<inbox, cur, verb, count>> /\ Server

\* A row, an advisory, a finding, a table or an outbound chunk.
Stream ==
  /\ server = "serve" /\ count < MaxStream
  /\ Write(cur, "stream") /\ count' = count + 1
  /\ UNCHANGED <<inbox, server, cur, verb, broken>> /\ Server

\* The reply: ok, or a typed error.  The author of an import is looked at here,
\* after its payload.
Answer ==
  /\ server = "serve"
  /\ Write(cur, "terminal") /\ After
  /\ UNCHANGED <<inbox, cur, verb, count, broken>> /\ Server

\* A frame over the cap is not written.  A row turns into an error.
RowOverCap ==
  /\ server = "serve" /\ verb = "rows"
  /\ Write(cur, "terminal") /\ After
  /\ UNCHANGED <<inbox, cur, verb, count, broken>> /\ Server

\* Any other frame, the terminal one included, ends the connection.
FrameOverCap ==
  /\ server = "serve"
  /\ server' = "closed"
  /\ UNCHANGED <<inbox, out, cur, verb, count, broken>> /\ Departs("frame")

\* Mutant: the error of a frame that could not be written is dropped.
StalledIgnored ==
  /\ server = "serve" /\ client # "gone"
  /\ Write(cur, "torn") /\ broken' = TRUE
  /\ count < MaxStream /\ count' = count + 1
  /\ UNCHANGED <<inbox, server, cur, verb>> /\ Server

\* The client stops reading and the write timeout expires inside a frame: the
\* handler gives up.
Stalled ==
  /\ server = "serve" /\ client # "gone"
  /\ Write(cur, "torn") /\ broken' = TRUE
  /\ server' = "closed"
  /\ UNCHANGED <<inbox, cur, verb, count>> /\ Server

\* Inside a row the same error is taken for one of size, and answered.
StalledRow ==
  /\ server = "serve" /\ verb = "rows" /\ client # "gone"
  /\ out' = out \o << [id |-> cur, kind |-> "torn"], [id |-> cur, kind |-> "terminal"] >>
  /\ After /\ broken' = TRUE
  /\ UNCHANGED <<inbox, cur, verb, count>> /\ Departs("row")

\* A write fails because the client is gone.
PeerGone ==
  /\ server = "serve" /\ client = "gone"
  /\ server' = "closed"
  /\ UNCHANGED <<inbox, out, cur, verb, count, broken>> /\ Server

Drain ==
  /\ ~draining /\ draining' = TRUE
  /\ UNCHANGED <<inbox, out, client, sent, chunks, server, cur, verb, count, broken,
                 departed>>

-----------------------------------------------------------------------------
Handler ==
  \/ Greet \/ ReadHello \/ ReadRequest \/ RefuseImport \/ ReadChunk \/ StagingFails \/ ReadEnd \/ RefusePayload
  \/ ReadNothing \/ Stream \/ Answer \/ RowOverCap \/ FrameOverCap \/ Stalled \/ StalledRow \/ PeerGone

Next ==
  \/ \E good \in BOOLEAN : Hello(good) \/ \E v \in Verb : Ask(v, good)
  \/ SendChunk \/ SendEnd \/ SendOdd \/ Hangup
  \/ Handler \/ Drain

Spec == Init /\ [][Next]_vars

\* The handler's thread runs, and a read that gets nothing times out.
FairSpec == Spec /\ WF_vars(Handler)

-----------------------------------------------------------------------------
(* Properties.                                                              *)

\* The handler serves a request it was sent, and holds no more of its payload
\* than the cap of payload_cap.
TypeOK ==
  /\ inbox \in Seq(Frame) /\ out \in Seq(Reply)
  /\ client \in {"new", "ready", "asked", "sending", "gone"}
  /\ sent \in Request \union {0} /\ chunks \in 0..(MaxPayload + 1)
  /\ server \in {"greet", "hello", "read", "payload", "serve", "closed"}
  /\ cur \in 0..sent /\ (server \in {"payload", "serve"} => cur # 0)
  /\ verb \in Verb /\ count \in Nat
  /\ (server = "payload" => count <= MaxPayload)
  /\ broken \in BOOLEAN /\ draining \in BOOLEAN
  /\ departed \subseteq {"format", "frame", "row", "disk"}

\* A request gets one terminal frame, and nothing after it: docs/protocol.md's
\* "exactly one terminal frame".
OneTerminal ==
  \A i, j \in DOMAIN out :
     i < j /\ out[i].kind = "terminal" /\ out[i].id # 0 => out[j].id # out[i].id

\* An import refused for its format is the only way to a second reply: a
\* payload refused, broken off or too long is not taken for requests.
TerminalEnds == "format" \notin departed => OneTerminal

\* Nothing follows a frame that was written in part, since the client could not
\* tell where it begins, but in run_query's rows.
TornIsLast ==
  "row" \notin departed =>
    \A i \in DOMAIN out : out[i].kind = "torn" => i = Len(out)

\* Work starts only for a request that has no reply yet, even where frames of
\* a refused payload are read as requests.
WorkOnce ==
  [][server = "read" /\ server' \in {"payload", "serve"} => ~Terminal(cur')]_vars

\* A request the daemon has read is answered, a drain notwithstanding, unless
\* the client itself failed, the reply is over the frame cap or the import
\* cannot be staged.
Answered ==
  \A r \in Request :
     (cur = r /\ ~broken) ~> (Terminal(r) \/ broken \/ {"frame", "disk"} \intersect departed # {})
=============================================================================
