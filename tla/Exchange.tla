------------------------------ MODULE Exchange ------------------------------
(***************************************************************************)
(* A request and its answer: send_with_timeouts, handle_remote_request and *)
(* handle_session_frame of crates/openlv/src/session/mod.rs, and           *)
(* receive_response of session/response/mod.rs.                            *)
(*                                                                         *)
(* The requester sends request frames and broadcasts every answer frame it *)
(* gets to all of its waiting requests; the responder admits a request,    *)
(* acknowledges it, runs the handler and replies.  The data channel keeps  *)
(* frames in order until it fails.  A deadline is kept as the time left to *)
(* it, which Tick counts down.                                             *)
(***************************************************************************)
EXTENDS Naturals, Sequences, FiniteSets, Functions

CONSTANTS
  Requests,           \* message ids of the requests that are sent
  None,               \* Rust's Option::None
  AckTimeout,         \* ack_timeout_ms
  ResponseTimeout,    \* response_timeout_ms
  Capacity,           \* capacity of response_tx
  MaxActiveHandlers,  \* MAX_ACTIVE_HANDLERS of the responder
  Prompt,             \* ready requests are polled before time goes on
  MaxWire             \* repeated acks wait while so many frames are in flight (a bound)

ASSUME ExchangeAssumption ==
  /\ IsFiniteSet(Requests)
  /\ None \notin Requests \cup {"ok", "error", "failed", "no ack", "no response"}
  /\ {AckTimeout, ResponseTimeout, MaxActiveHandlers, MaxWire} \subseteq Nat
  /\ Capacity \in Nat \ {0}
  /\ Prompt \in BOOLEAN

VARIABLES
  request,      \* the requester's side of each request
  elapsed,      \* history: how long receive_response has been running
  answered,     \* history: the first frame to end it that was broadcast in time
  outgoing,     \* request frames on their way
  wire,         \* answer frames on their way
  handler,      \* where the responder is with each request
  outcome,      \* what its handler returned
  peer_closed,  \* the close frame was handled
  link          \* the data channel: "up", "closing" (the peer said close) or "down"

vars == <<request, elapsed, answered, outgoing, wire, handler, outcome, peer_closed, link>>
history    == <<elapsed, answered>>
remoteVars == <<outgoing, wire, handler, outcome, peer_closed, link>>

\* The locals of receive_response: time_left to the deadline, ack_received, and
\* the receiver of response_tx with the messages in it.  `late` is history: how
\* many messages it took after the deadline.
Fresh == [at |-> "new", result |-> None, time_left |-> 0, ack_received |-> FALSE,
          receiver |-> <<>>, lagged |-> FALSE, late |-> 0]

At(q, pc)   == request[q].at = pc
Waiting(q)  == request[q].at \in {"top", "recv"}
Ack(q)      == [type |-> "ack", id |-> q]
Response(q) == [type |-> "response", id |-> q]
Failed(q)   == [type |-> "failed", id |-> q]
Closing     == [type |-> "close", id |-> None]

-----------------------------------------------------------------------------
(***************************************************************************)
(* send_with_timeouts.                                                     *)
(***************************************************************************)
\* The operation ends and its receiver is dropped.
Return(q, r) == request' = [request EXCEPT ![q] = [Fresh EXCEPT !.at = "done", !.result = r]]

\* Subscribe to the answers, then send; nothing about q is broadcast between
\* the two.  The frame may be answered before send_text returns.
Send(q) ==
  /\ At(q, "new") /\ link # "down"
  /\ request' = [request EXCEPT ![q].at = "sending"]
  /\ outgoing' = Append(outgoing, q)
  /\ UNCHANGED <<history, wire, handler, outcome, peer_closed, link>>

\* Not connected: the frame is not sent, or the send fails.
SendFails(q) ==
  /\ request[q].at \in {"new", "sending"} /\ link = "down"
  /\ Return(q, "not sent")
  /\ UNCHANGED <<history, remoteVars>>

\* The send returned; receive_response sets the ack deadline.
ReceiveResponse(q) ==
  /\ At(q, "sending")
  /\ request' = [request EXCEPT ![q].at = "top", ![q].time_left = AckTimeout]
  /\ UNCHANGED <<history, remoteVars>>

-----------------------------------------------------------------------------
(***************************************************************************)
(* receive_response: its loop and its receive.                             *)
(***************************************************************************)
TimeoutReason(q) == IF request[q].ack_received THEN "no response" ELSE "no ack"

\* Mutant: the deadline is left to timeout_at.
LoopTopUnchecked(q) ==
  /\ At(q, "top")
  /\ request' = [request EXCEPT ![q].at = "recv"]
  /\ UNCHANGED <<history, remoteVars>>

\* The explicit deadline check.
LoopTop(q) ==
  /\ At(q, "top")
  /\ IF request[q].time_left = 0
     THEN Return(q, TimeoutReason(q))
     ELSE request' = [request EXCEPT ![q].at = "recv"]
  /\ UNCHANGED <<history, remoteVars>>

\* timeout_at polls recv first: the deadline passes only while nothing is ready.
TimesOut(q) ==
  /\ At(q, "recv") /\ request[q].receiver = <<>> /\ request[q].time_left = 0
  /\ Return(q, TimeoutReason(q))
  /\ UNCHANGED <<history, remoteVars>>

\* RecvError::Lagged is an error like Closed.
Lags(q) ==
  /\ At(q, "recv") /\ request[q].lagged
  /\ Return(q, "channel closed")
  /\ UNCHANGED <<history, remoteVars>>

\* Back to the top of the loop, with the first message taken.
Again(q) ==
  [request[q] EXCEPT !.at = "top", !.receiver = Tail(@),
                     !.late = IF request[q].time_left = 0 THEN @ + 1 ELSE @]

\* The first ack starts the response deadline.
AcceptAck(q) ==
  request' = [request EXCEPT ![q] =
    IF request[q].ack_received THEN Again(q)
    ELSE [Again(q) EXCEPT !.ack_received = TRUE, !.time_left = ResponseTimeout, !.late = 0]]

\* Mutant: the message id of a response is not compared.
HandleAny(q, m) ==
  \/ m = Ack(q) /\ AcceptAck(q)
  \/ m.type = "response" /\ Return(q, "ok")
  \/ m = Failed(q) /\ Return(q, "failed")
  \/ m = Closing /\ Return(q, "session closed")
  \/ m.id \notin {q, None} /\ m.type # "response" /\ request' = [request EXCEPT ![q] = Again(q)]

\* The arms of the match.
Handle(q, m) ==
  \/ m = Ack(q) /\ AcceptAck(q)
  \/ m = Response(q) /\ Return(q, "ok")
  \/ m = Failed(q) /\ Return(q, "failed")
  \/ m = Closing /\ Return(q, "session closed")
  \/ m.id \notin {q, None} /\ request' = [request EXCEPT ![q] = Again(q)]

Receive(q) ==
  /\ At(q, "recv") /\ ~request[q].lagged /\ request[q].receiver # <<>>
  /\ Handle(q, Head(request[q].receiver))
  /\ UNCHANGED <<history, remoteVars>>

-----------------------------------------------------------------------------
(***************************************************************************)
(* The event loop of the requester: an answer frame is broadcast.          *)
(***************************************************************************)
\* Mutant: a request subscribes when its send has returned.
SubscribedLate(q) == Waiting(q)

Subscribed(q) == At(q, "sending") \/ Waiting(q)

\* A receiver that has not kept up loses the oldest message and lags.
Deliver(r, m) ==
  IF Len(r.receiver) = Capacity
  THEN [r EXCEPT !.receiver = Append(Tail(@), m), !.lagged = TRUE]
  ELSE [r EXCEPT !.receiver = Append(@, m)]

HandleFrame ==
  /\ wire # <<>>
  /\ LET m == Head(wire) IN
     /\ request' = [q \in Requests |->
          IF Subscribed(q) THEN Deliver(request[q], m) ELSE request[q]]
     /\ peer_closed' = (peer_closed \/ m = Closing)
     /\ answered' = [q \in Requests |->
          IF /\ answered[q] = None /\ m \in {Response(q), Failed(q), Closing}
             /\ At(q, "sending") \/ (Waiting(q) /\ request[q].time_left > 0)
          THEN m.type ELSE answered[q]]
  /\ wire' = Tail(wire)
  /\ UNCHANGED <<elapsed, outgoing, handler, outcome, link>>

-----------------------------------------------------------------------------
(***************************************************************************)
(* The responder.                                                          *)
(***************************************************************************)
Active == {q \in Requests : handler[q] \in {"ack", "running", "reply"}}

\* dispatch_request: a request beyond the limit, or one that comes after the
\* responder was closed, is dropped without an answer.
Dispatch ==
  /\ outgoing # <<>>
  /\ outgoing' = Tail(outgoing)
  /\ handler' = [handler EXCEPT ![Head(outgoing)] =
       IF link = "up" /\ Cardinality(Active) < MaxActiveHandlers THEN "ack" ELSE "declined"]
  /\ UNCHANGED <<request, history, wire, outcome, peer_closed, link>>

\* A frame is sent, or the send fails: the handler goes on in either case.
Transmit(m) == wire' = IF link = "down" THEN wire ELSE Append(wire, m)

SendAck(q) ==
  /\ handler[q] = "ack"
  /\ Transmit(Ack(q))
  /\ handler' = [handler EXCEPT ![q] = "running"]
  /\ UNCHANGED <<request, history, outgoing, outcome, peer_closed, link>>

\* on_message returned.
HandlerReturns(q, o) ==
  /\ handler[q] = "running"
  /\ outcome' = [outcome EXCEPT ![q] = o]
  /\ handler' = [handler EXCEPT ![q] = "reply"]
  /\ UNCHANGED <<request, history, outgoing, wire, peer_closed, link>>

Reply(q) ==
  /\ handler[q] = "reply"
  /\ Transmit(IF outcome[q] = "ok" THEN Response(q) ELSE Failed(q))
  /\ handler' = [handler EXCEPT ![q] = "done"]
  /\ UNCHANGED <<request, history, outgoing, outcome, peer_closed, link>>

\* A peer of another implementation may acknowledge a request again.
RepeatAck(q) ==
  /\ handler[q] = "running" /\ link = "up" /\ Len(wire) < MaxWire
  /\ Transmit(Ack(q))
  /\ UNCHANGED <<request, history, outgoing, handler, outcome, peer_closed, link>>

\* Session::close of the responder says close; its handlers are aborted, and
\* one that is past its last await may still reply.
PeerCloses ==
  /\ link = "up"
  /\ link' = "closing"
  /\ Transmit(Closing)
  /\ UNCHANGED <<request, history, outgoing, handler, outcome, peer_closed>>

\* The data channel fails, or closes after the peer said close.
LinkFails ==
  /\ link # "down"
  /\ link' = "down"
  /\ wire' = <<>>
  /\ outgoing' = <<>>
  /\ UNCHANGED <<request, history, handler, outcome, peer_closed>>

-----------------------------------------------------------------------------
\* A request that a poll would move.
Ready(q) ==
  \/ request[q].at \in {"sending", "top"}
  \/ At(q, "recv") /\ (request[q].receiver # <<>> \/ request[q].time_left = 0)

\* `elapsed` stops counting past what BoundedWait allows.
Tick ==
  /\ Prompt => \A q \in Requests : ~Ready(q)
  /\ \E q \in Requests : Waiting(q)
  /\ request' = [q \in Requests |->
       IF request[q].time_left = 0 THEN request[q] ELSE [request[q] EXCEPT !.time_left = @ - 1]]
  /\ elapsed' = [q \in Requests |->
       IF Waiting(q) /\ elapsed[q] <= AckTimeout + ResponseTimeout THEN elapsed[q] + 1
       ELSE elapsed[q]]
  /\ UNCHANGED <<answered, remoteVars>>

Init ==
  /\ request = [q \in Requests |-> Fresh]
  /\ elapsed = [q \in Requests |-> 0]
  /\ answered = [q \in Requests |-> None]
  /\ outgoing = <<>>
  /\ wire = <<>>
  /\ handler = [q \in Requests |-> "none"]
  /\ outcome = [q \in Requests |-> None]
  /\ peer_closed = FALSE
  /\ link = "up"

\* What a poll of the request does.
Poll(q) == ReceiveResponse(q) \/ LoopTop(q) \/ TimesOut(q) \/ Lags(q) \/ Receive(q)

Responder(q) ==
  \/ SendAck(q) \/ Reply(q) \/ RepeatAck(q)
  \/ \E o \in {"ok", "error"} : HandlerReturns(q, o)

Next ==
  \/ \E q \in Requests : Send(q) \/ SendFails(q) \/ Poll(q) \/ Responder(q)
  \/ HandleFrame \/ Dispatch \/ PeerCloses \/ LinkFails \/ Tick

Spec == Init /\ [][Next]_vars

-----------------------------------------------------------------------------
Frames == {Ack(q) : q \in Requests} \cup {Response(q) : q \in Requests}
            \cup {Failed(q) : q \in Requests} \cup {Closing}

Results == {None, "ok", "failed", "not sent", "no ack", "no response", "channel closed",
            "session closed"}

\* The type invariant.
TypeOK ==
  /\ request \in [Requests -> [at : {"new", "sending", "top", "recv", "done"}, result : Results,
                               time_left : Nat, ack_received : BOOLEAN,
                               receiver : Seq(Frames), lagged : BOOLEAN, late : Nat]]
  /\ elapsed \in [Requests -> Nat]
  /\ answered \in [Requests -> {None, "response", "failed", "close"}]
  /\ outgoing \in Seq(Requests) /\ wire \in Seq(Frames)
  /\ handler \in [Requests -> {"none", "declined", "ack", "running", "reply", "done"}]
  /\ outcome \in [Requests -> {None, "ok", "error"}]
  /\ peer_closed \in BOOLEAN
  /\ link \in {"up", "closing", "down"}

\* What the caller is told is what the peer's handler did with this very
\* request, whatever other answers are broadcast to it; and a request that was
\* declined is never reported as accepted.
AnswersMatch ==
  \A q \in Requests :
    /\ request[q].result = "ok" => outcome[q] = "ok"
    /\ request[q].result = "failed" => outcome[q] = "error"
    /\ request[q].result = "no response" => handler[q] \notin {"none", "declined"}

\* A frame says what the responder did.
Truthful(m) ==
  /\ m.type = "ack" => handler[m.id] \notin {"none", "declined"}
  /\ m.type = "response" => outcome[m.id] = "ok"
  /\ m.type = "failed" => outcome[m.id] = "error"

\* A request frame is sent once, and is on its way before it is dispatched.
SentOnce ==
  /\ IsInjective(outgoing)
  /\ \A q \in Range(outgoing) : handler[q] = "none" /\ ~At(q, "new")
  /\ \A q \in Requests :
       /\ At(q, "new") => handler[q] = "none"
       /\ outcome[q] = None <=> handler[q] \notin {"reply", "done"}

\* Every frame on the wire or in a receiver, and every ack a request counted, is
\* truthful, so that AnswersMatch holds.
TruthOK ==
  /\ TypeOK /\ AnswersMatch /\ SentOnce
  /\ \A m \in Range(wire) : Truthful(m)
  /\ \A q \in Requests :
       /\ \A m \in Range(request[q].receiver) : Truthful(m)
       /\ request[q].ack_received => handler[q] \notin {"none", "declined"}

\* Acks and unrelated answers do not keep a request open: it lasts no longer
\* than both timeouts together, without an ack no longer than the first
\* ("unrelated_messages_do_not_extend_ack_deadline"), and even if messages for
\* others never stop coming it takes no second one after its deadline ("a
\* continuously ready stream of unrelated messages can keep recv() from
\* yielding").
BoundedWait ==
  \A q \in Requests : Waiting(q) =>
    /\ elapsed[q] <= AckTimeout + (IF request[q].ack_received THEN ResponseTimeout ELSE 0)
    /\ request[q].late <= 1

\* "Subscribe before sending so a fast ack/response cannot be lost": a request
\* times out only if neither an answer nor the close of the peer was broadcast
\* before its deadline, even while it was being sent.
AnswerInTimeKept ==
  \A q \in Requests : request[q].result \in {"no ack", "no response"} => answered[q] = None

\* The time a request has waited and the time left to its deadline make up the
\* timeouts it was given.
WaitOK ==
  \A q \in Requests :
    LET r == request[q] IN
    /\ r.at # "done" => r.result = None
    /\ r.at \in {"new", "sending"} => elapsed[q] = 0 /\ ~r.ack_received /\ r.late = 0
    /\ Waiting(q) =>
         /\ Prompt => elapsed[q] + r.time_left
                        <= AckTimeout + (IF r.ack_received THEN ResponseTimeout ELSE 0)
         /\ r.late = 0 \/ (r.late = 1 /\ r.at = "top" /\ r.time_left = 0)

\* The frame that ended the wait in time is in the receiver, or the receiver has
\* lost something; a request that is polled promptly gets to it in time.
Ends(q) == {Response(q), Failed(q), Closing}
Timely == Prompt /\ AckTimeout > 0 /\ ResponseTimeout > 0

KeptOK ==
  \A q \in Requests :
    /\ At(q, "new") => answered[q] = None
    /\ Timely /\ request[q].result \in {"no ack", "no response"} => answered[q] = None
    /\ Subscribed(q) /\ answered[q] # None =>
         /\ request[q].receiver # <<>>
         /\ request[q].lagged \/ Range(request[q].receiver) \cap Ends(q) # {}
         /\ Timely /\ Waiting(q) => request[q].time_left > 0

\* The inductive invariant.
Inv == TruthOK /\ WaitOK /\ KeptOK
=============================================================================
