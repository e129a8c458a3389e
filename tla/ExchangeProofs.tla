--------------------------- MODULE ExchangeProofs ---------------------------
(***************************************************************************)
(* Proof that a request is told what its own handler did (AnswersMatch),   *)
(* for any number of requests, any timeouts, any capacity of response_tx   *)
(* and any limit on handlers.                                              *)
(*                                                                         *)
(* The argument: the responder sends a frame only when the frame is true,  *)
(* what it says stays true (Progress), and a request compares the id of a  *)
(* frame before it believes it.                                            *)
(***************************************************************************)
EXTENDS Exchange, SequenceLemmas, TLAPS

\* What is in a sequence with one element more.
LEMMA AppendContents ==
  ASSUME NEW S, NEW s \in Seq(S), NEW e \in S
  PROVE  /\ Append(s, e) \in Seq(S)
         /\ Range(Append(s, e)) = Range(s) \cup {e}
         /\ IsInjective(s) /\ e \notin Range(s) => IsInjective(Append(s, e))
<1> DEFINE t == Append(s, e)
<1>1. /\ t \in Seq(S) /\ Len(t) = Len(s) + 1 /\ t[Len(s) + 1] = e
      /\ \A i \in 1 .. Len(s) : t[i] = s[i]
  OBVIOUS
<1>2. DOMAIN s = 1 .. Len(s) /\ DOMAIN t = 1 .. Len(s) + 1 /\ Len(s) \in Nat
  BY <1>1
<1> HIDE DEF t
<1>3. Range(t) = Range(s) \cup {e}
  <2>1. Range(s) \cup {e} \subseteq Range(t)
    BY <1>1, <1>2 DEF Range
  <2>2. Range(t) \subseteq Range(s) \cup {e}
    BY <1>1, <1>2 DEF Range
  <2> QED
    BY <2>1, <2>2
<1>4. IsInjective(s) /\ e \notin Range(s) => IsInjective(t)
  BY <1>1, <1>2 DEF IsInjective, Range
<1> QED
  BY <1>1, <1>3, <1>4 DEF t

\* What is in a sequence, and in what is left without its first element.
LEMMA TailContents ==
  ASSUME NEW S, NEW s \in Seq(S), s # <<>>
  PROVE  /\ Tail(s) \in Seq(S)
         /\ Head(s) \in S /\ Head(s) \in Range(s)
         /\ Range(Tail(s)) \subseteq Range(s)
         /\ Range(s) \subseteq Range(Tail(s)) \cup {Head(s)}
         /\ IsInjective(s) => IsInjective(Tail(s)) /\ Head(s) \notin Range(Tail(s))
<1>1. /\ Tail(s) \in Seq(S) /\ Head(s) \in S /\ Head(s) \in Range(s)
      /\ Range(Tail(s)) \subseteq Range(s)
      /\ IsInjective(s) => IsInjective(Tail(s)) /\ Head(s) \notin Range(Tail(s))
  BY DEF Range, IsInjective
<1>2. Range(s) \subseteq Range(Tail(s)) \cup {Head(s)}
  BY TailItems DEF Range
<1> QED
  BY <1>1, <1>2

\* The empty sequence has no elements.
LEMMA EmptyContents == Range(<<>>) = {} /\ IsInjective(<<>>)
BY DEF Range, IsInjective

\* The elements of a sequence over S are in S.
LEMMA RangeType ==
  ASSUME NEW S, NEW s \in Seq(S)
  PROVE  Range(s) \subseteq S
BY DEF Range

\* The fields of a request.
RequestType ==
  [at : {"new", "sending", "top", "recv", "done"}, result : Results, time_left : Nat,
   ack_received : BOOLEAN, receiver : Seq(Frames), lagged : BOOLEAN, late : Nat]

\* A message handed to a receiver keeps the type of the request, and nothing
\* but that message is new in the receiver.
LEMMA DeliverContents ==
  ASSUME NEW r \in RequestType, NEW m \in Frames
  PROVE  /\ Deliver(r, m) \in RequestType
         /\ Range(Deliver(r, m).receiver) \subseteq Range(r.receiver) \cup {m}
         /\ Deliver(r, m).result = r.result /\ Deliver(r, m).ack_received = r.ack_received
         /\ Deliver(r, m).at = r.at /\ Deliver(r, m).time_left = r.time_left /\ Deliver(r, m).late = r.late
         /\ Deliver(r, m).receiver # <<>> /\ m \in Range(Deliver(r, m).receiver)
         /\ \/ Deliver(r, m).lagged
            \/ Deliver(r, m).lagged = r.lagged /\ Range(r.receiver) \subseteq Range(Deliver(r, m).receiver)
<1>1. r.receiver \in Seq(Frames)
  BY DEF RequestType
<1>2. CASE Len(r.receiver) = Capacity
  <2>1. r.receiver # <<>>
    BY <1>1, <1>2, ExchangeAssumption
  <2> DEFINE t == Tail(r.receiver)
  <2>2. t \in Seq(Frames) /\ Range(t) \subseteq Range(r.receiver)
    BY <1>1, <2>1, TailContents
  <2> HIDE DEF t
  <2>3. Append(t, m) \in Seq(Frames) /\ Range(Append(t, m)) = Range(t) \cup {m}
    BY <2>2, AppendContents
  <2>4. Deliver(r, m) = [r EXCEPT !.receiver = Append(t, m), !.lagged = TRUE]
    BY <1>2 DEF Deliver, t
  <2> QED
    BY <2>2, <2>3, <2>4, EmptyContents DEF RequestType
<1>3. CASE Len(r.receiver) # Capacity
  <2>1. /\ Append(r.receiver, m) \in Seq(Frames)
        /\ Range(Append(r.receiver, m)) = Range(r.receiver) \cup {m}
    BY <1>1, AppendContents
  <2> QED
    BY <1>3, <2>1 DEF Deliver, RequestType
<1> QED
  BY <1>2, <1>3

\* What a step may do to a request: its receiver gets no message that was not
\* on the wire, and an ack or a result is backed by a message in the receiver.
BackedStep(q) ==
  /\ request'[q] \in RequestType
  /\ Range(request'[q].receiver) \subseteq Range(request[q].receiver) \cup Range(wire)
  /\ request'[q].ack_received => request[q].ack_received \/ Ack(q) \in Range(request[q].receiver)
  /\ \/ request'[q].result = request[q].result
     \/ request'[q].result \in {"not sent", "no ack", "channel closed", "session closed"}
     \/ request'[q].result = "no response" /\ request[q].ack_received
     \/ request'[q].result = "ok" /\ Response(q) \in Range(request[q].receiver)
     \/ request'[q].result = "failed" /\ Failed(q) \in Range(request[q].receiver)
  /\ request'[q].at = "new" => request[q].at = "new"

\* A new request has the type of a request.
LEMMA FreshType == Fresh \in RequestType
<1>1. None \in Results
  BY DEF Results
<1> DEFINE E == <<>>
<1>2. E \in Seq(Frames)
  OBVIOUS
<1> HIDE DEF E
<1>3. [at |-> "new", result |-> None, time_left |-> 0, ack_received |-> FALSE,
       receiver |-> E, lagged |-> FALSE, late |-> 0] \in RequestType
  BY <1>1, <1>2 DEF RequestType
<1> QED
  BY <1>3 DEF Fresh, E

\* The end of an operation has the type of a request and an empty receiver.
LEMMA ReturnStep ==
  ASSUME TruthOK, NEW q \in Requests, NEW r \in Results, Return(q, r)
  PROVE  /\ request'[q] \in RequestType
         /\ request'[q].receiver = <<>> /\ ~request'[q].ack_received
         /\ request'[q].result = r /\ request'[q].at = "done"
         /\ request' \in [Requests -> RequestType]
         /\ \A p \in Requests \ {q} : request'[p] = request[p]
<1>1. request \in [Requests -> RequestType]
  BY DEF TruthOK, TypeOK, RequestType
<1> DEFINE e == [Fresh EXCEPT !.at = "done", !.result = r]
<1>2. Fresh \in RequestType
  BY FreshType
<1>3. e \in RequestType
  BY <1>2 DEF RequestType
<1>4. /\ e.receiver = <<>> /\ ~e.ack_received
      /\ e.result = r /\ e.at = "done"
  BY DEF Fresh
<1>5. request' = [request EXCEPT ![q] = e]
  BY DEF Return
<1> HIDE DEF e
<1> QED
  BY <1>1, <1>3, <1>4, <1>5

\* A poll of a request is a backed step, and touches no other request.
LEMMA PollStep ==
  ASSUME TruthOK, NEW q \in Requests, Poll(q) \/ SendFails(q)
  PROVE  /\ BackedStep(q) /\ UNCHANGED remoteVars
         /\ request' \in [Requests -> RequestType]
         /\ \A p \in Requests \ {q} : request'[p] = request[p]
<1>1. request \in [Requests -> RequestType]
  BY DEF TruthOK, TypeOK, RequestType
<1>2. request[q].receiver \in Seq(Frames)
  BY <1>1 DEF RequestType
<1>3. CASE ReceiveResponse(q)
  BY <1>1, <1>3, ExchangeAssumption DEF ReceiveResponse, BackedStep, RequestType
<1>4. ASSUME NEW r \in {"not sent", "no ack", "channel closed", "session closed"}, Return(q, r)
      PROVE  BackedStep(q)
  BY <1>4, ReturnStep, EmptyContents DEF BackedStep, Results
<1>5. ASSUME Return(q, TimeoutReason(q)) PROVE BackedStep(q)
  BY <1>5, ReturnStep, EmptyContents DEF BackedStep, Results, TimeoutReason
<1>6. ASSUME NEW r \in Results, Return(q, r)
      PROVE  /\ request' \in [Requests -> RequestType]
             /\ \A p \in Requests \ {q} : request'[p] = request[p]
  BY <1>6, ReturnStep
<1>7. TimeoutReason(q) \in Results
  BY DEF TimeoutReason, Results
<1>8. CASE LoopTop(q)
  <2>1. CASE request[q].time_left = 0
    BY <1>5, <1>6, <1>7, <1>8, <2>1 DEF LoopTop
  <2>2. CASE request[q].time_left # 0
    <3>1. request' = [request EXCEPT ![q].at = "recv"] /\ UNCHANGED remoteVars
      BY <1>8, <2>2 DEF LoopTop
    <3> QED
      BY <1>1, <3>1 DEF BackedStep, RequestType
  <2> QED
    BY <2>1, <2>2
<1>9. CASE TimesOut(q)
  BY <1>5, <1>6, <1>7, <1>9 DEF TimesOut
<1>10. CASE Lags(q)
  BY <1>4, <1>6, <1>10 DEF Lags, Results
<1>11. CASE SendFails(q)
  BY <1>4, <1>6, <1>11 DEF SendFails, Results
<1>12. CASE Receive(q)
  <2> DEFINE m == Head(request[q].receiver)
  <2>1. /\ m \in Range(request[q].receiver) /\ Tail(request[q].receiver) \in Seq(Frames)
        /\ Range(Tail(request[q].receiver)) \subseteq Range(request[q].receiver)
    BY <1>2, <1>12, TailContents DEF Receive
  <2>2. Handle(q, m) /\ UNCHANGED remoteVars
    BY <1>12 DEF Receive
  <2> HIDE DEF m
  <2>3. Again(q) \in RequestType /\ Again(q).receiver = Tail(request[q].receiver)
        /\ Again(q).ack_received = request[q].ack_received
        /\ Again(q).result = request[q].result /\ Again(q).at = "top"
    <3> DEFINE l == IF request[q].time_left = 0 THEN request[q].late + 1 ELSE request[q].late
    <3> DEFINE s == Tail(request[q].receiver)
    <3>1. l \in Nat /\ s \in Seq(Frames) /\ request[q] \in RequestType
      BY <1>1, <2>1 DEF RequestType
    <3>2. Again(q) = [request[q] EXCEPT !.at = "top", !.receiver = s, !.late = l]
      BY <3>1 DEF Again, RequestType
    <3> HIDE DEF l, s
    <3>3. Again(q) \in RequestType /\ Again(q).receiver = s
          /\ Again(q).ack_received = request[q].ack_received
          /\ Again(q).result = request[q].result /\ Again(q).at = "top"
      BY <3>1, <3>2 DEF RequestType
    <3> QED
      BY <3>3 DEF s
  <2>4. CASE m = Ack(q) /\ AcceptAck(q)
    BY <1>1, <2>1, <2>2, <2>3, <2>4, ExchangeAssumption DEF AcceptAck, BackedStep, RequestType
  <2>5. CASE m = Response(q) /\ Return(q, "ok")
    BY <1>6, <2>1, <2>2, <2>5, ReturnStep, EmptyContents DEF BackedStep, Results
  <2>6. CASE m = Failed(q) /\ Return(q, "failed")
    BY <1>6, <2>1, <2>2, <2>6, ReturnStep, EmptyContents DEF BackedStep, Results
  <2>7. CASE m = Closing /\ Return(q, "session closed")
    BY <1>4, <1>6, <2>2, <2>7 DEF Results
  <2>8. CASE m.id \notin {q, None} /\ request' = [request EXCEPT ![q] = Again(q)]
    BY <1>1, <2>1, <2>2, <2>3, <2>8 DEF BackedStep
  <2> QED
    BY <2>2, <2>4, <2>5, <2>6, <2>7, <2>8 DEF Handle
<1> QED
  BY <1>3, <1>8, <1>9, <1>10, <1>11, <1>12 DEF Poll

-----------------------------------------------------------------------------
(***************************************************************************)
(* What a step does to the responder's side.                               *)
(***************************************************************************)
\* The responder only goes forward: it does not take back that it accepted a
\* request, nor what its handler returned.
Progress ==
  \A q \in Requests :
    /\ handler[q] \notin {"none", "declined"} => handler'[q] \notin {"none", "declined"}
    /\ outcome[q] # None => outcome'[q] = outcome[q]

\* A frame that is true stays true.
LEMMA TruthStays ==
  ASSUME Progress, NEW m \in Frames, Truthful(m)
  PROVE  Truthful(m)'
<1>1. CASE m = Closing
  BY <1>1 DEF Closing, Truthful
<1>2. ASSUME NEW q \in Requests, m \in {Ack(q), Response(q), Failed(q)} PROVE Truthful(m)'
  <2>1. None \notin {"ok", "error"}
    BY ExchangeAssumption
  <2>2. CASE m = Ack(q)
    BY <2>2 DEF Ack, Truthful, Progress
  <2>3. CASE m = Response(q)
    BY <2>1, <2>3 DEF Response, Truthful, Progress
  <2>4. CASE m = Failed(q)
    BY <2>1, <2>4 DEF Failed, Truthful, Progress
  <2> QED
    BY <1>2, <2>2, <2>3, <2>4
<1> QED
  BY <1>1, <1>2 DEF Frames

\* The step of the responder that only sends the frame m.
LEMMA TransmitStep ==
  ASSUME TruthOK, NEW m \in Frames, Transmit(m)
  PROVE  wire' \in Seq(Frames) /\ Range(wire') \subseteq Range(wire) \cup {m}
<1>1. wire \in Seq(Frames)
  BY DEF TruthOK, TypeOK
<1> QED
  BY <1>1, AppendContents DEF Transmit

\* Every step of the model but the requester's own ones, as far as the
\* responder and the wire are concerned.
RemoteStep ==
  /\ Progress
  /\ handler' \in [Requests -> {"none", "declined", "ack", "running", "reply", "done"}]
  /\ outcome' \in [Requests -> {None, "ok", "error"}]
  /\ wire' \in Seq(Frames) /\ \A m \in Range(wire') : Truthful(m)'
  /\ \A q \in Requests : outcome'[q] = None <=> handler'[q] \notin {"reply", "done"}

\* The steps of a handler.
LEMMA ResponderStep ==
  ASSUME TruthOK, NEW q \in Requests, Responder(q)
  PROVE  /\ RemoteStep
         /\ \A p \in Requests : handler[p] = "none" <=> handler'[p] = "none"
<1> USE DEF TruthOK, TypeOK, SentOnce
<1>1. {Ack(q), Response(q), Failed(q)} \subseteq Frames
  BY DEF Frames
<1>2. \A m \in Range(wire) : m \in Frames /\ Truthful(m)
  BY RangeType
<1>3. ASSUME Progress, wire' \in Seq(Frames), NEW f, Truthful(f)',
             Range(wire') \subseteq Range(wire) \cup {f}
      PROVE  \A m \in Range(wire') : Truthful(m)'
  BY <1>2, <1>3, TruthStays
<1>4. CASE SendAck(q)
  <2>1. Progress
    BY <1>4, ExchangeAssumption DEF SendAck, Progress
  <2>2. Truthful(Ack(q))'
    BY <1>4 DEF SendAck, Truthful, Ack
  <2>3. wire' \in Seq(Frames) /\ Range(wire') \subseteq Range(wire) \cup {Ack(q)}
    BY <1>1, <1>4, TransmitStep DEF SendAck
  <2> QED
    BY <1>3, <1>4, <2>1, <2>2, <2>3 DEF SendAck, RemoteStep
<1>5. CASE Reply(q)
  <2>1. Progress
    BY <1>5, ExchangeAssumption DEF Reply, Progress
  <2>2. outcome[q] \in {"ok", "error"} /\ UNCHANGED outcome
    BY <1>5 DEF Reply
  <2>3. PICK f \in Frames : f = IF outcome[q] = "ok" THEN Response(q) ELSE Failed(q)
    BY <1>1
  <2>4. Transmit(f) /\ Truthful(f)'
    BY <1>5, <2>2, <2>3 DEF Reply, Truthful, Response, Failed
  <2>5. wire' \in Seq(Frames) /\ Range(wire') \subseteq Range(wire) \cup {f}
    BY <2>4, TransmitStep
  <2>6. \A m \in Range(wire') : Truthful(m)'
    BY <1>3, <2>1, <2>4, <2>5
  <2>7. handler[q] = "reply" /\ handler' = [handler EXCEPT ![q] = "done"]
    BY <1>5 DEF Reply
  <2> QED
    BY <2>1, <2>2, <2>5, <2>6, <2>7, ExchangeAssumption DEF RemoteStep
<1>6. CASE RepeatAck(q)
  <2>1. Progress
    BY <1>6 DEF RepeatAck, Progress
  <2>2. Truthful(Ack(q))'
    BY <1>6 DEF RepeatAck, Truthful, Ack
  <2>3. wire' \in Seq(Frames) /\ Range(wire') \subseteq Range(wire) \cup {Ack(q)}
    BY <1>1, <1>6, TransmitStep DEF RepeatAck
  <2> QED
    BY <1>3, <1>6, <2>1, <2>2, <2>3 DEF RepeatAck, RemoteStep
<1>7. ASSUME NEW o \in {"ok", "error"}, HandlerReturns(q, o)
      PROVE  /\ RemoteStep
             /\ \A p \in Requests : handler[p] = "none" <=> handler'[p] = "none"
  <2>1. outcome[q] = None
    BY <1>7 DEF HandlerReturns
  <2>2. Progress
    BY <1>7, <2>1 DEF HandlerReturns, Progress
  <2>3. \A m \in Range(wire') : Truthful(m)'
    BY <1>2, <1>7, <2>2, TruthStays DEF HandlerReturns
  <2> QED
    BY <1>7, <2>2, <2>3, ExchangeAssumption DEF HandlerReturns, RemoteStep
<1> QED
  BY <1>4, <1>5, <1>6, <1>7 DEF Responder

\* A step that leaves the handlers alone and puts nothing untrue on the wire.
LEMMA QuietStep ==
  ASSUME TruthOK, UNCHANGED <<handler, outcome>>, wire' \in Seq(Frames),
         Range(wire') \subseteq Range(wire) \cup {Closing}
  PROVE  RemoteStep
<1> USE DEF TruthOK, TypeOK, SentOnce
<1>1. Progress
  BY DEF Progress
<1>2. \A m \in Range(wire) : m \in Frames /\ Truthful(m)
  BY RangeType
<1>3. Closing \in Frames /\ Truthful(Closing)
  BY DEF Frames, Closing, Truthful
<1>4. \A m \in Range(wire') : Truthful(m)'
  BY <1>1, <1>2, <1>3, TruthStays
<1> QED
  BY <1>1, <1>4 DEF RemoteStep

\* The first frame is dispatched; its request had not been.
LEMMA DispatchStep ==
  ASSUME TruthOK, Dispatch
  PROVE  /\ RemoteStep
         /\ \A p \in Requests : handler[p] = "none" /\ p # Head(outgoing) => handler'[p] = "none"
<1> USE DEF TruthOK, TypeOK, SentOnce
<1> DEFINE q == Head(outgoing)
<1>1. q \in Requests /\ handler[q] = "none"
  BY TailContents DEF Dispatch
<1>2. \E h \in {"ack", "declined"} : handler' = [handler EXCEPT ![q] = h]
  BY DEF Dispatch
<1>3. UNCHANGED <<wire, outcome>>
  BY DEF Dispatch
<1> HIDE DEF q
<1>4. Progress
  BY <1>1, <1>2, <1>3 DEF Progress
<1>5. \A m \in Range(wire) : m \in Frames /\ Truthful(m)
  BY RangeType
<1>6. \A m \in Range(wire') : Truthful(m)'
  BY <1>3, <1>4, <1>5, TruthStays
<1>7. RemoteStep
  BY <1>1, <1>2, <1>3, <1>4, <1>6 DEF RemoteStep
<1> QED
  BY <1>1, <1>2, <1>7 DEF q

-----------------------------------------------------------------------------
(***************************************************************************)
(* The two sides together.                                                 *)
(***************************************************************************)
\* The parts of TruthOK that are about what a request believes.
Believed ==
  /\ AnswersMatch
  /\ \A q \in Requests :
       /\ \A m \in Range(request[q].receiver) : Truthful(m)
       /\ request[q].ack_received => handler[q] \notin {"none", "declined"}

\* Backed steps believe nothing that is not true.
LEMMA BelievedStep ==
  ASSUME TruthOK, RemoteStep, \A q \in Requests : BackedStep(q)
  PROVE  Believed'
<1>1. SUFFICES ASSUME NEW q \in Requests
               PROVE  /\ request'[q].result = "ok" => outcome'[q] = "ok"
                      /\ request'[q].result = "failed" => outcome'[q] = "error"
                      /\ request'[q].result = "no response" =>
                           handler'[q] \notin {"none", "declined"}
                      /\ \A m \in Range(request'[q].receiver) : Truthful(m)'
                      /\ request'[q].ack_received => handler'[q] \notin {"none", "declined"}
  BY DEF Believed, AnswersMatch
<1>2. request[q].receiver \in Seq(Frames) /\ wire \in Seq(Frames)
  BY DEF TruthOK, TypeOK
<1>3. \A m \in Range(request[q].receiver) \cup Range(wire) : m \in Frames /\ Truthful(m)
  BY <1>2, RangeType DEF TruthOK
<1>4. \A m \in Range(request[q].receiver) \cup Range(wire) : Truthful(m)'
  BY <1>3, TruthStays DEF RemoteStep
<1>5. /\ Ack(q) \in Range(request[q].receiver) => handler'[q] \notin {"none", "declined"}
      /\ Response(q) \in Range(request[q].receiver) => outcome'[q] = "ok"
      /\ Failed(q) \in Range(request[q].receiver) => outcome'[q] = "error"
  BY <1>4 DEF Truthful, Ack, Response, Failed
<1>6. request[q].ack_received => handler'[q] \notin {"none", "declined"}
  BY DEF TruthOK, RemoteStep, Progress
<1>7. /\ request[q].result = "ok" => outcome'[q] = "ok"
      /\ request[q].result = "failed" => outcome'[q] = "error"
      /\ request[q].result = "no response" => handler'[q] \notin {"none", "declined"}
  BY ExchangeAssumption DEF TruthOK, AnswersMatch, RemoteStep, Progress
<1> QED
  BY <1>4, <1>5, <1>6, <1>7 DEF BackedStep

\* A request that a step does not touch.
LEMMA UntouchedBacked ==
  ASSUME TruthOK, NEW q \in Requests, request'[q] = request[q]
  PROVE  BackedStep(q)
BY DEF BackedStep, TruthOK, TypeOK, RequestType

\* TruthOK from its parts.
LEMMA PartsMakeTruth ==
  ASSUME TruthOK, RemoteStep, \A q \in Requests : BackedStep(q), SentOnce',
         request' \in [Requests -> RequestType],
         elapsed' \in [Requests -> Nat], answered' \in [Requests -> {None, "response", "failed", "close"}],
         outgoing' \in Seq(Requests), peer_closed' \in BOOLEAN, link' \in {"up", "closing", "down"}
  PROVE  TruthOK'
<1>1. Believed'
  BY BelievedStep
<1>2. TypeOK'
  BY DEF TypeOK, RequestType, RemoteStep
<1> QED
  BY <1>1, <1>2 DEF TruthOK, Believed, RemoteStep

\* SentOnce is kept when no frame is sent and no frame dispatched.
LEMMA SentOnceStays ==
  ASSUME TruthOK, RemoteStep, \A q \in Requests : BackedStep(q),
         outgoing' = outgoing \/ outgoing' = <<>>,
         \A q \in Requests : handler[q] = "none" => handler'[q] = "none"
  PROVE  SentOnce'
<1>1. outgoing' \in Seq(Requests) /\ Range(outgoing') \subseteq Range(outgoing)
  <2>1. outgoing \in Seq(Requests) /\ <<>> \in Seq(Requests)
    BY DEF TruthOK, TypeOK
  <2>2. CASE outgoing' = outgoing
    BY <2>1, <2>2
  <2>3. CASE outgoing' = <<>>
    BY <2>1, <2>3, EmptyContents
  <2> QED
    BY <2>2, <2>3
<1>2. IsInjective(outgoing')
  BY EmptyContents DEF TruthOK, SentOnce
<1>3. \A q \in Range(outgoing') : q \in Requests /\ handler'[q] = "none" /\ request'[q].at # "new"
  BY <1>1, RangeType DEF TruthOK, SentOnce, At, BackedStep
<1>4. \A q \in Requests : request'[q].at = "new" => handler'[q] = "none"
  BY DEF TruthOK, SentOnce, At, BackedStep
<1> QED
  BY <1>2, <1>3, <1>4 DEF SentOnce, At, RemoteStep

\* Every step keeps the invariant.
LEMMA NextKeepsTruth == TruthOK /\ [Next]_vars => TruthOK'
<1> SUFFICES ASSUME TruthOK, [Next]_vars PROVE TruthOK'
  OBVIOUS
<1> USE DEF TruthOK, history, remoteVars
<1>t. /\ request \in [Requests -> RequestType] /\ outgoing \in Seq(Requests)
      /\ wire \in Seq(Frames) /\ TypeOK
  BY DEF TypeOK, RequestType
<1>1. ASSUME NEW q \in Requests, Poll(q) \/ SendFails(q) PROVE TruthOK'
  <2>1. /\ BackedStep(q) /\ UNCHANGED remoteVars /\ request' \in [Requests -> RequestType]
        /\ \A p \in Requests \ {q} : request'[p] = request[p]
    BY <1>1, PollStep
  <2>2. \A p \in Requests : BackedStep(p)
    BY <2>1, UntouchedBacked
  <2>3. RemoteStep
    BY <1>t, <2>1, QuietStep
  <2>4. UNCHANGED history
    BY <1>1 DEF Poll, ReceiveResponse, LoopTop, TimesOut, Lags, Receive, SendFails
  <2>5. SentOnce'
    BY <2>1, <2>2, <2>3, SentOnceStays
  <2> QED
    BY <1>t, <2>1, <2>2, <2>3, <2>4, <2>5, PartsMakeTruth DEF TypeOK
<1>2. ASSUME NEW q \in Requests, Send(q) PROVE TruthOK'
  <2>1. /\ request' = [request EXCEPT ![q].at = "sending"] /\ outgoing' = Append(outgoing, q)
        /\ request[q].at = "new" /\ UNCHANGED <<history, wire, handler, outcome, peer_closed, link>>
    BY <1>2 DEF Send, At
  <2>2. request' \in [Requests -> RequestType] /\ \A p \in Requests : BackedStep(p)
    <3>1. BackedStep(q) /\ request' \in [Requests -> RequestType]
      BY <1>t, <2>1 DEF BackedStep, RequestType
    <3>2. \A p \in Requests \ {q} : request'[p] = request[p]
      BY <1>t, <2>1
    <3> QED
      BY <3>1, <3>2, UntouchedBacked
  <2>3. RemoteStep
    BY <1>t, <2>1, QuietStep
  <2>4. q \notin Range(outgoing) /\ handler[q] = "none"
    BY <2>1 DEF SentOnce, At
  <2>5. /\ outgoing' \in Seq(Requests) /\ Range(outgoing') = Range(outgoing) \cup {q}
        /\ IsInjective(outgoing')
    BY <1>t, <2>1, <2>4, AppendContents DEF SentOnce
  <2>6. \A p \in Requests : request'[p].at = "new" => request[p].at = "new" /\ p # q
    BY <1>t, <2>1
  <2>7. SentOnce'
    <3>1. \A p \in Range(outgoing') : handler'[p] = "none" /\ request'[p].at # "new"
      BY <1>t, <2>1, <2>4, <2>5, <2>6, RangeType DEF SentOnce, At
    <3>2. \A p \in Requests : request'[p].at = "new" => handler'[p] = "none"
      BY <2>1, <2>6 DEF SentOnce, At
    <3> QED
      BY <2>3, <2>5, <3>1, <3>2 DEF SentOnce, At, RemoteStep
  <2> QED
    BY <1>t, <2>1, <2>2, <2>3, <2>5, <2>7, PartsMakeTruth DEF TypeOK
<1>3. ASSUME NEW q \in Requests, Responder(q) PROVE TruthOK'
  <2>1. RemoteStep /\ \A p \in Requests : handler[p] = "none" => handler'[p] = "none"
    BY <1>3, ResponderStep
  <2>2. UNCHANGED <<request, history, outgoing, peer_closed, link>>
    BY <1>3 DEF Responder, SendAck, Reply, RepeatAck, HandlerReturns
  <2>3. \A p \in Requests : BackedStep(p)
    BY <2>2, UntouchedBacked
  <2>4. SentOnce'
    BY <2>1, <2>2, <2>3, SentOnceStays
  <2> QED
    BY <1>t, <2>1, <2>2, <2>3, <2>4, PartsMakeTruth DEF TypeOK
<1>4. CASE HandleFrame
  <2> DEFINE m == Head(wire)
  <2>1. m \in Frames /\ m \in Range(wire) /\ Tail(wire) \in Seq(Frames)
        /\ Range(Tail(wire)) \subseteq Range(wire)
    BY <1>t, <1>4, TailContents DEF HandleFrame
  <2>2. /\ request' = [q \in Requests |->
             IF Subscribed(q) THEN Deliver(request[q], m) ELSE request[q]]
        /\ peer_closed' \in BOOLEAN
        /\ wire' = Tail(wire) /\ UNCHANGED <<elapsed, outgoing, handler, outcome, link>>
    BY <1>t, <1>4 DEF HandleFrame, TypeOK
  <2>7. answered' \in [Requests -> {None, "response", "failed", "close"}]
    <3>1. \A q \in Requests :
            m \in {Response(q), Failed(q), Closing} => m.type \in {"response", "failed", "close"}
      BY DEF Response, Failed, Closing
    <3>2. answered \in [Requests -> {None, "response", "failed", "close"}]
      BY DEF TypeOK
    <3> QED
      BY <1>4, <3>1, <3>2 DEF HandleFrame
  <2> HIDE DEF m
  <2>3. ASSUME NEW q \in Requests PROVE BackedStep(q) /\ request'[q] \in RequestType
    <3>1. CASE Subscribed(q)
      <4>1. request[q] \in RequestType /\ request'[q] = Deliver(request[q], m)
        BY <1>t, <2>2, <3>1
      <4> DEFINE d == Deliver(request[q], m)
      <4>2. /\ d \in RequestType /\ Range(d.receiver) \subseteq Range(request[q].receiver) \cup {m}
            /\ d.result = request[q].result /\ d.ack_received = request[q].ack_received
            /\ d.at = request[q].at
        BY <2>1, <4>1, DeliverContents
      <4> HIDE DEF d
      <4>3. request'[q] = d
        BY <4>1 DEF d
      <4> QED
        BY <2>1, <4>2, <4>3 DEF BackedStep
    <3>2. CASE ~Subscribed(q)
      <4>1. request'[q] = request[q]
        BY <2>2, <3>2
      <4> QED
        BY <1>t, <4>1, UntouchedBacked
    <3> QED
      BY <3>1, <3>2
  <2>4. request' \in [Requests -> RequestType]
    <3>1. request' = [q \in Requests |-> request'[q]]
      BY <2>2, Zenon
    <3> QED
      BY <2>3, <3>1
  <2>5. RemoteStep
    BY <2>1, <2>2, QuietStep
  <2>6. SentOnce'
    BY <2>2, <2>3, <2>5, SentOnceStays
  <2> QED
    BY <1>t, <2>7, <2>2, <2>3, <2>4, <2>5, <2>6, PartsMakeTruth DEF TypeOK
<1>5. CASE Dispatch
  <2> DEFINE q == Head(outgoing)
  <2>1. /\ RemoteStep
        /\ \A p \in Requests : handler[p] = "none" /\ p # q => handler'[p] = "none"
    BY <1>5, DispatchStep
  <2>2. /\ outgoing' = Tail(outgoing) /\ outgoing # <<>>
        /\ UNCHANGED <<request, history, wire, outcome, peer_closed, link>>
    BY <1>5 DEF Dispatch
  <2>3. /\ q \in Requests /\ q \in Range(outgoing) /\ outgoing' \in Seq(Requests)
        /\ Range(outgoing') \subseteq Range(outgoing)
        /\ IsInjective(outgoing') /\ q \notin Range(outgoing')
    BY <1>t, <2>2, TailContents DEF SentOnce
  <2> HIDE DEF q
  <2>4. \A p \in Requests : BackedStep(p)
    BY <2>2, UntouchedBacked
  <2>5. SentOnce'
    <3>1. \A p \in Range(outgoing') : handler'[p] = "none" /\ request'[p].at # "new"
      BY <1>t, <2>1, <2>2, <2>3, RangeType DEF SentOnce, At
    <3>2. \A p \in Requests : request'[p].at = "new" => handler'[p] = "none"
      BY <2>1, <2>2, <2>3 DEF SentOnce, At
    <3> QED
      BY <2>1, <2>3, <3>1, <3>2 DEF SentOnce, At, RemoteStep
  <2> QED
    BY <1>t, <2>1, <2>2, <2>3, <2>4, <2>5, PartsMakeTruth DEF TypeOK
<1>6. CASE PeerCloses \/ LinkFails \/ UNCHANGED vars
  <2>1. /\ UNCHANGED <<request, history, handler, outcome, peer_closed>>
        /\ link' \in {"up", "closing", "down"}
        /\ outgoing' = outgoing \/ outgoing' = <<>>
    BY <1>6 DEF PeerCloses, LinkFails, vars, TypeOK
  <2>2. wire' \in Seq(Frames) /\ Range(wire') \subseteq Range(wire) \cup {Closing}
    <3>1. CASE PeerCloses
      BY <3>1, TransmitStep DEF PeerCloses, Frames
    <3>2. CASE LinkFails
      BY <3>2, EmptyContents DEF LinkFails
    <3>3. CASE UNCHANGED vars
      BY <1>t, <3>3 DEF vars
    <3> QED
      BY <1>6, <3>1, <3>2, <3>3
  <2>3. RemoteStep /\ \A p \in Requests : BackedStep(p)
    BY <2>1, <2>2, QuietStep, UntouchedBacked
  <2>4. SentOnce'
    BY <2>1, <2>3, SentOnceStays
  <2>5. outgoing' \in Seq(Requests)
    <3>1. <<>> \in Seq(Requests)
      OBVIOUS
    <3> QED
      BY <1>t, <2>1, <3>1
  <2> QED
    BY <1>t, <2>1, <2>3, <2>4, <2>5, PartsMakeTruth DEF TypeOK
<1>7. CASE Tick
  <2>1. /\ request' = [q \in Requests |->
             IF request[q].time_left = 0 THEN request[q]
             ELSE [request[q] EXCEPT !.time_left = @ - 1]]
        /\ UNCHANGED <<answered, remoteVars>>
    BY <1>7 DEF Tick
  <2>2. elapsed' \in [Requests -> Nat]
    BY <1>7 DEF Tick, TypeOK
  <2>3. request' \in [Requests -> RequestType] /\ \A q \in Requests : BackedStep(q)
    <3>1. ASSUME NEW q \in Requests
          PROVE  /\ request'[q] \in RequestType /\ request'[q].receiver = request[q].receiver
                 /\ request'[q].result = request[q].result /\ request'[q].at = request[q].at
                 /\ request'[q].ack_received = request[q].ack_received
      <4>1. request[q] \in RequestType
        BY <1>t
      <4>2. CASE request[q].time_left = 0
        BY <2>1, <4>1, <4>2
      <4>3. CASE request[q].time_left # 0
        <5>1. request'[q] = [request[q] EXCEPT !.time_left = @ - 1]
          BY <2>1, <4>3
        <5> QED
          BY <4>1, <4>3, <5>1 DEF RequestType
      <4> QED
        BY <4>2, <4>3
    <3>2. request' = [q \in Requests |-> request'[q]]
      BY <2>1, Zenon
    <3> QED
      BY <3>1, <3>2 DEF BackedStep
  <2>4. RemoteStep
    BY <1>t, <2>1, QuietStep
  <2>5. SentOnce'
    BY <2>1, <2>3, <2>4, SentOnceStays
  <2> QED
    BY <1>t, <2>1, <2>2, <2>3, <2>4, <2>5, PartsMakeTruth DEF TypeOK
<1> QED
  BY <1>1, <1>2, <1>3, <1>4, <1>5, <1>6, <1>7 DEF Next

\* Nothing has been sent at first.
LEMMA InitTruth == Init => TruthOK
<1> SUFFICES ASSUME Init PROVE TruthOK
  OBVIOUS
<1>1. TypeOK
  <2>1. request \in [Requests -> RequestType]
    BY FreshType DEF Init
  <2>2. <<>> \in Seq(Requests) /\ <<>> \in Seq(Frames)
    OBVIOUS
  <2> QED
    BY <2>1, <2>2 DEF Init, TypeOK, RequestType
<1>2. AnswersMatch /\ SentOnce
  <2>1. AnswersMatch
    BY ExchangeAssumption DEF Init, AnswersMatch, Fresh
  <2>2. Range(outgoing) = {} /\ IsInjective(outgoing)
    BY EmptyContents DEF Init
  <2> QED
    BY <2>1, <2>2 DEF Init, SentOnce
<1>3. \A q \in Requests : Range(request[q].receiver) = {} /\ ~request[q].ack_received
  BY EmptyContents DEF Init, Fresh
<1> QED
  BY <1>1, <1>2, <1>3, EmptyContents DEF Init, TruthOK

-----------------------------------------------------------------------------
(***************************************************************************)
(* Deadlines: what a step does to the clock of one request, and to the     *)
(* answer that was broadcast to it in time.                                *)
(***************************************************************************)
ClockOK(q) ==
  /\ request[q].at # "done" => request[q].result = None
  /\ request[q].at \in {"new", "sending"} =>
       elapsed[q] = 0 /\ ~request[q].ack_received /\ request[q].late = 0
  /\ Waiting(q) =>
       /\ Prompt => elapsed[q] + request[q].time_left
                      <= AckTimeout + (IF request[q].ack_received THEN ResponseTimeout ELSE 0)
       /\ \/ request[q].late = 0
          \/ request[q].late = 1 /\ request[q].at = "top" /\ request[q].time_left = 0

AnswerOK(q) ==
  /\ request[q].at = "new" => answered[q] = None
  /\ Timely /\ request[q].result \in {"no ack", "no response"} => answered[q] = None
  /\ Subscribed(q) /\ answered[q] # None =>
       /\ request[q].receiver # <<>>
       /\ request[q].lagged \/ Range(request[q].receiver) \cap Ends(q) # {}
       /\ Timely /\ Waiting(q) => request[q].time_left > 0

LEMMA Parts == (WaitOK <=> \A q \in Requests : ClockOK(q)) /\ (KeptOK <=> \A q \in Requests : AnswerOK(q))
BY DEF WaitOK, KeptOK, ClockOK, AnswerOK, At

LEMMA PartsNext == (WaitOK' <=> \A q \in Requests : ClockOK(q)') /\ (KeptOK' <=> \A q \in Requests : AnswerOK(q)')
BY DEF WaitOK, KeptOK, ClockOK, AnswerOK, At

\* A request that the step leaves alone.
LEMMA UntouchedTimely ==
  ASSUME NEW q \in Requests, ClockOK(q), AnswerOK(q), request'[q] = request[q],
         elapsed'[q] = elapsed[q], answered'[q] = answered[q]
  PROVE  ClockOK(q)' /\ AnswerOK(q)'
BY DEF ClockOK, AnswerOK, Waiting, Subscribed, At, Ends

\* A request that ends: with a timeout only if no answer came in time.
LEMMA ReturnTimely ==
  ASSUME TruthOK, NEW q \in Requests, NEW r \in Results, Return(q, r), UNCHANGED history,
         r \in {"no ack", "no response"} /\ Timely => answered[q] = None
  PROVE  ClockOK(q)' /\ AnswerOK(q)'
<1>1. request'[q].result = r /\ request'[q].at = "done"
  BY ReturnStep
<1> QED
  BY <1>1 DEF ClockOK, AnswerOK, Waiting, Subscribed, At, history

\* A poll.
LEMMA PollTimely ==
  ASSUME TruthOK, NEW q \in Requests, ClockOK(q), AnswerOK(q), Poll(q) \/ SendFails(q)
  PROVE  ClockOK(q)' /\ AnswerOK(q)'
<1>t. request \in [Requests -> RequestType] /\ request[q] \in RequestType /\ elapsed[q] \in Nat
  BY DEF TruthOK, TypeOK, RequestType
<1>n. {AckTimeout, ResponseTimeout} \subseteq Nat
  BY ExchangeAssumption
<1>0. UNCHANGED history
  BY DEF Poll, ReceiveResponse, LoopTop, TimesOut, Lags, Receive, SendFails
<1>1. CASE SendFails(q)
  BY <1>0, <1>1, ReturnTimely DEF SendFails, Results
<1>2. CASE ReceiveResponse(q)
  <2>1. /\ request[q].at = "sending" /\ request'[q].at = "top" /\ request'[q].time_left = AckTimeout
        /\ request'[q].result = request[q].result /\ request'[q].receiver = request[q].receiver
        /\ request'[q].lagged = request[q].lagged /\ request'[q].late = request[q].late
        /\ request'[q].ack_received = request[q].ack_received
    BY <1>t, <1>2 DEF ReceiveResponse, At, RequestType
  <2>2. ClockOK(q)'
    BY <1>0, <1>n, <2>1 DEF ClockOK, Waiting, history
  <2>3. AnswerOK(q)'
    BY <1>0, <1>n, <2>1 DEF AnswerOK, Subscribed, Waiting, At, Timely, Ends, history
  <2> QED
    BY <2>2, <2>3
<1>3. CASE LoopTop(q) /\ request[q].time_left # 0
  <2>1. /\ request[q].at = "top" /\ request'[q].at = "recv" /\ request'[q].time_left = request[q].time_left
        /\ request'[q].result = request[q].result /\ request'[q].receiver = request[q].receiver
        /\ request'[q].lagged = request[q].lagged /\ request'[q].late = request[q].late
        /\ request'[q].ack_received = request[q].ack_received
    BY <1>t, <1>3 DEF LoopTop, At, RequestType
  <2>2. ClockOK(q)'
    BY <1>0, <1>3, <2>1 DEF ClockOK, Waiting, history
  <2>3. AnswerOK(q)'
    BY <1>0, <2>1 DEF AnswerOK, Subscribed, Waiting, At, Timely, Ends, history
  <2> QED
    BY <2>2, <2>3
<1>4. CASE (LoopTop(q) /\ request[q].time_left = 0) \/ TimesOut(q)
  <2>1. Return(q, TimeoutReason(q)) /\ Waiting(q) /\ request[q].time_left = 0
    BY <1>4 DEF LoopTop, TimesOut, Waiting, At
  <2>2. Timely => answered[q] = None
    <3>1. ~(request[q].time_left > 0) /\ Waiting(q)
      BY <2>1
    <3> QED
      BY <3>1 DEF AnswerOK, Subscribed, Waiting
  <2>3. TimeoutReason(q) \in Results
    BY DEF TimeoutReason, Results
  <2> QED
    BY <1>0, <2>1, <2>2, <2>3, ReturnTimely
<1>5. CASE Lags(q)
  BY <1>0, <1>5, ReturnTimely DEF Lags, Results
<1>6. CASE Receive(q)
  <2> DEFINE m == Head(request[q].receiver)
             s == Tail(request[q].receiver)
             l == IF request[q].time_left = 0 THEN request[q].late + 1 ELSE request[q].late
  <2>1. request[q].at = "recv" /\ ~request[q].lagged /\ request[q].receiver # <<>> /\ Handle(q, m)
    BY <1>6 DEF Receive, At
  <2>2. request[q].receiver \in Seq(Frames)
    BY <1>t DEF RequestType
  <2>3. s \in Seq(Frames) /\ Range(request[q].receiver) \subseteq Range(s) \cup {m}
    BY <2>1, <2>2, TailContents
  <2>4. l \in Nat /\ request[q].late = 0 /\ (l # 0 => l = 1 /\ request[q].time_left = 0)
    BY <1>t, <2>1 DEF RequestType, ClockOK, Waiting
  <2>5. Again(q) = [request[q] EXCEPT !.at = "top", !.receiver = s, !.late = l]
    BY <1>t DEF Again, RequestType
  <2> HIDE DEF m, s, l
  <2>6. \A u \in Results : u \in {"ok", "failed", "session closed"} /\ Return(q, u) => ClockOK(q)' /\ AnswerOK(q)'
    BY <1>0, ReturnTimely
  <2>7. ASSUME m \notin Ends(q), request'[q].at = "top", request'[q].receiver = s,
               request'[q].result = request[q].result, request'[q].lagged = request[q].lagged,
               \/ /\ request'[q].late = l /\ request'[q].time_left = request[q].time_left
                  /\ request'[q].ack_received = request[q].ack_received
               \/ /\ request'[q].late = 0 /\ request'[q].time_left = ResponseTimeout
                  /\ ~request[q].ack_received /\ request'[q].ack_received
        PROVE  ClockOK(q)' /\ AnswerOK(q)'
    <3>1. request[q].time_left \in Nat /\ request[q].ack_received \in BOOLEAN
      BY <1>t DEF RequestType
    <3>2. ClockOK(q)'
      BY <1>0, <1>t, <1>n, <2>1, <2>4, <2>7, <3>1 DEF ClockOK, Waiting, history
    <3>3. answered[q] # None => Range(s) \cap Ends(q) # {}
      BY <2>1, <2>3, <2>7 DEF AnswerOK, Subscribed, Waiting
    <3>4. answered[q] # None => s # <<>>
      BY <3>3, EmptyContents
    <3>5. Timely /\ answered[q] # None => request'[q].time_left > 0
      BY <1>n, <2>1, <2>7 DEF AnswerOK, Subscribed, Waiting, Timely
    <3>6. AnswerOK(q)'
      BY <1>0, <2>7, <3>3, <3>4, <3>5 DEF AnswerOK, Subscribed, Waiting, At, Timely, Ends, history
    <3> QED
      BY <3>2, <3>6
  <2>8. CASE m = Ack(q) /\ AcceptAck(q)
    <3>1. m \notin Ends(q)
      BY <2>8 DEF Ends, Ack, Response, Failed, Closing
    <3>2. CASE request[q].ack_received
      <4>1. request'[q] = Again(q)
        BY <1>t, <2>8, <3>2 DEF AcceptAck
      <4> QED
        BY <1>t, <2>5, <2>7, <3>1, <4>1 DEF RequestType
    <3>3. CASE ~request[q].ack_received
      <4>1. request'[q] = [Again(q) EXCEPT !.ack_received = TRUE, !.time_left = ResponseTimeout, !.late = 0]
        BY <1>t, <2>8, <3>3 DEF AcceptAck
      <4> QED
        BY <1>t, <2>5, <2>7, <3>1, <3>3, <4>1 DEF RequestType
    <3> QED
      BY <3>2, <3>3
  <2>9. CASE m.id \notin {q, None} /\ request' = [request EXCEPT ![q] = Again(q)]
    <3>1. m \notin Ends(q)
      BY <2>9 DEF Ends, Response, Failed, Closing
    <3>2. request'[q] = Again(q)
      BY <1>t, <2>9
    <3> QED
      BY <1>t, <2>5, <2>7, <3>1, <3>2 DEF RequestType
  <2> QED
    BY <2>1, <2>6, <2>8, <2>9 DEF Handle, Results
<1> QED
  BY <1>1, <1>2, <1>3, <1>4, <1>5, <1>6 DEF Poll

\* A broadcast: the frame that ends the wait is the newest in the receiver.
LEMMA BroadcastTimely ==
  ASSUME TruthOK, NEW q \in Requests, ClockOK(q), AnswerOK(q), HandleFrame
  PROVE  ClockOK(q)' /\ AnswerOK(q)'
<1> DEFINE m == Head(wire)
<1>t. request[q] \in RequestType /\ wire \in Seq(Frames) /\ answered \in [Requests -> {None, "response", "failed", "close"}]
  BY DEF TruthOK, TypeOK, RequestType
<1>1. m \in Frames
  BY <1>t, TailContents DEF HandleFrame
<1>2. /\ request'[q] = IF Subscribed(q) THEN Deliver(request[q], m) ELSE request[q]
      /\ elapsed' = elapsed
      /\ answered'[q] = answered[q] \/ (m \in Ends(q) /\ (request[q].at = "sending" \/ (Waiting(q) /\ request[q].time_left > 0)))
  BY DEF HandleFrame, Ends, At
<1> HIDE DEF m
<1>3. CASE ~Subscribed(q)
  BY <1>2, <1>3, UntouchedTimely DEF Subscribed, At
<1>4. CASE Subscribed(q)
  <2> DEFINE d == Deliver(request[q], m)
  <2>1. /\ d.at = request[q].at /\ d.result = request[q].result /\ d.ack_received = request[q].ack_received
        /\ d.time_left = request[q].time_left /\ d.late = request[q].late
        /\ d.receiver # <<>> /\ m \in Range(d.receiver)
        /\ d.lagged \/ (d.lagged = request[q].lagged /\ Range(request[q].receiver) \subseteq Range(d.receiver))
    BY <1>t, <1>1, DeliverContents
  <2>2. request'[q] = d
    BY <1>2, <1>4
  <2> HIDE DEF d
  <2>3. ClockOK(q)'
    BY <1>2, <2>1, <2>2 DEF ClockOK, Waiting
  <2>4. request[q].at # "new" /\ request[q].result = None
    BY <1>4 DEF ClockOK, Subscribed, Waiting, At
  <2>5. None \notin {"no ack", "no response"}
    BY ExchangeAssumption
  <2>6. AnswerOK(q)'
    BY <1>2, <1>4, <2>1, <2>2, <2>4, <2>5 DEF AnswerOK, Subscribed, Waiting, At, Timely, Ends
  <2> QED
    BY <2>3, <2>6
<1> QED
  BY <1>3, <1>4

\* Time goes on only while a request that is polled promptly has nothing to do.
LEMMA TickTimely ==
  ASSUME TruthOK, NEW q \in Requests, ClockOK(q), AnswerOK(q), Tick
  PROVE  ClockOK(q)' /\ AnswerOK(q)'
<1>t. request[q] \in RequestType /\ elapsed[q] \in Nat
  BY DEF TruthOK, TypeOK, RequestType
<1>n. {AckTimeout, ResponseTimeout} \subseteq Nat
  BY ExchangeAssumption
<1>1. /\ request'[q] = IF request[q].time_left = 0 THEN request[q] ELSE [request[q] EXCEPT !.time_left = @ - 1]
      /\ elapsed'[q] = IF Waiting(q) /\ elapsed[q] <= AckTimeout + ResponseTimeout THEN elapsed[q] + 1 ELSE elapsed[q]
      /\ answered' = answered
      /\ Prompt => ~Ready(q)
  BY DEF Tick
<1>2. /\ request'[q].at = request[q].at /\ request'[q].result = request[q].result
      /\ request'[q].ack_received = request[q].ack_received /\ request'[q].receiver = request[q].receiver
      /\ request'[q].lagged = request[q].lagged /\ request'[q].late = request[q].late
      /\ request[q].time_left \in Nat
      /\ request'[q].time_left = IF request[q].time_left = 0 THEN 0 ELSE request[q].time_left - 1
  BY <1>t, <1>1 DEF RequestType
<1>3. Prompt /\ Waiting(q) => request[q].time_left > 0 /\ request[q].receiver = <<>>
  BY <1>1, <1>2 DEF Ready, Waiting, At
<1>4. ClockOK(q)'
  BY <1>t, <1>n, <1>1, <1>2, <1>3 DEF ClockOK, Waiting
<1>5. AnswerOK(q)'
  BY <1>1, <1>2, <1>3 DEF AnswerOK, Subscribed, Waiting, At, Timely, Ends
<1> QED
  BY <1>4, <1>5

LEMMA NextKeepsTime == Inv /\ [Next]_vars => WaitOK' /\ KeptOK'
<1> SUFFICES ASSUME Inv, [Next]_vars, NEW q \in Requests
             PROVE  ClockOK(q)' /\ AnswerOK(q)'
  BY PartsNext
<1>0. TruthOK /\ ClockOK(q) /\ AnswerOK(q)
  BY Parts DEF Inv
<1>t. request \in [Requests -> RequestType]
  BY <1>0 DEF TruthOK, TypeOK, RequestType
<1>1. ASSUME NEW p \in Requests, Poll(p) \/ SendFails(p) PROVE ClockOK(q)' /\ AnswerOK(q)'
  <2>1. CASE p = q
    BY <1>0, <1>1, <2>1, PollTimely
  <2>2. CASE p # q
    <3>1. request'[q] = request[q]
      BY <1>0, <1>1, <2>2, PollStep
    <3>2. UNCHANGED <<elapsed, answered>>
      BY <1>1 DEF Poll, ReceiveResponse, LoopTop, TimesOut, Lags, Receive, SendFails, history
    <3> QED
      BY <1>0, <3>1, <3>2, UntouchedTimely
  <2> QED
    BY <2>1, <2>2
<1>2. ASSUME NEW p \in Requests, Send(p) PROVE ClockOK(q)' /\ AnswerOK(q)'
  <2>1. request' = [request EXCEPT ![p].at = "sending"] /\ UNCHANGED <<elapsed, answered>> /\ request[p].at = "new"
    BY <1>2 DEF Send, At, history
  <2>2. CASE p = q
    <3>1. /\ request'[q].at = "sending" /\ request'[q].result = request[q].result
          /\ request'[q].ack_received = request[q].ack_received /\ request'[q].late = request[q].late
      BY <1>t, <2>1, <2>2 DEF RequestType
    <3>2. ClockOK(q)'
      BY <1>0, <2>1, <2>2, <3>1 DEF ClockOK, Waiting
    <3>3. AnswerOK(q)'
      BY <1>0, <2>1, <2>2, <3>1 DEF AnswerOK
    <3> QED
      BY <3>2, <3>3
  <2>3. CASE p # q
    <3>1. request'[q] = request[q]
      BY <1>t, <2>1, <2>3
    <3> QED
      BY <1>0, <2>1, <3>1, UntouchedTimely
  <2> QED
    BY <2>2, <2>3
<1>3. CASE HandleFrame
  BY <1>0, <1>3, BroadcastTimely
<1>4. CASE Tick
  BY <1>0, <1>4, TickTimely
<1>5. CASE (\E p \in Requests : Responder(p)) \/ Dispatch \/ PeerCloses \/ LinkFails \/ UNCHANGED vars
  <2>1. UNCHANGED <<request, elapsed, answered>>
    BY <1>5 DEF Responder, SendAck, Reply, RepeatAck, HandlerReturns, Dispatch, PeerCloses, LinkFails, vars, history
  <2> QED
    BY <1>0, <2>1, UntouchedTimely
<1> QED
  BY <1>1, <1>2, <1>3, <1>4, <1>5 DEF Next

-----------------------------------------------------------------------------
\* Every frame under way is truthful, every clock within its timeouts and every
\* answer that came in time still to be had, whatever is lost, late or repeated.
THEOREM Invariance == Spec => []Inv
<1>1. Init => Inv
  <2> SUFFICES ASSUME Init PROVE Inv
    OBVIOUS
  <2>1. WaitOK
    BY ExchangeAssumption DEF Init, WaitOK, Fresh, Waiting
  <2>2. KeptOK
    BY DEF Init, KeptOK
  <2> QED
    BY <2>1, <2>2, InitTruth DEF Inv
<1>2. Inv /\ [Next]_vars => Inv'
  BY NextKeepsTruth, NextKeepsTime DEF Inv
<1> QED
  BY <1>1, <1>2, PTL DEF Spec

\* receive_response tells its caller what the peer's handler did with this
\* very request: "ok" and "failed" are that handler's outcome, and the caller
\* waits past the ack only for a request that was accepted.
THEOREM AnswersAreOwn == Spec => []AnswersMatch
<1>1. Inv => AnswersMatch
  BY DEF Inv, TruthOK
<1> QED
  BY <1>1, Invariance, PTL

\* A request that is polled promptly waits no longer than its two timeouts,
\* without an ack no longer than the first, and takes no second message after
\* its deadline, however many acks and answers to others are broadcast.
THEOREM WaitsAreBounded == Spec => [](Prompt => BoundedWait)
<1>1. Inv => (Prompt => BoundedWait)
  <2> SUFFICES ASSUME Inv, Prompt, NEW q \in Requests, Waiting(q)
               PROVE  /\ elapsed[q] <= AckTimeout + (IF request[q].ack_received THEN ResponseTimeout ELSE 0)
                      /\ request[q].late <= 1
    BY DEF BoundedWait
  <2>1. ClockOK(q)
    BY Parts DEF Inv
  <2>2. request[q].time_left \in Nat /\ elapsed[q] \in Nat
    BY DEF Inv, TruthOK, TypeOK
  <2>3. {AckTimeout, ResponseTimeout} \subseteq Nat
    BY ExchangeAssumption
  <2> QED
    BY <2>1, <2>2, <2>3 DEF ClockOK
<1> QED
  BY <1>1, Invariance, PTL

\* Subscribing before the send loses no answer: a request that is polled promptly,
\* with timeouts that are not zero, times out only if nothing that ends it was
\* broadcast before its deadline.
THEOREM AnswersInTimeAreKept == Spec => [](Timely => AnswerInTimeKept)
<1>1. Inv => (Timely => AnswerInTimeKept)
  BY DEF Inv, KeptOK, AnswerInTimeKept
<1> QED
  BY <1>1, Invariance, PTL
=============================================================================
