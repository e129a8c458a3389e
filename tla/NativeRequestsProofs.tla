------------------------ MODULE NativeRequestsProofs ------------------------
(***************************************************************************)
(* Proofs about the native request bridge, for any number of requests,     *)
(* calls of next_request and replies.                                      *)
(*                                                                         *)
(* The argument: the sender of a request moves from the map to one reply,  *)
(* which alone may use it, and a request moves from handle to the queue    *)
(* and from there to one call of next_request.                             *)
(***************************************************************************)
EXTENDS NativeRequests, SequenceLemmas, TLAPS

\* A request that is new joins the queue.
LEMMA AppendQueue ==
  ASSUME NEW s \in Seq(Requests), NEW q \in Requests,
         \A i \in DOMAIN s : s[i] # q,
         \A i, j \in DOMAIN s : s[i] = s[j] => i = j
  PROVE  \A t : t = Append(s, q) =>
         /\ t \in Seq(Requests)
         /\ \A i, j \in DOMAIN t : t[i] = t[j] => i = j
         /\ \A i \in DOMAIN t : t[i] = q \/ \E j \in DOMAIN s : t[i] = s[j]
         /\ \A j \in DOMAIN s : \E i \in DOMAIN t : t[i] = s[j]
         /\ \E i \in DOMAIN t : t[i] = q
<1> TAKE t
<1> HAVE t = Append(s, q)
<1>1. /\ t \in Seq(Requests)
      /\ \A i \in DOMAIN t :
           \/ i \in DOMAIN s /\ t[i] = s[i]
           \/ i \notin DOMAIN s /\ t[i] = q
      /\ \A i, j \in DOMAIN t : i \notin DOMAIN s => j <= i
      /\ \A i \in DOMAIN s : i \in DOMAIN t
      /\ \E i \in DOMAIN t : i \notin DOMAIN s
  BY AppendItems
<1>2. \A i \in DOMAIN t : i \in Nat
  BY <1>1
<1> QED
  BY <1>1, <1>2

\* The first request leaves the queue.
LEMMA TailQueue ==
  ASSUME NEW s \in Seq(Requests), s # <<>>,
         \A i, j \in DOMAIN s : s[i] = s[j] => i = j
  PROVE  \A t : t = Tail(s) =>
         /\ t \in Seq(Requests)
         /\ Head(s) \in Requests /\ \E j \in DOMAIN s : s[j] = Head(s)
         /\ \A i, j \in DOMAIN t : t[i] = t[j] => i = j
         /\ \A i \in DOMAIN t : t[i] # Head(s) /\ \E j \in DOMAIN s : t[i] = s[j]
         /\ \A j \in DOMAIN s : s[j] = Head(s) \/ \E i \in DOMAIN t : t[i] = s[j]
<1> TAKE t
<1> HAVE t = Tail(s)
<1>1. /\ t \in Seq(Requests) /\ Head(s) \in Requests
      /\ 1 \in DOMAIN s /\ Head(s) = s[1]
      /\ \A i \in DOMAIN t : i \in Nat \ {0} /\ i + 1 \in DOMAIN s /\ t[i] = s[i + 1]
      /\ \A i \in DOMAIN s : i # 1 => i - 1 \in DOMAIN t /\ t[i - 1] = s[i]
  BY TailItems
<1>2. \A i, j \in DOMAIN t : t[i] = t[j] => i = j
  BY <1>1
<1>3. \A i \in DOMAIN t : t[i] # Head(s) /\ \E j \in DOMAIN s : t[i] = s[j]
  BY <1>1
<1> QED
  BY <1>1, <1>2, <1>3

\* The steps of handle.
LEMMA HandleInv ==
  ASSUME Inv, NEW q \in Requests, Handle(q)
  PROVE  Inv'
<1> USE DEF Inv
<1>1. CASE stop
  <2>1. /\ handle[q] = "new"
        /\ handle' = [handle EXCEPT ![q] = "done"]
        /\ outcome' = [outcome EXCEPT ![q] = "closed"]
        /\ UNCHANGED <<stop, closed, sender, queue, sent, poller, seen, got, receiver, reply>>
    BY <1>1 DEF Handle, pollVars
  <2>2. TypeOK'
    BY <2>1 DEF TypeOK
  <2>3. NoLeak' /\ RepliesOK'
    BY <2>1 DEF TypeOK, NoLeak, RepliesOK, pending, OutcomesOK
  <2>4. NoRequestLost'
    BY <2>1 DEF NoRequestLost, pending
  <2>5. QueueOK'
    BY <2>1, NativeAssumption DEF TypeOK, QueueOK
  <2>6. OutcomesOK' /\ AnswerKept'
    BY <2>1 DEF TypeOK, OutcomesOK, RepliesOK, AnswerKept
  <2> QED
    BY <2>2, <2>3, <2>4, <2>5, <2>6
<1>2. CASE ~stop
  <2>1. /\ handle[q] = "new"
        /\ sender' = [sender EXCEPT ![q] = "pending"]
        /\ queue' = Append(queue, q)
        /\ handle' = [handle EXCEPT ![q] = "waiting"]
        /\ UNCHANGED <<stop, closed, outcome, sent, poller, seen, got, receiver, reply>>
    BY <1>2 DEF Handle, pollVars
  <2>2. /\ queue' \in Seq(Requests)
        /\ \A i, j \in DOMAIN queue' : queue'[i] = queue'[j] => i = j
        /\ \A i \in DOMAIN queue' : queue'[i] = q \/ \E j \in DOMAIN queue : queue'[i] = queue[j]
        /\ \A j \in DOMAIN queue : \E i \in DOMAIN queue' : queue'[i] = queue[j]
        /\ \E i \in DOMAIN queue' : queue'[i] = q
    <3>1. queue \in Seq(Requests) /\ \A i \in DOMAIN queue : queue[i] # q
      BY <2>1 DEF TypeOK, QueueOK
    <3>2. \A i, j \in DOMAIN queue : queue[i] = queue[j] => i = j
      BY DEF QueueOK
    <3> DEFINE t == Append(queue, q)
    <3>3. /\ t \in Seq(Requests)
          /\ \A i, j \in DOMAIN t : t[i] = t[j] => i = j
          /\ \A i \in DOMAIN t : t[i] = q \/ \E j \in DOMAIN queue : t[i] = queue[j]
          /\ \A j \in DOMAIN queue : \E i \in DOMAIN t : t[i] = queue[j]
          /\ \E i \in DOMAIN t : t[i] = q
      BY <3>1, <3>2, AppendQueue, Zenon
    <3>4. queue' = t
      BY <2>1
    <3> HIDE DEF t
    <3> QED
      BY <3>3, <3>4
  <2>3. TypeOK'
    BY <2>1, <2>2 DEF TypeOK
  <2>4. NoLeak' /\ RepliesOK' /\ OutcomesOK' /\ AnswerKept'
    BY <1>2, <2>1 DEF TypeOK, NoLeak, RepliesOK, OutcomesOK, AnswerKept, pending
  <2>5. NoRequestLost'
    <3>1. pending' = pending \cup {q}
      BY <2>1 DEF TypeOK, pending
    <3>2. \A r \in pending :
            (\E i \in DOMAIN queue' : queue'[i] = r) \/ (\E p \in Pollers : got[p] = r)
      BY <2>2 DEF NoRequestLost
    <3>3. \A r \in pending' :
            (\E i \in DOMAIN queue' : queue'[i] = r) \/ (\E p \in Pollers : got'[p] = r)
      BY <2>1, <2>2, <3>1, <3>2
    <3> QED
      BY <2>1, <3>3 DEF NoRequestLost
  <2>6. QueueOK'
    BY <2>1, <2>2, NativeAssumption DEF TypeOK, QueueOK
  <2> QED
    BY <2>3, <2>4, <2>5, <2>6
<1> QED
  BY <1>1, <1>2

LEMMA FinishInv ==
  ASSUME Inv, NEW q \in Requests, HandleReturns(q) \/ DestroyHandler(q)
  PROVE  Inv'
<1> USE DEF Inv
<1>1. PICK result : /\ handle[q] = "waiting" /\ Finish(q, result)
                    /\ result \in {"closed", "cancelled", "failed"} \cup Json
                    /\ sender[q] = "sent" => result \in {"cancelled", Answer(sent[q])}
  <2>1. CASE HandleReturns(q)
    BY <2>1 DEF HandleReturns, Answer
  <2>2. CASE DestroyHandler(q)
    BY <2>2 DEF DestroyHandler
  <2> QED
    BY <2>1, <2>2
<1>2. /\ handle' = [handle EXCEPT ![q] = "done"]
      /\ outcome' = [outcome EXCEPT ![q] = result]
      /\ sender' = [sender EXCEPT ![q] = IF sender[q] = "pending" THEN "dropped" ELSE sender[q]]
      /\ UNCHANGED <<queue, stop, closed, sent, poller, seen, got, receiver, reply>>
  BY <1>1 DEF Finish, Forget, pollVars
<1>3. TypeOK'
  BY <1>1, <1>2 DEF TypeOK
<1>4. NoLeak' /\ RepliesOK' /\ NoRequestLost' /\ QueueOK'
  BY <1>1, <1>2, NativeAssumption DEF TypeOK, NoLeak, RepliesOK, NoRequestLost, QueueOK, pending
<1>5. OutcomesOK'
  BY <1>1, <1>2 DEF TypeOK, OutcomesOK
<1>6. AnswerKept'
  BY <1>3, <1>4, <1>5 DEF TypeOK, OutcomesOK, RepliesOK, AnswerKept
<1> QED
  BY <1>3, <1>4, <1>5, <1>6

\* The steps of next_request that receive nothing.
LEMMA PollInv ==
  ASSUME Inv, NEW p \in Pollers,
         Subscribe(p) \/ LockReceiver(p) \/ Top(p) \/ StopChanged(p) \/ SessionClosed(p)
           \/ HandOver(p) \/ DropCall(p)
  PROVE  Inv'
<1> USE DEF Inv
<1>1. UNCHANGED <<queue, stop, closed, handle, outcome, sender, sent, got, reply>>
  BY DEF Subscribe, LockReceiver, Top, StopChanged, SessionClosed, HandOver, DropCall, handleVars
<1>2. PICK pc \in {"lock", "top", "recv", "done", "dropped"} :
        /\ poller' = [poller EXCEPT ![p] = pc]
        /\ poller[p] \in {"returned", "done", "dropped"} => pc \in {"done", "dropped"}
  BY DEF Subscribe, LockReceiver, Top, StopChanged, SessionClosed, HandOver, DropCall, Leave
<1>3. seen' \in [Pollers -> BOOLEAN] /\ receiver' \in Pollers \cup {None}
  BY DEF Subscribe, LockReceiver, Top, StopChanged, SessionClosed, HandOver, DropCall, Leave, TypeOK
<1>4. TypeOK'
  BY <1>1, <1>2, <1>3 DEF TypeOK
<1>5. NoRequestLost'
  BY <1>1, <1>2 DEF TypeOK, NoRequestLost, pending
<1>6. NoLeak' /\ RepliesOK' /\ OutcomesOK' /\ AnswerKept' /\ QueueOK'
  BY <1>1 DEF NoLeak, RepliesOK, OutcomesOK, AnswerKept, QueueOK, pending
<1> QED
  BY <1>4, <1>5, <1>6

LEMMA RecvInv ==
  ASSUME Inv, NEW p \in Pollers, Recv(p)
  PROVE  Inv'
<1> USE DEF Inv
<1> DEFINE h == Head(queue)
<1>1. /\ poller[p] = "recv" /\ queue # <<>> /\ queue' = Tail(queue)
      /\ UNCHANGED <<stop, closed, handle, outcome, sender, sent, seen, reply>>
  BY DEF Recv, handleVars
<1>2. /\ queue' \in Seq(Requests)
      /\ h \in Requests /\ \E j \in DOMAIN queue : queue[j] = h
      /\ \A i, j \in DOMAIN queue' : queue'[i] = queue'[j] => i = j
      /\ \A i \in DOMAIN queue' : queue'[i] # h /\ \E j \in DOMAIN queue : queue'[i] = queue[j]
      /\ \A j \in DOMAIN queue : queue[j] = h \/ \E i \in DOMAIN queue' : queue'[i] = queue[j]
  <2>1. queue \in Seq(Requests) /\ \A i, j \in DOMAIN queue : queue[i] = queue[j] => i = j
    BY DEF TypeOK, QueueOK
  <2> DEFINE t == Tail(queue)
  <2>2. t = Tail(queue) /\ queue # <<>>
    BY <1>1
  <2> HIDE DEF t
  <2>3. /\ t \in Seq(Requests)
        /\ Head(queue) \in Requests /\ \E j \in DOMAIN queue : queue[j] = Head(queue)
        /\ \A i, j \in DOMAIN t : t[i] = t[j] => i = j
        /\ \A i \in DOMAIN t : t[i] # Head(queue) /\ \E j \in DOMAIN queue : t[i] = queue[j]
        /\ \A j \in DOMAIN queue : queue[j] = Head(queue) \/ \E i \in DOMAIN t : t[i] = queue[j]
    BY <2>1, <2>2, TailQueue
  <2> QED
    BY <1>1, <2>2, <2>3
<1>3. got[p] = None
  BY <1>1 DEF NoRequestLost
<1>4. CASE h \in pending
  <2>1. /\ poller' = [poller EXCEPT ![p] = "returned"]
        /\ receiver' \in Pollers \cup {None}
        /\ got' = [got EXCEPT ![p] = h]
    BY <1>4 DEF Recv, Leave, TypeOK
  <2> HIDE DEF h
  <2>2. TypeOK'
    BY <1>1, <1>2, <2>1 DEF TypeOK
  <2>3. \A r \in Pollers : got[r] # h /\ handle[h] # "new"
    BY <1>2 DEF QueueOK
  <2>4. \A i \in DOMAIN queue' : \A r \in Pollers : got'[r] # queue'[i]
    BY <1>2, <2>1 DEF TypeOK, QueueOK
  <2>5. QueueOK'
    BY <1>1, <1>2, <2>1, <2>3, <2>4 DEF TypeOK, QueueOK
  <2>6. NoRequestLost'
    <3>1. \A r \in Pollers : got'[r] # None => poller'[r] \in {"returned", "done", "dropped"}
      BY <2>1 DEF TypeOK, NoRequestLost
    <3>2. \A p1, p2 \in Pollers : got'[p1] = got'[p2] /\ got'[p1] # None => p1 = p2
      BY <2>1, <2>3 DEF TypeOK, NoRequestLost
    <3>3. ASSUME NEW q \in pending'
          PROVE  (\E i \in DOMAIN queue' : queue'[i] = q) \/ (\E r \in Pollers : got'[r] = q)
      <4>1. q \in pending /\ q # None
        BY <1>1, NativeAssumption DEF pending
      <4>2. CASE q = h
        BY <2>1, <4>2 DEF TypeOK
      <4>3. CASE q # h
        BY <1>2, <1>3, <2>1, <4>1, <4>3 DEF TypeOK, NoRequestLost
      <4> QED
        BY <4>2, <4>3
    <3> QED
      BY <3>1, <3>2, <3>3 DEF NoRequestLost
  <2>7. NoLeak' /\ RepliesOK' /\ OutcomesOK' /\ AnswerKept'
    BY <1>1 DEF NoLeak, RepliesOK, OutcomesOK, AnswerKept, pending
  <2> QED
    BY <2>2, <2>5, <2>6, <2>7
<1>5. CASE h \notin pending
  <2>1. poller' = [poller EXCEPT ![p] = "top"] /\ UNCHANGED <<got, receiver>>
    BY <1>5 DEF Recv
  <2> HIDE DEF h
  <2>2. TypeOK'
    BY <1>1, <1>2, <2>1 DEF TypeOK
  <2>3. QueueOK'
    BY <1>1, <1>2, <2>1 DEF TypeOK, QueueOK
  <2>4. pending' = pending
    BY <1>1 DEF pending
  <2>5. NoRequestLost'
    <3>1. \A q \in pending : (\E i \in DOMAIN queue' : queue'[i] = q) \/ (\E r \in Pollers : got[r] = q)
      BY <1>2, <1>5 DEF NoRequestLost
    <3>2. \A r \in Pollers : got[r] # None => poller'[r] \in {"returned", "done", "dropped"}
      BY <1>3, <2>1 DEF TypeOK, NoRequestLost
    <3> QED
      BY <2>1, <2>4, <3>1, <3>2 DEF NoRequestLost
  <2>6. NoLeak' /\ RepliesOK' /\ OutcomesOK' /\ AnswerKept'
    BY <1>1 DEF NoLeak, RepliesOK, OutcomesOK, AnswerKept, pending
  <2> QED
    BY <2>2, <2>3, <2>5, <2>6
<1> QED
  BY <1>4, <1>5

\* respond and fail.
LEMMA TakeInv ==
  ASSUME Inv, NEW r \in Replies, NEW q \in Requests, TakeSender(r, q)
  PROVE  Inv'
<1> USE DEF Inv
<1> DEFINE next == IF q \in pending THEN "send" ELSE "error"
<1>1. /\ reply[r].at = "new"
      /\ reply' = [reply EXCEPT ![r] = [at |-> next, id |-> q]]
      /\ sender' = [sender EXCEPT ![q] = IF sender[q] = "pending" THEN "taken" ELSE sender[q]]
      /\ UNCHANGED <<queue, stop, closed, handle, outcome, sent, poller, seen, got, receiver>>
  BY DEF TakeSender, handleVars, pollVars
<1>2. next \in {"send", "error"} /\ (next = "send" <=> sender[q] = "pending")
  BY DEF pending
<1> HIDE DEF next
<1>3. TypeOK'
  BY <1>1, <1>2 DEF TypeOK
<1>4. NoLeak' /\ OutcomesOK' /\ NoRequestLost' /\ QueueOK'
  BY <1>1 DEF TypeOK, NoLeak, OutcomesOK, NoRequestLost, QueueOK, pending
<1>5. /\ reply'[r] = [at |-> next, id |-> q]
      /\ \A s \in Replies \ {r} : reply'[s] = reply[s]
  BY <1>1 DEF TypeOK
<1>6. RepliesOK'
  <2>1. ASSUME NEW s \in Replies, reply'[s].at = "send"
        PROVE  reply'[s].id \in Requests /\ sender'[reply'[s].id] = "taken"
    BY <1>1, <1>2, <1>5, <2>1 DEF TypeOK, RepliesOK
  <2>2. ASSUME NEW s \in Replies, reply'[s].at = "ok"
        PROVE  reply'[s].id \in Requests /\ sender'[reply'[s].id] = "sent" /\ sent'[reply'[s].id] = s
    BY <1>1, <1>2, <1>5, <2>2 DEF TypeOK, RepliesOK
  <2>3. ASSUME NEW r1 \in Replies, NEW r2 \in Replies,
               reply'[r1].at = "send", reply'[r2].at = "send", reply'[r1].id = reply'[r2].id
        PROVE  r1 = r2
    BY <1>1, <1>2, <1>5, <2>3 DEF TypeOK, RepliesOK
  <2> QED
    BY <2>1, <2>2, <2>3 DEF RepliesOK
<1>7. AnswerKept'
  BY <1>3, <1>4, <1>6 DEF TypeOK, OutcomesOK, RepliesOK, AnswerKept
<1> QED
  BY <1>3, <1>4, <1>6, <1>7

LEMMA SendInv ==
  ASSUME Inv, NEW r \in Replies, SendAnswer(r)
  PROVE  Inv'
<1> USE DEF Inv
<1> DEFINE q == reply[r].id
<1>1. /\ reply[r].at = "send"
      /\ reply' = [reply EXCEPT ![r].at = IF handle[q] = "waiting" THEN "ok" ELSE "error"]
      /\ sender' = [sender EXCEPT ![q] = IF handle[q] = "waiting" THEN "sent" ELSE "dropped"]
      /\ sent' = [sent EXCEPT ![q] = IF handle[q] = "waiting" THEN r ELSE sent[q]]
      /\ UNCHANGED <<queue, stop, closed, handle, outcome, poller, seen, got, receiver>>
  BY DEF SendAnswer, handleVars, pollVars
<1>2. q \in Requests /\ sender[q] = "taken"
  BY <1>1 DEF RepliesOK
<1>3. /\ reply'[r].at \in {"ok", "error"} /\ (reply'[r].at = "ok" <=> handle[q] = "waiting")
      /\ reply'[r].id = q
      /\ \A s \in Replies \ {r} : reply'[s] = reply[s]
      /\ reply' \in [Replies -> [at : {"new", "send", "ok", "error"}, id : Requests \cup {None}]]
  BY <1>1 DEF TypeOK
<1>4. q = reply[r].id
  OBVIOUS
<1> HIDE DEF q
<1>5. TypeOK'
  BY <1>1, <1>2, <1>3 DEF TypeOK
<1>6. NoLeak' /\ OutcomesOK' /\ NoRequestLost' /\ QueueOK'
  BY <1>1, <1>2 DEF TypeOK, NoLeak, OutcomesOK, NoRequestLost, QueueOK, pending
<1>7. RepliesOK'
  <2>1. ASSUME NEW s \in Replies, reply'[s].at = "send"
        PROVE  reply'[s].id \in Requests /\ sender'[reply'[s].id] = "taken"
    <3>1. s # r /\ reply[s].at = "send" /\ reply'[s].id = reply[s].id /\ reply[s].id # q
      BY <1>1, <1>3, <1>4, <2>1 DEF RepliesOK
    <3> QED
      BY <1>1, <1>2, <3>1 DEF TypeOK, RepliesOK
  <2>2. ASSUME NEW s \in Replies, reply'[s].at = "ok"
        PROVE  reply'[s].id \in Requests /\ sender'[reply'[s].id] = "sent" /\ sent'[reply'[s].id] = s
    <3>1. CASE s = r
      BY <1>1, <1>2, <1>3, <2>2, <3>1 DEF TypeOK
    <3>2. CASE s # r
      <4>1. reply[s].at = "ok" /\ reply'[s].id = reply[s].id /\ reply[s].id # q
        BY <1>2, <1>3, <2>2, <3>2 DEF RepliesOK
      <4> QED
        BY <1>1, <1>2, <4>1 DEF TypeOK, RepliesOK
    <3> QED
      BY <3>1, <3>2
  <2>3. ASSUME NEW r1 \in Replies, NEW r2 \in Replies,
               reply'[r1].at = "send", reply'[r2].at = "send", reply'[r1].id = reply'[r2].id
        PROVE  r1 = r2
    BY <1>3, <2>3 DEF RepliesOK
  <2> QED
    BY <2>1, <2>2, <2>3 DEF RepliesOK
<1>8. AnswerKept'
  BY <1>5, <1>6, <1>7 DEF TypeOK, OutcomesOK, RepliesOK, AnswerKept
<1> QED
  BY <1>5, <1>6, <1>7, <1>8

\* shutdown, drop and the end of the core session.
LEMMA StopInv ==
  ASSUME Inv, Stop \/ CloseSession
  PROVE  Inv'
<1> USE DEF Inv
<1>1. CASE Stop
  <2>1. /\ stop' = TRUE
        /\ sender' = [q \in Requests |-> IF sender[q] = "pending" THEN "dropped" ELSE sender[q]]
        /\ UNCHANGED <<queue, closed, handle, outcome, sent, poller, seen, got, receiver, reply>>
    BY <1>1 DEF Stop, handleVars, pollVars
  <2>2. TypeOK' /\ pending' = {}
    BY <2>1 DEF TypeOK, pending
  <2>3. NoLeak' /\ RepliesOK' /\ OutcomesOK' /\ AnswerKept' /\ NoRequestLost' /\ QueueOK'
    BY <2>1, <2>2 DEF TypeOK, NoLeak, RepliesOK, OutcomesOK, AnswerKept, NoRequestLost, QueueOK
  <2> QED
    BY <2>2, <2>3
<1>2. CASE CloseSession
  BY <1>2 DEF CloseSession, handleVars, pollVars, TypeOK, NoLeak, RepliesOK, OutcomesOK, AnswerKept,
              NoRequestLost, QueueOK, pending
<1> QED
  BY <1>1, <1>2

\* Inv is an invariant of the bridge: handle, next_request, respond, fail and
\* shutdown may interleave in any way.
THEOREM Invariance == Spec => []Inv
<1>1. Init => Inv
  <2> SUFFICES ASSUME Init PROVE Inv
    OBVIOUS
  <2> USE DEF Init
  <2>1. TypeOK /\ pending = {}
    <3>1. queue \in Seq(Requests) /\ pending = {}
      BY DEF pending
    <3>2. /\ \A r \in Replies :
               reply[r] \in [at : {"new", "send", "ok", "error"}, id : Requests \cup {None}]
          /\ reply \in [Replies -> [at : {"new", "send", "ok", "error"}, id : Requests \cup {None}]]
      OBVIOUS
    <3> QED
      BY <3>1, <3>2 DEF TypeOK
  <2>2. DOMAIN queue = {}
    OBVIOUS
  <2>3. NoLeak /\ AnswerKept /\ RepliesOK /\ OutcomesOK
    BY <2>1 DEF NoLeak, AnswerKept, RepliesOK, OutcomesOK
  <2>4. NoRequestLost /\ QueueOK
    BY <2>1, <2>2 DEF NoRequestLost, QueueOK
  <2> QED
    BY <2>1, <2>3, <2>4 DEF Inv
<1>2. Inv /\ [Next]_vars => Inv'
  <2> SUFFICES ASSUME Inv, [Next]_vars PROVE Inv'
    OBVIOUS
  <2>1. CASE UNCHANGED vars
    BY <2>1 DEF vars, Inv, TypeOK, NoLeak, AnswerKept, RepliesOK, OutcomesOK, NoRequestLost, QueueOK,
                pending, handleVars, pollVars
  <2>2. CASE Next
    BY <2>2, HandleInv, FinishInv, PollInv, RecvInv, TakeInv, SendInv, StopInv DEF Next, PollStep
  <2> QED
    BY <2>1, <2>2
<1> QED
  BY <1>1, <1>2, PTL DEF Spec

\* The map of pending requests holds entries of waiting handlers only, whatever
\* way a handler ends (PendingRequest).
THEOREM MapDoesNotLeak == Spec => []NoLeak
<1>1. Inv => NoLeak
  BY DEF Inv
<1> QED
  BY <1>1, Invariance, PTL

\* An answer that respond or fail accepted is the one the handler returns (an
\* error for a response that is not JSON), unless the session was closed, and it
\* is the only one.
THEOREM AnswersAreKept == Spec => []AnswerKept
<1>1. Inv => AnswerKept
  BY DEF Inv
<1> QED
  BY <1>1, Invariance, PTL

\* A pending request is in the queue or with the one call of next_request that
\* took it.
THEOREM RequestsAreNotLost == Spec => []NoRequestLost
<1>1. Inv => NoRequestLost
  BY DEF Inv
<1> QED
  BY <1>1, Invariance, PTL
=============================================================================
