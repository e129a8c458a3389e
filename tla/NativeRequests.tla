--------------------------- MODULE NativeRequests ---------------------------
(***************************************************************************)
(* Remote requests on their way through the UniFFI bridge: `Requests` of   *)
(* crates/openlv-ffi/src/lib.rs.                                           *)
(*                                                                         *)
(* The core runs handle for every remote request; the native side pulls    *)
(* requests with next_request and answers them with respond or fail, from  *)
(* threads of its own.  What holds the `pending` lock is one step.  An     *)
(* answer travels through a oneshot channel, and sender[q] says who owns   *)
(* its sending end.                                                        *)
(***************************************************************************)
EXTENDS Naturals, Sequences

CONSTANTS
  Requests,  \* ids of remote requests (next_id makes them distinct)
  Pollers,   \* calls of next_request
  Replies,   \* calls of respond and fail
  Json,      \* the calls of respond whose text is JSON
  None       \* Rust's Option::None

ASSUME NativeAssumption == None \notin Requests \cup Pollers /\ Json \subseteq Replies

VARIABLES
  queue,     \* the unbounded mpsc channel
  stop,      \* the watch channel `stop`
  closed,    \* the core session is closed
  handle,    \* "new", "waiting" or "done"
  outcome,   \* what handle returned
  sender,    \* "none", "pending" (in the map), "taken" (by a reply), "dropped", "sent"
  sent,      \* the reply whose answer is in the oneshot channel, or None
  poller,    \* where each call of next_request is
  seen,      \* the value of `stop` its watch receiver has seen
  got,       \* the request it returned
  receiver,  \* the poller that holds the receiver lock
  reply      \* each call of respond or fail: where it is and its request

vars == <<queue, stop, closed, handle, outcome, sender, sent, poller, seen, got, receiver, reply>>
handleVars == <<handle, outcome>>
pollVars   == <<poller, seen, got, receiver>>

pending == {q \in Requests : sender[q] = "pending"}

-----------------------------------------------------------------------------
(***************************************************************************)
(* handle.                                                                 *)
(***************************************************************************)
\* Mutant: the request is sent before it is in the map.
HandleSendsFirst(q) ==
  /\ \/ /\ handle[q] = "new"
        /\ queue' = Append(queue, q)
        /\ handle' = [handle EXCEPT ![q] = "sent"]
        /\ UNCHANGED sender
     \/ /\ handle[q] = "sent"
        /\ sender' = [sender EXCEPT ![q] = "pending"]
        /\ handle' = [handle EXCEPT ![q] = "waiting"]
        /\ UNCHANGED queue
  /\ UNCHANGED <<stop, closed, outcome, sent, pollVars, reply>>

\* Mutant: handle does not look at `stop` under the lock.
HandleAfterStop(q) ==
  /\ handle[q] = "new"
  /\ sender' = [sender EXCEPT ![q] = "pending"]
  /\ queue' = Append(queue, q)
  /\ handle' = [handle EXCEPT ![q] = "waiting"]
  /\ UNCHANGED <<stop, closed, outcome, sent, pollVars, reply>>

Handle(q) ==
  /\ handle[q] = "new"
  /\ IF stop
     THEN /\ handle' = [handle EXCEPT ![q] = "done"]
          /\ outcome' = [outcome EXCEPT ![q] = "closed"]
          /\ UNCHANGED <<sender, queue>>
     ELSE /\ sender' = [sender EXCEPT ![q] = "pending"]
          /\ queue' = Append(queue, q)
          /\ handle' = [handle EXCEPT ![q] = "waiting"]
          /\ UNCHANGED outcome
  /\ UNCHANGED <<stop, closed, sent, pollVars, reply>>

\* PendingRequest leaves the map when handle ends, however it ends.
Forget(q) == sender' = [sender EXCEPT ![q] = IF @ = "pending" THEN "dropped" ELSE @]

Finish(q, result) ==
  /\ handle' = [handle EXCEPT ![q] = "done"]
  /\ outcome' = [outcome EXCEPT ![q] = result]
  /\ Forget(q)
  /\ UNCHANGED <<queue, stop, closed, sent, pollVars, reply>>

\* What handle makes of an answer: an error, which the core tells the peer as
\* `failed`, for a call of fail and for a response that is not JSON.
Answer(r) == IF r \in Json THEN r ELSE "failed"

\* rx.await returned: an answer, or the sender is gone.
HandleReturns(q) ==
  /\ handle[q] = "waiting" /\ sender[q] \in {"sent", "dropped"}
  /\ Finish(q, IF sender[q] = "sent" THEN Answer(sent[q]) ELSE "closed")

\* Mutant: there is no PendingRequest guard.
DestroyKeepsEntry(q) ==
  /\ closed /\ handle[q] = "waiting"
  /\ handle' = [handle EXCEPT ![q] = "done"]
  /\ outcome' = [outcome EXCEPT ![q] = "cancelled"]
  /\ UNCHANGED <<queue, stop, closed, sender, sent, pollVars, reply>>

\* The core destroys the handler task of a closed session.
DestroyHandler(q) ==
  /\ closed /\ handle[q] = "waiting"
  /\ Finish(q, "cancelled")

-----------------------------------------------------------------------------
(***************************************************************************)
(* next and next_request.                                                  *)
(***************************************************************************)
\* stop.subscribe() marks the current value as seen.
Subscribe(p) ==
  /\ poller[p] = "new"
  /\ seen' = [seen EXCEPT ![p] = stop]
  /\ poller' = [poller EXCEPT ![p] = "lock"]
  /\ UNCHANGED <<queue, stop, closed, handleVars, sender, sent, got, receiver, reply>>

LockReceiver(p) ==
  /\ poller[p] = "lock" /\ receiver = None
  /\ receiver' = p
  /\ poller' = [poller EXCEPT ![p] = "top"]
  /\ UNCHANGED <<queue, stop, closed, handleVars, sender, sent, seen, got, reply>>

\* The call ends, and the guard of the receiver with it.
Leave(p, pc) ==
  /\ poller' = [poller EXCEPT ![p] = pc]
  /\ receiver' = IF receiver = p THEN None ELSE receiver

Top(p) ==
  /\ poller[p] = "top"
  /\ IF stop THEN Leave(p, "done") ELSE poller' = [poller EXCEPT ![p] = "recv"] /\ UNCHANGED receiver
  /\ UNCHANGED <<queue, stop, closed, handleVars, sender, sent, seen, got, reply>>

\* stop.changed() is polled first.
StopChanged(p) ==
  /\ poller[p] = "recv" /\ stop # seen[p]
  /\ Leave(p, "done")
  /\ UNCHANGED <<queue, stop, closed, handleVars, sender, sent, seen, got, reply>>

\* A request that is no longer pending is skipped.
Recv(p) ==
  /\ poller[p] = "recv" /\ stop = seen[p] /\ queue # <<>>
  /\ queue' = Tail(queue)
  /\ IF Head(queue) \in pending
     THEN /\ Leave(p, "returned")
          /\ got' = [got EXCEPT ![p] = Head(queue)]
     ELSE /\ poller' = [poller EXCEPT ![p] = "top"]
          /\ UNCHANGED <<got, receiver>>
  /\ UNCHANGED <<stop, closed, handleVars, sender, sent, seen, reply>>

\* session.closed() wins the select of next_request.
SessionClosed(p) ==
  /\ closed /\ poller[p] \in {"lock", "recv"}
  /\ Leave(p, "done")
  /\ UNCHANGED <<queue, stop, closed, handleVars, sender, sent, seen, got, reply>>

\* The native side receives what the bridge task returned.
HandOver(p) ==
  /\ poller[p] = "returned"
  /\ poller' = [poller EXCEPT ![p] = "done"]
  /\ UNCHANGED <<queue, stop, closed, handleVars, sender, sent, seen, got, receiver, reply>>

\* The native side drops the future (AbortOnDrop), maybe after the task ended.
DropCall(p) ==
  /\ poller[p] \in {"lock", "recv", "returned"}
  /\ Leave(p, "dropped")
  /\ UNCHANGED <<queue, stop, closed, handleVars, sender, sent, seen, got, reply>>

-----------------------------------------------------------------------------
(***************************************************************************)
(* reply, the body of respond and fail.                                    *)
(***************************************************************************)
Delivered == {got[p] : p \in {p \in Pollers : poller[p] = "done"}} \ {None}

\* Mutant: the entry stays in the map.
TakeCopy(r, q) ==
  /\ reply[r].at = "new" /\ q \in Delivered
  /\ reply' = [reply EXCEPT ![r] = [at |-> IF q \in pending THEN "send" ELSE "error", id |-> q]]
  /\ UNCHANGED <<queue, stop, closed, handleVars, sender, sent, pollVars>>

\* The sender is removed from the map, if it is there.
TakeSender(r, q) ==
  /\ reply[r].at = "new" /\ q \in Delivered
  /\ reply' = [reply EXCEPT ![r] = [at |-> IF q \in pending THEN "send" ELSE "error", id |-> q]]
  /\ sender' = [sender EXCEPT ![q] = IF @ = "pending" THEN "taken" ELSE @]
  /\ UNCHANGED <<queue, stop, closed, handleVars, sent, pollVars>>

\* sender.send: an error if handle is gone.
SendAnswer(r) ==
  /\ reply[r].at = "send"
  /\ LET q == reply[r].id IN
     /\ reply' = [reply EXCEPT ![r].at = IF handle[q] = "waiting" THEN "ok" ELSE "error"]
     /\ sender' = [sender EXCEPT ![q] = IF handle[q] = "waiting" THEN "sent" ELSE "dropped"]
     /\ sent' = [sent EXCEPT ![q] = IF handle[q] = "waiting" THEN r ELSE @]
  /\ UNCHANGED <<queue, stop, closed, handleVars, pollVars>>

-----------------------------------------------------------------------------
(***************************************************************************)
(* shutdown and Drop: stop, then (shutdown only) close of the core.  The   *)
(* core may also be closed alone, by the application.                      *)
(***************************************************************************)
Stop ==
  /\ ~stop
  /\ stop' = TRUE
  /\ sender' = [q \in Requests |-> IF sender[q] = "pending" THEN "dropped" ELSE sender[q]]
  /\ UNCHANGED <<queue, closed, handleVars, sent, pollVars, reply>>

CloseSession ==
  /\ ~closed
  /\ closed' = TRUE
  /\ UNCHANGED <<queue, stop, handleVars, sender, sent, pollVars, reply>>

-----------------------------------------------------------------------------
Init ==
  /\ queue = <<>>
  /\ stop = FALSE
  /\ closed = FALSE
  /\ handle = [q \in Requests |-> "new"]
  /\ outcome = [q \in Requests |-> None]
  /\ sender = [q \in Requests |-> "none"]
  /\ sent = [q \in Requests |-> None]
  /\ poller = [p \in Pollers |-> "new"]
  /\ seen = [p \in Pollers |-> FALSE]
  /\ got = [p \in Pollers |-> None]
  /\ receiver = None
  /\ reply = [r \in Replies |-> [at |-> "new", id |-> None]]

PollStep(p) ==
  LockReceiver(p) \/ Top(p) \/ StopChanged(p) \/ Recv(p) \/ SessionClosed(p)

Next ==
  \/ \E q \in Requests : Handle(q) \/ HandleReturns(q) \/ DestroyHandler(q)
  \/ \E p \in Pollers : Subscribe(p) \/ PollStep(p) \/ HandOver(p) \/ DropCall(p)
  \/ \E r \in Replies : SendAnswer(r) \/ \E q \in Requests : TakeSender(r, q)
  \/ Stop \/ CloseSession

Spec == Init /\ [][Next]_vars

\* The bridge runtime polls what is ready, and the tokio lock is fair; a reply
\* runs on.
Fairness ==
  /\ \A q \in Requests : WF_vars(HandleReturns(q))
  /\ \A p \in Pollers : WF_vars(PollStep(p))
  /\ \A r \in Replies : WF_vars(SendAnswer(r))

FairSpec == Spec /\ Fairness

-----------------------------------------------------------------------------
\* The type invariant.
TypeOK ==
  /\ queue \in Seq(Requests)
  /\ stop \in BOOLEAN /\ closed \in BOOLEAN
  /\ handle \in [Requests -> {"new", "waiting", "done"}]
  /\ outcome \in [Requests -> {None, "closed", "cancelled", "failed"} \cup Json]
  /\ sender \in [Requests -> {"none", "pending", "taken", "dropped", "sent"}]
  /\ sent \in [Requests -> Replies \cup {None}]
  /\ poller \in [Pollers -> {"new", "lock", "top", "recv", "returned", "done", "dropped"}]
  /\ seen \in [Pollers -> BOOLEAN]
  /\ got \in [Pollers -> Requests \cup {None}]
  /\ receiver \in Pollers \cup {None}
  /\ reply \in [Replies -> [at : {"new", "send", "ok", "error"}, id : Requests \cup {None}]]

\* The map holds a sender exactly for handlers that still wait: entries of
\* cancelled requests do not pile up.
NoLeak == \A q \in pending : handle[q] = "waiting" /\ ~stop

\* An answer the bridge accepted is the one the peer gets, or `failed` when it
\* is not JSON (respond has then returned Ok all the same), unless the session
\* was closed, and a second answer to the same request is refused.
AnswerKept ==
  \A r \in Replies :
    reply[r].at = "ok" =>
      /\ sent[reply[r].id] = r
      /\ outcome[reply[r].id] \in {None, "cancelled", Answer(r)}

\* A request that waits for an answer is in the queue, or one call of
\* next_request took it: it is lost only with a call that had already taken it
\* when the native side dropped the call.
NoRequestLost ==
  /\ \A q \in pending : (\E i \in DOMAIN queue : queue[i] = q) \/ (\E p \in Pollers : got[p] = q)
  /\ \A p1, p2 \in Pollers : got[p1] = got[p2] /\ got[p1] # None => p1 = p2
  /\ \A p \in Pollers : got[p] # None => poller[p] \in {"returned", "done", "dropped"}

\* stop releases every handler, and after stop, or once the session is closed, no
\* call of next_request hangs.
StopReleases ==
  /\ \A q \in Requests : stop ~> handle[q] # "waiting"
  /\ \A p \in Pollers : (stop \/ closed) ~> poller[p] \in {"new", "returned", "done", "dropped"}

-----------------------------------------------------------------------------
(***************************************************************************)
(* The inductive invariant: a sender has one owner, what a handler         *)
(* returned is what its oneshot channel held, and a request is sent to the *)
(* queue once and received once.                                           *)
(***************************************************************************)
RepliesOK ==
  /\ \A r \in Replies :
       /\ reply[r].at = "send" => reply[r].id \in Requests /\ sender[reply[r].id] = "taken"
       /\ reply[r].at = "ok" =>
            /\ reply[r].id \in Requests
            /\ sender[reply[r].id] = "sent" /\ sent[reply[r].id] = r
  /\ \A r1, r2 \in Replies :
       reply[r1].at = "send" /\ reply[r2].at = "send" /\ reply[r1].id = reply[r2].id => r1 = r2

OutcomesOK ==
  \A q \in Requests :
    /\ handle[q] = "new" => sender[q] = "none"
    /\ handle[q] # "done" => outcome[q] = None
    /\ sender[q] = "sent" => outcome[q] \in {None, "cancelled", Answer(sent[q])}

QueueOK ==
  /\ \A i, j \in DOMAIN queue : queue[i] = queue[j] => i = j
  /\ \A i \in DOMAIN queue :
       /\ handle[queue[i]] # "new"
       /\ \A p \in Pollers : got[p] # queue[i]
  /\ \A p \in Pollers : got[p] # None => handle[got[p]] # "new"

Inv ==
  TypeOK /\ NoLeak /\ AnswerKept /\ RepliesOK /\ OutcomesOK /\ NoRequestLost /\ QueueOK
=============================================================================
