------------------------------- MODULE Session -------------------------------
(***************************************************************************)
(* The status of one session: crates/openlv/src/session/mod.rs.            *)
(*                                                                         *)
(* connect spawns event loops that follow the signaling layer, the         *)
(* transport and the frames of the peer, each through a queue of its own;  *)
(* callers of wait_for_link follow the transport too.  All of them write   *)
(* `status` and `error`, which close writes last.  The signaling layer     *)
(* (module Signaling) and the WebRTC connection appear as the states they  *)
(* report.                                                                 *)
(*                                                                         *)
(* at[t] says where task t is.  The runtime is chosen once.  On a          *)
(* current-thread runtime tasks interleave only at their awaits.  On one   *)
(* with threads the tasks of the session may interleave between any two    *)
(* accesses to the shared state (preemptive), and so may those of the      *)
(* signaling layer, which then reports states out of turn (racing).  If    *)
(* the runtime is prompt, spawned loops start before the signaling server, *)
(* a round trip away, answers.                                             *)
(***************************************************************************)
EXTENDS Naturals, Sequences

CONSTANTS
  Waiters,    \* calls of wait_for_link
  None,       \* Rust's Option::None
  Runtimes,   \* the runtimes considered
  MaxRaces,   \* bound: reports of the signaling layer out of turn
  MaxUnread   \* bound: transport reports left unread by two connections

Loops     == {"signal", "transport", "event"}
Tasks     == Waiters \cup Loops \cup {"connect"}
Receivers == Waiters \cup {"transport"}  \* the ones that follow the transport

ASSUME SessionAssumption ==
  /\ Waiters \cap (Loops \cup {"connect"}) = {}
  /\ Runtimes \subseteq [preemptive : BOOLEAN, prompt : BOOLEAN, racing : BOOLEAN]
  /\ MaxRaces \in Nat /\ MaxUnread \in Nat
  /\ None \notin {"ok", "failed", "closed"}  \* what wait_for_link may return

VARIABLES
  status,       \* SessionState
  error,        \* why the session failed, or None
  peer_closed,  \* the close frame of the peer was handled
  signaling,    \* SignalState the signaling layer reported last, in turn
  signals,      \* reports the signal loop has not received
  races,        \* how many reports came out of turn
  transport,    \* TransportState
  states,       \* transport reports each receiver has not received
  rtc,          \* the peer connections, with their data channels, in order
  goodbye,      \* the close frame of the peer: "none", "queued" or "handled"
  at,           \* where each task is
  answer,       \* what each wait_for_link returned
  closer,       \* where close is
  runtime       \* the runtime the session runs on

vars == <<status, error, peer_closed, signaling, signals, races, transport, states, rtc,
          goodbye, at, answer, closer>>
signalVars == <<signaling, signals, races>>
linkVars   == <<transport, states, rtc, goodbye>>

closed == closer # "open"

\* A task that has not started, is suspended at an await or has ended.
Suspended == {"new", "start", "recv", "setup", "done"}

MayRun(t) == runtime.preemptive \/ \A u \in Tasks \ {t} : at[u] \in Suspended
Goto(t, pc) == at' = [at EXCEPT ![t] = pc]

\* The task ends, and its receiver is dropped with the reports in it.
Ends(t) ==
  /\ Goto(t, "done")
  /\ states' = [r \in Receivers |-> IF r = t THEN <<>> ELSE states[r]]
  /\ signals' = IF t = "signal" THEN <<>> ELSE signals

\* Mutant: wait_for_link checks before it subscribes.
SubscribedLate(t) == at[t] \notin {"new", "start", "done", "check", "state"}

Subscribed(t) == at[t] \notin {"new", "start", "done"}

\* set_state of the transport: the state is written and broadcast.
SetTransport(s) ==
  /\ transport' = s
  /\ states' = [r \in Receivers |-> IF Subscribed(r) THEN Append(states[r], s) ELSE states[r]]

-----------------------------------------------------------------------------
(***************************************************************************)
(* Session::connect.  It takes transport_events, so a session connects     *)
(* once.                                                                   *)
(***************************************************************************)
Connect ==
  /\ at["connect"] = "new" /\ ~closed /\ MayRun("connect")
  /\ status' = "Signaling"
  /\ Goto("connect", "spawn")
  /\ UNCHANGED <<error, peer_closed, signalVars, linkVars, answer, closer>>

\* start_event_loops: spawn fails if the session was closed meanwhile.  (A close
\* between two spawns leaves loops that nothing is ever reported to.)
StartEventLoops ==
  /\ at["connect"] = "spawn" /\ MayRun("connect")
  /\ IF closed
     THEN Goto("connect", "done") /\ UNCHANGED signaling
     ELSE /\ at' = [t \in Tasks |-> IF t \in Loops THEN "start"
                                    ELSE IF t = "connect" THEN "setup" ELSE at[t]]
          /\ signaling' = "Connecting"
  /\ UNCHANGED <<status, error, peer_closed, signals, races, linkVars, answer, closer>>

\* signaling.setup() returned, with success or not; the status stays.
ConnectEnds ==
  /\ at["connect"] = "setup" /\ MayRun("connect")
  /\ Goto("connect", "done")
  /\ UNCHANGED <<status, error, peer_closed, signalVars, linkVars, answer, closer>>

\* The first poll of a loop subscribes it to its source.
LoopStarts(t) ==
  /\ at[t] = "start" /\ MayRun(t)
  /\ Goto(t, "recv")
  /\ UNCHANGED <<status, error, peer_closed, signalVars, linkVars, answer, closer>>

-----------------------------------------------------------------------------
(***************************************************************************)
(* The sources: the signaling layer and WebRTC.                            *)
(***************************************************************************)
Quiet == runtime.preemptive \/ \A t \in Tasks : at[t] \in Suspended

\* What the signaling layer reports after s.
Reports(s) ==
  CASE s = "Connecting"       -> IF at["connect"] = "setup" THEN {"Ready"} ELSE {}
    [] s = "Ready"            -> {"Handshake"}
    [] s = "Handshake"        -> {"HandshakePartial", "Error"}
    [] s = "HandshakePartial" -> {"Encrypted", "Error"}
    [] OTHER                  -> {}

\* A report reaches the signal loop, if it has subscribed.
Broadcast(s) ==
  /\ runtime.prompt => \A t \in Loops : at[t] # "start"
  /\ closer # "done" /\ Quiet
  /\ signals' = IF Subscribed("signal") THEN Append(signals, s) ELSE signals
  /\ UNCHANGED <<status, error, peer_closed, linkVars, at, answer, closer>>

SignalingReports(s) ==
  /\ s \in Reports(signaling)
  /\ signaling' = s
  /\ Broadcast(s)
  /\ UNCHANGED races

\* On threads a task of the layer matches the state, sets another one later and
\* reports it later still, so after the handshake has ended a report may come out
\* of turn: Encrypted once more or after Error, Error after Encrypted, or a
\* Handshake (a HandshakePartial is the same to the session).  Earlier ones would
\* only exchange the status Ready and Linking.
RacingReports(s) ==
  /\ runtime.racing /\ races < MaxRaces
  /\ signaling \in {"Encrypted", "Error"}
  /\ Broadcast(s)
  /\ races' = races + 1
  /\ UNCHANGED signaling

Room == Len(rtc) > 1 => \A r \in Receivers : Subscribed(r) => Len(states[r]) < MaxUnread

\* DataChannelEvent::OnOpen, after both sides handled offer and answer.
ChannelOpens(i) ==
  /\ rtc[i] = "stored" /\ Quiet /\ Room
  /\ rtc' = [rtc EXCEPT ![i] = "open"]
  /\ SetTransport("Connected")
  /\ UNCHANGED <<status, error, peer_closed, signalVars, goodbye, at, answer, closer>>

\* on_connection_state_change: the connection failed.
ConnectionFails(i) ==
  /\ rtc[i] \in {"stored", "open"} /\ Quiet /\ Room
  /\ rtc' = [rtc EXCEPT ![i] = IF @ = "open" THEN "failed" ELSE "lost"]
  /\ SetTransport("Error")
  /\ UNCHANGED <<status, error, peer_closed, signalVars, goodbye, at, answer, closer>>

\* DataChannelEvent::OnClose.
ChannelCloses(i) ==
  /\ rtc[i] \in {"open", "failed"} /\ Quiet /\ Room
  /\ rtc' = [rtc EXCEPT ![i] = "closed"]
  /\ SetTransport("Error")
  /\ UNCHANGED <<status, error, peer_closed, signalVars, goodbye, at, answer, closer>>

\* DataChannelEvent::OnMessage with the close frame of the peer.
PeerCloseArrives(i) ==
  /\ rtc[i] = "open" /\ goodbye = "none" /\ Quiet
  /\ goodbye' = "queued"
  /\ UNCHANGED <<status, error, peer_closed, signalVars, transport, states, rtc, at,
                 answer, closer>>

-----------------------------------------------------------------------------
(***************************************************************************)
(* run_signal_state_loop.                                                  *)
(***************************************************************************)
ReceiveSignal(s) ==
  /\ at["signal"] = "recv" /\ MayRun("signal")
  /\ signals # <<>> /\ Head(signals) = s
  /\ signals' = Tail(signals)

SignalProgress ==
  /\ \/ ReceiveSignal("Ready") /\ status' = "Ready"
     \/ \E s \in {"Handshake", "HandshakePartial"} : ReceiveSignal(s) /\ status' = "Linking"
  /\ UNCHANGED <<error, peer_closed, signaling, races, linkVars, at, answer, closer>>

\* Encrypted: the peers have a transport in common, and transport.setup()
\* begins; or they have none (SignalFails).
SetupTransport ==
  /\ ReceiveSignal("Encrypted")
  /\ SetTransport("Connecting")
  /\ Goto("signal", "setup")
  /\ UNCHANGED <<status, error, peer_closed, signaling, races, rtc, goodbye, answer, closer>>

\* Mutant: the error is recorded, the status is not.
SignalFailsSilently ==
  /\ \/ ReceiveSignal("Encrypted") /\ error' = "no common transport"
     \/ ReceiveSignal("Error") /\ error' = "signaling failed"
  /\ UNCHANGED <<status, peer_closed, signaling, races, linkVars, at, answer, closer>>

SignalFails ==
  /\ \/ ReceiveSignal("Encrypted") /\ error' = "no common transport"
     \/ ReceiveSignal("Error") /\ error' = "signaling failed"
  /\ Goto("signal", "status")
  /\ UNCHANGED <<status, peer_closed, signaling, races, linkVars, answer, closer>>

SetupFails ==
  /\ at["signal"] = "setup" /\ MayRun("signal")
  /\ error' = "setup failed"
  /\ Goto("signal", "status")
  /\ UNCHANGED <<status, peer_closed, signalVars, linkVars, answer, closer>>

\* Each setup makes a connection.  One that an earlier setup made is replaced, but
\* its callbacks and its poll loop go on.
StorePeerConnection ==
  /\ at["signal"] = "setup" /\ MayRun("signal")
  /\ rtc' = Append(rtc, "stored")
  /\ Goto("signal", "stored")
  /\ UNCHANGED <<status, error, peer_closed, signalVars, transport, states, goodbye,
                 answer, closer>>

SetupEnds ==
  /\ at["signal"] = "stored" /\ MayRun("signal")
  /\ SetTransport("Ready")
  /\ Goto("signal", "recv")
  /\ UNCHANGED <<status, error, peer_closed, signalVars, rtc, goodbye, answer, closer>>

-----------------------------------------------------------------------------
(***************************************************************************)
(* run_transport_state_loop and wait_for_link.                             *)
(***************************************************************************)
ReceiveState(t, s) ==
  /\ at[t] = "recv" /\ MayRun(t)
  /\ states[t] # <<>> /\ Head(states[t]) = s
  /\ states' = [states EXCEPT ![t] = Tail(@)]

Other == {"Standby", "Connecting", "Ready"}

\* Mutant: the loop ignores errors.
LoopSkipsErrors ==
  /\ \/ ReceiveState("transport", "Connected") /\ status' = "Connected" /\ UNCHANGED at
     \/ \E s \in Other \cup {"Error"} : ReceiveState("transport", s) /\ UNCHANGED <<status, at>>
  /\ UNCHANGED <<error, peer_closed, signalVars, transport, rtc, goodbye, answer, closer>>

TransportLoop ==
  /\ \/ ReceiveState("transport", "Connected") /\ status' = "Connected" /\ UNCHANGED at
     \/ \E s \in Other : ReceiveState("transport", s) /\ UNCHANGED <<status, at>>
     \/ ReceiveState("transport", "Error") /\ Goto("transport", "load") /\ UNCHANGED status
  /\ UNCHANGED <<error, peer_closed, signalVars, transport, rtc, goodbye, answer, closer>>

\* wait_for_link subscribes first.
WaitForLink(w) ==
  /\ at[w] = "new" /\ ~closed /\ MayRun(w)
  /\ Goto(w, "check")
  /\ UNCHANGED <<status, error, peer_closed, signalVars, linkVars, answer, closer>>

Return(w, result) ==
  /\ Ends(w)
  /\ answer' = [answer EXCEPT ![w] = result]

CheckStatus(w) ==
  /\ at[w] = "check" /\ MayRun(w)
  /\ \/ status = "Connected" /\ Return(w, "ok")
     \/ status = "Disconnected" /\ Return(w, "failed")
     \/ status \notin {"Connected", "Disconnected"} /\ Goto(w, "state")
          /\ UNCHANGED <<answer, states, signals>>
  /\ UNCHANGED <<status, error, peer_closed, signaling, races, transport, rtc, goodbye,
                 closer>>

\* Mutant: a transport that is set up passes for a connected one.
CheckTransportReady(w) ==
  /\ at[w] = "state" /\ MayRun(w)
  /\ Goto(w, IF transport \in {"Ready", "Connected"} THEN "connected" ELSE "recv")
  /\ UNCHANGED <<status, error, peer_closed, signalVars, linkVars, answer, closer>>

CheckTransport(w) ==
  /\ at[w] = "state" /\ MayRun(w)
  /\ Goto(w, IF transport = "Connected" THEN "connected" ELSE "recv")
  /\ UNCHANGED <<status, error, peer_closed, signalVars, linkVars, answer, closer>>

WaitReceives(w) ==
  /\ \/ ReceiveState(w, "Connected") /\ Goto(w, "connected")
     \/ ReceiveState(w, "Error") /\ Goto(w, "load")
     \/ \E s \in Other : ReceiveState(w, s) /\ Goto(w, "state")
  /\ UNCHANGED <<status, error, peer_closed, signalVars, transport, rtc, goodbye, answer,
                 closer>>

LinkUp(w) ==
  /\ at[w] = "connected" /\ MayRun(w)
  /\ status' = "Connected"
  /\ Return(w, "ok")
  /\ UNCHANGED <<error, peer_closed, signaling, races, transport, rtc, goodbye, closer>>

\* Mutant: set_transport_error does not look at peer_closed.
AlwaysError(t) ==
  /\ at[t] = "load" /\ MayRun(t)
  /\ Goto(t, "error")
  /\ UNCHANGED <<status, error, peer_closed, signalVars, linkVars, answer, closer>>

\* set_transport_error reads peer_closed, then writes the error.
LoadPeerClosed(t) ==
  /\ at[t] = "load" /\ MayRun(t)
  /\ Goto(t, IF peer_closed THEN "status" ELSE "error")
  /\ UNCHANGED <<status, error, peer_closed, signalVars, linkVars, answer, closer>>

SetTransportError(t) ==
  /\ at[t] = "error" /\ MayRun(t)
  /\ error' = "transport failed"
  /\ Goto(t, "status")
  /\ UNCHANGED <<status, peer_closed, signalVars, linkVars, answer, closer>>

\* set_status(Disconnected), the end of every failure.
SetDisconnected(t) ==
  /\ at[t] = "status" /\ MayRun(t)
  /\ status' = "Disconnected"
  /\ \/ t \in {"signal", "event"} /\ Goto(t, "recv") /\ UNCHANGED <<answer, states, signals>>
     \/ t = "transport" /\ Ends(t) /\ UNCHANGED answer
     \/ t \in Waiters /\ Return(t, "failed")
  /\ UNCHANGED <<error, peer_closed, signaling, races, transport, rtc, goodbye, closer>>

-----------------------------------------------------------------------------
(***************************************************************************)
(* handle_session_frame, for the close frame (run_transport_event_loop).   *)
(***************************************************************************)
HandleClose ==
  /\ at["event"] = "recv" /\ goodbye = "queued" /\ MayRun("event")
  /\ peer_closed' = TRUE
  /\ goodbye' = "handled"
  /\ Goto("event", "clear")
  /\ UNCHANGED <<status, error, signalVars, transport, states, rtc, answer, closer>>

ClearError ==
  /\ at["event"] = "clear" /\ MayRun("event")
  /\ error' = None
  /\ Goto("event", "status")
  /\ UNCHANGED <<status, peer_closed, signalVars, linkVars, answer, closer>>

-----------------------------------------------------------------------------
(***************************************************************************)
(* Session::close.  Module SessionControl has the calls that share it.     *)
(***************************************************************************)
Close ==
  /\ ~closed /\ Quiet
  /\ closer' = "closing"
  /\ UNCHANGED <<status, error, peer_closed, signalVars, linkVars, at, answer>>

RefuseWait(w) ==
  /\ at[w] = "new" /\ closed /\ Quiet
  /\ Return(w, "closed")
  /\ UNCHANGED <<status, error, peer_closed, signaling, races, transport, rtc, goodbye,
                 closer>>

\* An aborted task is destroyed at an await.
DestroyTask(t) ==
  /\ closed /\ at[t] \in {"start", "recv", "setup"} /\ Quiet
  /\ IF t \in Waiters THEN Return(t, "closed") ELSE Ends(t) /\ UNCHANGED answer
  /\ UNCHANGED <<status, error, peer_closed, signaling, races, transport, rtc, goodbye,
                 closer>>

\* Mutant: close does not wait for the tasks.
TeardownAtOnce ==
  /\ closer = "closing" /\ Quiet
  /\ SetTransport("Standby") \/ UNCHANGED <<transport, states>>
  /\ closer' = "torn"
  /\ UNCHANGED <<status, error, peer_closed, signalVars, rtc, goodbye, at, answer>>

\* wait_for_tasks returned; transport and signaling are torn down.  If the peer
\* connection cannot be closed the transport keeps its state.
Teardown ==
  /\ closer = "closing" /\ Quiet
  /\ \A t \in Tasks : at[t] \in {"new", "done"}
  /\ SetTransport("Standby") \/ UNCHANGED <<transport, states>>
  /\ closer' = "torn"
  /\ UNCHANGED <<status, error, peer_closed, signalVars, rtc, goodbye, at, answer>>

CloseEnds ==
  /\ closer = "torn" /\ Quiet
  /\ status' = "Disconnected"
  /\ closer' = "done"
  /\ UNCHANGED <<error, peer_closed, signalVars, linkVars, at, answer>>

-----------------------------------------------------------------------------
Init ==
  /\ status = "Created"
  /\ error = None
  /\ peer_closed = FALSE
  /\ signaling = "Standby"
  /\ signals = <<>>
  /\ races = 0
  /\ transport = "Standby"
  /\ states = [r \in Receivers |-> <<>>]
  /\ rtc = <<>>
  /\ goodbye = "none"
  /\ at = [t \in Tasks |-> "new"]
  /\ answer = [w \in Waiters |-> None]
  /\ closer = "open"
  /\ runtime \in Runtimes

SignalStep == SignalProgress \/ SetupTransport \/ SignalFails \/ StorePeerConnection \/ SetupEnds

FailStep(t) == LoadPeerClosed(t) \/ SetTransportError(t) \/ SetDisconnected(t)

WaitStep(w) == CheckStatus(w) \/ CheckTransport(w) \/ WaitReceives(w) \/ LinkUp(w)

Sources ==
  \/ \E s \in Reports(signaling) : SignalingReports(s)
  \/ \E s \in {"Handshake", "Encrypted", "Error"} : RacingReports(s)
  \/ \E i \in DOMAIN rtc :
       ChannelOpens(i) \/ ConnectionFails(i) \/ ChannelCloses(i) \/ PeerCloseArrives(i)

CloseStep == Teardown \/ CloseEnds

Step ==
  \/ Connect \/ StartEventLoops \/ ConnectEnds
  \/ \E t \in Loops : LoopStarts(t)
  \/ Sources
  \/ SignalStep \/ SetupFails \/ TransportLoop \/ HandleClose \/ ClearError
  \/ \E w \in Waiters : WaitForLink(w) \/ WaitStep(w) \/ RefuseWait(w)
  \/ \E t \in Tasks : FailStep(t) \/ DestroyTask(t)
  \/ Close \/ CloseStep

Next == Step /\ UNCHANGED runtime

Spec == Init /\ [][Next]_<<vars, runtime>>

\* The runtime polls what is ready, and a peer that said goodbye closes its
\* channel (close goes on to teardown).  Nothing else makes the peer, the
\* network or the callers act.
Fairness ==
  /\ WF_vars(StartEventLoops)
  /\ \A t \in Loops : WF_vars(LoopStarts(t))
  /\ WF_vars(SignalStep) /\ WF_vars(TransportLoop)
  /\ WF_vars(HandleClose \/ ClearError)
  /\ \A w \in Waiters : WF_vars(WaitStep(w))
  /\ \A t \in Tasks : WF_vars(FailStep(t)) /\ WF_vars(DestroyTask(t))
  /\ WF_vars(CloseStep)
  /\ WF_vars(goodbye # "none" /\ \E i \in DOMAIN rtc : ChannelCloses(i))

FairSpec == Spec /\ Fairness

-----------------------------------------------------------------------------
SessionState   == {"Created", "Signaling", "Ready", "Linking", "Connected", "Disconnected"}
SignalState    == {"Standby", "Connecting", "Ready", "Handshake", "HandshakePartial",
                   "Encrypted", "Error"}
TransportState == {"Standby", "Connecting", "Ready", "Connected", "Error"}

\* The type invariant.
TypeOK ==
  /\ status \in SessionState
  /\ error \in {None, "no common transport", "signaling failed", "setup failed",
                "transport failed"}
  /\ peer_closed \in BOOLEAN
  /\ signaling \in SignalState /\ signals \in Seq(SignalState) /\ races \in Nat
  /\ transport \in TransportState /\ states \in [Receivers -> Seq(TransportState)]
  /\ rtc \in Seq({"stored", "lost", "open", "failed", "closed"})
  /\ goodbye \in {"none", "queued", "handled"}
  /\ at \in [Tasks -> Suspended \cup {"spawn", "status", "stored", "load", "error", "clear",
                                      "check", "state", "connected"}]
  /\ answer \in [Waiters -> {None, "ok", "failed", "closed"}]
  /\ closer \in {"open", "closing", "torn", "done"}
  /\ runtime \in Runtimes

\* Once close has returned the status is Disconnected and no task that was
\* still running when close was called overwrites it.
CloseIsFinal == closer = "done" => status = "Disconnected"

\* A data channel has opened; an open channel may have failed or closed since.
Opened == \E i \in DOMAIN rtc : rtc[i] \in {"open", "failed", "closed"}

\* wait_for_link returns Ok, and the status is Connected, only after a data
\* channel opened, whatever reports were missed, delayed or read late, and however
\* often setup ran.
LinkIsReal ==
  (status = "Connected" \/ \E w \in Waiters : answer[w] = "ok") => Opened

\* A session its peer closed reports no error: the failure of the transport
\* that follows the close frame, or that was handled before it, is not kept.
\* (Claimed for a current-thread runtime.)
CleanGoodbye == ~runtime.preemptive /\ ~runtime.racing /\ peer_closed /\ at["event"] # "clear" => error = None

Unopened == \A i \in DOMAIN rtc : rtc[i] = "stored"

\* A caller that waits while no channel has opened or failed returns when one
\* does: no report falls between its checks and its receive.
LinkWaitReturns ==
  \A w \in Waiters :
    []((at[w] \notin {"new", "done"} /\ Unopened) => (<>(at[w] = "done") \/ []Unopened))

\* A transport that failed leaves the session Disconnected for good: a call of
\* wait_for_link that begins later does not take it for connected.  (Not claimed
\* while a call is in flight, see PeerCloseEnds, nor in a race, where a late report
\* may set the status to Linking or begin another setup.)
FailureReported ==
  (/\ runtime.prompt /\ ~runtime.racing
   /\ \E i \in DOMAIN rtc : rtc[i] \in {"lost", "failed", "closed"}
   /\ at["transport"] # "done" /\ \A w \in Waiters : at[w] \in {"new", "done"})
    ~> [](status = "Disconnected")

\* The peer's close ends the session for good
\* (peer_close_ends_the_session_and_fails_open_requests_at_once).
PeerCloseEnds == peer_closed ~> [](status = "Disconnected")

\* A session that cannot go on (the handshake failed, or the peers have no
\* transport in common) says so, unless it is being closed.  (Not claimed in a
\* race: Encrypted may follow Error, and the session that has reported
\* Disconnected then connects.)
DeadEndReported ==
  (/\ runtime.prompt /\ ~runtime.racing
   /\ signaling = "Error" \/ error = "no common transport")
    ~> (closed \/ [](status = "Disconnected" /\ (closed \/ error # None)))

-----------------------------------------------------------------------------
(***************************************************************************)
(* The inductive invariant.  Every trace of Connected, in the status, in   *)
(* the transport, in a queue or in a waiter, comes from an open channel;   *)
(* past its join close is alone; and when the peer's close frame has been  *)
(* handled no task is left that would still record a failure.              *)
(***************************************************************************)
ConnectedTraced ==
  /\ transport = "Connected" => Opened
  /\ \A r \in Receivers : \A i \in DOMAIN states[r] : states[r][i] = "Connected" => Opened
  /\ \A w \in Waiters : at[w] = "connected" => Opened

CloseAlone == closer \in {"torn", "done"} => \A t \in Tasks : at[t] \in {"new", "done"}

Pending == {i \in DOMAIN signals : signals[i] = "Encrypted"}

NotStarted == at["connect"] \in {"new", "spawn"} => signaling = "Standby"

\* Unless its tasks race the signaling layer reports Encrypted once, so setup runs
\* once and there is one peer connection.
SetupOnce ==
  ~runtime.racing =>
    /\ signaling # "Encrypted" =>
         Pending = {} /\ at["signal"] \notin {"setup", "stored"} /\ rtc = <<>>
    /\ at["signal"] = "setup" => Pending = {}
    /\ Pending # {} \/ at["signal"] = "setup" => rtc = <<>>
    /\ \A i, j \in Pending : i = j
    /\ Len(rtc) <= 1

\* On a runtime that is not preemptive one task at a time is between two awaits.
OneRuns ==
  ~runtime.preemptive =>
    \A t, u \in Tasks : at[t] \in Suspended \/ at[u] \in Suspended \/ t = u

GoodbyeTraced ==
  /\ goodbye # "none" => Opened
  /\ peer_closed => goodbye # "none"
  /\ ~runtime.racing /\ signaling # "Error" => \A i \in DOMAIN signals : signals[i] # "Error"
  /\ ~runtime.preemptive /\ peer_closed => \A t \in Tasks : at[t] # "error"

Inv ==
  /\ TypeOK /\ CloseIsFinal /\ LinkIsReal /\ ConnectedTraced /\ CloseAlone /\ NotStarted
  /\ SetupOnce /\ OneRuns /\ GoodbyeTraced /\ CleanGoodbye
=============================================================================
