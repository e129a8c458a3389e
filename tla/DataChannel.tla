----------------------------- MODULE DataChannel -----------------------------
(***************************************************************************)
(* One side of a data channel, from the end of setup: send, teardown,       *)
(* wait_for and the poll loop of crates/openlv/src/transport/webrtc.rs,    *)
(* and close of session/mod.rs, which sends the Close frame, waits for the *)
(* session's tasks and tears the transport down.                           *)
(*                                                                         *)
(* send_text only puts a frame in the buffer of the channel.  WebRTC sends *)
(* the buffer and then reports OnBufferedAmountLow, which the poll loop    *)
(* handles some time later; `unflushed` is what teardown knows of it.      *)
(* Closing a channel loses what is still in its buffer.                    *)
(***************************************************************************)
EXTENDS Naturals, Sequences

CONSTANTS
  Frames,         \* frames that tasks of the session send
  Waiters,        \* calls of wait_for(Connected)
  None,           \* Rust's Option::None
  StateCapacity,  \* capacity of the broadcast of states (the code: 32)
  EventCapacity,  \* capacity of the queue of TransportEvents (the code: 64)
  MaxReceived     \* bound: frames the peer sends

Close   == "Close"               \* the frame that close sends
Senders == Frames \cup {Close}

VARIABLES
  state,         \* TransportState
  data_channel,  \* the data_channel slot: "empty", "stored" or "taken"
  holder,        \* the task that holds the mutex of that slot
  unflushed,     \* the watch that teardown waits on
  rtc,           \* the connection, up to "channel closed" and "closed"
  reported,      \* on_connection_state_change was called for its end
  buffered,      \* frames in the buffer of the channel
  channel_events,  \* DataChannelEvents the poll loop has not polled
  poller,        \* the poll loop: "new", "running" or "ended"
  inbound,       \* frames of the peer the session's event loop has not taken
  received,      \* frames the peer has sent
  at,            \* where each send is
  teardown,      \* where close is, once its frame was sent or refused
  waiter,        \* each wait_for: where it is, and its receiver
  history        \* late: the flush timed out; stale: a Low was handled after the
                 \* send of the Close frame, with the frame in the buffer; lost:
                 \* frames that teardown dropped

stateVars   == <<state, waiter>>
slotVars    == <<data_channel, holder, unflushed>>
channelVars == <<rtc, reported, buffered, channel_events, received>>
loopVars    == <<poller, inbound>>
closeVars   == <<at, teardown, history>>
vars == <<stateVars, slotVars, channelVars, loopVars, closeVars>>

-----------------------------------------------------------------------------
(***************************************************************************)
(* set_state and wait_for.                                                 *)
(***************************************************************************)
Subscribed(w) == waiter[w].at \in {"check", "recv"}

\* A receiver that has not kept up loses the oldest state.
Deliver(w, s) ==
  IF ~Subscribed(w) THEN waiter[w]
  ELSE IF Len(waiter[w].queue) < StateCapacity
       THEN [waiter[w] EXCEPT !.queue = Append(@, s)]
       ELSE [waiter[w] EXCEPT !.queue = Append(Tail(@), s), !.lagged = TRUE]

\* Mutant: the state is stored and not broadcast.
SetStateSilently(s) == state' = s /\ UNCHANGED waiter

SetState(s) ==
  /\ state' = s
  /\ waiter' = [w \in Waiters |-> Deliver(w, s)]

Fresh    == [at |-> "new", queue |-> <<>>, lagged |-> FALSE]
Returned == [Fresh EXCEPT !.at = "done"]
MoveWaiter(w, r) ==
  /\ waiter' = [waiter EXCEPT ![w] = r]
  /\ UNCHANGED <<state, slotVars, channelVars, loopVars, closeVars>>

WaitFor(w) == waiter[w].at = "new" /\ MoveWaiter(w, [Fresh EXCEPT !.at = "check"])

\* The check before the loop, and after every other state.
CheckState(w) ==
  /\ waiter[w].at = "check"
  /\ MoveWaiter(w, IF state = "Connected" THEN Returned ELSE [waiter[w] EXCEPT !.at = "recv"])

ReceiveState(w) ==
  /\ waiter[w].at = "recv" /\ waiter[w].queue # <<>>
  /\ MoveWaiter(w,
       IF waiter[w].lagged THEN [waiter[w] EXCEPT !.at = "check", !.lagged = FALSE]
       ELSE IF Head(waiter[w].queue) = "Connected" THEN Returned
       ELSE [waiter[w] EXCEPT !.at = "check", !.queue = Tail(@)])

-----------------------------------------------------------------------------
(***************************************************************************)
(* send.                                                                   *)
(***************************************************************************)
Closing == at[Close] # "new"

Goto(m, pc) == at' = [at EXCEPT ![m] = pc]
Release(m)  == holder' = IF holder = m THEN None ELSE holder

\* Nothing is sent once close was called but its own frame.
Send(m) ==
  /\ at[m] = "new" /\ (m # Close => ~Closing)
  /\ Goto(m, IF state = "Connected" THEN "lock" ELSE "failed")
  /\ UNCHANGED <<stateVars, slotVars, channelVars, loopVars, teardown, history>>

LockDataChannel(m) ==
  /\ at[m] = "lock" /\ holder = None
  /\ IF data_channel = "stored" THEN holder' = m /\ Goto(m, "sending")
     ELSE UNCHANGED holder /\ Goto(m, "failed")
  /\ UNCHANGED <<stateVars, data_channel, unflushed, channelVars, loopVars, teardown, history>>

\* send_text returned Ok (its frame is in the buffer before it returns) or Err.
SendText(m) ==
  /\ at[m] = "sending"
  /\ \/ /\ rtc \in {"open", "failed"}
        /\ buffered' = buffered \cup {m}
        /\ Goto(m, "sent") /\ UNCHANGED holder
     \/ Goto(m, "failed") /\ Release(m) /\ UNCHANGED buffered
  /\ UNCHANGED <<stateVars, data_channel, unflushed, rtc, reported, channel_events, received,
                 loopVars, teardown, history>>

\* Mutant: a send does not say that there is something to flush.
MarkNothing(m) ==
  /\ at[m] = "sent"
  /\ Release(m) /\ Goto(m, "done")
  /\ UNCHANGED <<stateVars, data_channel, unflushed, channelVars, loopVars, teardown, history>>

MarkUnflushed(m) ==
  /\ at[m] = "sent"
  /\ unflushed' = TRUE
  /\ Release(m) /\ Goto(m, "done")
  /\ UNCHANGED <<stateVars, data_channel, channelVars, loopVars, teardown, history>>

\* close aborts the other tasks; a task is dropped at an await.
DestroySender(m) ==
  /\ Closing /\ m # Close /\ at[m] \in {"lock", "sending", "sent"}
  /\ Release(m) /\ Goto(m, "failed")
  /\ UNCHANGED <<stateVars, data_channel, unflushed, channelVars, loopVars, teardown, history>>

-----------------------------------------------------------------------------
(***************************************************************************)
(* close: wait_for_tasks, then teardown of the transport.                  *)
(***************************************************************************)
\* Every task of the session, its event loop included, is destroyed.
WaitForTasks ==
  /\ teardown = "none" /\ at[Close] \in {"done", "failed"}
  /\ \A m \in Frames : at[m] \in {"new", "done", "failed"}
  /\ teardown' = "flush"
  /\ inbound' = 0
  /\ UNCHANGED <<stateVars, slotVars, channelVars, poller, at, history>>

Flushed ==
  /\ teardown = "flush" /\ ~unflushed
  /\ teardown' = "take"
  /\ UNCHANGED <<stateVars, slotVars, channelVars, loopVars, at, history>>

\* Mutant: the wait has no end of its own.
NoTimeout == FALSE /\ UNCHANGED vars

\* CLOSE_FLUSH_TIMEOUT.
FlushTimesOut ==
  /\ teardown = "flush" /\ unflushed
  /\ teardown' = "take"
  /\ history' = [history EXCEPT !.late = TRUE]
  /\ UNCHANGED <<stateVars, slotVars, channelVars, loopVars, at>>

\* What closing a channel or its connection does to it: its poll loop is told,
\* or just ends.
EndChannel(to) ==
  /\ rtc' = to
  /\ buffered' = {}
  /\ \/ channel_events' = Append(channel_events, "close")
     \/ UNCHANGED channel_events
  /\ UNCHANGED <<reported, received>>

CloseDataChannel ==
  /\ teardown = "take" /\ holder = None
  /\ teardown' = "close"
  /\ \/ data_channel = "stored" /\ data_channel' = "taken"
        /\ IF rtc = "channel closed" THEN UNCHANGED <<channelVars, history>>
           ELSE EndChannel("channel closed") /\ history' = [history EXCEPT !.lost = buffered]
     \/ data_channel # "stored" /\ UNCHANGED <<data_channel, channelVars, history>>
  /\ UNCHANGED <<stateVars, holder, unflushed, loopVars, at>>

\* pc.close() succeeds, or its error is returned and the state stays.
ClosePeerConnection ==
  /\ teardown = "close"
  /\ \/ teardown' = "standby"
     \/ teardown' = "failed"
  /\ IF rtc = "channel closed"
     THEN rtc' = "closed" /\ UNCHANGED <<reported, buffered, channel_events, received>>
     ELSE EndChannel("closed")
  /\ UNCHANGED <<stateVars, slotVars, loopVars, at, history>>

SetStandby ==
  /\ teardown = "standby"
  /\ teardown' = "done"
  /\ SetState("Standby")
  /\ UNCHANGED <<slotVars, channelVars, loopVars, at, history>>

-----------------------------------------------------------------------------
(***************************************************************************)
(* store_and_poll_dc, and what WebRTC does.                                *)
(***************************************************************************)
\* on_data_channel of the client (the host stores the channel it creates).
StoreDataChannel ==
  /\ poller = "new" /\ holder = None /\ rtc = "open"
  /\ data_channel' = "stored"
  /\ poller' = "running"
  /\ UNCHANGED <<stateVars, holder, unflushed, channelVars, inbound, closeVars>>

Polls(event) ==
  /\ poller = "running" /\ channel_events # <<>> /\ Head(channel_events) = event
  /\ channel_events' = Tail(channel_events)
  /\ UNCHANGED <<data_channel, holder, rtc, reported, buffered, received, at, teardown>>

OnOpen ==
  /\ Polls("open")
  /\ SetState("Connected")
  /\ UNCHANGED <<unflushed, loopVars, history>>

\* The event queue is full: the loop waits, unless the receiver is gone.
OnMessage ==
  /\ Polls("message")
  /\ \/ teardown # "none" /\ UNCHANGED inbound
     \/ teardown = "none" /\ inbound < EventCapacity /\ inbound' = inbound + 1
  /\ UNCHANGED <<stateVars, unflushed, poller, history>>

OnBufferedAmountLow ==
  /\ Polls("low")
  /\ unflushed' = FALSE
  /\ history' = [history EXCEPT !.stale = @ \/ (Close \in buffered /\ at[Close] = "done")]
  /\ UNCHANGED <<stateVars, loopVars>>

OnClose ==
  /\ Polls("close")
  /\ unflushed' = FALSE
  /\ SetState("Error")
  /\ poller' = "ended"
  /\ UNCHANGED <<inbound, history>>

\* poll returns None.
PollEnds ==
  /\ poller = "running" /\ channel_events = <<>> /\ rtc \in {"channel closed", "closed"}
  /\ poller' = "ended"
  /\ UNCHANGED <<stateVars, slotVars, channelVars, inbound, closeVars>>

\* run_transport_event_loop takes a frame.
TakeFrame ==
  /\ inbound > 0
  /\ inbound' = inbound - 1
  /\ UNCHANGED <<stateVars, slotVars, channelVars, poller, closeVars>>

\* Both ends of the connection are up (Negotiation!ChannelOpens).
ChannelOpens ==
  /\ rtc = "connecting"
  /\ rtc' = "open"
  /\ channel_events' = Append(channel_events, "open")
  /\ UNCHANGED <<stateVars, slotVars, reported, buffered, received, loopVars, closeVars>>

\* The buffer is sent.
Transmit ==
  /\ rtc = "open" /\ buffered # {}
  /\ buffered' = {}
  /\ channel_events' = Append(channel_events, "low")
  /\ UNCHANGED <<stateVars, slotVars, rtc, reported, received, loopVars, closeVars>>

PeerSends ==
  /\ rtc = "open" /\ received < MaxReceived
  /\ received' = received + 1
  /\ channel_events' = Append(channel_events, "message")
  /\ UNCHANGED <<stateVars, slotVars, rtc, reported, buffered, loopVars, closeVars>>

\* The peer closes the channel.
PeerCloses ==
  /\ rtc = "open"
  /\ EndChannel("channel closed")
  /\ UNCHANGED <<stateVars, slotVars, loopVars, closeVars>>

ConnectionFails ==
  /\ rtc \in {"connecting", "open"}
  /\ rtc' = "failed"
  /\ UNCHANGED <<stateVars, slotVars, reported, buffered, channel_events, received, loopVars,
                 closeVars>>

\* on_connection_state_change: Failed or Closed.
OnConnectionStateChange ==
  /\ rtc \in {"failed", "closed"} /\ ~reported
  /\ reported' = TRUE
  /\ SetState("Error")
  /\ UNCHANGED <<slotVars, rtc, buffered, channel_events, received, loopVars, closeVars>>

-----------------------------------------------------------------------------
\* setup has returned.
Init ==
  /\ state = "Ready"
  /\ \/ data_channel = "stored" /\ poller = "running"  \* the host
     \/ data_channel = "empty" /\ poller = "new"        \* the client
  /\ holder = None
  /\ unflushed = FALSE
  /\ rtc = "connecting"
  /\ reported = FALSE
  /\ buffered = {}
  /\ channel_events = <<>>
  /\ inbound = 0
  /\ received = 0
  /\ at = [m \in Senders |-> "new"]
  /\ teardown = "none"
  /\ waiter = [w \in Waiters |-> Fresh]
  /\ history = [late |-> FALSE, stale |-> FALSE, lost |-> {}]

SendStep(m) == LockDataChannel(m) \/ SendText(m) \/ MarkUnflushed(m) \/ DestroySender(m)
WaitStep(w) == CheckState(w) \/ ReceiveState(w)

TeardownStep ==
  WaitForTasks \/ Flushed \/ FlushTimesOut \/ CloseDataChannel \/ ClosePeerConnection \/ SetStandby

PollLoop == OnOpen \/ OnMessage \/ OnBufferedAmountLow \/ OnClose \/ PollEnds

WebRTC ==
  \/ ChannelOpens \/ StoreDataChannel \/ Transmit \/ PeerSends \/ PeerCloses \/ ConnectionFails
  \/ OnConnectionStateChange

Next ==
  \/ \E m \in Senders : Send(m) \/ SendStep(m)
  \/ \E w \in Waiters : WaitFor(w) \/ WaitStep(w)
  \/ TeardownStep \/ PollLoop \/ TakeFrame \/ WebRTC

Spec == Init /\ [][Next]_vars

\* Woken tasks run, send_text returns and a timer that is due fires.  Nothing is
\* asked of the network: the buffer may never be sent.
Fairness ==
  /\ \A m \in Senders : WF_vars(SendStep(m))
  /\ \A w \in Waiters : WF_vars(WaitStep(w))
  /\ WF_vars(TeardownStep) /\ WF_vars(PollLoop)

-----------------------------------------------------------------------------
TransportStates == {"Standby", "Connecting", "Ready", "Connected", "Error"}

\* The type invariant.
TypeOK ==
  /\ state \in TransportStates
  /\ data_channel \in {"empty", "stored", "taken"}
  /\ holder \in Senders \cup {None}
  /\ unflushed \in BOOLEAN /\ reported \in BOOLEAN
  /\ rtc \in {"connecting", "open", "failed", "channel closed", "closed"}
  /\ buffered \subseteq Senders
  /\ channel_events \in Seq({"open", "message", "low", "close"})
  /\ poller \in {"new", "running", "ended"}
  /\ inbound \in 0 .. EventCapacity /\ received \in 0 .. MaxReceived
  /\ at \in [Senders -> {"new", "lock", "sending", "sent", "done", "failed"}]
  /\ teardown \in {"none", "flush", "take", "close", "standby", "done", "failed"}
  /\ waiter \in [Waiters -> [at : {"new", "check", "recv", "done"},
                             queue : Seq(TransportStates), lagged : BOOLEAN]]
  /\ history \in [late : BOOLEAN, stale : BOOLEAN, lost : SUBSET Senders]

\* The goodbye leaves: teardown drops the Close frame only if the buffer was not
\* sent within CLOSE_FLUSH_TIMEOUT, or if a Low that was reported before the
\* frame was sent is handled after send has returned (then the flush is not
\* waited for).
CloseFlushed == Close \in history.lost => history.late \/ history.stale

\* close ends whatever the network does, also when the buffer is never sent.
TeardownEnds == Closing ~> teardown \in {"done", "failed"}

\* A wait_for(Connected) returns while the transport is connected.
WaitForReturns ==
  \A w \in Waiters : []<>(waiter[w].at \in {"check", "recv"} => state # "Connected")

-----------------------------------------------------------------------------
(***************************************************************************)
(* The inductive invariant.                                                *)
(***************************************************************************)
\* The slot is locked by the task that sends, and by no task once teardown has
\* begun, so that teardown never waits for a send.
SlotOK ==
  /\ \A m \in Senders : holder = m <=> at[m] \in {"sending", "sent"}
  /\ teardown # "none" =>
       at[Close] \in {"done", "failed"} /\ \A m \in Frames : at[m] \in {"new", "done", "failed"}
  /\ \A m \in buffered : at[m] \in {"sent", "done", "failed"}

\* A channel that ended has an empty buffer, and no other channel reports its
\* end; a Close frame that was sent and is still in the buffer keeps the flush
\* waiting, unless a Low came in between or the wait is over.
FlushOK ==
  LET excused == history.late \/ history.stale IN
  /\ rtc \in {"channel closed", "closed"} => buffered = {}
  /\ (\E i \in DOMAIN channel_events : channel_events[i] = "close")
       => rtc \in {"channel closed", "closed"}
  /\ Close \in buffered =>
       /\ at[Close] \in {"sent", "done"}
       /\ at[Close] = "done" => unflushed \/ excused
       /\ teardown \notin {"none", "flush"} => excused

Inv == TypeOK /\ SlotOK /\ FlushOK /\ CloseFlushed
=============================================================================
