# A TLA+ model of openlv-rs

openlv-rs connects a dApp and a wallet. They meet on a topic of a public broker
(ntfy or MQTT), agree on keys there (*signaling*), use that encrypted channel to
negotiate a WebRTC data channel (*transport*), and then exchange requests and
responses over it (*session*). A UniFFI bridge hands the remote requests to
native code.

The modules below model these parts, above all where they run concurrently. TLC
checks them on small instances and TLAPS proves their safety properties for every
instance. `PROJECT.json` maps each definition to the lines it models.

## Inventory

| Component | State it keeps | Operations | Hard because |
|---|---|---|---|
| Signaling layer (`signaling/layer`) | `state`, `relying_key`, `peer_capabilities`, resend and deadline tasks, the channel | `setup`, `teardown`, `send`, `handle_receive` | a task per frame; frames lost, repeated, reordered, meant for others; timer; failing publishes |
| Session control (`session/control`) | `closed`, `active_handlers`, the `JoinSet` | `spawn`, `run_operation`, `admit_handler`, `close`, `wait_for_tasks` | aborts are requests; close races admission; futures may be dropped anywhere |
| Session (`session`) | `status`, `error`, `peer_closed` | `connect`, `close`, `wait_for_link`, four event loops | five writers of one status, each behind a queue of its own |
| Requests (`session`, `session/response`) | open requests, `response_tx` | `send_with_timeouts`, `receive_response`, `dispatch_request`, `handle_remote_request` | deadlines against late answers, one broadcast for all requests, lag, peer's close |
| WebRTC transport (`transport/webrtc.rs`) | peer connection, data channel, `pending_candidates`, `unflushed` | `setup`, `handle`, `send`, `teardown`, `wait_for`, the poll loop | candidates overtake descriptions; callbacks; a flush reported late; a mutex held across awaits |
| Native bridge (`openlv-ffi`) | `pending` map, request queue, `stop` | `handle`, `next`, `reply`, `fail`, `stop` | native threads, dropped futures, stop against registration |
| ntfy and MQTT channels (`signaling/ntfy`, `signaling/mqtt`) | websocket or client, handler, reader task | `setup`, `publish`, `subscribe`, `teardown` | confirmation against its timeout; a reader busy with an attachment; close during setup or a publish; messages after teardown |
| Session construction and URLs (`session`, `url`, `ntfy/url`, `encryption/hash`) | none | `create_session`, `connect_session`, the builder, `to_url`, `from_url` | two programs must come to the same topic, key and roles through one string |
| Wire frames, messages, encryption, providers | none | conversions | - |

How they interact: `Session::connect` spawns the event loops and calls
`SignalingLayer::setup`. The layer broadcasts its state; on `Encrypted` the signal
loop calls `TransportLayer::setup`. Offer, answer and candidates are
`TransportEvent`s that the event loop relays through `SignalingLayer::send`; the
peer's message loop passes them to `TransportLayer::handle`. The transport
broadcasts its state to the transport loop and to `wait_for_link`, and its messages
reach `handle_session_frame`, which dispatches requests to handlers and broadcasts
answers to open requests. Every task except the signaling layer's own belongs to
the session control, and `close` aborts and joins them before it tears both layers
down. The bridge is the request handler of a session.

What makes each part correct:

* signaling: both sides agree on who they are paired with, one wallet per dApp,
  data only from that peer; a handshake ends, and completes if frames get through;
* control: nothing starts after close, permits are exact, close leaves no task;
* session: the status tells the truth about the link and `close` has the last word;
* requests: an answer is the answer to this request, within its time;
* transport: no candidate is forgotten because of the order of messages; the goodbye
  leaves before the channel is closed; `teardown` and `wait_for` return;
* channels: both keep the same promise to the layer, and setup and close end;
* construction: a wallet with the URL of a dApp finds it;
* bridge: no entry leaks, no answer or request is lost, nothing hangs after stop.

## Modules

| Module | Models | Checked by | Proofs |
|---|---|---|---|
| `Signaling` | `signaling/layer/mod.rs` for any number of peers on a topic | `MCSignaling` | `SignalingProofs` |
| `Pairing` | what the handshake promises (abstract) | through `Signaling` | `SignalingProofs` |
| `SessionControl` | `session/control/mod.rs` and `Session::close` | `MCSessionControl` | `SessionControlProofs` |
| `Session` | status, loops and `wait_for_link` of `session/mod.rs` | `MCSession` | `SessionProofs` |
| `Exchange` | requests, from `send_with_timeouts` to the peer's handler and back | `MCExchange` | `ExchangeProofs` |
| `NativeRequests` | `Requests` of `openlv-ffi` | `MCNativeRequests` | `NativeRequestsProofs` |
| `Negotiation` | `setup` and `handle` of `transport/webrtc.rs` on both sides | through `Transport` | `TransportProofs` |
| `DataChannel` | `send`, `teardown`, `wait_for` and the poll loop of `transport/webrtc.rs` on one side | through `Transport` | `TransportProofs` |
| `Transport` | `Negotiation`, then `DataChannel` | `MCTransport` | `TransportProofs` |
| `ChannelContract` | what a `SignalingChannel` promises (abstract) | through `Channel` | `RendezvousProofs` |
| `Channel` | `signaling/ntfy`, `signaling/mqtt` and the layer's use of them | through `Rendezvous` | `RendezvousProofs` |
| `Joining` | session construction, URLs, `create_dapp` and `create_wallet` | through `Rendezvous` | `RendezvousProofs` |
| `Rendezvous` | `Joining`, then `Channel` | `MCRendezvous` | `RendezvousProofs` |
| `SequenceLemmas` | none: facts about queues that the proofs share | - | itself |

An `MC` module only adds what an instance needs: symmetry sets, the URL each wallet
scanned (`MCSignaling`), the runtimes considered (`MCSession`).

### Conventions

A task is a program counter; the step from one value to the next is the code
between two awaits. On a current-thread runtime another task runs only when this one
is at an await; on a multi-thread runtime tasks also interleave where one has read
shared state and not yet acted on it. `Signaling` has a constant `Preemptive` for
this, `Session` a variable `runtime` that is chosen once, in `Init`, from `Runtimes`.
An abort takes effect at an await. Definitions whose comment begins with "Mutant" are
plausible bugs; each property is violated when one of them replaces the definition
after it.

### Signaling

A peer *is* its key pair. A frame is a kind, the key that sent it and the key that
opens it (`None`: the handshake key of the URL); encryption is ideal. `Receive` is
`handle_receive` up to validation, `Match` reads the state and chooses an arm,
`FlashArm`, `HostKeyArm`, `HostKeyMismatch`, `ClientKeyArm` and `CapabilitiesArm`
are the arms, `Publish`, `Repeat`, `Reply`, `PublishFails` are `send_repeating` and
`send_message` around the channel mutex, `Resend` is the two-second tick,
`DeadlineFires` and `DeadlineExpires` the check and the act of the deadline.
`detached` holds the resend tasks whose handle was overwritten. The network is a
set of (recipient, frame): identical frames in flight are one, delivery is in any
order, and resending makes duplicates. A frame that sits in the network is the same
as a delayed one, so `Lose` only acts where the frame could have been received.
A frame may still be handed to the layer after its teardown, as `ChannelContract` allows.
The branch of `setup` for a layer that can already encrypt (lines 135-136) cannot
be reached: a session connects once, and a frame that arrives before the state
leaves `Connecting` matches no arm.

### SessionControl

Each action that holds the control lock is one step. `work` follows operations and
remote requests; an aborted task may still finish. `initializer` is the caller of
`close` inside `OnceCell::get_or_init`, `taken` the `JoinSet` it moved out of the
control. `CancelClose` is a caller that drops its future, which the bridge does
when a foreign future is dropped. `Within` says which calls of `close` are made by a
request handler: such a call goes away with its handler, wherever it is, when `close`
destroys the handler's task.

### Session

Signaling and WebRTC appear as what they report (`SignalingReports`,
`ChannelOpens`, `ConnectionFails`, `ChannelCloses`, `PeerCloseArrives`), each
report queued for whoever is subscribed; a task that ends drops its receiver and what
is in it (`Ends`). `Reports` is the order in which the signaling layer passes through its
states. On threads its tasks race: between the match (`layer/mod.rs:383`) or the check of
the deadline (`250`) and the state that is set then, another task may set one. `Session`
has what this means to it as `RacingReports`: after the handshake has ended, `Encrypted`
once more or after `Error`, `Error` after `Encrypted`, or a late `Handshake`. `Encrypted`
twice makes `transport.setup` run twice, so `rtc` is the sequence of peer connections: a
second one replaces the first in the transport, but the callbacks and the poll loop of the
first go on reporting. `set_transport_error` is two steps,
because it loads `peer_closed` and then writes `error`. `Teardown` waits until all
tasks are gone, which is what `SessionControl` establishes. A runtime is `prompt` when
the spawned loops have subscribed before the signaling server, a network round trip
away, can report anything; the two properties that need this say so. Receivers do not lag:
the broadcasts hold 32 states and a session reports fewer than ten a connection.

### Exchange

Both ends of one data channel: open requests with their deadline and receiver on
one side, dispatch, ack, handler and reply on the other. With `Prompt`, time does not
pass while a message that is ready waits to be polled. The deadline is the time
left, counted down by `Tick`; `late` counts the messages a request has taken since its
deadline passed, which is at most the one that was being polled. `Deliver` is tokio's broadcast with its lag.
`RepeatAck` is a peer that acknowledges twice, against which `receive_response`
guards. The close of the requester itself is in `SessionControl`.

### NativeRequests

The oneshot channel of a request is `sender` (who owns the sending end) and `sent`.
Everything under the `pending` lock is one step. `Stop` is the bridge's `shutdown` or
`Drop`, `CloseSession` the core being closed. `respond` accepts any text; what `handle`
returns for one that is not JSON is an error, as for `fail`, and the core answers the
peer with `failed` (`Answer`, with the constant `Json` for the calls whose text is
JSON). A foreign call may be dropped at any await, with whatever it had taken from the
queue.

### Negotiation, DataChannel, Transport

`Negotiation`: offer, answer and candidates of both sides on their way through the event
queue, the network and the message loop, one await of `setup` and `handle` at a time. The
client is encrypted before the host (`HostCompletesLast` of `Signaling`). `faults`
records whether a frame was lost, or came before its peer connection was stored, and
whether WebRTC refused something, so that each property can say which of these it
survives.

`DataChannel`: `Send`, `LockDataChannel`, `SendText` and `MarkUnflushed` are the awaits of
`send`, which holds the mutex of the data channel from the second to the last. `buffered`
is what WebRTC has taken and not sent; `Transmit` sends it and queues the
`OnBufferedAmountLow` that the poll loop handles some time later. `WaitForTasks`,
`Flushed` or `FlushTimesOut`, `CloseDataChannel`, `ClosePeerConnection` and `SetStandby`
are close and `teardown`. The poll loop stops while the event queue is full. `history`
records what a property needs to know of the past: whether the flush timed out, whether
a `Low` of earlier frames was handled after the send of the Close frame had returned, with
the frame still in the buffer, and what
was dropped. Only `wait_for(Connected)` is modelled; other targets differ in nothing.

`Transport` runs the second after the first, for one of the two sides.

### Channel, ChannelContract

`setup`, `lock`, `publish` and `closing` are the layer's use of its channel, which it keeps
in a mutex; the rest is the channel. For ntfy, `reader` is the spawned task: in `select` it
takes a frame or the shutdown, in `fetch` it waits for an attachment and sees neither.
A message is skipped only if the request for its attachment fails: the status of the
response is not looked at, so the text of an error response is handed over as the message,
which counts as the message here since messages are names.
For MQTT every message becomes a task of its own. Setup may be aborted by close at each
await, and its reader is then left to teardown. The server confirms, passes messages on,
or closes, at any time; a message that is published before the subscription is not
delivered. `RefinesContract` maps `opened` to the stored handler, `torn` to a finished
teardown, and what was heard to a set: the contract promises no order, which MQTT would
not keep. `ChannelInv` adds that ntfy does keep it.

### Joining, Rendezvous

Sessions, URLs and servers are records of tokens. `CreateDapp` and `CreateWallet` are the
bridge's functions and the builder, `CreateSession` and `ConnectSession` the core's. An
upper-case protocol name or key is another token than the lower-case one, so that the
conversions (`SignalingProtocol::from`, `HandshakeKey::from_hex`) matter. `ForeignUrls` are
URLs this code did not make: wrong in one respect, with a parameter left out or given
twice. `Rendezvous` follows the signaling channel of the two once both have a session.

## Runs

All runs disable the deadlock check: a session may be linked, closed or given up,
and then nothing more happens.

| Run | Shows | Instance |
|---|---|---|
| `SignalingPairs` | `Inv`, `KeysAgree`, `OneClientLinks`, `HostCompletesLast`, `DataFromLinkedPeer`, `RefinesPairing` | three of 2 dApps and 3 wallets (one with invalid capabilities), 2 handler tasks, multi-thread, data, no resends |
| `SignalingSettles` | `StateMovesForward`, `HandshakeSettles` | 1 and 1, 2 handler tasks; losses, failures, deadline, close |
| `SignalingCompletes` | `HandshakeCompletes` | 1 and 1; losses, resends |
| `SignalingClose` | `CloseCancelsResends` **is violated** | 1 and 1; close |
| `ControlClose` | `Inv`, `PermitsCounted`, `UncancelledCloseWaits`, `NothingStartsAfterClose`, `CloseFinishes` | 2 operations, 2 requests, 3 calls of close, one of them within a handler, limit 1 |
| `ControlCloseCancelled` | `CloseWaitsForTasks` **is violated** | 1, 1, 2, limit 1 |
| `SessionStatus` | `Inv`, `CloseIsFinal`, `LinkIsReal`, `CleanGoodbye`, `LinkWaitReturns`, `FailureReported`, `DeadEndReported` | 1 waiter; both current-thread runtimes, threads that interleave the session's tasks, a race in the signaling layer |
| `SessionPeerClose` | `PeerCloseEnds` **is violated** | 1 waiter, current-thread |
| `ExchangeAnswers` | `Inv`, `AnswersMatch`, `BoundedWait`, `AnswerInTimeKept` | 2 requests, timeouts 1 and 2, limit 2, broadcast of 2, prompt polling |
| `NativeBridge` | `Inv`, `NoLeak`, `AnswerKept`, `NoRequestLost`, `StopReleases` | 3 requests, 2 pollers, 2 replies, one of which is not JSON |
| `TransportLife` | `TransportInv`, `CandidatesKept`, `CloseFlushed`, `NegotiationCompletes`, `TeardownEnds`, `WaitForReturns` | 2 candidates a side, losses and refusals; then 1 frame and the goodbye, 1 frame of the peer, 1 caller of `wait_for` |
| `Rendezvous` | `ChannelInv`, `WalletJoins`, `RefinesContract`, `ChannelSettles` | every dApp of 3 x 4 x 4 x 4 x 3 options, 17 URLs of others; then ntfy and MQTT with 3 messages and 2 publishes |

### Bounds

`Handlers` bounds the frames a peer handles at once: two are needed for two tasks
that have matched the same state, and a third adds no new pair. `MaxActive` bounds the
handler tasks active at once over all peers, and `MaxSessions` the peers that join:
with three of them, two wallets compete for one dApp (one of them may send capabilities
that do not validate), or one wallet meets two dApps.
`MaxInFlight` bounds the network: a resend waits until it fits, data until no more than
that is in flight. First sends are never held back, so 0 means no resend at all, and data
only into an empty network; a data frame may still arrive late. `Events` says which of
loss, failure, deadline, close and data an instance has.

`SignalingPairs` has no resends, losses, failures or deadline. (A lost frame is also
one that never leaves the network, so safety is checked with losses all the same.)
Resends and the deadline are in `SignalingSettles` and `SignalingCompletes`, with one
peer a side. All of them together are too large for TLC; the proofs cover them all
at once, for every safety property of the three runs.

Limits of handlers are 1 or 2, so that they are reached. `Capacity` is 2 instead of 64,
so that receivers lag. Timeouts of one or two ticks let an answer come before, at and
after a deadline; `elapsed` stops counting past what `BoundedWait` allows. `MaxWire`
holds back repeated acks only.

`SessionStatus` checks the interleavings of the session's own tasks and the races of the
signaling layer apart, each on a prompt runtime; the theorems cover them together.
`MaxRaces` is 1: one report out of turn is enough for every order of two final reports
and for two setups. `MaxUnread` is 1: with two connections a report waits until the
receivers have room for it, so that the second connection adds the orders of reports and
not the lengths of queues (with one connection queues are not bounded). The run has
562,356 states.

In `TransportLife` the capacities of the state broadcast and of the event queue are 1
instead of 32 and 64, so that `wait_for` lags and the poll loop blocks. One frame before
the goodbye is enough for a `Low` to come late. The data channel is followed once the
negotiation has come to rest without a fault (`Negotiated`): what happens on the channel
does not depend on how it was negotiated, and the product of both is far larger. For the
same reason `Rendezvous` follows the channel of two of its sessions (`Followed`), one per
protocol: a channel's steps do not depend on the server's name or credentials. Three messages
let one be in the attachment fetch or a task while another arrives and a third waits.

### Fairness

`WF` on task steps: tokio polls every task that was woken. `SF` on the deadline: a
timer that is due is run, even if other tasks run in between. `SF` on resends and on
the receipt of each kind of frame (`NetworkSpec`, for `HandshakeCompletes` only): the
channel mutex is fair, and a frame that is sent again and again gets through at some
time; without it signaling cannot complete, and `HandshakeSettles`, which does not
assume it, shows that it then ends in error. In `Session` the peer that said goodbye closes its
channel, since `close` goes on to `teardown`. In `Negotiation` a frame that is not lost
arrives. In `DataChannel` woken tasks run, `send_text` returns and the flush timer fires;
the network need not send anything. In `Channel` the server answers HTTP requests and the
MQTT client returns, which nothing in the code bounds (no timeout is set on them), but
the server need never confirm a subscription. `NativeRequests` asks that woken tasks run.
Nothing makes handlers, callers or peers act.

## Findings

* `SignalingClose`: close is said to "cancel its work", but a handler task of the
  signaling layer that was publishing stores its resend task after teardown, and
  it repeats for ever (`signaling/layer/mod.rs:285`).
* `ControlCloseCancelled`: `wait_for_tasks` promises to wait for every task, but if the
  first caller of `close` drops its future there, the next one returns while tasks
  are alive (`session/control/mod.rs:106`).
* `SessionPeerClose`: a `wait_for_link` caller with a queued `Connected` makes a
  session that its peer closed `Connected` again, and returns `Ok`
  (`session/mod.rs:501`). The loops alone do not: `FailureReported`, of `SessionStatus`,
  holds whenever no call of `wait_for_link` is in flight.

Known limits that no doc of the repository rules out, and that the properties
therefore step around: on a multi-thread runtime the deadline can overwrite
`Encrypted` with `Error` (`StateMovesForward` is checked without preemption) and the
error of a failed transport can be written after the peer's close cleared it
(`CleanGoodbye` is claimed for a current-thread runtime only). The layer may then also
report `Encrypted` after `Error`, or twice: a session that has reported `Disconnected`
becomes `Connected`, or `transport.setup` runs a second time, overwrites the transport's
state with `Connecting` and replaces the peer connection. `SetupOnce`, `FailureReported`
and `DeadEndReported` are therefore claimed unless the layer's tasks race; `CloseIsFinal`,
`LinkIsReal` and `LinkWaitReturns` hold in a race too. `wait_for_link` is not
woken by a failed handshake; an offer that arrives before the peer connection is stored
is lost (a fault to `NegotiationCompletes`), and the candidates that follow a refused
one in a flush too (`CandidatesKept` excepts refusals); a request popped by a call of
`next_request` that is then dropped is lost (`NoRequestLost` excepts that call).

Further: a session whose only `close` is called by its own request handler is closed for
its users but never torn down, since `close` destroys the handler and its own future with
it (`CloseFinishes` asks for a call that is not destroyed). A `Low` that WebRTC reported for
earlier frames and that is handled after the send of the Close frame makes `teardown` skip the
flush (`CloseFlushed` names this exception). A session id that is not 16 URL-safe characters
is accepted by `create_session` and refused by every wallet, and a `create_session` that is
given the hash of another key says it is the host while its signaling layer is none
(`WalletJoins` excepts both). `Drop` of `SessionInner` does not run while the loops hold it, so a
session that is dropped without `close` goes on. A `connect` that fails leaves the status
`Signaling` and cannot be repeated.

## Proofs

Every safety property of the runs, invariant, action property or refinement, is also a
theorem. All constants are arbitrary, up to the `ASSUME` of each module: peers,
requests, callers, messages, candidates and capacities are of any number. The
assumptions say that counters are naturals and capacities not zero, that `None`
(Rust's `Option::None`) is none of the values an option holds, and that the names of
fixed tasks (`"setup"`, `"deadline"`, `"teardown"`, `"Close"`) name no other task or
frame; where sets are counted they are finite. TLC evaluates them in the runs, and
every inductive invariant named `Inv` (`ChannelInv`, `TransportInv`) is an invariant
of a run as well.

Each theorem comes from an inductive invariant, `Init => Inv` and `Inv /\ [Next]_vars =>
Inv'`, the second with a lemma per action or group of actions.

**`SignalingProofs`.** `Invariance`; from it `TypeCorrect`, `Agreement` (`KeysAgree`),
`AtMostOneClientLinks`, `HostsCompleteLast`, `DataIsFromLinkedPeer` and `Refinement`
(`Spec => RefinesPairing`). The properties are not inductive by themselves:
they speak of keys and capabilities, while what a peer records next depends on
frames that are already under way, in the network, in a task, or in a resend task,
tracked or detached. `FramesOK` closes the gap: wherever a frame is, what it implies
about its sender (whom it recorded, whether it holds capabilities) is true. It stays
true because keys and capabilities are recorded once (`KeysKept`), which is why a step
need only be checked for the frames it adds (`FramesStep`). `KeysOK` relates keys,
capabilities and state of one peer. The refinement maps `HostKeyArm` to a stutter, the
host's `ClientKeyArm` to `Bind`, and `CapabilitiesArm` to `ClientLinks` or `HostLinks`.

`StatesMoveForward` is `~Preemptive => (Spec => StateMovesForward)`; with preemption
it is false (see the known limits above). Its invariant `Orderly`, of the proof module, says that
a task at an arm finds the state that the match read, and that the deadline sleeps only
in a handshake. It is kept because a task that runs is alone (`RunsAlone`): every
lemma that moves a state (`MoveOrderly`) shows that no other task is at an arm.

**`SessionControlProofs`.** `Invariance`, `PermitsAreCounted`, `CloseIsComplete` (while
no caller has dropped the future of close, which the finding shows is needed) and
`ClosedForGood`, an action property. The invariant adds that one caller at a time
computes the result (`CloseOK`) and that live tasks are in the `JoinSet` or in what was
taken from it, as long as no close was cancelled (`TasksOwned`; a cancelled one stays
so, `CancelledForGood`). Counting uses the cardinality theorems of
`FiniteSetTheorems`.

**`SessionProofs`.** `Invariance`, `ClosedStaysDisconnected`, `LinksAreReal`,
`GoodbyesAreClean`. `LinkIsReal` speaks of a status that is written from queues, so
`ConnectedTraced` follows every `Connected` on its way: in the transport, in a queue, in
a caller that has received it. They stay true because a channel that has opened stays
one that has opened, whatever it does later and however many connections follow; no
order of the signaling layer's reports is needed. `SetupOnce` derives that there is one
connection from `Encrypted` being reported once, where the layer does not race.
`CloseAlone` says that past the join no task is left to overwrite the status. For
`CleanGoodbye`, `OneRuns` and `GoodbyeTraced` say that without preemption no task stands between
the load of `peer_closed` and the write of `error` when the goodbye is handled, and that no
failure of the handshake or of a setup is still to be recorded then, which is where
`SetupOnce` is needed.

**`ExchangeProofs`.** `Invariance` and `AnswersAreOwn`: frames on the wire and in
receivers are `Truthful`, and a request is dispatched once (`SentOnce`). `WaitsAreBounded`
(`Prompt => BoundedWait`): `WaitOK` says that the time waited and the time left
make up the timeouts. `AnswersInTimeAreKept` (`Timely => AnswerInTimeKept`, where `Timely`
is `Prompt` with timeouts that are not zero): `KeptOK` says that the frame that ended the
wait is still in the receiver, or the receiver lagged, and that there is time left
to take it. Without `Prompt` both are false: a request that is not polled is late.

**`NativeRequestsProofs`.** `Invariance`, `MapDoesNotLeak`, `AnswersAreKept`,
`RequestsAreNotLost`. A sender has one owner, the map, a reply, or nobody
(`RepliesOK`); what a handler returned is what its channel held (`OutcomesOK`); and a
request enters the queue once and leaves it once (`QueueOK`), without which two calls of
`next_request` could hold one request.

**`TransportProofs`.** `Invariance` (`TransportInv`), `CandidatesAreKept`,
`GoodbyeIsFlushed`, for both stages at once: the data channel starts from `DC!Init`.
`DescribedFirst` orders descriptions, the flush and direct additions;
`CandidatesTraced` gives their types to candidates in queues. `SlotOK`: once teardown has begun no task holds
the slot, so nothing is sent after the flush. `FlushOK`: a Close frame in the buffer
keeps `unflushed` set, unless one of the two exceptions that `CloseFlushed` names occurred.

**`RendezvousProofs`.** `Invariance` (`ChannelInv`): the mutex excludes (`LockOK`), and a
message is in one place only, what was taken being older than what is on the wire
(`WireOK`), so that nothing is handed over twice and ntfy keeps the order (`HeardOK`).
`Refinement` (`RefinesContract`) maps the storing of the handler to the contract's
`Open`, each `HandOver` to `Hear`, a new message to `Appear`, a publish that succeeds
and the end of teardown to theirs, every other step to a stutter. The invariant is needed where the contract's
`heard` is a set: a message handed over twice would be no step of it. `WalletsJoin`
(`WalletJoins`) rests on `RoundTrip`: for whatever a session holds, reading what
`ToUrl` wrote gives it back; and on `ReadIsWritable`: whatever `FromUrl` accepts, from
*any* URL, can be written again. `JoinOK` adds where the wallet's URL came from.

**`SequenceLemmas`.** What `Append` and `Tail` do to the items of a sequence; the
queues of all components use them.

Only model-checked: liveness, since fairness and `ENABLED` are beyond the prover:
`HandshakeSettles`, `HandshakeCompletes`, `CloseFinishes`, `LinkWaitReturns`,
`FailureReported`, `DeadEndReported`, `StopReleases`, `NegotiationCompletes`,
`TeardownEnds`, `WaitForReturns`, `ChannelSettles`; and the three violations, each of
which TLC shows by a behaviour.

## Not modelled

* The broker behind the channels, WebRTC, tokio: external, as the code uses them. The
  `mqtt5` client may reconnect by itself; here its connection ends once.
* The bridge's `StateSubscription`: a loop over one receiver of the session's status
  broadcast. In `Session` the status is written and broadcast in one step; on a
  multi-thread runtime two writers may broadcast in the other order, and a subscriber's last
  state then differs from `state()`. Following a subscriber there multiplies the 562,000
  states of `SessionStatus` past what TLC can do in minutes.
* Lagging receivers of the state broadcasts in `Session` (in `DataChannel` they lag), and
  reference counts.
* Text: wire frames, JSON, base64, percent encoding. Ciphers are ideal. (The docs name
  XSalsa20-Poly1305 where the code uses AES-256-GCM; no property depends on it.)
* JSON-RPC and alloy providers (stateless conversions around `Session::send`), errors,
  examples.

## Plan

1. Done: signaling with its abstract specification, control, session status, requests,
   bridge, negotiation; proofs of the first two and of `Exchange`.
2. Done: the data channel with its flush, composed with the negotiation; the ntfy and
   MQTT channels with the contract both implement; session construction and URLs; calls
   of `close` from within a handler.
3. Done: proofs of every safety property of the runs, and of both refinements.
4. Then, if worth it: an abstract specification of close that `SessionControl` and
   `Session` implement, proved like the other two.
