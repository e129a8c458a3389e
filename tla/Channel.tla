------------------------------- MODULE Channel -------------------------------
(***************************************************************************)
(* The signaling channel of one session: NtfyChannel and MqttChannel of    *)
(* crates/openlv/src/signaling, and setup, teardown and publish of the     *)
(* layer, which keeps the channel in a mutex.                              *)
(*                                                                         *)
(* ntfy: a websocket read by one task, which hands messages over itself    *)
(* and fetches large ones as attachments; publishes are HTTP requests.     *)
(* MQTT: the client calls back for every message, and the callback starts  *)
(* a task that hands it over.                                              *)
(***************************************************************************)
EXTENDS Naturals, FiniteSets, Sequences, SequencesExt

CONSTANTS
  None,        \* Rust's Option::None
  Publishers,  \* publishes by tasks of the layer, which close does not abort
  MaxMessages  \* bound: messages published on the topic by others

Messages == 1 .. MaxMessages

VARIABLES
  protocol,  \* which channel create_signaling_channel made: "ntfy" or "mqtt"
  setup,     \* where setup of the layer is
  lock,      \* who holds the layer's channel mutex
  conn,      \* the connection: "none", "connected", "subscribed" or "closed"
  shutdown,  \* the shutdown channel: "none", "held" or "signalled" (sent or dropped)
  ready,     \* the ready oneshot: "pending", "sent" or "dropped"
  client,    \* the HTTP or MQTT client is stored
  handler,   \* the layer's handler is stored
  reader,    \* the ntfy reader: "none", "select", "fetch", "handover" or "ended"
  current,   \* the message it handles
  wire,      \* frames of the server not read yet
  tasks,     \* MQTT: messages whose task has not run
  topic,     \* messages published by others
  heard,     \* history: messages given to the handler, in order
  publish,   \* each publish: "new", "posting", "ok" or "failed"
  closing    \* close: "no", "closing", "locked" or "done"

connVars   == <<conn, wire, topic>>
readerVars == <<shutdown, ready, reader, current, tasks, heard>>
slotVars   == <<client, handler>>
vars == <<setup, lock, connVars, readerVars, slotVars, publish, closing>>

\* Frames of the server: the confirmation, a message (in full, or with an
\* attachment), anything else, and the end of the websocket.
Frame(kind, m) == [kind |-> kind, message |-> m]
Kinds == {"plain", "attachment", "other"}

InSetup == setup \in {"connect", "ready", "subscribe", "handler"}
HandOver(m) == heard' = IF handler THEN Append(heard, m) ELSE heard

-----------------------------------------------------------------------------
(***************************************************************************)
(* setup of the layer: channel.setup(), then subscribe, under the mutex.   *)
(***************************************************************************)
Setup ==
  /\ setup = "idle" /\ closing = "no" /\ lock = None
  /\ setup' = "connect"
  /\ lock' = "setup"
  /\ UNCHANGED <<connVars, readerVars, slotVars, publish, closing>>

SetupFails ==
  /\ setup' = "failed"
  /\ lock' = None
  /\ UNCHANGED <<slotVars, publish, closing>>

\* ntfy: connect_async, then the reader is spawned.
ConnectNtfy ==
  /\ setup = "connect" /\ protocol = "ntfy"
  /\ setup' = "ready"
  /\ conn' = "connected"
  /\ shutdown' = "held" /\ reader' = "select"
  /\ UNCHANGED <<lock, wire, topic, ready, current, tasks, heard, slotVars, publish, closing>>

ConnectMqtt ==
  /\ setup = "connect" /\ protocol = "mqtt"
  /\ setup' = "subscribe"
  /\ conn' = "connected"
  /\ UNCHANGED <<lock, wire, topic, readerVars, slotVars, publish, closing>>

ConnectFails ==
  /\ setup = "connect"
  /\ SetupFails
  /\ UNCHANGED <<connVars, readerVars>>

Confirmed ==
  /\ setup = "ready" /\ ready = "sent"
  /\ setup' = "handler"
  /\ client' = TRUE
  /\ UNCHANGED <<lock, connVars, readerVars, handler, publish, closing>>

\* Mutant: setup waits for the confirmation as long as it takes.
NeverTimesOut ==
  /\ setup = "ready" /\ ready = "dropped"
  /\ SetupFails
  /\ UNCHANGED <<connVars, readerVars>>

\* No confirmation in 10 s, or the reader has ended.  The reader is left alone.
NotConfirmed ==
  /\ setup = "ready" /\ ready # "sent"
  /\ SetupFails
  /\ UNCHANGED <<connVars, readerVars>>

\* MQTT: subscribe returned.
Subscribed ==
  /\ setup = "subscribe" /\ conn = "subscribed"
  /\ setup' = "handler"
  /\ client' = TRUE
  /\ UNCHANGED <<lock, connVars, readerVars, handler, publish, closing>>

\* The client, which is not stored yet, is dropped, and its connection with it.
SubscribeFails ==
  /\ setup = "subscribe"
  /\ SetupFails
  /\ conn' = "closed" /\ wire' = <<>>
  /\ UNCHANGED <<topic, readerVars>>

Subscribe ==
  /\ setup = "handler"
  /\ handler' = TRUE
  /\ setup' = "done"
  /\ lock' = None
  /\ UNCHANGED <<connVars, readerVars, client, publish, closing>>

\* close aborts connect: setup is dropped at an await.
AbortSetup ==
  /\ closing = "closing" /\ InSetup
  /\ SetupFails
  /\ IF setup = "subscribe" THEN conn' = "closed" /\ wire' = <<>> /\ UNCHANGED topic
     ELSE UNCHANGED connVars
  /\ UNCHANGED readerVars

-----------------------------------------------------------------------------
(***************************************************************************)
(* teardown and publish of the layer.  Both lock the channel and keep it   *)
(* locked until the server has answered.                                   *)
(***************************************************************************)
Close ==
  /\ closing = "no"
  /\ closing' = "closing"
  /\ UNCHANGED <<setup, lock, connVars, readerVars, slotVars, publish>>

\* The tasks of the session are destroyed by now.
LockForTeardown ==
  /\ closing = "closing" /\ ~InSetup /\ lock = None
  /\ closing' = "locked"
  /\ lock' = "teardown"
  /\ UNCHANGED <<setup, connVars, readerVars, slotVars, publish>>

\* Mutant: teardown of ntfy keeps the client.
TeardownKeepsClient ==
  /\ closing = "locked" /\ protocol = "ntfy"
  /\ shutdown' = IF shutdown = "held" THEN "signalled" ELSE shutdown
  /\ closing' = "done" /\ lock' = None
  /\ UNCHANGED <<setup, connVars, ready, reader, current, tasks, heard, slotVars, publish>>

\* The reader is told, and not waited for.
TeardownNtfy ==
  /\ closing = "locked" /\ protocol = "ntfy"
  /\ shutdown' = IF shutdown = "held" THEN "signalled" ELSE shutdown
  /\ client' = FALSE
  /\ closing' = "done" /\ lock' = None
  /\ UNCHANGED <<setup, connVars, ready, reader, current, tasks, heard, handler, publish>>

\* disconnect may fail: the client is gone in either case.
TeardownMqtt ==
  /\ closing = "locked" /\ protocol = "mqtt"
  /\ client' = FALSE
  /\ IF client THEN conn' = "closed" /\ wire' = <<>> /\ UNCHANGED topic ELSE UNCHANGED connVars
  /\ closing' = "done" /\ lock' = None
  /\ UNCHANGED <<setup, readerVars, handler, publish>>

\* The layer publishes from setup, once the handler is stored, and from the tasks
\* the handler starts.
Publish(p) ==
  /\ publish[p] = "new" /\ handler /\ lock = None
  /\ IF client THEN lock' = p /\ publish' = [publish EXCEPT ![p] = "posting"]
     ELSE UNCHANGED lock /\ publish' = [publish EXCEPT ![p] = "failed"]
  /\ UNCHANGED <<setup, connVars, readerVars, slotVars, closing>>

\* The server answers.  For ntfy this does not depend on the websocket.
PublishReturns(p, result) ==
  /\ publish[p] = "posting"
  /\ result = "ok" => (protocol = "ntfy" \/ conn = "subscribed")
  /\ publish' = [publish EXCEPT ![p] = result]
  /\ lock' = None
  /\ UNCHANGED <<setup, connVars, readerVars, slotVars, closing>>

-----------------------------------------------------------------------------
(***************************************************************************)
(* The ntfy reader.                                                        *)
(***************************************************************************)
\* The loop is left: the sender of `ready` is dropped, the websocket closed.
ReaderEnds ==
  /\ reader' = "ended"
  /\ ready' = IF ready = "pending" THEN "dropped" ELSE ready
  /\ conn' = "closed" /\ wire' = <<>>
  /\ UNCHANGED <<setup, lock, topic, shutdown, current, tasks, heard, slotVars, publish, closing>>

\* shutdown_rx.recv() is ready; select! may take a frame that is ready too.
ReaderShutsDown == reader = "select" /\ shutdown = "signalled" /\ ReaderEnds

\* A close frame, or the end of the stream.
ReaderSeesEnd ==
  /\ reader = "select"
  /\ \/ wire # <<>> /\ Head(wire).kind = "close"
     \/ wire = <<>> /\ conn = "closed"
  /\ ReaderEnds

ReadFrame ==
  /\ reader = "select" /\ wire # <<>> /\ Head(wire).kind # "close"
  /\ wire' = Tail(wire)
  /\ CASE Head(wire).kind = "open"  -> ready' = "sent" /\ UNCHANGED <<reader, current>>
       [] Head(wire).kind = "other" -> UNCHANGED <<ready, reader, current>>
       [] OTHER ->
            /\ reader' = IF Head(wire).kind = "attachment" THEN "fetch" ELSE "handover"
            /\ current' = Head(wire).message
            /\ UNCHANGED ready
  /\ UNCHANGED <<setup, lock, conn, topic, shutdown, tasks, heard, slotVars, publish, closing>>

\* The server answered and the body is handed over, whatever the status: the
\* text of an error response counts as the message.  Only a request that fails
\* skips it.  Until then the reader sees neither frames nor the shutdown.
Fetch ==
  /\ reader = "fetch"
  /\ \/ reader' = "handover" /\ UNCHANGED current
     \/ reader' = "select" /\ current' = None
  /\ UNCHANGED <<setup, lock, connVars, shutdown, ready, tasks, heard, slotVars, publish, closing>>

ReaderHandsOver ==
  /\ reader = "handover"
  /\ HandOver(current)
  /\ reader' = "select" /\ current' = None
  /\ UNCHANGED <<setup, lock, connVars, shutdown, ready, tasks, slotVars, publish, closing>>

-----------------------------------------------------------------------------
(***************************************************************************)
(* The MQTT callback, and the task it starts for every message.            *)
(***************************************************************************)
MqttCallback ==
  /\ protocol = "mqtt" /\ wire # <<>>
  /\ wire' = Tail(wire)
  /\ tasks' = tasks \cup {Head(wire).message}
  /\ UNCHANGED <<setup, lock, conn, topic, shutdown, ready, reader, current, heard, slotVars,
                 publish, closing>>

MqttTask(m) ==
  /\ m \in tasks
  /\ tasks' = tasks \ {m}
  /\ HandOver(m)
  /\ UNCHANGED <<setup, lock, connVars, shutdown, ready, reader, current, slotVars, publish,
                 closing>>

-----------------------------------------------------------------------------
(***************************************************************************)
(* The server.                                                             *)
(***************************************************************************)
ServerSubscribes ==
  /\ conn = "connected"
  /\ conn' = "subscribed"
  /\ wire' = IF protocol = "ntfy" THEN Append(wire, Frame("open", None)) ELSE wire
  /\ UNCHANGED <<setup, lock, topic, readerVars, slotVars, publish, closing>>

\* Somebody publishes on the topic: who is not subscribed does not get it.
Appear(kind) ==
  /\ Cardinality(topic) < MaxMessages
  /\ protocol = "mqtt" => kind = "plain"
  /\ LET m == Cardinality(topic) + 1 IN
     /\ topic' = topic \cup {m}
     /\ wire' = IF conn = "subscribed" THEN Append(wire, Frame(kind, m)) ELSE wire
  /\ UNCHANGED <<setup, lock, conn, readerVars, slotVars, publish, closing>>

\* The connection ends, with or without a close frame.
ServerCloses ==
  /\ conn \in {"connected", "subscribed"}
  /\ conn' = "closed"
  /\ wire' \in IF protocol = "ntfy" THEN {wire, Append(wire, Frame("close", None))} ELSE {<<>>}
  /\ UNCHANGED <<setup, lock, topic, readerVars, slotVars, publish, closing>>

-----------------------------------------------------------------------------
Init ==
  /\ setup = "idle" /\ lock = None
  /\ conn = "none" /\ wire = <<>> /\ topic = {}
  /\ shutdown = "none" /\ ready = "pending"
  /\ reader = "none" /\ current = None
  /\ tasks = {} /\ heard = <<>>
  /\ client = FALSE /\ handler = FALSE
  /\ publish = [p \in Publishers |-> "new"]
  /\ closing = "no"

SetupStep ==
  \/ ConnectNtfy \/ ConnectMqtt \/ ConnectFails
  \/ Confirmed \/ NotConfirmed \/ Subscribed \/ SubscribeFails \/ Subscribe \/ AbortSetup
CloseStep == LockForTeardown \/ TeardownNtfy \/ TeardownMqtt
Reader == ReaderShutsDown \/ ReaderSeesEnd \/ ReadFrame \/ Fetch \/ ReaderHandsOver
Answered(p) == \E result \in {"ok", "failed"} : PublishReturns(p, result)

Next ==
  \/ Setup \/ SetupStep \/ Close \/ CloseStep \/ Reader \/ MqttCallback
  \/ \E m \in tasks : MqttTask(m)
  \/ \E p \in Publishers : Publish(p) \/ Answered(p)
  \/ ServerSubscribes \/ ServerCloses
  \/ \E kind \in Kinds : Appear(kind)

Spec == Init /\ [][Next]_vars

\* Woken tasks run; connect_async, a publish, the fetch of an attachment and
\* the subscribe and disconnect of MQTT, none of which has a timeout of its own,
\* return sooner or later.  Nothing else is asked of the server.
Fairness ==
  /\ WF_vars(SetupStep) /\ WF_vars(Reader) /\ WF_vars(CloseStep)
  /\ \A m \in Messages : WF_vars(MqttTask(m))
  /\ \A p \in Publishers : WF_vars(Answered(p))

-----------------------------------------------------------------------------
\* The type invariant.
TypeOK ==
  /\ protocol \in {"ntfy", "mqtt"}
  /\ setup \in {"idle", "connect", "ready", "subscribe", "handler", "done", "failed"}
  /\ lock \in Publishers \cup {None, "setup", "teardown"}
  /\ conn \in {"none", "connected", "subscribed", "closed"}
  /\ wire \in Seq([kind : Kinds \cup {"open", "close"}, message : Messages \cup {None}])
  /\ topic \subseteq Messages /\ tasks \subseteq Messages /\ heard \in Seq(Messages)
  /\ shutdown \in {"none", "held", "signalled"} /\ ready \in {"pending", "sent", "dropped"}
  /\ reader \in {"none", "select", "fetch", "handover", "ended"}
  /\ current \in Messages \cup {None}
  /\ client \in BOOLEAN /\ handler \in BOOLEAN
  /\ publish \in [Publishers -> {"new", "posting", "ok", "failed"}]
  /\ closing \in {"no", "closing", "locked", "done"}

\* The mutex is held by the task that uses the channel, and a stored client
\* outlives no teardown: who posts does so before teardown, with the handler
\* stored.
LockOK ==
  /\ lock = "setup" <=> InSetup
  /\ lock = "teardown" <=> closing = "locked"
  /\ \A p \in Publishers :
       /\ lock = p <=> publish[p] = "posting"
       /\ publish[p] = "posting" => handler /\ closing # "done"
  /\ client => setup \in {"handler", "done"} \/ (closing # "no" /\ setup = "failed")
  /\ closing = "done" => ~client /\ ~InSetup

\* A message is on its way to the handler only if it is on the topic, and on one
\* way only: what the channel has taken from the connection is older than what
\* it has not.  The reader is ntfy's, the tasks are MQTT's.
Carries(i) == wire[i].kind \in Kinds
Handling == IF reader \in {"fetch", "handover"} THEN {current} ELSE {}
Taken == Range(heard) \cup tasks \cup Handling

WireOK ==
  /\ \E n \in 0 .. MaxMessages : topic = 1 .. n
  /\ Taken \subseteq topic
  /\ \A i \in DOMAIN wire : Carries(i) =>
       wire[i].message \in topic /\ \A m \in Taken : m < wire[i].message
  /\ \A i, j \in DOMAIN wire : i < j /\ Carries(i) /\ Carries(j) => wire[i].message < wire[j].message
  /\ protocol = "ntfy" => tasks = {}
  /\ protocol = "mqtt" => reader = "none" /\ \A i \in DOMAIN wire : wire[i].kind = "plain"

\* No message is handed over twice, and the one ntfy reader hands messages over
\* in the order in which the server sent them.
HeardOK ==
  /\ tasks \cap Range(heard) = {}
  /\ \A i, j \in DOMAIN heard : i # j => heard[i] # heard[j]
  /\ protocol = "ntfy" =>
       /\ \A i, j \in DOMAIN heard : i < j => heard[i] < heard[j]
       /\ \A m \in Handling, i \in DOMAIN heard : heard[i] < m

Inv == TypeOK /\ LockOK /\ WireOK /\ HeardOK

(***************************************************************************)
(* Both channels keep the promise to the layer.                            *)
(***************************************************************************)
Contract == INSTANCE ChannelContract WITH
  opened   <- handler,
  torn     <- closing = "done",
  heard    <- Range(heard),
  accepted <- {p \in Publishers : publish[p] = "ok"}

\* Whichever server is used and however setup, messages, publishes and close
\* interleave, the layer sees what ChannelContract promises.
RefinesContract == Contract!Spec

\* setup returns, also when the server never confirms the subscription; close
\* returns, even if it comes during setup or a publish, and in the end nothing is
\* left that could still call the handler.
ChannelSettles ==
  /\ setup = "connect" ~> setup \in {"done", "failed"}
  /\ closing = "closing" ~> closing = "done" /\ reader \in {"none", "ended"} /\ tasks = {}
=============================================================================
