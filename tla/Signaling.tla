------------------------------ MODULE Signaling ------------------------------
(***************************************************************************)
(* The signaling handshake of crates/openlv/src/signaling/layer/mod.rs:    *)
(* dApps (hosts) and wallets (clients) subscribed to one topic of a public *)
(* broker exchange flash, pubkey and capabilities messages until both      *)
(* sides are encrypted.                                                    *)
(*                                                                         *)
(* A peer is identified with its key pair.  Every peer knows the topic and *)
(* the handshake key of the URL; what may differ is the key hash `h` a     *)
(* wallet scanned (a URL of an earlier run of the dApp, say).  A frame is  *)
(* what survives encryption: its kind, the key that sent it and the key    *)
(* that can open it, where None stands for the shared handshake key.       *)
(*                                                                         *)
(* Each received frame is handled by a task of its own (tokio::spawn), and *)
(* Session::connect runs `setup` in another; `task` holds where each one   *)
(* is.  With Preemptive = FALSE the tasks of a peer interleave only at     *)
(* their awaits (a current-thread runtime).  With TRUE (the multi-thread   *)
(* runtime) they also interleave where a task has read the state and not   *)
(* yet acted on it: the match of handle_receive and the deadline.          *)
(***************************************************************************)
EXTENDS Naturals, FiniteSets

CONSTANTS
  Hosts,        \* dApp sessions on the topic
  Clients,      \* wallet sessions on the topic
  Scanned,      \* Scanned[c]: the host whose URL client c was given
  InvalidInfo,  \* peers whose capabilities do not pass PeerCapabilities::validate
  MaxSessions,  \* how many peers join the topic (a bound)
  Handlers,     \* handle_receive tasks a peer can have at once (a bound)
  MaxActive,    \* handle_receive tasks active at once over all peers (a bound)
  None,         \* Rust's Option::None
  Preemptive,   \* TRUE: multi-thread runtime, FALSE: current-thread runtime
  MaxInFlight,  \* data and resends wait while more frames are in flight (a bound)
  Events        \* what may happen: "lose", "fail", "expire", "close", "send"

Peers == Hosts \cup Clients
Tasks == Handlers \cup {"setup"}

ASSUME SignalingAssumption ==
  /\ Hosts \cap Clients = {}
  /\ None \notin Peers
  /\ Scanned \in [Clients -> Hosts]
  /\ InvalidInfo \subseteq Peers
  /\ {"setup", "deadline"} \cap Handlers = {}
  /\ Preemptive \in BOOLEAN
  /\ MaxSessions \in Nat
  /\ MaxActive \in Nat
  /\ MaxInFlight \in Nat
  /\ Events \subseteq {"lose", "fail", "expire", "close", "send"}

VARIABLES
  state,              \* SignalState of each peer
  relying_key,        \* the peer's public key, or None
  peer_capabilities,  \* whose capabilities were stored, or None
  task,               \* where each task is, and the frame it works on
  handshake_task,     \* the frame the tracked resend task repeats, or None
  detached,           \* frames of resend tasks whose JoinHandle was overwritten
  deadline_task,      \* "none", "armed" (sleeping) or "fired"
  expiring,           \* the deadline saw a state other than Encrypted
  channel,            \* "closed", "open" or "torn"
  closing,            \* Session::close was called
  net,                \* frames on their way to a subscriber
  inbox               \* senders whose data reached the session (message_tx)

keyVars  == <<relying_key, peer_capabilities>>
timeVars == <<deadline_task, expiring>>
sendVars == <<handshake_task, detached>>
lifeVars == <<channel, closing>>
vars     == <<state, keyVars, task, sendVars, timeVars, lifeVars, net, inbox>>

States == {"standby", "connecting", "ready", "handshake", "partial",
           "encrypted", "error"}
Kinds  == {"flash", "pubkey", "capabilities", "data"}
Frames == [kind : Kinds, from : Peers, to : Peers \cup {None}]

(***************************************************************************)
(* Program counters.  The running ones lie between two awaits.             *)
(***************************************************************************)
Running  == {"start", "match", "flash", "hostkey", "clientkey", "caps"}
Awaiting == {"idle", "connect", "publish", "published", "reply"}
Idle     == [pc |-> "idle", frame |-> None]
At(pc, f) == [pc |-> pc, frame |-> f]

-----------------------------------------------------------------------------
(***************************************************************************)
(* Frames and keys.                                                        *)
(***************************************************************************)
Handshake(kind, p)    == [kind |-> kind, from |-> p, to |-> None]
Encrypted(kind, p, q) == [kind |-> kind, from |-> p, to |-> q]

\* is_recipient: a host's frame is addressed to clients and the reverse.
IsRecipient(p, f) == (p \in Hosts) # (f.from \in Hosts)

\* The broker hands a frame to everyone subscribed to the topic.
Broadcast(f) == {<<q, f>> : q \in {r \in Peers : channel[r] = "open" /\ IsRecipient(r, f)}}

\* The bound on what the resend tasks add to the network.
HasRoom(f) == Cardinality(net \cup Broadcast(f)) <= MaxInFlight

\* Mutant: any secret opens any frame.
DecryptsAnything(p, f) == TRUE

\* HandshakeKey::decrypt always succeeds here, DecryptionKey::decrypt needs
\* the right secret and, once a peer key is known, the right sender.
Decrypts(p, f) ==
  \/ f.to = None
  \/ f.to = p /\ relying_key[p] \in {None, f.from}

\* SignalingMessage::validate.
IsValid(f) == f.kind = "capabilities" => f.from \notin InvalidInfo

\* Mutant: the hash of the URL is not compared.
HashNotChecked(p, key) == TRUE

\* validate_public_key_hash: does the announced key have the hash of the URL?
HashMatches(p, key) == key = Scanned[p]

\* Mutant: the last key wins.
StoreLastRelyingKey(p, key) == [relying_key EXCEPT ![p] = key]

\* store_relying_key: the first key is kept.
StoreRelyingKey(p, key) ==
  IF relying_key[p] = None THEN [relying_key EXCEPT ![p] = key] ELSE relying_key

\* store_peer_capabilities: the first capabilities are kept.
StorePeerCapabilities(p, owner) ==
  IF peer_capabilities[p] = None
  THEN [peer_capabilities EXCEPT ![p] = owner] ELSE peer_capabilities

-----------------------------------------------------------------------------
(***************************************************************************)
(* Tasks.                                                                  *)
(***************************************************************************)
Busy(p) == {t \in Tasks : task[p][t].pc \in Running}
             \cup (IF expiring[p] THEN {"deadline"} ELSE {})

\* Task t of p may take a step: on a current-thread runtime no other task of
\* p is between two awaits.
MayRun(p, t) == Preemptive \/ Busy(p) \subseteq {t}

\* The channel mutex is held from publish to its answer.
ChannelFree(p) == \A t \in Tasks : task[p][t].pc # "published"

Goto(p, t, pc, f) == task' = [task EXCEPT ![p][t] = At(pc, f)]
Finish(p, t)      == task' = [task EXCEPT ![p][t] = Idle]

StopRepeating(p) == handshake_task' = [handshake_task EXCEPT ![p] = None]

StopHandshakeTasks(p) ==
  /\ StopRepeating(p)
  /\ deadline_task' = [deadline_task EXCEPT ![p] = "none"]

\* start_handshake_deadline: only when none is recorded.
StartHandshakeDeadline(p) ==
  deadline_task' = [deadline_task EXCEPT ![p] = IF @ = "none" THEN "armed" ELSE @]

\* set_state for the states that stop the handshake tasks.
SetFinalState(p, s) ==
  /\ state' = [state EXCEPT ![p] = s]
  /\ StopHandshakeTasks(p)

-----------------------------------------------------------------------------
(***************************************************************************)
(* SignalingLayer::setup, run by the connect operation of the session.     *)
(***************************************************************************)
Setup(p) ==
  /\ state[p] = "standby" /\ ~closing[p]
  /\ Cardinality({q \in Peers : state[q] # "standby"}) < MaxSessions
  /\ state' = [state EXCEPT ![p] = "connecting"]
  /\ Goto(p, "setup", "connect", None)
  /\ UNCHANGED <<keyVars, sendVars, timeVars, lifeVars, net, inbox>>

\* channel.setup and channel.subscribe have succeeded.
ChannelReady(p) ==
  /\ task[p]["setup"].pc = "connect" /\ MayRun(p, "setup")
  /\ channel' = [channel EXCEPT ![p] = "open"]
  /\ Goto(p, "setup", "start", None)
  /\ UNCHANGED <<state, keyVars, sendVars, timeVars, closing, net, inbox>>

\* channel.setup has failed: connect returns the error, the state stays.
ChannelFails(p) ==
  /\ "fail" \in Events
  /\ task[p]["setup"].pc = "connect" /\ MayRun(p, "setup")
  /\ Finish(p, "setup")
  /\ UNCHANGED <<state, keyVars, sendVars, timeVars, lifeVars, net, inbox>>

HostStart(p) ==
  /\ p \in Hosts
  /\ task[p]["setup"].pc = "start" /\ MayRun(p, "setup")
  /\ state' = [state EXCEPT ![p] = "ready"]
  /\ Finish(p, "setup")
  /\ UNCHANGED <<keyVars, sendVars, timeVars, lifeVars, net, inbox>>

\* The client passes through Ready, arms the deadline and begins to repeat
\* its flash.
ClientStart(p) ==
  /\ p \in Clients
  /\ task[p]["setup"].pc = "start" /\ MayRun(p, "setup")
  /\ state' = [state EXCEPT ![p] = "handshake"]
  /\ StartHandshakeDeadline(p)
  /\ StopRepeating(p)
  /\ Goto(p, "setup", "publish", Handshake("flash", p))
  /\ UNCHANGED <<keyVars, detached, expiring, lifeVars, net, inbox>>

-----------------------------------------------------------------------------
(***************************************************************************)
(* handle_receive.  A frame that is not decrypted or not valid is dropped; *)
(* then the state is read, and only then does the chosen arm act.          *)
(***************************************************************************)
CanReceive(p, t) ==
  /\ channel[p] # "closed" /\ task[p][t] = Idle /\ MayRun(p, t)
  /\ Cardinality({x \in Peers \X Handlers : task[x[1]][x[2]] # Idle}) < MaxActive

Receive(p, t, f) ==
  /\ <<p, f>> \in net /\ CanReceive(p, t)
  /\ net' = net \ {<<p, f>>}
  /\ IF Decrypts(p, f) /\ IsValid(f) THEN Goto(p, t, "match", f) ELSE UNCHANGED task
  /\ UNCHANGED <<state, keyVars, sendVars, timeVars, lifeVars, inbox>>

\* Mutant: the client echoes its capabilities before it completed.
ArmEchoesEarly(p, f) ==
  CASE f.kind = "flash" /\ p \in Hosts /\ state[p] = "ready" -> At("flash", f)
    [] f.kind = "pubkey" /\ f.to = None /\ p \in Clients /\ state[p] = "handshake" ->
         At("hostkey", f)
    [] f.kind = "pubkey" /\ f.to # None /\ p \in Hosts /\ state[p] = "handshake" ->
         At("clientkey", f)
    [] f.kind = "capabilities" /\ p \in Clients /\ state[p] \in {"partial", "encrypted"} ->
         At("reply", Encrypted("capabilities", p, relying_key[p]))
    [] f.kind = "capabilities" /\ p \in Hosts /\ state[p] = "partial" -> At("caps", f)
    [] OTHER -> Idle

\* Mutant: a repeated flash is answered in every state.
ArmFlashAlways(p, f) ==
  CASE f.kind = "flash" /\ p \in Hosts -> At("flash", f)
    [] f.kind = "pubkey" /\ f.to = None /\ p \in Clients /\ state[p] = "handshake" ->
         At("hostkey", f)
    [] f.kind = "pubkey" /\ f.to # None /\ p \in Hosts /\ state[p] = "handshake" ->
         At("clientkey", f)
    [] f.kind = "capabilities" /\ state[p] = "partial" -> At("caps", f)
    [] OTHER -> Idle

\* Mutant: the client does not answer capabilities that are sent again.
ArmEchoesOnce(p, f) ==
  CASE f.kind = "flash" /\ p \in Hosts /\ state[p] = "ready" -> At("flash", f)
    [] f.kind = "pubkey" /\ f.to = None /\ p \in Clients /\ state[p] = "handshake" ->
         At("hostkey", f)
    [] f.kind = "pubkey" /\ f.to # None /\ p \in Hosts /\ state[p] = "handshake" ->
         At("clientkey", f)
    [] f.kind = "capabilities" /\ state[p] = "partial" -> At("caps", f)
    [] OTHER -> Idle

\* The match on (prefix, message, state, is_host).
Arm(p, f) ==
  CASE f.kind = "flash" /\ p \in Hosts /\ state[p] = "ready" -> At("flash", f)
    [] f.kind = "pubkey" /\ f.to = None /\ p \in Clients /\ state[p] = "handshake" ->
         At("hostkey", f)
    [] f.kind = "pubkey" /\ f.to # None /\ p \in Hosts /\ state[p] = "handshake" ->
         At("clientkey", f)
    [] f.kind = "capabilities" /\ state[p] = "partial" -> At("caps", f)
    [] f.kind = "capabilities" /\ p \in Clients /\ state[p] = "encrypted" ->
         At("reply", Encrypted("capabilities", p, relying_key[p]))
    [] OTHER -> Idle

Match(p, t) ==
  LET f == task[p][t].frame IN
  /\ task[p][t].pc = "match" /\ MayRun(p, t)
  /\ task' = [task EXCEPT ![p][t] = Arm(p, f)]
  /\ inbox' = [inbox EXCEPT ![p] =
       IF f.kind = "data" /\ state[p] = "encrypted" THEN @ \cup {f.from} ELSE @]
  /\ UNCHANGED <<state, keyVars, sendVars, timeVars, lifeVars, net>>

\* Mutant: the host does not arm its deadline.
FlashArmNoDeadline(p, t) ==
  /\ task[p][t].pc = "flash" /\ MayRun(p, t)
  /\ state' = [state EXCEPT ![p] = "handshake"]
  /\ StopRepeating(p)
  /\ Goto(p, t, "publish", Handshake("pubkey", p))
  /\ UNCHANGED <<keyVars, detached, timeVars, lifeVars, net, inbox>>

\* Host: answer the client's flash with the host's public key.
FlashArm(p, t) ==
  /\ task[p][t].pc = "flash" /\ MayRun(p, t)
  /\ state' = [state EXCEPT ![p] = "handshake"]
  /\ StartHandshakeDeadline(p)
  /\ StopRepeating(p)
  /\ Goto(p, t, "publish", Handshake("pubkey", p))
  /\ UNCHANGED <<keyVars, detached, expiring, lifeVars, net, inbox>>

\* Client: a key that does not have the hash of the URL ends the handshake.
HostKeyMismatch(p, t) ==
  /\ task[p][t].pc = "hostkey" /\ MayRun(p, t)
  /\ ~HashMatches(p, task[p][t].frame.from)
  /\ SetFinalState(p, "error")
  /\ Finish(p, t)
  /\ UNCHANGED <<keyVars, detached, expiring, lifeVars, net, inbox>>

\* Record the peer's key, enter HandshakePartial and repeat `kind`; nothing
\* happens if a key was already recorded.
RecordKey(p, t, kind) ==
  LET key == task[p][t].frame.from IN
  /\ relying_key' = StoreRelyingKey(p, key)
  /\ IF relying_key[p] = None
     THEN /\ state' = [state EXCEPT ![p] = "partial"]
          /\ StopRepeating(p)
          /\ Goto(p, t, "publish", Encrypted(kind, p, key))
     ELSE /\ Finish(p, t)
          /\ UNCHANGED <<state, handshake_task>>
  /\ UNCHANGED <<peer_capabilities, detached, timeVars, lifeVars, net, inbox>>

\* Client: record the host key, answer with the client key.
HostKeyArm(p, t) ==
  /\ task[p][t].pc = "hostkey" /\ MayRun(p, t)
  /\ HashMatches(p, task[p][t].frame.from)
  /\ RecordKey(p, t, "pubkey")

\* Host: record the client key, advertise capabilities.  The announced key
\* is the key that sent the frame.
ClientKeyArm(p, t) ==
  /\ task[p][t].pc = "clientkey" /\ MayRun(p, t)
  /\ RecordKey(p, t, "capabilities")

\* Both: capabilities complete the handshake; the client echoes its own.
CapabilitiesArm(p, t) ==
  /\ task[p][t].pc = "caps" /\ MayRun(p, t)
  /\ peer_capabilities' = StorePeerCapabilities(p, task[p][t].frame.from)
  /\ SetFinalState(p, "encrypted")
  /\ IF p \in Clients
     THEN Goto(p, t, "reply", Encrypted("capabilities", p, relying_key[p]))
     ELSE Finish(p, t)
  /\ UNCHANGED <<relying_key, detached, expiring, lifeVars, net, inbox>>

-----------------------------------------------------------------------------
(***************************************************************************)
(* send_repeating and send_message.                                        *)
(***************************************************************************)
\* The frame reaches the broker; its answer, and the mutex, are outstanding.
Publish(p, t) ==
  /\ task[p][t].pc = "publish" /\ MayRun(p, t)
  /\ channel[p] = "open" /\ ChannelFree(p)
  /\ net' = net \cup Broadcast(task[p][t].frame)
  /\ Goto(p, t, "published", task[p][t].frame)
  /\ UNCHANGED <<state, keyVars, sendVars, timeVars, lifeVars, inbox>>

\* The resend task is spawned and its handle stored; a handle that was there
\* is dropped, which detaches its task.
Repeat(p, t) ==
  /\ task[p][t].pc = "published" /\ MayRun(p, t)
  /\ handshake_task' = [handshake_task EXCEPT ![p] = task[p][t].frame]
  /\ detached' = [detached EXCEPT ![p] = @ \cup ({handshake_task[p]} \ {None})]
  /\ Finish(p, t)
  /\ UNCHANGED <<state, keyVars, timeVars, lifeVars, net, inbox>>

\* A single send_message.
Reply(p, t) ==
  /\ task[p][t].pc = "reply" /\ MayRun(p, t)
  /\ channel[p] = "open" /\ ChannelFree(p)
  /\ net' = net \cup Broadcast(task[p][t].frame)
  /\ Finish(p, t)
  /\ UNCHANGED <<state, keyVars, sendVars, timeVars, lifeVars, inbox>>

\* publish returns an error, always so after teardown: the task ends, no
\* resend task is spawned.
PublishFails(p, t) ==
  /\ \/ task[p][t].pc \in {"publish", "reply"} /\ ChannelFree(p)
     \/ task[p][t].pc = "published"
  /\ "fail" \in Events \/ channel[p] = "torn"
  /\ MayRun(p, t)
  /\ Finish(p, t)
  /\ UNCHANGED <<state, keyVars, sendVars, timeVars, lifeVars, net, inbox>>

\* The two-second tick of a resend task, tracked or detached.
Resend(p, f) ==
  /\ f \in detached[p] \cup ({handshake_task[p]} \ {None})
  /\ MayRun(p, "resend")
  /\ channel[p] = "open" /\ ChannelFree(p) /\ HasRoom(f)
  /\ net' = net \cup Broadcast(f)
  /\ UNCHANGED <<state, keyVars, task, sendVars, timeVars, lifeVars, inbox>>

\* SignalingLayer::send, called by the session once it is encrypted.
Send(p) ==
  LET f == Encrypted("data", p, relying_key[p]) IN
  /\ "send" \in Events
  /\ relying_key[p] # None /\ peer_capabilities[p] # None
  /\ MayRun(p, "send")
  /\ channel[p] = "open" /\ ChannelFree(p) /\ Cardinality(net) <= MaxInFlight
  /\ net' = net \cup Broadcast(f)
  /\ UNCHANGED <<state, keyVars, task, sendVars, timeVars, lifeVars, inbox>>

-----------------------------------------------------------------------------
(***************************************************************************)
(* The 30 second deadline, closing, and the network.                       *)
(***************************************************************************)
DeadlineFires(p) ==
  /\ "expire" \in Events
  /\ deadline_task[p] = "armed" /\ MayRun(p, "deadline")
  /\ deadline_task' = [deadline_task EXCEPT ![p] = "fired"]
  /\ expiring' = [expiring EXCEPT ![p] = (state[p] # "encrypted")]
  /\ UNCHANGED <<state, keyVars, task, sendVars, lifeVars, net, inbox>>

DeadlineExpires(p) ==
  /\ expiring[p] /\ MayRun(p, "deadline")
  /\ SetFinalState(p, "error")
  /\ expiring' = [expiring EXCEPT ![p] = FALSE]
  /\ UNCHANGED <<keyVars, task, detached, lifeVars, net, inbox>>

\* Session::close: the connect operation is aborted at its await, teardown
\* stops the handshake tasks ...
Close(p) ==
  /\ "close" \in Events
  /\ ~closing[p] /\ MayRun(p, "close")
  /\ task[p]["setup"].pc \in Awaiting
  /\ closing' = [closing EXCEPT ![p] = TRUE]
  /\ Finish(p, "setup")
  /\ StopHandshakeTasks(p)
  /\ UNCHANGED <<state, keyVars, detached, expiring, channel, net, inbox>>

\* ... and, when it has the channel mutex, tears the channel down.  Frames that
\* already arrived are dropped, or are handed over all the same: see Channel.
Teardown(p) ==
  /\ closing[p] /\ channel[p] # "torn" /\ MayRun(p, "close")
  /\ ChannelFree(p)
  /\ channel' = [channel EXCEPT ![p] = "torn"]
  /\ net' \in {net, {m \in net : m[1] # p}}
  /\ UNCHANGED <<state, keyVars, task, sendVars, timeVars, closing, inbox>>

\* The broker or the connection loses a frame.  Nobody sees a frame before it
\* is received, so it is lost no earlier than it could have been received.
Lose(m) ==
  /\ "lose" \in Events
  /\ \E t \in Handlers : CanReceive(m[1], t)
  /\ net' = net \ {m}
  /\ UNCHANGED <<state, keyVars, task, sendVars, timeVars, lifeVars, inbox>>

-----------------------------------------------------------------------------
Init ==
  /\ state = [p \in Peers |-> "standby"]
  /\ relying_key = [p \in Peers |-> None]
  /\ peer_capabilities = [p \in Peers |-> None]
  /\ task = [p \in Peers |-> [t \in Tasks |-> Idle]]
  /\ handshake_task = [p \in Peers |-> None]
  /\ detached = [p \in Peers |-> {}]
  /\ deadline_task = [p \in Peers |-> "none"]
  /\ expiring = [p \in Peers |-> FALSE]
  /\ channel = [p \in Peers |-> "closed"]
  /\ closing = [p \in Peers |-> FALSE]
  /\ net = {}
  /\ inbox = [p \in Peers |-> {}]

\* A step of task t of p after it was started.
TaskStep(p, t) ==
  \/ Match(p, t)
  \/ FlashArm(p, t)
  \/ HostKeyMismatch(p, t)
  \/ HostKeyArm(p, t)
  \/ ClientKeyArm(p, t)
  \/ CapabilitiesArm(p, t)
  \/ Publish(p, t)
  \/ Repeat(p, t)
  \/ Reply(p, t)
  \/ PublishFails(p, t)

SetupStep(p) ==
  \/ ChannelReady(p)
  \/ ChannelFails(p)
  \/ HostStart(p)
  \/ ClientStart(p)

DeadlineStep(p) ==
  \/ DeadlineFires(p)
  \/ DeadlineExpires(p)

Next ==
  \/ \E p \in Peers :
       \/ Setup(p)
       \/ SetupStep(p)
       \/ DeadlineStep(p)
       \/ Send(p)
       \/ Close(p)
       \/ Teardown(p)
       \/ \E t \in Tasks : TaskStep(p, t)
       \/ \E f \in detached[p] \cup ({handshake_task[p]} \ {None}) : Resend(p, f)
  \/ \E m \in net :
       \/ \E t \in Handlers : Receive(m[1], t, m[2])
       \/ Lose(m)

Spec == Init /\ [][Next]_vars

(***************************************************************************)
(* Fairness.  Tokio runs every woken task.                                 *)
(***************************************************************************)
TaskFairness ==
  \A p \in Peers :
    /\ WF_vars(Setup(p))
    /\ WF_vars(SetupStep(p))
    /\ WF_vars(Teardown(p))
    /\ \A t \in Tasks : WF_vars(TaskStep(p, t))

\* A timer that is due is run, however often other tasks run before it.
DeadlineFairness == \A p \in Peers : SF_vars(DeadlineStep(p))

\* The channel mutex is handed out in FIFO order, so a resend task that keeps
\* asking for it gets it; a frame that is sent again and again is received.
NetworkFairness ==
  \A p \in Peers :
    /\ SF_vars(Resend(p, handshake_task[p]))
    /\ \A kind \in Kinds \ {"data"} :
         SF_vars(\E t \in Handlers, m \in net :
                   m[1] = p /\ m[2].kind = kind /\ Receive(p, t, m[2]))

DeadlineSpec == Spec /\ TaskFairness /\ DeadlineFairness
NetworkSpec  == Spec /\ TaskFairness /\ NetworkFairness

-----------------------------------------------------------------------------
(***************************************************************************)
(* Safety.                                                                 *)
(***************************************************************************)
\* The type invariant.
TypeOK ==
  /\ state \in [Peers -> States]
  /\ relying_key \in [Peers -> Peers \cup {None}]
  /\ peer_capabilities \in [Peers -> Peers \cup {None}]
  /\ task \in [Peers -> [Tasks -> [pc : Running \cup Awaiting, frame : Frames \cup {None}]]]
  /\ handshake_task \in [Peers -> Frames \cup {None}]
  /\ detached \in [Peers -> SUBSET Frames]
  /\ deadline_task \in [Peers -> {"none", "armed", "fired"}]
  /\ expiring \in [Peers -> BOOLEAN]
  /\ channel \in [Peers -> {"closed", "open", "torn"}]
  /\ closing \in [Peers -> BOOLEAN]
  /\ net \subseteq Peers \X Frames
  /\ inbox \in [Peers -> SUBSET Peers]

\* The keys of a pair agree: the key a host recorded belongs to a client that
\* recorded this host, and that client was given this host's URL.
KeysAgree ==
  \A h \in Hosts : relying_key[h] # None =>
    /\ relying_key[h] \in Clients
    /\ relying_key[relying_key[h]] = h
    /\ Scanned[relying_key[h]] = h

\* A client enters encrypted mode only with a host that is bound to it, so of
\* the wallets that scanned one URL at most one is linked.
OneClientLinks ==
  \A c \in Clients : peer_capabilities[c] # None =>
    /\ peer_capabilities[c] \in Hosts
    /\ relying_key[peer_capabilities[c]] = c

\* The host completes last: once it holds capabilities, they came from the
\* client that already holds the host's.
HostCompletesLast ==
  \A h \in Hosts : peer_capabilities[h] # None =>
    /\ peer_capabilities[h] \in Clients
    /\ peer_capabilities[peer_capabilities[h]] = h

\* Data that reaches the session of a peer was sent by the peer it completed
\* the handshake with, however frames of other sessions on the topic interleave.
DataFromLinkedPeer ==
  \A p \in Peers : \A q \in inbox[p] :
    peer_capabilities[p] = q /\ relying_key[q] = p

(***************************************************************************)
(* The abstract specification: a host is bound to the key it recorded, a   *)
(* peer is linked once it holds capabilities.                              *)
(***************************************************************************)
P == INSTANCE Pairing WITH
       bound  <- [h \in Hosts |-> relying_key[h]],
       linked <- {p \in Peers : peer_capabilities[p] # None}

\* The handshake, with its races and faults, implements Pairing.
RefinesPairing == P!Spec

(***************************************************************************)
(* The inductive invariant: every frame, wherever it is, still tells the   *)
(* truth about the keys and capabilities its sender holds.                 *)
(***************************************************************************)
FrameOK(f) ==
  /\ f.to # None => relying_key[f.from] = f.to
  /\ f.kind \in {"capabilities", "data"} => f.to # None
  /\ f.kind = "pubkey" => (f.from \in Clients <=> f.to # None)
  /\ f.kind = "data" \/ (f.kind = "capabilities" /\ f.from \in Clients) =>
       peer_capabilities[f.from] = f.to

\* What a task of p knows of the frame it handles or sends.
Outgoing(p, f) == f \in Frames /\ FrameOK(f) /\ f.from = p
Incoming(p, f) == f \in Frames /\ FrameOK(f) /\ IsRecipient(p, f) /\ f.to \in {None, p}

TaskOK(p, k) ==
  /\ k.pc \in {"publish", "published", "reply"} => Outgoing(p, k.frame)
  /\ k.pc \in {"match", "hostkey", "clientkey", "caps"} => Incoming(p, k.frame)
  /\ k.pc = "flash" => p \in Hosts
  /\ k.pc = "hostkey" => p \in Clients /\ k.frame.kind = "pubkey" /\ k.frame.to = None
  /\ k.pc = "clientkey" => p \in Hosts /\ k.frame.kind = "pubkey" /\ k.frame.to # None
  /\ k.pc = "caps" => k.frame.kind = "capabilities"
  /\ k.pc = "start" => k.frame = None

FramesOK ==
  /\ \A m \in net : FrameOK(m[2]) /\ IsRecipient(m[1], m[2])
  /\ \A p \in Peers, t \in Tasks : TaskOK(p, task[p][t])
  /\ \A p \in Peers : handshake_task[p] # None => Outgoing(p, handshake_task[p])
  /\ \A p \in Peers : \A f \in detached[p] : Outgoing(p, f)

\* Completing is with the peer whose key was recorded, a client records only
\* the key of its URL, and an encrypted peer has completed.
KeysOK ==
  /\ \A c \in Clients : relying_key[c] \in {None, Scanned[c]}
  /\ \A p \in Peers : peer_capabilities[p] \in {None, relying_key[p]}
  /\ \A p \in Peers : state[p] = "encrypted" => peer_capabilities[p] # None

\* Together they are inductive.
Inv ==
  /\ TypeOK
  /\ KeysAgree
  /\ OneClientLinks
  /\ HostCompletesLast
  /\ DataFromLinkedPeer
  /\ KeysOK
  /\ FramesOK

(***************************************************************************)
(* Action properties and liveness.                                         *)
(***************************************************************************)
Rank == [s \in States |->
  CASE s = "standby" -> 0 [] s = "connecting" -> 1 [] s = "ready" -> 2
    [] s = "handshake" -> 3 [] s = "partial" -> 4
    [] s \in {"encrypted", "error"} -> 5]

\* The signaling state only moves forward, and Encrypted and Error are final:
\* neither a late deadline nor a late or repeated frame takes a peer back.
\* (Claimed where tasks interleave at awaits only.)
StateMovesForward ==
  [][\A p \in Peers : state'[p] # state[p] => Rank[state[p]] < Rank[state'[p]]]_vars

\* A handshake that began ends, whatever is lost and whichever publish fails:
\* the deadline is armed while it lasts.  Closing the session may cut it off.
HandshakeSettles ==
  \A p \in Peers :
    state[p] \in {"handshake", "partial"} ~> (state[p] \in {"encrypted", "error"} \/ closing[p])

\* Resending makes up for every loss: when nothing expires, both sides of a
\* pair end up encrypted and hold each other's capabilities.
HandshakeCompletes ==
  \A c \in Clients :
    (channel[c] = "open" /\ channel[Scanned[c]] = "open") ~>
      /\ peer_capabilities[c] = Scanned[c] /\ state[c] = "encrypted"
      /\ peer_capabilities[Scanned[c]] = c /\ state[Scanned[c]] = "encrypted"

\* Session::close "cancels its work": once it has torn the channel down no
\* task of the layer is left repeating a handshake message.
CloseCancelsResends ==
  \A p \in Peers : channel[p] = "torn" => handshake_task[p] = None /\ detached[p] = {}
=============================================================================
