--------------------------- MODULE SignalingProofs ---------------------------
(***************************************************************************)
(* Proofs about Signaling, for any number of dApps, wallets and handler    *)
(* tasks, with and without preemption and faults.                          *)
(***************************************************************************)
EXTENDS Signaling, TLAPS

\* Recorded keys and capabilities are never replaced.
KeysKept ==
  \A p \in Peers :
    /\ relying_key[p] # None => relying_key'[p] = relying_key[p]
    /\ peer_capabilities[p] # None => peer_capabilities'[p] = peer_capabilities[p]

\* What a frame says of its sender stays true.
LEMMA FrameStaysOK ==
  ASSUME TypeOK, KeysKept, NEW f \in Frames, FrameOK(f)
  PROVE  FrameOK(f)'
BY SignalingAssumption DEF TypeOK, KeysKept, Frames, FrameOK

\* A task that was consistent stays so while no frame stops telling the truth.
LEMMA TaskStaysOK ==
  ASSUME TypeOK, KeysKept, NEW p \in Peers, NEW t \in Tasks, TaskOK(p, task[p][t]),
         task'[p][t] = task[p][t]
  PROVE  TaskOK(p, task[p][t])'
<1> DEFINE f == task[p][t].frame
<1>1. f \in Frames /\ FrameOK(f) => FrameOK(f)'
  BY FrameStaysOK
<1> QED
  BY <1>1 DEF TaskOK, Outgoing, Incoming, IsRecipient

\* It is enough to look at the frames a step adds.
LEMMA FramesStep ==
  ASSUME Inv, KeysKept,
         \A m \in net' : m \in net \/ (FrameOK(m[2])' /\ IsRecipient(m[1], m[2])),
         \A p \in Peers, t \in Tasks : task'[p][t] = task[p][t] \/ TaskOK(p, task[p][t])',
         \A p \in Peers : \/ handshake_task'[p] \in {handshake_task[p], None}
                          \/ Outgoing(p, handshake_task[p])',
         \A p \in Peers : \A f \in detached'[p] : f \in detached[p] \/ Outgoing(p, f)'
  PROVE  FramesOK'
<1>1. \A m \in net' : (FrameOK(m[2]) /\ IsRecipient(m[1], m[2]))'
  <2> SUFFICES ASSUME NEW m \in net'
               PROVE  (FrameOK(m[2]) /\ IsRecipient(m[1], m[2]))'
    OBVIOUS
  <2>1. CASE m \in net
    <3>1. m[2] \in Frames /\ FrameOK(m[2]) /\ IsRecipient(m[1], m[2])
      BY <2>1 DEF Inv, TypeOK, FramesOK
    <3> QED
      BY <3>1, FrameStaysOK DEF Inv, IsRecipient
  <2> QED
    BY <2>1 DEF IsRecipient
<1>2. \A p \in Peers, t \in Tasks : TaskOK(p, task[p][t])'
  BY TaskStaysOK DEF Inv, FramesOK
<1>3. \A p \in Peers : (handshake_task[p] # None => Outgoing(p, handshake_task[p]))'
  BY FrameStaysOK DEF Inv, FramesOK, Outgoing
<1>4. \A p \in Peers : \A f \in detached'[p] : Outgoing(p, f)'
  BY FrameStaysOK DEF Inv, FramesOK, Outgoing
<1> QED
  BY <1>1, <1>2, <1>3, <1>4 DEF FramesOK

\* A step that leaves keys, states and inboxes alone can only disturb the
\* types and the frames.
LEMMA QuietStep ==
  ASSUME Inv, TypeOK', FramesOK', UNCHANGED <<state, keyVars, inbox>>
  PROVE  Inv'
BY DEF Inv, keyVars, KeysAgree, OneClientLinks, HostCompletesLast, DataFromLinkedPeer, KeysOK

\* A step that leaves keys and capabilities alone keeps every frame true.
LEMMA KeysKeptIfUnchanged ==
  ASSUME UNCHANGED keyVars
  PROVE  KeysKept
BY DEF keyVars, KeysKept

-----------------------------------------------------------------------------
(***************************************************************************)
(* One lemma per group of actions.                                         *)
(***************************************************************************)
LEMMA FrameTypes ==
  ASSUME NEW p \in Peers, NEW kind \in Kinds
  PROVE  /\ Handshake(kind, p) \in Frames
         /\ \A q \in Peers : Encrypted(kind, p, q) \in Frames
BY DEF Handshake, Encrypted, Frames

TaskRecords == [pc : Running \cup Awaiting, frame : Frames \cup {None}]

\* A step of one task leaves the others where they are.
LEMMA TaskUpdate ==
  ASSUME TypeOK, NEW p \in Peers, NEW t \in Tasks, NEW k, task' = [task EXCEPT ![p][t] = k]
  PROVE  /\ task'[p][t] = k
         /\ \A q \in Peers, u \in Tasks : <<q, u>> # <<p, t>> => task'[q][u] = task[q][u]
         /\ k \in TaskRecords => task' \in [Peers -> [Tasks -> TaskRecords]]
BY DEF TypeOK, TaskRecords

\* An idle task is consistent in every state.
LEMMA IdleOK ==
  ASSUME NEW p
  PROVE  Idle \in TaskRecords /\ TaskOK(p, Idle) /\ TaskOK(p, Idle)'
BY DEF Idle, TaskRecords, TaskOK, Awaiting

\* Setting up the channel.
LEMMA SetupKeepsInv ==
  ASSUME Inv, NEW p \in Peers, Setup(p) \/ ChannelReady(p) \/ ChannelFails(p) \/ HostStart(p)
  PROVE  Inv'
<1>1. PICK k \in TaskRecords : task' = [task EXCEPT ![p]["setup"] = k] /\ TaskOK(p, k)'
  BY IdleOK DEF Setup, ChannelReady, ChannelFails, HostStart, Goto, Finish, At, TaskRecords, TaskOK,
     Running, Awaiting
<1>2. UNCHANGED <<keyVars, sendVars, timeVars, closing, net, inbox>>
  BY DEF Setup, ChannelReady, ChannelFails, HostStart, lifeVars
<1>3. \A q \in Peers, t \in Tasks : task'[q][t] = task[q][t] \/ TaskOK(q, task[q][t])'
  BY <1>1, TaskUpdate DEF Inv, Tasks
<1>a. TypeOK'
  <2>1. task' \in [Peers -> [Tasks -> TaskRecords]]
    BY <1>1, TaskUpdate DEF Inv, Tasks
  <2>2. state' \in [Peers -> States] /\ channel' \in [Peers -> {"closed", "open", "torn"}]
    <3>1. state' = state \/ \E st \in States : state' = [state EXCEPT ![p] = st]
      BY DEF Setup, ChannelReady, ChannelFails, HostStart, States
    <3>2. channel' = channel \/ channel' = [channel EXCEPT ![p] = "open"]
      BY DEF Setup, ChannelReady, ChannelFails, HostStart, lifeVars
    <3>3. state' \in [Peers -> States]
      BY <3>1 DEF Inv, TypeOK
    <3>4. channel' \in [Peers -> {"closed", "open", "torn"}]
      BY <3>2 DEF Inv, TypeOK
    <3> QED
      BY <3>3, <3>4
  <2> QED
    BY <1>2, <2>1, <2>2 DEF Inv, TypeOK, TaskRecords, keyVars, sendVars, timeVars
<1>4. FramesOK'
  BY <1>2, <1>3, KeysKeptIfUnchanged, FramesStep DEF sendVars
<1>5. KeysOK'
  BY <1>2 DEF Inv, TypeOK, KeysOK, keyVars, Setup, ChannelReady, ChannelFails, HostStart
<1> QED
  BY <1>a, <1>2, <1>4, <1>5
     DEF Inv, keyVars, KeysAgree, OneClientLinks, HostCompletesLast, DataFromLinkedPeer

\* Entering the handshake with a first frame under the handshake key.
LEMMA StartKeepsInv ==
  ASSUME Inv, NEW p \in Peers, NEW t \in Tasks, ClientStart(p) \/ FlashArm(p, t)
  PROVE  Inv'
<1>1. TypeOK'
  <2>1. CASE ClientStart(p)
    BY <2>1 DEF Inv, TypeOK, ClientStart, StartHandshakeDeadline, StopRepeating,
       Goto, At, Handshake, Frames, Kinds, Tasks, Running, Awaiting, States, Peers, keyVars, lifeVars
  <2>2. CASE FlashArm(p, t)
    BY <2>2 DEF Inv, TypeOK, FlashArm, StartHandshakeDeadline, StopRepeating,
       Goto, At, Handshake, Frames, Kinds, Tasks, Running, Awaiting, States, Peers, keyVars, lifeVars
  <2> QED
    BY <2>1, <2>2
<1>2. UNCHANGED <<keyVars, detached, net, inbox>>
  BY DEF ClientStart, FlashArm
<1>3. \A q \in Peers : handshake_task'[q] \in {handshake_task[q], None}
  BY DEF Inv, TypeOK, ClientStart, FlashArm, StopRepeating
<1>4. \A q \in Peers, u \in Tasks : task'[q][u] = task[q][u] \/ TaskOK(q, task[q][u])'
  <2>1. CASE ClientStart(p)
    BY <2>1, SignalingAssumption, FrameTypes DEF Inv, TypeOK, ClientStart, Goto, At, TaskOK,
       Outgoing, FrameOK, Handshake, Frames, Kinds
  <2>2. CASE FlashArm(p, t)
    BY <2>2, SignalingAssumption, FrameTypes DEF Inv, TypeOK, FramesOK, FlashArm, Goto, At, TaskOK,
       Outgoing, FrameOK, Handshake, Frames, Kinds
  <2> QED
    BY <2>1, <2>2
<1>5. FramesOK'
  BY <1>2, <1>3, <1>4, KeysKeptIfUnchanged, FramesStep
<1>6. KeysOK'
  BY <1>2 DEF Inv, TypeOK, KeysOK, keyVars, ClientStart, FlashArm
<1> QED
  BY <1>1, <1>2, <1>5, <1>6
     DEF Inv, keyVars, KeysAgree, OneClientLinks, HostCompletesLast, DataFromLinkedPeer

\* handle_receive taking a frame off the network keeps the invariant.
LEMMA ReceiveKeepsInv ==
  ASSUME Inv, NEW m \in net, NEW t \in Handlers, Receive(m[1], t, m[2])
  PROVE  Inv'
<1> DEFINE p == m[1]
           f == m[2]
<1>1. p \in Peers /\ f \in Frames /\ FrameOK(f) /\ IsRecipient(p, f) /\ t \in Tasks
  BY DEF Inv, TypeOK, FramesOK, Tasks
<1>2. TypeOK'
  <2>1. task' \in [Peers -> [Tasks -> TaskRecords]]
    <3>1. At("match", f) \in TaskRecords
      BY <1>1 DEF At, TaskRecords, Running
    <3> QED
      <4>1. CASE UNCHANGED task
        BY <4>1 DEF Inv, TypeOK, TaskRecords
      <4>2. CASE task' = [task EXCEPT ![p][t] = At("match", f)]
        BY <1>1, <3>1, <4>2, TaskUpdate DEF Inv
      <4> QED
        BY <4>1, <4>2 DEF Receive, Goto
  <2> QED
    BY <2>1 DEF Inv, TypeOK, TaskRecords, Receive, keyVars, sendVars, timeVars, lifeVars
<1>3. UNCHANGED <<state, keyVars, sendVars, inbox>> /\ net' \subseteq net
  BY DEF Receive
<1>4. \A q \in Peers, u \in Tasks : task'[q][u] = task[q][u] \/ TaskOK(q, task[q][u])'
  <2>1. FrameOK(f)'
    BY <1>1, <1>3, KeysKeptIfUnchanged, FrameStaysOK DEF Inv
  <2>2. CASE Decrypts(p, f) /\ IsValid(f)
    <3>1. Incoming(p, f)'
      BY <1>1, <2>1, <2>2 DEF Incoming, IsRecipient, Decrypts
    <3>2. TaskOK(p, At("match", f))'
      BY <3>1 DEF TaskOK, At
    <3>3. task' = [task EXCEPT ![p][t] = At("match", f)]
      BY <2>2 DEF Receive, Goto
    <3> QED
      BY <1>1, <3>2, <3>3, TaskUpdate DEF Inv
  <2>3. CASE ~(Decrypts(p, f) /\ IsValid(f))
    BY <2>3 DEF Receive
  <2> QED
    BY <2>2, <2>3
<1>5. FramesOK'
  BY <1>3, <1>4, KeysKeptIfUnchanged, FramesStep DEF sendVars
<1> QED
  BY <1>2, <1>3, <1>5, QuietStep

\* The match only chooses an arm, and hands data to the session.
LEMMA MatchKeepsInv ==
  ASSUME Inv, NEW p \in Peers, NEW t \in Tasks, Match(p, t)
  PROVE  Inv'
<1>1. PICK f \in Frames : f = task[p][t].frame /\ Incoming(p, f)
  BY DEF Inv, FramesOK, TaskOK, Match, Incoming
<1>2. f.from \in Peers /\ FrameOK(f)
  BY <1>1 DEF Incoming, Frames
<1>3. Arm(p, f) \in TaskRecords
  <2>1. p \in Clients /\ state[p] = "encrypted" => relying_key[p] \in Peers
    BY SignalingAssumption DEF Inv, TypeOK, KeysOK, Peers
  <2> QED
    BY <1>2, <2>1, FrameTypes DEF Arm, At, Idle, TaskRecords, Running, Awaiting, Kinds
<1>4. TypeOK'
  <2>1. task' \in [Peers -> [Tasks -> TaskRecords]]
    BY <1>1, <1>3, TaskUpdate DEF Inv, Match
  <2> QED
    BY <1>1, <1>2, <2>1 DEF Inv, TypeOK, TaskRecords, Match, keyVars, sendVars, timeVars, lifeVars
<1>5. UNCHANGED <<state, keyVars, sendVars, net>>
  BY DEF Match
<1>6. TaskOK(p, Arm(p, f))'
  <2>1. FrameOK(f)' /\ Incoming(p, f)'
    BY <1>1, <1>2, <1>5, KeysKeptIfUnchanged, FrameStaysOK DEF Inv, Incoming, IsRecipient
  <2>2. CASE f.kind = "capabilities" /\ p \in Clients /\ state[p] = "encrypted"
    <3>1. relying_key[p] \in Peers /\ peer_capabilities[p] = relying_key[p]
      BY <2>2, SignalingAssumption DEF Inv, TypeOK, KeysOK, Peers
    <3>2. Outgoing(p, Encrypted("capabilities", p, relying_key[p]))'
      BY <1>5, <2>2, <3>1, FrameTypes, SignalingAssumption
         DEF Outgoing, FrameOK, Encrypted, Frames, Kinds, keyVars, Peers
    <3>3. Arm(p, f)' = At("reply", Encrypted("capabilities", p, relying_key[p]))'
      BY <1>5, <2>2 DEF Arm, At, keyVars
    <3> QED
      BY <3>2, <3>3 DEF TaskOK, At
  <2>3. CASE ~(f.kind = "capabilities" /\ p \in Clients /\ state[p] = "encrypted")
    BY <1>5, <2>1, <2>3 DEF Arm, TaskOK, At, Idle
  <2> QED
    BY <2>2, <2>3
<1>7. \A q \in Peers, u \in Tasks : task'[q][u] = task[q][u] \/ TaskOK(q, task[q][u])'
  <2>1. Arm(p, f)' = Arm(p, f)
    BY <1>5 DEF Arm, keyVars
  <2> QED
    BY <1>1, <1>6, <2>1, TaskUpdate DEF Inv, Match
<1>8. FramesOK'
  BY <1>5, <1>7, KeysKeptIfUnchanged, FramesStep DEF sendVars
<1>9. DataFromLinkedPeer'
  <2>1. ASSUME f.kind = "data", state[p] = "encrypted"
        PROVE  peer_capabilities[p] = f.from /\ relying_key[f.from] = p
    <3>1. f.to = p /\ relying_key[f.from] = p /\ peer_capabilities[f.from] = p
      BY <1>1, <2>1 DEF Incoming, FrameOK
    <3>2. relying_key[p] = f.from
      BY <1>1, <1>2, <3>1, SignalingAssumption
         DEF Inv, TypeOK, KeysAgree, OneClientLinks, HostCompletesLast, KeysOK, Peers
    <3> QED
      BY <2>1, <3>1, <3>2 DEF Inv, KeysOK
  <2> QED
    BY <1>1, <1>2, <1>5, <2>1 DEF Inv, TypeOK, DataFromLinkedPeer, Match, keyVars
<1> QED
  BY <1>4, <1>5, <1>8, <1>9
     DEF Inv, keyVars, KeysAgree, OneClientLinks, HostCompletesLast, KeysOK

\* A key that does not match, the deadline and closing.
LEMMA ErrorKeepsInv ==
  ASSUME Inv, NEW p \in Peers, NEW t \in Tasks,
         HostKeyMismatch(p, t) \/ DeadlineFires(p) \/ DeadlineExpires(p) \/ Close(p) \/ Teardown(p)
  PROVE  Inv'
<1>1. UNCHANGED <<keyVars, detached, inbox>> /\ net' \subseteq net
  BY DEF HostKeyMismatch, DeadlineFires, DeadlineExpires, Close, Teardown, sendVars
<1>2. UNCHANGED task \/ \E u \in Tasks : task' = [task EXCEPT ![p][u] = Idle]
  BY DEF HostKeyMismatch, DeadlineFires, DeadlineExpires, Close, Teardown, Finish, Tasks
<1>3. \A q \in Peers, u \in Tasks : task'[q][u] = task[q][u] \/ TaskOK(q, task[q][u])'
  BY <1>2, IdleOK, TaskUpdate DEF Inv
<1>4. task' \in [Peers -> [Tasks -> TaskRecords]]
  <2>1. CASE UNCHANGED task
    BY <2>1 DEF Inv, TypeOK, TaskRecords
  <2>2. CASE \E u \in Tasks : task' = [task EXCEPT ![p][u] = Idle]
    BY <2>2, IdleOK, TaskUpdate DEF Inv
  <2> QED
    BY <1>2, <2>1, <2>2
<1>5. UNCHANGED handshake_task \/ handshake_task' = [handshake_task EXCEPT ![p] = None]
  BY DEF HostKeyMismatch, DeadlineFires, DeadlineExpires, Close, Teardown, SetFinalState,
     StopHandshakeTasks, StopRepeating, sendVars
<1>6. UNCHANGED state \/ state' = [state EXCEPT ![p] = "error"]
  BY DEF HostKeyMismatch, DeadlineFires, DeadlineExpires, Close, Teardown, SetFinalState
<1>7. TypeOK'
  <2>1. deadline_task' \in [Peers -> {"none", "armed", "fired"}]
    BY DEF Inv, TypeOK, HostKeyMismatch, DeadlineFires, DeadlineExpires, Close, Teardown,
       SetFinalState, StopHandshakeTasks, timeVars
  <2>2. expiring' \in [Peers -> BOOLEAN]
    <3>1. UNCHANGED expiring \/ \E b \in BOOLEAN : expiring' = [expiring EXCEPT ![p] = b]
      BY DEF HostKeyMismatch, DeadlineFires, DeadlineExpires, Close, Teardown, timeVars
    <3> QED
      BY <3>1 DEF Inv, TypeOK
  <2>3. channel' \in [Peers -> {"closed", "open", "torn"}] /\ closing' \in [Peers -> BOOLEAN]
    <3>1. UNCHANGED channel \/ channel' = [channel EXCEPT ![p] = "torn"]
      BY DEF HostKeyMismatch, DeadlineFires, DeadlineExpires, Close, Teardown, lifeVars
    <3>2. UNCHANGED closing \/ closing' = [closing EXCEPT ![p] = TRUE]
      BY DEF HostKeyMismatch, DeadlineFires, DeadlineExpires, Close, Teardown, lifeVars
    <3> QED
      BY <3>1, <3>2 DEF Inv, TypeOK
  <2>4. state' \in [Peers -> States] /\ handshake_task' \in [Peers -> Frames \cup {None}]
    BY <1>5, <1>6 DEF Inv, TypeOK, States
  <2> QED
    BY <1>1, <1>4, <2>1, <2>2, <2>3, <2>4 DEF Inv, TypeOK, TaskRecords, keyVars
<1>8. FramesOK'
  <2>1. \A q \in Peers : handshake_task'[q] \in {handshake_task[q], None}
    BY <1>5 DEF Inv, TypeOK
  <2> QED
    BY <1>1, <1>3, <2>1, KeysKeptIfUnchanged, FramesStep
<1>9. KeysOK'
  BY <1>1, <1>6 DEF Inv, TypeOK, KeysOK, keyVars
<1> QED
  BY <1>1, <1>7, <1>8, <1>9
     DEF Inv, keyVars, KeysAgree, OneClientLinks, HostCompletesLast, DataFromLinkedPeer

\* Sending: only frames the sender may send reach the network.
LEMMA BroadcastOK ==
  ASSUME Inv, UNCHANGED keyVars, NEW p \in Peers, NEW f, Outgoing(p, f)
  PROVE  /\ Broadcast(f) \subseteq Peers \X Frames
         /\ \A m \in Broadcast(f) : FrameOK(m[2])' /\ IsRecipient(m[1], m[2])
<1>1. FrameOK(f)'
  BY KeysKeptIfUnchanged, FrameStaysOK DEF Inv, Outgoing
<1> QED
  BY <1>1 DEF Broadcast, Outgoing

\* SignalingLayer::send keeps the invariant: it needs stored capabilities.
LEMMA SendKeepsInv ==
  ASSUME Inv, NEW p \in Peers, NEW t \in Tasks, NEW f,
         Publish(p, t) \/ Reply(p, t) \/ Resend(p, f) \/ Send(p)
  PROVE  Inv'
<1>1. UNCHANGED <<state, keyVars, sendVars, timeVars, lifeVars, inbox>>
  BY DEF Publish, Reply, Resend, Send
<1>2. PICK g : Outgoing(p, g) /\ net' = net \cup Broadcast(g)
  <2>1. CASE Publish(p, t) \/ Reply(p, t)
    <3>1. Outgoing(p, task[p][t].frame)
      BY <2>1 DEF Inv, FramesOK, TaskOK, Publish, Reply
    <3> QED
      BY <2>1, <3>1 DEF Publish, Reply
  <2>2. CASE Resend(p, f)
    BY <2>2 DEF Inv, FramesOK, Resend
  <2>3. CASE Send(p)
    <3>1. relying_key[p] \in Peers /\ peer_capabilities[p] = relying_key[p]
      BY <2>3 DEF Inv, TypeOK, KeysOK, Send
    <3>2. Outgoing(p, Encrypted("data", p, relying_key[p]))
      BY <3>1, SignalingAssumption, FrameTypes DEF Outgoing, FrameOK, Encrypted, Kinds
    <3> QED
      BY <2>3, <3>2 DEF Send
  <2> QED
    BY <2>1, <2>2, <2>3
<1>3. UNCHANGED task \/ \E k \in TaskRecords : TaskOK(p, k)' /\ task' = [task EXCEPT ![p][t] = k]
  <2>1. CASE Publish(p, t)
    <3>1. PICK h \in Frames : h = task[p][t].frame /\ Outgoing(p, h)
      BY <2>1 DEF Inv, FramesOK, TaskOK, Publish, Outgoing
    <3>2. Outgoing(p, h)'
      BY <1>1, <3>1, KeysKeptIfUnchanged, FrameStaysOK DEF Inv, Outgoing
    <3>3. At("published", h) \in TaskRecords /\ TaskOK(p, At("published", h))'
      BY <3>2 DEF TaskRecords, Awaiting, TaskOK, At
    <3> QED
      BY <2>1, <3>1, <3>3 DEF Publish, Goto
  <2>2. CASE Reply(p, t)
    BY <2>2, IdleOK DEF Reply, Finish
  <2>3. CASE Resend(p, f) \/ Send(p)
    BY <2>3 DEF Resend, Send
  <2> QED
    BY <2>1, <2>2, <2>3
<1>4. \A q \in Peers, u \in Tasks : task'[q][u] = task[q][u] \/ TaskOK(q, task[q][u])'
  BY <1>3, TaskUpdate DEF Inv
<1>5. task' \in [Peers -> [Tasks -> TaskRecords]]
  <2>1. CASE UNCHANGED task
    BY <2>1 DEF Inv, TypeOK, TaskRecords
  <2> QED
    BY <1>3, <2>1, TaskUpdate DEF Inv
<1>6. TypeOK'
  BY <1>1, <1>2, <1>5, BroadcastOK
     DEF Inv, TypeOK, TaskRecords, keyVars, sendVars, timeVars, lifeVars
<1>7. FramesOK'
  BY <1>1, <1>2, <1>4, BroadcastOK, KeysKeptIfUnchanged, FramesStep DEF sendVars
<1> QED
  BY <1>1, <1>6, <1>7, QuietStep

\* Storing a resend task, which may detach an older one, keeps the invariant.
LEMMA RepeatKeepsInv ==
  ASSUME Inv, NEW p \in Peers, NEW t \in Tasks, Repeat(p, t) \/ PublishFails(p, t)
  PROVE  Inv'
<1>1. UNCHANGED <<state, keyVars, timeVars, lifeVars, net, inbox>>
  BY DEF Repeat, PublishFails
<1>2. task' = [task EXCEPT ![p][t] = Idle]
  BY DEF Repeat, PublishFails, Finish
<1>3. \A q \in Peers, u \in Tasks : task'[q][u] = task[q][u] \/ TaskOK(q, task[q][u])'
  BY <1>2, IdleOK, TaskUpdate DEF Inv
<1>4. CASE PublishFails(p, t)
  <2>1. TypeOK'
    BY <1>1, <1>2, <1>4, IdleOK, TaskUpdate
       DEF Inv, TypeOK, TaskRecords, PublishFails, keyVars, sendVars, timeVars, lifeVars
  <2>2. FramesOK'
    BY <1>1, <1>3, <1>4, KeysKeptIfUnchanged, FramesStep DEF PublishFails, sendVars
  <2> QED
    BY <1>1, <2>1, <2>2, QuietStep
<1>5. CASE Repeat(p, t)
  <2>1. PICK f \in Frames : f = task[p][t].frame /\ Outgoing(p, f)
    BY <1>5 DEF Inv, FramesOK, TaskOK, Repeat, Outgoing
  <2>2. Outgoing(p, f)'
    BY <1>1, <2>1, KeysKeptIfUnchanged, FrameStaysOK DEF Inv, Outgoing
  <2>3. \A q \in Peers : handshake_task'[q] = handshake_task[q] \/ Outgoing(q, handshake_task[q])'
    BY <1>5, <2>1, <2>2 DEF Inv, TypeOK, Repeat
  <2>4. \A q \in Peers : \A g \in detached'[q] : g \in detached[q] \/ Outgoing(q, g)'
    <3> SUFFICES ASSUME NEW q \in Peers, NEW g \in detached'[q], g \notin detached[q]
                 PROVE  Outgoing(q, g)'
      OBVIOUS
    <3>1. q = p /\ g = handshake_task[p] /\ g # None
      BY <1>5 DEF Inv, TypeOK, Repeat
    <3>2. Outgoing(p, g)
      BY <3>1 DEF Inv, FramesOK
    <3> QED
      BY <1>1, <3>1, <3>2, KeysKeptIfUnchanged, FrameStaysOK DEF Inv, Outgoing
  <2>5. TypeOK'
    <3>1. handshake_task' \in [Peers -> Frames \cup {None}] /\ detached' \in [Peers -> SUBSET Frames]
      BY <1>5, <2>1 DEF Inv, TypeOK, Repeat
    <3>2. task' \in [Peers -> [Tasks -> TaskRecords]]
      BY <1>2, IdleOK, TaskUpdate DEF Inv
    <3> QED
      BY <1>1, <3>1, <3>2 DEF Inv, TypeOK, TaskRecords, keyVars, timeVars, lifeVars
  <2>6. FramesOK'
    BY <1>1, <1>3, <2>3, <2>4, KeysKeptIfUnchanged, FramesStep
  <2> QED
    BY <1>1, <2>5, <2>6, QuietStep
<1> QED
  BY <1>4, <1>5

\* Losing a frame keeps the invariant.
LEMMA LoseKeepsInv ==
  ASSUME Inv, NEW m \in net, Lose(m)
  PROVE  Inv'
<1>1. TypeOK'
  BY DEF Inv, TypeOK, Lose, keyVars, sendVars, timeVars, lifeVars
<1>2. UNCHANGED <<state, keyVars, task, sendVars, inbox>> /\ net' \subseteq net
  BY DEF Lose
<1>3. FramesOK'
  BY <1>2, KeysKeptIfUnchanged, FramesStep DEF sendVars
<1> QED
  BY <1>1, <1>2, <1>3, QuietStep

-----------------------------------------------------------------------------
(***************************************************************************)
(* The arms that record a key or complete the handshake.                   *)
(***************************************************************************)
\* What the arms of handle_receive know when they record the key of a frame:
\* a host takes it from a client that recorded the host, a client from the
\* host of its URL.
LEMMA RecordKeyKeepsInv ==
  ASSUME Inv, NEW p \in Peers, NEW t \in Tasks, NEW kind \in {"pubkey", "capabilities"},
         NEW key \in Peers, task[p][t].frame.from = key, RecordKey(p, t, kind),
         p \in Hosts => key \in Clients /\ relying_key[key] = p,
         p \in Clients => key = Scanned[p],
         kind = "pubkey" <=> p \in Clients
  PROVE  Inv'
<1>1. UNCHANGED <<peer_capabilities, detached, timeVars, lifeVars, net, inbox>>
  BY DEF RecordKey
<1>2. CASE relying_key[p] # None
  <2>1. UNCHANGED <<state, relying_key, handshake_task>> /\ task' = [task EXCEPT ![p][t] = Idle]
    BY <1>2 DEF RecordKey, StoreRelyingKey, Finish
  <2>2. UNCHANGED keyVars
    BY <1>1, <2>1 DEF keyVars
  <2>3. \A q \in Peers, u \in Tasks : task'[q][u] = task[q][u] \/ TaskOK(q, task[q][u])'
    BY <2>1, IdleOK, TaskUpdate DEF Inv
  <2>4. TypeOK'
    BY <1>1, <2>1, IdleOK, TaskUpdate DEF Inv, TypeOK, TaskRecords, timeVars, lifeVars
  <2>5. FramesOK'
    BY <1>1, <2>1, <2>2, <2>3, KeysKeptIfUnchanged, FramesStep
  <2> QED
    BY <1>1, <2>1, <2>2, <2>4, <2>5, QuietStep
<1>3. CASE relying_key[p] = None
  <2> DEFINE f == Encrypted(kind, p, key)
  <2>1. /\ relying_key' = [relying_key EXCEPT ![p] = key]
        /\ state' = [state EXCEPT ![p] = "partial"]
        /\ handshake_task' = [handshake_task EXCEPT ![p] = None]
        /\ task' = [task EXCEPT ![p][t] = At("publish", f)]
    BY <1>3 DEF RecordKey, StoreRelyingKey, StopRepeating, Goto
  <2>2. KeysKept
    BY <1>1, <1>3, <2>1 DEF Inv, TypeOK, KeysKept
  <2>3. Outgoing(p, f)' /\ f \in Frames
    <3>1. relying_key'[p] = key
      BY <2>1 DEF Inv, TypeOK
    <3>2. f \in Frames
      BY FrameTypes DEF Kinds
    <3> QED
      BY <3>1, <3>2, SignalingAssumption DEF Outgoing, FrameOK, Encrypted, Peers
  <2>4. At("publish", f) \in TaskRecords /\ TaskOK(p, At("publish", f))'
    BY <2>3 DEF TaskRecords, Awaiting, TaskOK, At
  <2>5. \A q \in Peers, u \in Tasks : task'[q][u] = task[q][u] \/ TaskOK(q, task[q][u])'
    BY <2>1, <2>4, TaskUpdate DEF Inv
  <2>6. TypeOK'
    <3>1. task' \in [Peers -> [Tasks -> TaskRecords]]
      BY <2>1, <2>4, TaskUpdate DEF Inv
    <3>2. /\ relying_key' \in [Peers -> Peers \cup {None}]
          /\ state' \in [Peers -> States]
          /\ handshake_task' \in [Peers -> Frames \cup {None}]
      BY <2>1 DEF Inv, TypeOK, States
    <3> QED
      BY <1>1, <3>1, <3>2 DEF Inv, TypeOK, TaskRecords, timeVars, lifeVars
  <2>7. FramesOK'
    <3>1. \A q \in Peers : handshake_task'[q] \in {handshake_task[q], None}
      BY <2>1 DEF Inv, TypeOK
    <3> QED
      BY <1>1, <2>2, <2>5, <3>1, FramesStep
  <2>8. peer_capabilities[p] = None /\ \A h \in Hosts : relying_key[h] # p
    <3>1. peer_capabilities[p] = None
      BY <1>3 DEF Inv, KeysOK
    <3>2. \A h \in Hosts : relying_key[h] # p
      BY <1>3, SignalingAssumption DEF Inv, KeysAgree, Peers
    <3> QED
      BY <3>1, <3>2
  <2>9. KeysOK'
    BY <1>1, <2>1, <2>8, SignalingAssumption DEF Inv, TypeOK, KeysOK, Peers
  <2>10. KeysAgree'
    <3> SUFFICES ASSUME NEW h \in Hosts, relying_key'[h] # None
                 PROVE  /\ relying_key'[h] \in Clients
                        /\ relying_key'[relying_key'[h]] = h
                        /\ Scanned[relying_key'[h]] = h
      BY DEF KeysAgree
    <3>1. CASE h = p
      <4>1. relying_key'[h] = key /\ key \in Clients /\ relying_key[key] = p /\ key # p
        BY <2>1, <3>1, SignalingAssumption DEF Inv, TypeOK
      <4>2. relying_key'[key] = p
        BY <2>1, <4>1 DEF Inv, TypeOK
      <4>3. Scanned[key] = p
        BY <4>1, SignalingAssumption DEF Inv, KeysOK, Peers
      <4> QED
        BY <3>1, <4>1, <4>2, <4>3
    <3>2. CASE h # p
      BY <2>1, <2>8, <3>2, SignalingAssumption DEF Inv, TypeOK, KeysAgree, Peers
    <3> QED
      BY <3>1, <3>2
  <2>11. OneClientLinks' /\ HostCompletesLast'
    <3>1. None \notin Peers /\ UNCHANGED peer_capabilities
      BY <1>1, SignalingAssumption
    <3>2. OneClientLinks'
      BY <2>2, <3>1 DEF Inv, TypeOK, OneClientLinks, KeysKept, Peers
    <3>3. HostCompletesLast'
      BY <3>1 DEF Inv, HostCompletesLast
    <3> QED
      BY <3>2, <3>3
  <2>12. DataFromLinkedPeer'
    <3> SUFFICES ASSUME NEW a \in Peers, NEW b \in inbox'[a]
                 PROVE  peer_capabilities'[a] = b /\ relying_key'[b] = a
      BY DEF DataFromLinkedPeer
    <3>1. b \in Peers /\ peer_capabilities[a] = b /\ relying_key[b] = a
      BY <1>1 DEF Inv, TypeOK, DataFromLinkedPeer
    <3>2. a # None /\ b # None
      BY <3>1, SignalingAssumption
    <3> QED
      BY <2>2, <3>1, <3>2 DEF KeysKept
  <2> QED
    BY <2>6, <2>7, <2>9, <2>10, <2>11, <2>12 DEF Inv
<1> QED
  BY <1>2, <1>3

\* Recording a public key, on either side, keeps the invariant.
LEMMA KeyArmsKeepInv ==
  ASSUME Inv, NEW p \in Peers, NEW t \in Tasks, HostKeyArm(p, t) \/ ClientKeyArm(p, t)
  PROVE  Inv'
<1>1. PICK f \in Frames : f = task[p][t].frame /\ Incoming(p, f)
  BY DEF Inv, FramesOK, TaskOK, HostKeyArm, ClientKeyArm, Incoming
<1>2. f.from \in Peers
  BY <1>1 DEF Frames
<1>3. CASE HostKeyArm(p, t)
  <2>1. p \in Clients /\ f.from = Scanned[p]
    BY <1>1, <1>3 DEF Inv, FramesOK, TaskOK, HostKeyArm, HashMatches
  <2> QED
    BY <1>1, <1>2, <1>3, <2>1, SignalingAssumption, RecordKeyKeepsInv DEF HostKeyArm
<1>4. CASE ClientKeyArm(p, t)
  <2>1. p \in Hosts /\ f.kind = "pubkey" /\ f.to # None
    BY <1>1, <1>4 DEF Inv, FramesOK, TaskOK, ClientKeyArm
  <2>2. f.from \in Clients /\ relying_key[f.from] = p
    BY <1>1, <2>1 DEF Incoming, FrameOK
  <2> QED
    BY <1>1, <1>2, <1>4, <2>1, <2>2, SignalingAssumption, RecordKeyKeepsInv DEF ClientKeyArm
<1> QED
  BY <1>3, <1>4

\* Capabilities come from the peer whose key was recorded, and a client's
\* come after it stored the host's.
LEMMA CapabilitiesFrom ==
  ASSUME Inv, NEW p \in Peers, NEW t \in Tasks, task[p][t].pc = "caps"
  PROVE  \E f \in Frames :
           /\ f = task[p][t].frame
           /\ f.from \in Peers /\ relying_key[f.from] = p /\ relying_key[p] = f.from
           /\ p \in Hosts => f.from \in Clients /\ peer_capabilities[f.from] = p
           /\ p \in Clients => f.from \in Hosts
<1>1. PICK f \in Frames : f = task[p][t].frame /\ Incoming(p, f) /\ f.kind = "capabilities"
  BY DEF Inv, FramesOK, TaskOK, Incoming
<1>2. f.from \in Peers /\ f.to = p /\ relying_key[f.from] = p
  BY <1>1 DEF Incoming, FrameOK, Frames
<1>3. p \in Hosts => f.from \in Clients /\ peer_capabilities[f.from] = p
  BY <1>1, <1>2, SignalingAssumption DEF Incoming, IsRecipient, FrameOK, Peers
<1>4. p \in Clients => f.from \in Hosts
  BY <1>1, <1>2, SignalingAssumption DEF Incoming, IsRecipient, Peers
<1>5. relying_key[p] = f.from
  <2>1. CASE p \in Hosts
    BY <1>3, <2>1, SignalingAssumption DEF Inv, OneClientLinks, Peers
  <2>2. CASE p \in Clients
    BY <1>2, <1>4, <2>2, SignalingAssumption DEF Inv, KeysAgree, Peers
  <2> QED
    BY <2>1, <2>2 DEF Peers
<1> QED
  BY <1>1, <1>2, <1>3, <1>4, <1>5

\* Storing capabilities and entering encrypted mode keeps the invariant.
LEMMA CapabilitiesArmKeepsInv ==
  ASSUME Inv, NEW p \in Peers, NEW t \in Tasks, CapabilitiesArm(p, t)
  PROVE  Inv'
<1>1. PICK f \in Frames :
           /\ f = task[p][t].frame
           /\ f.from \in Peers /\ relying_key[f.from] = p /\ relying_key[p] = f.from
           /\ p \in Hosts => f.from \in Clients /\ peer_capabilities[f.from] = p
           /\ p \in Clients => f.from \in Hosts
  BY CapabilitiesFrom DEF CapabilitiesArm
<1> DEFINE g == Encrypted("capabilities", p, f.from)
<1>2. UNCHANGED <<relying_key, detached, expiring, lifeVars, net, inbox>>
  BY DEF CapabilitiesArm
<1>3. /\ peer_capabilities' = [peer_capabilities EXCEPT ![p] = f.from]
      /\ state' = [state EXCEPT ![p] = "encrypted"]
      /\ handshake_task' = [handshake_task EXCEPT ![p] = None]
      /\ deadline_task' = [deadline_task EXCEPT ![p] = "none"]
  <2>1. peer_capabilities' = [peer_capabilities EXCEPT ![p] = f.from]
    BY <1>1 DEF Inv, TypeOK, KeysOK, CapabilitiesArm, StorePeerCapabilities
  <2> QED
    BY <2>1 DEF CapabilitiesArm, SetFinalState, StopHandshakeTasks, StopRepeating
<1>4. KeysKept
  BY <1>1, <1>2, <1>3, SignalingAssumption DEF Inv, TypeOK, KeysOK, KeysKept
<1>5. \E k \in TaskRecords : TaskOK(p, k)' /\ task' = [task EXCEPT ![p][t] = k]
  <2>1. CASE p \in Clients
    <3>1. g \in Frames
      BY <1>1, FrameTypes DEF Kinds
    <3>2. relying_key'[p] = f.from /\ peer_capabilities'[p] = f.from
      BY <1>1, <1>2, <1>3 DEF Inv, TypeOK
    <3>3. Outgoing(p, g)'
      BY <1>1, <3>1, <3>2, SignalingAssumption DEF Outgoing, FrameOK, Encrypted
    <3>4. At("reply", g) \in TaskRecords /\ TaskOK(p, At("reply", g))'
      BY <3>1, <3>3 DEF TaskRecords, Awaiting, TaskOK, At
    <3> QED
      BY <1>1, <2>1, <3>4 DEF CapabilitiesArm, Goto
  <2>2. CASE p \notin Clients
    BY <2>2, IdleOK DEF CapabilitiesArm, Finish
  <2> QED
    BY <2>1, <2>2
<1>6. \A q \in Peers, u \in Tasks : task'[q][u] = task[q][u] \/ TaskOK(q, task[q][u])'
  BY <1>5, TaskUpdate DEF Inv
<1>7. TypeOK'
  <2>1. task' \in [Peers -> [Tasks -> TaskRecords]]
    BY <1>5, TaskUpdate DEF Inv
  <2>2. /\ peer_capabilities' \in [Peers -> Peers \cup {None}]
        /\ state' \in [Peers -> States]
        /\ handshake_task' \in [Peers -> Frames \cup {None}]
        /\ deadline_task' \in [Peers -> {"none", "armed", "fired"}]
    BY <1>1, <1>3 DEF Inv, TypeOK, States
  <2> QED
    BY <1>2, <2>1, <2>2 DEF Inv, TypeOK, TaskRecords, lifeVars
<1>8. FramesOK'
  <2>1. \A q \in Peers : handshake_task'[q] \in {handshake_task[q], None}
    BY <1>3 DEF Inv, TypeOK
  <2> QED
    BY <1>2, <1>4, <1>6, <2>1, FramesStep
<1>9. KeysOK'
  BY <1>1, <1>2, <1>3, SignalingAssumption DEF Inv, TypeOK, KeysOK, Peers
<1>10. KeysAgree'
  BY <1>2 DEF Inv, KeysAgree
<1>11. OneClientLinks'
  BY <1>1, <1>2, <1>3, SignalingAssumption DEF Inv, TypeOK, OneClientLinks, Peers
<1>12. HostCompletesLast'
  <2> SUFFICES ASSUME NEW h \in Hosts, peer_capabilities'[h] # None
               PROVE  /\ peer_capabilities'[h] \in Clients
                      /\ peer_capabilities'[peer_capabilities'[h]] = h
    BY DEF HostCompletesLast
  <2>0. h \in Peers /\ h # None /\ None \notin Peers
    BY SignalingAssumption DEF Peers
  <2>1. peer_capabilities'[h] \in Clients /\ peer_capabilities[peer_capabilities'[h]] = h
    <3>1. CASE h = p
      BY <1>1, <1>3, <2>0, <3>1 DEF Inv, TypeOK
    <3>2. CASE h # p
      BY <1>3, <2>0, <3>2 DEF Inv, TypeOK, HostCompletesLast
    <3> QED
      BY <3>1, <3>2
  <2> QED
    BY <1>4, <2>0, <2>1 DEF KeysKept, Peers
<1>13. DataFromLinkedPeer'
  <2>1. \A q \in Peers : \A r \in inbox[q] : r # None
    BY SignalingAssumption DEF Inv, TypeOK
  <2> QED
    BY <1>2, <1>4, <2>1 DEF Inv, TypeOK, DataFromLinkedPeer, KeysKept
<1> QED
  BY <1>7, <1>8, <1>9, <1>10, <1>11, <1>12, <1>13 DEF Inv

-----------------------------------------------------------------------------
\* The invariant holds of a layer that was not set up yet.
LEMMA InitInv == Init => Inv
<1> SUFFICES ASSUME Init PROVE Inv
  OBVIOUS
<1>1. TypeOK
  BY DEF Init, TypeOK, States, Idle, Awaiting
<1>2. FramesOK
  BY IdleOK DEF Init, FramesOK
<1> QED
  BY <1>1, <1>2 DEF Init, Inv, KeysAgree, OneClientLinks, HostCompletesLast, DataFromLinkedPeer, KeysOK, Peers

\* Every step of the handshake keeps the invariant.
LEMMA NextKeepsInv == Inv /\ [Next]_vars => Inv'
<1> SUFFICES ASSUME Inv, [Next]_vars PROVE Inv'
  OBVIOUS
<1>1. CASE UNCHANGED vars
  <2>1. TypeOK' /\ FramesOK'
    BY <1>1 DEF Inv, TypeOK, FramesOK, TaskOK, Outgoing, Incoming, FrameOK, IsRecipient, vars, keyVars,
       sendVars, timeVars, lifeVars
  <2> QED
    BY <1>1, <2>1, QuietStep DEF vars
<1>2. ASSUME NEW p \in Peers,
             Setup(p) \/ SetupStep(p) \/ DeadlineStep(p) \/ Send(p) \/ Close(p) \/ Teardown(p)
      PROVE  Inv'
  <2> "setup" \in Tasks
    BY DEF Tasks
  <2> QED
    BY <1>2, SetupKeepsInv, StartKeepsInv, ErrorKeepsInv, SendKeepsInv DEF SetupStep, DeadlineStep
<1>3. ASSUME NEW p \in Peers, NEW t \in Tasks, TaskStep(p, t)
      PROVE  Inv'
  BY <1>3, MatchKeepsInv, StartKeepsInv, ErrorKeepsInv, KeyArmsKeepInv, CapabilitiesArmKeepsInv,
     SendKeepsInv, RepeatKeepsInv DEF TaskStep
<1>4. ASSUME NEW p \in Peers, NEW f, Resend(p, f)
      PROVE  Inv'
  <2> "setup" \in Tasks
    BY DEF Tasks
  <2> QED
    BY <1>4, SendKeepsInv
<1>5. ASSUME NEW m \in net, NEW t \in Handlers, Receive(m[1], t, m[2])
      PROVE  Inv'
  BY <1>5, ReceiveKeepsInv
<1>6. ASSUME NEW m \in net, Lose(m)
      PROVE  Inv'
  BY <1>6, LoseKeepsInv
<1> QED
  BY <1>1, <1>2, <1>3, <1>4, <1>5, <1>6 DEF Next

\* Every reachable state satisfies the inductive invariant.
THEOREM Invariance == Spec => []Inv
BY InitInv, NextKeepsInv, PTL DEF Spec

\* Every variable keeps its type.
THEOREM TypeCorrect == Spec => []TypeOK
<1>1. Inv => TypeOK
  BY DEF Inv
<1> QED
  BY <1>1, Invariance, PTL

\* However many wallets and dApps share the topic, the keys of a pair agree.
THEOREM Agreement == Spec => []KeysAgree
<1>1. Inv => KeysAgree
  BY DEF Inv
<1> QED
  BY <1>1, Invariance, PTL

\* Of the wallets that scanned one URL at most one is linked: the one whose key
\* the dApp recorded.
THEOREM AtMostOneClientLinks == Spec => []OneClientLinks
<1>1. Inv => OneClientLinks
  BY DEF Inv
<1> QED
  BY <1>1, Invariance, PTL

\* A dApp that completed the handshake did so after its wallet.
THEOREM HostsCompleteLast == Spec => []HostCompletesLast
<1>1. Inv => HostCompletesLast
  BY DEF Inv
<1> QED
  BY <1>1, Invariance, PTL

\* Data is handed to the session only when it comes from the linked peer.
THEOREM DataIsFromLinkedPeer == Spec => []DataFromLinkedPeer
<1>1. Inv => DataFromLinkedPeer
  BY DEF Inv
<1> QED
  BY <1>1, Invariance, PTL

-----------------------------------------------------------------------------
(***************************************************************************)
(* The state of a layer moves forward where tasks interleave at awaits     *)
(* only: between the match and its arm no other task of the peer runs.     *)
(***************************************************************************)
OrderlyAt(p) ==
  /\ task[p]["setup"].pc \in {"connect", "start"} => state[p] = "connecting"
  /\ \A t \in Tasks :
       /\ task[p][t].pc = "flash" => state[p] = "ready"
       /\ task[p][t].pc \in {"hostkey", "clientkey"} => state[p] = "handshake"
       /\ task[p][t].pc = "caps" => state[p] = "partial"
  /\ deadline_task[p] = "armed" \/ expiring[p] => state[p] \in {"handshake", "partial"}

Orderly == \A p \in Peers : OrderlyAt(p)

Forward(p) == state'[p] # state[p] => Rank[state[p]] < Rank[state'[p]]

\* Every peer is in order after the step, and none moved back.
Advances == \A p \in Peers : OrderlyAt(p)' /\ Forward(p)

Arms == {"flash", "hostkey", "clientkey", "caps"}

LEMMA RankValues ==
  /\ Rank["standby"] = 0 /\ Rank["connecting"] = 1 /\ Rank["ready"] = 2 /\ Rank["handshake"] = 3
  /\ Rank["partial"] = 4 /\ Rank["encrypted"] = 5 /\ Rank["error"] = 5
BY DEF Rank, States

\* The task that runs is alone, and the deadline has not found the peer waiting.
LEMMA RunsAlone ==
  ASSUME ~Preemptive, NEW p \in Peers, NEW t, MayRun(p, t)
  PROVE  /\ \A u \in Tasks : u # t => task[p][u].pc \notin Running
         /\ t # "deadline" => ~expiring[p]
BY DEF MayRun, Busy

LEMMA TaskNames == "setup" \in Tasks /\ "deadline" \notin Tasks
BY SignalingAssumption DEF Tasks

\* A peer that the step leaves alone.
LEMMA UntouchedOrderly ==
  ASSUME NEW p \in Peers, OrderlyAt(p), state'[p] = state[p],
         \A t \in Tasks : task'[p][t] = task[p][t],
         deadline_task'[p] \in {deadline_task[p], "none"}, expiring'[p] = expiring[p]
  PROVE  OrderlyAt(p)' /\ Forward(p)
BY TaskNames DEF OrderlyAt, Forward

\* The state stays, and one task moves: to no arm of the match, or to the arm of
\* the state.
LEMMA TaskOrderly ==
  ASSUME TypeOK, Orderly, NEW p \in Peers, NEW t \in Tasks, NEW k, state' = state,
         task' = [task EXCEPT ![p][t] = k],
         k.pc \in {"connect", "start"} => state[p] = "connecting",
         k.pc = "flash" => state[p] = "ready",
         k.pc \in {"hostkey", "clientkey"} => state[p] = "handshake",
         k.pc = "caps" => state[p] = "partial",
         \A q \in Peers : deadline_task'[q] \in {deadline_task[q], "none"}, expiring' = expiring
  PROVE  Advances
<1>1. \A q \in Peers, u \in Tasks : <<q, u>> # <<p, t>> => task'[q][u] = task[q][u]
  BY TaskUpdate
<1>2. /\ task'[p][t] = k
      /\ \A u \in Tasks : u # t => task'[p][u] = task[p][u]
  <2>1. task'[p][t] = k
    BY DEF TypeOK
  <2>2. \A u \in Tasks : u # t => task'[p][u] = task[p][u]
    BY <1>1
  <2> QED
    BY <2>1, <2>2
<1>3. \A q \in Peers : q # p => \A u \in Tasks : task'[q][u] = task[q][u]
  BY <1>1
<1>4. OrderlyAt(p)' /\ Forward(p)
  BY <1>2, TaskNames DEF Orderly, OrderlyAt, Forward
<1>5. ASSUME NEW q \in Peers, q # p
      PROVE  OrderlyAt(q)' /\ Forward(q)
  BY <1>3, <1>5, UntouchedOrderly DEF Orderly
<1> QED
  BY <1>4, <1>5 DEF Advances

\* The state moves on: then no other task is at an arm of the state it leaves,
\* and the deadline sleeps only in a handshake.
LEMMA MoveOrderly ==
  ASSUME TypeOK, Orderly, NEW p \in Peers, NEW t \in Tasks, NEW k, NEW s \in States,
         state' = [state EXCEPT ![p] = s], task' = [task EXCEPT ![p][t] = k],
         Rank[state[p]] < Rank[s],
         deadline_task'[p] = "armed" \/ expiring'[p] => s \in {"handshake", "partial"},
         \A q \in Peers : q # p => deadline_task'[q] = deadline_task[q] /\ expiring'[q] = expiring[q],
         \A u \in Tasks : u # t => task[p][u].pc \notin Arms,
         task[p]["setup"].pc \in {"connect", "start"} => t = "setup",
         k.pc \notin Arms, k.pc \in {"connect", "start"} => s = "connecting"
  PROVE  Advances
<1>1. \A q \in Peers, u \in Tasks : <<q, u>> # <<p, t>> => task'[q][u] = task[q][u]
  BY TaskUpdate
<1>2. /\ task'[p][t] = k
      /\ \A u \in Tasks : u # t => task'[p][u] = task[p][u]
  <2>1. task'[p][t] = k
    BY DEF TypeOK
  <2>2. \A u \in Tasks : u # t => task'[p][u] = task[p][u]
    BY <1>1
  <2> QED
    BY <2>1, <2>2
<1>3. \A q \in Peers : q # p => \A u \in Tasks : task'[q][u] = task[q][u]
  BY <1>1
<1>4. state'[p] = s /\ \A q \in Peers : q # p => state'[q] = state[q]
  BY DEF TypeOK
<1>5. OrderlyAt(p)' /\ Forward(p)
  <2>1. \A u \in Tasks : task'[p][u].pc \notin Arms
    BY <1>2
  <2>2. task'[p]["setup"].pc \in {"connect", "start"} => s = "connecting"
    BY <1>2, TaskNames
  <2> QED
    BY <1>4, <2>1, <2>2 DEF OrderlyAt, Forward, Arms
<1>6. ASSUME NEW q \in Peers, q # p
      PROVE  OrderlyAt(q)' /\ Forward(q)
  BY <1>3, <1>4, <1>6, UntouchedOrderly DEF Orderly
<1> QED
  BY <1>5, <1>6 DEF Advances

\* The match chooses the arm of the state it reads.
LEMMA ArmFitsState ==
  ASSUME NEW p \in Peers, NEW f
  PROVE  /\ Arm(p, f).pc \notin {"connect", "start"}
         /\ Arm(p, f).pc = "flash" => state[p] = "ready"
         /\ Arm(p, f).pc \in {"hostkey", "clientkey"} => state[p] = "handshake"
         /\ Arm(p, f).pc = "caps" => state[p] = "partial"
BY DEF Arm, At, Idle

\* Steps of the connect operation.
LEMMA SetupAdvances ==
  ASSUME TypeOK, Orderly, ~Preemptive, NEW p \in Peers, Setup(p) \/ SetupStep(p)
  PROVE  Advances
<1>1. CASE Setup(p)
  <2> DEFINE k == At("connect", None)
  <2>1. /\ state' = [state EXCEPT ![p] = "connecting"] /\ task' = [task EXCEPT ![p]["setup"] = k]
        /\ state[p] = "standby" /\ deadline_task' = deadline_task /\ expiring' = expiring
    BY <1>1 DEF Setup, Goto, timeVars
  <2>2. \A u \in Tasks : task[p][u].pc \notin Arms
    BY <2>1 DEF Orderly, OrderlyAt, Arms
  <2>3. ~(deadline_task[p] = "armed") /\ ~expiring[p]
    BY <2>1 DEF Orderly, OrderlyAt
  <2>4. k.pc = "connect" /\ k.pc \notin Arms
    BY DEF At, Arms
  <2> HIDE DEF k
  <2>5. "connecting" \in States /\ Rank[state[p]] < Rank["connecting"]
    BY <2>1, RankValues DEF States
  <2> QED
    BY <2>1, <2>2, <2>3, <2>4, <2>5, TaskNames, MoveOrderly
<1>2. CASE ChannelReady(p) \/ ChannelFails(p)
  <2>1. PICK k \in {At("start", None), Idle} : task' = [task EXCEPT ![p]["setup"] = k]
    BY <1>2 DEF ChannelReady, ChannelFails, Goto, Finish
  <2>2. /\ state' = state /\ deadline_task' = deadline_task /\ expiring' = expiring
        /\ state[p] = "connecting"
    BY <1>2 DEF ChannelReady, ChannelFails, timeVars, Orderly, OrderlyAt
  <2>3. k.pc \in {"start", "idle"}
    BY DEF At, Idle
  <2> QED
    BY <2>1, <2>2, <2>3, TaskNames, TaskOrderly
<1>3. CASE HostStart(p) \/ ClientStart(p)
  <2>1. PICK s \in {"ready", "handshake"}, k \in {Idle, At("publish", Handshake("flash", p))} :
             state' = [state EXCEPT ![p] = s] /\ task' = [task EXCEPT ![p]["setup"] = k]
    BY <1>3 DEF HostStart, ClientStart, Goto, Finish
  <2>2. state[p] = "connecting" /\ deadline_task[p] # "armed" /\ ~expiring[p]
    BY <1>3 DEF HostStart, ClientStart, Orderly, OrderlyAt
  <2>3. /\ \A q \in Peers : q # p => deadline_task'[q] = deadline_task[q] /\ expiring'[q] = expiring[q]
        /\ deadline_task'[p] = "armed" \/ expiring'[p] => state'[p] = "handshake"
    BY <1>3, <2>2 DEF TypeOK, HostStart, ClientStart, StartHandshakeDeadline, timeVars
  <2>4. state'[p] = s
    BY <2>1 DEF TypeOK
  <2>5. \A u \in Tasks : task[p][u].pc \notin Arms
    BY <2>2 DEF Orderly, OrderlyAt, Arms
  <2>6. k.pc \in {"publish", "idle"} /\ k.pc \notin Arms
    BY DEF At, Idle, Arms
  <2>7. s \in States /\ Rank[state[p]] < Rank[s]
    BY <2>2, RankValues DEF States
  <2> QED
    BY <2>1, <2>3, <2>4, <2>5, <2>6, <2>7, TaskNames, MoveOrderly
<1> QED
  BY <1>1, <1>2, <1>3 DEF SetupStep

\* A step of a task that leaves the state alone.
LEMMA QuietTaskAdvances ==
  ASSUME TypeOK, Orderly, NEW p \in Peers, NEW t \in Tasks,
         Match(p, t) \/ Publish(p, t) \/ Repeat(p, t) \/ Reply(p, t) \/ PublishFails(p, t)
  PROVE  Advances
<1>1. state' = state /\ deadline_task' = deadline_task /\ expiring' = expiring
  BY DEF Match, Publish, Repeat, Reply, PublishFails, timeVars
<1>2. CASE Match(p, t)
  <2> DEFINE k == Arm(p, task[p][t].frame)
  <2>1. task' = [task EXCEPT ![p][t] = k]
    BY <1>2 DEF Match
  <2>2. /\ k.pc \notin {"connect", "start"}
        /\ k.pc = "flash" => state[p] = "ready"
        /\ k.pc \in {"hostkey", "clientkey"} => state[p] = "handshake"
        /\ k.pc = "caps" => state[p] = "partial"
    BY ArmFitsState
  <2> HIDE DEF k
  <2> QED
    BY <1>1, <2>1, <2>2, TaskOrderly
<1>3. CASE Publish(p, t) \/ Repeat(p, t) \/ Reply(p, t) \/ PublishFails(p, t)
  <2>1. PICK k \in {Idle, At("published", task[p][t].frame)} : task' = [task EXCEPT ![p][t] = k]
    BY <1>3 DEF Publish, Repeat, Reply, PublishFails, Goto, Finish
  <2>2. k.pc \in {"idle", "published"}
    BY DEF Idle, At
  <2> QED
    BY <1>1, <2>1, <2>2, TaskOrderly
<1> QED
  BY <1>2, <1>3

\* An arm acts in the state the match read: no task ran in between.
LEMMA ArmAdvances ==
  ASSUME TypeOK, Orderly, ~Preemptive, NEW p \in Peers, NEW t \in Tasks,
         \/ FlashArm(p, t) \/ HostKeyMismatch(p, t) \/ HostKeyArm(p, t)
         \/ ClientKeyArm(p, t) \/ CapabilitiesArm(p, t)
  PROVE  Advances
<1>1. task[p][t].pc \in Arms /\ MayRun(p, t)
  BY DEF FlashArm, HostKeyMismatch, HostKeyArm, ClientKeyArm, CapabilitiesArm, Arms
<1>2. ~expiring[p] /\ \A u \in Tasks : u # t => task[p][u].pc \notin Arms
  BY <1>1, RunsAlone, TaskNames DEF Running, Arms
<1>3. task[p]["setup"].pc \notin {"connect", "start"}
  BY <1>1 DEF Orderly, OrderlyAt, Arms
<1>4. expiring' = expiring
  BY DEF FlashArm, HostKeyMismatch, HostKeyArm, ClientKeyArm, CapabilitiesArm, RecordKey, timeVars
<1>5. CASE FlashArm(p, t)
  <2> DEFINE k == At("publish", Handshake("pubkey", p))
  <2>1. /\ state' = [state EXCEPT ![p] = "handshake"] /\ task' = [task EXCEPT ![p][t] = k]
        /\ state[p] = "ready"
    BY <1>5 DEF FlashArm, Goto, Orderly, OrderlyAt
  <2>2. \A q \in Peers : q # p => deadline_task'[q] = deadline_task[q]
    BY <1>5 DEF FlashArm, StartHandshakeDeadline, TypeOK
  <2>3. k.pc = "publish" /\ k.pc \notin Arms
    BY DEF At, Arms
  <2> HIDE DEF k
  <2>4. "handshake" \in States /\ Rank[state[p]] < Rank["handshake"]
    BY <2>1, RankValues DEF States
  <2> QED
    BY <1>2, <1>3, <1>4, <2>1, <2>2, <2>3, <2>4, MoveOrderly
<1>6. CASE HostKeyMismatch(p, t) \/ CapabilitiesArm(p, t)
  <2>1. PICK s \in {"error", "encrypted"},
             k \in {Idle, At("reply", Encrypted("capabilities", p, relying_key[p]))} :
             state' = [state EXCEPT ![p] = s] /\ task' = [task EXCEPT ![p][t] = k]
    BY <1>6 DEF HostKeyMismatch, CapabilitiesArm, SetFinalState, Goto, Finish
  <2>2. state[p] \in {"handshake", "partial"}
    BY <1>6 DEF HostKeyMismatch, CapabilitiesArm, Orderly, OrderlyAt
  <2>3. deadline_task'[p] = "none" /\ \A q \in Peers : q # p => deadline_task'[q] = deadline_task[q]
    BY <1>6 DEF HostKeyMismatch, CapabilitiesArm, SetFinalState, StopHandshakeTasks, TypeOK
  <2>4. k.pc \in {"idle", "reply"} /\ k.pc \notin Arms
    BY DEF Idle, At, Arms
  <2>5. s \in States /\ Rank[state[p]] < Rank[s]
    BY <2>2, RankValues DEF States
  <2> QED
    BY <1>2, <1>3, <1>4, <2>1, <2>3, <2>4, <2>5, MoveOrderly
<1>7. CASE HostKeyArm(p, t) \/ ClientKeyArm(p, t)
  <2>1. state[p] = "handshake" /\ deadline_task' = deadline_task
    BY <1>7 DEF HostKeyArm, ClientKeyArm, RecordKey, Orderly, OrderlyAt, timeVars
  <2>2. CASE relying_key[p] # None
    <3>1. state' = state /\ task' = [task EXCEPT ![p][t] = Idle]
      BY <1>7, <2>2 DEF HostKeyArm, ClientKeyArm, RecordKey, Finish
    <3>2. Idle.pc = "idle"
      BY DEF Idle
    <3> QED
      BY <1>4, <2>1, <3>1, <3>2, TaskOrderly
  <2>3. CASE relying_key[p] = None
    <3>1. PICK kind \in {"pubkey", "capabilities"} : RecordKey(p, t, kind)
      BY <1>7 DEF HostKeyArm, ClientKeyArm
    <3> DEFINE k == At("publish", Encrypted(kind, p, task[p][t].frame.from))
    <3>2. state' = [state EXCEPT ![p] = "partial"] /\ task' = [task EXCEPT ![p][t] = k]
      BY <2>3, <3>1 DEF RecordKey, Goto
    <3>3. k.pc = "publish" /\ k.pc \notin Arms
      BY DEF At, Arms
    <3> HIDE DEF k
    <3>4. "partial" \in States /\ Rank[state[p]] < Rank["partial"]
      BY <2>1, RankValues DEF States
    <3> QED
      BY <1>2, <1>3, <1>4, <2>1, <3>2, <3>3, <3>4, MoveOrderly
  <2> QED
    BY <2>2, <2>3
<1> QED
  BY <1>5, <1>6, <1>7

\* The deadline fires in a handshake, and ends it if it is still one.
LEMMA DeadlineAdvances ==
  ASSUME TypeOK, Orderly, ~Preemptive, NEW p \in Peers, DeadlineStep(p)
  PROVE  Advances
<1>1. task' = task /\ \A q \in Peers : q # p =>
        state'[q] = state[q] /\ deadline_task'[q] = deadline_task[q] /\ expiring'[q] = expiring[q]
  BY DEF DeadlineStep, DeadlineFires, DeadlineExpires, SetFinalState, StopHandshakeTasks, TypeOK
<1>2. OrderlyAt(p)' /\ Forward(p)
  <2>1. CASE DeadlineFires(p)
    BY <1>1, <2>1 DEF DeadlineFires, Orderly, OrderlyAt, Forward, TypeOK
  <2>2. CASE DeadlineExpires(p)
    <3>1. state[p] \in {"handshake", "partial"}
      BY <2>2 DEF DeadlineExpires, Orderly, OrderlyAt
    <3>2. state'[p] = "error" /\ deadline_task'[p] = "none" /\ ~expiring'[p]
      BY <2>2 DEF DeadlineExpires, SetFinalState, StopHandshakeTasks, TypeOK
    <3>3. \A u \in Tasks : task'[p][u].pc \notin Arms
      BY <1>1, <2>2, RunsAlone, TaskNames DEF DeadlineExpires, Running, Arms
    <3>4. task'[p]["setup"].pc \notin {"connect", "start"}
      BY <1>1, <3>1 DEF Orderly, OrderlyAt
    <3> QED
      BY <3>1, <3>2, <3>3, <3>4, RankValues DEF OrderlyAt, Forward, Arms
  <2> QED
    BY <2>1, <2>2 DEF DeadlineStep
<1>3. ASSUME NEW q \in Peers, q # p
      PROVE  OrderlyAt(q)' /\ Forward(q)
  BY <1>1, <1>3, UntouchedOrderly DEF Orderly
<1> QED
  BY <1>2, <1>3 DEF Advances

\* Every other step leaves the states alone, and starts no task but at the match.
LEMMA OtherStepsAdvance ==
  ASSUME TypeOK, Orderly, NEW p \in Peers,
         \/ Close(p) \/ Send(p) \/ Teardown(p)
         \/ \E f : Resend(p, f)
         \/ \E m : Lose(m)
         \/ \E t \in Handlers : \E f : Receive(p, t, f)
         \/ UNCHANGED vars
  PROVE  Advances
<1>1. CASE Close(p)
  <2>1. state' = state /\ expiring' = expiring /\ task' = [task EXCEPT ![p]["setup"] = Idle]
    BY <1>1 DEF Close, Finish
  <2>2. \A q \in Peers : deadline_task'[q] \in {deadline_task[q], "none"}
    BY <1>1 DEF Close, StopHandshakeTasks, TypeOK
  <2>3. Idle.pc = "idle"
    BY DEF Idle
  <2> QED
    BY <2>1, <2>2, <2>3, TaskNames, TaskOrderly
<1>2. ASSUME NEW t \in Handlers, NEW f, Receive(p, t, f), task' # task
      PROVE  Advances
  <2>1. /\ state' = state /\ expiring' = expiring /\ deadline_task' = deadline_task
        /\ task' = [task EXCEPT ![p][t] = At("match", f)] /\ t \in Tasks
    BY <1>2 DEF Receive, Goto, Tasks, timeVars
  <2>2. At("match", f).pc = "match"
    BY DEF At
  <2> QED
    BY <2>1, <2>2, TaskOrderly
<1>3. CASE UNCHANGED <<state, task, deadline_task, expiring>>
  BY <1>3, UntouchedOrderly DEF Orderly, Advances
<1> QED
  BY <1>1, <1>2, <1>3 DEF Send, Teardown, Resend, Lose, Receive, vars, timeVars

\* Where tasks interleave at awaits only, every step keeps the peers in order and
\* takes none back.
LEMMA NextAdvances ==
  ASSUME TypeOK, Orderly, ~Preemptive, [Next]_vars
  PROVE  Advances
<1>1. CASE UNCHANGED vars
  <2>1. ASSUME NEW p \in Peers
        PROVE  OrderlyAt(p)' /\ Forward(p)
    BY <1>1, UntouchedOrderly DEF Orderly, vars, timeVars
  <2> QED
    BY <2>1 DEF Advances
<1>2. ASSUME NEW p \in Peers, NEW t \in Tasks, TaskStep(p, t)
      PROVE  Advances
  BY <1>2, QuietTaskAdvances, ArmAdvances DEF TaskStep
<1>3. ASSUME NEW m \in net, (\E t \in Handlers : Receive(m[1], t, m[2])) \/ Lose(m)
      PROVE  Advances
  <2>1. m[1] \in Peers
    BY DEF TypeOK
  <2> QED
    BY <1>3, <2>1, OtherStepsAdvance
<1> QED
  BY <1>1, <1>2, <1>3, SetupAdvances, DeadlineAdvances, OtherStepsAdvance DEF Next

\* Where tasks interleave at awaits only, the state of a layer only moves forward:
\* neither a late deadline nor a late or repeated frame takes a peer back, and
\* Encrypted and Error are final.
THEOREM StatesMoveForward == ~Preemptive => (Spec => StateMovesForward)
<1> SUFFICES ASSUME ~Preemptive PROVE Spec => StateMovesForward
  OBVIOUS
<1>1. Init => Orderly
  BY DEF Init, Orderly, OrderlyAt, Idle, Tasks
<1>2. Inv /\ Orderly /\ [Next]_vars => Orderly'
  BY NextAdvances DEF Inv, Orderly, Advances
<1>3. Inv /\ Orderly /\ [Next]_vars =>
        [\A p \in Peers : state'[p] # state[p] => Rank[state[p]] < Rank[state'[p]]]_vars
  BY NextAdvances DEF Inv, Advances, Forward
<1> QED
  BY <1>1, <1>2, <1>3, Invariance, PTL DEF Spec, StateMovesForward

-----------------------------------------------------------------------------
(***************************************************************************)
(* Signaling implements Pairing.  Only two arms are visible there: a host  *)
(* that records a key, and capabilities that are stored.                   *)
(***************************************************************************)
Bound  == [h \in Hosts |-> relying_key[h]]
Linked == {p \in Peers : peer_capabilities[p] # None}

\* Recording a key binds a host, or changes nothing Pairing sees.
LEMMA KeyArmsRefine ==
  ASSUME Inv, NEW p \in Peers, NEW t \in Tasks, HostKeyArm(p, t) \/ ClientKeyArm(p, t)
  PROVE  P!Next \/ UNCHANGED P!vars
<1>1. PICK f \in Frames : f = task[p][t].frame /\ Incoming(p, f)
  BY DEF Inv, FramesOK, TaskOK, HostKeyArm, ClientKeyArm, Incoming
<1>2. relying_key' = StoreRelyingKey(p, f.from) /\ UNCHANGED peer_capabilities
  BY <1>1 DEF HostKeyArm, ClientKeyArm, RecordKey
<1>3. Linked' = Linked
  BY <1>2 DEF Linked
<1>4. CASE p \in Clients \/ relying_key[p] # None
  <2>1. \A h \in Hosts : relying_key'[h] = relying_key[h]
    BY <1>2, <1>4, SignalingAssumption DEF Inv, TypeOK, StoreRelyingKey, Peers
  <2>2. Bound' = Bound
    BY <2>1 DEF Bound
  <2> QED
    BY <1>3, <2>2 DEF P!vars, Bound, Linked
<1>5. CASE p \in Hosts /\ relying_key[p] = None
  <2>1. f.from \in Clients /\ relying_key[f.from] = p
    BY <1>1, <1>5, SignalingAssumption
       DEF Inv, FramesOK, TaskOK, HostKeyArm, ClientKeyArm, Incoming, FrameOK, Peers
  <2>2. \A g \in Hosts : relying_key[g] # f.from
    BY <1>5, <2>1, SignalingAssumption DEF Inv, KeysAgree, Peers
  <2>3. \A h \in Hosts : relying_key'[h] = IF h = p THEN f.from ELSE relying_key[h]
    BY <1>2, <1>5 DEF Inv, TypeOK, StoreRelyingKey, Peers
  <2>4. Bound' = [Bound EXCEPT ![p] = f.from]
    BY <1>5, <2>3 DEF Bound
  <2>5. P!Bind(p, f.from)
    BY <1>3, <1>5, <2>2, <2>4 DEF P!Bind, Bound, Linked
  <2> QED
    BY <1>5, <2>1, <2>5 DEF P!Next
<1> QED
  BY <1>4, <1>5 DEF Peers

\* Storing capabilities links the peer, or changes nothing Pairing sees.
LEMMA CapabilitiesArmRefines ==
  ASSUME Inv, NEW p \in Peers, NEW t \in Tasks, CapabilitiesArm(p, t)
  PROVE  P!Next \/ UNCHANGED P!vars
<1>1. PICK f \in Frames :
           /\ f = task[p][t].frame
           /\ f.from \in Peers /\ relying_key[f.from] = p /\ relying_key[p] = f.from
           /\ p \in Hosts => f.from \in Clients /\ peer_capabilities[f.from] = p
           /\ p \in Clients => f.from \in Hosts
  BY CapabilitiesFrom DEF CapabilitiesArm
<1>2. Bound' = Bound
  BY DEF CapabilitiesArm, Bound
<1>3. CASE peer_capabilities[p] # None
  <2>1. Linked' = Linked
    BY <1>3 DEF CapabilitiesArm, StorePeerCapabilities, Linked
  <2> QED
    BY <1>2, <2>1 DEF P!vars, Bound, Linked
<1>4. CASE peer_capabilities[p] = None
  <2>1. Linked' = Linked \cup {p} /\ p \notin Linked
    BY <1>1, <1>4, SignalingAssumption
       DEF Inv, TypeOK, CapabilitiesArm, StorePeerCapabilities, Linked
  <2>2. CASE p \in Clients
    <3>1. P!ClientLinks(f.from, p)
      BY <1>1, <1>2, <2>1, <2>2 DEF P!ClientLinks, Bound, Linked
    <3> QED
      BY <1>1, <2>2, <3>1 DEF P!Next
  <2>3. CASE p \in Hosts
    <3>1. f.from \in Linked
      BY <1>1, <2>3, SignalingAssumption DEF Linked
    <3>2. P!HostLinks(p, f.from)
      BY <1>1, <1>2, <2>1, <2>3, <3>1 DEF P!HostLinks, Bound, Linked
    <3> QED
      BY <1>1, <2>3, <3>2 DEF P!Next
  <2> QED
    BY <2>2, <2>3 DEF Peers
<1> QED
  BY <1>3, <1>4

\* Initial states of the handshake are initial states of Pairing.
LEMMA InitRefines == Init => P!Init
BY DEF Init, P!Init, Peers

\* Every step of the handshake is a step of Pairing or leaves it unchanged.
LEMMA NextRefines == Inv /\ [Next]_vars => [P!Next]_P!vars
<1> SUFFICES ASSUME Inv, [Next]_vars PROVE P!Next \/ UNCHANGED P!vars
  OBVIOUS
<1>1. CASE UNCHANGED keyVars
  BY <1>1 DEF keyVars, P!vars
<1>2. CASE \E p \in Peers, t \in Tasks : HostKeyArm(p, t) \/ ClientKeyArm(p, t)
  BY <1>2, KeyArmsRefine
<1>3. CASE \E p \in Peers, t \in Tasks : CapabilitiesArm(p, t)
  BY <1>3, CapabilitiesArmRefines
<1>4. ASSUME NEW p \in Peers,
             Setup(p) \/ SetupStep(p) \/ DeadlineStep(p) \/ Send(p) \/ Close(p) \/ Teardown(p)
      PROVE  UNCHANGED keyVars
  BY <1>4 DEF SetupStep, DeadlineStep, Setup, ChannelReady, ChannelFails, HostStart, ClientStart,
     DeadlineFires, DeadlineExpires, Send, Close, Teardown
<1>5. ASSUME NEW p \in Peers, NEW t \in Tasks, TaskStep(p, t)
      PROVE  UNCHANGED keyVars \/ HostKeyArm(p, t) \/ ClientKeyArm(p, t) \/ CapabilitiesArm(p, t)
  BY <1>5 DEF TaskStep, Match, FlashArm, HostKeyMismatch, Publish, Repeat, Reply, PublishFails
<1>6. ASSUME NEW p \in Peers, NEW f, Resend(p, f)
      PROVE  UNCHANGED keyVars
  BY <1>6 DEF Resend
<1>7. ASSUME NEW m, NEW t \in Handlers, Receive(m[1], t, m[2]) \/ Lose(m)
      PROVE  UNCHANGED keyVars
  BY <1>7 DEF Receive, Lose
<1>8. ASSUME NEW m, Lose(m)
      PROVE  UNCHANGED keyVars
  BY <1>8 DEF Lose
<1>9. CASE UNCHANGED vars
  BY <1>1, <1>9 DEF vars
<1> QED
  BY <1>1, <1>2, <1>3, <1>4, <1>5, <1>6, <1>7, <1>8, <1>9 DEF Next

\* The handshake implements its abstract specification.
THEOREM Refinement == Spec => RefinesPairing
BY InitRefines, NextRefines, Invariance, PTL DEF Spec, P!Spec, RefinesPairing
=============================================================================
