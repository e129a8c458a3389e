--------------------------- MODULE RendezvousProofs ---------------------------
(***************************************************************************)
(* Proofs about Rendezvous: the signaling channel of a session keeps its   *)
(* invariant, whatever the servers answer and whenever close comes, and    *)
(* implements ChannelContract.                                             *)
(***************************************************************************)
EXTENDS Rendezvous, SequenceLemmas, FiniteSetTheorems, TLAPS

-----------------------------------------------------------------------------
(***************************************************************************)
(* Until the wallet has a session the channel is not used; from then on    *)
(* the sessions stay, and with them the protocol of the channel.           *)
(***************************************************************************)
Proto == IF IsSession(dapp) THEN dapp.layer.channel.protocol ELSE "ntfy"

\* create_signaling_channel makes an ntfy or an MQTT channel, or fails.
LEMMA ChannelProtocol ==
  ASSUME NEW p, NEW t, NEW s, ~IsError(CreateSignalingChannel(p, t, s))
  PROVE  CreateSignalingChannel(p, t, s).protocol \in {"ntfy", "mqtt"}
<1>1. CASE p = Mqtt
  BY <1>1 DEF CreateSignalingChannel, Mqtt, Ntfy
<1>2. CASE p = Ntfy
  BY <1>2 DEF CreateSignalingChannel, Mqtt, Ntfy
<1>3. CASE p # Mqtt /\ p # Ntfy
  <2>1. CreateSignalingChannel(p, t, s) = Error("unsupported protocol")
    BY <1>3 DEF CreateSignalingChannel
  <2>2. IsError(Error("unsupported protocol"))
    BY DEF IsError, Error
  <2> QED
    BY <2>1, <2>2
<1> QED
  BY <1>1, <1>2, <1>3

LEMMA SessionProtocol ==
  ASSUME NEW init, IsSession(CreateSession(init))
  PROVE  CreateSession(init).layer.channel.protocol \in {"ntfy", "mqtt"}
<1> DEFINE c == CreateSignalingChannel(Protocol(OrElse(init.p, Ntfy)), OrElse(init.session_id, GeneratedId),
                                       OrElse(init.s, DefaultServer))
<1> DEFINE key   == OrElse(init.k, Hex("generated", FALSE))
           hash  == InitHash(init.h, "dapp")
           layer == [is_host |-> hash.is_host, h |-> hash.hash, handshake_key |-> key,
                     channel |-> c, info |-> init.info]
           uri   == [session_id |-> OrElse(init.session_id, GeneratedId), key_hash |-> Hash("dapp"),
                     shared_key |-> key, protocol |-> Protocol(OrElse(init.p, Ntfy)),
                     server |-> OrElse(init.s, DefaultServer)]
<1>1. CreateSession(init) = BuildSession(uri, TRUE, layer) /\ layer.channel = c
  BY DEF CreateSession
<1> HIDE DEF c, uri, layer
<1>2. ~IsError(layer.channel)
  BY <1>1 DEF IsSession, BuildSession
<1>3. CreateSession(init).layer.channel = c
  BY <1>1, <1>2 DEF BuildSession
<1> QED
  BY <1>1, <1>2, <1>3, ChannelProtocol DEF c

LEMMA DappProtocol ==
  ASSUME StartDapp, IsSession(dapp')
  PROVE  dapp'.layer.channel.protocol \in {"ntfy", "mqtt"}
<1>1. CASE \E init \in Inits : dapp' = CreateSession(init)
  BY <1>1, SessionProtocol
<1>2. CASE \E o \in Options : dapp' = CreateDapp(o)
  <2>1. PICK o \in Options : dapp' = CreateDapp(o)
    BY <1>2
  <2>2. \A r : ~IsSession(Error(r))
    BY DEF IsSession, IsError, Error
  <2>3. \A x : IsError(x) => ~IsSession(x)
    BY DEF IsSession
  <2>4. PICK init : dapp' = CreateSession(init)
    BY <2>1, <2>2, <2>3 DEF CreateDapp
  <2> QED
    BY <2>4, SessionProtocol
<1> QED
  BY <1>1, <1>2 DEF StartDapp

\* What Joining and Channel have to know of each other.
Handed ==
  /\ wallet # None => url # None
  /\ url # None => dapp # None
  /\ wallet = None => Ch!Init
  /\ Proto \in {"ntfy", "mqtt"}

LEMMA HandedStep ==
  ASSUME Handed, RendezvousNext
  PROVE  /\ Handed'
         /\ \/ Ch!Init /\ UNCHANGED channelVars
            \/ UNCHANGED <<channelVars, Proto>>
            \/ Ch!Next /\ UNCHANGED Proto
<1>1. CASE Joined /\ Ch!Next /\ UNCHANGED vars
  BY <1>1 DEF Handed, Joined, IsSession, vars, Proto
<1>2. CASE Next /\ UNCHANGED channelVars
  <2>0. Ch!Init => Ch!Init'
    BY <1>2 DEF channelVars, Ch!Init
  <2>1. CASE StartDapp
    <3>1. wallet = None /\ Ch!Init
      BY <2>1 DEF Handed, StartDapp
    <3>2. Proto' \in {"ntfy", "mqtt"}
      BY <2>1, DappProtocol DEF Proto
    <3> QED
      BY <1>2, <2>0, <2>1, <3>1, <3>2 DEF Handed, StartDapp
  <2>2. CASE GiveUrl \/ StartWallet
    <3>1. UNCHANGED Proto
      BY <2>2 DEF GiveUrl, StartWallet, Proto
    <3> QED
      BY <1>2, <2>0, <2>2, <3>1 DEF Handed, GiveUrl, StartWallet
  <2> QED
    BY <1>2, <2>1, <2>2 DEF Next
<1> QED
  BY <1>1, <1>2 DEF RendezvousNext
-----------------------------------------------------------------------------
(***************************************************************************)
(* The mutex and the client.                                               *)
(***************************************************************************)
LockType ==
  /\ setup \in {"idle", "connect", "ready", "subscribe", "handler", "done", "failed"}
  /\ lock \in Publishers \cup {None, "setup", "teardown"}
  /\ client \in BOOLEAN /\ handler \in BOOLEAN
  /\ publish \in [Publishers -> {"new", "posting", "ok", "failed"}]
  /\ closing \in {"no", "closing", "locked", "done"}

lockVars == <<setup, lock, client, handler, publish, closing>>

LockInv == LockType /\ Ch!LockOK

LEMMA LockFrame ==
  ASSUME LockInv, UNCHANGED lockVars
  PROVE  LockInv'
BY DEF LockInv, LockType, lockVars, Ch!LockOK, Ch!InSetup

\* Owners of the mutex are told apart.
LEMMA Owners ==
  /\ None # "setup" /\ None # "teardown" /\ "setup" # "teardown"
  /\ \A p \in Publishers : p # None /\ p # "setup" /\ p # "teardown"
BY RendezvousAssumption

\* setup takes the mutex at its start, and gives it back at its end.
LEMMA SetupLock ==
  ASSUME LockInv, Ch!Setup \/ Ch!SetupStep
  PROVE  LockInv'
<1> USE DEF LockInv
<1>2. CASE Ch!Setup
  <2>1. setup = "idle" /\ setup' = "connect" /\ lock = None /\ lock' = "setup" /\ closing = "no"
        /\ UNCHANGED <<client, handler, publish, closing>>
    BY <1>2 DEF Ch!Setup, Ch!slotVars
  <2> QED
    BY <2>1, Owners DEF LockType, Ch!LockOK, Ch!InSetup
<1>3. CASE Ch!ConnectNtfy \/ Ch!ConnectMqtt
  <2>1. setup = "connect" /\ setup' \in {"ready", "subscribe"} /\ UNCHANGED <<lock, client, handler, publish, closing>>
    BY <1>3 DEF Ch!ConnectNtfy, Ch!ConnectMqtt, Ch!slotVars
  <2> QED
    BY <2>1, Owners DEF LockType, Ch!LockOK, Ch!InSetup
<1>4. CASE Ch!Confirmed \/ Ch!Subscribed
  <2>1. setup \in {"ready", "subscribe"} /\ setup' = "handler" /\ client' = TRUE
        /\ UNCHANGED <<lock, handler, publish, closing>>
    BY <1>4 DEF Ch!Confirmed, Ch!Subscribed, Ch!slotVars
  <2> QED
    BY <2>1, Owners DEF LockType, Ch!LockOK, Ch!InSetup
<1>5. CASE Ch!Subscribe
  <2>1. setup = "handler" /\ setup' = "done" /\ lock' = None /\ handler' = TRUE /\ UNCHANGED <<client, publish, closing>>
    BY <1>5 DEF Ch!Subscribe, Ch!slotVars
  <2> QED
    BY <2>1, Owners DEF LockType, Ch!LockOK, Ch!InSetup
<1>6. CASE Ch!ConnectFails \/ Ch!NotConfirmed \/ Ch!SubscribeFails \/ Ch!AbortSetup
  <2>1. /\ Ch!InSetup /\ (setup # "handler" \/ closing = "closing")
        /\ setup' = "failed" /\ lock' = None /\ UNCHANGED <<client, handler, publish, closing>>
    BY <1>6 DEF Ch!ConnectFails, Ch!NotConfirmed, Ch!SubscribeFails, Ch!AbortSetup, Ch!SetupFails, Ch!slotVars,
                Ch!InSetup
  <2> QED
    BY <2>1, Owners DEF LockType, Ch!LockOK, Ch!InSetup
<1> QED
  BY <1>2, <1>3, <1>4, <1>5, <1>6 DEF Ch!SetupStep

\* teardown takes the mutex once setup is over, and the client with it.
LEMMA CloseLock ==
  ASSUME LockInv, Ch!Close \/ Ch!CloseStep
  PROVE  LockInv'
<1> USE DEF LockInv
<1>1. CASE Ch!Close
  <2>1. closing = "no" /\ closing' = "closing" /\ UNCHANGED <<setup, lock, client, handler, publish>>
    BY <1>1 DEF Ch!Close, Ch!slotVars
  <2> QED
    BY <2>1, Owners DEF LockType, Ch!LockOK, Ch!InSetup
<1>2. CASE Ch!LockForTeardown
  <2>1. closing = "closing" /\ ~Ch!InSetup /\ lock = None /\ closing' = "locked" /\ lock' = "teardown"
        /\ UNCHANGED <<setup, client, handler, publish>>
    BY <1>2 DEF Ch!LockForTeardown, Ch!slotVars
  <2> QED
    BY <2>1, Owners DEF LockType, Ch!LockOK, Ch!InSetup
<1>3. CASE Ch!TeardownNtfy \/ Ch!TeardownMqtt
  <2>1. closing = "locked" /\ closing' = "done" /\ lock' = None /\ client' = FALSE
        /\ UNCHANGED <<setup, handler, publish>>
    BY <1>3 DEF Ch!TeardownNtfy, Ch!TeardownMqtt, Ch!slotVars
  <2>2. lock = "teardown"
    BY <2>1 DEF Ch!LockOK
  <2> QED
    BY <2>1, <2>2, Owners DEF LockType, Ch!LockOK, Ch!InSetup
<1> QED
  BY <1>1, <1>2, <1>3 DEF Ch!CloseStep

\* A publish holds the mutex until the server has answered.
LEMMA PublishLock ==
  ASSUME LockInv, NEW p \in Publishers, Ch!Publish(p) \/ Ch!Answered(p)
  PROVE  LockInv'
<1> USE DEF LockInv
<1>1. UNCHANGED <<setup, client, handler, closing>>
  BY DEF Ch!Publish, Ch!Answered, Ch!PublishReturns, Ch!slotVars
<1>2. CASE Ch!Publish(p) /\ client
  <2>1. /\ publish[p] = "new" /\ handler /\ lock = None /\ lock' = p
        /\ publish' = [publish EXCEPT ![p] = "posting"]
    BY <1>2 DEF Ch!Publish
  <2>2. publish' \in [Publishers -> {"new", "posting", "ok", "failed"}] /\ publish'[p] = "posting"
        /\ \A q \in Publishers \ {p} : publish'[q] = publish[q]
    BY <2>1 DEF LockType
  <2> QED
    BY <1>1, <1>2, <2>1, <2>2, Owners DEF LockType, Ch!LockOK, Ch!InSetup
<1>3. CASE Ch!Publish(p) /\ ~client
  <2>1. publish[p] = "new" /\ lock' = lock /\ publish' = [publish EXCEPT ![p] = "failed"]
    BY <1>3 DEF Ch!Publish
  <2>2. publish' \in [Publishers -> {"new", "posting", "ok", "failed"}] /\ publish'[p] = "failed"
        /\ \A q \in Publishers \ {p} : publish'[q] = publish[q]
    BY <2>1 DEF LockType
  <2> QED
    BY <1>1, <2>1, <2>2, Owners DEF LockType, Ch!LockOK, Ch!InSetup
<1>4. CASE Ch!Answered(p)
  <2>1. PICK r \in {"ok", "failed"} :
          publish[p] = "posting" /\ lock' = None /\ publish' = [publish EXCEPT ![p] = r]
    BY <1>4 DEF Ch!Answered, Ch!PublishReturns
  <2>2. publish' \in [Publishers -> {"new", "posting", "ok", "failed"}] /\ publish'[p] = r
        /\ \A q \in Publishers \ {p} : publish'[q] = publish[q]
    BY <2>1 DEF LockType
  <2>3. lock = p
    BY <2>1 DEF Ch!LockOK
  <2> QED
    BY <1>1, <2>1, <2>2, <2>3, Owners DEF LockType, Ch!LockOK, Ch!InSetup
<1> QED
  BY <1>2, <1>3, <1>4

LEMMA LockStep ==
  ASSUME LockInv, Ch!Next
  PROVE  LockInv'
<1>1. CASE Ch!Setup \/ Ch!SetupStep
  BY <1>1, SetupLock
<1>2. CASE Ch!Close \/ Ch!CloseStep
  BY <1>2, CloseLock
<1>3. CASE \E p \in Publishers : Ch!Publish(p) \/ Ch!Answered(p)
  BY <1>3, PublishLock
<1>4. CASE Ch!Reader
  <2>1. UNCHANGED lockVars
    BY <1>4 DEF lockVars, Ch!Reader, Ch!ReaderShutsDown, Ch!ReaderSeesEnd, Ch!ReaderEnds, Ch!ReadFrame, Ch!Fetch,
                Ch!ReaderHandsOver, Ch!slotVars
  <2> QED
    BY <2>1, LockFrame
<1>5. CASE Ch!MqttCallback \/ (\E m \in tasks : Ch!MqttTask(m))
  <2>1. UNCHANGED lockVars
    BY <1>5 DEF lockVars, Ch!MqttCallback, Ch!MqttTask, Ch!slotVars
  <2> QED
    BY <2>1, LockFrame
<1>6. CASE Ch!ServerSubscribes \/ Ch!ServerCloses \/ (\E kind \in Ch!Kinds : Ch!Appear(kind))
  <2>1. UNCHANGED lockVars
    BY <1>6 DEF lockVars, Ch!ServerSubscribes, Ch!ServerCloses, Ch!Appear, Ch!slotVars
  <2> QED
    BY <2>1, LockFrame
<1> QED
  BY <1>1, <1>2, <1>3, <1>4, <1>5, <1>6 DEF Ch!Next
-----------------------------------------------------------------------------
(***************************************************************************)
(* Messages on their way.                                                  *)
(***************************************************************************)
ServerFrames == [kind : Ch!Kinds \cup {"open", "close"}, message : Ch!Messages \cup {None}]

FlowType ==
  /\ wire \in Seq(ServerFrames) /\ heard \in Seq(Ch!Messages)
  /\ topic \subseteq Ch!Messages /\ tasks \subseteq Ch!Messages
  /\ reader \in {"none", "select", "fetch", "handover", "ended"}
  /\ current \in Ch!Messages \cup {None}

flowVars == <<wire, heard, topic, tasks, reader, current, Proto>>

FlowInv == FlowType /\ Ch!WireOK /\ Ch!HeardOK

LEMMA MessagesAreNumbers == \A m \in Ch!Messages : m \in Nat
BY RendezvousAssumption DEF Ch!Messages

\* The set operators that Channel was instantiated with are the ones the library
\* has theorems about.
LEMMA SameCardinality ==
  ASSUME NEW S
  PROVE  Ch!Cardinality(S) = Cardinality(S)
BY DEF Ch!Cardinality, Cardinality

LEMMA FlowFrame ==
  ASSUME FlowInv, UNCHANGED flowVars
  PROVE  FlowInv'
BY DEF FlowInv, FlowType, flowVars, Ch!WireOK, Ch!HeardOK, Ch!Carries, Ch!Taken, Ch!Handling, Ch!Range, Proto

\* The connection is lost, or the reader drops its message.
LEMMA FlowLoses ==
  ASSUME FlowInv, UNCHANGED <<heard, topic, tasks, Proto>>, wire' \in {wire, <<>>},
         reader' \in {"none", "select", "fetch", "handover", "ended"},
         current' \in Ch!Messages \cup {None},
         Ch!Handling' \subseteq Ch!Handling, Proto = "mqtt" => reader' = "none"
  PROVE  FlowInv'
<1> USE DEF FlowInv
<1>1. wire' \in Seq(ServerFrames) /\ \A i \in DOMAIN wire' : i \in DOMAIN wire /\ wire'[i] = wire[i]
  BY EmptyItems DEF FlowType
<1>2. FlowType'
  BY <1>1 DEF FlowType
<1>3. Ch!Taken' \subseteq Ch!Taken /\ Ch!Range(heard)' = Ch!Range(heard)
  BY DEF Ch!Taken, Ch!Range
<1>4. Ch!WireOK'
  BY <1>1, <1>3 DEF Ch!WireOK, Ch!Carries, Proto
<1>5. Ch!HeardOK'
  BY <1>3 DEF Ch!HeardOK, Proto
<1> QED
  BY <1>2, <1>4, <1>5

\* A frame without a message comes: ntfy only.
LEMMA FlowControl ==
  ASSUME FlowInv, UNCHANGED <<heard, topic, tasks, reader, current, Proto>>, Proto = "ntfy",
         NEW kind \in {"open", "close"}, wire' = Append(wire, Ch!Frame(kind, None))
  PROVE  FlowInv'
<1> USE DEF FlowInv
<1> DEFINE f == Ch!Frame(kind, None)
<1>1. f \in ServerFrames /\ f.kind \notin Ch!Kinds
  BY DEF Ch!Frame, ServerFrames, Ch!Kinds
<1>2. /\ wire' \in Seq(ServerFrames)
      /\ \A i \in DOMAIN wire' : (i \in DOMAIN wire /\ wire'[i] = wire[i]) \/ wire'[i] = f
  BY <1>1, AppendItems DEF FlowType
<1> HIDE DEF f
<1>3. FlowType'
  BY <1>2 DEF FlowType
<1>4. Ch!Taken' = Ch!Taken
  BY DEF Ch!Taken, Ch!Range, Ch!Handling
<1>5. Ch!WireOK'
  BY <1>1, <1>2, <1>4 DEF Ch!WireOK, Ch!Carries, Proto
<1>6. Ch!HeardOK'
  BY DEF Ch!HeardOK, Ch!Range, Ch!Handling, Proto
<1> QED
  BY <1>3, <1>5, <1>6

\* A message appears: it is newer than all that were on the topic.
LEMMA FlowAppears ==
  ASSUME FlowInv, UNCHANGED Proto, NEW kind \in Ch!Kinds, Ch!Appear(kind)
  PROVE  FlowInv'
<1> USE DEF FlowInv
<1> DEFINE m == Ch!Cardinality(topic) + 1
           f == Ch!Frame(kind, m)
<1>1. PICK n \in 0 .. MaxMessages : topic = 1 .. n
  BY DEF Ch!WireOK
<1>2. Ch!Cardinality(topic) = n /\ n \in Nat
  BY <1>1, FS_Interval, SameCardinality, RendezvousAssumption
<1>3. n < MaxMessages /\ m = n + 1 /\ m \in Ch!Messages
  BY <1>2, RendezvousAssumption DEF Ch!Appear, Ch!Messages
<1>4. /\ topic' = topic \cup {m} /\ topic' = 1 .. n + 1
      /\ wire' = IF conn = "subscribed" THEN Append(wire, f) ELSE wire
      /\ UNCHANGED <<heard, tasks, reader, current>>
  BY <1>1, <1>2, <1>3 DEF Ch!Appear, Ch!readerVars
<1>5. n + 1 \in 0 .. MaxMessages /\ \A k \in topic : k < m
  BY <1>1, <1>2, <1>3, RendezvousAssumption
<1>6. f \in ServerFrames /\ f.kind \in Ch!Kinds /\ f.message = m /\ f.kind = kind /\ (Proto = "mqtt" => kind = "plain")
  BY <1>3 DEF Ch!Frame, ServerFrames, Ch!Appear, Proto
<1> HIDE DEF m, f
<1>7. /\ wire' \in Seq(ServerFrames)
      /\ \A i \in DOMAIN wire' : (i \in DOMAIN wire /\ wire'[i] = wire[i]) \/ (i \notin DOMAIN wire /\ wire'[i] = f)
      /\ \A i, j \in DOMAIN wire' : i \notin DOMAIN wire => j <= i
      /\ \A i \in DOMAIN wire' : i \in Nat
  BY <1>4, <1>6, AppendItems DEF FlowType
<1>8. FlowType'
  BY <1>3, <1>4, <1>7 DEF FlowType
<1>9. Ch!Taken' = Ch!Taken /\ Ch!Taken \subseteq topic
  BY <1>4 DEF Ch!Taken, Ch!Range, Ch!Handling, Ch!WireOK
<1>10. Ch!WireOK'
  <2>1. \E k \in 0 .. MaxMessages : topic' = 1 .. k
    BY <1>4, <1>5
  <2>2. \A i \in DOMAIN wire' : Ch!Carries(i)' =>
          wire'[i].message \in topic' /\ \A k \in Ch!Taken' : k < wire'[i].message
    BY <1>4, <1>5, <1>6, <1>7, <1>9 DEF Ch!WireOK, Ch!Carries
  <2>3. \A i, j \in DOMAIN wire' : i < j /\ Ch!Carries(i)' /\ Ch!Carries(j)' => wire'[i].message < wire'[j].message
    <3> SUFFICES ASSUME NEW i \in DOMAIN wire', NEW j \in DOMAIN wire', i < j, Ch!Carries(i)', Ch!Carries(j)'
                 PROVE  wire'[i].message < wire'[j].message
      OBVIOUS
    <3>1. i \in DOMAIN wire /\ wire'[i] = wire[i] /\ Ch!Carries(i)
      BY <1>7 DEF Ch!Carries
    <3>2. CASE j \in DOMAIN wire
      BY <1>7, <3>1, <3>2 DEF Ch!WireOK, Ch!Carries
    <3>3. CASE wire'[j] = f
      BY <1>5, <1>6, <3>1, <3>3 DEF Ch!WireOK
    <3> QED
      BY <1>7, <3>2, <3>3
  <2>4. Proto = "mqtt" => \A i \in DOMAIN wire' : wire'[i].kind = "plain"
    BY <1>6, <1>7 DEF Ch!WireOK, Proto
  <2> QED
    BY <1>4, <1>9, <2>1, <2>2, <2>3, <2>4 DEF Ch!WireOK, Proto
<1>11. Ch!HeardOK'
  BY <1>4 DEF Ch!HeardOK, Ch!Range, Ch!Handling, Proto
<1> QED
  BY <1>8, <1>10, <1>11
\* What is handed over comes last, if it is heard at all.
LEMMA HandedOver ==
  ASSUME FlowType, NEW m \in Ch!Messages, Ch!HandOver(m)
  PROVE  /\ heard' \in Seq(Ch!Messages)
         /\ \A i \in DOMAIN heard' : IF i \in DOMAIN heard THEN heard'[i] = heard[i] ELSE heard'[i] = m
         /\ \A i, j \in DOMAIN heard' : i \notin DOMAIN heard => j <= i
         /\ \A i \in DOMAIN heard' : i \in Nat
         /\ Ch!Range(heard)' \subseteq Ch!Range(heard) \cup {m}
<1>1. /\ heard' \in Seq(Ch!Messages)
      /\ \A i \in DOMAIN heard' : IF i \in DOMAIN heard THEN heard'[i] = heard[i] ELSE heard'[i] = m
      /\ \A i, j \in DOMAIN heard' : i \notin DOMAIN heard => j <= i
      /\ \A i \in DOMAIN heard' : i \in Nat
  BY AppendItems DEF FlowType, Ch!HandOver
<1>2. Ch!Range(heard)' \subseteq Ch!Range(heard) \cup {m}
  BY <1>1 DEF Ch!Range
<1> QED
  BY <1>1, <1>2

\* The reader, or a task, hands over a message it had taken.
LEMMA FlowHandsOver ==
  ASSUME FlowInv, UNCHANGED <<wire, topic, Proto>>, NEW m \in Ch!Taken, Ch!HandOver(m), m \notin Ch!Range(heard),
         \/ Proto = "mqtt" /\ m \in tasks /\ tasks' = tasks \ {m} /\ UNCHANGED <<reader, current>>
         \/ Proto = "ntfy" /\ m \in Ch!Handling /\ UNCHANGED tasks /\ reader' = "select" /\ current' = None
  PROVE  FlowInv'
<1> USE DEF FlowInv
<1>1. m \in topic /\ m \in Ch!Messages
  BY DEF Ch!WireOK, FlowType
<1>2. /\ heard' \in Seq(Ch!Messages)
      /\ \A i \in DOMAIN heard' : IF i \in DOMAIN heard THEN heard'[i] = heard[i] ELSE heard'[i] = m
      /\ \A i, j \in DOMAIN heard' : i \notin DOMAIN heard => j <= i
      /\ \A i \in DOMAIN heard' : i \in Nat
      /\ Ch!Range(heard)' \subseteq Ch!Range(heard) \cup {m}
  BY <1>1, HandedOver
<1>3. FlowType'
  BY <1>2 DEF FlowType
<1>4. Ch!Handling' \subseteq Ch!Handling /\ (Proto = "ntfy" => Ch!Handling' = {})
  BY DEF Ch!Handling
<1>5. Ch!Taken' \subseteq Ch!Taken /\ tasks' \cap Ch!Range(heard)' = {}
  BY <1>2, <1>4 DEF Ch!Taken, Ch!HeardOK, Ch!WireOK, Proto
<1>6. Ch!WireOK'
  BY <1>5 DEF Ch!WireOK, Ch!Carries, Proto
<1>7. \A i \in DOMAIN heard : heard[i] # m
  BY DEF Ch!Range
<1>8. \A i, j \in DOMAIN heard' : i # j => heard'[i] # heard'[j]
  <2>1. \A i, j \in DOMAIN heard' : i \notin DOMAIN heard /\ j \notin DOMAIN heard => i = j
    BY <1>2
  <2> QED
    BY <1>2, <1>7, <2>1 DEF Ch!HeardOK
<1>9. Proto = "ntfy" => \A i, j \in DOMAIN heard' : i < j => heard'[i] < heard'[j]
  <2> SUFFICES ASSUME Proto = "ntfy", NEW i \in DOMAIN heard', NEW j \in DOMAIN heard', i < j
               PROVE  heard'[i] < heard'[j]
    OBVIOUS
  <2>1. m \in Ch!Handling
    OBVIOUS
  <2>2. i \in DOMAIN heard /\ heard'[i] = heard[i]
    BY <1>2
  <2> QED
    BY <1>2, <2>1, <2>2 DEF Ch!HeardOK, Proto
<1>10. Ch!HeardOK'
  BY <1>4, <1>5, <1>8, <1>9 DEF Ch!HeardOK, Proto
<1> QED
  BY <1>3, <1>6, <1>10

\* The first frame is taken from the connection: its message is the oldest there.
LEMMA FlowTakes ==
  ASSUME FlowInv, UNCHANGED <<heard, topic, Proto>>, wire # <<>>, wire' = Tail(wire),
         \/ /\ UNCHANGED <<tasks, reader, current>>
         \/ /\ Proto = "mqtt" /\ tasks' = tasks \cup {Head(wire).message} /\ UNCHANGED <<reader, current>>
         \/ /\ Proto = "ntfy" /\ UNCHANGED tasks /\ Head(wire).kind \in Ch!Kinds
            /\ reader' \in {"fetch", "handover"} /\ current' = Head(wire).message
  PROVE  FlowInv'
<1> USE DEF FlowInv
<1> DEFINE m == Head(wire).message
<1>1. /\ wire' \in Seq(ServerFrames) /\ Head(wire) \in ServerFrames
      /\ 1 \in DOMAIN wire /\ Head(wire) = wire[1]
      /\ \A i \in DOMAIN wire' : i \in Nat \ {0} /\ i + 1 \in DOMAIN wire /\ wire'[i] = wire[i + 1]
  BY TailItems DEF FlowType
<1>2. Proto = "mqtt" => Head(wire).kind \in Ch!Kinds
  BY <1>1 DEF Ch!WireOK, Ch!Kinds, Proto
<1>3. Head(wire).kind \in Ch!Kinds =>
        /\ m \in topic /\ m \in Ch!Messages /\ \A k \in Ch!Taken : k < m
        /\ \A i \in DOMAIN wire' : Ch!Carries(i)' => m < wire'[i].message
  <2>1. Head(wire).kind \in Ch!Kinds => Ch!Carries(1) /\ wire[1].message = m
    BY <1>1 DEF Ch!Carries
  <2>2. \A i \in DOMAIN wire' : Ch!Carries(i)' => Ch!Carries(i + 1)
    BY <1>1 DEF Ch!Carries
  <2>3. \A i \in DOMAIN wire' : 1 < i + 1
    BY <1>1
  <2> QED
    BY <1>1, <2>1, <2>2, <2>3 DEF Ch!WireOK, FlowType
<1> HIDE DEF m
<1>4. FlowType'
  BY <1>1, <1>2, <1>3 DEF FlowType, m
<1>5. Ch!Range(heard)' = Ch!Range(heard)
  BY DEF Ch!Range
<1>6. Ch!Taken' \subseteq Ch!Taken \/ (Head(wire).kind \in Ch!Kinds /\ Ch!Taken' \subseteq Ch!Taken \cup {m})
  BY <1>2, <1>5 DEF Ch!Taken, Ch!Handling, m
<1>7. Ch!WireOK'
  <2>1. Ch!Taken' \subseteq topic
    BY <1>3, <1>6 DEF Ch!WireOK
  <2>2. \A i \in DOMAIN wire' : Ch!Carries(i)' =>
          wire'[i].message \in topic /\ \A k \in Ch!Taken' : k < wire'[i].message
    <3>1. \A i \in DOMAIN wire' : Ch!Carries(i)' =>
            wire'[i].message \in topic /\ \A k \in Ch!Taken : k < wire'[i].message
      BY <1>1 DEF Ch!WireOK, Ch!Carries
    <3> QED
      BY <1>3, <1>6, <3>1
  <2>3. \A i, j \in DOMAIN wire' : i < j /\ Ch!Carries(i)' /\ Ch!Carries(j)' => wire'[i].message < wire'[j].message
    BY <1>1 DEF Ch!WireOK, Ch!Carries
  <2>4. Proto = "mqtt" => reader' = "none" /\ \A i \in DOMAIN wire' : wire'[i].kind = "plain"
    BY <1>1 DEF Ch!WireOK, Proto
  <2>5. Proto = "ntfy" => tasks' = {}
    BY DEF Ch!WireOK, Proto
  <2> QED
    BY <2>1, <2>2, <2>3, <2>4, <2>5 DEF Ch!WireOK, Proto
<1>8. Ch!HeardOK'
  <2>1. Ch!Range(heard) \subseteq Ch!Taken /\ \A i \in DOMAIN heard : heard[i] \in Ch!Taken /\ heard[i] \in Ch!Messages
    BY DEF Ch!Taken, Ch!Range, FlowType
  <2>2. tasks' \cap Ch!Range(heard)' = {}
    <3>1. Head(wire).kind \in Ch!Kinds => m \notin Ch!Taken
      BY <1>3, MessagesAreNumbers
    <3> QED
      BY <1>2, <1>5, <2>1, <3>1 DEF Ch!HeardOK, m
  <2>3. \A k \in Ch!Handling' : k \in Ch!Handling \/ (Head(wire).kind \in Ch!Kinds /\ k = m)
    BY DEF Ch!Handling, m
  <2>4. Proto = "ntfy" => \A k \in Ch!Handling', i \in DOMAIN heard : heard[i] < k
    BY <1>3, <2>1, <2>3 DEF Ch!HeardOK, Proto
  <2> QED
    BY <2>2, <2>4 DEF Ch!HeardOK, Proto
<1> QED
  BY <1>4, <1>7, <1>8
\* setup and teardown touch the connection and start the reader.
LEMMA FlowLifecycle ==
  ASSUME FlowInv, UNCHANGED Proto, Ch!SetupStep \/ Ch!CloseStep
  PROVE  FlowInv'
<1>1. CASE Ch!ConnectNtfy
  <2>1. Proto = "ntfy" /\ reader' = "select" /\ UNCHANGED <<wire, topic, current, tasks, heard>>
    BY <1>1 DEF Ch!ConnectNtfy, Proto
  <2>2. Ch!Handling' = {}
    BY <2>1 DEF Ch!Handling
  <2> QED
    BY <2>1, <2>2, FlowLoses DEF FlowInv, FlowType
<1>2. CASE Ch!SubscribeFails \/ Ch!AbortSetup \/ Ch!TeardownMqtt
  <2>1. wire' \in {wire, <<>>} /\ UNCHANGED <<topic, reader, current, tasks, heard>>
    BY <1>2 DEF Ch!SubscribeFails, Ch!AbortSetup, Ch!TeardownMqtt, Ch!readerVars, Ch!connVars
  <2>2. Ch!Handling' = Ch!Handling
    BY <2>1 DEF Ch!Handling
  <2>3. Proto = "mqtt" => reader' = "none"
    BY <2>1 DEF FlowInv, Ch!WireOK, Proto
  <2> QED
    BY <2>1, <2>2, <2>3, FlowLoses DEF FlowInv, FlowType
<1>3. CASE UNCHANGED <<wire, topic, reader, current, tasks, heard>>
  BY <1>3, FlowFrame DEF flowVars
<1> QED
  BY <1>1, <1>2, <1>3
  DEF Ch!SetupStep, Ch!CloseStep, Ch!ConnectMqtt, Ch!ConnectFails, Ch!Confirmed, Ch!NotConfirmed, Ch!Subscribed,
      Ch!Subscribe, Ch!LockForTeardown, Ch!TeardownNtfy, Ch!readerVars, Ch!connVars

\* The reader runs for ntfy only.
LEMMA FlowReader ==
  ASSUME FlowInv, UNCHANGED Proto, Proto \in {"ntfy", "mqtt"}, Ch!Reader
  PROVE  FlowInv'
<1>0. Proto = "ntfy"
  BY DEF FlowInv, Ch!WireOK, Proto, Ch!Reader, Ch!ReaderShutsDown, Ch!ReaderSeesEnd, Ch!ReadFrame, Ch!Fetch,
         Ch!ReaderHandsOver
<1>1. CASE Ch!ReaderShutsDown \/ Ch!ReaderSeesEnd
  <2>1. wire' = <<>> /\ reader' = "ended" /\ UNCHANGED <<topic, current, tasks, heard>>
    BY <1>1 DEF Ch!ReaderShutsDown, Ch!ReaderSeesEnd, Ch!ReaderEnds
  <2>2. Ch!Handling' = {}
    BY <2>1 DEF Ch!Handling
  <2> QED
    BY <1>0, <2>1, <2>2, FlowLoses DEF FlowInv, FlowType
<1>2. CASE Ch!ReadFrame
  <2>0. wire # <<>> /\ wire' = Tail(wire) /\ UNCHANGED <<heard, topic, tasks>> /\ Head(wire).kind # "close"
    BY <1>2 DEF Ch!ReadFrame
  <2>1. Head(wire) \in ServerFrames
    BY <2>0, TailItems DEF FlowInv, FlowType
  <2>2. CASE Head(wire).kind \in {"open", "other"}
    <3>1. UNCHANGED <<reader, current>>
      BY <1>2, <2>2 DEF Ch!ReadFrame
    <3> QED
      BY <2>0, <3>1, FlowTakes
  <2>3. CASE Head(wire).kind \in {"plain", "attachment"}
    <3>1. reader' \in {"fetch", "handover"} /\ current' = Head(wire).message
      BY <1>2, <2>3 DEF Ch!ReadFrame
    <3>2. Head(wire).kind \in Ch!Kinds
      BY <2>3 DEF Ch!Kinds
    <3> QED
      BY <1>0, <2>0, <3>1, <3>2, FlowTakes
  <2> QED
    BY <2>0, <2>1, <2>2, <2>3 DEF ServerFrames, Ch!Kinds
<1>3. CASE Ch!Fetch
  <2>1. /\ reader = "fetch" /\ UNCHANGED <<wire, topic, tasks, heard>>
        /\ (reader' = "handover" /\ current' = current) \/ (reader' = "select" /\ current' = None)
    BY <1>3 DEF Ch!Fetch, Ch!connVars
  <2>2. Ch!Handling' \subseteq Ch!Handling
    BY <2>1 DEF Ch!Handling
  <2> QED
    BY <1>0, <2>1, <2>2, FlowLoses DEF FlowInv, FlowType
<1>4. CASE Ch!ReaderHandsOver
  <2>1. /\ reader = "handover" /\ reader' = "select" /\ current' = None /\ UNCHANGED <<wire, topic, tasks>>
        /\ Ch!HandOver(current)
    BY <1>4 DEF Ch!ReaderHandsOver, Ch!connVars
  <2>2. current \in Ch!Handling /\ current \in Ch!Taken
    BY <2>1 DEF Ch!Handling, Ch!Taken
  <2>3. current \in Nat
    BY <2>2, MessagesAreNumbers DEF FlowInv, FlowType, Ch!WireOK
  <2>4. current \notin Ch!Range(heard)
    BY <1>0, <2>2, <2>3 DEF FlowInv, Ch!HeardOK, Ch!Range, Proto
  <2> QED
    BY <1>0, <2>1, <2>2, <2>4, FlowHandsOver
<1> QED
  BY <1>1, <1>2, <1>3, <1>4 DEF Ch!Reader

LEMMA FlowStep ==
  ASSUME FlowInv, UNCHANGED Proto, Proto \in {"ntfy", "mqtt"}, Ch!Next
  PROVE  FlowInv'
<1>1. CASE Ch!SetupStep \/ Ch!CloseStep
  BY <1>1, FlowLifecycle
<1>2. CASE Ch!Reader
  BY <1>2, FlowReader
<1>3. CASE Ch!MqttCallback
  <2>1. /\ Proto = "mqtt" /\ wire # <<>> /\ wire' = Tail(wire) /\ tasks' = tasks \cup {Head(wire).message}
        /\ UNCHANGED <<heard, topic, reader, current>>
    BY <1>3 DEF Ch!MqttCallback, Proto
  <2> QED
    BY <2>1, FlowTakes
<1>4. ASSUME NEW m \in tasks, Ch!MqttTask(m) PROVE FlowInv'
  <2>1. /\ tasks' = tasks \ {m} /\ Ch!HandOver(m) /\ UNCHANGED <<wire, topic, reader, current>>
    BY <1>4 DEF Ch!MqttTask, Ch!connVars
  <2>2. Proto = "mqtt" /\ m \in Ch!Taken /\ m \notin Ch!Range(heard)
    BY <1>4 DEF FlowInv, Ch!WireOK, Ch!HeardOK, Ch!Taken, Proto
  <2> QED
    BY <1>4, <2>1, <2>2, FlowHandsOver
<1>5. CASE Ch!ServerSubscribes
  <2>1. UNCHANGED <<heard, topic, tasks, reader, current>>
        /\ wire' = IF Proto = "ntfy" THEN Append(wire, Ch!Frame("open", None)) ELSE wire
    BY <1>5 DEF Ch!ServerSubscribes, Ch!readerVars, Proto
  <2> QED
    BY <2>1, FlowControl, FlowFrame DEF flowVars
<1>6. CASE Ch!ServerCloses
  <2>1. /\ UNCHANGED <<heard, topic, tasks, reader, current>>
        /\ \/ wire' \in {wire, <<>>}
           \/ Proto = "ntfy" /\ wire' = Append(wire, Ch!Frame("close", None))
    BY <1>6 DEF Ch!ServerCloses, Ch!readerVars, Proto
  <2>2. Ch!Handling' = Ch!Handling /\ (Proto = "mqtt" => reader' = "none")
    BY <2>1 DEF Ch!Handling, FlowInv, Ch!WireOK, Proto
  <2>3. CASE wire' \in {wire, <<>>}
    BY <2>1, <2>2, <2>3, FlowLoses DEF FlowInv, FlowType
  <2>4. CASE Proto = "ntfy" /\ wire' = Append(wire, Ch!Frame("close", None))
    BY <2>1, <2>4, FlowControl
  <2> QED
    BY <2>1, <2>3, <2>4
<1>7. CASE \E kind \in Ch!Kinds : Ch!Appear(kind)
  BY <1>7, FlowAppears
<1>8. CASE Ch!Setup \/ Ch!Close \/ (\E p \in Publishers : Ch!Publish(p) \/ Ch!Answered(p))
  <2>1. UNCHANGED flowVars
    BY <1>8 DEF flowVars, Ch!Setup, Ch!Close, Ch!Publish, Ch!Answered, Ch!PublishReturns, Ch!readerVars, Ch!connVars
  <2> QED
    BY <2>1, FlowFrame
<1> QED
  BY <1>1, <1>2, <1>3, <1>4, <1>5, <1>6, <1>7, <1>8 DEF Ch!Next

-----------------------------------------------------------------------------
(***************************************************************************)
(* The connection, and all together.                                       *)
(***************************************************************************)
ConnType ==
  /\ conn \in {"none", "connected", "subscribed", "closed"}
  /\ shutdown \in {"none", "held", "signalled"} /\ ready \in {"pending", "sent", "dropped"}

LEMMA ConnStep ==
  ASSUME ConnType, Ch!Next
  PROVE  ConnType'
<1> USE DEF ConnType, Ch!connVars, Ch!readerVars
<1>1. CASE Ch!SetupStep
  BY <1>1 DEF Ch!SetupStep, Ch!ConnectNtfy, Ch!ConnectMqtt, Ch!ConnectFails, Ch!Confirmed, Ch!NotConfirmed,
              Ch!Subscribed, Ch!SubscribeFails, Ch!Subscribe, Ch!AbortSetup
<1>2. CASE Ch!CloseStep
  BY <1>2 DEF Ch!CloseStep, Ch!LockForTeardown, Ch!TeardownNtfy, Ch!TeardownMqtt
<1>3. CASE Ch!Reader
  BY <1>3 DEF Ch!Reader, Ch!ReaderShutsDown, Ch!ReaderSeesEnd, Ch!ReaderEnds, Ch!ReadFrame, Ch!Fetch,
              Ch!ReaderHandsOver
<1>4. CASE Ch!MqttCallback \/ (\E m \in tasks : Ch!MqttTask(m))
  BY <1>4 DEF Ch!MqttCallback, Ch!MqttTask
<1>5. CASE Ch!ServerSubscribes \/ Ch!ServerCloses \/ (\E kind \in Ch!Kinds : Ch!Appear(kind))
  BY <1>5 DEF Ch!ServerSubscribes, Ch!ServerCloses, Ch!Appear
<1>6. CASE Ch!Setup \/ Ch!Close \/ (\E p \in Publishers : Ch!Publish(p) \/ Ch!Answered(p))
  BY <1>6 DEF Ch!Setup, Ch!Close, Ch!Publish, Ch!Answered, Ch!PublishReturns
<1> QED
  BY <1>1, <1>2, <1>3, <1>4, <1>5, <1>6 DEF Ch!Next

LEMMA InvParts == ChannelInv <=> Proto \in {"ntfy", "mqtt"} /\ ConnType /\ LockInv /\ FlowInv
BY DEF ChannelInv, Ch!Inv, Ch!TypeOK, Proto, ConnType, LockInv, LockType, FlowInv, FlowType, ServerFrames

LEMMA ChannelStart ==
  ASSUME Ch!Init, Proto \in {"ntfy", "mqtt"}
  PROVE  ChannelInv
<1> USE DEF Ch!Init
<1>1. ConnType
  BY DEF ConnType
<1>2. LockInv
  BY Owners DEF LockInv, LockType, Ch!LockOK, Ch!InSetup
<1>3. FlowInv
  <2>1. FlowType /\ DOMAIN wire = {} /\ DOMAIN heard = {}
    BY EmptyItems DEF FlowType
  <2>2. Ch!Taken = {} /\ Ch!Handling = {} /\ Ch!Range(heard) = {}
    BY <2>1 DEF Ch!Taken, Ch!Handling, Ch!Range
  <2>3. 0 \in 0 .. MaxMessages /\ topic = 1 .. 0
    BY RendezvousAssumption
  <2> QED
    BY <2>1, <2>2, <2>3 DEF FlowInv, Ch!WireOK, Ch!HeardOK, Proto
<1> QED
  BY <1>1, <1>2, <1>3, InvParts

LEMMA InvNext == ChannelInv' <=> (Proto \in {"ntfy", "mqtt"} /\ ConnType /\ LockInv /\ FlowInv)'
BY InvParts, PTL

LEMMA StartNext ==
  ASSUME Ch!Init', (Proto \in {"ntfy", "mqtt"})'
  PROVE  ChannelInv'
BY ChannelStart, PTL
LEMMA RendezvousStep ==
  ASSUME Handed, ChannelInv, [RendezvousNext]_<<vars, channelVars>>
  PROVE  Handed' /\ ChannelInv'
<1>1. CASE RendezvousNext
  <2>1. Handed'
    BY <1>1, HandedStep
  <2>2. CASE Ch!Init /\ UNCHANGED channelVars
    <3>1. Ch!Init'
      BY <2>2 DEF channelVars, Ch!Init
    <3>2. (Proto \in {"ntfy", "mqtt"})'
      BY <2>1 DEF Handed
    <3> QED
      BY <2>1, <3>1, <3>2, StartNext
  <2>3. CASE UNCHANGED <<channelVars, Proto>>
    <3>1. UNCHANGED lockVars /\ UNCHANGED flowVars /\ UNCHANGED <<conn, shutdown, ready, Proto>>
      BY <2>3 DEF channelVars, lockVars, flowVars
    <3>2. LockInv' /\ FlowInv'
      BY <3>1, InvParts, LockFrame, FlowFrame
    <3>3. ConnType' /\ (Proto \in {"ntfy", "mqtt"})'
      BY <3>1, InvParts DEF ConnType
    <3> QED
      BY <2>1, <3>2, <3>3, InvNext
  <2>4. CASE Ch!Next /\ UNCHANGED Proto
    <3>1. LockInv' /\ FlowInv' /\ ConnType'
      BY <2>4, InvParts, LockStep, FlowStep, ConnStep
    <3>2. (Proto \in {"ntfy", "mqtt"})'
      BY <2>4, InvParts
    <3> QED
      BY <2>1, <3>1, <3>2, InvNext
  <2> QED
    BY <1>1, <2>2, <2>3, <2>4, <2>1, HandedStep
<1>2. CASE UNCHANGED <<vars, channelVars>>
  <2>1. UNCHANGED lockVars /\ UNCHANGED flowVars /\ UNCHANGED <<conn, shutdown, ready, Proto>>
    BY <1>2 DEF vars, channelVars, lockVars, flowVars, Proto
  <2>2. LockInv' /\ FlowInv'
    BY <2>1, InvParts, LockFrame, FlowFrame
  <2>3. ConnType' /\ (Proto \in {"ntfy", "mqtt"})'
    BY <2>1, InvParts DEF ConnType
  <2>4. Handed'
    BY <1>2, <2>3 DEF Handed, vars, channelVars, Ch!Init
  <2> QED
    BY <2>2, <2>3, <2>4, InvNext
<1> QED
  BY <1>1, <1>2

LEMMA RendezvousStart ==
  ASSUME RendezvousInit
  PROVE  Handed /\ ChannelInv
<1>1. Ch!Init /\ dapp = None /\ url = None /\ wallet = None
  BY DEF RendezvousInit, Init
<1>2. Proto = "ntfy"
  BY <1>1 DEF Proto, IsSession
<1> QED
  BY <1>1, <1>2, ChannelStart DEF Handed

\* The channel keeps its invariant: setup, teardown and publish exclude each
\* other, no client outlives teardown, and a message is handed over at most once,
\* by ntfy in the order of the server.
THEOREM Invariance == RendezvousSpec => []ChannelInv
<1>1. RendezvousInit => Handed /\ ChannelInv
  BY RendezvousStart
<1>2. Handed /\ ChannelInv /\ [RendezvousNext]_<<vars, channelVars>> => Handed' /\ ChannelInv'
  BY RendezvousStep
<1> QED
  BY <1>1, <1>2, PTL DEF RendezvousSpec

-----------------------------------------------------------------------------
(***************************************************************************)
(* Every step of the channel is a step of ChannelContract, or none.        *)
(***************************************************************************)
Accepted == {p \in Publishers : publish[p] = "ok"}

LEMMA ContractFrame ==
  ASSUME UNCHANGED <<handler, topic, heard, publish>>, (closing' = "done") <=> (closing = "done")
  PROVE  UNCHANGED Ch!Contract!vars
<1>1. Ch!Range(heard)' = Ch!Range(heard)
  BY DEF Ch!Range
<1> QED
  BY <1>1 DEF Ch!Contract!vars

\* setup opens the channel with its last step; teardown has not returned then.
LEMMA ContractSetup ==
  ASSUME LockInv, Ch!Setup \/ Ch!SetupStep
  PROVE  [Ch!Contract!Next]_Ch!Contract!vars
<1>1. CASE Ch!Subscribe
  <2>1. handler' = TRUE /\ UNCHANGED <<topic, heard, publish, closing>> /\ setup = "handler"
    BY <1>1 DEF Ch!Subscribe, Ch!connVars, Ch!readerVars
  <2>2. closing # "done" /\ handler \in BOOLEAN
    BY <2>1 DEF LockInv, LockType, Ch!LockOK, Ch!InSetup
  <2>3. Ch!Range(heard)' = Ch!Range(heard)
    BY <2>1 DEF Ch!Range
  <2>4. CASE handler = FALSE
    BY <2>1, <2>2, <2>3, <2>4 DEF Ch!Contract!Next, Ch!Contract!Open
  <2>5. CASE handler = TRUE
    BY <2>1, <2>5, ContractFrame
  <2> QED
    BY <2>2, <2>4, <2>5
<1>2. CASE ~Ch!Subscribe
  <2>1. UNCHANGED <<handler, topic, heard, publish, closing>>
    BY <1>2 DEF Ch!Setup, Ch!SetupStep, Ch!ConnectNtfy, Ch!ConnectMqtt, Ch!ConnectFails, Ch!Confirmed,
                Ch!NotConfirmed, Ch!Subscribed, Ch!SubscribeFails, Ch!AbortSetup, Ch!SetupFails, Ch!slotVars,
                Ch!connVars, Ch!readerVars
  <2> QED
    BY <2>1, ContractFrame
<1> QED
  BY <1>1, <1>2

LEMMA ContractClose ==
  ASSUME LockInv, Ch!Close \/ Ch!CloseStep
  PROVE  [Ch!Contract!Next]_Ch!Contract!vars
<1>1. UNCHANGED <<handler, topic, heard, publish>>
  BY DEF Ch!Close, Ch!CloseStep, Ch!LockForTeardown, Ch!TeardownNtfy, Ch!TeardownMqtt, Ch!slotVars, Ch!connVars,
         Ch!readerVars
<1>2. Ch!Range(heard)' = Ch!Range(heard)
  BY <1>1 DEF Ch!Range
<1>3. CASE Ch!TeardownNtfy \/ Ch!TeardownMqtt
  <2>1. closing = "locked" /\ closing' = "done"
    BY <1>3 DEF Ch!TeardownNtfy, Ch!TeardownMqtt
  <2> QED
    BY <1>1, <1>2, <2>1 DEF Ch!Contract!Next, Ch!Contract!Teardown
<1>4. CASE Ch!Close \/ Ch!LockForTeardown
  <2>1. closing # "done" /\ closing' # "done"
    BY <1>4 DEF Ch!Close, Ch!LockForTeardown
  <2> QED
    BY <1>1, <2>1, ContractFrame
<1> QED
  BY <1>3, <1>4 DEF Ch!CloseStep

\* Handing a message over is hearing it, if the handler is there.
LEMMA ContractHears ==
  ASSUME FlowInv, NEW m \in Ch!Taken, m \notin Ch!Range(heard), Ch!HandOver(m), UNCHANGED <<handler, topic, publish, closing>>
  PROVE  [Ch!Contract!Next]_Ch!Contract!vars
<1>1. m \in topic /\ m \in Ch!Messages
  BY DEF FlowInv, Ch!WireOK, FlowType
<1>2. CASE handler
  <2>1. heard' = Append(heard, m) /\ heard \in Seq(Ch!Messages)
    BY <1>2 DEF Ch!HandOver, FlowInv, FlowType
  <2>2. Ch!Range(heard)' = Ch!Range(heard) \cup {m}
    BY <1>1, <2>1, AppendItems DEF Ch!Range
  <2>3. Ch!Contract!Hear(m)
    BY <1>1, <1>2, <2>2 DEF Ch!Contract!Hear
  <2> QED
    BY <1>1, <2>3 DEF Ch!Contract!Next
<1>3. CASE ~handler
  BY <1>3, ContractFrame DEF Ch!HandOver
<1> QED
  BY <1>2, <1>3

\* A publish that succeeds was made between setup and teardown.
LEMMA ContractPublish ==
  ASSUME LockInv, NEW p \in Publishers, Ch!Publish(p) \/ Ch!Answered(p)
  PROVE  [Ch!Contract!Next]_Ch!Contract!vars
<1>1. UNCHANGED <<handler, topic, heard, closing>>
  BY DEF Ch!Publish, Ch!Answered, Ch!PublishReturns, Ch!slotVars, Ch!connVars, Ch!readerVars
<1>2. Ch!Range(heard)' = Ch!Range(heard)
  BY <1>1 DEF Ch!Range
<1>3. PICK r \in {"posting", "failed", "ok"} :
        /\ publish' = [publish EXCEPT ![p] = r] /\ publish[p] \in {"new", "posting"}
        /\ r = "ok" => publish[p] = "posting"
  BY DEF Ch!Publish, Ch!Answered, Ch!PublishReturns
<1>4. publish'[p] = r /\ \A q \in Publishers \ {p} : publish'[q] = publish[q]
  BY <1>3 DEF LockInv, LockType
<1>5. CASE r = "ok"
  <2>1. handler /\ closing # "done"
    BY <1>3, <1>5 DEF LockInv, Ch!LockOK
  <2>2. Accepted' = Accepted \cup {p}
    BY <1>4, <1>5 DEF Accepted
  <2>3. Ch!Contract!Publish(p)
    BY <1>1, <1>2, <2>1, <2>2 DEF Ch!Contract!Publish, Accepted
  <2> QED
    BY <2>3 DEF Ch!Contract!Next
<1>6. CASE r # "ok"
  <2>1. Accepted' = Accepted
    BY <1>3, <1>4, <1>6 DEF Accepted
  <2> QED
    BY <1>1, <1>2, <2>1 DEF Ch!Contract!vars, Accepted
<1> QED
  BY <1>5, <1>6

LEMMA ContractAppears ==
  ASSUME FlowInv, NEW kind \in Ch!Kinds, Ch!Appear(kind)
  PROVE  [Ch!Contract!Next]_Ch!Contract!vars
<1> DEFINE m == Ch!Cardinality(topic) + 1
<1>1. PICK n \in 0 .. MaxMessages : topic = 1 .. n
  BY DEF FlowInv, Ch!WireOK
<1>2. Ch!Cardinality(topic) = n /\ n \in Nat
  BY <1>1, FS_Interval, SameCardinality, RendezvousAssumption
<1>3. m \in Ch!Messages /\ m \notin topic
  BY <1>1, <1>2, RendezvousAssumption DEF Ch!Appear, Ch!Messages
<1>4. topic' = topic \cup {m} /\ UNCHANGED <<handler, heard, publish, closing>>
  BY DEF Ch!Appear, Ch!readerVars, Ch!slotVars
<1>5. Ch!Range(heard)' = Ch!Range(heard)
  BY <1>4 DEF Ch!Range
<1> HIDE DEF m
<1>6. Ch!Contract!Appear(m)
  BY <1>3, <1>4, <1>5 DEF Ch!Contract!Appear
<1> QED
  BY <1>3, <1>6 DEF Ch!Contract!Next

LEMMA ContractStep ==
  ASSUME ChannelInv, Ch!Next
  PROVE  [Ch!Contract!Next]_Ch!Contract!vars
<1>0. LockInv /\ FlowInv
  BY InvParts
<1>1. CASE Ch!Setup \/ Ch!SetupStep
  BY <1>0, <1>1, ContractSetup
<1>2. CASE Ch!Close \/ Ch!CloseStep
  BY <1>0, <1>2, ContractClose
<1>3. CASE \E p \in Publishers : Ch!Publish(p) \/ Ch!Answered(p)
  BY <1>0, <1>3, ContractPublish
<1>4. CASE \E kind \in Ch!Kinds : Ch!Appear(kind)
  BY <1>0, <1>4, ContractAppears
<1>5. CASE Ch!ReaderHandsOver
  <2>1. reader = "handover" /\ Ch!HandOver(current) /\ UNCHANGED <<handler, topic, publish, closing>>
    BY <1>5 DEF Ch!ReaderHandsOver, Ch!connVars, Ch!slotVars
  <2>2. current \in Ch!Handling /\ current \in Ch!Taken
    BY <2>1 DEF Ch!Handling, Ch!Taken
  <2>3. Proto = "ntfy"
    BY <2>1, InvParts DEF FlowInv, Ch!WireOK, Proto
  <2>4. current \in Nat
    BY <1>0, <2>2, MessagesAreNumbers DEF FlowInv, FlowType, Ch!WireOK
  <2>5. current \notin Ch!Range(heard)
    BY <1>0, <2>2, <2>3, <2>4 DEF FlowInv, Ch!HeardOK, Ch!Range, Proto
  <2> QED
    BY <1>0, <2>1, <2>2, <2>5, ContractHears
<1>6. ASSUME NEW m \in tasks, Ch!MqttTask(m) PROVE [Ch!Contract!Next]_Ch!Contract!vars
  <2>1. Ch!HandOver(m) /\ UNCHANGED <<handler, topic, publish, closing>>
    BY <1>6 DEF Ch!MqttTask, Ch!connVars, Ch!slotVars
  <2>2. m \in Ch!Taken /\ m \notin Ch!Range(heard)
    BY <1>0, <1>6 DEF FlowInv, Ch!HeardOK, Ch!Taken
  <2> QED
    BY <1>0, <2>1, <2>2, ContractHears
<1>7. CASE Ch!ReaderShutsDown \/ Ch!ReaderSeesEnd \/ Ch!ReadFrame \/ Ch!Fetch \/ Ch!MqttCallback
           \/ Ch!ServerSubscribes \/ Ch!ServerCloses
  <2>1. UNCHANGED <<handler, topic, heard, publish, closing>>
    BY <1>7 DEF Ch!ReaderShutsDown, Ch!ReaderSeesEnd, Ch!ReaderEnds, Ch!ReadFrame, Ch!Fetch, Ch!MqttCallback,
                Ch!ServerSubscribes, Ch!ServerCloses, Ch!slotVars, Ch!connVars, Ch!readerVars
  <2> QED
    BY <2>1, ContractFrame
<1> QED
  BY <1>1, <1>2, <1>3, <1>4, <1>5, <1>6, <1>7 DEF Ch!Next, Ch!Reader

\* Whichever server is used and however setup, messages, publishes and close
\* interleave, the layer sees what ChannelContract promises: the handler is
\* called only after subscribe, with messages of the topic and never twice with
\* one, and a publish succeeds only between setup and teardown.
THEOREM Refinement == RendezvousSpec => RefinesContract
<1>1. RendezvousInit => Ch!Contract!Init
  BY DEF RendezvousInit, Ch!Init, Ch!Contract!Init, Ch!Range
<1>2. ChannelInv /\ [RendezvousNext]_<<vars, channelVars>> => [Ch!Contract!Next]_Ch!Contract!vars
  <2> SUFFICES ASSUME ChannelInv, [RendezvousNext]_<<vars, channelVars>>
               PROVE  [Ch!Contract!Next]_Ch!Contract!vars
    OBVIOUS
  <2>1. CASE UNCHANGED channelVars
    BY <2>1, ContractFrame DEF channelVars
  <2>2. CASE Ch!Next
    BY <2>2, ContractStep
  <2> QED
    BY <2>1, <2>2 DEF RendezvousNext
<1> QED
  BY <1>1, <1>2, Invariance, PTL DEF RendezvousSpec, RefinesContract, Ch!RefinesContract, Ch!Contract!Spec

-----------------------------------------------------------------------------
(***************************************************************************)
(* The wallet joins the dApp.  What a session holds of its URL can be      *)
(* written to a URL and read back.                                         *)
(***************************************************************************)
HandshakeKeys == {Hex(digits, FALSE) : digits \in {"generated", "fixed"}}
Writable(uri) ==
  /\ uri = [session_id |-> uri.session_id, key_hash |-> uri.key_hash, shared_key |-> uri.shared_key,
            protocol |-> uri.protocol, server |-> uri.server]
  /\ uri.key_hash \in HexHash /\ uri.shared_key \in HandshakeKeys
  /\ uri.protocol \in {Mqtt, Ntfy} /\ uri.server # None

\* A parameter that occurs once is found.
LEMMA ParamOnce ==
  ASSUME NEW v, NEW n \in Nat, n \in DOMAIN v.query,
         \A i \in DOMAIN v.query : v.query[i][1] = v.query[n][1] => i = n
  PROVE  Param(v, v.query[n][1]) = v.query[n][2]
<1> DEFINE at == {i \in DOMAIN v.query : v.query[i][1] = v.query[n][1]}
<1>1. at = {n}
  OBVIOUS
<1>2. (CHOOSE i \in at : \A j \in at : j <= i) = n
  BY <1>1
<1> QED
  BY <1>1, <1>2 DEF Param

\* The parameters of a URL that ToUrl wrote.
LEMMA ParamsWritten ==
  ASSUME NEW uri
  PROVE  /\ Param(ToUrl(uri), "h") = uri.key_hash
         /\ Param(ToUrl(uri), "k") = uri.shared_key
         /\ Param(ToUrl(uri), "p") = uri.protocol
         /\ Param(ToUrl(uri), "s") = uri.server
<1> DEFINE q == <<Pair("h", uri.key_hash), Pair("k", uri.shared_key), Pair("p", uri.protocol),
                  Pair("s", uri.server)>>
           v == ToUrl(uri)
<1>1. v.query = q
  BY DEF ToUrl
<1>2. DOMAIN q = 1..4
  OBVIOUS
<1>3. /\ q[1][1] = "h" /\ q[1][2] = uri.key_hash
      /\ q[2][1] = "k" /\ q[2][2] = uri.shared_key
      /\ q[3][1] = "p" /\ q[3][2] = uri.protocol
      /\ q[4][1] = "s" /\ q[4][2] = uri.server
  BY DEF Pair
<1> HIDE DEF q, v
<1>4. \A i, n \in 1..4 : q[i][1] = q[n][1] => i = n
  BY <1>3
<1>5. ASSUME NEW n \in 1..4
      PROVE  Param(v, q[n][1]) = q[n][2]
  BY <1>1, <1>2, <1>4, ParamOnce
<1> QED
  BY <1>3, <1>5 DEF v

\* A handshake key is read as it is written.
LEMMA HandshakeKeyRead ==
  ASSUME NEW key \in HandshakeKeys
  PROVE  FromHex(key) = key
<1>1. PICK digits \in {"generated", "fixed"} : key = Hex(digits, FALSE)
  BY DEF HandshakeKeys
<1>2. key.digits = digits /\ key # NotHex
  BY <1>1 DEF Hex, NotHex
<1> QED
  BY <1>1, <1>2 DEF FromHex

\* Writing and reading a URL gives back what was written, unless the id is not 16
\* URL-safe characters.
LEMMA RoundTrip ==
  ASSUME NEW uri, Writable(uri)
  PROVE  /\ uri.session_id \in {GeneratedId, FixedId} => FromUrl(ToUrl(uri)) = uri
         /\ uri.session_id \notin {GeneratedId, FixedId} => FromUrl(ToUrl(uri)) = Error("invalid uri")
<1> DEFINE v == ToUrl(uri)
<1>1. /\ v.scheme = "openlv" /\ v.id = uri.session_id /\ v.version = 1 /\ v.query # <<>>
  BY DEF ToUrl
<1>2. /\ Param(v, "h") = uri.key_hash /\ Param(v, "k") = uri.shared_key
      /\ Param(v, "p") = uri.protocol /\ Param(v, "s") = uri.server
  BY ParamsWritten
<1> HIDE DEF v
<1>3. FromHex(uri.shared_key) = uri.shared_key
  BY HandshakeKeyRead DEF Writable
<1>4. Protocol(uri.protocol) = uri.protocol /\ uri.protocol # None /\ uri.server # None
  BY JoiningAssumption DEF Writable, Protocol, Mqtt, Ntfy
<1>5. CASE uri.session_id \notin {GeneratedId, FixedId}
  BY <1>1, <1>5 DEF FromUrl, v
<1>6. CASE uri.session_id \in {GeneratedId, FixedId}
  <2>1. uri.key_hash \in HexHash /\ uri.shared_key \in {Hex(digits, FALSE) : digits \in {"generated", "fixed"}}
    BY DEF Writable, HandshakeKeys
  <2>2. FromUrl(v) = [session_id |-> v.id, key_hash |-> uri.key_hash, shared_key |-> uri.shared_key,
                      protocol |-> uri.protocol, server |-> uri.server]
    BY <1>1, <1>2, <1>3, <1>4, <1>6, <2>1 DEF FromUrl
  <2> QED
    BY <1>1, <1>6, <2>2 DEF Writable, v
<1> QED
  BY <1>5, <1>6
\* A channel is made only for the two protocols.
LEMMA ChannelMade ==
  ASSUME NEW p, NEW t, NEW s, ~IsError(CreateSignalingChannel(p, t, s))
  PROVE  p \in {Mqtt, Ntfy}
<1>1. IsError(Error("unsupported protocol"))
  BY DEF IsError, Error
<1> QED
  BY <1>1 DEF CreateSignalingChannel

\* A session that was built has a channel, and is the record it was built as.
LEMMA SessionBuilt ==
  ASSUME NEW uri, NEW is_host, NEW layer, ~IsError(BuildSession(uri, is_host, layer))
  PROVE  /\ ~IsError(layer.channel)
         /\ BuildSession(uri, is_host, layer) = [uri |-> uri, is_host |-> is_host, layer |-> layer]
BY DEF BuildSession

\* What a dApp's session is made of.
DappOK(d) ==
  /\ Writable(d.uri) /\ d.is_host = TRUE
  /\ d.uri.session_id \in {GeneratedId, FixedId, BadId}
  /\ d.uri.key_hash = Hash("dapp")
  /\ d.layer.handshake_key = d.uri.shared_key
  /\ d.layer.channel = CreateSignalingChannel(d.uri.protocol, d.uri.session_id, d.uri.server)
  /\ ~IsError(d.layer.channel)

LEMMA CreateSessionOK ==
  ASSUME NEW init, init.k \in {None} \cup HandshakeKeys, init.session_id \in {None, FixedId, BadId},
         ~IsError(CreateSession(init))
  PROVE  DappOK(CreateSession(init))
<1> DEFINE id    == OrElse(init.session_id, GeneratedId)
           key   == OrElse(init.k, Hex("generated", FALSE))
           hash  == InitHash(init.h, "dapp")
           proto == Protocol(OrElse(init.p, Ntfy))
           srv   == OrElse(init.s, DefaultServer)
           chan  == CreateSignalingChannel(proto, id, srv)
           uri   == [session_id |-> id, key_hash |-> Hash("dapp"), shared_key |-> key,
                     protocol |-> proto, server |-> srv]
           layer == [is_host |-> hash.is_host, h |-> hash.hash, handshake_key |-> key,
                     channel |-> chan, info |-> init.info]
<1>1. CreateSession(init) = BuildSession(uri, TRUE, layer)
  BY DEF CreateSession
<1>2. id \in {GeneratedId, FixedId, BadId}
  BY DEF OrElse
<1>3. key \in HandshakeKeys
  BY DEF OrElse, HandshakeKeys
<1>4. srv # None
  BY JoiningAssumption DEF OrElse
<1>5. Hash("dapp") \in HexHash
  BY DEF HexHash
<1> HIDE DEF id, key, hash, proto, srv
<1>6. layer.channel = chan /\ layer.handshake_key = key
  OBVIOUS
<1> HIDE DEF chan, layer
<1>7. ~IsError(chan) /\ CreateSession(init) = [uri |-> uri, is_host |-> TRUE, layer |-> layer]
  BY <1>1, <1>6, SessionBuilt
<1>8. proto \in {Mqtt, Ntfy}
  BY <1>7, ChannelMade DEF chan
<1>9. Writable(uri)
  BY <1>3, <1>4, <1>5, <1>8 DEF Writable
<1> QED
  BY <1>2, <1>6, <1>7, <1>9 DEF DappOK, chan

LEMMA CreateDappOK ==
  ASSUME NEW o \in Options, ~IsError(CreateDapp(o))
  PROVE  DappOK(CreateDapp(o))
<1> DEFINE key  == IF o.handshake_key = None THEN None ELSE FromHex(o.handshake_key)
           init == [session_id |-> o.session_id, h |-> None, k |-> key,
                    p |-> Protocol(OrElse(o.protocol, Ntfy)),
                    s |-> OrElse(o.server, DefaultServer), info |-> o.info]
<1>1. /\ o.session_id \in {None, FixedId, BadId}
      /\ o.handshake_key \in {None, Hex("fixed", FALSE), Hex("fixed", TRUE), NotHex}
  BY DEF Options
<1>2. IsError(Error("session"))
  BY DEF IsError, Error
<1>3. CreateDapp(o) = CreateSession(init) /\ ~(key # None /\ IsError(key))
  BY <1>2 DEF CreateDapp
<1>4. key \in {None} \cup HandshakeKeys
  <2>1. FromHex(NotHex) = Error("encryption") /\ IsError(Error("encryption"))
    BY DEF FromHex, IsError, Error
  <2>2. ASSUME NEW upper \in BOOLEAN PROVE FromHex(Hex("fixed", upper)) \in HandshakeKeys
    BY DEF FromHex, Hex, NotHex, HandshakeKeys
  <2> QED
    BY <1>1, <1>3, <2>1, <2>2
<1>5. init.k = key /\ init.session_id = o.session_id
  OBVIOUS
<1> HIDE DEF key, init
<1> QED
  BY <1>1, <1>3, <1>4, <1>5, CreateSessionOK

\* What a wallet's session is made of, whatever URL it was given.
LEMMA CreateWalletOK ==
  ASSUME NEW v, NEW info, ~IsError(CreateWallet(v, info))
  PROVE  LET uri     == FromUrl(v)
             is_host == InitHash(uri.key_hash, "wallet").is_host
         IN  /\ ~IsError(uri) /\ uri.protocol \in {Mqtt, Ntfy}
             /\ CreateWallet(v, info) = [uri |-> uri, is_host |-> is_host,
                                         layer |-> SignalingLayerFromVersion1(uri, is_host, info)]
<1> DEFINE uri     == FromUrl(v)
           is_host == InitHash(uri.key_hash, "wallet").is_host
           layer   == SignalingLayerFromVersion1(uri, is_host, info)
<1>1. IsError(Error("session"))
  BY DEF IsError, Error
<1>2. CreateWallet(v, info) = ConnectSession(v, info)
  BY <1>1 DEF CreateWallet
<1>3. ~IsError(uri) /\ ConnectSession(v, info) = BuildSession(uri, is_host, layer)
  BY <1>2 DEF ConnectSession
<1>4. layer.channel = CreateSignalingChannel(uri.protocol, uri.session_id, uri.server)
  BY DEF SignalingLayerFromVersion1
<1> HIDE DEF uri, is_host, layer
<1>5. ~IsError(layer.channel) /\ CreateWallet(v, info) = [uri |-> uri, is_host |-> is_host, layer |-> layer]
  BY <1>2, <1>3, SessionBuilt
<1>6. uri.protocol \in {Mqtt, Ntfy}
  BY <1>4, <1>5, ChannelMade
<1> QED
  BY <1>3, <1>5, <1>6 DEF uri, is_host, layer
\* What was read from a URL can be written again, with what a short URL left out.
LEMMA ReadIsWritable ==
  ASSUME NEW v, ~IsError(FromUrl(v)), FromUrl(v).protocol \in {Mqtt, Ntfy}
  PROVE  Writable(FromUrl(v)) /\ FromUrl(v).session_id \in {GeneratedId, FixedId}
<1> DEFINE h == Param(v, "h")
           k == Param(v, "k")
           p == Param(v, "p")
           s == Param(v, "s")
           proto == IF p = None THEN Mqtt ELSE Protocol(p)
           srv   == IF s = None THEN NoServer ELSE s
           uri == [session_id |-> v.id, key_hash |-> h, shared_key |-> FromHex(k),
                   protocol |-> proto, server |-> srv]
<1>1. IsError(Error("invalid uri"))
  BY DEF IsError, Error
<1>2. /\ FromUrl(v) = uri /\ v.id \in {GeneratedId, FixedId} /\ h \in HexHash
      /\ k \in {Hex(digits, FALSE) : digits \in {"generated", "fixed"}}
  BY <1>1 DEF FromUrl
<1>3. FromHex(k) \in HandshakeKeys
  BY <1>2, HandshakeKeyRead DEF HandshakeKeys
<1>4. srv # None
  BY JoiningAssumption
<1> HIDE DEF h, k, proto, srv
<1> QED
  BY <1>2, <1>3, <1>4 DEF Writable

\* The wallet read the dApp's URL, or one that no dApp wrote.
JoinOK ==
  /\ IsSession(dapp) => DappOK(dapp)
  /\ dapp = None => url = None
  /\ url = None => wallet = None
  /\ IsSession(dapp) /\ url # None => url = ToUrl(dapp.uri)
  /\ wallet # None => \E info \in Infos : wallet = CreateWallet(url, info)

LEMMA JoinStep ==
  ASSUME JoinOK, [Next]_vars
  PROVE  JoinOK'
<1>1. CASE StartDapp
  <2>1. dapp = None /\ url = None /\ wallet = None /\ url' = None /\ wallet' = None
    BY <1>1 DEF StartDapp, JoinOK
  <2>2. ASSUME IsSession(dapp') PROVE DappOK(dapp')
    <3>1. ASSUME NEW o \in Options, dapp' = CreateDapp(o) PROVE DappOK(dapp')
      BY <2>2, <3>1, CreateDappOK DEF IsSession
    <3>2. ASSUME NEW init \in Inits, dapp' = CreateSession(init) PROVE DappOK(dapp')
      <4>1. init.k \in {None} \cup HandshakeKeys /\ init.session_id \in {None, FixedId, BadId}
        BY DEF Inits
      <4> QED
        BY <2>2, <3>2, <4>1, CreateSessionOK DEF IsSession
    <3> QED
      BY <1>1, <3>1, <3>2 DEF StartDapp
  <2>3. (IsSession(dapp) => DappOK(dapp))'
    BY <2>2 DEF IsSession, DappOK
  <2> QED
    BY <2>1, <2>3 DEF JoinOK
<1>2. CASE GiveUrl
  <2>1. url = None /\ dapp # None /\ wallet = None /\ dapp' = dapp /\ wallet' = None
    BY <1>2 DEF GiveUrl, JoinOK
  <2>2. IsSession(dapp) => url' = ToUrl(dapp.uri)
    BY <1>2 DEF GiveUrl, IsSession
  <2>3. (IsSession(dapp) => DappOK(dapp))' /\ (IsSession(dapp) => url = ToUrl(dapp.uri))'
    BY <2>1, <2>2 DEF JoinOK, IsSession, DappOK
  <2> QED
    BY <2>1, <2>3 DEF JoinOK
<1>3. CASE StartWallet
  <2>1. url # None /\ dapp' = dapp /\ url' = url /\ \E info \in Infos : wallet' = CreateWallet(url, info)
    BY <1>3 DEF StartWallet
  <2> QED
    BY <2>1 DEF JoinOK, IsSession, DappOK
<1>4. CASE UNCHANGED vars
  BY <1>4 DEF JoinOK, vars, IsSession, DappOK
<1> QED
  BY <1>1, <1>2, <1>3, <1>4 DEF Next

\* Host and client choose the same transport.
LEMMA TransportAgreed ==
  ASSUME NEW a, NEW b
  PROVE  SelectTransportId(TRUE, a, b) = SelectTransportId(FALSE, b, a)
BY DEF SelectTransportId

\* The invariant and the round trip give what is claimed of the wallet.
LEMMA JoinMeets ==
  ASSUME JoinOK
  PROVE  WalletJoins
<1>1. ASSUME IsSession(wallet) PROVE FromUrl(ToUrl(wallet.uri)) = wallet.uri
  <2>1. PICK info \in Infos : wallet = CreateWallet(url, info)
    BY <1>1 DEF JoinOK, IsSession
  <2>2. ~IsError(CreateWallet(url, info))
    BY <1>1, <2>1 DEF IsSession
  <2>3. wallet.uri = FromUrl(url) /\ ~IsError(FromUrl(url)) /\ FromUrl(url).protocol \in {Mqtt, Ntfy}
    BY <2>1, <2>2, CreateWalletOK
  <2> QED
    BY <2>3, ReadIsWritable, RoundTrip
<1>2. ASSUME IsSession(dapp), dapp.layer.is_host, wallet # None, IsError(wallet)
      PROVE  wallet = Error("session") \/ dapp.uri.session_id = BadId
  <2>1. PICK info \in Infos : wallet = CreateWallet(url, info)
    BY <1>2 DEF JoinOK
  <2>2. CASE info = "invalid"
    BY <2>1, <2>2 DEF CreateWallet
  <2>3. CASE info # "invalid"
    <3> SUFFICES ASSUME dapp.uri.session_id \in {GeneratedId, FixedId} PROVE FALSE
      BY <1>2 DEF JoinOK, DappOK
    <3>1. FromUrl(url) = dapp.uri
      BY <1>2, RoundTrip DEF JoinOK, DappOK
    <3> DEFINE uri     == dapp.uri
               is_host == InitHash(uri.key_hash, "wallet").is_host
               layer   == SignalingLayerFromVersion1(uri, is_host, info)
    <3>2. ~IsError(uri)
      BY <1>2 DEF JoinOK, DappOK, Writable, IsError
    <3>3. layer.channel = dapp.layer.channel /\ ~IsError(layer.channel)
      BY <1>2 DEF JoinOK, DappOK, SignalingLayerFromVersion1
    <3>4. wallet = BuildSession(uri, is_host, layer)
      BY <2>1, <2>3, <3>1, <3>2 DEF CreateWallet, ConnectSession
    <3> HIDE DEF uri, is_host, layer
    <3>5. wallet = [uri |-> uri, is_host |-> is_host, layer |-> layer]
      BY <3>3, <3>4 DEF BuildSession
    <3> QED
      BY <1>2, <3>5 DEF IsError
  <2> QED
    BY <2>2, <2>3
<1>3. ASSUME IsSession(dapp), dapp.layer.is_host, wallet # None, ~IsError(wallet)
      PROVE  /\ Meets(dapp, wallet)
             /\ \A a, b \in TransportLists :
                  SelectTransportId(dapp.is_host, a, b) = SelectTransportId(wallet.is_host, b, a)
  <2>1. PICK info \in Infos : wallet = CreateWallet(url, info)
    BY <1>3 DEF JoinOK
  <2> DEFINE uri     == FromUrl(url)
             is_host == InitHash(uri.key_hash, "wallet").is_host
             layer   == SignalingLayerFromVersion1(uri, is_host, info)
  <2>2. ~IsError(uri) /\ wallet = [uri |-> uri, is_host |-> is_host, layer |-> layer]
    BY <1>3, <2>1, CreateWalletOK
  <2>3. uri = dapp.uri
    <3>1. IsError(Error("invalid uri"))
      BY DEF IsError, Error
    <3>2. DappOK(dapp) /\ url = ToUrl(dapp.uri)
      BY <1>3 DEF JoinOK
    <3> QED
      BY <2>2, <3>1, <3>2, RoundTrip DEF DappOK
  <2>4. DappOK(dapp)
    BY <1>3 DEF JoinOK
  <2>5. is_host = FALSE
    <3>1. Hash("dapp") # None /\ Hash("dapp") # Hash("wallet")
      BY JoiningAssumption DEF HexHash, Hash
    <3> QED
      BY <2>3, <2>4, <3>1 DEF InitHash, DappOK
  <2>6. /\ layer.channel = dapp.layer.channel /\ layer.handshake_key = dapp.layer.handshake_key
        /\ layer.h = Hash("dapp") /\ layer.is_host = FALSE
    BY <2>3, <2>4, <2>5 DEF SignalingLayerFromVersion1, DappOK
  <2> HIDE DEF uri, is_host, layer
  <2>7. wallet.is_host = FALSE /\ wallet.layer = layer
    BY <2>2, <2>5
  <2>8. Meets(dapp, wallet)
    BY <1>3, <2>4, <2>6, <2>7 DEF Meets, DappOK
  <2>9. ASSUME NEW a, NEW b
        PROVE  SelectTransportId(dapp.is_host, a, b) = SelectTransportId(wallet.is_host, b, a)
    <3>1. dapp.is_host = TRUE /\ wallet.is_host = FALSE
      BY <2>4, <2>7 DEF DappOK
    <3> QED
      BY <3>1, TransportAgreed
  <2> QED
    BY <2>8, <2>9
<1> QED
  BY <1>1, <1>2, <1>3 DEF WalletJoins

\* A wallet that scans the URL of a dApp meets it on one topic of one server, with
\* one handshake key, and both know who is the host; and a wallet that accepts a
\* URL, whoever wrote it, can pass its session on.
THEOREM WalletsJoin == RendezvousSpec => []WalletJoins
<1>1. RendezvousInit => JoinOK
  BY DEF RendezvousInit, Init, JoinOK, IsSession
<1>2. JoinOK /\ [RendezvousNext]_<<vars, channelVars>> => JoinOK'
  BY JoinStep DEF RendezvousNext, vars
<1>3. JoinOK => WalletJoins
  BY JoinMeets
<1> QED
  BY <1>1, <1>2, <1>3, PTL DEF RendezvousSpec
===============================================================================
