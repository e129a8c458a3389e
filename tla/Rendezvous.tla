------------------------------ MODULE Rendezvous ------------------------------
(***************************************************************************)
(* A wallet and a dApp on their way to one topic: module Joining until     *)
(* both have a session, then module Channel, which is the signaling        *)
(* channel of one of the two.                                              *)
(***************************************************************************)
EXTENDS Joining

CONSTANTS Publishers, MaxMessages

ASSUME RendezvousAssumption ==
  /\ MaxMessages \in Nat
  /\ None \notin Publishers /\ {"setup", "teardown"} \cap (Publishers \cup {None}) = {}

VARIABLES setup, lock, conn, shutdown, ready, client, handler, reader, current, wire, tasks, topic,
          heard, publish, closing

channelVars == <<setup, lock, conn, shutdown, ready, client, handler, reader, current, wire, tasks,
                 topic, heard, publish, closing>>

\* Both are made of one URL (WalletJoins), so it does not matter whose this is.
Ch == INSTANCE Channel WITH
  protocol <- IF IsSession(dapp) THEN dapp.layer.channel.protocol ELSE "ntfy"

\* Bound: channels are followed for a session with the defaults and for one over
\* MQTT.
Plain(p, s) ==
  CreateSession([session_id |-> None, h |-> None, k |-> None, p |-> p, s |-> s, info |-> None])
Followed == {Plain(None, None), Plain(Mqtt, MqttServer)}

Joined == IsSession(wallet) /\ wallet.layer.info = None /\ dapp \in Followed

RendezvousInit == Init /\ Ch!Init

RendezvousNext ==
  \/ Next /\ UNCHANGED channelVars
  \/ Joined /\ Ch!Next /\ UNCHANGED vars

RendezvousSpec == RendezvousInit /\ [][RendezvousNext]_<<vars, channelVars>>

\* The steps that Ch!Fairness speaks of are not enabled before Joined.
FairRendezvousSpec == RendezvousSpec /\ Ch!Fairness

-----------------------------------------------------------------------------
\* The type invariant of the channel and what its mutex protects.
ChannelInv == Ch!Inv

\* Both channels keep the promise to the layer: see ChannelContract.
RefinesContract == Ch!RefinesContract

\* setup and close of a channel return, and nothing is left running: see Channel.
ChannelSettles == Ch!ChannelSettles
=============================================================================
