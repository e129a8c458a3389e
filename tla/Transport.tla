------------------------------ MODULE Transport ------------------------------
(***************************************************************************)
(* The transport of a session from the handshake to its teardown: module   *)
(* Negotiation until the channel opens on both sides, then module          *)
(* DataChannel on one of them.                                             *)
(***************************************************************************)
EXTENDS Negotiation

CONSTANTS Frames, Waiters, StateCapacity, EventCapacity, MaxReceived

ASSUME TransportAssumption ==
  /\ {"Close", None} \cap Frames = {} /\ None # "Close"
  /\ StateCapacity \in Nat \ {0} /\ EventCapacity \in Nat \ {0} /\ MaxReceived \in Nat

VARIABLES state, data_channel, holder, unflushed, rtc, reported, buffered, channel_events,
          poller, inbound, received, at, teardown, waiter, history

DC == INSTANCE DataChannel

negotiationVars == <<vars, faults>>
channelVars == <<state, data_channel, holder, unflushed, rtc, reported, buffered, channel_events,
                 poller, inbound, received, at, teardown, waiter, history>>

\* Bound: the data channel is followed once the negotiation has come to rest
\* without a fault.  (A close that comes earlier finds the channel as Negotiation
\* leaves it: stored on the host, not yet stored on the client.)
Negotiated ==
  /\ connected /\ faults = {} /\ net = {}
  /\ \A s \in Sides :
       /\ events[s] = <<>> /\ inbox[s] = <<>> /\ handling[s] = "idle" /\ gathered[s] = Candidates

TransportInit == Init /\ DC!Init

TransportNext ==
  \/ Next /\ UNCHANGED channelVars
  \/ Negotiated /\ DC!Next /\ UNCHANGED negotiationVars

TransportSpec == TransportInit /\ [][TransportNext]_<<negotiationVars, channelVars>>

\* The steps that DC!Fairness speaks of are not enabled before Negotiated.
FairTransportSpec == TransportSpec /\ Fairness /\ DC!Fairness

-----------------------------------------------------------------------------
\* The type invariants and the parts that make them inductive.
TransportInv == Inv /\ DC!Inv

\* The goodbye leaves, or the flush was given its time: see DataChannel.
CloseFlushed == DC!CloseFlushed

\* close ends, also when the buffer is never sent.
TeardownEnds == DC!TeardownEnds

\* wait_for(Connected) returns while the transport is connected.
WaitForReturns == DC!WaitForReturns
=============================================================================
