------------------------------- MODULE Pairing -------------------------------
(***************************************************************************)
(* What the signaling handshake promises, without frames or tasks: a dApp  *)
(* (host) binds itself to one wallet (client) for good, a wallet belongs   *)
(* to one dApp only, a wallet is linked only while a dApp is bound to it,  *)
(* and the dApp is linked after its wallet.                                *)
(***************************************************************************)
CONSTANTS Hosts, Clients, None

VARIABLES
  bound,   \* bound[h]: the client host h is bound to, or None
  linked   \* the peers that completed the handshake

vars == <<bound, linked>>

Init ==
  /\ bound = [h \in Hosts |-> None]
  /\ linked = {}

Bind(h, c) ==
  /\ bound[h] = None
  /\ \A g \in Hosts : bound[g] # c
  /\ bound' = [bound EXCEPT ![h] = c]
  /\ UNCHANGED linked

ClientLinks(h, c) ==
  /\ bound[h] = c
  /\ c \notin linked
  /\ linked' = linked \cup {c}
  /\ UNCHANGED bound

HostLinks(h, c) ==
  /\ bound[h] = c /\ c \in linked
  /\ h \notin linked
  /\ linked' = linked \cup {h}
  /\ UNCHANGED bound

Next == \E h \in Hosts, c \in Clients :
  \/ Bind(h, c)
  \/ ClientLinks(h, c)
  \/ HostLinks(h, c)

Spec == Init /\ [][Next]_vars
=============================================================================
