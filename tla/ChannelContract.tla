--------------------------- MODULE ChannelContract ---------------------------
(***************************************************************************)
(* What the signaling layer is promised by a SignalingChannel              *)
(* (crates/openlv/src/signaling/channel.rs), whichever server is behind    *)
(* it: the layer's handler is called only after subscribe, with messages   *)
(* that were published on the topic and once with each, though some may    *)
(* never come; a publish succeeds only between setup and teardown.  The    *)
(* handler may still be called after teardown.                             *)
(***************************************************************************)
CONSTANTS Messages, Publishers

VARIABLES
  opened,    \* setup and subscribe have succeeded
  torn,      \* teardown has returned
  topic,     \* messages published on the topic
  heard,     \* messages given to the handler
  accepted   \* publishes that succeeded

vars == <<opened, torn, topic, heard, accepted>>

Init ==
  /\ opened = FALSE /\ torn = FALSE
  /\ topic = {} /\ heard = {} /\ accepted = {}

Open ==
  /\ ~opened /\ ~torn
  /\ opened' = TRUE
  /\ UNCHANGED <<torn, topic, heard, accepted>>

Teardown ==
  /\ ~torn
  /\ torn' = TRUE
  /\ UNCHANGED <<opened, topic, heard, accepted>>

Appear(m) ==
  /\ m \notin topic
  /\ topic' = topic \cup {m}
  /\ UNCHANGED <<opened, torn, heard, accepted>>

Hear(m) ==
  /\ opened /\ m \in topic \ heard
  /\ heard' = heard \cup {m}
  /\ UNCHANGED <<opened, torn, topic, accepted>>

Publish(p) ==
  /\ opened /\ ~torn
  /\ accepted' = accepted \cup {p}
  /\ UNCHANGED <<opened, torn, topic, heard>>

Next ==
  \/ Open \/ Teardown
  \/ \E m \in Messages : Appear(m) \/ Hear(m)
  \/ \E p \in Publishers : Publish(p)

Spec == Init /\ [][Next]_vars
=============================================================================
