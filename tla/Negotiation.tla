----------------------------- MODULE Negotiation -----------------------------
(***************************************************************************)
(* How the two transports find each other: setup and handle of             *)
(* crates/openlv/src/transport/webrtc.rs, and the loops of session/mod.rs  *)
(* that carry their messages over signaling.                               *)
(*                                                                         *)
(* Each side gathers candidates as soon as it has a local description, so  *)
(* they may overtake the offer or the answer.  Signaling starts a task for *)
(* every frame and keeps no order.  The handshake is over on the client    *)
(* before it is over on the host (Signaling!HostCompletesLast).            *)
(***************************************************************************)
EXTENDS Naturals, Sequences

CONSTANTS
  Candidates,  \* candidates each side gathers
  None         \* Rust's Option::None

Sides == {"host", "client"}
Peer(s) == IF s = "host" THEN "client" ELSE "host"

ASSUME NegotiationAssumption == None \notin Candidates

VARIABLES
  encrypted,           \* signaling is encrypted on that side
  setup,               \* where setup is: "none" up to "stored", or "failed"
  local,               \* a local description is set
  remote,              \* a remote description is set
  gathered,            \* candidates WebRTC reported on that side
  events,              \* TransportEvents the session has not relayed
  net,                 \* frames on their way
  inbox,               \* messages run_signal_message_loop has not handled
  handling,            \* where the message loop is, inside handle
  pending_candidates,  \* candidates that wait for a remote description
  added,               \* candidates of the peer given to WebRTC
  handled,             \* history: candidates handled once a connection was stored
  connected,           \* the data channel is open
  faults               \* history: "lost" (a message or a setup), "refused" (by WebRTC)

vars == <<encrypted, setup, local, remote, gathered, events, net, inbox, handling,
          pending_candidates, added, handled, connected>>
candidateVars == <<pending_candidates, added, handled>>

Offer        == [type |-> "offer", payload |-> None]
Answer       == [type |-> "answer", payload |-> None]
Candidate(k) == [type |-> "candidate", payload |-> k]

Emit(s, m) == events' = [events EXCEPT ![s] = Append(@, m)]

-----------------------------------------------------------------------------
(***************************************************************************)
(* setup, when the signal loop sees Encrypted.                             *)
(***************************************************************************)
BecomesEncrypted(s) ==
  /\ ~encrypted[s] /\ (s = "host" => encrypted["client"])
  /\ encrypted' = [encrypted EXCEPT ![s] = TRUE]
  /\ setup' = [setup EXCEPT ![s] = "building"]
  /\ UNCHANGED <<local, remote, gathered, events, net, inbox, handling, candidateVars, connected>>

\* Host: create the data channel and the offer, set the local description ...
DescribeOffer ==
  /\ setup["host"] = "building"
  /\ local' = [local EXCEPT !["host"] = TRUE]
  /\ setup' = [setup EXCEPT !["host"] = "described"]
  /\ UNCHANGED <<encrypted, remote, gathered, events, net, inbox, handling, candidateVars, connected>>

\* ... and hand the offer to the session.
SendOffer ==
  /\ setup["host"] = "described"
  /\ Emit("host", Offer)
  /\ setup' = [setup EXCEPT !["host"] = "offered"]
  /\ UNCHANGED <<encrypted, local, remote, gathered, net, inbox, handling, candidateVars, connected>>

StorePeerConnection(s) ==
  /\ setup[s] = IF s = "host" THEN "offered" ELSE "building"
  /\ setup' = [setup EXCEPT ![s] = "stored"]
  /\ UNCHANGED <<encrypted, local, remote, gathered, events, net, inbox, handling, candidateVars,
                 connected>>

\* setup returns an error before anything is stored.
SetupFails(s) ==
  /\ setup[s] \in {"building", "described"}
  /\ setup' = [setup EXCEPT ![s] = "failed"]
  /\ UNCHANGED <<encrypted, local, remote, gathered, events, net, inbox, handling, candidateVars,
                 connected>>

\* on_ice_candidate.
Gather(s, k) ==
  /\ local[s] /\ k \notin gathered[s]
  /\ gathered' = [gathered EXCEPT ![s] = @ \cup {k}]
  /\ Emit(s, Candidate(k))
  /\ UNCHANGED <<encrypted, setup, local, remote, net, inbox, handling, candidateVars, connected>>

-----------------------------------------------------------------------------
(***************************************************************************)
(* The way over signaling.                                                 *)
(***************************************************************************)
\* run_transport_event_loop and relay_negotiation.
Relay(s) ==
  /\ events[s] # <<>>
  /\ events' = [events EXCEPT ![s] = Tail(@)]
  /\ net' = net \cup {<<Peer(s), Head(events[s])>>}
  /\ UNCHANGED <<encrypted, setup, local, remote, gathered, inbox, handling, candidateVars, connected>>

\* handle_receive of the signaling layer: data is passed on in encrypted mode.
Arrive(s, m) ==
  /\ <<s, m>> \in net
  /\ net' = net \ {<<s, m>>}
  /\ inbox' = IF encrypted[s] THEN [inbox EXCEPT ![s] = Append(@, m)] ELSE inbox
  /\ UNCHANGED <<encrypted, setup, local, remote, gathered, events, handling, candidateVars, connected>>

Lose(s, m) ==
  /\ <<s, m>> \in net
  /\ net' = net \ {<<s, m>>}
  /\ UNCHANGED <<encrypted, setup, local, remote, gathered, events, inbox, handling, candidateVars,
                 connected>>

-----------------------------------------------------------------------------
(***************************************************************************)
(* handle, called by run_signal_message_loop one message at a time.        *)
(***************************************************************************)
Take(s, type) ==
  /\ handling[s] = "idle" /\ inbox[s] # <<>> /\ Head(inbox[s]).type = type
  /\ inbox' = [inbox EXCEPT ![s] = Tail(@)]

\* "peer connection not found": the message is dropped.
HandleTooEarly(s) ==
  /\ \E type \in {"offer", "answer", "candidate"} : Take(s, type)
  /\ setup[s] # "stored"
  /\ UNCHANGED <<encrypted, setup, local, remote, gathered, events, net, handling, candidateVars,
                 connected>>

\* Mutant: an answer does not flush the candidates that came before it.
NoFlushOnAnswer(s) ==
  /\ setup[s] = "stored"
  /\ \/ Take(s, "offer") /\ handling' = [handling EXCEPT ![s] = "flush offer"]
     \/ Take(s, "answer") /\ UNCHANGED handling
  /\ remote' = [remote EXCEPT ![s] = TRUE]
  /\ UNCHANGED <<encrypted, setup, local, gathered, events, net, candidateVars, connected>>

\* An offer or an answer: set_remote_description.
HandleDescription(s) ==
  /\ setup[s] = "stored"
  /\ \/ Take(s, "offer") /\ handling' = [handling EXCEPT ![s] = "flush offer"]
     \/ Take(s, "answer") /\ handling' = [handling EXCEPT ![s] = "flush answer"]
  /\ remote' = [remote EXCEPT ![s] = TRUE]
  /\ UNCHANGED <<encrypted, setup, local, gathered, events, net, candidateVars, connected>>

\* flush_pending_candidates.
FlushPendingCandidates(s) ==
  /\ handling[s] \in {"flush offer", "flush answer"}
  /\ added' = [added EXCEPT ![s] = @ \cup pending_candidates[s]]
  /\ pending_candidates' = [pending_candidates EXCEPT ![s] = {}]
  /\ handling' = [handling EXCEPT ![s] = IF @ = "flush offer" THEN "answer" ELSE "idle"]
  /\ UNCHANGED <<encrypted, setup, local, remote, gathered, events, net, inbox, handled, connected>>

\* A pending candidate is refused: the ones after it are lost, handle returns
\* the error and an offer stays unanswered.
FlushFails(s) ==
  /\ handling[s] \in {"flush offer", "flush answer"} /\ pending_candidates[s] # {}
  /\ \E K \in SUBSET pending_candidates[s] \ {pending_candidates[s]} :
       added' = [added EXCEPT ![s] = @ \cup K]
  /\ pending_candidates' = [pending_candidates EXCEPT ![s] = {}]
  /\ handling' = [handling EXCEPT ![s] = "idle"]
  /\ UNCHANGED <<encrypted, setup, local, remote, gathered, events, net, inbox, handled, connected>>

\* A description is refused before the flush, or no answer can be made after it.
DescriptionFails(s) ==
  /\ \/ /\ setup[s] = "stored"
        /\ Take(s, "offer") \/ Take(s, "answer")
        /\ UNCHANGED handling
     \/ /\ handling[s] = "answer"
        /\ handling' = [handling EXCEPT ![s] = "idle"]
        /\ UNCHANGED inbox
  /\ UNCHANGED <<encrypted, setup, local, remote, gathered, events, net, candidateVars, connected>>

\* Client: set the local description, then hand the answer to the session.
DescribeAnswer(s) ==
  /\ handling[s] = "answer"
  /\ local' = [local EXCEPT ![s] = TRUE]
  /\ handling' = [handling EXCEPT ![s] = "send"]
  /\ UNCHANGED <<encrypted, setup, remote, gathered, events, net, inbox, candidateVars, connected>>

SendAnswer(s) ==
  /\ handling[s] = "send"
  /\ Emit(s, Answer)
  /\ handling' = [handling EXCEPT ![s] = "idle"]
  /\ UNCHANGED <<encrypted, setup, local, remote, gathered, net, inbox, candidateVars, connected>>

\* Mutant: a candidate that comes before the description is not kept.
HandleCandidateNow(s) ==
  /\ Take(s, "candidate") /\ setup[s] = "stored"
  /\ LET k == Head(inbox[s]).payload IN
     /\ handled' = [handled EXCEPT ![s] = @ \cup {k}]
     /\ added' = IF remote[s] THEN [added EXCEPT ![s] = @ \cup {k}] ELSE added
  /\ UNCHANGED <<encrypted, setup, local, remote, gathered, events, net, handling,
                 pending_candidates, connected>>

\* Mutant: the remote description is not looked at.
HandleCandidateEarly(s) ==
  /\ Take(s, "candidate") /\ setup[s] = "stored"
  /\ LET k == Head(inbox[s]).payload IN
     /\ handled' = [handled EXCEPT ![s] = @ \cup {k}]
     /\ added' = [added EXCEPT ![s] = @ \cup {k}]
  /\ UNCHANGED <<encrypted, setup, local, remote, gathered, events, net, handling,
                 pending_candidates, connected>>

HandleCandidate(s) ==
  /\ Take(s, "candidate") /\ setup[s] = "stored"
  /\ LET k == Head(inbox[s]).payload IN
     /\ handled' = [handled EXCEPT ![s] = @ \cup {k}]
     /\ \/ remote[s] /\ added' = [added EXCEPT ![s] = @ \cup {k}] /\ UNCHANGED pending_candidates
        \/ /\ ~remote[s]
           /\ pending_candidates' = [pending_candidates EXCEPT ![s] = @ \cup {k}]
           /\ UNCHANGED added
  /\ UNCHANGED <<encrypted, setup, local, remote, gathered, events, net, handling, connected>>

\* add_ice_candidate returns an error.
CandidateFails(s) ==
  /\ Take(s, "candidate") /\ setup[s] = "stored" /\ remote[s]
  /\ UNCHANGED <<encrypted, setup, local, remote, gathered, events, net, handling, candidateVars,
                 connected>>

\* WebRTC connects once the descriptions are exchanged and one side can reach
\* a candidate of the other.
ChannelOpens ==
  /\ ~connected
  /\ \A s \in Sides : local[s] /\ remote[s]
  /\ \E s \in Sides : added[s] # {}
  /\ connected' = TRUE
  /\ UNCHANGED <<encrypted, setup, local, remote, gathered, events, net, inbox, handling,
                 candidateVars>>

-----------------------------------------------------------------------------
Init ==
  /\ encrypted = [s \in Sides |-> FALSE]
  /\ setup = [s \in Sides |-> "none"]
  /\ local = [s \in Sides |-> FALSE]
  /\ remote = [s \in Sides |-> FALSE]
  /\ gathered = [s \in Sides |-> {}]
  /\ events = [s \in Sides |-> <<>>]
  /\ net = {}
  /\ inbox = [s \in Sides |-> <<>>]
  /\ handling = [s \in Sides |-> "idle"]
  /\ pending_candidates = [s \in Sides |-> {}]
  /\ added = [s \in Sides |-> {}]
  /\ handled = [s \in Sides |-> {}]
  /\ connected = FALSE
  /\ faults = {}

Setup(s) ==
  \/ BecomesEncrypted(s) \/ StorePeerConnection(s)
  \/ s = "host" /\ (DescribeOffer \/ SendOffer)

MessageLoop(s) ==
  \/ HandleDescription(s) \/ HandleCandidate(s)
  \/ FlushPendingCandidates(s) \/ DescribeAnswer(s) \/ SendAnswer(s)

Progress ==
  \/ \E s \in Sides : Setup(s) \/ Relay(s) \/ MessageLoop(s) \/ \E k \in Candidates : Gather(s, k)
  \/ \E m \in net : Arrive(m[1], m[2])
  \/ ChannelOpens

Lost ==
  \/ \E s \in Sides : SetupFails(s) \/ HandleTooEarly(s)
  \/ \E m \in net : Lose(m[1], m[2])

Refused == \E s \in Sides : FlushFails(s) \/ DescriptionFails(s) \/ CandidateFails(s)

Next ==
  \/ Progress /\ UNCHANGED faults
  \/ Lost /\ faults' = faults \cup {"lost"}
  \/ Refused /\ faults' = faults \cup {"refused"}

Spec == Init /\ [][Next]_<<vars, faults>>

\* Tasks run, WebRTC gathers and connects, and frames that are not lost arrive.
Fairness ==
  /\ \A s \in Sides :
       /\ WF_vars(Setup(s) \/ SetupFails(s)) /\ WF_vars(Relay(s))
       /\ WF_vars(MessageLoop(s) \/ HandleTooEarly(s))
       /\ \A k \in Candidates : WF_vars(Gather(s, k)) /\ WF_vars(Arrive(s, Candidate(k)))
       /\ WF_vars(Arrive(s, Offer)) /\ WF_vars(Arrive(s, Answer))
  /\ WF_vars(ChannelOpens)

FairSpec == Spec /\ Fairness

-----------------------------------------------------------------------------
Messages == {Offer, Answer} \cup {Candidate(k) : k \in Candidates}

\* The type invariant.
TypeOK ==
  /\ encrypted \in [Sides -> BOOLEAN]
  /\ setup \in [Sides -> {"none", "building", "described", "offered", "stored", "failed"}]
  /\ local \in [Sides -> BOOLEAN] /\ remote \in [Sides -> BOOLEAN]
  /\ gathered \in [Sides -> SUBSET Candidates]
  /\ events \in [Sides -> Seq(Messages)] /\ inbox \in [Sides -> Seq(Messages)]
  /\ net \subseteq Sides \X Messages
  /\ handling \in [Sides -> {"idle", "flush offer", "flush answer", "answer", "send"}]
  /\ pending_candidates \in [Sides -> SUBSET Candidates]
  /\ added \in [Sides -> SUBSET Candidates] /\ handled \in [Sides -> SUBSET Candidates]
  /\ connected \in BOOLEAN
  /\ faults \subseteq {"lost", "refused"}

\* A candidate that reached a side with a peer connection is never lost or
\* stuck, whichever of candidate, offer and answer overtakes which: it is given to
\* WebRTC, or waits for a description that is not there yet.  (Once WebRTC refused
\* one it may be lost: a flush gives up on the rest.)
CandidatesKept ==
  \A s \in Sides :
    /\ "refused" \notin faults => handled[s] \subseteq added[s] \cup pending_candidates[s]
    /\ remote[s] /\ handling[s] = "idle" => pending_candidates[s] = {}

\* Both transports connect, in whatever order frames arrive, unless one is lost
\* or comes before its peer connection is stored, or WebRTC fails.
NegotiationCompletes == encrypted["host"] ~> (connected \/ faults # {})

-----------------------------------------------------------------------------
(***************************************************************************)
(* The inductive invariant: WebRTC is given a candidate only when it has   *)
(* the peer's description, and what a side has of the other's candidates,  *)
(* or is about to get, the other gathered.                                 *)
(***************************************************************************)
DescribedFirst ==
  \A s \in Sides :
    /\ setup[s] # "none" \/ remote[s] \/ local[s] => encrypted[s]
    /\ handling[s] # "idle" => remote[s] /\ setup[s] = "stored"
    /\ handling[s] \in {"answer", "send"} => pending_candidates[s] = {}
    /\ added[s] # {} => remote[s]

\* A candidate named by m, if m is one, was gathered by s.
Traced(m, s) == m.type = "candidate" => m.payload \in gathered[s]

CandidatesTraced ==
  /\ \A s \in Sides :
       /\ handled[s] \cup added[s] \cup pending_candidates[s] \subseteq gathered[Peer(s)]
       /\ \A i \in DOMAIN events[s] : Traced(events[s][i], s)
       /\ \A i \in DOMAIN inbox[s] : Traced(inbox[s][i], Peer(s))
  /\ \A m \in net : Traced(m[2], Peer(m[1]))

Inv == TypeOK /\ CandidatesKept /\ DescribedFirst /\ CandidatesTraced
=============================================================================
