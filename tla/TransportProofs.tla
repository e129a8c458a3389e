--------------------------- MODULE TransportProofs ---------------------------
(***************************************************************************)
(* Proofs about the transport of a session: the negotiation, for any set   *)
(* of candidates, and the data channel, for any frames, callers of         *)
(* wait_for and capacities.                                                *)
(*                                                                         *)
(* The argument for the negotiation: candidates are kept aside only while  *)
(* there is no remote description, and whoever sets the description is     *)
(* inside handle until the flush.  For the data channel: the slot is       *)
(* locked from send_text to the write of `unflushed`, so a Close frame in  *)
(* the buffer is one that teardown knows of.                               *)
(***************************************************************************)
EXTENDS Transport, SequenceLemmas, TLAPS

\* A step of the negotiation only ever adds to the faults.
FaultsGrow == faults \subseteq faults' /\ faults' \subseteq {"lost", "refused"}

\* The two sides.
LEMMA PeerFacts == \A s \in Sides : Peer(s) \in Sides /\ Peer(Peer(s)) = s /\ Peer(s) # s
BY DEF Sides, Peer

\* A candidate is named by the messages of that type.
LEMMA MessageFacts ==
  ASSUME NEW m \in Messages
  PROVE  /\ m.type \in {"offer", "answer", "candidate"}
         /\ m.type = "candidate" => m.payload \in Candidates
BY DEF Messages, Offer, Answer, Candidate

\* Offers, answers and candidates are messages.
LEMMA MessageTypes ==
  /\ Offer \in Messages /\ Offer.type = "offer"
  /\ Answer \in Messages /\ Answer.type = "answer"
  /\ \A k \in Candidates :
       Candidate(k) \in Messages /\ Candidate(k).payload = k
BY DEF Messages, Offer, Answer, Candidate

\* setup of one side, up to the stored peer connection, and the local
\* description an answer needs.
LEMMA SetupInv ==
  ASSUME Inv, FaultsGrow, NEW s \in Sides,
         BecomesEncrypted(s) \/ (s = "host" /\ DescribeOffer) \/ StorePeerConnection(s) \/ SetupFails(s)
           \/ DescribeAnswer(s)
  PROVE  Inv'
<1> USE DEF Inv
<1>1. /\ encrypted' \in [Sides -> BOOLEAN] /\ local' \in [Sides -> BOOLEAN]
      /\ setup' \in [Sides -> {"none", "building", "described", "offered", "stored", "failed"}]
      /\ handling' \in [Sides -> {"idle", "flush offer", "flush answer", "answer", "send"}]
      /\ \A r \in Sides :
           /\ encrypted[r] => encrypted'[r]
           /\ setup'[r] # "none" \/ local'[r] => encrypted'[r]
           /\ setup[r] = "stored" => setup'[r] = "stored"
           /\ handling'[r] = handling[r] \/ (handling[r] = "answer" /\ handling'[r] = "send")
      /\ UNCHANGED <<remote, gathered, events, net, inbox, pending_candidates, added, handled, connected>>
  <2>1. CASE BecomesEncrypted(s)
    BY <2>1 DEF BecomesEncrypted, candidateVars, TypeOK, DescribedFirst
  <2>2. CASE s = "host" /\ DescribeOffer
    BY <2>2 DEF DescribeOffer, candidateVars, TypeOK, DescribedFirst
  <2>3. CASE StorePeerConnection(s)
    BY <2>3 DEF StorePeerConnection, candidateVars, TypeOK, DescribedFirst
  <2>4. CASE SetupFails(s)
    BY <2>4 DEF SetupFails, candidateVars, TypeOK, DescribedFirst
  <2>5. CASE DescribeAnswer(s)
    BY <2>5 DEF DescribeAnswer, candidateVars, TypeOK, DescribedFirst
  <2> QED
    BY <2>1, <2>2, <2>3, <2>4, <2>5
<1>2. TypeOK'
  BY <1>1 DEF TypeOK, FaultsGrow
<1>3. CandidatesKept'
  BY <1>1 DEF CandidatesKept, FaultsGrow
<1>4. DescribedFirst'
  BY <1>1 DEF DescribedFirst
<1>5. CandidatesTraced'
  BY <1>1 DEF CandidatesTraced, Traced
<1> QED
  BY <1>2, <1>3, <1>4, <1>5

\* The session is handed an offer, an answer or a candidate.
LEMMA EmitInv ==
  ASSUME Inv, FaultsGrow, NEW s \in Sides,
         (s = "host" /\ SendOffer) \/ SendAnswer(s) \/ \E k \in Candidates : Gather(s, k)
  PROVE  Inv'
<1> USE DEF Inv
<1>1. PICK m \in Messages :
        /\ Emit(s, m)
        /\ gathered' \in [Sides -> SUBSET Candidates]
        /\ setup' \in [Sides -> {"none", "building", "described", "offered", "stored", "failed"}]
        /\ handling' \in [Sides -> {"idle", "flush offer", "flush answer", "answer", "send"}]
        /\ \A r \in Sides :
             /\ gathered[r] \subseteq gathered'[r]
             /\ handling'[r] = handling[r] \/ (handling[r] = "send" /\ handling'[r] = "idle")
             /\ setup'[r] # "none" => setup[r] # "none"
             /\ setup[r] = "stored" => setup'[r] = "stored"
        /\ m.type = "candidate" => m.payload \in gathered'[s]
        /\ UNCHANGED <<encrypted, local, remote, net, inbox, pending_candidates, added, handled, connected>>
  <2>1. CASE s = "host" /\ SendOffer
    BY <2>1, MessageTypes DEF SendOffer, candidateVars, TypeOK
  <2>2. CASE SendAnswer(s)
    BY <2>2, MessageTypes DEF SendAnswer, candidateVars, TypeOK
  <2>3. ASSUME NEW k \in Candidates, Gather(s, k)
        PROVE  /\ Emit(s, Candidate(k))
               /\ gathered' \in [Sides -> SUBSET Candidates] /\ k \in gathered'[s]
               /\ \A r \in Sides : gathered[r] \subseteq gathered'[r]
               /\ UNCHANGED <<encrypted, setup, local, remote, net, inbox, handling, pending_candidates,
                              added, handled, connected>>
    BY <2>3 DEF Gather, candidateVars, TypeOK
  <2> QED
    BY <2>1, <2>2, <2>3, MessageTypes DEF TypeOK
<1>2. /\ events' \in [Sides -> Seq(Messages)]
      /\ \A r \in Sides : \A i \in DOMAIN events'[r] :
           \/ i \in DOMAIN events[r] /\ events'[r][i] = events[r][i]
           \/ r = s /\ events'[r][i] = m
  <2> DEFINE q == Append(events[s], m)
  <2>1. events[s] \in Seq(Messages) /\ events \in [Sides -> Seq(Messages)]
    BY DEF TypeOK
  <2>2. /\ q \in Seq(Messages)
        /\ \A i \in DOMAIN q : (i \in DOMAIN events[s] /\ q[i] = events[s][i]) \/ q[i] = m
    BY <2>1, AppendItems
  <2>3. events' = [events EXCEPT ![s] = q]
    BY <1>1 DEF Emit
  <2> HIDE DEF q
  <2> QED
    BY <2>1, <2>2, <2>3
<1>3. TypeOK'
  BY <1>1, <1>2 DEF TypeOK, FaultsGrow
<1>4. CandidatesKept'
  <2> SUFFICES ASSUME NEW r \in Sides
               PROVE  /\ "refused" \notin faults' => handled'[r] \subseteq added'[r] \cup pending_candidates'[r]
                      /\ remote'[r] /\ handling'[r] = "idle" => pending_candidates'[r] = {}
    BY DEF CandidatesKept
  <2>1. "refused" \notin faults' => handled'[r] \subseteq added'[r] \cup pending_candidates'[r]
    BY <1>1 DEF CandidatesKept, FaultsGrow
  <2>2. remote'[r] /\ handling'[r] = "idle" => pending_candidates'[r] = {}
    BY <1>1 DEF CandidatesKept, DescribedFirst
  <2> QED
    BY <2>1, <2>2
<1>5. DescribedFirst'
  BY <1>1 DEF DescribedFirst
<1>6. CandidatesTraced'
  <2>1. (\A r \in Sides :
           /\ handled[r] \cup added[r] \cup pending_candidates[r] \subseteq gathered[Peer(r)]
           /\ \A i \in DOMAIN inbox[r] : Traced(inbox[r][i], Peer(r)))'
    BY <1>1, PeerFacts DEF CandidatesTraced, Traced
  <2>2. (\A r \in Sides : \A i \in DOMAIN events[r] : Traced(events[r][i], r))'
    BY <1>1, <1>2 DEF CandidatesTraced, Traced
  <2>3. (\A n \in net : Traced(n[2], Peer(n[1])))'
    BY <1>1, PeerFacts DEF CandidatesTraced, Traced, TypeOK
  <2> QED
    BY <2>1, <2>2, <2>3 DEF CandidatesTraced
<1> QED
  BY <1>3, <1>4, <1>5, <1>6

\* A message leaves the transport for the net.
LEMMA RelayInv ==
  ASSUME Inv, FaultsGrow, NEW s \in Sides, Relay(s)
  PROVE  Inv'
<1> USE DEF Inv
<1> DEFINE q == Tail(events[s])
           m == Head(events[s])
<1>1. /\ events[s] # <<>> /\ events[s] \in Seq(Messages) /\ events \in [Sides -> Seq(Messages)]
      /\ events' = [events EXCEPT ![s] = q]
      /\ net' = net \cup {<<Peer(s), m>>}
      /\ UNCHANGED <<encrypted, setup, local, remote, gathered, inbox, handling, pending_candidates, added,
                     handled, connected>>
  BY DEF Relay, candidateVars, TypeOK
<1>2. /\ q \in Seq(Messages) /\ m \in Messages
      /\ 1 \in DOMAIN events[s] /\ m = events[s][1]
      /\ \A i \in DOMAIN q : i + 1 \in DOMAIN events[s] /\ q[i] = events[s][i + 1]
  BY <1>1, TailItems
<1> HIDE DEF q, m
<1>3. TypeOK'
  <2>1. events' \in [Sides -> Seq(Messages)]
    BY <1>1, <1>2
  <2>2. <<Peer(s), m>> \in Sides \X Messages
    BY <1>2, PeerFacts
  <2> QED
    BY <1>1, <2>1, <2>2 DEF TypeOK, FaultsGrow
<1>4. CandidatesKept' /\ DescribedFirst'
  BY <1>1 DEF CandidatesKept, DescribedFirst, FaultsGrow
<1>5. CandidatesTraced'
  <2>1. (\A r \in Sides :
           /\ handled[r] \cup added[r] \cup pending_candidates[r] \subseteq gathered[Peer(r)]
           /\ \A i \in DOMAIN inbox[r] : Traced(inbox[r][i], Peer(r)))'
    BY <1>1 DEF CandidatesTraced, Traced
  <2>2. (\A r \in Sides : \A i \in DOMAIN events[r] : Traced(events[r][i], r))'
    BY <1>1, <1>2 DEF CandidatesTraced, Traced
  <2>3. (\A n \in net : Traced(n[2], Peer(n[1])))'
    BY <1>1, <1>2, PeerFacts DEF CandidatesTraced, Traced
  <2> QED
    BY <2>1, <2>2, <2>3 DEF CandidatesTraced
<1> QED
  BY <1>3, <1>4, <1>5

\* A frame arrives or is lost.
LEMMA ArriveInv ==
  ASSUME Inv, FaultsGrow, NEW n \in net, Arrive(n[1], n[2]) \/ Lose(n[1], n[2])
  PROVE  Inv'
<1> USE DEF Inv
<1> DEFINE s == n[1]
           m == n[2]
<1>1. s \in Sides /\ m \in Messages /\ n = <<s, m>>
  <2>1. n \in Sides \X Messages
    BY DEF TypeOK
  <2> QED
    BY <2>1
<1>2. /\ net' = net \ {<<s, m>>}
      /\ inbox' = [inbox EXCEPT ![s] = Append(inbox[s], m)] \/ inbox' = inbox
      /\ UNCHANGED <<encrypted, setup, local, remote, gathered, events, handling, pending_candidates, added,
                     handled, connected>>
  BY DEF Arrive, Lose, candidateVars
<1>3. m.type = "candidate" => m.payload \in gathered[Peer(s)]
  BY DEF CandidatesTraced, Traced
<1> HIDE DEF s, m
<1>4. /\ inbox' \in [Sides -> Seq(Messages)]
      /\ \A r \in Sides : \A i \in DOMAIN inbox'[r] :
           \/ i \in DOMAIN inbox[r] /\ inbox'[r][i] = inbox[r][i]
           \/ r = s /\ inbox'[r][i] = m
  <2> DEFINE q == Append(inbox[s], m)
  <2>1. inbox[s] \in Seq(Messages) /\ inbox \in [Sides -> Seq(Messages)]
    BY <1>1 DEF TypeOK
  <2>2. /\ q \in Seq(Messages)
        /\ \A i \in DOMAIN q : (i \in DOMAIN inbox[s] /\ q[i] = inbox[s][i]) \/ q[i] = m
    BY <1>1, <2>1, AppendItems
  <2>3. inbox' = [inbox EXCEPT ![s] = q] \/ inbox' = inbox
    BY <1>2
  <2> HIDE DEF q
  <2> QED
    BY <1>1, <2>1, <2>2, <2>3
<1>5. TypeOK'
  BY <1>2, <1>4 DEF TypeOK, FaultsGrow
<1>6. CandidatesKept' /\ DescribedFirst'
  BY <1>2 DEF CandidatesKept, DescribedFirst, FaultsGrow
<1>7. CandidatesTraced'
  <2>1. (\A r \in Sides :
           /\ handled[r] \cup added[r] \cup pending_candidates[r] \subseteq gathered[Peer(r)]
           /\ \A i \in DOMAIN events[r] : Traced(events[r][i], r))'
    BY <1>2 DEF CandidatesTraced, Traced
  <2>2. (\A r \in Sides : \A i \in DOMAIN inbox[r] : Traced(inbox[r][i], Peer(r)))'
    BY <1>2, <1>3, <1>4 DEF CandidatesTraced, Traced
  <2>3. (\A o \in net : Traced(o[2], Peer(o[1])))'
    BY <1>2 DEF CandidatesTraced, Traced
  <2> QED
    BY <2>1, <2>2, <2>3 DEF CandidatesTraced
<1> QED
  BY <1>5, <1>6, <1>7

\* The message loop takes a message: the ones after it stay as they are.
LEMMA TakeItems ==
  ASSUME Inv, NEW s \in Sides, NEW type, Take(s, type)
  PROVE  /\ handling[s] = "idle"
         /\ Head(inbox[s]) \in Messages /\ Head(inbox[s]).type = type
         /\ Traced(Head(inbox[s]), Peer(s))
         /\ inbox' \in [Sides -> Seq(Messages)]
         /\ \A r \in Sides : \A i \in DOMAIN inbox'[r] : Traced(inbox'[r][i], Peer(r))
<1> USE DEF Inv
<1> DEFINE q == Tail(inbox[s])
<1>1. /\ handling[s] = "idle" /\ inbox[s] # <<>> /\ Head(inbox[s]).type = type
      /\ inbox' = [inbox EXCEPT ![s] = q]
      /\ inbox[s] \in Seq(Messages) /\ inbox \in [Sides -> Seq(Messages)]
  BY DEF Take, TypeOK
<1>2. /\ q \in Seq(Messages) /\ Head(inbox[s]) \in Messages
      /\ 1 \in DOMAIN inbox[s] /\ Head(inbox[s]) = inbox[s][1]
      /\ \A i \in DOMAIN q : i + 1 \in DOMAIN inbox[s] /\ q[i] = inbox[s][i + 1]
  BY <1>1, TailItems
<1> HIDE DEF q
<1>3. Traced(Head(inbox[s]), Peer(s))
  BY <1>2 DEF CandidatesTraced
<1>4. \A r \in Sides : \A i \in DOMAIN inbox'[r] : Traced(inbox'[r][i], Peer(r))
  BY <1>1, <1>2 DEF CandidatesTraced
<1> QED
  BY <1>1, <1>2, <1>3, <1>4

\* A message without effect on the candidates: it came too early, WebRTC refused
\* it, or it is a description.
LEMMA DescriptionInv ==
  ASSUME Inv, FaultsGrow, NEW s \in Sides,
         HandleTooEarly(s) \/ CandidateFails(s) \/ HandleDescription(s) \/ DescriptionFails(s)
  PROVE  Inv'
<1> USE DEF Inv
<1>1. /\ UNCHANGED <<encrypted, setup, local, gathered, events, net, pending_candidates, added, handled,
                     connected>>
      /\ (\E type : Take(s, type)) \/ UNCHANGED inbox
      /\ \/ UNCHANGED <<remote, handling>>
         \/ /\ handling[s] = "answer" /\ handling' = [handling EXCEPT ![s] = "idle"] /\ UNCHANGED remote
         \/ /\ setup[s] = "stored" /\ remote' = [remote EXCEPT ![s] = TRUE]
            /\ \E pc \in {"flush offer", "flush answer"} : handling' = [handling EXCEPT ![s] = pc]
  BY DEF HandleTooEarly, CandidateFails, HandleDescription, DescriptionFails, candidateVars
<1>2. /\ inbox' \in [Sides -> Seq(Messages)]
      /\ \A r \in Sides : \A i \in DOMAIN inbox'[r] : Traced(inbox'[r][i], Peer(r))
  <2>1. CASE UNCHANGED inbox
    BY <2>1 DEF TypeOK, CandidatesTraced
  <2>2. CASE \E type : Take(s, type)
    BY <2>2, TakeItems
  <2> QED
    BY <1>1, <2>1, <2>2
<1>3. /\ remote' \in [Sides -> BOOLEAN]
      /\ handling' \in [Sides -> {"idle", "flush offer", "flush answer", "answer", "send"}]
      /\ \A r \in Sides :
           /\ remote[r] => remote'[r]
           /\ \/ handling'[r] = handling[r] /\ remote'[r] = remote[r]
              \/ /\ handling[r] = "answer" /\ handling'[r] = "idle" /\ remote'[r] = remote[r]
              \/ handling'[r] \in {"flush offer", "flush answer"} /\ setup[r] = "stored" /\ remote'[r]
  BY <1>1 DEF TypeOK
<1>4. TypeOK'
  BY <1>1, <1>2, <1>3 DEF TypeOK, FaultsGrow
<1>5. CandidatesKept'
  <2> SUFFICES ASSUME NEW r \in Sides
               PROVE  /\ "refused" \notin faults' => handled'[r] \subseteq added'[r] \cup pending_candidates'[r]
                      /\ remote'[r] /\ handling'[r] = "idle" => pending_candidates'[r] = {}
    BY DEF CandidatesKept
  <2>1. "refused" \notin faults' => handled'[r] \subseteq added'[r] \cup pending_candidates'[r]
    BY <1>1 DEF CandidatesKept, FaultsGrow
  <2>2. remote'[r] /\ handling'[r] = "idle" => pending_candidates'[r] = {}
    BY <1>1, <1>3 DEF CandidatesKept, DescribedFirst
  <2> QED
    BY <2>1, <2>2
<1>6. DescribedFirst'
  BY <1>1, <1>3 DEF DescribedFirst
<1>7. CandidatesTraced'
  BY <1>1, <1>2 DEF CandidatesTraced, Traced
<1> QED
  BY <1>4, <1>5, <1>6, <1>7

\* flush_pending_candidates, complete or broken off.
LEMMA FlushInv ==
  ASSUME Inv, FaultsGrow, NEW s \in Sides,
         FlushPendingCandidates(s) \/ (FlushFails(s) /\ "refused" \in faults')
  PROVE  Inv'
<1> USE DEF Inv
<1>1. PICK K \in SUBSET pending_candidates[s] :
        /\ handling[s] \in {"flush offer", "flush answer"}
        /\ added' = [added EXCEPT ![s] = added[s] \cup K]
        /\ pending_candidates' = [pending_candidates EXCEPT ![s] = {}]
        /\ \E pc \in {"answer", "idle"} : handling' = [handling EXCEPT ![s] = pc]
        /\ K = pending_candidates[s] \/ "refused" \in faults'
        /\ UNCHANGED <<encrypted, setup, local, remote, gathered, events, net, inbox, handled, connected>>
  <2>1. CASE FlushPendingCandidates(s)
    <3>1. pending_candidates[s] \in SUBSET pending_candidates[s]
      OBVIOUS
    <3> QED
      BY <2>1, <3>1 DEF FlushPendingCandidates
  <2>2. CASE FlushFails(s) /\ "refused" \in faults'
    BY <2>2 DEF FlushFails
  <2> QED
    BY <2>1, <2>2
<1>2. TypeOK'
  BY <1>1 DEF TypeOK, FaultsGrow
<1>2a. \A r \in Sides :
         /\ r # s => added'[r] = added[r] /\ pending_candidates'[r] = pending_candidates[r]
                       /\ handling'[r] = handling[r]
         /\ r = s => added'[r] = added[r] \cup K /\ pending_candidates'[r] = {}
                       /\ handling'[r] \in {"answer", "idle"}
  BY <1>1 DEF TypeOK
<1>3. CandidatesKept'
  <2> SUFFICES ASSUME NEW r \in Sides
               PROVE  /\ "refused" \notin faults' => handled'[r] \subseteq added'[r] \cup pending_candidates'[r]
                      /\ remote'[r] /\ handling'[r] = "idle" => pending_candidates'[r] = {}
    BY DEF CandidatesKept
  <2>1. CASE r # s
    BY <1>1, <1>2a, <2>1 DEF CandidatesKept, FaultsGrow
  <2>2. CASE r = s
    BY <1>1, <1>2a, <2>2 DEF CandidatesKept, FaultsGrow
  <2> QED
    BY <2>1, <2>2
<1>4. DescribedFirst'
  <2> SUFFICES ASSUME NEW r \in Sides
               PROVE  /\ setup'[r] # "none" \/ remote'[r] \/ local'[r] => encrypted'[r]
                      /\ handling'[r] # "idle" => remote'[r] /\ setup'[r] = "stored"
                      /\ handling'[r] \in {"answer", "send"} => pending_candidates'[r] = {}
                      /\ added'[r] # {} => remote'[r]
    BY DEF DescribedFirst
  <2>1. CASE r # s
    BY <1>1, <1>2a, <2>1 DEF DescribedFirst
  <2>2. CASE r = s
    <3>1. remote[s] /\ setup[s] = "stored" /\ encrypted[s]
      BY <1>1 DEF DescribedFirst
    <3> QED
      BY <1>1, <1>2a, <2>2, <3>1
  <2> QED
    BY <2>1, <2>2
<1>5. CandidatesTraced'
  <2>1. (\A r \in Sides : handled[r] \cup added[r] \cup pending_candidates[r] \subseteq gathered[Peer(r)])'
    <3>1. \A r \in Sides :
            added'[r] \cup pending_candidates'[r] \subseteq added[r] \cup pending_candidates[r]
      BY <1>2a
    <3> QED
      BY <1>1, <3>1 DEF CandidatesTraced
  <2> QED
    BY <1>1, <2>1 DEF CandidatesTraced, Traced
<1> QED
  BY <1>2, <1>3, <1>4, <1>5

\* A candidate is given to WebRTC, or kept until there is a description.
LEMMA CandidateInv ==
  ASSUME Inv, FaultsGrow, NEW s \in Sides, HandleCandidate(s)
  PROVE  Inv'
<1> USE DEF Inv
<1> DEFINE k == Head(inbox[s]).payload
<1>1. /\ Take(s, "candidate") /\ setup[s] = "stored"
      /\ handled' = [handled EXCEPT ![s] = handled[s] \cup {k}]
      /\ \/ /\ remote[s] /\ added' = [added EXCEPT ![s] = added[s] \cup {k}]
            /\ UNCHANGED pending_candidates
         \/ /\ ~remote[s]
            /\ pending_candidates' = [pending_candidates EXCEPT ![s] = pending_candidates[s] \cup {k}]
            /\ UNCHANGED added
      /\ UNCHANGED <<encrypted, setup, local, remote, gathered, events, net, handling, connected>>
  BY DEF HandleCandidate
<1>2. /\ handling[s] = "idle"
      /\ Head(inbox[s]) \in Messages /\ Head(inbox[s]).type = "candidate"
      /\ Traced(Head(inbox[s]), Peer(s))
      /\ inbox' \in [Sides -> Seq(Messages)]
      /\ \A r \in Sides : \A i \in DOMAIN inbox'[r] : Traced(inbox'[r][i], Peer(r))
  BY <1>1, TakeItems
<1>3. k \in Candidates /\ k \in gathered[Peer(s)]
  BY <1>2, MessageFacts DEF Traced
<1> HIDE DEF k
<1>4. /\ handled' \in [Sides -> SUBSET Candidates] /\ added' \in [Sides -> SUBSET Candidates]
      /\ pending_candidates' \in [Sides -> SUBSET Candidates]
      /\ handled'[s] = handled[s] \cup {k}
      /\ \/ remote[s] /\ added'[s] = added[s] \cup {k} /\ pending_candidates'[s] = pending_candidates[s]
         \/ ~remote[s] /\ added'[s] = added[s] /\ pending_candidates'[s] = pending_candidates[s] \cup {k}
      /\ \A r \in Sides \ {s} :
           /\ handled'[r] = handled[r] /\ added'[r] = added[r]
           /\ pending_candidates'[r] = pending_candidates[r]
  <2>1. /\ handled \in [Sides -> SUBSET Candidates] /\ added \in [Sides -> SUBSET Candidates]
        /\ pending_candidates \in [Sides -> SUBSET Candidates]
    BY DEF TypeOK
  <2>2. CASE remote[s] /\ added' = [added EXCEPT ![s] = added[s] \cup {k}] /\ UNCHANGED pending_candidates
    BY <1>1, <1>3, <2>1, <2>2
  <2>3. CASE /\ ~remote[s] /\ UNCHANGED added
             /\ pending_candidates' = [pending_candidates EXCEPT ![s] = pending_candidates[s] \cup {k}]
    BY <1>1, <1>3, <2>1, <2>3
  <2> QED
    BY <1>1, <2>2, <2>3
<1>5. TypeOK'
  BY <1>1, <1>2, <1>4 DEF TypeOK, FaultsGrow
<1>6. CandidatesKept'
  <2>1. ASSUME NEW r \in Sides, "refused" \notin faults'
        PROVE  handled'[r] \subseteq added'[r] \cup pending_candidates'[r]
    <3>1. handled[r] \subseteq added[r] \cup pending_candidates[r]
      BY <2>1 DEF CandidatesKept, FaultsGrow
    <3> QED
      BY <1>4, <3>1
  <2>2. ASSUME NEW r \in Sides, remote'[r], handling'[r] = "idle"
        PROVE  pending_candidates'[r] = {}
    BY <1>1, <1>4, <2>2 DEF CandidatesKept
  <2> QED
    BY <2>1, <2>2 DEF CandidatesKept
<1>7. DescribedFirst'
  BY <1>1, <1>2, <1>4 DEF DescribedFirst
<1>8. CandidatesTraced'
  <2>1. (\A r \in Sides : handled[r] \cup added[r] \cup pending_candidates[r] \subseteq gathered[Peer(r)])'
    BY <1>1, <1>3, <1>4 DEF CandidatesTraced
  <2> QED
    BY <1>1, <1>2, <2>1 DEF CandidatesTraced, Traced
<1> QED
  BY <1>5, <1>6, <1>7, <1>8

\* The negotiation keeps its invariant.
LEMMA NegotiationStep ==
  ASSUME Inv, Next
  PROVE  Inv'
<1>1. FaultsGrow
  BY DEF Next, FaultsGrow, Inv, TypeOK
<1>2. CASE Progress
  <2>1. CASE ChannelOpens
    BY <1>1, <2>1 DEF ChannelOpens, candidateVars, FaultsGrow, Inv, TypeOK, CandidatesKept, DescribedFirst,
                      CandidatesTraced, Traced
  <2>2. CASE \E s \in Sides : Setup(s) \/ Relay(s) \/ MessageLoop(s) \/ \E k \in Candidates : Gather(s, k)
    BY <1>1, <2>2, SetupInv, EmitInv, RelayInv, DescriptionInv, FlushInv, CandidateInv
       DEF Setup, MessageLoop
  <2>3. CASE \E m \in net : Arrive(m[1], m[2])
    BY <1>1, <2>3, ArriveInv
  <2> QED
    BY <1>2, <2>1, <2>2, <2>3 DEF Progress
<1>3. CASE Lost
  BY <1>1, <1>3, SetupInv, DescriptionInv, ArriveInv DEF Lost
<1>4. CASE Refused /\ faults' = faults \cup {"refused"}
  BY <1>1, <1>4, FlushInv, DescriptionInv DEF Refused
<1> QED
  BY <1>2, <1>3, <1>4 DEF Next

LEMMA NegotiationInit == Init => Inv
<1> SUFFICES ASSUME Init PROVE Inv
  OBVIOUS
<1> DEFINE E == <<>>
<1>1. E \in Seq(Messages) /\ DOMAIN E = {}
  OBVIOUS
<1>2. events = [s \in Sides |-> E] /\ inbox = [s \in Sides |-> E]
  BY DEF Init
<1> HIDE DEF E
<1>3. TypeOK
  BY <1>1, <1>2 DEF Init, TypeOK
<1>4. CandidatesKept /\ DescribedFirst
  BY DEF Init, CandidatesKept, DescribedFirst
<1>5. CandidatesTraced
  BY <1>1, <1>2, PeerFacts DEF Init, CandidatesTraced
<1> QED
  BY <1>3, <1>4, <1>5 DEF Inv

-----------------------------------------------------------------------------
(***************************************************************************)
(* The data channel.                                                       *)
(***************************************************************************)
Ended == {"channel closed", "closed"}

WaiterType ==
  [at : {"new", "check", "recv", "done"}, queue : Seq(DC!TransportStates), lagged : BOOLEAN]

Events == {"open", "message", "low", "close"}

\* The type invariant, in parts that steps leave alone together.
StateType == state \in DC!TransportStates /\ waiter \in [Waiters -> WaiterType]
SlotType ==
  /\ data_channel \in {"empty", "stored", "taken"} /\ holder \in DC!Senders \cup {None}
  /\ unflushed \in BOOLEAN
ChannelType ==
  /\ rtc \in {"connecting", "open", "failed"} \cup Ended
  /\ reported \in BOOLEAN /\ buffered \subseteq DC!Senders
  /\ channel_events \in Seq(Events) /\ received \in 0 .. MaxReceived
LoopType == poller \in {"new", "running", "ended"} /\ inbound \in 0 .. EventCapacity
CloseType ==
  /\ at \in [DC!Senders -> {"new", "lock", "sending", "sent", "done", "failed"}]
  /\ teardown \in {"none", "flush", "take", "close", "standby", "done", "failed"}
  /\ history \in [late : BOOLEAN, stale : BOOLEAN, lost : SUBSET DC!Senders]

LEMMA TypeParts == DC!TypeOK <=> StateType /\ SlotType /\ ChannelType /\ LoopType /\ CloseType
<1> USE DEF DC!TypeOK, StateType, SlotType, ChannelType, LoopType, CloseType, WaiterType, Events, Ended
<1>1. DC!TypeOK => StateType /\ SlotType
  OBVIOUS
<1>2. DC!TypeOK => ChannelType
  OBVIOUS
<1>3. DC!TypeOK => LoopType /\ CloseType
  OBVIOUS
<1>4. StateType /\ SlotType /\ ChannelType /\ LoopType /\ CloseType => DC!TypeOK
  OBVIOUS
<1> QED
  BY <1>1, <1>2, <1>3, <1>4

LEMMA TypePartsNext ==
  ASSUME StateType', SlotType', ChannelType', LoopType', CloseType'
  PROVE  DC!TypeOK'
<1>1. (DC!TypeOK <=> StateType /\ SlotType /\ ChannelType /\ LoopType /\ CloseType)'
  BY TypeParts, PTL
<1> QED
  BY <1>1

\* Every state that set_state broadcasts is received as a state.
LEMMA SetStateType ==
  ASSUME DC!TypeOK, NEW s \in DC!TransportStates, DC!SetState(s)
  PROVE  state' \in DC!TransportStates /\ waiter' \in [Waiters -> WaiterType]
<1>1. waiter \in [Waiters -> WaiterType]
  BY DEF DC!TypeOK, WaiterType
<1>2. ASSUME NEW w \in Waiters
      PROVE  DC!Deliver(w, s) \in WaiterType
  <2>1. waiter[w] \in WaiterType /\ waiter[w].queue \in Seq(DC!TransportStates)
    BY <1>1 DEF WaiterType
  <2>2. CASE ~DC!Subscribed(w)
    BY <2>1, <2>2 DEF DC!Deliver
  <2>3. CASE DC!Subscribed(w) /\ Len(waiter[w].queue) < StateCapacity
    <3> DEFINE q == Append(waiter[w].queue, s)
    <3>1. q \in Seq(DC!TransportStates)
      BY <2>1, AppendItems
    <3>2. DC!Deliver(w, s) = [waiter[w] EXCEPT !.queue = q]
      BY <2>3 DEF DC!Deliver
    <3> HIDE DEF q
    <3> QED
      BY <2>1, <3>1, <3>2 DEF WaiterType
  <2>4. CASE DC!Subscribed(w) /\ ~(Len(waiter[w].queue) < StateCapacity)
    <3> DEFINE t == Tail(waiter[w].queue)
               q == Append(t, s)
    <3>1. waiter[w].queue # <<>>
      BY <2>1, <2>4, TransportAssumption
    <3>2. t \in Seq(DC!TransportStates)
      BY <2>1, <3>1, TailItems
    <3>3. DC!Deliver(w, s) = [waiter[w] EXCEPT !.queue = q, !.lagged = TRUE]
      BY <2>4 DEF DC!Deliver
    <3> HIDE DEF t
    <3>4. q \in Seq(DC!TransportStates)
      BY <3>2, AppendItems
    <3> HIDE DEF q
    <3> QED
      BY <2>1, <3>3, <3>4 DEF WaiterType
  <2> QED
    BY <2>2, <2>3, <2>4
<1> QED
  BY <1>2 DEF DC!SetState

\* What the parts that a step of the channel must keep come to, when no send and
\* no wait of teardown is involved: the buffer is left alone or emptied.
LEMMA ChannelStep ==
  ASSUME DC!Inv, DC!TypeOK', UNCHANGED <<holder, at, history>>,
         \/ teardown' = teardown
         \/ teardown \notin {"none", "flush"} /\ teardown' \notin {"none", "flush"},
         buffered' = buffered \/ buffered' = {},
         unflushed' = unflushed \/ buffered' = {},
         rtc' \in Ended => buffered' = {},
         (\E i \in DOMAIN channel_events' : channel_events'[i] = "close") => rtc' \in Ended
  PROVE  DC!Inv'
<1> USE DEF DC!Inv
<1>1. DC!SlotOK'
  BY DEF DC!SlotOK
<1>2. DC!FlushOK'
  BY DEF DC!FlushOK, Ended
<1>3. DC!CloseFlushed'
  BY DEF DC!CloseFlushed
<1> QED
  BY <1>1, <1>2, <1>3

\* wait_for.
LEMMA WaiterInv ==
  ASSUME DC!Inv, NEW w \in Waiters, DC!WaitFor(w) \/ DC!CheckState(w) \/ DC!ReceiveState(w)
  PROVE  DC!Inv'
<1> USE DEF DC!Inv
<1>1. UNCHANGED <<state, data_channel, holder, unflushed, rtc, reported, buffered, channel_events, received,
                  poller, inbound, at, teardown, history>>
  BY DEF DC!WaitFor, DC!CheckState, DC!ReceiveState, DC!MoveWaiter, DC!slotVars, DC!channelVars,
         DC!loopVars, DC!closeVars
<1>2. waiter[w] \in WaiterType /\ waiter \in [Waiters -> WaiterType]
  BY DEF DC!TypeOK, WaiterType
<1>3. DC!Fresh \in WaiterType /\ DC!Returned \in WaiterType /\ [DC!Fresh EXCEPT !.at = "check"] \in WaiterType
  <2> DEFINE E == <<>>
  <2>1. E \in Seq(DC!TransportStates)
    OBVIOUS
  <2>2. DC!Fresh = [at |-> "new", queue |-> E, lagged |-> FALSE]
    BY DEF DC!Fresh
  <2> HIDE DEF E
  <2> QED
    BY <2>1, <2>2 DEF WaiterType, DC!Returned
<1>4. PICK r \in WaiterType : waiter' = [waiter EXCEPT ![w] = r]
  <2>1. CASE DC!WaitFor(w)
    BY <1>3, <2>1 DEF DC!WaitFor, DC!MoveWaiter
  <2>2. CASE DC!CheckState(w)
    <3>1. [waiter[w] EXCEPT !.at = "recv"] \in WaiterType
      BY <1>2 DEF WaiterType
    <3> QED
      BY <1>3, <2>2, <3>1 DEF DC!CheckState, DC!MoveWaiter
  <2>3. CASE DC!ReceiveState(w)
    <3> DEFINE q == Tail(waiter[w].queue)
    <3>1. waiter[w].queue # <<>> /\ waiter[w].queue \in Seq(DC!TransportStates)
      BY <1>2, <2>3 DEF DC!ReceiveState, WaiterType
    <3>2. q \in Seq(DC!TransportStates)
      BY <3>1, TailItems
    <3>3. \E r \in {[waiter[w] EXCEPT !.at = "check", !.lagged = FALSE], DC!Returned,
                    [waiter[w] EXCEPT !.at = "check", !.queue = q]} : waiter' = [waiter EXCEPT ![w] = r]
      BY <2>3 DEF DC!ReceiveState, DC!MoveWaiter
    <3> HIDE DEF q
    <3>4. /\ [waiter[w] EXCEPT !.at = "check", !.lagged = FALSE] \in WaiterType
          /\ [waiter[w] EXCEPT !.at = "check", !.queue = q] \in WaiterType
      BY <1>2, <3>2 DEF WaiterType
    <3> QED
      BY <1>3, <3>3, <3>4
  <2> QED
    BY <2>1, <2>2, <2>3
<1>5. waiter' \in [Waiters -> WaiterType]
  BY <1>2, <1>4
<1>6. DC!TypeOK'
  <2>1. StateType /\ SlotType /\ ChannelType /\ LoopType /\ CloseType
    BY TypeParts
  <2>2. StateType' /\ SlotType' /\ ChannelType' /\ LoopType' /\ CloseType'
    BY <1>1, <1>5, <2>1 DEF StateType, SlotType, ChannelType, LoopType, CloseType
  <2> QED
    BY <2>2, TypePartsNext
<1>7. /\ rtc' \in Ended => buffered' = {}
      /\ (\E i \in DOMAIN channel_events' : channel_events'[i] = "close") => rtc' \in Ended
  BY <1>1 DEF DC!FlushOK, Ended
<1> QED
  BY <1>1, <1>6, <1>7, ChannelStep

\* A new report of WebRTC.
LEMMA EventArrives ==
  ASSUME DC!Inv, NEW e \in Events,
         channel_events' = Append(channel_events, e) \/ channel_events' = channel_events
  PROVE  /\ channel_events' \in Seq(Events)
         /\ (\E i \in DOMAIN channel_events' : channel_events'[i] = "close") => e = "close" \/ rtc \in Ended
<1> USE DEF DC!Inv
<1>1. /\ channel_events \in Seq(Events)
      /\ (\E i \in DOMAIN channel_events : channel_events[i] = "close") => rtc \in Ended
  BY DEF DC!TypeOK, DC!FlushOK, Events, Ended
<1>2. CASE channel_events' = channel_events
  BY <1>1, <1>2
<1>3. CASE channel_events' = Append(channel_events, e)
  BY <1>1, <1>3, AppendItems
<1> QED
  BY <1>2, <1>3

\* The poll loop takes a report.
LEMMA PollsItems ==
  ASSUME DC!Inv, NEW e, DC!Polls(e)
  PROVE  /\ channel_events' \in Seq(Events) /\ e \in Events
         /\ e = "close" => rtc \in Ended
         /\ (\E i \in DOMAIN channel_events' : channel_events'[i] = "close") => rtc \in Ended
<1> USE DEF DC!Inv
<1>1. /\ channel_events \in Seq(Events)
      /\ (\E i \in DOMAIN channel_events : channel_events[i] = "close") => rtc \in Ended
      /\ channel_events # <<>> /\ Head(channel_events) = e /\ channel_events' = Tail(channel_events)
  BY DEF DC!TypeOK, DC!FlushOK, DC!Polls, Events, Ended
<1> QED
  BY <1>1, TailItems

\* The reports of the poll loop that do not touch `unflushed` while the channel
\* lives, and everything WebRTC does.
LEMMA RtcInv ==
  ASSUME DC!Inv, DC!OnOpen \/ DC!OnMessage \/ DC!OnClose \/ DC!PollEnds \/ DC!TakeFrame \/ DC!WebRTC
                   \/ DC!SetStandby \/ DC!ClosePeerConnection
  PROVE  DC!Inv'
<1> USE DEF DC!Inv
<1>1. StateType /\ SlotType /\ ChannelType /\ LoopType /\ CloseType
  BY TypeParts
<1>2. /\ rtc \in Ended => buffered = {}
      /\ (\E i \in DOMAIN channel_events : channel_events[i] = "close") => rtc \in Ended
  BY DEF DC!FlushOK, Ended
<1> DEFINE Goal ==
      /\ StateType' /\ SlotType' /\ ChannelType' /\ LoopType' /\ CloseType'
      /\ UNCHANGED <<holder, at, history>>
      /\ \/ teardown' = teardown
         \/ teardown \notin {"none", "flush"} /\ teardown' \notin {"none", "flush"}
      /\ buffered' = buffered \/ buffered' = {}
      /\ unflushed' = unflushed \/ buffered' = {}
      /\ rtc' \in Ended => buffered' = {}
      /\ (\E i \in DOMAIN channel_events' : channel_events'[i] = "close") => rtc' \in Ended
<1> USE DEF DC!stateVars, DC!slotVars, DC!channelVars, DC!loopVars, DC!closeVars
<1>3. "Connected" \in DC!TransportStates /\ "Error" \in DC!TransportStates /\ "Standby" \in DC!TransportStates
  BY DEF DC!TransportStates
<1>4. ASSUME NEW s \in DC!TransportStates, DC!SetState(s) PROVE StateType'
  BY <1>4, SetStateType DEF StateType
<1>5. ASSUME DC!OnOpen
      PROVE  Goal
  <2>1. DC!Polls("open") /\ DC!SetState("Connected") /\ UNCHANGED <<unflushed, poller, inbound, history>>
    BY <1>5 DEF DC!OnOpen
  <2>2. /\ channel_events' \in Seq(Events)
        /\ (\E i \in DOMAIN channel_events' : channel_events'[i] = "close") => rtc \in Ended
    BY <2>1, PollsItems
  <2>3. StateType'
    BY <1>3, <1>4, <2>1
  <2> QED
    BY <1>1, <1>2, <2>1, <2>2, <2>3 DEF DC!Polls, SlotType, ChannelType, LoopType, CloseType
<1>6. ASSUME DC!OnMessage
      PROVE  Goal
  <2>1. /\ DC!Polls("message") /\ UNCHANGED <<state, waiter, unflushed, poller, history>>
        /\ inbound' = inbound \/ (inbound < EventCapacity /\ inbound' = inbound + 1)
    BY <1>6 DEF DC!OnMessage
  <2>2. /\ channel_events' \in Seq(Events)
        /\ (\E i \in DOMAIN channel_events' : channel_events'[i] = "close") => rtc \in Ended
    BY <2>1, PollsItems
  <2>3. LoopType'
    BY <1>1, <2>1, TransportAssumption DEF LoopType
  <2> QED
    BY <1>1, <1>2, <2>1, <2>2, <2>3 DEF DC!Polls, StateType, SlotType, ChannelType, CloseType
<1>7. ASSUME DC!OnClose
      PROVE  Goal
  <2>1. DC!Polls("close") /\ DC!SetState("Error") /\ unflushed' = FALSE /\ poller' = "ended"
        /\ UNCHANGED <<inbound, history>>
    BY <1>7 DEF DC!OnClose
  <2>2. /\ channel_events' \in Seq(Events) /\ rtc \in Ended
    BY <2>1, PollsItems
  <2>3. StateType'
    BY <1>3, <1>4, <2>1
  <2> QED
    BY <1>1, <1>2, <2>1, <2>2, <2>3 DEF DC!Polls, SlotType, ChannelType, LoopType, CloseType
<1>8. ASSUME DC!PollEnds \/ DC!TakeFrame
      PROVE  Goal
  <2>1. /\ poller' = poller \/ poller' = "ended"
        /\ inbound' = inbound \/ (inbound > 0 /\ inbound' = inbound - 1)
    BY <1>8 DEF DC!PollEnds, DC!TakeFrame
  <2>2. LoopType'
    BY <1>1, <2>1, TransportAssumption DEF LoopType
  <2>3. UNCHANGED <<state, waiter, data_channel, holder, unflushed, rtc, reported, buffered, channel_events,
                    received, at, teardown, history>>
    BY <1>8 DEF DC!PollEnds, DC!TakeFrame
  <2> QED
    BY <1>1, <1>2, <2>2, <2>3 DEF StateType, SlotType, ChannelType, CloseType
<1>9. ASSUME DC!StoreDataChannel
      PROVE  Goal
  BY <1>1, <1>2, <1>9 DEF DC!StoreDataChannel, StateType, SlotType, ChannelType, LoopType, CloseType
<1>10. ASSUME DC!ChannelOpens \/ DC!Transmit \/ DC!PeerSends
      PROVE  Goal
  <2>1. PICK e \in {"open", "low", "message"} :
          /\ channel_events' = Append(channel_events, e)
          /\ rtc' \in {"open"} /\ rtc \notin Ended
          /\ buffered' = buffered \/ buffered' = {}
          /\ received' = received \/ (received < MaxReceived /\ received' = received + 1)
          /\ UNCHANGED <<state, waiter, data_channel, holder, unflushed, reported, poller, inbound, at,
                         teardown, history>>
    BY <1>10 DEF DC!ChannelOpens, DC!Transmit, DC!PeerSends, Ended
  <2>2. /\ channel_events' \in Seq(Events)
        /\ (\E i \in DOMAIN channel_events' : channel_events'[i] = "close") => e = "close" \/ rtc \in Ended
    BY <2>1, EventArrives DEF Events
  <2>3. ChannelType'
    BY <1>1, <2>1, <2>2, TransportAssumption DEF ChannelType
  <2> QED
    BY <1>1, <2>1, <2>2, <2>3 DEF StateType, SlotType, LoopType, CloseType, Ended
<1>11. ASSUME DC!PeerCloses \/ DC!ClosePeerConnection
      PROVE  Goal
  <2>1. /\ rtc' \in Ended /\ buffered' = {}
        /\ channel_events' = Append(channel_events, "close") \/ channel_events' = channel_events
        /\ \/ teardown' = teardown
           \/ teardown = "close" /\ teardown' \in {"standby", "failed"}
        /\ UNCHANGED <<state, waiter, data_channel, holder, unflushed, reported, received, poller, inbound, at,
                       history>>
    BY <1>2, <1>11 DEF DC!PeerCloses, DC!ClosePeerConnection, DC!EndChannel, Ended
  <2>2. channel_events' \in Seq(Events)
    BY <2>1, EventArrives DEF Events
  <2>3. ChannelType' /\ CloseType'
    BY <1>1, <2>1, <2>2 DEF ChannelType, CloseType
  <2> QED
    BY <1>1, <2>1, <2>3 DEF StateType, SlotType, LoopType
<1>12. ASSUME DC!ConnectionFails
      PROVE  Goal
  <2>1. /\ rtc \notin Ended /\ rtc' = "failed" /\ rtc' \notin Ended
        /\ UNCHANGED <<state, waiter, data_channel, holder, unflushed, reported, buffered, channel_events,
                       received, poller, inbound, at, teardown, history>>
    BY <1>12 DEF DC!ConnectionFails, Ended
  <2>2. ChannelType'
    BY <1>1, <2>1 DEF ChannelType
  <2> QED
    BY <1>1, <1>2, <2>1, <2>2 DEF StateType, SlotType, LoopType, CloseType
<1>13. ASSUME DC!OnConnectionStateChange \/ DC!SetStandby
      PROVE  Goal
  <2>1. /\ \E s \in {"Error", "Standby"} : DC!SetState(s)
        /\ reported' \in BOOLEAN
        /\ teardown' = teardown \/ (teardown = "standby" /\ teardown' = "done")
        /\ UNCHANGED <<data_channel, holder, unflushed, rtc, buffered, channel_events, received, poller,
                       inbound, at, history>>
    BY <1>1, <1>13 DEF DC!OnConnectionStateChange, DC!SetStandby, ChannelType
  <2>2. StateType'
    BY <1>3, <1>4, <2>1
  <2> QED
    BY <1>1, <1>2, <2>1, <2>2 DEF SlotType, ChannelType, LoopType, CloseType
<1>14. Goal
  BY <1>5, <1>6, <1>7, <1>8, <1>9, <1>10, <1>11, <1>12, <1>13 DEF DC!WebRTC
<1>15. DC!TypeOK'
  BY <1>14, TypePartsNext
<1> QED
  BY <1>14, <1>15, ChannelStep

\* The frames that tasks send are not the one that close sends.
LEMMA SenderFacts ==
  /\ DC!Close \in DC!Senders /\ None \notin DC!Senders
  /\ Frames \subseteq DC!Senders /\ DC!Senders \ {DC!Close} = Frames
BY TransportAssumption DEF DC!Senders, DC!Close

\* The buffer is low: the flush is over, or the history says that this Low is
\* not the one of the Close frame.
LEMMA LowInv ==
  ASSUME DC!Inv, DC!OnBufferedAmountLow
  PROVE  DC!Inv'
<1> USE DEF DC!Inv
<1>1. /\ DC!Polls("low") /\ unflushed' = FALSE
      /\ history' = [history EXCEPT !.stale = history.stale \/ (DC!Close \in buffered /\ at[DC!Close] = "done")]
      /\ UNCHANGED <<state, waiter, data_channel, holder, rtc, reported, buffered, received, poller, inbound,
                     at, teardown>>
  BY DEF DC!OnBufferedAmountLow, DC!Polls, DC!stateVars, DC!loopVars
<1>2. /\ channel_events' \in Seq(Events)
      /\ (\E i \in DOMAIN channel_events' : channel_events'[i] = "close") => rtc \in Ended
  BY <1>1, PollsItems
<1>3. /\ history' \in [late : BOOLEAN, stale : BOOLEAN, lost : SUBSET DC!Senders]
      /\ history'.late = history.late /\ history'.lost = history.lost
      /\ history'.stale = (history.stale \/ (DC!Close \in buffered /\ at[DC!Close] = "done"))
  BY <1>1 DEF DC!TypeOK
<1>4. DC!TypeOK'
  <2>1. StateType /\ SlotType /\ ChannelType /\ LoopType /\ CloseType
    BY TypeParts
  <2>2. StateType' /\ SlotType' /\ ChannelType' /\ LoopType' /\ CloseType'
    BY <1>1, <1>2, <1>3, <2>1 DEF StateType, SlotType, ChannelType, LoopType, CloseType
  <2> QED
    BY <2>2, TypePartsNext
<1>5. DC!SlotOK'
  BY <1>1 DEF DC!SlotOK
<1>6. DC!FlushOK'
  BY <1>1, <1>2, <1>3 DEF DC!FlushOK, Ended
<1>7. DC!CloseFlushed'
  BY <1>3 DEF DC!CloseFlushed
<1> QED
  BY <1>4, <1>5, <1>6, <1>7

\* A send begins, waits for the slot, fails or is destroyed: nothing is buffered.
LEMMA SendInv ==
  ASSUME DC!Inv, NEW m \in DC!Senders,
         DC!Send(m) \/ DC!LockDataChannel(m) \/ DC!DestroySender(m)
  PROVE  DC!Inv'
<1> USE DEF DC!Inv
<1>1. PICK pc \in {"lock", "sending", "failed"} :
        /\ at' = [at EXCEPT ![m] = pc]
        /\ \/ at[m] = "new" /\ pc # "sending" /\ UNCHANGED holder /\ (m # DC!Close => at[DC!Close] = "new")
           \/ at[m] = "lock" /\ pc = "sending" /\ holder = None /\ holder' = m
           \/ at[m] = "lock" /\ pc = "failed" /\ holder = None /\ UNCHANGED holder
           \/ /\ m # DC!Close /\ at[m] \in {"lock", "sending", "sent"} /\ pc = "failed"
              /\ holder' = IF holder = m THEN None ELSE holder
        /\ UNCHANGED <<state, waiter, data_channel, unflushed, rtc, reported, buffered, channel_events,
                       received, poller, inbound, teardown, history>>
  BY DEF DC!Send, DC!LockDataChannel, DC!DestroySender, DC!Goto, DC!Release, DC!Closing, DC!stateVars,
         DC!slotVars, DC!channelVars, DC!loopVars
<1>2. /\ at' \in [DC!Senders -> {"new", "lock", "sending", "sent", "done", "failed"}]
      /\ at'[m] = pc /\ \A n \in DC!Senders \ {m} : at'[n] = at[n]
  BY <1>1 DEF DC!TypeOK
<1>3. holder' \in DC!Senders \cup {None}
  BY <1>1 DEF DC!TypeOK
<1>4. DC!TypeOK'
  <2>1. StateType /\ SlotType /\ ChannelType /\ LoopType /\ CloseType
    BY TypeParts
  <2>2. StateType' /\ SlotType' /\ ChannelType' /\ LoopType' /\ CloseType'
    BY <1>1, <1>2, <1>3, <2>1 DEF StateType, SlotType, ChannelType, LoopType, CloseType
  <2> QED
    BY <2>2, TypePartsNext
<1>5. teardown = "none"
  BY <1>1, SenderFacts DEF DC!SlotOK
<1>6. DC!SlotOK'
  <2>1. \A n \in DC!Senders : holder' = n <=> at'[n] \in {"sending", "sent"}
    <3>1. \A n \in DC!Senders : holder = n <=> at[n] \in {"sending", "sent"}
      BY DEF DC!SlotOK
    <3> QED
      BY <1>1, <1>2, <3>1, SenderFacts
  <2>2. \A n \in buffered' : at'[n] \in {"sent", "done", "failed"}
    BY <1>1, <1>2 DEF DC!SlotOK, DC!TypeOK
  <2> QED
    BY <1>1, <1>5, <2>1, <2>2 DEF DC!SlotOK
<1>7. DC!FlushOK'
  <2>1. DC!Close \in buffered => at'[DC!Close] = at[DC!Close]
    BY <1>1, <1>2, SenderFacts DEF DC!FlushOK
  <2> QED
    BY <1>1, <2>1 DEF DC!FlushOK
<1>8. DC!CloseFlushed'
  BY <1>1 DEF DC!CloseFlushed
<1> QED
  BY <1>4, <1>6, <1>7, <1>8

\* send_text puts the frame in the buffer, or fails.
LEMMA SendTextInv ==
  ASSUME DC!Inv, NEW m \in DC!Senders, DC!SendText(m)
  PROVE  DC!Inv'
<1> USE DEF DC!Inv
<1>1. PICK pc \in {"sent", "failed"} :
        /\ at[m] = "sending" /\ at' = [at EXCEPT ![m] = pc]
        /\ IF pc = "sent" THEN buffered' = buffered \cup {m} /\ holder' = holder /\ rtc \in {"open", "failed"}
           ELSE buffered' = buffered /\ holder' = IF holder = m THEN None ELSE holder
        /\ UNCHANGED <<state, waiter, data_channel, unflushed, rtc, reported, channel_events, received, poller,
                       inbound, teardown, history>>
  BY DEF DC!SendText, DC!Goto, DC!Release, DC!stateVars, DC!loopVars
<1>2. /\ at' \in [DC!Senders -> {"new", "lock", "sending", "sent", "done", "failed"}]
      /\ at'[m] = pc /\ \A n \in DC!Senders \ {m} : at'[n] = at[n]
  BY <1>1 DEF DC!TypeOK
<1>3. holder' \in DC!Senders \cup {None} /\ buffered' \subseteq DC!Senders
  BY <1>1 DEF DC!TypeOK
<1>4. DC!TypeOK'
  <2>1. StateType /\ SlotType /\ ChannelType /\ LoopType /\ CloseType
    BY TypeParts
  <2>2. StateType' /\ SlotType' /\ ChannelType' /\ LoopType' /\ CloseType'
    BY <1>1, <1>2, <1>3, <2>1 DEF StateType, SlotType, ChannelType, LoopType, CloseType
  <2> QED
    BY <2>2, TypePartsNext
<1>5. teardown = "none"
  BY <1>1, SenderFacts DEF DC!SlotOK
<1>6. DC!SlotOK'
  <2>1. \A n \in DC!Senders : holder' = n <=> at'[n] \in {"sending", "sent"}
    <3>1. \A n \in DC!Senders : holder = n <=> at[n] \in {"sending", "sent"}
      BY DEF DC!SlotOK
    <3> QED
      BY <1>1, <1>2, <3>1, SenderFacts
  <2>2. \A n \in buffered' : at'[n] \in {"sent", "done", "failed"}
    <3>1. \A n \in buffered : at[n] \in {"sent", "done", "failed"}
      BY DEF DC!SlotOK
    <3>2. buffered' \subseteq buffered \cup {m} /\ buffered \subseteq DC!Senders
      BY <1>1 DEF DC!TypeOK
    <3> QED
      BY <1>2, <3>1, <3>2
  <2> QED
    BY <1>1, <1>5, <2>1, <2>2 DEF DC!SlotOK
<1>7. DC!FlushOK'
  <2>1. rtc' \in Ended => buffered' = {}
    BY <1>1 DEF DC!FlushOK, Ended
  <2>2. DC!Close \in buffered' => /\ at'[DC!Close] \in {"sent", "done"}
                                  /\ at'[DC!Close] = "done" => DC!Close \in buffered /\ at[DC!Close] = "done"
    <3>1. DC!Close \in buffered => at[DC!Close] \in {"sent", "done"}
      BY DEF DC!FlushOK
    <3>2. CASE m = DC!Close
      <4>1. DC!Close \notin buffered
        BY <1>1, <3>1, <3>2
      <4> QED
        BY <1>1, <1>2, <3>2, <4>1
    <3>3. CASE m # DC!Close
      <4>1. at'[DC!Close] = at[DC!Close] /\ (DC!Close \in buffered' => DC!Close \in buffered)
        BY <1>1, <1>2, <3>3, SenderFacts
      <4> QED
        BY <3>1, <4>1
    <3> QED
      BY <3>2, <3>3
  <2> QED
    BY <1>1, <1>5, <2>1, <2>2 DEF DC!FlushOK, Ended
<1>8. DC!CloseFlushed'
  BY <1>1 DEF DC!CloseFlushed
<1> QED
  BY <1>4, <1>6, <1>7, <1>8

\* The send says that there is something to flush, and releases the slot.
LEMMA MarkInv ==
  ASSUME DC!Inv, NEW m \in DC!Senders, DC!MarkUnflushed(m)
  PROVE  DC!Inv'
<1> USE DEF DC!Inv
<1>1. /\ at[m] = "sent" /\ at' = [at EXCEPT ![m] = "done"]
      /\ unflushed' = TRUE /\ holder' = IF holder = m THEN None ELSE holder
      /\ UNCHANGED <<state, waiter, data_channel, rtc, reported, buffered, channel_events, received, poller,
                     inbound, teardown, history>>
  BY DEF DC!MarkUnflushed, DC!Goto, DC!Release, DC!stateVars, DC!channelVars, DC!loopVars
<1>2. /\ at' \in [DC!Senders -> {"new", "lock", "sending", "sent", "done", "failed"}]
      /\ at'[m] = "done" /\ \A n \in DC!Senders \ {m} : at'[n] = at[n]
  BY <1>1 DEF DC!TypeOK
<1>3. DC!TypeOK'
  <2>1. StateType /\ SlotType /\ ChannelType /\ LoopType /\ CloseType
    BY TypeParts
  <2>2. StateType' /\ SlotType' /\ ChannelType' /\ LoopType' /\ CloseType'
    BY <1>1, <1>2, <2>1 DEF StateType, SlotType, ChannelType, LoopType, CloseType
  <2> QED
    BY <2>2, TypePartsNext
<1>4. teardown = "none"
  BY <1>1, SenderFacts DEF DC!SlotOK
<1>5. DC!SlotOK'
  <2>1. \A n \in DC!Senders : holder' = n <=> at'[n] \in {"sending", "sent"}
    <3>1. \A n \in DC!Senders : holder = n <=> at[n] \in {"sending", "sent"}
      BY DEF DC!SlotOK
    <3> QED
      BY <1>1, <1>2, <3>1, SenderFacts
  <2>2. \A n \in buffered' : at'[n] \in {"sent", "done", "failed"}
    BY <1>1, <1>2 DEF DC!SlotOK, DC!TypeOK
  <2> QED
    BY <1>1, <1>4, <2>1, <2>2 DEF DC!SlotOK
<1>6. DC!FlushOK'
  <2>1. DC!Close \in buffered => at'[DC!Close] \in {"sent", "done"}
    BY <1>2, SenderFacts DEF DC!FlushOK
  <2> QED
    BY <1>1, <1>4, <2>1 DEF DC!FlushOK
<1>7. DC!CloseFlushed'
  BY <1>1 DEF DC!CloseFlushed
<1> QED
  BY <1>3, <1>5, <1>6, <1>7

\* teardown waits for the tasks and for the flush, and closes the channel.
LEMMA TeardownInv ==
  ASSUME DC!Inv, DC!WaitForTasks \/ DC!Flushed \/ DC!FlushTimesOut \/ DC!CloseDataChannel
  PROVE  DC!Inv'
<1> USE DEF DC!Inv
<1> USE DEF DC!stateVars, DC!slotVars, DC!channelVars, DC!loopVars, DC!closeVars
<1>1. StateType /\ SlotType /\ ChannelType /\ LoopType /\ CloseType
  BY TypeParts
<1>2. CASE DC!WaitForTasks
  <2>1. /\ teardown = "none" /\ at[DC!Close] \in {"done", "failed"}
        /\ \A m \in Frames : at[m] \in {"new", "done", "failed"}
        /\ teardown' = "flush" /\ inbound' = 0
        /\ UNCHANGED <<state, waiter, data_channel, holder, unflushed, rtc, reported, buffered, channel_events,
                       received, poller, at, history>>
    BY <1>2 DEF DC!WaitForTasks
  <2>2. LoopType' /\ CloseType'
    BY <1>1, <2>1, TransportAssumption DEF LoopType, CloseType
  <2>3. DC!TypeOK'
    BY <1>1, <2>1, <2>2, TypePartsNext DEF StateType, SlotType, ChannelType
  <2>4. DC!SlotOK' /\ DC!CloseFlushed'
    BY <2>1 DEF DC!SlotOK, DC!CloseFlushed
  <2>5. DC!FlushOK'
    BY <2>1 DEF DC!FlushOK
  <2> QED
    BY <2>3, <2>4, <2>5
<1>3. CASE DC!Flushed \/ DC!FlushTimesOut
  <2>1. /\ teardown = "flush" /\ teardown' = "take"
        /\ \/ ~unflushed /\ history' = history
           \/ history' = [history EXCEPT !.late = TRUE]
        /\ UNCHANGED <<state, waiter, data_channel, holder, unflushed, rtc, reported, buffered, channel_events,
                       received, poller, inbound, at>>
    BY <1>3 DEF DC!Flushed, DC!FlushTimesOut
  <2>2. /\ history' \in [late : BOOLEAN, stale : BOOLEAN, lost : SUBSET DC!Senders]
        /\ history'.lost = history.lost /\ history'.stale = history.stale
        /\ history.late => history'.late
        /\ unflushed => history'.late
    BY <2>1 DEF DC!TypeOK
  <2>3. DC!TypeOK'
    BY <1>1, <2>1, <2>2, TypePartsNext DEF StateType, SlotType, ChannelType, LoopType, CloseType
  <2>4. DC!SlotOK' /\ DC!CloseFlushed'
    BY <2>1, <2>2 DEF DC!SlotOK, DC!CloseFlushed
  <2>5. DC!FlushOK'
    <3>1. DC!Close \in buffered => at[DC!Close] = "done"
      BY <2>1 DEF DC!SlotOK, DC!FlushOK
    <3> QED
      BY <2>1, <2>2, <3>1 DEF DC!FlushOK
  <2> QED
    BY <2>3, <2>4, <2>5
<1>4. CASE DC!CloseDataChannel
  <2>1. /\ teardown = "take" /\ teardown' = "close"
        /\ data_channel' \in {data_channel, "taken"}
        /\ \/ UNCHANGED <<rtc, buffered, channel_events, history>>
           \/ /\ rtc' = "channel closed" /\ buffered' = {}
              /\ channel_events' = Append(channel_events, "close") \/ channel_events' = channel_events
              /\ history' = [history EXCEPT !.lost = buffered]
        /\ UNCHANGED <<state, waiter, holder, unflushed, reported, received, poller, inbound, at>>
    BY <1>4 DEF DC!CloseDataChannel, DC!EndChannel
  <2>2. channel_events' \in Seq(Events)
    BY <2>1, EventArrives DEF Events
  <2>3. /\ history' \in [late : BOOLEAN, stale : BOOLEAN, lost : SUBSET DC!Senders]
        /\ history'.late = history.late /\ history'.stale = history.stale
        /\ history'.lost \in {history.lost, buffered}
    BY <2>1 DEF DC!TypeOK
  <2>4. DC!TypeOK'
    <3>1. SlotType' /\ ChannelType' /\ CloseType'
      BY <1>1, <2>1, <2>2, <2>3 DEF SlotType, ChannelType, CloseType, Ended
    <3> QED
      BY <1>1, <2>1, <3>1, TypePartsNext DEF StateType, LoopType
  <2>5. DC!Close \in buffered => history.late \/ history.stale
    BY <2>1 DEF DC!FlushOK
  <2>6. DC!SlotOK' /\ DC!CloseFlushed'
    BY <2>1, <2>3, <2>5 DEF DC!SlotOK, DC!CloseFlushed
  <2>7. DC!FlushOK'
    BY <2>1, <2>3 DEF DC!FlushOK
  <2> QED
    BY <2>4, <2>6, <2>7
<1> QED
  BY <1>2, <1>3, <1>4

\* The data channel keeps its invariant.
LEMMA DataChannelStep ==
  ASSUME DC!Inv, DC!Next
  PROVE  DC!Inv'
<1>1. CASE \E m \in DC!Senders : DC!Send(m) \/ DC!SendStep(m)
  BY <1>1, SendInv, SendTextInv, MarkInv DEF DC!SendStep
<1>2. CASE \E w \in Waiters : DC!WaitFor(w) \/ DC!WaitStep(w)
  BY <1>2, WaiterInv DEF DC!WaitStep
<1>3. CASE DC!TeardownStep
  BY <1>3, TeardownInv, RtcInv DEF DC!TeardownStep
<1>4. CASE DC!PollLoop \/ DC!TakeFrame \/ DC!WebRTC
  BY <1>4, LowInv, RtcInv DEF DC!PollLoop
<1> QED
  BY <1>1, <1>2, <1>3, <1>4 DEF DC!Next

LEMMA DataChannelInit == DC!Init => DC!Inv
<1> SUFFICES ASSUME DC!Init PROVE DC!Inv
  OBVIOUS
<1> USE DEF DC!Init
<1>1. channel_events \in Seq(Events) /\ DOMAIN channel_events = {}
  OBVIOUS
<1>2. waiter \in [Waiters -> WaiterType]
  <2> DEFINE E == <<>>
  <2>1. E \in Seq(DC!TransportStates)
    OBVIOUS
  <2>2. DC!Fresh = [at |-> "new", queue |-> E, lagged |-> FALSE]
    BY DEF DC!Fresh
  <2> HIDE DEF E
  <2>3. DC!Fresh \in WaiterType
    BY <2>1, <2>2 DEF WaiterType
  <2> QED
    BY <2>3
<1>3. StateType /\ SlotType
  <2>1. StateType
    BY <1>2 DEF StateType, DC!TransportStates
  <2>2. SlotType
    BY DEF SlotType
  <2> QED
    BY <2>1, <2>2
<1>3a. LoopType
  <2>1. 0 \in 0 .. EventCapacity
    BY TransportAssumption
  <2> QED
    BY <2>1 DEF LoopType
<1>4. ChannelType /\ CloseType
  <2>1. 0 \in 0 .. MaxReceived
    BY TransportAssumption
  <2>2. ChannelType
    BY <1>1, <2>1 DEF ChannelType, Ended
  <2>3. CloseType
    BY DEF CloseType
  <2> QED
    BY <2>2, <2>3
<1>5. DC!SlotOK /\ DC!CloseFlushed
  BY SenderFacts DEF DC!SlotOK, DC!CloseFlushed
<1>6. DC!FlushOK
  BY <1>1 DEF DC!FlushOK
<1> QED
  BY <1>3, <1>3a, <1>4, <1>5, <1>6, TypeParts DEF DC!Inv

-----------------------------------------------------------------------------
\* The negotiation and the data channel keep their invariants, whichever frame
\* overtakes which and however sends, reports of WebRTC and close interleave.
THEOREM Invariance == TransportSpec => []TransportInv
<1>1. TransportInit => TransportInv
  BY NegotiationInit, DataChannelInit DEF TransportInit, TransportInv
<1>2. TransportInv /\ [TransportNext]_<<negotiationVars, channelVars>> => TransportInv'
  <2> SUFFICES ASSUME TransportInv, [TransportNext]_<<negotiationVars, channelVars>>
               PROVE  TransportInv'
    OBVIOUS
  <2>1. Inv /\ DC!Inv
    BY DEF TransportInv
  <2>2. ASSUME UNCHANGED negotiationVars PROVE Inv'
    BY <2>1, <2>2 DEF negotiationVars, vars, candidateVars, Inv, TypeOK, CandidatesKept, DescribedFirst,
                      CandidatesTraced, Traced
  <2>3. ASSUME UNCHANGED channelVars PROVE DC!Inv'
    <3>1. UNCHANGED <<state, data_channel, holder, unflushed, rtc, reported, buffered, channel_events, poller,
                      inbound, received, at, teardown, waiter, history>>
      BY <2>3 DEF channelVars
    <3>2. DC!TypeOK' /\ DC!SlotOK' /\ DC!FlushOK' /\ DC!CloseFlushed'
      <4>1. StateType /\ SlotType /\ ChannelType /\ LoopType /\ CloseType
        BY <2>1, TypeParts DEF DC!Inv
      <4>2. DC!TypeOK'
        BY <3>1, <4>1, TypePartsNext DEF StateType, SlotType, ChannelType, LoopType, CloseType
      <4>3. DC!SlotOK' /\ DC!FlushOK' /\ DC!CloseFlushed'
        BY <2>1, <3>1 DEF DC!Inv, DC!SlotOK, DC!FlushOK, DC!CloseFlushed
      <4> QED
        BY <4>2, <4>3
    <3> QED
      BY <3>2 DEF DC!Inv
  <2>4. CASE Next /\ UNCHANGED channelVars
    BY <2>1, <2>3, <2>4, NegotiationStep DEF TransportInv
  <2>5. CASE Negotiated /\ DC!Next /\ UNCHANGED negotiationVars
    BY <2>1, <2>2, <2>5, DataChannelStep DEF TransportInv
  <2>6. CASE UNCHANGED <<negotiationVars, channelVars>>
    BY <2>2, <2>3, <2>6 DEF TransportInv
  <2> QED
    BY <2>4, <2>5, <2>6 DEF TransportNext
<1> QED
  BY <1>1, <1>2, PTL DEF TransportSpec

\* A candidate that reached a side with a peer connection is given to WebRTC, or
\* waits for a description that is not there yet, unless WebRTC refused one.
THEOREM CandidatesAreKept == TransportSpec => []CandidatesKept
<1>1. TransportInv => CandidatesKept
  BY DEF TransportInv, Inv
<1> QED
  BY <1>1, Invariance, PTL

\* teardown drops the Close frame only after the flush timed out, or after a Low
\* that was not the frame's own.
THEOREM GoodbyeIsFlushed == TransportSpec => []CloseFlushed
<1>1. TransportInv => CloseFlushed
  BY DEF TransportInv, DC!Inv, CloseFlushed
<1> QED
  BY <1>1, Invariance, PTL
=============================================================================
