--------------------------- MODULE SequenceLemmas ---------------------------
(***************************************************************************)
(* What Append and Tail do to the elements of a queue.  The proofs about   *)
(* the components use these facts about every mpsc and broadcast channel   *)
(* of the code.                                                            *)
(***************************************************************************)
EXTENDS Integers, Sequences, TLAPS

\* A sequence with one element more: the old elements stay where they are.
LEMMA AppendItems ==
  ASSUME NEW S, NEW s \in Seq(S), NEW e \in S
  PROVE  /\ Append(s, e) \in Seq(S)
         /\ \A i \in DOMAIN Append(s, e) :
              \/ i \in DOMAIN s /\ Append(s, e)[i] = s[i]
              \/ i \notin DOMAIN s /\ Append(s, e)[i] = e
         /\ \A i, j \in DOMAIN Append(s, e) : i \notin DOMAIN s => j <= i
         /\ \A i \in DOMAIN s : i \in DOMAIN Append(s, e) /\ i \in Nat
         /\ \E i \in DOMAIN Append(s, e) : i \notin DOMAIN s
<1> DEFINE t == Append(s, e)
<1>1. /\ t \in Seq(S) /\ Len(t) = Len(s) + 1 /\ t[Len(s) + 1] = e
      /\ \A i \in 1 .. Len(s) : t[i] = s[i]
  OBVIOUS
<1>2. DOMAIN s = 1 .. Len(s) /\ DOMAIN t = 1 .. Len(s) + 1 /\ Len(s) \in Nat
  BY <1>1
<1> HIDE DEF t
<1>3. Len(s) + 1 \in DOMAIN t /\ Len(s) + 1 \notin DOMAIN s
  BY <1>2
<1> QED
  BY <1>1, <1>2, <1>3 DEF t

\* A sequence without its first element: the others move up by one.
LEMMA TailItems ==
  ASSUME NEW S, NEW s \in Seq(S), s # <<>>
  PROVE  /\ Tail(s) \in Seq(S) /\ Head(s) \in S
         /\ 1 \in DOMAIN s /\ Head(s) = s[1]
         /\ \A i \in DOMAIN Tail(s) :
              /\ i \in Nat \ {0}
              /\ i + 1 \in DOMAIN s /\ Tail(s)[i] = s[i + 1]
         /\ \A i \in DOMAIN s : i # 1 => i - 1 \in DOMAIN Tail(s) /\ Tail(s)[i - 1] = s[i]
OBVIOUS

\* The empty sequence has no elements.
LEMMA EmptyItems ==
  ASSUME NEW S
  PROVE  <<>> \in Seq(S) /\ DOMAIN <<>> = {}
OBVIOUS
=============================================================================
