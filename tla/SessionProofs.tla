---------------------------- MODULE SessionProofs ----------------------------
(***************************************************************************)
(* Proofs about the status of a session, for any number of callers of      *)
(* wait_for_link, on every runtime: one thread or several, prompt or not,  *)
(* with a signaling layer that reports in turn or out of turn any number   *)
(* of times.                                                               *)
(*                                                                         *)
(* The argument: Connected is written, queued or read only after a data    *)
(* channel opened, and that stays true however often transport.setup runs, *)
(* because a connection that is replaced keeps its history                 *)
(* (ConnectedTraced); past its join close shares the session with no task  *)
(* (CloseAlone); and on a current-thread runtime, where setup runs once    *)
(* (SetupOnce) and tasks switch at awaits only (OneRuns), no task stands   *)
(* between the read of peer_closed and the write of the error when the     *)
(* close frame is handled (GoodbyeTraced).                                 *)
(***************************************************************************)
EXTENDS Session, SequenceLemmas, TLAPS

Pcs == Suspended \cup {"spawn", "status", "stored", "load", "error", "clear", "check", "state",
                       "connected"}

Errors == {None, "no common transport", "signaling failed", "setup failed", "transport failed"}

Rtcs == {"stored", "lost", "open", "failed", "closed"}

\* Without a connection no channel has opened, and while the connections stay as
\* they are nothing opens.
LEMMA OpenedItems ==
  /\ rtc = <<>> => ~Opened
  /\ rtc' = rtc => (Opened' <=> Opened)
<1>1. DOMAIN <<>> = {}
  OBVIOUS
<1> QED
  BY <1>1 DEF Opened

\* A report reaches the receivers that have subscribed, and no other report of
\* Connected is new.
LEMMA SetTransportItems ==
  ASSUME TypeOK, ConnectedTraced, NEW s \in TransportState, SetTransport(s),
         Opened => Opened', s = "Connected" => Opened'
  PROVE  /\ transport' \in TransportState /\ states' \in [Receivers -> Seq(TransportState)]
         /\ transport' = "Connected" => Opened'
         /\ \A r \in Receivers : \A i \in DOMAIN states'[r] :
              states'[r][i] = "Connected" => Opened'
<1>1. ASSUME NEW r \in Receivers
      PROVE  /\ states'[r] \in Seq(TransportState)
             /\ \A i \in DOMAIN states'[r] : states'[r][i] = "Connected" => Opened'
  <2>1. /\ states[r] \in Seq(TransportState)
        /\ \A i \in DOMAIN states[r] : states[r][i] = "Connected" => Opened
    BY DEF TypeOK, ConnectedTraced
  <2>2. states'[r] = Append(states[r], s) \/ states'[r] = states[r]
    BY DEF SetTransport
  <2>3. CASE states'[r] = states[r]
    BY <2>1, <2>3
  <2>4. CASE states'[r] = Append(states[r], s)
    <3> DEFINE t == Append(states[r], s)
    <3>1. /\ t \in Seq(TransportState)
          /\ \A i \in DOMAIN t : t[i] = s \/ (i \in DOMAIN states[r] /\ t[i] = states[r][i])
      BY <2>1, AppendItems
    <3>2. states'[r] = t
      BY <2>4
    <3> HIDE DEF t
    <3> QED
      BY <2>1, <3>1, <3>2
  <2> QED
    BY <2>2, <2>3, <2>4
<1>2. states' \in [Receivers -> Seq(TransportState)]
  <2>1. states' = [r \in Receivers |-> states'[r]]
    BY DEF SetTransport
  <2> QED
    BY <1>1, <2>1
<1> QED
  BY <1>1, <1>2 DEF SetTransport

\* The states of a session that a step of one task must keep, given that the
\* sources and close are left alone, and the queues too unless the task ends.
LEMMA MoveInv ==
  ASSUME Inv, NEW t \in Tasks, NEW pc \in Pcs \ {"new"},
         Goto(t, pc),
         UNCHANGED <<states, signals>> \/ Ends(t),
         UNCHANGED <<peer_closed, signaling, races, transport, rtc, goodbye, closer, runtime>>,
         status' \in SessionState, error' \in Errors,
         answer' \in [Waiters -> {None, "ok", "failed", "closed"}],
         MayRun(t) \/ pc \in Suspended,
         pc = "spawn" => at[t] = "new",
         pc \notin {"setup", "stored"},
         pc = "connected" => Opened,
         pc = "error" => ~peer_closed,
         closer \in {"torn", "done"} => pc = "done" /\ status' = status,
         LinkIsReal', CleanGoodbye'
  PROVE  Inv'
<1> USE DEF Inv
<1>1. at' = [at EXCEPT ![t] = pc] /\ at \in [Tasks -> Pcs]
  BY DEF Goto, TypeOK, Pcs
<1>2. at' \in [Tasks -> Pcs] /\ at'[t] = pc /\ \A u \in Tasks \ {t} : at'[u] = at[u]
  BY <1>1
<1>3. "connect" \in Tasks /\ "signal" \in Tasks /\ Waiters \subseteq Tasks
  BY DEF Tasks, Loops
<1>4. Opened' <=> Opened
  BY OpenedItems
<1>5. /\ signals' \in Seq(SignalState)
      /\ \A i \in DOMAIN signals' : i \in DOMAIN signals /\ signals'[i] = signals[i]
  <2>1. signals' = signals \/ signals' = <<>>
    BY DEF Ends
  <2>2. signals \in Seq(SignalState)
    BY DEF TypeOK
  <2> QED
    BY <2>1, <2>2, EmptyItems
<1>6. /\ states' \in [Receivers -> Seq(TransportState)]
      /\ \A r \in Receivers : \A i \in DOMAIN states'[r] :
           i \in DOMAIN states[r] /\ states'[r][i] = states[r][i]
  <2>1. states \in [Receivers -> Seq(TransportState)]
    BY DEF TypeOK
  <2>2. CASE UNCHANGED states
    BY <2>1, <2>2
  <2>3. CASE Ends(t)
    <3> DEFINE E == <<>>
    <3>1. E \in Seq(TransportState) /\ DOMAIN E = {}
      BY EmptyItems
    <3>2. states' = [r \in Receivers |-> IF r = t THEN E ELSE states[r]]
      BY <2>3 DEF Ends
    <3> HIDE DEF E
    <3> QED
      BY <2>1, <3>1, <3>2
  <2> QED
    BY <2>2, <2>3
<1>7. TypeOK'
  BY <1>2, <1>5, <1>6 DEF TypeOK, Errors, Pcs
<1>8. CloseIsFinal'
  BY DEF CloseIsFinal
<1>9. ConnectedTraced'
  BY <1>2, <1>3, <1>4, <1>6 DEF ConnectedTraced
<1>10. CloseAlone'
  BY <1>2 DEF CloseAlone
<1>11. NotStarted'
  BY <1>2, <1>3 DEF NotStarted
<1>12. SetupOnce'
  <2>1. Pending' \subseteq Pending
    BY <1>5 DEF Pending
  <2> QED
    BY <1>2, <1>3, <2>1 DEF SetupOnce
<1>13. OneRuns'
  BY <1>2 DEF OneRuns, MayRun
<1>14. GoodbyeTraced'
  BY <1>2, <1>4, <1>5 DEF GoodbyeTraced
<1> QED
  BY <1>7, <1>8, <1>9, <1>10, <1>11, <1>12, <1>13, <1>14

\* connect and the first polls of the loops.
LEMMA ConnectInv ==
  ASSUME Inv, UNCHANGED runtime, Connect \/ ConnectEnds \/ \E t \in Loops : LoopStarts(t)
  PROVE  Inv'
<1> USE DEF Inv
<1>1. PICK t \in Tasks, pc \in {"spawn", "done", "recv"} :
        /\ Goto(t, pc) /\ MayRun(t)
        /\ pc = "spawn" => at[t] = "new" /\ ~closed
        /\ pc # "spawn" => at[t] \in {"setup", "start"} /\ status' = status
        /\ at[t] # "clear"
        /\ status' \in {status, "Signaling"}
        /\ UNCHANGED <<error, peer_closed, signaling, signals, races, transport, states, rtc, goodbye,
                       answer, closer>>
  BY DEF Connect, ConnectEnds, LoopStarts, Tasks, Loops, signalVars, linkVars
<1>2. LinkIsReal'
  BY <1>1, OpenedItems DEF LinkIsReal
<1>3. "event" \in Tasks /\ at'["event"] # "clear" => at["event"] # "clear"
  BY <1>1 DEF Goto, TypeOK, Tasks, Loops
<1>4. CleanGoodbye'
  BY <1>1, <1>3 DEF CleanGoodbye, Tasks, Loops
<1>5. closer \in {"torn", "done"} => pc = "done" /\ status' = status
  BY <1>1 DEF CloseAlone, closed
<1>6. status' \in SessionState /\ error' \in Errors
  BY <1>1 DEF TypeOK, SessionState, Errors
<1>7. pc \in Pcs \ {"new"}
  BY DEF Pcs, Suspended
<1> QED
  BY <1>1, <1>2, <1>4, <1>5, <1>6, <1>7, MoveInv DEF TypeOK

\* start_event_loops: the loops are spawned, and all of them wait to be polled.
LEMMA StartInv ==
  ASSUME Inv, UNCHANGED runtime, StartEventLoops
  PROVE  Inv'
<1> USE DEF Inv
<1>1. /\ at["connect"] = "spawn" /\ MayRun("connect")
      /\ UNCHANGED <<status, error, peer_closed, signals, races, transport, states, rtc, goodbye, answer,
                     closer, runtime>>
      /\ Opened' <=> Opened
  BY OpenedItems DEF StartEventLoops, linkVars
<1>2. /\ at \in [Tasks -> Pcs] /\ Waiters \subseteq Tasks
      /\ {"connect", "signal", "event"} \subseteq Tasks /\ {"signal", "event"} \subseteq Loops
      /\ \A w \in Waiters : w \notin Loops \cup {"connect"}
  BY SessionAssumption DEF Tasks, Loops, TypeOK, Pcs
<1>3. closer \notin {"torn", "done"}
  BY <1>1, <1>2 DEF CloseAlone
<1>4. signaling = "Standby"
  BY <1>1 DEF NotStarted
<1>5. /\ at' \in [Tasks -> Pcs] /\ signaling' \in {"Standby", "Connecting"}
      /\ \A t \in Tasks : at'[t] \in Suspended \/ (at'[t] = at[t] /\ t # "connect")
      /\ at'["connect"] \in {"setup", "done"}
      /\ at'["signal"] \in {at["signal"], "start"} /\ at'["event"] \in {at["event"], "start"}
      /\ \A w \in Waiters : at'[w] = at[w]
  <2>1. CASE closed
    BY <1>1, <1>2, <1>4, <2>1 DEF StartEventLoops, Goto, Pcs, Suspended
  <2>2. CASE ~closed
    <3>1. /\ signaling' = "Connecting"
          /\ at' = [t \in Tasks |-> IF t \in Loops THEN "start"
                                    ELSE IF t = "connect" THEN "setup" ELSE at[t]]
      BY <2>2 DEF StartEventLoops
    <3>2. "connect" \notin Loops /\ {"start", "setup"} \subseteq Suspended /\ Suspended \subseteq Pcs
      BY DEF Loops, Suspended, Pcs
    <3>3. at' \in [Tasks -> Pcs]
      BY <1>2, <3>1, <3>2
    <3>4. \A t \in Tasks : at'[t] \in Suspended \/ (at'[t] = at[t] /\ t # "connect")
      BY <3>1, <3>2
    <3> QED
      BY <1>2, <3>1, <3>2, <3>3, <3>4
  <2> QED
    BY <2>1, <2>2
<1>6. at["event"] # "clear" \/ runtime.preemptive
  BY <1>1, <1>2 DEF MayRun, Suspended
<1>7. TypeOK'
  BY <1>1, <1>5 DEF TypeOK, Pcs, SignalState
<1>8. CloseIsFinal' /\ LinkIsReal' /\ CloseAlone'
  BY <1>1, <1>3 DEF CloseIsFinal, LinkIsReal, CloseAlone
<1>9. ConnectedTraced'
  BY <1>1, <1>5 DEF ConnectedTraced
<1>10. NotStarted' /\ SetupOnce'
  BY <1>1, <1>4, <1>5 DEF NotStarted, SetupOnce, Pending
<1>11. OneRuns'
  BY <1>1, <1>2, <1>5 DEF OneRuns, MayRun
<1>12. GoodbyeTraced'
  BY <1>1, <1>4, <1>5 DEF GoodbyeTraced, Suspended
<1>13. CleanGoodbye'
  BY <1>1, <1>6 DEF CleanGoodbye
<1> QED
  BY <1>7, <1>8, <1>9, <1>10, <1>11, <1>12, <1>13

\* The signaling layer reports, in turn or out of turn.
LEMMA ReportInv ==
  ASSUME Inv, UNCHANGED runtime, NEW s \in SignalState, Broadcast(s),
         \/ SignalingReports(s)
         \/ RacingReports(s)
  PROVE  Inv'
<1> USE DEF Inv
<1>1. /\ closer # "done" /\ races' \in Nat
      /\ signals' = Append(signals, s) \/ signals' = signals
      /\ UNCHANGED <<status, error, peer_closed, transport, states, rtc, goodbye, at, answer, closer,
                     runtime>>
      /\ Opened' <=> Opened
  <2>1. races' \in Nat
    <3>1. races \in Nat
      BY DEF TypeOK
    <3>2. races' \in {races, races + 1}
      BY DEF SignalingReports, RacingReports
    <3> QED
      BY <3>1, <3>2
  <2> QED
    BY <2>1, OpenedItems DEF Broadcast, linkVars
<1>2. /\ signaling # "Standby" /\ signaling' \in SignalState
      /\ (signaling' = s /\ signaling \notin {"Encrypted", "Error"}) \/ runtime.racing
  <2>1. CASE SignalingReports(s)
    BY <2>1 DEF SignalingReports, Reports, TypeOK
  <2>2. CASE RacingReports(s)
    BY <2>2 DEF RacingReports, TypeOK
  <2> QED
    BY <2>1, <2>2
<1>3. /\ signals' \in Seq(SignalState)
      /\ \A i \in DOMAIN signals' :
           \/ i \in DOMAIN signals /\ signals'[i] = signals[i]
           \/ i \notin DOMAIN signals /\ signals'[i] = s
      /\ \A i, j \in DOMAIN signals' : i \notin DOMAIN signals /\ j \notin DOMAIN signals => i = j
  <2>1. signals \in Seq(SignalState)
    BY DEF TypeOK
  <2>2. CASE signals' = signals
    BY <2>1, <2>2
  <2>3. CASE signals' = Append(signals, s)
    BY <2>1, <2>3, AppendItems
  <2> QED
    BY <1>1, <2>2, <2>3
<1>4. NotStarted'
  BY <1>1, <1>2 DEF NotStarted
<1>5. SetupOnce'
  <2> SUFFICES ASSUME ~runtime.racing
               PROVE  SetupOnce'
    BY <1>1 DEF SetupOnce
  <2>1. Pending = {} /\ at["signal"] \notin {"setup", "stored"} /\ rtc = <<>> /\ signaling' = s
    BY <1>2 DEF SetupOnce
  <2>2. \A i \in Pending' : i \notin DOMAIN signals /\ s = "Encrypted"
    BY <1>3, <2>1 DEF Pending
  <2>3. \A i, j \in Pending' : i = j
    BY <1>3, <2>2 DEF Pending
  <2>4. s # "Encrypted" => Pending' = {}
    BY <2>2
  <2> QED
    BY <1>1, <2>1, <2>3, <2>4 DEF SetupOnce
<1>6. GoodbyeTraced'
  BY <1>1, <1>2, <1>3 DEF GoodbyeTraced
<1>7. TypeOK'
  BY <1>1, <1>2, <1>3 DEF TypeOK
<1>8. CloseIsFinal' /\ LinkIsReal' /\ ConnectedTraced' /\ CloseAlone' /\ OneRuns' /\ CleanGoodbye'
  BY <1>1 DEF CloseIsFinal, LinkIsReal, ConnectedTraced, CloseAlone, OneRuns, CleanGoodbye
<1> QED
  BY <1>4, <1>5, <1>6, <1>7, <1>8

\* WebRTC reports: a channel opens, fails or closes.
LEMMA RtcInv ==
  ASSUME Inv, UNCHANGED runtime, NEW k \in DOMAIN rtc,
         ChannelOpens(k) \/ ConnectionFails(k) \/ ChannelCloses(k)
  PROVE  Inv'
<1> USE DEF Inv
<1>1. PICK s \in {"Connected", "Error"}, c \in Rtcs :
        /\ SetTransport(s)
        /\ rtc' = [rtc EXCEPT ![k] = c]
        /\ rtc[k] \in {"open", "failed", "closed"} \/ s = "Connected" => c \in {"open", "failed", "closed"}
        /\ UNCHANGED <<status, error, peer_closed, signaling, signals, races, goodbye, at, answer, closer,
                       runtime>>
  BY DEF ChannelOpens, ConnectionFails, ChannelCloses, signalVars, Rtcs
<1>2. /\ rtc' \in Seq(Rtcs) /\ Len(rtc') = Len(rtc) /\ rtc # <<>>
      /\ Opened => Opened'
      /\ s = "Connected" => Opened'
  <2>1. rtc \in Seq(Rtcs)
    BY DEF TypeOK, Rtcs
  <2>2. /\ rtc' \in Seq(Rtcs) /\ Len(rtc') = Len(rtc) /\ rtc # <<>>
        /\ DOMAIN rtc' = DOMAIN rtc /\ rtc'[k] = c
        /\ \A i \in DOMAIN rtc : i # k => rtc'[i] = rtc[i]
    BY <1>1, <2>1
  <2> QED
    BY <1>1, <2>2 DEF Opened
<1>3. s \in TransportState
  BY DEF TransportState
<1>4. /\ transport' \in TransportState /\ states' \in [Receivers -> Seq(TransportState)]
      /\ transport' = "Connected" => Opened'
      /\ \A r \in Receivers : \A i \in DOMAIN states'[r] :
           states'[r][i] = "Connected" => Opened'
  BY <1>1, <1>2, <1>3, SetTransportItems
<1>5. TypeOK'
  BY <1>1, <1>2, <1>4 DEF TypeOK, Rtcs
<1>6. ConnectedTraced' /\ LinkIsReal' /\ GoodbyeTraced'
  BY <1>1, <1>2, <1>4 DEF ConnectedTraced, LinkIsReal, GoodbyeTraced
<1>7. NotStarted' /\ SetupOnce'
  BY <1>1, <1>2 DEF NotStarted, SetupOnce, Pending
<1>8. CloseIsFinal' /\ CloseAlone' /\ OneRuns' /\ CleanGoodbye'
  BY <1>1 DEF CloseIsFinal, CloseAlone, OneRuns, CleanGoodbye
<1> QED
  BY <1>5, <1>6, <1>7, <1>8

\* The close frame of the peer arrives, close is called, close ends.
LEMMA GoodbyeArrivesInv ==
  ASSUME Inv, UNCHANGED runtime,
         (\E i \in DOMAIN rtc : PeerCloseArrives(i)) \/ Close \/ CloseEnds
  PROVE  Inv'
<1> USE DEF Inv
<1>1. /\ UNCHANGED <<error, peer_closed, signaling, signals, races, transport, states, rtc, at, answer,
                     runtime>>
      /\ goodbye' \in {goodbye, "queued"} /\ (goodbye' # goodbye => Opened)
      /\ status' \in {status, "Disconnected"}
      /\ closer' \in {"open", "closing", "torn", "done"}
      /\ closer' \in {"torn", "done"} => closer \in {"torn", "done"}
      /\ closer' = "done" => status' = "Disconnected" \/ (status' = status /\ closer = "done")
  BY DEF PeerCloseArrives, Close, CloseEnds, signalVars, linkVars, Opened, closed, TypeOK
<1>2. Opened' <=> Opened
  BY <1>1, OpenedItems
<1>3. TypeOK'
  BY <1>1 DEF TypeOK, SessionState
<1>4. CloseIsFinal' /\ CloseAlone' /\ LinkIsReal'
  BY <1>1, <1>2 DEF CloseIsFinal, CloseAlone, LinkIsReal
<1>5. GoodbyeTraced'
  BY <1>1, <1>2 DEF GoodbyeTraced
<1>6. ConnectedTraced' /\ NotStarted' /\ SetupOnce' /\ OneRuns' /\ CleanGoodbye'
  BY <1>1, <1>2 DEF ConnectedTraced, NotStarted, SetupOnce, Pending, OneRuns, CleanGoodbye
<1> QED
  BY <1>3, <1>4, <1>5, <1>6

\* Past its join close tears the transport down.
LEMMA TeardownInv ==
  ASSUME Inv, UNCHANGED runtime, Teardown
  PROVE  Inv'
<1> USE DEF Inv
<1>1. /\ \A t \in Tasks : at[t] \in {"new", "done"}
      /\ closer' = "torn"
      /\ SetTransport("Standby") \/ UNCHANGED <<transport, states>>
      /\ UNCHANGED <<status, error, peer_closed, signaling, signals, races, rtc, goodbye, at, answer,
                     runtime>>
      /\ Opened' <=> Opened
  BY OpenedItems DEF Teardown, signalVars
<1>2. /\ transport' \in TransportState /\ states' \in [Receivers -> Seq(TransportState)]
      /\ transport' = "Connected" => Opened'
      /\ \A r \in Receivers : \A i \in DOMAIN states'[r] :
           states'[r][i] = "Connected" => Opened'
  <2>1. CASE SetTransport("Standby")
    <3>1. "Standby" \in TransportState
      BY DEF TransportState
    <3> QED
      BY <1>1, <2>1, <3>1, SetTransportItems
  <2>2. CASE UNCHANGED <<transport, states>>
    BY <1>1, <2>2 DEF TypeOK, ConnectedTraced
  <2> QED
    BY <1>1, <2>1, <2>2
<1>3. TypeOK'
  BY <1>1, <1>2 DEF TypeOK
<1>4. ConnectedTraced' /\ CloseAlone' /\ CloseIsFinal' /\ LinkIsReal'
  BY <1>1, <1>2 DEF ConnectedTraced, CloseAlone, CloseIsFinal, LinkIsReal
<1>5. NotStarted' /\ SetupOnce' /\ OneRuns' /\ CleanGoodbye' /\ GoodbyeTraced'
  BY <1>1 DEF NotStarted, SetupOnce, Pending, OneRuns, CleanGoodbye, GoodbyeTraced
<1> QED
  BY <1>3, <1>4, <1>5

\* A report leaves the queue of the signal loop.
LEMMA ReceiveSignalItems ==
  ASSUME Inv, NEW s, ReceiveSignal(s)
  PROVE  /\ signals' \in Seq(SignalState)
         /\ Pending = {} => Pending' = {}
         /\ s = "Encrypted" => Pending # {}
         /\ ~runtime.racing /\ s = "Encrypted" => Pending' = {}
         /\ ~runtime.racing => \A i, j \in Pending' : i = j
         /\ ~runtime.racing /\ signaling # "Error" => s # "Error" /\ \A i \in DOMAIN signals' : signals'[i] # "Error"
<1> USE DEF Inv
<1>1. /\ signals \in Seq(SignalState) /\ signals # <<>> /\ Head(signals) = s
      /\ signals' = Tail(signals)
  BY DEF ReceiveSignal, TypeOK
<1>2. /\ signals' \in Seq(SignalState)
      /\ 1 \in DOMAIN signals /\ signals[1] = s
      /\ \A i \in DOMAIN signals' :
           i + 1 \in DOMAIN signals /\ signals'[i] = signals[i + 1] /\ i + 1 # 1
      /\ \A i, j \in DOMAIN signals' : i + 1 = j + 1 => i = j
  BY <1>1, TailItems
<1>3. \A i \in Pending' : i \in DOMAIN signals' /\ i + 1 \in Pending /\ i + 1 # 1
  BY <1>2 DEF Pending
<1>4. ~runtime.racing => \A i, j \in Pending : i = j
  BY DEF SetupOnce
<1>5. s = "Encrypted" => 1 \in Pending
  BY <1>2 DEF Pending
<1>6. ~runtime.racing => \A i, j \in Pending' : i = j
  BY <1>2, <1>3, <1>4
<1>7. ~runtime.racing /\ s = "Encrypted" => Pending' = {}
  BY <1>3, <1>4, <1>5
<1>8. ~runtime.racing /\ signaling # "Error" => s # "Error" /\ \A i \in DOMAIN signals' : signals'[i] # "Error"
  BY <1>2 DEF GoodbyeTraced
<1> QED
  BY <1>2, <1>3, <1>5, <1>6, <1>7, <1>8

\* The signal loop writes the progress of the handshake, or a failure.
LEMMA SignalLoopInv ==
  ASSUME Inv, UNCHANGED runtime, SignalProgress \/ SignalFails
  PROVE  Inv'
<1> USE DEF Inv
<1>1. PICK s \in SignalState :
        /\ ReceiveSignal(s)
        /\ \/ /\ status' \in {"Ready", "Linking"} /\ UNCHANGED <<error, at>>
           \/ /\ s \in {"Encrypted", "Error"} /\ error' \in Errors /\ Goto("signal", "status")
              /\ UNCHANGED status
        /\ UNCHANGED <<peer_closed, signaling, races, transport, states, rtc, goodbye, answer, closer, runtime>>
        /\ Opened' <=> Opened
  BY OpenedItems DEF SignalProgress, SignalFails, linkVars, SignalState, Errors
<1>2. /\ {"signal", "event", "connect"} \subseteq Tasks /\ Waiters \subseteq Tasks
      /\ \A w \in Waiters : w # "signal"
  BY SessionAssumption DEF Tasks, Loops
<1>3. at["signal"] = "recv" /\ MayRun("signal")
  BY <1>1 DEF ReceiveSignal
<1>4. closer \notin {"torn", "done"}
  BY <1>2, <1>3 DEF CloseAlone
<1>5. /\ signals' \in Seq(SignalState)
      /\ Pending = {} => Pending' = {}
      /\ s = "Encrypted" => Pending # {}
      /\ ~runtime.racing => \A i, j \in Pending' : i = j
      /\ ~runtime.racing /\ signaling # "Error" =>
           s # "Error" /\ \A i \in DOMAIN signals' : signals'[i] # "Error"
  BY <1>1, ReceiveSignalItems
<1>6. /\ at' \in [Tasks -> Pcs] /\ at'["signal"] \in {"recv", "status"}
      /\ \A t \in Tasks \ {"signal"} : at'[t] = at[t]
  <2>1. at \in [Tasks -> Pcs] /\ "status" \in Pcs
    BY DEF TypeOK, Pcs
  <2> QED
    BY <1>1, <1>2, <1>3, <2>1 DEF Goto
<1>7. TypeOK'
  BY <1>1, <1>5, <1>6 DEF TypeOK, Errors, Pcs, SessionState
<1>8. CloseIsFinal' /\ CloseAlone' /\ LinkIsReal'
  BY <1>1, <1>4 DEF CloseIsFinal, CloseAlone, LinkIsReal
<1>9. ConnectedTraced'
  BY <1>1, <1>2, <1>6 DEF ConnectedTraced
<1>10. NotStarted' /\ SetupOnce'
  BY <1>1, <1>2, <1>5, <1>6 DEF NotStarted, SetupOnce
<1>11. OneRuns'
  BY <1>1, <1>2, <1>3, <1>6 DEF OneRuns, MayRun
<1>12. GoodbyeTraced'
  BY <1>1, <1>2, <1>5, <1>6 DEF GoodbyeTraced
<1>13. CleanGoodbye'
  <2>1. at'["event"] = at["event"]
    BY <1>2, <1>6
  <2>2. ~runtime.racing /\ peer_closed => s \notin {"Encrypted", "Error"}
    BY <1>5, OpenedItems DEF SetupOnce, GoodbyeTraced
  <2> QED
    BY <1>1, <2>1, <2>2 DEF CleanGoodbye
<1> QED
  BY <1>7, <1>8, <1>9, <1>10, <1>11, <1>12, <1>13

\* transport.setup() begins, stores the peer connection and ends.
LEMMA SetupInv ==
  ASSUME Inv, UNCHANGED runtime, SetupTransport \/ StorePeerConnection \/ SetupEnds
  PROVE  Inv'
<1> USE DEF Inv
<1>1. PICK pc \in {"setup", "stored", "recv"} :
        /\ Goto("signal", pc) /\ MayRun("signal")
        /\ at["signal"] = CASE pc = "setup" -> "recv" [] pc = "stored" -> "setup" [] OTHER -> "stored"
        /\ IF pc = "setup" THEN ReceiveSignal("Encrypted") ELSE UNCHANGED signals
        /\ IF pc = "stored" THEN UNCHANGED <<transport, states>>
           ELSE SetTransport(IF pc = "setup" THEN "Connecting" ELSE "Ready")
        /\ rtc' = IF pc = "stored" THEN Append(rtc, "stored") ELSE rtc
        /\ UNCHANGED <<status, error, peer_closed, signaling, races, goodbye, answer, closer, runtime>>
  BY DEF SetupTransport, StorePeerConnection, SetupEnds, ReceiveSignal, signalVars
<1>2. /\ {"signal", "event", "connect"} \subseteq Tasks /\ Waiters \subseteq Tasks
      /\ \A w \in Waiters : w # "signal"
  BY SessionAssumption DEF Tasks, Loops
<1>3. closer \notin {"torn", "done"}
  BY <1>1, <1>2 DEF CloseAlone
<1>4. /\ at' \in [Tasks -> Pcs] /\ at'["signal"] = pc
      /\ \A t \in Tasks \ {"signal"} : at'[t] = at[t]
  <2>1. at \in [Tasks -> Pcs] /\ pc \in Pcs
    BY DEF TypeOK, Pcs, Suspended
  <2> QED
    BY <1>1, <1>2, <2>1 DEF Goto
<1>5. /\ signals' \in Seq(SignalState)
      /\ pc = "setup" => Pending # {} /\ (~runtime.racing => Pending' = {})
      /\ pc # "setup" => Pending' = Pending
      /\ ~runtime.racing /\ signaling # "Error" => \A i \in DOMAIN signals' : signals'[i] # "Error"
  <2>1. CASE pc = "setup"
    <3>1. ReceiveSignal("Encrypted")
      BY <1>1, <2>1
    <3> QED
      BY <2>1, <3>1, ReceiveSignalItems
  <2>2. CASE pc # "setup"
    BY <1>1, <2>2 DEF TypeOK, GoodbyeTraced, Pending
  <2> QED
    BY <2>1, <2>2
<1>6. pc = "stored" /\ ~runtime.racing => rtc = <<>> /\ Pending = {}
  BY <1>1 DEF SetupOnce
<1>7. rtc' \in Seq(Rtcs) /\ (Opened => Opened') /\ (pc = "stored" => Len(rtc') = Len(rtc) + 1)
  <2>1. rtc \in Seq(Rtcs) /\ "stored" \in Rtcs
    BY DEF TypeOK, Rtcs
  <2>2. CASE pc = "stored"
    <3>1. /\ rtc' \in Seq(Rtcs) /\ Len(rtc') = Len(rtc) + 1
          /\ \A i \in DOMAIN rtc : i \in DOMAIN rtc' /\ rtc'[i] = rtc[i]
      BY <1>1, <2>1, <2>2
    <3> QED
      BY <3>1 DEF Opened
  <2>3. CASE pc # "stored"
    BY <1>1, <2>1, <2>3, OpenedItems
  <2> QED
    BY <2>2, <2>3
<1>8. /\ transport' \in TransportState /\ states' \in [Receivers -> Seq(TransportState)]
      /\ transport' = "Connected" => Opened'
      /\ \A r \in Receivers : \A i \in DOMAIN states'[r] :
           states'[r][i] = "Connected" => Opened'
  <2>1. CASE pc = "stored"
    BY <1>1, <1>7, <2>1 DEF TypeOK, ConnectedTraced
  <2>2. CASE pc # "stored"
    <3>1. PICK s \in {"Connecting", "Ready"} : SetTransport(s)
      BY <1>1, <2>2
    <3>2. s \in TransportState /\ s # "Connected"
      BY DEF TransportState
    <3> QED
      BY <1>7, <3>1, <3>2, SetTransportItems
  <2> QED
    BY <2>1, <2>2
<1>9. TypeOK'
  BY <1>1, <1>4, <1>5, <1>7, <1>8 DEF TypeOK, Pcs, Rtcs
<1>10. CloseIsFinal' /\ CloseAlone' /\ LinkIsReal'
  BY <1>1, <1>3, <1>7 DEF CloseIsFinal, CloseAlone, LinkIsReal
<1>11. ConnectedTraced'
  BY <1>2, <1>4, <1>7, <1>8 DEF ConnectedTraced
<1>12. NotStarted' /\ SetupOnce'
  <2>1. NotStarted'
    BY <1>1, <1>2, <1>4 DEF NotStarted
  <2>2. Len(<<>>) = 0
    OBVIOUS
  <2> QED
    BY <1>1, <1>2, <1>4, <1>5, <1>6, <1>7, <2>1, <2>2 DEF SetupOnce
<1>13. OneRuns'
  BY <1>1, <1>2, <1>4 DEF OneRuns, MayRun
<1>14. GoodbyeTraced' /\ CleanGoodbye'
  BY <1>1, <1>2, <1>4, <1>5, <1>7 DEF GoodbyeTraced, CleanGoodbye
<1> QED
  BY <1>9, <1>10, <1>11, <1>12, <1>13, <1>14

\* A report leaves the queue of a receiver of the transport.
LEMMA ReceiveStateItems ==
  ASSUME Inv, NEW t \in Receivers, NEW s, ReceiveState(t, s), UNCHANGED rtc
  PROVE  /\ states' \in [Receivers -> Seq(TransportState)]
         /\ s = "Connected" => Opened
         /\ \A r \in Receivers : \A i \in DOMAIN states'[r] :
              states'[r][i] = "Connected" => Opened'
<1> USE DEF Inv
<1>1. /\ states \in [Receivers -> Seq(TransportState)] /\ states[t] # <<>> /\ Head(states[t]) = s
      /\ states' = [states EXCEPT ![t] = Tail(states[t])]
  BY DEF ReceiveState, TypeOK
<1> DEFINE q == Tail(states[t])
<1>2. /\ q \in Seq(TransportState) /\ 1 \in DOMAIN states[t] /\ states[t][1] = s
      /\ \A i \in DOMAIN q : i + 1 \in DOMAIN states[t] /\ q[i] = states[t][i + 1]
  BY <1>1, TailItems
<1>3. states' = [states EXCEPT ![t] = q]
  BY <1>1
<1> HIDE DEF q
<1>4. (s = "Connected" => Opened) /\ (Opened' <=> Opened)
  BY <1>2, OpenedItems DEF ConnectedTraced
<1>5. ASSUME NEW r \in Receivers, NEW i \in DOMAIN states'[r], states'[r][i] = "Connected"
      PROVE  Opened'
  <2>1. CASE r = t
    <3>1. states'[r] = q
      BY <1>1, <1>3, <2>1
    <3> QED
      BY <1>2, <1>4, <1>5, <3>1 DEF ConnectedTraced
  <2>2. CASE r # t
    <3>1. states'[r] = states[r]
      BY <1>1, <1>3, <2>2
    <3> QED
      BY <1>4, <1>5, <3>1 DEF ConnectedTraced
  <2> QED
    BY <2>1, <2>2
<1> QED
  BY <1>1, <1>2, <1>3, <1>4, <1>5

\* The transport loop and wait_for_link receive.
LEMMA ReceiveInv ==
  ASSUME Inv, UNCHANGED runtime, TransportLoop \/ \E w \in Waiters : WaitReceives(w)
  PROVE  Inv'
<1> USE DEF Inv
<1>1. PICK t \in Receivers, s \in TransportState, pc \in {"recv", "load", "connected", "state"} :
        /\ ReceiveState(t, s)
        /\ IF pc = "recv" THEN UNCHANGED at ELSE Goto(t, pc)
        /\ pc = "connected" => s = "Connected"
        /\ status' # status => status' = "Connected" /\ s = "Connected"
        /\ UNCHANGED <<error, peer_closed, signaling, signals, races, transport, rtc, goodbye, answer,
                       closer, runtime>>
  <2>1. CASE TransportLoop
    BY <2>1 DEF TransportLoop, Receivers, Other, TransportState, signalVars
  <2>2. ASSUME NEW w \in Waiters, WaitReceives(w)
        PROVE  \E s \in TransportState, pc \in {"recv", "load", "connected", "state"} :
                 /\ ReceiveState(w, s)
                 /\ IF pc = "recv" THEN UNCHANGED at ELSE Goto(w, pc)
                 /\ pc = "connected" => s = "Connected"
                 /\ UNCHANGED <<status, error, peer_closed, signaling, signals, races, transport, rtc,
                                goodbye, answer, closer>>
    BY <2>2 DEF WaitReceives, Other, TransportState, signalVars
  <2> QED
    BY <2>1, <2>2 DEF Receivers
<1>2. /\ {"signal", "event", "connect"} \subseteq Tasks /\ Waiters \subseteq Tasks
      /\ t \in Tasks /\ t \notin {"signal", "event", "connect"}
  BY SessionAssumption DEF Tasks, Loops, Receivers
<1>3. at[t] = "recv" /\ MayRun(t)
  BY <1>1 DEF ReceiveState
<1>4. closer \notin {"torn", "done"}
  BY <1>2, <1>3 DEF CloseAlone
<1>5. /\ states' \in [Receivers -> Seq(TransportState)]
      /\ s = "Connected" => Opened
      /\ \A r \in Receivers : \A i \in DOMAIN states'[r] :
           states'[r][i] = "Connected" => Opened'
      /\ Opened' <=> Opened
  BY <1>1, ReceiveStateItems, OpenedItems
<1>6. at' \in [Tasks -> Pcs] /\ at'[t] = pc /\ \A u \in Tasks \ {t} : at'[u] = at[u]
  <2>1. at \in [Tasks -> Pcs] /\ pc \in Pcs
    BY DEF TypeOK, Pcs, Suspended
  <2> QED
    BY <1>1, <1>2, <1>3, <2>1 DEF Goto
<1>7. TypeOK'
  <2>1. status' \in SessionState
    BY <1>1 DEF TypeOK, SessionState
  <2> QED
    BY <1>1, <1>5, <1>6, <2>1 DEF TypeOK, Pcs
<1>8. CloseIsFinal' /\ CloseAlone' /\ LinkIsReal'
  BY <1>1, <1>4, <1>5 DEF CloseIsFinal, CloseAlone, LinkIsReal
<1>9. ConnectedTraced'
  BY <1>1, <1>2, <1>5, <1>6 DEF ConnectedTraced
<1>10. NotStarted' /\ SetupOnce'
  BY <1>1, <1>2, <1>6 DEF NotStarted, SetupOnce, Pending
<1>11. OneRuns'
  BY <1>1, <1>2, <1>3, <1>6 DEF OneRuns, MayRun
<1>12. GoodbyeTraced' /\ CleanGoodbye'
  BY <1>1, <1>2, <1>5, <1>6 DEF GoodbyeTraced, CleanGoodbye
<1> QED
  BY <1>7, <1>8, <1>9, <1>10, <1>11, <1>12

\* The other steps of wait_for_link: the checks before the first receive, the
\* end of a successful wait, and the refusal after close.
LEMMA WaitInv ==
  ASSUME Inv, UNCHANGED runtime, NEW w \in Waiters,
         WaitForLink(w) \/ CheckStatus(w) \/ CheckTransport(w) \/ LinkUp(w) \/ RefuseWait(w)
  PROVE  Inv'
<1> USE DEF Inv
<1>1. PICK pc \in {"check", "done", "state", "connected", "recv"}, result \in {None, "ok", "failed", "closed"} :
        /\ Goto(w, pc)
        /\ IF pc = "done" THEN answer' = [answer EXCEPT ![w] = result] ELSE UNCHANGED answer
        /\ MayRun(w) \/ pc = "done"
        /\ pc = "connected" => transport = "Connected"
        /\ result = "ok" => status = "Connected" \/ at[w] = "connected"
        /\ status' # status => status' = "Connected" /\ at[w] = "connected"
        /\ pc = "check" => ~closed
        /\ at[w] = "new" \/ at[w] \in {"check", "state", "connected"}
        /\ at[w] = "new" => pc \in {"check", "done"} /\ status' = status
        /\ UNCHANGED <<states, signals>> \/ Ends(w)
        /\ UNCHANGED <<error, peer_closed, signaling, races, transport, rtc, goodbye, closer>>
  <2>1. CASE WaitForLink(w) \/ CheckTransport(w)
    BY <2>1 DEF WaitForLink, CheckTransport, signalVars, linkVars
  <2>2. CASE CheckStatus(w)
    BY <2>2 DEF CheckStatus, Return, Ends
  <2>3. CASE LinkUp(w) \/ RefuseWait(w)
    BY <2>3 DEF LinkUp, RefuseWait, Return, Ends
  <2> QED
    BY <2>1, <2>2, <2>3
<1>2. w \in Tasks /\ "event" \in Tasks /\ w # "event"
  BY SessionAssumption DEF Tasks, Loops
<1>3. closer \in {"torn", "done"} => pc = "done" /\ status' = status
  BY <1>1, <1>2 DEF CloseAlone, closed
<1>4. at[w] = "connected" \/ transport = "Connected" \/ status = "Connected" => Opened
  BY DEF ConnectedTraced, LinkIsReal
<1>5. answer' \in [Waiters -> {None, "ok", "failed", "closed"}]
  BY <1>1 DEF TypeOK
<1>6. LinkIsReal'
  BY <1>1, <1>4, OpenedItems DEF LinkIsReal, TypeOK
<1>7. CleanGoodbye'
  BY <1>1, <1>2 DEF CleanGoodbye, Goto, TypeOK
<1>8. status' \in SessionState /\ error' \in Errors
  BY <1>1 DEF TypeOK, SessionState, Errors
<1>9. pc \in Pcs \ {"new", "spawn", "setup", "stored", "error"} /\ (MayRun(w) \/ pc \in Suspended)
  BY <1>1 DEF Pcs, Suspended
<1> QED
  BY <1>1, <1>2, <1>3, <1>4, <1>5, <1>6, <1>7, <1>8, <1>9, MoveInv

\* A task records a failure (set_transport_error, set_status), or is destroyed.
LEMMA FailInv ==
  ASSUME Inv, UNCHANGED runtime, NEW t \in Tasks, FailStep(t) \/ DestroyTask(t)
  PROVE  Inv'
<1> USE DEF Inv
<1>1. PICK pc \in {"status", "error", "recv", "done"} :
        /\ Goto(t, pc)
        /\ MayRun(t) \/ pc = "done"
        /\ at[t] \in {"load", "error", "status"} \/ (pc = "done" /\ status' = status)
        /\ at[t] \notin {"new", "done", "clear"}
        /\ pc = "error" => ~peer_closed
        /\ status' \in {status, "Disconnected"}
        /\ error' # error => error' = "transport failed" /\ at[t] = "error"
        /\ answer' = answer \/ (t \in Waiters /\ \E r \in {"failed", "closed"} :
                                                   answer' = [answer EXCEPT ![t] = r])
        /\ UNCHANGED <<states, signals>> \/ Ends(t)
        /\ UNCHANGED <<peer_closed, signaling, races, transport, rtc, goodbye, closer>>
  <2>1. CASE LoadPeerClosed(t) \/ SetTransportError(t)
    BY <2>1 DEF LoadPeerClosed, SetTransportError, signalVars, linkVars
  <2>2. CASE SetDisconnected(t)
    BY <2>2 DEF SetDisconnected, Return, Ends
  <2>3. CASE DestroyTask(t)
    BY <2>3 DEF DestroyTask, Return, Ends
  <2> QED
    BY <2>1, <2>2, <2>3 DEF FailStep
<1>2. closer \notin {"torn", "done"}
  BY <1>1 DEF CloseAlone
<1>3. answer' \in [Waiters -> {None, "ok", "failed", "closed"}]
  BY <1>1 DEF TypeOK
<1>4. LinkIsReal'
  BY <1>1, OpenedItems DEF LinkIsReal, TypeOK
<1>5. CleanGoodbye'
  <2>1. "event" \in Tasks
    BY DEF Tasks, Loops
  <2>2. at'["event"] # "clear" => at["event"] # "clear"
    BY <1>1, <2>1 DEF Goto, TypeOK
  <2>3. ~runtime.preemptive /\ peer_closed => error' = error
    BY <1>1 DEF GoodbyeTraced
  <2> QED
    BY <1>1, <2>2, <2>3 DEF CleanGoodbye
<1>6. status' \in SessionState /\ error' \in Errors
  BY <1>1 DEF TypeOK, SessionState, Errors
<1>7. pc \in Pcs \ {"new", "spawn", "setup", "stored", "connected"} /\ (MayRun(t) \/ pc \in Suspended)
  BY <1>1 DEF Pcs, Suspended
<1> QED
  BY <1>1, <1>2, <1>3, <1>4, <1>5, <1>6, <1>7, MoveInv

\* transport.setup() fails: unless tasks race no channel has been open.
LEMMA SetupFailsInv ==
  ASSUME Inv, UNCHANGED runtime, SetupFails
  PROVE  Inv'
<1> USE DEF Inv
<1>1. /\ at["signal"] = "setup" /\ MayRun("signal") /\ Goto("signal", "status")
      /\ error' = "setup failed"
      /\ UNCHANGED <<status, peer_closed, signaling, signals, races, transport, states, rtc, goodbye, answer,
                     closer>>
  BY DEF SetupFails, signalVars, linkVars
<1>2. "signal" \in Tasks /\ closer \notin {"torn", "done"}
  BY <1>1 DEF Tasks, Loops, CloseAlone
<1>3. runtime.racing \/ ~peer_closed
  BY <1>1, OpenedItems DEF SetupOnce, GoodbyeTraced
<1>4. LinkIsReal' /\ CleanGoodbye'
  BY <1>1, <1>3, OpenedItems DEF LinkIsReal, CleanGoodbye
<1>5. status' \in SessionState /\ error' \in Errors /\ answer' \in [Waiters -> {None, "ok", "failed", "closed"}]
  BY <1>1 DEF TypeOK, Errors
<1>6. "status" \in Pcs \ {"new", "spawn", "setup", "stored", "connected", "error"}
  BY DEF Pcs, Suspended
<1> QED
  BY <1>1, <1>2, <1>4, <1>5, <1>6, MoveInv

\* The close frame of the peer is handled, in two steps.
LEMMA HandleCloseInv ==
  ASSUME Inv, UNCHANGED runtime, HandleClose
  PROVE  Inv'
<1> USE DEF Inv
<1>1. /\ at["event"] = "recv" /\ goodbye = "queued" /\ MayRun("event") /\ Goto("event", "clear")
      /\ peer_closed' = TRUE /\ goodbye' = "handled"
      /\ UNCHANGED <<status, error, signaling, signals, races, transport, states, rtc, answer, closer, runtime>>
      /\ Opened' <=> Opened
  BY OpenedItems DEF HandleClose, signalVars
<1>2. /\ {"signal", "event", "connect"} \subseteq Tasks /\ Waiters \subseteq Tasks
      /\ \A w \in Waiters : w # "event"
  BY SessionAssumption DEF Tasks, Loops
<1>3. closer \notin {"torn", "done"}
  BY <1>1, <1>2 DEF CloseAlone
<1>4. at' \in [Tasks -> Pcs] /\ at'["event"] = "clear" /\ \A u \in Tasks \ {"event"} : at'[u] = at[u]
  <2>1. at \in [Tasks -> Pcs] /\ "clear" \in Pcs
    BY DEF TypeOK, Pcs
  <2> QED
    BY <1>1, <1>2, <2>1 DEF Goto
<1>5. TypeOK'
  BY <1>1, <1>4 DEF TypeOK, Pcs
<1>6. CloseIsFinal' /\ CloseAlone' /\ LinkIsReal'
  BY <1>1, <1>3 DEF CloseIsFinal, CloseAlone, LinkIsReal
<1>7. ConnectedTraced'
  BY <1>1, <1>2, <1>4 DEF ConnectedTraced
<1>8. NotStarted' /\ SetupOnce'
  BY <1>1, <1>2, <1>4 DEF NotStarted, SetupOnce, Pending
<1>9. OneRuns'
  BY <1>1, <1>2, <1>4 DEF OneRuns, MayRun
<1>10. GoodbyeTraced'
  <2>1. ~runtime.preemptive => \A t \in Tasks : at'[t] # "error"
    BY <1>1, <1>4 DEF MayRun, Suspended
  <2> QED
    BY <1>1, <2>1 DEF GoodbyeTraced
<1>11. CleanGoodbye'
  BY <1>4 DEF CleanGoodbye
<1> QED
  BY <1>5, <1>6, <1>7, <1>8, <1>9, <1>10, <1>11

LEMMA ClearErrorInv ==
  ASSUME Inv, UNCHANGED runtime, ClearError
  PROVE  Inv'
<1> USE DEF Inv
<1>1. /\ at["event"] = "clear" /\ MayRun("event") /\ Goto("event", "status")
      /\ error' = None
      /\ UNCHANGED <<status, peer_closed, signaling, signals, races, transport, states, rtc, goodbye, answer,
                     closer>>
  BY DEF ClearError, signalVars, linkVars
<1>2. "event" \in Tasks /\ closer \notin {"torn", "done"}
  BY <1>1 DEF Tasks, Loops, CloseAlone
<1>3. LinkIsReal' /\ CleanGoodbye'
  BY <1>1, OpenedItems DEF LinkIsReal, CleanGoodbye
<1>4. status' \in SessionState /\ error' \in Errors /\ answer' \in [Waiters -> {None, "ok", "failed", "closed"}]
  BY <1>1 DEF TypeOK, Errors
<1>5. "status" \in Pcs \ {"new", "spawn", "setup", "stored", "connected", "error"}
  BY DEF Pcs, Suspended
<1> QED
  BY <1>1, <1>2, <1>3, <1>4, <1>5, MoveInv

\* Inv holds initially.
LEMMA InitInv == Init => Inv
<1> SUFFICES ASSUME Init PROVE Inv
  OBVIOUS
<1>1. TypeOK
  <2>1. signals \in Seq(SignalState)
    BY DEF Init
  <2>2. states \in [Receivers -> Seq(TransportState)]
    <3> DEFINE E == <<>>
    <3>1. E \in Seq(TransportState) /\ states = [r \in Receivers |-> E]
      BY DEF Init
    <3> HIDE DEF E
    <3> QED
      BY <3>1
  <2>3. /\ at \in [Tasks -> Pcs] /\ answer \in [Waiters -> {None, "ok", "failed", "closed"}]
        /\ status \in SessionState /\ signaling \in SignalState /\ transport \in TransportState
    BY DEF Init, Pcs, Suspended, SessionState, SignalState, TransportState
  <2>4. rtc \in Seq({"stored", "lost", "open", "failed", "closed"})
    BY DEF Init
  <2> QED
    BY <2>1, <2>2, <2>3, <2>4 DEF Init, TypeOK, Pcs
<1>2. /\ DOMAIN signals = {} /\ \A r \in Receivers : DOMAIN states[r] = {}
      /\ \A t \in Tasks : at[t] = "new"
      /\ {"connect", "signal", "event"} \subseteq Tasks /\ Waiters \subseteq Tasks
  BY DEF Init, Tasks, Loops
<1>3. CloseIsFinal /\ CloseAlone /\ GoodbyeTraced /\ CleanGoodbye /\ OneRuns
  BY <1>2 DEF Init, CloseIsFinal, CloseAlone, GoodbyeTraced, CleanGoodbye, OneRuns, Suspended
<1>4. ConnectedTraced /\ NotStarted /\ SetupOnce
  <2>1. rtc = <<>> /\ Len(rtc) = 0
    BY DEF Init
  <2> QED
    BY <1>2, <2>1 DEF Init, ConnectedTraced, NotStarted, SetupOnce, Pending
<1>5. LinkIsReal
  BY SessionAssumption DEF Init, LinkIsReal
<1> QED
  BY <1>1, <1>3, <1>4, <1>5 DEF Inv

\* Inv is an invariant of a session, whatever the runtime and however connect,
\* the loops, wait_for_link, the peer and close interleave, and whatever the
\* signaling layer reports out of turn.
THEOREM Invariance == Spec => []Inv
<1>1. Inv /\ [Next]_<<vars, runtime>> => Inv'
  <2> SUFFICES ASSUME Inv, [Next]_<<vars, runtime>> PROVE Inv'
    OBVIOUS
  <2>1. CASE UNCHANGED <<vars, runtime>>
    <3> USE <2>1 DEF vars, Inv, signalVars, linkVars
    <3>1. TypeOK'
      BY DEF TypeOK
    <3>2. CloseIsFinal' /\ LinkIsReal' /\ CloseAlone'
      BY OpenedItems DEF CloseIsFinal, LinkIsReal, CloseAlone
    <3>3. ConnectedTraced' /\ NotStarted' /\ SetupOnce'
      BY OpenedItems DEF ConnectedTraced, NotStarted, SetupOnce, Pending
    <3>4. OneRuns' /\ GoodbyeTraced' /\ CleanGoodbye'
      BY OpenedItems DEF OneRuns, GoodbyeTraced, CleanGoodbye
    <3> QED
      BY <3>1, <3>2, <3>3, <3>4
  <2>2. CASE Next
    <3>1. UNCHANGED runtime
      BY <2>2 DEF Next
    <3>2. CASE Connect \/ StartEventLoops \/ ConnectEnds \/ \E t \in Loops : LoopStarts(t)
      BY <3>1, <3>2, ConnectInv, StartInv
    <3>3. CASE Sources
      <4>1. ASSUME NEW s, SignalingReports(s) \/ (s \in {"Handshake", "Encrypted", "Error"} /\ RacingReports(s))
            PROVE  Inv'
        <5>1. s \in SignalState /\ Broadcast(s)
          BY <4>1 DEF SignalingReports, RacingReports, Reports, SignalState
        <5> QED
          BY <3>1, <4>1, <5>1, ReportInv
      <4> QED
        BY <3>1, <3>3, <4>1, RtcInv, GoodbyeArrivesInv DEF Sources
    <3>4. CASE SignalStep \/ SetupFails \/ TransportLoop \/ HandleClose \/ ClearError
      BY <3>1, <3>4, SignalLoopInv, SetupInv, SetupFailsInv, ReceiveInv, HandleCloseInv, ClearErrorInv
         DEF SignalStep
    <3>5. CASE \E w \in Waiters : WaitForLink(w) \/ WaitStep(w) \/ RefuseWait(w)
      BY <3>1, <3>5, WaitInv, ReceiveInv DEF WaitStep
    <3>6. CASE \E t \in Tasks : FailStep(t) \/ DestroyTask(t)
      BY <3>1, <3>6, FailInv
    <3>7. CASE Close \/ CloseStep
      BY <3>1, <3>7, GoodbyeArrivesInv, TeardownInv DEF CloseStep
    <3> QED
      BY <2>2, <3>2, <3>3, <3>4, <3>5, <3>6, <3>7 DEF Next, Step
  <2> QED
    BY <2>1, <2>2
<1> QED
  BY <1>1, InitInv, PTL DEF Spec

\* Once close has returned the status is Disconnected: nothing that was running
\* when close was called writes it later.
THEOREM ClosedStaysDisconnected == Spec => []CloseIsFinal
<1>1. Inv => CloseIsFinal
  BY DEF Inv
<1> QED
  BY <1>1, Invariance, PTL

\* The status is Connected, and wait_for_link returns Ok, only after a data channel
\* opened, even if a race makes setup run again.
THEOREM LinksAreReal == Spec => []LinkIsReal
<1>1. Inv => LinkIsReal
  BY DEF Inv
<1> QED
  BY <1>1, Invariance, PTL

\* A session whose peer said goodbye reports no error, on a current-thread runtime.
THEOREM GoodbyesAreClean == Spec => []CleanGoodbye
<1>1. Inv => CleanGoodbye
  BY DEF Inv
<1> QED
  BY <1>1, Invariance, PTL
=============================================================================
