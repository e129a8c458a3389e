------------------------ MODULE SessionControlProofs ------------------------
(***************************************************************************)
(* Proofs about SessionControl, for any number of operations, requests and *)
(* calls of close, and any limit on handlers.                              *)
(***************************************************************************)
EXTENDS SessionControl, FiniteSetTheorems, TLAPS

(***************************************************************************)
(* Counting permits.                                                       *)
(***************************************************************************)
\* There are finitely many permits.
LEMMA HoldersFinite == IsFiniteSet(Holders)
BY ControlAssumption, FS_Subset DEF Holders

\* A request that obtains a permit raises their number by one.
LEMMA HoldersGain ==
  ASSUME NEW r \in Requests, r \notin Holders, Holders' = Holders \cup {r}
  PROVE  Cardinality(Holders') = Cardinality(Holders) + 1
BY HoldersFinite, FS_AddElement

\* A request that drops its permit lowers their number by one.
LEMMA HoldersLose ==
  ASSUME NEW r \in Requests, r \in Holders, Holders' = Holders \ {r}
  PROVE  Cardinality(Holders') = Cardinality(Holders) - 1
BY HoldersFinite, FS_RemoveElement

-----------------------------------------------------------------------------
\* The types.
LEMMA NextKeepsTypeOK == Inv /\ [Next]_vars => TypeOK'
<1> SUFFICES ASSUME Inv, [Next]_vars PROVE TypeOK'
  OBVIOUS
<1> USE DEF Inv, TypeOK, closeVars
<1>1. ASSUME NEW r \in Requests, Dispatch(r) PROVE TypeOK'
  <2>1. CASE AdmitHandler(r)
    BY <2>1 DEF AdmitHandler, Work
  <2>2. CASE SpawnHandler(r)
    BY <2>2 DEF SpawnHandler, Spawn, Work
  <2>3. CASE RejectHandler(r)
    BY <2>3 DEF RejectHandler, Work
  <2>4. CASE DropPermit(r)
    <3>1. active_handlers # 0
      BY <2>4, HoldersFinite, FS_EmptySet DEF DropPermit, PermitsCounted, Holders, Holding
    <3> QED
      BY <2>4, <3>1 DEF DropPermit, Work
  <2> QED
    BY <1>1, <2>1, <2>2, <2>3, <2>4 DEF Dispatch
<1>2. ASSUME NEW o \in Ops, StartOperation(o) \/ RefuseOperation(o) \/ DropOperation(o)
      PROVE  TypeOK'
  BY <1>2 DEF StartOperation, RefuseOperation, DropOperation, Spawn, Work
<1>3. ASSUME NEW w \in Work, FinishTask(w) \/ DestroyTask(w) PROVE TypeOK'
  <2> PICK result \in {"ok", "closed"} : EndTask(w, result)
    BY <1>3 DEF FinishTask, DestroyTask
  <2>1. w \in Requests => active_handlers # 0
    BY HoldersFinite, FS_EmptySet DEF EndTask, PermitsCounted, Holders, Holding
  <2>2. active_handlers' \in Nat
    BY <2>1 DEF EndTask
  <2>3. /\ taken' \subseteq Work /\ initializer' \in Closers \cup {None} /\ close_result' \in BOOLEAN
        /\ closer' \in [Closers -> {"new", "cell", "goodbye", "join", "teardown", "done", "cancelled"}]
    BY <1>3 DEF FinishTask, DestroyTask, Cancel
  <2> QED
    BY <2>2, <2>3 DEF EndTask
<1>4. ASSUME NEW c \in Closers, Close(c) \/ CloseStep(c) \/ CancelClose(c)
      PROVE  TypeOK'
  BY <1>4 DEF Close, CloseStep, GetOrInit, TakeTasks, Join, Teardown, ShareResult, CancelClose, Cancel
<1>5. CASE UNCHANGED vars
  BY <1>5 DEF vars
<1> QED
  BY <1>1, <1>2, <1>3, <1>4, <1>5 DEF Next

\* Permits: each action changes the counter and the holders alike.
LEMMA NextKeepsPermits == Inv /\ [Next]_vars => PermitsCounted'
<1> SUFFICES ASSUME Inv, [Next]_vars PROVE PermitsCounted'
  OBVIOUS
<1> USE DEF Inv
<1>1. ASSUME Holders' = Holders, UNCHANGED active_handlers PROVE PermitsCounted'
  BY <1>1 DEF PermitsCounted
<1>2. ASSUME NEW r \in Requests, Dispatch(r) PROVE PermitsCounted'
  <2>1. CASE AdmitHandler(r)
    <3>1. CASE ~closed /\ active_handlers < MaxActiveHandlers
      <4>1. r \notin Holders /\ Holders' = Holders \cup {r}
        BY <2>1, <3>1 DEF AdmitHandler, TypeOK, Holders, Holding, Work
      <4>2. Cardinality(Holders') = Cardinality(Holders) + 1
        BY <4>1, HoldersGain
      <4>3. active_handlers' = active_handlers + 1
        BY <2>1, <3>1 DEF AdmitHandler
      <4>4. active_handlers' <= MaxActiveHandlers
        BY <3>1, <4>3, ControlAssumption DEF TypeOK
      <4> QED
        BY <4>2, <4>3, <4>4 DEF PermitsCounted
    <3>2. CASE ~(~closed /\ active_handlers < MaxActiveHandlers)
      <4>1. Holders' = Holders
        BY <2>1, <3>2 DEF AdmitHandler, TypeOK, Holders, Holding, Work
      <4> QED
        BY <1>1, <2>1, <3>2, <4>1 DEF AdmitHandler
    <3> QED
      BY <3>1, <3>2
  <2>2. CASE SpawnHandler(r) \/ RejectHandler(r)
    <3>1. Holders' = Holders /\ UNCHANGED active_handlers
      BY <2>2 DEF SpawnHandler, Spawn, RejectHandler, TypeOK, Holders, Holding, Work
    <3> QED
      BY <1>1, <3>1
  <2>3. CASE DropPermit(r)
    <3>1. r \in Holders /\ Holders' = Holders \ {r}
      BY <2>3 DEF DropPermit, TypeOK, Holders, Holding, Work
    <3>2. Cardinality(Holders') = Cardinality(Holders) - 1
      BY <3>1, HoldersLose
    <3>3. active_handlers' = active_handlers - 1
      BY <2>3 DEF DropPermit
    <3>4. active_handlers' <= MaxActiveHandlers
      BY <3>3, ControlAssumption DEF PermitsCounted, TypeOK
    <3> QED
      BY <3>2, <3>3, <3>4 DEF PermitsCounted
  <2> QED
    BY <1>2, <2>1, <2>2, <2>3 DEF Dispatch
<1>3. ASSUME NEW o \in Ops, StartOperation(o) \/ RefuseOperation(o) \/ DropOperation(o)
      PROVE  PermitsCounted'
  <2>1. Holders' = Holders /\ UNCHANGED active_handlers
    BY <1>3, ControlAssumption
       DEF StartOperation, RefuseOperation, DropOperation, Spawn, TypeOK, Holders, Holding, Work
  <2> QED
    BY <1>1, <2>1
<1>4. ASSUME NEW w \in Work, NEW result, EndTask(w, result) PROVE PermitsCounted'
  <2>1. CASE w \in Requests
    <3>1. w \in Holders /\ Holders' = Holders \ {w}
      BY <1>4, <2>1 DEF EndTask, TypeOK, Holders, Holding, Work
    <3>2. Cardinality(Holders') = Cardinality(Holders) - 1
      BY <2>1, <3>1, HoldersLose
    <3>3. active_handlers' = active_handlers - 1
      BY <1>4, <2>1 DEF EndTask
    <3>4. active_handlers' <= MaxActiveHandlers
      BY <3>3, ControlAssumption DEF PermitsCounted, TypeOK
    <3> QED
      BY <3>2, <3>3, <3>4 DEF PermitsCounted
  <2>2. CASE w \notin Requests
    <3>1. Holders' = Holders /\ UNCHANGED active_handlers
      BY <1>4, <2>2 DEF EndTask, TypeOK, Holders, Holding, Work
    <3> QED
      BY <1>1, <3>1
  <2> QED
    BY <2>1, <2>2
<1>5. ASSUME NEW c \in Closers, Close(c) \/ CloseStep(c) \/ CancelClose(c)
      PROVE  PermitsCounted'
  <2>1. UNCHANGED <<work, active_handlers>>
    BY <1>5 DEF Close, CloseStep, GetOrInit, TakeTasks, Join, Teardown, ShareResult, CancelClose
  <2> QED
    BY <1>1, <2>1 DEF Holders
<1>6. CASE UNCHANGED vars
  BY <1>1, <1>6 DEF vars, Holders
<1> QED
  BY <1>2, <1>3, <1>4, <1>5, <1>6 DEF Next, FinishTask, DestroyTask

\* The cell: one call computes the result, and only after close.
LEMMA NextKeepsCloseOK == Inv /\ [Next]_vars => CloseOK'
<1> SUFFICES ASSUME Inv, [Next]_vars PROVE CloseOK'
  OBVIOUS
<1>1. ASSUME closed => closed', UNCHANGED closeVars PROVE CloseOK'
  BY <1>1 DEF Inv, CloseOK, closeVars
<1>2. ASSUME NEW r \in Requests, Dispatch(r) PROVE CloseOK'
  BY <1>1, <1>2 DEF Dispatch, AdmitHandler, SpawnHandler, RejectHandler, DropPermit
<1>3. ASSUME NEW o \in Ops, StartOperation(o) \/ RefuseOperation(o) \/ DropOperation(o)
      PROVE  CloseOK'
  BY <1>1, <1>3 DEF StartOperation, RefuseOperation, DropOperation
<1>c. ASSUME NEW C \in SUBSET Closers, Cancel(C), \A c \in C : closer[c] \in InClose, UNCHANGED closed
      PROVE  CloseOK'
  BY <1>c, ControlAssumption DEF Inv, TypeOK, CloseOK, Cancel, InClose, Initializing
<1>4. ASSUME NEW w \in Work, FinishTask(w) \/ DestroyTask(w) PROVE CloseOK'
  <2>1. CASE FinishTask(w)
    BY <1>1, <2>1 DEF FinishTask, EndTask
  <2>2. CASE DestroyTask(w)
    BY <1>c, <2>2 DEF DestroyTask, EndTask, CallsWithin
  <2> QED
    BY <1>4, <2>1, <2>2
<1>5. ASSUME NEW c \in Closers, Close(c) \/ CloseStep(c) \/ CancelClose(c)
      PROVE  CloseOK'
  <2>1. CASE Close(c)
    BY <2>1 DEF Inv, TypeOK, CloseOK, Close, Initializing
  <2>2. CASE GetOrInit(c)
    BY <2>2, ControlAssumption DEF Inv, TypeOK, CloseOK, GetOrInit, Initializing
  <2>3. CASE TakeTasks(c) \/ Join(c)
    BY <2>3 DEF Inv, TypeOK, CloseOK, TakeTasks, Join, Initializing
  <2>4. CASE Teardown(c)
    BY <2>4, ControlAssumption DEF Inv, TypeOK, CloseOK, Teardown, Initializing
  <2>5. CASE ShareResult(c)
    BY <2>5 DEF Inv, TypeOK, CloseOK, ShareResult, Initializing
  <2>6. CASE CancelClose(c)
    BY <1>c, <2>6 DEF CancelClose
  <2> QED
    BY <1>5, <2>1, <2>2, <2>3, <2>4, <2>5, <2>6 DEF CloseStep
<1>6. CASE UNCHANGED vars
  BY <1>1, <1>6 DEF vars, closeVars
<1> QED
  BY <1>2, <1>3, <1>4, <1>5, <1>6 DEF Next

\* A cancelled call stays cancelled.
LEMMA CancelledForGood == Inv /\ [Next]_vars /\ Uncancelled' => Uncancelled
<1> SUFFICES ASSUME Inv, [Next]_vars, NEW c \in Closers, closer[c] = "cancelled"
             PROVE  closer'[c] = "cancelled"
  BY DEF Uncancelled
<1>1. CASE UNCHANGED closer
  BY <1>1
<1>2. ASSUME NEW d \in Closers, Close(d) \/ CloseStep(d) \/ CancelClose(d)
      PROVE  closer'[c] = "cancelled"
  BY <1>2 DEF Inv, TypeOK, Close, CloseStep, GetOrInit, TakeTasks, Join, Teardown, ShareResult,
     CancelClose, Cancel
<1>3. ASSUME NEW r \in Requests, Dispatch(r) PROVE UNCHANGED closer
  BY <1>3 DEF Dispatch, AdmitHandler, SpawnHandler, RejectHandler, DropPermit, closeVars
<1>4. ASSUME NEW o \in Ops, StartOperation(o) \/ RefuseOperation(o) \/ DropOperation(o)
      PROVE  UNCHANGED closer
  BY <1>4 DEF StartOperation, RefuseOperation, DropOperation, closeVars
<1>5. ASSUME NEW w \in Work, FinishTask(w) \/ DestroyTask(w) PROVE closer'[c] = "cancelled"
  BY <1>5 DEF FinishTask, DestroyTask, Cancel, closeVars
<1>6. CASE UNCHANGED vars
  BY <1>1, <1>6 DEF vars
<1> QED
  BY <1>1, <1>2, <1>3, <1>4, <1>5, <1>6 DEF Next

\* Ownership, as long as no call of close is cancelled.
LEMMA NextKeepsTasksOwned ==
  Inv /\ [Next]_vars /\ Uncancelled' => TasksOwned'
<1> SUFFICES ASSUME Inv, [Next]_vars, Uncancelled' PROVE TasksOwned'
  OBVIOUS
<1>0. TasksOwned
  BY CancelledForGood DEF Inv
<1> USE <1>0 DEF Inv, TypeOK
<1>1. ASSUME Live' \subseteq Live, UNCHANGED <<tasks, taken, closeVars>> PROVE TasksOwned'
  BY <1>1 DEF TasksOwned, closeVars
<1>2. ASSUME NEW w \in Work, Spawn(w), UNCHANGED <<taken, closeVars>> PROVE TasksOwned'
  <2>1. Live' \subseteq tasks' \cup taken'
    BY <1>2 DEF Spawn, Live, TasksOwned
  <2>2. initializer = None /\ ~close_result
    BY <1>2 DEF Spawn, CloseOK, Initializing
  <2> QED
    BY <1>2, <2>1, <2>2 DEF TasksOwned, closeVars
<1>3. ASSUME NEW r \in Requests, Dispatch(r) PROVE TasksOwned'
  <2>1. CASE SpawnHandler(r)
    BY <1>2, <2>1 DEF SpawnHandler, Work
  <2>2. CASE AdmitHandler(r) \/ RejectHandler(r) \/ DropPermit(r)
    <3>1. Live' \subseteq Live /\ UNCHANGED <<tasks, taken, closeVars>>
      BY <2>2 DEF AdmitHandler, RejectHandler, DropPermit, Live
    <3> QED
      BY <1>1, <3>1
  <2> QED
    BY <1>3, <2>1, <2>2 DEF Dispatch
<1>4. ASSUME NEW o \in Ops, StartOperation(o) \/ RefuseOperation(o) \/ DropOperation(o)
      PROVE  TasksOwned'
  <2>1. CASE StartOperation(o)
    BY <1>2, <2>1 DEF StartOperation, Work
  <2>2. CASE RefuseOperation(o) \/ DropOperation(o)
    <3>1. Live' \subseteq Live /\ UNCHANGED <<tasks, taken, closeVars>>
      BY <2>2 DEF RefuseOperation, DropOperation, Live
    <3> QED
      BY <1>1, <3>1
  <2> QED
    BY <1>4, <2>1, <2>2
<1>c. ASSUME NEW C \in SUBSET Closers, Cancel(C) PROVE UNCHANGED <<taken, closeVars>>
  <2>1. C = {}
    BY <1>c DEF Cancel, Uncancelled
  <2>2. closer' = closer
    BY <1>c, <2>1 DEF Cancel
  <2> QED
    BY <1>c, <2>1, <2>2 DEF Cancel, closeVars
<1>5. ASSUME NEW w \in Work, FinishTask(w) \/ DestroyTask(w) PROVE TasksOwned'
  <2>1. UNCHANGED <<taken, closeVars>>
    BY <1>c, <1>5 DEF FinishTask, DestroyTask, CallsWithin
  <2>2. Live' \subseteq Live /\ UNCHANGED tasks
    BY <1>5 DEF FinishTask, DestroyTask, EndTask, Live
  <2> QED
    BY <1>1, <2>1, <2>2
<1>6. ASSUME NEW c \in Closers, Close(c) \/ CloseStep(c) \/ CancelClose(c)
      PROVE  TasksOwned'
  <2> USE ControlAssumption DEF TasksOwned, CloseOK, Initializing, Live
  <2>1. CASE Close(c)
    BY <2>1 DEF Close
  <2>2. CASE GetOrInit(c)
    BY <2>2 DEF GetOrInit
  <2>3. CASE TakeTasks(c)
    BY <2>3 DEF TakeTasks
  <2>4. CASE Join(c)
    BY <2>4 DEF Join
  <2>5. CASE Teardown(c)
    BY <2>5 DEF Teardown
  <2>6. CASE ShareResult(c)
    BY <2>6 DEF ShareResult
  <2>7. CASE CancelClose(c)
    <3>1. UNCHANGED <<taken, closeVars>>
      BY <1>c, <2>7 DEF CancelClose
    <3> QED
      BY <1>1, <2>7, <3>1 DEF CancelClose
  <2> QED
    BY <1>6, <2>1, <2>2, <2>3, <2>4, <2>5, <2>6, <2>7 DEF CloseStep
<1>7. CASE UNCHANGED vars
  BY <1>1, <1>7 DEF vars, Live, closeVars
<1> QED
  BY <1>3, <1>4, <1>5, <1>6, <1>7 DEF Next

-----------------------------------------------------------------------------
\* The invariant holds of a new control.
LEMMA InitInv == Init => Inv
<1> SUFFICES ASSUME Init PROVE Inv
  OBVIOUS
<1>1. TypeOK
  BY DEF Init, TypeOK
<1>2. Holders = {}
  BY DEF Init, Holders, Holding, Work
<1>3. PermitsCounted
  BY <1>2, FS_EmptySet, ControlAssumption DEF Init, PermitsCounted
<1>4. CloseOK /\ TasksOwned
  BY ControlAssumption DEF Init, CloseOK, TasksOwned, Initializing, Live
<1> QED
  BY <1>1, <1>3, <1>4 DEF Inv

\* Every reachable state satisfies the inductive invariant.
THEOREM Invariance == Spec => []Inv
<1>1. Inv /\ [Next]_vars => Inv'
  BY NextKeepsTypeOK, NextKeepsPermits, NextKeepsCloseOK, NextKeepsTasksOwned DEF Inv
<1> QED
  BY <1>1, InitInv, PTL DEF Spec

\* The counter of admit_handler and HandlerPermit::drop is exact and bounded,
\* however close, aborts and ends of tasks interleave, cancelled or not.
THEOREM PermitsAreCounted == Spec => []PermitsCounted
<1>1. Inv => PermitsCounted
  BY DEF Inv
<1> QED
  BY <1>1, Invariance, PTL

\* Unless a caller cancels it, close returns only after the last task is gone.
THEOREM CloseIsComplete == Spec => []UncancelledCloseWaits
<1>1. Inv => UncancelledCloseWaits
  BY ControlAssumption DEF Inv, CloseOK, TasksOwned, UncancelledCloseWaits
<1> QED
  BY <1>1, Invariance, PTL

\* Nothing is admitted or spawned once the session is closed.
THEOREM ClosedForGood == Spec => NothingStartsAfterClose
<1>1. Inv /\ [Next]_vars => [closed => Live' \subseteq Live /\ Holders' \subseteq Holders]_vars
  <2> SUFFICES ASSUME Inv, Next, closed
               PROVE  Live' \subseteq Live /\ Holders' \subseteq Holders
    OBVIOUS
  <2>1. ASSUME NEW r \in Requests, Dispatch(r)
        PROVE  Live' \subseteq Live /\ Holders' \subseteq Holders
    BY <2>1 DEF Inv, TypeOK, Dispatch, AdmitHandler, SpawnHandler, RejectHandler, DropPermit, Spawn, Live,
       Holders, Holding, Work
  <2>2. ASSUME NEW o \in Ops, StartOperation(o) \/ RefuseOperation(o) \/ DropOperation(o)
        PROVE  Live' \subseteq Live /\ Holders' \subseteq Holders
    BY <2>2 DEF Inv, TypeOK, StartOperation, RefuseOperation, DropOperation, Spawn, Live, Holders, Holding,
       Work
  <2>3. ASSUME NEW w \in Work, NEW result, EndTask(w, result)
        PROVE  Live' \subseteq Live /\ Holders' \subseteq Holders
    BY <2>3 DEF Inv, TypeOK, EndTask, Live, Holders, Holding
  <2>4. ASSUME NEW c \in Closers, Close(c) \/ CloseStep(c) \/ CancelClose(c)
        PROVE  Live' \subseteq Live /\ Holders' \subseteq Holders
    BY <2>4 DEF Close, CloseStep, GetOrInit, TakeTasks, Join, Teardown, ShareResult, CancelClose, Live,
       Holders
  <2> QED
    BY <2>1, <2>2, <2>3, <2>4 DEF Next, FinishTask, DestroyTask
<1> QED
  BY <1>1, Invariance, PTL DEF Spec, NothingStartsAfterClose
=============================================================================
