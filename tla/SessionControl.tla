--------------------------- MODULE SessionControl ---------------------------
(***************************************************************************)
(* Task ownership, request admission and shutdown of a session:            *)
(* crates/openlv/src/session/control/mod.rs, with its users in             *)
(* session/mod.rs, dispatch_request and Session::close.                    *)
(*                                                                         *)
(* Everything that runs is a task of the control's JoinSet: operations     *)
(* (connect, send, wait_for_link) and handlers of remote requests.  Every  *)
(* action that holds the control lock is one step.  An abort is only a     *)
(* request: a task that is being polled goes on until its next await, may  *)
(* even finish, and is destroyed later (the multi-thread runtime).         *)
(***************************************************************************)
EXTENDS Naturals, FiniteSets

CONSTANTS
  Ops,                \* operations callers start
  Requests,           \* requests the remote peer sends
  Closers,            \* calls of Session::close
  Within,             \* Within[c]: the request whose handler makes call c, or None
  None,               \* Rust's Option::None
  MaxActiveHandlers   \* MAX_ACTIVE_HANDLERS

Work == Ops \cup Requests

ASSUME ControlAssumption ==
  /\ Ops \cap Requests = {}
  /\ IsFiniteSet(Requests)
  /\ None \notin Closers \cup Work
  /\ Within \in [Closers -> Requests \cup {None}]
  /\ MaxActiveHandlers \in Nat

VARIABLES
  closed,           \* ControlState::closed
  active_handlers,  \* ControlState::active_handlers
  tasks,            \* ControlState::tasks, the JoinSet
  taken,            \* the JoinSet wait_for_tasks took out
  work,             \* where each operation and request is
  aborted,          \* tasks whose abort was requested
  answer,           \* what the caller of an operation got
  closer,           \* where each call of close is
  initializer,      \* the call that computes close_result
  close_result      \* close_result is set

vars == <<closed, active_handlers, tasks, taken, work, aborted, answer, closer,
          initializer, close_result>>
closeVars == <<closer, initializer, close_result>>

\* A request holds a permit in these states.
Holding == {"admitted", "rejected", "running"}
Holders == {r \in Requests : work[r] \in Holding}
Live    == {w \in Work : work[w] = "running"}

-----------------------------------------------------------------------------
(***************************************************************************)
(* dispatch_request: admission and spawn take the lock one after the other.*)
(***************************************************************************)
\* Mutant: the limit is off by one.
AdmitOneMore(r) ==
  /\ work[r] = "new"
  /\ IF ~closed /\ active_handlers <= MaxActiveHandlers
     THEN /\ active_handlers' = active_handlers + 1
          /\ work' = [work EXCEPT ![r] = "admitted"]
     ELSE /\ work' = [work EXCEPT ![r] = "done"]
          /\ UNCHANGED active_handlers
  /\ UNCHANGED <<closed, tasks, taken, aborted, answer, closeVars>>

\* admit_handler: refused once closed or at the limit; a declined request
\* gets no ack.
AdmitHandler(r) ==
  /\ work[r] = "new"
  /\ IF ~closed /\ active_handlers < MaxActiveHandlers
     THEN /\ active_handlers' = active_handlers + 1
          /\ work' = [work EXCEPT ![r] = "admitted"]
     ELSE /\ work' = [work EXCEPT ![r] = "done"]
          /\ UNCHANGED active_handlers
  /\ UNCHANGED <<closed, tasks, taken, aborted, answer, closeVars>>

\* Mutant: spawn does not look at `closed`.
SpawnAlways(w) ==
  /\ tasks' = {u \in tasks : work[u] # "done"} \cup {w}
  /\ work' = [work EXCEPT ![w] = "running"]

\* spawn: refused once closed; else finished tasks are reaped and w is added.
Spawn(w) ==
  /\ ~closed
  /\ tasks' = {u \in tasks : work[u] # "done"} \cup {w}
  /\ work' = [work EXCEPT ![w] = "running"]

SpawnHandler(r) ==
  /\ work[r] = "admitted"
  /\ Spawn(r)
  /\ UNCHANGED <<closed, active_handlers, taken, aborted, answer, closeVars>>

\* Close fell between admission and spawn: the future is dropped, and the
\* permit in it once the lock is free again.
RejectHandler(r) ==
  /\ work[r] = "admitted" /\ closed
  /\ work' = [work EXCEPT ![r] = "rejected"]
  /\ UNCHANGED <<closed, active_handlers, tasks, taken, aborted, answer, closeVars>>

DropPermit(r) ==
  /\ work[r] = "rejected"
  /\ work' = [work EXCEPT ![r] = "done"]
  /\ active_handlers' = active_handlers - 1
  /\ UNCHANGED <<closed, tasks, taken, aborted, answer, closeVars>>

-----------------------------------------------------------------------------
(***************************************************************************)
(* run_operation.                                                          *)
(***************************************************************************)
StartOperation(o) ==
  /\ work[o] = "new"
  /\ Spawn(o)
  /\ UNCHANGED <<closed, active_handlers, taken, aborted, answer, closeVars>>

RefuseOperation(o) ==
  /\ work[o] = "new" /\ closed
  /\ work' = [work EXCEPT ![o] = "done"]
  /\ answer' = [answer EXCEPT ![o] = "closed"]
  /\ UNCHANGED <<closed, active_handlers, tasks, taken, aborted, closeVars>>

\* The caller drops its future: AbortOnDrop aborts the task.
DropOperation(o) ==
  /\ work[o] = "running" /\ answer[o] = None
  /\ answer' = [answer EXCEPT ![o] = "dropped"]
  /\ aborted' = aborted \cup {o}
  /\ UNCHANGED <<closed, active_handlers, tasks, taken, work, closeVars>>

\* Mutant: a destroyed handler keeps its slot.
EndTaskKeepsSlot(w, result) ==
  /\ work[w] = "running"
  /\ work' = [work EXCEPT ![w] = "done"]
  /\ active_handlers' =
       IF w \in Requests /\ result = "ok" THEN active_handlers - 1 ELSE active_handlers
  /\ answer' = [o \in Ops |-> IF o = w /\ answer[o] = None THEN result ELSE answer[o]]
  /\ UNCHANGED <<closed, tasks, aborted>>

(***************************************************************************)
(* The end of a task.  The result of an operation goes to its caller; a    *)
(* task that is destroyed drops the sender instead.  A handler drops its   *)
(* permit either way.                                                      *)
(***************************************************************************)
EndTask(w, result) ==
  /\ work[w] = "running"
  /\ work' = [work EXCEPT ![w] = "done"]
  /\ active_handlers' = IF w \in Requests THEN active_handlers - 1 ELSE active_handlers
  /\ answer' = [o \in Ops |-> IF o = w /\ answer[o] = None THEN result ELSE answer[o]]
  /\ UNCHANGED <<closed, tasks, aborted>>

\* A call of close that is not finished, and what becomes of those of C when
\* their futures are dropped: the cell stays empty, and a JoinSet that was taken
\* is dropped without waiting for its tasks.
InClose == {"cell", "goodbye", "join", "teardown"}
CallsWithin(w) == {c \in Closers : Within[c] = w /\ closer[c] \in InClose}

Cancel(C) ==
  /\ closer' = [c \in Closers |-> IF c \in C THEN "cancelled" ELSE closer[c]]
  /\ initializer' = IF initializer \in C THEN None ELSE initializer
  /\ taken' = IF initializer \in C THEN {} ELSE taken
  /\ UNCHANGED close_result

FinishTask(w) ==
  /\ EndTask(w, "ok")
  /\ CallsWithin(w) = {}
  /\ UNCHANGED <<taken, closeVars>>

\* A handler that awaits close is destroyed like any other, and its call with it.
DestroyTask(w) ==
  /\ w \in aborted
  /\ EndTask(w, "closed")
  /\ Cancel(CallsWithin(w))

-----------------------------------------------------------------------------
(***************************************************************************)
(* Session::close.                                                         *)
(***************************************************************************)
\* Mutant: close does not abort the tasks.
CloseWithoutAbort(c) ==
  /\ closer[c] = "new" /\ (Within[c] # None => work[Within[c]] = "running")
  /\ closed' = TRUE
  /\ closer' = [closer EXCEPT ![c] = "cell"]
  /\ UNCHANGED <<active_handlers, tasks, taken, work, aborted, answer, initializer, close_result>>

\* SessionControl::close.  Nothing is spawned after it, so aborting again
\* would change nothing.
Close(c) ==
  /\ closer[c] = "new" /\ (Within[c] # None => work[Within[c]] = "running")
  /\ closed' = TRUE
  /\ aborted' = IF closed THEN aborted ELSE aborted \cup tasks
  /\ closer' = [closer EXCEPT ![c] = "cell"]
  /\ UNCHANGED <<active_handlers, tasks, taken, work, answer, initializer, close_result>>

\* OnceCell::get_or_init: one call at a time computes the result.
GetOrInit(c) ==
  /\ closer[c] = "cell" /\ ~close_result /\ initializer = None
  /\ initializer' = c
  /\ closer' = [closer EXCEPT ![c] = "goodbye"]
  /\ UNCHANGED <<closed, active_handlers, tasks, taken, work, aborted, answer, close_result>>

\* The close message was sent, or not; wait_for_tasks takes the JoinSet.
TakeTasks(c) ==
  /\ closer[c] = "goodbye"
  /\ taken' = tasks
  /\ tasks' = {}
  /\ closer' = [closer EXCEPT ![c] = "join"]
  /\ UNCHANGED <<closed, active_handlers, work, aborted, answer, initializer, close_result>>

\* Mutant: the tasks are aborted but not awaited.
JoinAtOnce(c) ==
  /\ closer[c] = "join"
  /\ taken' = {}
  /\ closer' = [closer EXCEPT ![c] = "teardown"]
  /\ UNCHANGED <<closed, active_handlers, tasks, work, aborted, answer, initializer, close_result>>

\* join_next returned None: every task of the set has ended.
Join(c) ==
  /\ closer[c] = "join" /\ \A w \in taken : work[w] = "done"
  /\ taken' = {}
  /\ closer' = [closer EXCEPT ![c] = "teardown"]
  /\ UNCHANGED <<closed, active_handlers, tasks, work, aborted, answer, initializer, close_result>>

\* Transport and signaling were torn down, the status is Disconnected.
Teardown(c) ==
  /\ closer[c] = "teardown"
  /\ close_result' = TRUE
  /\ initializer' = None
  /\ closer' = [closer EXCEPT ![c] = "done"]
  /\ UNCHANGED <<closed, active_handlers, tasks, taken, work, aborted, answer>>

\* Another call computed the result.
ShareResult(c) ==
  /\ closer[c] = "cell" /\ close_result
  /\ closer' = [closer EXCEPT ![c] = "done"]
  /\ UNCHANGED <<closed, active_handlers, tasks, taken, work, aborted, answer, initializer,
                 close_result>>

\* The caller drops the future of close.
CancelClose(c) ==
  /\ closer[c] \in InClose
  /\ Cancel({c})
  /\ UNCHANGED <<closed, active_handlers, tasks, work, aborted, answer>>

-----------------------------------------------------------------------------
Init ==
  /\ closed = FALSE
  /\ active_handlers = 0
  /\ tasks = {}
  /\ taken = {}
  /\ work = [w \in Work |-> "new"]
  /\ aborted = {}
  /\ answer = [o \in Ops |-> None]
  /\ closer = [c \in Closers |-> "new"]
  /\ initializer = None
  /\ close_result = FALSE

Dispatch(r) == AdmitHandler(r) \/ SpawnHandler(r) \/ RejectHandler(r) \/ DropPermit(r)

\* What a call of close does after SessionControl::close.
CloseStep(c) == GetOrInit(c) \/ TakeTasks(c) \/ Join(c) \/ Teardown(c) \/ ShareResult(c)

Next ==
  \/ \E r \in Requests : Dispatch(r)
  \/ \E o \in Ops : StartOperation(o) \/ RefuseOperation(o) \/ DropOperation(o)
  \/ \E w \in Work : FinishTask(w) \/ DestroyTask(w)
  \/ \E c \in Closers : Close(c) \/ CloseStep(c) \/ CancelClose(c)

Spec == Init /\ [][Next]_vars

\* The runtime destroys aborted tasks and drives the close that computes the
\* result; nothing makes a task finish by itself.
Fairness ==
  /\ \A r \in Requests : WF_vars(RejectHandler(r) \/ DropPermit(r))
  /\ \A w \in Work : WF_vars(DestroyTask(w))
  /\ \A c \in Closers : WF_vars(CloseStep(c))

FairSpec == Spec /\ Fairness

-----------------------------------------------------------------------------
\* The type invariant.
TypeOK ==
  /\ closed \in BOOLEAN
  /\ active_handlers \in Nat
  /\ tasks \subseteq Work /\ taken \subseteq Work /\ aborted \subseteq Work
  /\ work \in [Work -> {"new", "admitted", "rejected", "running", "done"}]
  /\ answer \in [Ops -> {None, "ok", "closed", "dropped"}]
  /\ closer \in [Closers -> {"new", "cell", "goodbye", "join", "teardown", "done", "cancelled"}]
  /\ initializer \in Closers \cup {None}
  /\ close_result \in BOOLEAN

\* active_handlers counts the permits that exist, through aborts, rejected
\* spawns and late ends of tasks, and never exceeds MAX_ACTIVE_HANDLERS: no
\* slot is lost and none is counted twice.
PermitsCounted ==
  /\ active_handlers = Cardinality(Holders)
  /\ active_handlers <= MaxActiveHandlers

\* When close has a result, every task has been destroyed (wait_for_tasks).
CloseWaitsForTasks == close_result => Live = {}

\* Every call of close was driven to its end.
Uncancelled == \A c \in Closers : closer[c] # "cancelled"

\* When close has a result and no caller gave up on it, every task has been
\* destroyed, whichever of several calls computed the result.
UncancelledCloseWaits == close_result /\ Uncancelled => Live = {}

\* "No task, operation or handler can be admitted after close", also where
\* close falls between the admission of a request and the spawn of its task.
NothingStartsAfterClose ==
  [][closed => /\ Live' \subseteq Live
               /\ Holders' \subseteq Holders]_vars

\* A call of close ends unless its caller gives up on it, whatever the tasks
\* are doing, even if one of them awaits close itself, and wherever the call that
\* computes the result is cancelled; and no caller of an operation is left waiting
\* once the session was closed.
CloseFinishes ==
  /\ \A c \in Closers : closer[c] = "cell" ~> closer[c] \in {"done", "cancelled"}
  /\ \A o \in Ops : (closed /\ work[o] # "new") ~> answer[o] # None

-----------------------------------------------------------------------------
(***************************************************************************)
(* The inductive invariant.  The control owns every live task, in `tasks`  *)
(* or in the set taken from it, and the call past its join left none.      *)
(***************************************************************************)
Initializing == {"goodbye", "join", "teardown"}

CloseOK ==
  /\ \A c \in Closers : closer[c] # "new" => closed
  /\ \A c \in Closers : closer[c] \in Initializing <=> initializer = c
  /\ ~close_result => \A c \in Closers : closer[c] # "done"
  /\ close_result => initializer = None /\ closed

TasksOwned ==
  /\ Live \subseteq tasks \cup taken
  /\ taken # {} => initializer # None /\ closer[initializer] = "join"
  /\ close_result \/ (initializer # None /\ closer[initializer] \in {"join", "teardown"}) => tasks = {}

Inv == TypeOK /\ PermitsCounted /\ CloseOK /\ (Uncancelled => TasksOwned)
=============================================================================
