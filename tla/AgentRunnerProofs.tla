------------------------- MODULE AgentRunnerProofs -------------------------
(***************************************************************************)
(* Theorems about AgentRunner, for every set of tasks and cancel handlers, *)
(* every concurrency, queue limit and number of restarts: the lifecycle    *)
(* and its abstract form, the queue and the stop, rows and their execute,  *)
(* cancels and their tokens, the list of an aborting stop, and the         *)
(* interface with the submission.                                          *)
(***************************************************************************)
EXTENDS AgentRunner, FiniteSetTheorems, TLAPS

\* The row update keeps the type of the three columns.
LEMMA UpdateType ==
  ASSUME TypeOK, NEW t \in Task, NEW to \in RemoteState \cup {"none"}, Update(t, to)
  PROVE  /\ state' \in [Task -> RemoteState \cup {"none"}]
         /\ result' \in [Task -> {"not_requested", "pending", "complete", "incomplete"}]
         /\ created' \in [Task -> Nat]
BY DEF TypeOK, Update, ResultAfter

\* So does a guarded transition, which may leave the row alone.
LEMMA TransitionType ==
  ASSUME TypeOK, NEW t \in Task, NEW from, NEW to \in RemoteState \cup {"none"},
         Transition(t, from, to)
  PROVE  /\ state' \in [Task -> RemoteState \cup {"none"}]
         /\ result' \in [Task -> {"not_requested", "pending", "complete", "incomplete"}]
         /\ created' \in [Task -> Nat]
<1>1. CASE Update(t, to)
  BY <1>1, UpdateType
<1>2. CASE UNCHANGED db
  BY <1>2 DEF TypeOK, db
<1> QED
  BY <1>1, <1>2 DEF Transition

\* The number of tasks is a number.
LEMMA CardinalityOfTask == Cardinality(Task) \in Nat
  BY FS_CardinalityType, TaskAssumption

\* The task of a cancel call in flight.
LEMMA HandlerTask ==
  ASSUME TypeOK, NEW h \in Handler, handler[h].pc # "idle"
  PROVE  handler[h].task \in Task
BY DEF TypeOK, Idle

\* The first step of a cancel call keeps the types of the row and the call.
LEMMA CancelBeginType ==
  ASSUME TypeOK, NEW h \in Handler, NEW t \in Task, CancelBegin(h, t)
  PROVE  /\ state' \in [Task -> RemoteState \cup {"none"}]
         /\ result' \in [Task -> {"not_requested", "pending", "complete", "incomplete"}]
         /\ created' \in [Task -> Nat]
         /\ handler' \in [Handler -> {Idle} \cup [pc : {"active", "token"}, task : Task]]
<1>1. "cancelled" \in RemoteState
  BY DEF RemoteState, TerminalStates, ConfirmedStates
<1>2. Transition(t, {"queued"}, "cancelled")
  BY DEF CancelBegin
<1>3. handler' \in [Handler -> {Idle} \cup [pc : {"active", "token"}, task : Task]]
  BY DEF CancelBegin, SetHandler, TypeOK
<1> QED
  BY <1>1, <1>2, <1>3, TransitionType

\* So do its later steps.
LEMMA CancelStepType ==
  ASSUME TypeOK, NEW h \in Handler, CancelStep(h)
  PROVE  TypeOK'
<1> USE DEF db, gate, run, os, history
<1>1. CASE CancelActive(h)
  <2> DEFINE t == handler[h].task
  <2>1. t \in Task
    BY <1>1, HandlerTask DEF CancelActive
  <2>2. Transition(t, {"starting", "running"}, "cancelling")
    BY <1>1 DEF CancelActive
  <2>3. "cancelling" \in RemoteState
    BY DEF RemoteState, ActiveStates
  <2>4. /\ state' \in [Task -> RemoteState \cup {"none"}]
        /\ result' \in [Task -> {"not_requested", "pending", "complete", "incomplete"}]
        /\ created' \in [Task -> Nat]
    BY <2>1, <2>2, <2>3, TransitionType
  <2>5. handler' \in [Handler -> {Idle} \cup [pc : {"active", "token"}, task : Task]]
    BY <1>1, <2>1 DEF CancelActive, SetHandler, TypeOK
  <2> QED
    BY <1>1, <2>4, <2>5 DEF CancelActive, TypeOK
<1>2. CASE CancelToken(h)
  BY <1>2 DEF CancelToken, TypeOK
<1> QED
  BY <1>1, <1>2 DEF CancelStep

\* A new Runner is well typed.
LEMMA FreshRunnerType ==
  ASSUME FreshRunner
  PROVE  /\ accepting' \in BOOLEAN
         /\ admission' \in {"free", "submit", "stop"}
         /\ submitting' \in Task \cup {NoTask}
         /\ stopped' \in BOOLEAN
         /\ fault' \in Task \cup {NoTask}
         /\ token' \in [Task -> {"none", "live", "cancelled"}]
         /\ loop' \in {"claim", "register", "check", "wait", "returned"}
         /\ exec' \in [Task -> ExecPhases]
         /\ verdict' \in [Task -> ConfirmedStates \cup {"none"}]
         /\ handler' \in [Handler -> {Idle} \cup [pc : {"active", "token"}, task : Task]]
         /\ todo' \in SUBSET Task
BY DEF FreshRunner, ExecPhases, Handler

\* Every variable has its type in every reachable state.
THEOREM TypeCorrect == Spec => []TypeOK
<1>1. Init => TypeOK
  <2> SUFFICES ASSUME Init PROVE TypeOK
    OBVIOUS
  <2>1. state \in [Task -> RemoteState \cup {"none"}]
    BY DEF Init
  <2>2. handler \in [Handler -> {Idle} \cup [pc : {"active", "token"}, task : Task]]
    BY DEF Init
  <2> QED
    BY <2>1, <2>2 DEF Init, TypeOK, ExecPhases, ConfirmedStates
<1>2. TypeOK /\ [Next]_vars => TypeOK'
  <2> SUFFICES ASSUME TypeOK, [Next]_vars PROVE TypeOK'
    OBVIOUS
  <2> USE DEF db, gate, run, os, history
  <2>1. ASSUME NEW t \in Task, SubmitBegin(t) PROVE TypeOK'
    BY <2>1 DEF SubmitBegin, LockForSubmit, TypeOK
  <2>2. CASE SubmitCommit
    <3>1. /\ state' \in [Task -> RemoteState \cup {"none"}]
          /\ result' \in [Task -> {"not_requested", "pending", "complete", "incomplete"}]
          /\ created' \in [Task -> Nat]
      BY <2>2, CardinalityOfTask
         DEF SubmitCommit, Accept, AcceptIfRoom, TypeOK, RemoteState
    <3> QED
      BY <2>2, <3>1 DEF SubmitCommit, TypeOK
  <2>3. CASE SubmitRefused
    BY <2>3 DEF SubmitRefused, TypeOK
  <2>4. ASSUME NEW c \in Canceller, NEW t \in Task, CancelQueued(c, t)
        PROVE  TypeOK'
    <3>1. c \in Handler /\ CancelBegin(c, t)
      BY <2>4 DEF CancelQueued, Handler
    <3> QED
      BY <2>4, <3>1, CancelBeginType DEF CancelQueued, TypeOK
  <2>5. ASSUME NEW c \in Canceller, CancelStep(c) PROVE TypeOK'
    BY <2>5, CancelStepType DEF Handler
  <2>6. ASSUME NEW c \in Canceller, CancelDropped(c) PROVE TypeOK'
    <3>1. c \in Handler
      BY DEF Handler
    <3>2. Dropped(c) \in SUBSET Task
      BY <3>1, HandlerTask DEF Dropped
    <3> QED
      BY <2>6, <3>1, <3>2 DEF CancelDropped, TypeOK
  <2>7. CASE StopDraining
    BY <2>7 DEF StopDraining, TypeOK
  <2>8. CASE StopAborting
    BY <2>8 DEF StopAborting, TypeOK
  <2>9. CASE StopStep
    <3>1. CASE StopFinish
      BY <3>1 DEF StopFinish, TypeOK
    <3>2. CASE CancelStep(Owner)
      BY <3>2, CancelStepType DEF Handler
    <3>3. ASSUME NEW t \in Task, StopCancelNext(t) PROVE TypeOK'
      <4>1. CASE CancelBegin(Owner, t)
        BY <3>3, <4>1, CancelBeginType DEF StopCancelNext, TypeOK, Handler
      <4>2. CASE UNCHANGED <<db, handler>>
        BY <3>3, <4>2 DEF StopCancelNext, TypeOK
      <4> QED
        BY <3>3, <4>1, <4>2 DEF StopCancelNext
    <3> QED
      BY <2>9, <3>1, <3>2, <3>3 DEF StopStep
  <2>10. CASE StopDropped
    <3>1. Owner \in Handler
      BY DEF Handler
    <3>2. Dropped(Owner) \in SUBSET Task
      BY <3>1, HandlerTask DEF Dropped
    <3> QED
      BY <2>10, <3>1, <3>2 DEF StopDropped, TypeOK
  <2>11. CASE RunStep
    <3>1. ASSUME NEW t \in Task, ClaimNext(t) PROVE TypeOK'
      BY <3>1 DEF ClaimNext, TypeOK, RemoteState, ActiveStates, ExecPhases
    <3>2. ASSUME NEW t \in Task, Register(t) PROVE TypeOK'
      BY <3>2 DEF Register, TypeOK, ExecPhases
    <3>3. ASSUME NEW t \in Task, Join(t) PROVE TypeOK'
      <4>1. accepting' \in BOOLEAN /\ fault' \in Task \cup {NoTask}
        BY <3>3 DEF Join, TypeOK
      <4>2. unconfirmed' \in SUBSET Task
        BY <3>3 DEF Join, TypeOK
      <4> QED
        BY <3>3, <4>1, <4>2 DEF Join, TypeOK, ExecPhases
    <3>4. CASE ClaimNothing
      BY <3>4 DEF ClaimNothing, TypeOK
    <3>5. CASE StopCheck
      BY <3>5 DEF StopCheck, TypeOK
    <3>6. CASE Wakeup
      BY <3>6 DEF Wakeup, TypeOK
    <3> QED
      BY <2>11, <3>1, <3>2, <3>3, <3>4, <3>5, <3>6 DEF RunStep
  <2>12. CASE RunError
    <3>1. PICK left \in SUBSET Running : DropTrees(Running, left)
      BY <2>12 DEF RunError
    <3>2. proc' \in [Task -> {"none", "alive", "zero", "nonzero", "killed"}]
      BY <3>1 DEF DropTrees, TypeOK
    <3>3. tree' \in [Task -> BOOLEAN] /\ starts' \in [Task -> Nat]
      BY <3>1 DEF DropTrees, TypeOK
    <3> QED
      BY <2>12, <3>2, <3>3 DEF RunError, TypeOK, ExecPhases
  <2>13. ASSUME NEW t \in Task, ExecStep(t) PROVE TypeOK'
    <3> USE DEF RemoteState, ActiveStates, TerminalStates, ConfirmedStates, ExecPhases
    <3>1. CASE ExecCheck(t)
      <4>1. CASE Transition(t, {"cancelling"}, "cancelled") /\ Return(t, "ok")
        BY <3>1, <4>1, TransitionType DEF ExecCheck, Return, TypeOK
      <4>2. CASE /\ exec' = [exec EXCEPT ![t] = "start"]
                 /\ UNCHANGED <<db, token, verdict, history>>
        BY <3>1, <4>2 DEF ExecCheck, TypeOK
      <4> QED
        BY <3>1, <4>1, <4>2 DEF ExecCheck
    <3>2. CASE ExecStart(t)
      BY <3>2 DEF ExecStart, TypeOK
    <3>3. CASE ExecStartFailed(t)
      BY <3>3, TransitionType DEF ExecStartFailed, Return, TypeOK
    <3>4. CASE ExecRunning(t)
      BY <3>4, TransitionType DEF ExecRunning, TypeOK
    <3>5. CASE WatchCancelled(t)
      BY <3>5 DEF WatchCancelled, TypeOK
    <3>6. CASE WatchDeadline(t)
      BY <3>6, TransitionType DEF WatchDeadline, TypeOK
    <3>7. CASE WatchGrace(t)
      BY <3>7 DEF WatchGrace, TypeOK
    <3>8. CASE WatchExit(t)
      BY <3>8 DEF WatchExit, FinalState, TypeOK
    <3>9. CASE ExecFinal(t)
      <4>1. verdict[t] \in RemoteState \cup {"none"}
        BY DEF TypeOK
      <4> QED
        BY <3>9, <4>1, TransitionType DEF ExecFinal, TypeOK
    <3>10. CASE ExecCollect(t)
      BY <3>10 DEF ExecCollect, Return, TypeOK
    <3> QED
      BY <2>13, <3>1, <3>2, <3>3, <3>4, <3>5, <3>6, <3>7, <3>8, <3>9, <3>10
         DEF ExecStep
  <2>14. ASSUME NEW t \in Task, ExecError(t) PROVE TypeOK'
    BY <2>14 DEF ExecError, Return, DropTrees, TypeOK, ExecPhases
  <2>15. ASSUME NEW t \in Task, ProcessExit(t) PROVE TypeOK'
    BY <2>15 DEF ProcessExit, TypeOK
  <2>16. CASE Exit
    BY <2>16, FreshRunnerType DEF Exit, Down, TypeOK
  <2>17. CASE Crash
    BY <2>17, FreshRunnerType DEF Crash, Down, DropTrees, TypeOK
  <2>18. CASE Start
    BY <2>18 DEF Start, TypeOK
  <2>19. ASSUME NEW t \in Task, RecoverTask(t) PROVE TypeOK'
    BY <2>19, TransitionType DEF RecoverTask, TypeOK, RemoteState, TerminalStates
  <2>20. CASE RecoverResults
    BY <2>20 DEF RecoverResults, TypeOK
  <2>21. CASE UNCHANGED vars
    BY <2>21 DEF vars, TypeOK
  <2> QED
    BY <2>1, <2>2, <2>3, <2>4, <2>5, <2>6, <2>7, <2>8, <2>9, <2>10, <2>11,
       <2>12, <2>13, <2>14, <2>15, <2>16, <2>17, <2>18, <2>19, <2>20, <2>21
       DEF Next
<1> QED
  BY <1>1, <1>2, PTL DEF Spec

-----------------------------------------------------------------------------
(***************************************************************************)
(* LifecycleInv is inductive.                                              *)
(***************************************************************************)
\* What a guarded update does to the state column.
LEMMA TransitionState ==
  ASSUME NEW t \in Task, NEW from, NEW to, Transition(t, from, to)
  PROVE  \/ /\ state[t] \in from \ TerminalStates
            /\ state' = [state EXCEPT ![t] = to]
         \/ /\ state[t] \notin from \ TerminalStates
            /\ state' = state
BY DEF Transition, Update, db

\* A step that touches no row, no execute and no process.
LEMMA LifecycleFrame ==
  ASSUME LifecycleInv, UNCHANGED <<state, agent, exec, verdict, proc, tree, starts>>,
         admission' = "submit" => submitting' \in Task
  PROVE  LifecycleInv'
BY DEF LifecycleInv, ExecOwnsRow, StartedOnce, TreeInv

\* A step that only changes the state of one row, in a way the invariant allows.
LEMMA LifecycleRow ==
  ASSUME TypeOK, LifecycleInv, NEW t \in Task, NEW to,
         state' = [state EXCEPT ![t] = to],
         UNCHANGED <<agent, exec, verdict, proc, tree, starts>>,
         admission' = "submit" => submitting' \in Task,
         \/ to \in ActiveStates /\ state[t] \in ActiveStates
         \/ to \in {"queued", "cancelled"} /\ state[t] \in {"none", "queued"}
         \/ to = "recovery_required" /\ exec[t] = "idle"
  PROVE  LifecycleInv'
BY DEF TypeOK, LifecycleInv, ExecOwnsRow, StartedOnce, TreeInv, ActiveStates,
       ConfirmedStates, BeforeStart, AfterStart

\* A cancel of a queued task disturbs no execute and no process.
LEMMA LifecycleCancelBegin ==
  ASSUME TypeOK, LifecycleInv, NEW h \in Handler, NEW t \in Task,
         CancelBegin(h, t),
         UNCHANGED <<agent, exec, verdict, proc, tree, starts>>,
         admission' = "submit" => submitting' \in Task
  PROVE  LifecycleInv'
<1>1. Transition(t, {"queued"}, "cancelled")
  BY DEF CancelBegin
<1>2. CASE state[t] \in {"queued"} /\ state' = [state EXCEPT ![t] = "cancelled"]
  BY <1>2, LifecycleRow
<1>3. CASE state' = state
  BY <1>3, LifecycleFrame
<1> QED
  BY <1>1, <1>2, <1>3, TransitionState

\* A later step of a cancel only marks an active row, or uses its token.
LEMMA LifecycleCancelStep ==
  ASSUME TypeOK, LifecycleInv, NEW h \in Handler, CancelStep(h)
  PROVE  LifecycleInv'
<1> USE DEF gate, os
<1>1. admission' = "submit" => submitting' \in Task
  BY DEF CancelStep, CancelActive, CancelToken, LifecycleInv
<1>2. CASE CancelActive(h)
  <2> DEFINE t == handler[h].task
  <2>1. t \in Task
    BY <1>2, HandlerTask DEF CancelActive
  <2>2. Transition(t, {"starting", "running"}, "cancelling")
    BY <1>2 DEF CancelActive
  <2>3. UNCHANGED <<agent, exec, verdict, proc, tree, starts>>
    BY <1>2 DEF CancelActive
  <2>4. CASE /\ state[t] \in {"starting", "running"}
             /\ state' = [state EXCEPT ![t] = "cancelling"]
    BY <1>1, <2>1, <2>3, <2>4, LifecycleRow DEF ActiveStates
  <2>5. CASE state' = state
    BY <1>1, <2>3, <2>5, LifecycleFrame
  <2> QED
    BY <2>1, <2>2, <2>4, <2>5, TransitionState
<1>3. CASE CancelToken(h)
  BY <1>1, <1>3, LifecycleFrame DEF CancelToken, db
<1> QED
  BY <1>2, <1>3 DEF CancelStep

\* Each step of execute takes its row and its process on together.
LEMMA LifecycleExec ==
  ASSUME TypeOK, LifecycleInv, NEW t \in Task, ExecStep(t)
  PROVE  LifecycleInv'
<1> USE DEF gate, os, db, history
<1> USE DEF LifecycleInv, ExecOwnsRow, StartedOnce, TreeInv, BeforeStart,
            AfterStart, ActiveStates, ConfirmedStates, TerminalStates
<1>1. CASE ExecCheck(t)
  BY <1>1 DEF ExecCheck, Transition, Update, Return, TypeOK
<1>2. CASE ExecStart(t)
  BY <1>2 DEF ExecStart, TypeOK
<1>3. CASE ExecStartFailed(t)
  BY <1>3 DEF ExecStartFailed, Transition, Update, Return, TypeOK
<1>4. CASE ExecRunning(t)
  BY <1>4 DEF ExecRunning, Transition, Update, TypeOK
<1>5. CASE WatchCancelled(t)
  BY <1>5 DEF WatchCancelled, Selecting, TypeOK
<1>6. CASE WatchDeadline(t)
  BY <1>6 DEF WatchDeadline, Selecting, Transition, Update, TypeOK
<1>7. CASE WatchGrace(t)
  BY <1>7 DEF WatchGrace, Selecting, TypeOK
<1>8. CASE WatchExit(t)
  BY <1>8 DEF WatchExit, FinalState, TypeOK
<1>9. CASE ExecFinal(t)
  BY <1>9 DEF ExecFinal, Transition, Update, TypeOK
<1>10. CASE ExecCollect(t)
  BY <1>10 DEF ExecCollect, Return, TypeOK
<1> QED
  BY <1>1, <1>2, <1>3, <1>4, <1>5, <1>6, <1>7, <1>8, <1>9, <1>10 DEF ExecStep

\* Every step of the agent keeps the lifecycle invariant.
LEMMA LifecycleStep ==
  ASSUME TypeOK, LifecycleInv, [Next]_vars
  PROVE  LifecycleInv'
<1> USE DEF gate, os, db, run, history
<1>1. ASSUME NEW t \in Task, SubmitBegin(t) PROVE LifecycleInv'
  BY <1>1, LifecycleFrame DEF SubmitBegin, LockForSubmit
<1>2. CASE SubmitCommit
  <2>1. submitting \in Task
    BY <1>2 DEF SubmitCommit, LifecycleInv
  <2>2. CASE /\ state[submitting] = "none"
             /\ state' = [state EXCEPT ![submitting] = "queued"]
    BY <1>2, <2>1, <2>2, LifecycleRow DEF SubmitCommit
  <2>3. CASE state' = state
    BY <1>2, <2>3, LifecycleFrame DEF SubmitCommit
  <2> QED
    BY <1>2, <2>2, <2>3 DEF SubmitCommit, Accept, AcceptIfRoom
<1>3. CASE SubmitRefused
  BY <1>3, LifecycleFrame DEF SubmitRefused
<1>4. ASSUME NEW c \in Canceller, NEW t \in Task, CancelQueued(c, t)
      PROVE  LifecycleInv'
  BY <1>4, LifecycleCancelBegin DEF CancelQueued, Handler, LifecycleInv
<1>5. ASSUME NEW h \in Handler, CancelStep(h) PROVE LifecycleInv'
  BY <1>5, LifecycleCancelStep
<1>6. ASSUME NEW c \in Canceller, CancelDropped(c) PROVE LifecycleInv'
  BY <1>6, LifecycleFrame DEF CancelDropped, LifecycleInv
<1>7. CASE StopDraining
  BY <1>7, LifecycleFrame DEF StopDraining, LifecycleInv
<1>8. CASE StopAborting
  BY <1>8, LifecycleFrame DEF StopAborting
<1>9. CASE StopFinish
  BY <1>9, LifecycleFrame DEF StopFinish
<1>10. ASSUME NEW t \in Task, StopCancelNext(t) PROVE LifecycleInv'
  <2>1. CASE CancelBegin(Owner, t)
    BY <1>10, <2>1, LifecycleCancelBegin DEF StopCancelNext, Handler
  <2>2. CASE UNCHANGED <<db, handler>>
    BY <1>10, <2>2, LifecycleFrame DEF StopCancelNext
  <2> QED
    BY <1>10, <2>1, <2>2 DEF StopCancelNext
<1>11. CASE StopDropped
  BY <1>11, LifecycleFrame DEF StopDropped
<1>12. ASSUME NEW t \in Task, ClaimNext(t) PROVE LifecycleInv'
  BY <1>12 DEF ClaimNext, Queued, TypeOK, LifecycleInv, ExecOwnsRow,
     StartedOnce, TreeInv, BeforeStart, AfterStart, ActiveStates, ConfirmedStates
<1>13. ASSUME NEW t \in Task, Register(t) PROVE LifecycleInv'
  BY <1>13 DEF Register, TypeOK, LifecycleInv, ExecOwnsRow, StartedOnce,
     TreeInv, BeforeStart, AfterStart, ActiveStates
<1>14. ASSUME NEW t \in Task, Join(t) PROVE LifecycleInv'
  BY <1>14 DEF Join, TypeOK, LifecycleInv, ExecOwnsRow, StartedOnce, TreeInv,
     BeforeStart, AfterStart
<1>15. CASE ClaimNothing \/ StopCheck \/ Wakeup
  BY <1>15, LifecycleFrame DEF ClaimNothing, StopCheck, Wakeup, LifecycleInv
<1>16. ASSUME NEW t \in Task, ExecStep(t) PROVE LifecycleInv'
  BY <1>16, LifecycleExec
<1>17. ASSUME NEW t \in Task, ExecError(t) PROVE LifecycleInv'
  <2>1. PICK left \in SUBSET {t} : DropTrees({t}, left)
    BY <1>17 DEF ExecError
  <2> QED
    BY <1>17, <2>1 DEF ExecError, DropTrees, Return, TypeOK, LifecycleInv,
       ExecOwnsRow, StartedOnce, TreeInv, BeforeStart, AfterStart
<1>18. CASE RunError
  <2>1. PICK left \in SUBSET Running : DropTrees(Running, left)
    BY <1>18 DEF RunError
  <2> QED
    BY <1>18, <2>1 DEF RunError, DropTrees, TypeOK, LifecycleInv,
       ExecOwnsRow, StartedOnce, TreeInv, BeforeStart, AfterStart
<1>19. ASSUME NEW t \in Task, ProcessExit(t) PROVE LifecycleInv'
  BY <1>19 DEF ProcessExit, TypeOK, LifecycleInv, ExecOwnsRow, StartedOnce,
     TreeInv
<1>20. CASE Exit
  BY <1>20 DEF Exit, Down, FreshRunner, TypeOK, LifecycleInv, ExecOwnsRow,
     StartedOnce, TreeInv, BeforeStart, AfterStart
<1>21. CASE Crash
  <2>1. PICK left \in {{}, Task} : DropTrees(Task, left)
    BY <1>21 DEF Crash
  <2> QED
    BY <1>21, <2>1 DEF Crash, DropTrees, Down, FreshRunner, TypeOK, LifecycleInv,
       ExecOwnsRow, StartedOnce, TreeInv, BeforeStart, AfterStart
<1>22. CASE Start
  BY <1>22 DEF Start, LifecycleInv, ExecOwnsRow, StartedOnce, TreeInv
<1>23. ASSUME NEW t \in Task, RecoverTask(t) PROVE LifecycleInv'
  <2>1. exec[t] = "idle"
    BY <1>23 DEF RecoverTask, LifecycleInv, ExecOwnsRow
  <2>2. CASE state' = [state EXCEPT ![t] = "recovery_required"]
    BY <1>23, <2>1, <2>2, LifecycleRow DEF RecoverTask, LifecycleInv
  <2>3. CASE state' = state
    BY <1>23, <2>3, LifecycleFrame DEF RecoverTask, LifecycleInv
  <2> QED
    BY <1>23, <2>2, <2>3, TransitionState DEF RecoverTask
<1>24. CASE RecoverResults
  BY <1>24 DEF RecoverResults, LifecycleInv, ExecOwnsRow, StartedOnce, TreeInv
<1>25. CASE UNCHANGED vars
  BY <1>25, LifecycleFrame DEF vars, LifecycleInv
<1> QED
  BY <1>1, <1>2, <1>3, <1>4, <1>5, <1>6, <1>7, <1>8, <1>9, <1>10, <1>11,
     <1>12, <1>13, <1>14, <1>15, <1>16, <1>17, <1>18, <1>19, <1>20, <1>21,
     <1>22, <1>23, <1>24, <1>25 DEF Next, RunStep, StopStep, Handler

\* The inductive invariant holds in every reachable state.
THEOREM LifecycleInvariant == Spec => []LifecycleInv
<1>1. Init => LifecycleInv
  BY DEF Init, LifecycleInv, ExecOwnsRow, StartedOnce, TreeInv, BeforeStart,
     AfterStart, ConfirmedStates
<1>2. TypeOK /\ LifecycleInv /\ [Next]_vars => LifecycleInv'
  BY LifecycleStep
<1> QED
  BY <1>1, <1>2, TypeCorrect, PTL DEF Spec

\* A process is started for a request at most once, whatever the order of
\* submits, cancels, crashes and restarts.
THEOREM AtMostOnceHolds == Spec => []AtMostOnce
<1>1. LifecycleInv => AtMostOnce
  BY DEF LifecycleInv, StartedOnce, AtMostOnce
<1> QED
  BY <1>1, LifecycleInvariant, PTL

\* A confirmed outcome is written only when the task's processes have ended.
THEOREM ConfirmedMeansEndedHolds == Spec => []ConfirmedMeansEnded
<1>1. LifecycleInv => ConfirmedMeansEnded
  BY DEF LifecycleInv, TreeInv, ConfirmedMeansEnded
<1> QED
  BY <1>1, LifecycleInvariant, PTL

-----------------------------------------------------------------------------
(***************************************************************************)
(* AgentRunner implements TaskLifecycle.                                   *)
(***************************************************************************)

\* Neither a row's state nor a start changes.
Quiet == UNCHANGED <<state, starts>>

\* What a change of one row is at the abstract level.
LEMMA RowImplements ==
  ASSUME TypeOK, LifecycleInv, NEW t \in Task, NEW to,
         state' = [state EXCEPT ![t] = to], UNCHANGED starts,
         \/ state[t] = "none" /\ to = "queued"
         \/ state[t] = "queued" /\ to \in {"starting", "cancelled"}
         \/ state[t] \in ActiveStates /\ to \in ActiveStates \cup {"recovery_required"}
         \/ state[t] \in ActiveStates /\ to \in {"failed", "cancelled"}
         \/ state[t] \in ActiveStates /\ starts[t] = 1 /\ to \in ConfirmedStates
  PROVE  [Lifecycle!Next]_(Lifecycle!vars)
<1> DEFINE before == [u \in Task |-> Outcome(state[u])]
           after == [u \in Task |-> Outcome(state'[u])]
<1>1. after = [before EXCEPT ![t] = Outcome(to)]
  BY DEF TypeOK
<1>2. starts' = starts
  OBVIOUS
<1>3. CASE state[t] = "none" /\ to = "queued"
  <2>1. Lifecycle!Accept(t)
    BY <1>1, <1>2, <1>3 DEF Lifecycle!Accept, Lifecycle!Become, Outcome, ActiveStates
  <2> QED
    BY <2>1 DEF Lifecycle!Next
<1>4. CASE state[t] = "queued" /\ to = "starting"
  <2>1. Lifecycle!Begin(t)
    BY <1>1, <1>2, <1>4 DEF Lifecycle!Begin, Lifecycle!Become, Outcome, ActiveStates
  <2> QED
    BY <2>1 DEF Lifecycle!Next
<1>5. CASE state[t] = "queued" /\ to = "cancelled"
  <2>1. Lifecycle!Withdraw(t)
    BY <1>1, <1>2, <1>5 DEF Lifecycle!Withdraw, Lifecycle!Become, Outcome, ActiveStates
  <2> QED
    BY <2>1 DEF Lifecycle!Next
<1>6. CASE state[t] \in ActiveStates /\ to \in ActiveStates
  <2>1. Outcome(to) = before[t]
    BY <1>6 DEF Outcome, ActiveStates
  <2>2. after = before
    BY <1>1, <2>1
  <2> QED
    BY <2>2, <1>2 DEF Lifecycle!vars
<1>7. CASE state[t] \in ActiveStates /\ to = "recovery_required"
  <2>1. Lifecycle!Abandon(t)
    BY <1>1, <1>2, <1>7 DEF Lifecycle!Abandon, Lifecycle!Become, Outcome, ActiveStates
  <2> QED
    BY <2>1 DEF Lifecycle!Next
<1>8. CASE state[t] \in ActiveStates /\ to \in {"failed", "cancelled"}
  <2>1. Lifecycle!Finish(t)
    BY <1>1, <1>2, <1>8 DEF Lifecycle!Finish, Lifecycle!Become, Outcome, ActiveStates
  <2> QED
    BY <2>1 DEF Lifecycle!Next
<1>9. CASE state[t] \in ActiveStates /\ starts[t] = 1 /\ to \in ConfirmedStates
  <2>1. Outcome(to) = to
    BY <1>9 DEF Outcome, ActiveStates, ConfirmedStates
  <2>2. Lifecycle!Become(t, to)
    BY <1>1, <1>2, <2>1 DEF Lifecycle!Become
  <2>3. before[t] = "active"
    BY <1>9 DEF Outcome, ActiveStates
  <2>4. Lifecycle!Finish(t)
    BY <1>9, <2>2, <2>3 DEF Lifecycle!Finish, ConfirmedStates
  <2> QED
    BY <2>4 DEF Lifecycle!Next
<1> QED
  BY <1>3, <1>4, <1>5, <1>6, <1>7, <1>8, <1>9

\* A step that changes no row and starts no process is a stutter of the lifecycle.
LEMMA QuietImplements ==
  ASSUME Quiet
  PROVE  [Lifecycle!Next]_(Lifecycle!vars)
BY DEF Quiet, Lifecycle!vars

\* A guarded update of a row that the abstract level allows.
LEMMA TransitionImplements ==
  ASSUME TypeOK, LifecycleInv, NEW t \in Task, NEW from, NEW to,
         Transition(t, from, to), UNCHANGED starts,
         state[t] \in from =>
           \/ state[t] = "queued" /\ to = "cancelled"
           \/ state[t] \in ActiveStates /\ to \in ActiveStates \cup {"recovery_required"}
           \/ state[t] \in ActiveStates /\ to \in {"failed", "cancelled"}
           \/ state[t] \in ActiveStates /\ starts[t] = 1 /\ to \in ConfirmedStates
  PROVE  [Lifecycle!Next]_(Lifecycle!vars)
<1>1. CASE state[t] \in from /\ state' = [state EXCEPT ![t] = to]
  BY <1>1, RowImplements
<1>2. CASE state' = state
  BY <1>2, QuietImplements DEF Quiet
<1> QED
  BY <1>1, <1>2, TransitionState

\* A step of execute is a step of the lifecycle, or a stutter.
LEMMA ExecImplements ==
  ASSUME TypeOK, LifecycleInv, NEW t \in Task, ExecStep(t)
  PROVE  [Lifecycle!Next]_(Lifecycle!vars)
<1> USE DEF os, db
<1>1. CASE ExecCheck(t)
  <2>1. CASE Transition(t, {"cancelling"}, "cancelled")
    BY <1>1, <2>1, TransitionImplements DEF ExecCheck, ActiveStates
  <2>2. CASE UNCHANGED db
    BY <1>1, <2>2, QuietImplements DEF ExecCheck, Quiet
  <2> QED
    BY <1>1, <2>1, <2>2 DEF ExecCheck
<1>2. CASE ExecStart(t)
  <2>1. state[t] \in ActiveStates /\ starts[t] = 0
    BY <1>2 DEF ExecStart, LifecycleInv, ExecOwnsRow, StartedOnce, BeforeStart
  <2>2. starts' = [starts EXCEPT ![t] = 1] /\ state' = state
    BY <1>2, <2>1 DEF ExecStart
  <2>3. Lifecycle!Launch(t)
    BY <2>1, <2>2 DEF Lifecycle!Launch, Outcome, ActiveStates
  <2> QED
    BY <2>3 DEF Lifecycle!Next
<1>3. CASE ExecStartFailed(t)
  BY <1>3, TransitionImplements DEF ExecStartFailed, ActiveStates
<1>4. CASE ExecRunning(t)
  BY <1>4, TransitionImplements DEF ExecRunning, ActiveStates
<1>5. CASE WatchCancelled(t) \/ WatchGrace(t) \/ WatchExit(t) \/ ExecCollect(t)
  BY <1>5, QuietImplements
     DEF WatchCancelled, WatchGrace, WatchExit, ExecCollect, Quiet
<1>6. CASE WatchDeadline(t)
  BY <1>6, TransitionImplements DEF WatchDeadline, ActiveStates
<1>7. CASE ExecFinal(t)
  <2>1. starts[t] = 1 /\ verdict[t] \in ConfirmedStates
    BY <1>7 DEF ExecFinal, TypeOK, LifecycleInv, StartedOnce, AfterStart
  <2> QED
    BY <1>7, <2>1, TransitionImplements DEF ExecFinal
<1> QED
  BY <1>1, <1>2, <1>3, <1>4, <1>5, <1>6, <1>7 DEF ExecStep

\* So is a step of a cancel call.
LEMMA CancelImplements ==
  ASSUME TypeOK, LifecycleInv, NEW h \in Handler
  PROVE  /\ \A t \in Task : CancelBegin(h, t) /\ UNCHANGED starts =>
              [Lifecycle!Next]_(Lifecycle!vars)
         /\ CancelStep(h) => [Lifecycle!Next]_(Lifecycle!vars)
<1> USE DEF os, db
<1>1. ASSUME NEW t \in Task, CancelBegin(h, t), UNCHANGED starts
      PROVE  [Lifecycle!Next]_(Lifecycle!vars)
  BY <1>1, TransitionImplements DEF CancelBegin
<1>2. ASSUME CancelActive(h) PROVE [Lifecycle!Next]_(Lifecycle!vars)
  BY <1>2, HandlerTask, TransitionImplements DEF CancelActive, ActiveStates
<1>3. ASSUME CancelToken(h) PROVE [Lifecycle!Next]_(Lifecycle!vars)
  BY <1>3, QuietImplements DEF CancelToken, Quiet
<1> QED
  BY <1>1, <1>2, <1>3 DEF CancelStep

\* So is every step of the agent.
LEMMA StepImplements ==
  ASSUME TypeOK, LifecycleInv, [Next]_vars
  PROVE  [Lifecycle!Next]_(Lifecycle!vars)
<1> USE DEF os, db
<1>1. CASE Quiet
  BY <1>1, QuietImplements
<1>2. CASE SubmitCommit
  <2>1. submitting \in Task
    BY <1>2 DEF SubmitCommit, LifecycleInv
  <2>2. CASE /\ state[submitting] = "none"
             /\ state' = [state EXCEPT ![submitting] = "queued"]
    BY <1>2, <2>1, <2>2, RowImplements DEF SubmitCommit
  <2>3. CASE state' = state
    BY <1>2, <2>3, QuietImplements DEF SubmitCommit, Quiet
  <2> QED
    BY <1>2, <2>2, <2>3 DEF SubmitCommit, Accept, AcceptIfRoom
<1>3. ASSUME NEW h \in Handler, CancelStep(h) PROVE [Lifecycle!Next]_(Lifecycle!vars)
  BY <1>3, CancelImplements
<1>4. ASSUME NEW c \in Canceller, NEW t \in Task, CancelQueued(c, t)
      PROVE  [Lifecycle!Next]_(Lifecycle!vars)
  BY <1>4, CancelImplements DEF CancelQueued, Handler
<1>5. ASSUME NEW t \in Task, StopCancelNext(t) PROVE [Lifecycle!Next]_(Lifecycle!vars)
  <2>1. CASE CancelBegin(Owner, t)
    BY <1>5, <2>1, CancelImplements DEF StopCancelNext, Handler
  <2>2. CASE UNCHANGED db
    BY <1>5, <2>2, QuietImplements DEF StopCancelNext, Quiet
  <2> QED
    BY <1>5, <2>1, <2>2 DEF StopCancelNext
<1>6. ASSUME NEW t \in Task, ClaimNext(t) PROVE [Lifecycle!Next]_(Lifecycle!vars)
  BY <1>6, RowImplements DEF ClaimNext, Queued
<1>7. ASSUME NEW t \in Task, ExecStep(t) PROVE [Lifecycle!Next]_(Lifecycle!vars)
  BY <1>7, ExecImplements
<1>8. ASSUME NEW t \in Task, RecoverTask(t) PROVE [Lifecycle!Next]_(Lifecycle!vars)
  BY <1>8, TransitionImplements DEF RecoverTask
<1>9. ASSUME NEW t \in Task,
             SubmitBegin(t) \/ Register(t) \/ Join(t) \/ ExecError(t) \/ ProcessExit(t)
      PROVE  Quiet
  BY <1>9 DEF SubmitBegin, LockForSubmit, Register, Join, ExecError, DropTrees,
     ProcessExit, Quiet
<1>10. ASSUME \/ SubmitRefused \/ StopDraining \/ StopAborting \/ StopFinish
              \/ StopDropped \/ ClaimNothing \/ StopCheck \/ Wakeup \/ RunError
              \/ Exit \/ Crash \/ Start \/ RecoverResults \/ UNCHANGED vars
              \/ \E c \in Canceller : CancelDropped(c)
       PROVE  Quiet
  BY <1>10 DEF SubmitRefused, StopDraining, StopAborting, StopFinish,
     StopDropped, ClaimNothing, StopCheck, Wakeup, RunError, DropTrees, Exit,
     Crash, Down, Start, RecoverResults, CancelDropped, vars, Quiet
<1> QED
  BY <1>1, <1>2, <1>3, <1>4, <1>5, <1>6, <1>7, <1>8, <1>9, <1>10
     DEF Next, RunStep, StopStep, Handler

\* The agent implements the abstract lifecycle of a task.
THEOREM LifecycleRefinement == Spec => ImplementsLifecycle
<1>1. Init => Lifecycle!Init
  BY DEF Init, Lifecycle!Init, Outcome, ActiveStates
<1>2. TypeOK /\ LifecycleInv /\ [Next]_vars => [Lifecycle!Next]_(Lifecycle!vars)
  BY StepImplements
<1> QED
  BY <1>1, <1>2, TypeCorrect, LifecycleInvariant, PTL
     DEF Spec, ImplementsLifecycle, Lifecycle!Spec

\* A final state is never rewritten.  It follows from the refinement: the
\* abstract level leaves an ended task alone, and a final state is its own
\* outcome.
THEOREM TerminalIsFinalHolds == Spec => TerminalIsFinal
<1> DEFINE Kept == \A t \in Task : state[t] \in TerminalStates => state'[t] = state[t]
<1>1. ASSUME TypeOK, LifecycleInv, [Next]_vars PROVE [Kept]_vars
  <2> SUFFICES ASSUME NEW t \in Task, state[t] \in TerminalStates
               PROVE  state'[t] = state[t]
    OBVIOUS
  <2> DEFINE before == [u \in Task |-> Outcome(state[u])]
             after == [u \in Task |-> Outcome(state'[u])]
  <2>1. [Lifecycle!Next]_(Lifecycle!vars)
    BY <1>1, StepImplements
  <2>2. before[t] = state[t]
    BY DEF Outcome, TerminalStates, ConfirmedStates, ActiveStates
  <2>3. after[t] = before[t]
    <3>1. before[t] \notin {"none", "waiting", "active"}
      BY <2>2 DEF TerminalStates, ConfirmedStates
    <3>2. ASSUME NEW u \in Task, NEW to, Lifecycle!Become(u, to), u # t
          PROVE  after[t] = before[t]
      BY <3>2 DEF Lifecycle!Become
    <3>3. CASE Lifecycle!Next
      BY <3>1, <3>2, <3>3
         DEF Lifecycle!Next, Lifecycle!Accept, Lifecycle!Withdraw,
             Lifecycle!Begin, Lifecycle!Launch, Lifecycle!Finish, Lifecycle!Abandon
    <3>4. CASE UNCHANGED Lifecycle!vars
      BY <3>4 DEF Lifecycle!vars
    <3> QED
      BY <2>1, <3>3, <3>4
  <2>4. state'[t] = state[t]
    BY <2>2, <2>3 DEF Outcome, TerminalStates, ConfirmedStates, ActiveStates
  <2> QED
    BY <2>4
<1>2. TypeOK /\ LifecycleInv /\ [Next]_vars => [Kept]_vars
  BY <1>1
<1> QED
  BY <1>2, TypeCorrect, LifecycleInvariant, PTL DEF Spec, TerminalIsFinal
-----------------------------------------------------------------------------
(***************************************************************************)
(* Rows come from a submit only: the queue and the stop.                   *)
(***************************************************************************)
\* No row appears, and none goes back to the queue.
RowsLeave ==
  \A t \in Task : /\ state'[t] \in {"none", "queued"} => state'[t] = state[t]
                  /\ state[t] = "none" => state'[t] = "none"

\* A guarded update of a row that exists takes it out of the queue.
LEMMA TransitionLeaves ==
  ASSUME TypeOK, NEW t \in Task, NEW from, NEW to, Transition(t, from, to),
         to \notin {"none", "queued"}, "none" \notin from
  PROVE  RowsLeave
BY TransitionState DEF TypeOK, RowsLeave

\* A step that leaves the states alone does too.
LEMMA StateKept == ASSUME state' = state PROVE RowsLeave
BY DEF RowsLeave

\* Only a submit brings a row into the queue.
LEMMA StepLeaves ==
  ASSUME TypeOK, LifecycleInv, [Next]_vars, ~SubmitCommit
  PROVE  RowsLeave
<1> USE DEF os, db
<1>1. CASE UNCHANGED state
  BY <1>1, StateKept
<1>2. ASSUME NEW h \in Handler, NEW t \in Task, CancelBegin(h, t) PROVE RowsLeave
  BY <1>2, TransitionLeaves DEF CancelBegin
<1>3. ASSUME NEW h \in Handler, CancelStep(h) PROVE RowsLeave
  <2>1. CASE CancelActive(h)
    BY <2>1, HandlerTask, TransitionLeaves DEF CancelActive
  <2>2. CASE CancelToken(h)
    BY <2>2, StateKept DEF CancelToken
  <2> QED
    BY <1>3, <2>1, <2>2 DEF CancelStep
<1>4. ASSUME NEW t \in Task, StopCancelNext(t) PROVE RowsLeave
  <2>1. Owner \in Handler
    BY DEF Handler
  <2> QED
    BY <1>2, <1>4, <2>1, StateKept DEF StopCancelNext
<1>5. ASSUME NEW t \in Task, ClaimNext(t) PROVE RowsLeave
  BY <1>5 DEF ClaimNext, Queued, RowsLeave, TypeOK
<1>6. ASSUME NEW t \in Task, ExecStep(t) PROVE RowsLeave
  <2>1. CASE ExecCheck(t)
    BY <2>1, TransitionLeaves, StateKept DEF ExecCheck
  <2>2. CASE ExecStartFailed(t) \/ ExecRunning(t) \/ WatchDeadline(t)
    BY <2>2, TransitionLeaves DEF ExecStartFailed, ExecRunning, WatchDeadline
  <2>3. CASE ExecFinal(t)
    <3>1. verdict[t] \notin {"none", "queued"}
      BY <2>3 DEF ExecFinal, LifecycleInv, StartedOnce, TypeOK, ConfirmedStates
    <3> QED
      BY <2>3, <3>1, TransitionLeaves DEF ExecFinal, ActiveStates
  <2>4. CASE \/ ExecStart(t) \/ WatchCancelled(t) \/ WatchGrace(t) \/ WatchExit(t)
             \/ ExecCollect(t)
    BY <2>4, StateKept DEF ExecStart, WatchCancelled, WatchGrace, WatchExit, ExecCollect
  <2> QED
    BY <1>6, <2>1, <2>2, <2>3, <2>4 DEF ExecStep
<1>7. ASSUME NEW t \in Task, RecoverTask(t) PROVE RowsLeave
  BY <1>7, TransitionLeaves DEF RecoverTask, ActiveStates
<1>8. ASSUME NEW t \in Task,
             SubmitBegin(t) \/ Register(t) \/ Join(t) \/ ExecError(t) \/ ProcessExit(t)
      PROVE  UNCHANGED state
  BY <1>8 DEF SubmitBegin, LockForSubmit, Register, Join, ExecError, DropTrees, ProcessExit
<1>9. ASSUME \/ SubmitRefused \/ StopDraining \/ StopAborting \/ StopFinish
             \/ StopDropped \/ ClaimNothing \/ StopCheck \/ Wakeup \/ RunError
             \/ Exit \/ Crash \/ Start \/ RecoverResults \/ UNCHANGED vars
             \/ \E c \in Canceller : CancelDropped(c)
      PROVE  UNCHANGED state
  BY <1>9 DEF SubmitRefused, StopDraining, StopAborting, StopFinish,
     StopDropped, ClaimNothing, StopCheck, Wakeup, RunError, DropTrees, Exit,
     Crash, Down, Start, RecoverResults, CancelDropped, vars
<1>10. ASSUME NEW c \in Canceller, NEW t \in Task, CancelQueued(c, t) PROVE RowsLeave
  BY <1>2, <1>10 DEF CancelQueued, Handler
<1> QED
  BY <1>1, <1>3, <1>4, <1>5, <1>6, <1>7, <1>8, <1>9, <1>10
     DEF Next, RunStep, StopStep, Handler

\* The queue never holds more than MAX_WAITING rows, whatever cancels, claims,
\* crashes and restarts take from it or leave in it (AgentStore::accept).
THEOREM QueueBoundHolds == Spec => []QueueBound
<1>1. Init => QueueBound
  <2>1. Init => Queued = {}
    BY DEF Init, Queued
  <2> QED
    BY <2>1, FS_EmptySet, NumberAssumption DEF QueueBound
<1>2. ASSUME TypeOK, LifecycleInv, QueueBound, [Next]_vars PROVE QueueBound'
  <2>1. IsFiniteSet(Queued)
    BY TaskAssumption, FS_Subset DEF Queued
  <2>2. CASE Queued' \subseteq Queued
    BY <1>2, <2>1, <2>2, FS_Subset, FS_CardinalityType, NumberAssumption DEF QueueBound
  <2>3. CASE ~SubmitCommit
    BY <1>2, <2>2, <2>3, StepLeaves DEF RowsLeave, Queued
  <2>4. CASE SubmitCommit
    <3>1. submitting \in Task
      BY <1>2, <2>4 DEF SubmitCommit, LifecycleInv
    <3>2. CASE UNCHANGED db
      BY <2>2, <3>2 DEF db, Queued
    <3>3. CASE /\ Cardinality(Queued) < MaxWaiting
               /\ state' = [state EXCEPT ![submitting] = "queued"]
      <4>1. Queued' = Queued \cup {submitting}
        BY <1>2, <3>1, <3>3 DEF Queued, TypeOK
      <4>2. \/ Cardinality(Queued \cup {submitting}) = Cardinality(Queued)
            \/ Cardinality(Queued \cup {submitting}) = Cardinality(Queued) + 1
        BY <2>1, FS_AddElement
      <4>3. Cardinality(Queued) \in Nat
        BY <2>1, FS_CardinalityType
      <4>4. Cardinality(Queued') <= MaxWaiting
        BY <3>3, <4>1, <4>2, <4>3, NumberAssumption
      <4> QED
        BY <4>4 DEF QueueBound
    <3> QED
      BY <2>4, <3>2, <3>3 DEF SubmitCommit, Accept, AcceptIfRoom
  <2> QED
    BY <2>3, <2>4
<1> QED
  BY <1>1, <1>2, TypeCorrect, LifecycleInvariant, PTL DEF Spec

\* What the admission lock is for: nobody holds it for a submit once the stop
\* token is cancelled.
DoorInv ==
  /\ admission = "stop" \/ stopped => ~accepting
  /\ stopped => admission # "submit"

\* Every step keeps the door shut once it is shut.
LEMMA DoorStep == DoorInv /\ [Next]_vars => DoorInv'
<1> SUFFICES ASSUME DoorInv, [Next]_vars PROVE DoorInv'
  OBVIOUS
<1> USE DEF DoorInv, gate
<1>1. CASE UNCHANGED <<accepting, admission, stopped>>
  BY <1>1
<1>2. ASSUME NEW t \in Task, SubmitBegin(t) PROVE DoorInv'
  BY <1>2 DEF SubmitBegin, LockForSubmit
<1>3. CASE SubmitCommit \/ SubmitRefused
  BY <1>3 DEF SubmitCommit, SubmitRefused
<1>4. CASE StopDraining \/ StopAborting \/ StopFinish \/ StopDropped
  BY <1>4 DEF StopDraining, StopAborting, StopFinish, StopDropped
<1>5. CASE Exit \/ Crash
  BY <1>5 DEF Exit, Crash, Down, FreshRunner
<1>6. ASSUME NEW h \in Handler, CancelStep(h) PROVE DoorInv'
  BY <1>6 DEF CancelStep, CancelActive, CancelToken
<1>7. ASSUME NEW t \in Task,
             \/ StopCancelNext(t) \/ ClaimNext(t) \/ Register(t) \/ ExecStep(t)
             \/ ExecError(t) \/ ProcessExit(t) \/ RecoverTask(t)
             \/ \E c \in Canceller : CancelQueued(c, t)
      PROVE  UNCHANGED <<accepting, admission, stopped>>
  <2>1. CASE ExecStep(t)
    BY <2>1 DEF ExecStep, ExecCheck, ExecStart, ExecStartFailed, ExecRunning, WatchCancelled,
                WatchDeadline, WatchGrace, WatchExit, ExecFinal, ExecCollect
  <2>2. CASE StopCancelNext(t) \/ \E c \in Canceller : CancelQueued(c, t)
    BY <2>2 DEF StopCancelNext, CancelQueued
  <2>3. CASE ClaimNext(t) \/ Register(t)
    BY <2>3 DEF ClaimNext, Register
  <2>4. CASE ExecError(t) \/ ProcessExit(t) \/ RecoverTask(t)
    BY <2>4 DEF ExecError, ProcessExit, RecoverTask
  <2> QED
    BY <1>7, <2>1, <2>2, <2>3, <2>4
<1>8. ASSUME \/ ClaimNothing \/ StopCheck \/ Wakeup \/ RunError \/ Start \/ RecoverResults
             \/ UNCHANGED vars \/ \E c \in Canceller : CancelDropped(c)
      PROVE  UNCHANGED <<accepting, admission, stopped>>
  BY <1>8 DEF ClaimNothing, StopCheck, Wakeup, RunError, Start, RecoverResults, CancelDropped, vars
<1>9. ASSUME NEW t \in Task, Join(t) PROVE DoorInv'
  BY <1>9 DEF Join
<1> QED
  BY <1>1, <1>2, <1>3, <1>4, <1>5, <1>6, <1>7, <1>8, <1>9 DEF Next, RunStep, StopStep, Handler

\* Once the stop token is cancelled no request becomes a row until the agent is
\* started again, in any order of submits and stops (Runner::request_stop).
THEOREM NoAcceptAfterStopHolds == Spec => NoAcceptAfterStop
<1> DEFINE Kept == stopped => \A t \in Task : state[t] = "none" => state'[t] = "none"
<1>1. TypeOK /\ LifecycleInv /\ DoorInv /\ [Next]_vars => [Kept]_vars
  <2> SUFFICES ASSUME TypeOK, LifecycleInv, DoorInv, [Next]_vars, stopped
               PROVE  \A t \in Task : state[t] = "none" => state'[t] = "none"
    OBVIOUS
  <2>1. ~SubmitCommit
    BY DEF DoorInv, SubmitCommit
  <2> QED
    BY <2>1, StepLeaves DEF RowsLeave
<1>2. Init => DoorInv
  BY DEF Init, DoorInv
<1> QED
  BY <1>1, <1>2, DoorStep, TypeCorrect, LifecycleInvariant, PTL DEF Spec, NoAcceptAfterStop

-----------------------------------------------------------------------------
(***************************************************************************)
(* A row, its execute and its result.                                      *)
(***************************************************************************)
\* Where execute is says which states the row may have left; an active row
\* has an execute; the result of a row in work is open.
RowOf(t) ==
  /\ exec[t] \in {"collect", "ok"} => state[t] \notin ActiveStates
  /\ exec[t] \in BeforeStart \cup {"started"} => state[t] # "running"
  /\ exec[t] \in {"watch", "drain"} => state[t] # "starting"
  /\ agent = "up" /\ loop # "returned" /\ state[t] \in ActiveStates =>
       exec[t] \notin {"idle", "ok"} \/ t \in unconfirmed
  /\ state[t] \in {"none", "queued"} \cup ActiveStates \/ exec[t] = "collect" =>
       result[t] \notin {"complete", "incomplete"}

RowInv == \A t \in Task : RowOf(t)

Settled == {"complete", "incomplete"}
ResultsKept == \A t \in Task : result[t] \in Settled => result'[t] = result[t]

\* A step that touches no row and no execute.
LEMMA RowFrame ==
  ASSUME RowInv, UNCHANGED <<state, result, exec>>,
         agent' = "up" => agent = "up", loop' # "returned" => loop # "returned",
         unconfirmed \subseteq unconfirmed'
  PROVE  RowInv' /\ ResultsKept
BY DEF RowInv, RowOf, ResultsKept

\* A guarded update of one row beside its execute.
LEMMA RowTransition ==
  ASSUME TypeOK, LifecycleInv, RowInv, NEW t \in Task, NEW from, NEW to, Transition(t, from, to),
         UNCHANGED <<exec, agent, loop, unconfirmed>>,
         \/ from \subseteq {"queued"} /\ to \in TerminalStates
         \/ from \subseteq ActiveStates /\ to = "cancelling"
         \/ from \subseteq ActiveStates /\ to = "recovery_required" /\ exec[t] = "idle"
  PROVE  RowInv' /\ ResultsKept
<1>1. CASE UNCHANGED db
  BY <1>1, RowFrame DEF db
<1>2. CASE state[t] \in from \ TerminalStates /\ Update(t, to)
  <2>1. /\ state' = [state EXCEPT ![t] = to]
        /\ result' = [result EXCEPT ![t] = ResultAfter(t, to)]
    BY <1>2 DEF Update
  <2>2. \A u \in Task \ {t} : state'[u] = state[u] /\ result'[u] = result[u]
    BY <2>1 DEF TypeOK
  <2>3. state'[t] = to /\ result'[t] = ResultAfter(t, to)
    BY <2>1 DEF TypeOK
  <2>4. state[t] \in {"queued"} \cup ActiveStates /\ result[t] \notin Settled
    BY <1>2 DEF RowInv, RowOf, Settled
  <2>5. ResultsKept
    BY <2>2, <2>4 DEF ResultsKept
  <2>6. to = "cancelling" => result'[t] = result[t]
    BY <2>3 DEF ResultAfter, TerminalStates, ConfirmedStates
  <2>7. CASE to = "cancelling" /\ state[t] \in ActiveStates
    BY <2>2, <2>3, <2>4, <2>5, <2>6, <2>7 DEF RowInv, RowOf, Settled, ActiveStates, BeforeStart
  <2>8. CASE to \in TerminalStates /\ exec[t] = "idle"
    <3>1. state'[t] \notin {"none", "queued"} \cup ActiveStates /\ exec'[t] = "idle"
      BY <2>3, <2>8 DEF ActiveStates, TerminalStates, ConfirmedStates
    <3> QED
      BY <2>2, <2>5, <3>1 DEF RowInv, RowOf, ActiveStates, BeforeStart
  <2>9. state[t] = "queued" => exec[t] = "idle"
    BY DEF LifecycleInv, ExecOwnsRow
  <2>10. \/ to = "cancelling" /\ state[t] \in ActiveStates
         \/ to \in TerminalStates /\ exec[t] = "idle"
    BY <1>2, <2>9 DEF TerminalStates
  <2> QED
    BY <2>5, <2>7, <2>8, <2>10
<1> QED
  BY <1>1, <1>2 DEF Transition

\* Each step of execute takes its row and its result on together.
LEMMA RowExec ==
  ASSUME TypeOK, LifecycleInv, RowInv, NEW t \in Task, ExecStep(t)
  PROVE  RowInv' /\ ResultsKept
<1> USE DEF db, run, history
<1>1. /\ agent' = agent /\ loop' = loop /\ unconfirmed' = unconfirmed
      /\ \A u \in Task \ {t} : state'[u] = state[u] /\ result'[u] = result[u] /\ exec'[u] = exec[u]
  BY DEF ExecStep, ExecCheck, ExecStart, ExecStartFailed, ExecRunning, WatchCancelled,
         WatchDeadline, WatchGrace, WatchExit, ExecFinal, ExecCollect, Return, Transition,
         Update, TypeOK
<1>2. RowOf(t) /\ (exec[t] \in BeforeStart \cup AfterStart => state[t] \in ActiveStates)
  BY DEF RowInv, RowOf, LifecycleInv, ExecOwnsRow
<1>3. (RowOf(t)' /\ (result[t] \in Settled => result'[t] = result[t]))
        => RowInv' /\ ResultsKept
  BY <1>1 DEF RowInv, RowOf, ResultsKept
<1>4. RowOf(t)' /\ (result[t] \in Settled => result'[t] = result[t])
  <2>1. CASE ExecCheck(t)
    BY <1>1, <2>1, <1>2 DEF RowOf, ExecCheck, Return, Transition, Update, ResultAfter, TypeOK, ActiveStates,
       ConfirmedStates, TerminalStates, BeforeStart, AfterStart, Settled
  <2>2. CASE ExecStart(t)
    BY <1>1, <2>2, <1>2 DEF RowOf, ExecStart, TypeOK, BeforeStart
  <2>3. CASE ExecStartFailed(t)
    BY <1>1, <2>3, <1>2 DEF RowOf, ExecStartFailed, Return, Transition, Update, ResultAfter, TypeOK,
       ActiveStates, ConfirmedStates, TerminalStates, BeforeStart, Settled
  <2>4. CASE ExecRunning(t)
    BY <1>1, <2>4, <1>2 DEF RowOf, ExecRunning, Transition, Update, ResultAfter, TypeOK, ActiveStates,
       ConfirmedStates, TerminalStates, BeforeStart, AfterStart, Settled
  <2>5. CASE WatchCancelled(t) \/ WatchGrace(t)
    BY <1>1, <2>5, <1>2 DEF RowOf, WatchCancelled, WatchGrace
  <2>6. CASE WatchExit(t)
    BY <1>1, <2>6, <1>2 DEF RowOf, WatchExit, TypeOK, BeforeStart
  <2>7. CASE WatchDeadline(t)
    BY <1>1, <2>7, <1>2 DEF RowOf, WatchDeadline, Selecting, Transition, Update, ResultAfter, TypeOK,
       ActiveStates, ConfirmedStates, TerminalStates, BeforeStart, Settled
  <2>8. CASE ExecFinal(t)
    <3>1. verdict[t] \in ConfirmedStates
      BY <2>8 DEF ExecFinal, LifecycleInv, StartedOnce, TypeOK
    <3> QED
      BY <1>1, <2>8, <3>1, <1>2 DEF RowOf, ExecFinal, Transition, Update, ResultAfter, TypeOK,
         ActiveStates, ConfirmedStates, TerminalStates, BeforeStart, AfterStart, Settled
  <2>9. CASE ExecCollect(t)
    <3>1. state[t] \notin {"none", "queued"} \cup ActiveStates /\ result[t] \notin Settled
      BY <1>2, <2>9 DEF RowOf, ExecCollect, LifecycleInv, ExecOwnsRow, Settled
    <3>2. state' = state /\ exec'[t] = "ok"
      BY <2>9 DEF ExecCollect, Return, TypeOK
    <3> QED
      BY <3>1, <3>2 DEF RowOf, ActiveStates, BeforeStart
  <2> QED
    BY <2>1, <2>2, <2>3, <2>4, <2>5, <2>6, <2>7, <2>8, <2>9 DEF ExecStep
<1> QED
  BY <1>3, <1>4

\* Every step of the agent keeps rows, executes and results in line.
LEMMA RowStep ==
  ASSUME TypeOK, LifecycleInv, RowInv, [Next]_vars
  PROVE  RowInv' /\ ResultsKept
<1> USE DEF gate, os, db, run, history
<1>1. ASSUME \/ SubmitRefused \/ StopDraining \/ StopAborting \/ StopFinish \/ StopDropped
             \/ ClaimNothing \/ Start \/ UNCHANGED vars
             \/ \E c \in Canceller : CancelDropped(c)
             \/ \E t \in Task : SubmitBegin(t) \/ ProcessExit(t)
      PROVE  RowInv' /\ ResultsKept
  BY <1>1, RowFrame DEF SubmitRefused, StopDraining, StopAborting, StopFinish, StopDropped,
     ClaimNothing, Start, CancelDropped, SubmitBegin, LockForSubmit, ProcessExit, vars
<1>2. CASE StopCheck \/ Wakeup
  BY <1>2, RowFrame DEF StopCheck, Wakeup
<1>3. CASE SubmitCommit
  <2>1. submitting \in Task
    BY <1>3 DEF SubmitCommit, LifecycleInv
  <2>2. CASE UNCHANGED db
    BY <1>3, <2>2, RowFrame DEF SubmitCommit
  <2>3. CASE ~UNCHANGED db
    <3>1. /\ state[submitting] = "none" /\ state' = [state EXCEPT ![submitting] = "queued"]
          /\ result' = [result EXCEPT ![submitting] =
                          IF submitting \in ResultDir THEN "pending" ELSE "not_requested"]
          /\ UNCHANGED <<exec, agent, loop, unconfirmed>>
      BY <1>3, <2>3 DEF SubmitCommit, Accept, AcceptIfRoom
    <3>2. result[submitting] \notin Settled
      BY <2>1, <3>1 DEF RowInv, RowOf, Settled
    <3>3. ResultsKept
      BY <2>1, <3>1, <3>2 DEF ResultsKept, TypeOK
    <3>4. RowInv'
      BY <2>1, <3>1 DEF RowInv, RowOf, TypeOK, ActiveStates
    <3> QED
      BY <3>3, <3>4
  <2> QED
    BY <2>2, <2>3
<1>4. ASSUME NEW h \in Handler, NEW t \in Task, CancelBegin(h, t),
             UNCHANGED <<exec, agent, loop, unconfirmed>>
      PROVE  RowInv' /\ ResultsKept
  BY <1>4, RowTransition DEF CancelBegin, TerminalStates, ConfirmedStates
<1>5. ASSUME NEW h \in Handler, CancelStep(h) PROVE RowInv' /\ ResultsKept
  <2>1. CASE CancelActive(h)
    BY <2>1, HandlerTask, RowTransition DEF CancelActive, ActiveStates
  <2>2. CASE CancelToken(h)
    BY <2>2, RowFrame DEF CancelToken
  <2> QED
    BY <1>5, <2>1, <2>2 DEF CancelStep
<1>6. ASSUME NEW c \in Canceller, NEW t \in Task, CancelQueued(c, t)
      PROVE  RowInv' /\ ResultsKept
  BY <1>4, <1>6 DEF CancelQueued, Handler
<1>7. ASSUME NEW t \in Task, StopCancelNext(t) PROVE RowInv' /\ ResultsKept
  <2>1. CASE CancelBegin(Owner, t)
    BY <1>4, <1>7, <2>1 DEF StopCancelNext, Handler
  <2>2. CASE UNCHANGED db
    BY <1>7, <2>2, RowFrame DEF StopCancelNext
  <2> QED
    BY <1>7, <2>1, <2>2 DEF StopCancelNext
<1>8. ASSUME NEW t \in Task, ClaimNext(t) PROVE RowInv' /\ ResultsKept
  BY <1>8 DEF ClaimNext, Queued, TypeOK, RowInv, RowOf, ResultsKept, ActiveStates, BeforeStart
<1>9. ASSUME NEW t \in Task, Register(t) PROVE RowInv' /\ ResultsKept
  BY <1>9 DEF Register, TypeOK, RowInv, RowOf, ResultsKept, BeforeStart
<1>10. ASSUME NEW t \in Task, Join(t) PROVE RowInv' /\ ResultsKept
  BY <1>10 DEF Join, TypeOK, RowInv, RowOf, ResultsKept, BeforeStart
<1>11. ASSUME NEW t \in Task, ExecStep(t) PROVE RowInv' /\ ResultsKept
  BY <1>11, RowExec
<1>12. ASSUME NEW t \in Task, ExecError(t) PROVE RowInv' /\ ResultsKept
  BY <1>12 DEF ExecError, Return, TypeOK, RowInv, RowOf, ResultsKept, BeforeStart
<1>13. CASE RunError
  BY <1>13 DEF RunError, TypeOK, RowInv, RowOf, ResultsKept, BeforeStart
<1>14. CASE Exit \/ Crash
  BY <1>14 DEF Exit, Crash, Down, FreshRunner, RowInv, RowOf, ResultsKept, BeforeStart
<1>15. ASSUME NEW t \in Task, RecoverTask(t) PROVE RowInv' /\ ResultsKept
  <2>1. exec[t] = "idle"
    BY <1>15 DEF RecoverTask, LifecycleInv, ExecOwnsRow
  <2> QED
    BY <1>15, <2>1, RowTransition DEF RecoverTask
<1>16. CASE RecoverResults
  <2>1. \A t \in Task : exec[t] = "idle"
    BY <1>16 DEF RecoverResults, LifecycleInv, ExecOwnsRow
  <2> QED
    BY <1>16, <2>1 DEF RecoverResults, TypeOK, RowInv, RowOf, ResultsKept, Settled, ActiveStates,
       TerminalStates, ConfirmedStates, BeforeStart
<1> QED
  BY <1>1, <1>2, <1>3, <1>5, <1>6, <1>7, <1>8, <1>9, <1>10, <1>11, <1>12, <1>13, <1>14, <1>15,
     <1>16 DEF Next, RunStep, StopStep, Handler

\* So they are in line in every reachable state.
LEMMA RowInvariant == Spec => []RowInv
<1>1. Init => RowInv
  BY DEF Init, RowInv, RowOf, ActiveStates, BeforeStart
<1>2. TypeOK /\ LifecycleInv /\ RowInv /\ [Next]_vars => RowInv'
  BY RowStep
<1> QED
  BY <1>1, <1>2, TypeCorrect, LifecycleInvariant, PTL DEF Spec

\* While the runner works no started row is left without an execute, unless
\* its fault was reported (Runner::execute, claim_next).
THEOREM StartedIsOwnedHolds == Spec => []StartedIsOwned
<1>1. TypeOK /\ RowInv => StartedIsOwned
  BY DEF TypeOK, RowInv, RowOf, StartedIsOwned
<1> QED
  BY <1>1, RowInvariant, TypeCorrect, PTL

\* A result that was recorded as complete or incomplete is not rewritten
\* (AgentStore::transition, artifacts::collect, recover).
THEOREM ResultIsFinalHolds == Spec => ResultIsFinal
<1>1. TypeOK /\ LifecycleInv /\ RowInv /\ [Next]_vars => [ResultsKept]_vars
  BY RowStep
<1> QED
  BY <1>1, RowInvariant, TypeCorrect, LifecycleInvariant, PTL
     DEF Spec, ResultIsFinal, ResultsKept, Settled

-----------------------------------------------------------------------------
(***************************************************************************)
(* A cancel and the token it needs.                                        *)
(***************************************************************************)
\* A cancel that its handler, the token, the deadline or the record of a
\* dropped handler answers for.
Answered(t) ==
  \/ token[t] = "cancelled"
  \/ verdict[t] # "none"
  \/ \E h \in Handler : handler[h] = [pc |-> "token", task |-> t]
  \/ t \in orphaned

\* There is a token from its registration to the return of execute.
TokenOf(t) ==
  /\ exec[t] \in {"check", "start", "started", "watch", "drain", "collect"} => token[t] # "none"
  /\ state[t] = "cancelling" /\ exec[t] \in {"start", "started", "watch"} => Answered(t)

TokenInv == \A t \in Task : TokenOf(t)

\* A step that leaves the executes alone and makes no row cancelling.
LEMMA TokenFrame ==
  ASSUME TokenInv, UNCHANGED <<exec, token, verdict>>, orphaned \subseteq orphaned',
         \A t \in Task : state'[t] = "cancelling" => state[t] = "cancelling",
         \A h \in Handler : handler[h].pc = "token" =>
           handler'[h] = handler[h] \/ handler[h].task \in orphaned'
  PROVE  TokenInv'
<1> SUFFICES ASSUME NEW t \in Task PROVE TokenOf(t)'
  BY DEF TokenInv
<1>1. Answered(t) => Answered(t)'
  BY DEF Answered
<1> QED
  BY <1>1 DEF TokenInv, TokenOf

\* So does a step that ends an execute or a row, and keeps the others.
LEMMA TokenOne ==
  ASSUME TokenInv, NEW t \in Task, UNCHANGED handler, TokenOf(t)',
         \A u \in Task \ {t} : /\ exec'[u] = exec[u] /\ token'[u] = token[u]
                               /\ verdict'[u] = verdict[u] /\ state'[u] = state[u]
                               /\ u \in orphaned => u \in orphaned'
  PROVE  TokenInv'
<1> SUFFICES ASSUME NEW u \in Task, u # t PROVE TokenOf(u)'
  BY DEF TokenInv
<1>1. Answered(u) => Answered(u)'
  BY DEF Answered
<1> QED
  BY <1>1 DEF TokenInv, TokenOf

\* The first step of a cancel ends a queued row, or makes no change yet.
LEMMA TokenCancelBegin ==
  ASSUME TypeOK, TokenInv, NEW h \in Handler, NEW t \in Task, CancelBegin(h, t),
         handler[h] = Idle, UNCHANGED <<exec, token, verdict, orphaned>>
  PROVE  TokenInv'
<1>1. \A u \in Task : state'[u] = "cancelling" => state[u] = "cancelling"
  BY TransitionState DEF CancelBegin, TypeOK
<1>2. \A g \in Handler : handler[g].pc = "token" => handler'[g] = handler[g]
  BY DEF CancelBegin, SetHandler, Idle, TypeOK
<1> QED
  BY <1>1, <1>2, TokenFrame

\* Its later steps mark the row, then use the token.
LEMMA TokenCancelStep ==
  ASSUME TypeOK, TokenInv, NEW h \in Handler, CancelStep(h)
  PROVE  TokenInv'
<1> USE DEF history
<1> DEFINE t == handler[h].task
<1>1. t \in Task
  BY HandlerTask DEF CancelStep, CancelActive, CancelToken
<1>2. CASE CancelActive(h)
  <2>1. /\ handler[h].pc = "active" /\ handler' = [handler EXCEPT ![h] = [pc |-> "token", task |-> t]]
        /\ UNCHANGED <<exec, token, verdict, orphaned>>
    BY <1>2 DEF CancelActive, SetHandler
  <2>2. handler'[h] = [pc |-> "token", task |-> t]
    BY <2>1 DEF TypeOK
  <2>3. \A g \in Handler : handler[g].pc = "token" => handler'[g] = handler[g]
    BY <2>1 DEF TypeOK
  <2>4. \A u \in Task \ {t} : state'[u] = state[u]
    BY <1>1, <1>2, TransitionState DEF CancelActive, TypeOK
  <2>5. SUFFICES ASSUME NEW u \in Task PROVE TokenOf(u)'
    BY DEF TokenInv
  <2>6. Answered(u) => Answered(u)'
    BY <2>1, <2>3 DEF Answered
  <2>7. Answered(t)'
    BY <2>2 DEF Answered
  <2> QED
    BY <2>1, <2>4, <2>6, <2>7 DEF TokenInv, TokenOf
<1>3. CASE CancelToken(h)
  <2>1. /\ handler[h].pc = "token" /\ UNCHANGED <<state, exec, verdict, orphaned>>
        /\ token' = [token EXCEPT ![t] = IF @ = "none" THEN @ ELSE "cancelled"]
        /\ handler' = [handler EXCEPT ![h] = Idle]
    BY <1>3 DEF CancelToken, db
  <2>2. /\ token'[t] = IF token[t] = "none" THEN "none" ELSE "cancelled"
        /\ \A u \in Task \ {t} : token'[u] = token[u]
        /\ \A g \in Handler \ {h} : handler'[g] = handler[g]
    BY <1>1, <2>1 DEF TypeOK
  <2>3. SUFFICES ASSUME NEW u \in Task PROVE TokenOf(u)'
    BY DEF TokenInv
  <2>4. CASE u = t
    BY <2>1, <2>2, <2>4 DEF TokenInv, TokenOf, Answered
  <2>5. CASE u # t
    <3>1. \A g \in Handler : handler[g] = [pc |-> "token", task |-> u] => g # h
      BY <2>5
    <3>2. Answered(u) => Answered(u)'
      BY <2>1, <2>2, <2>5, <3>1 DEF Answered
    <3> QED
      BY <2>1, <2>2, <2>5, <3>2 DEF TokenInv, TokenOf
  <2> QED
    BY <2>4, <2>5
<1> QED
  BY <1>2, <1>3 DEF CancelStep

\* A cancelling row that execute has checked is seen by a check, or answered for.
LEMMA TokenExec ==
  ASSUME TypeOK, TokenInv, NEW t \in Task, ExecStep(t)
  PROVE  TokenInv'
<1> USE DEF db, history
<1>1. /\ UNCHANGED handler
      /\ \A u \in Task \ {t} : /\ exec'[u] = exec[u] /\ token'[u] = token[u]
                               /\ verdict'[u] = verdict[u] /\ state'[u] = state[u]
                               /\ u \in orphaned => u \in orphaned'
  BY DEF ExecStep, ExecCheck, ExecStart, ExecStartFailed, ExecRunning, WatchCancelled,
         WatchDeadline, WatchGrace, WatchExit, ExecFinal, ExecCollect, Return, Transition,
         Update, TypeOK
<1>2. TokenOf(t)
  BY DEF TokenInv
<1>3. TokenOf(t)'
  <2>1. CASE ExecCheck(t) /\ state[t] # "cancelling"
    BY <1>2, <2>1 DEF ExecCheck, TokenOf, TypeOK
  <2>2. CASE \/ ExecCheck(t) /\ state[t] = "cancelling"
             \/ ExecStartFailed(t) \/ ExecCollect(t)
    <3>1. exec'[t] = "ok"
      BY <2>2 DEF ExecCheck, ExecStartFailed, ExecCollect, Return, TypeOK
    <3> QED
      BY <3>1 DEF TokenOf
  <2>3. CASE ExecStart(t) \/ ExecRunning(t)
    <3>1. /\ UNCHANGED <<token, verdict, orphaned>>
          /\ exec[t] \in {"start", "started"} /\ exec'[t] \in {"started", "watch"}
          /\ state'[t] = "cancelling" => state[t] = "cancelling"
      BY <2>3, TransitionState DEF ExecStart, ExecRunning, TypeOK
    <3> QED
      BY <1>1, <1>2, <3>1 DEF TokenOf, Answered
  <2>4. CASE WatchCancelled(t) \/ WatchDeadline(t)
    <3>1. /\ verdict'[t] \in {"cancelled", "timed_out"}
          /\ UNCHANGED <<token, exec>>
      BY <2>4 DEF WatchCancelled, WatchDeadline, TypeOK
    <3> QED
      BY <1>2, <3>1 DEF TokenOf, Answered
  <2>5. CASE WatchGrace(t)
    BY <1>2, <2>5 DEF WatchGrace, TokenOf, Answered
  <2>6. CASE WatchExit(t) \/ ExecFinal(t)
    <3>1. /\ exec[t] \in {"watch", "drain"} /\ exec'[t] \in {"drain", "collect"}
          /\ UNCHANGED token
      BY <2>6 DEF WatchExit, ExecFinal, TypeOK
    <3> QED
      BY <1>2, <3>1 DEF TokenOf
  <2> QED
    BY <2>1, <2>2, <2>3, <2>4, <2>5, <2>6 DEF ExecStep
<1> QED
  BY <1>1, <1>3, TokenOne

\* Every step of the agent keeps the cancels answered for.
LEMMA TokenStep ==
  ASSUME TypeOK, LifecycleInv, TokenInv, [Next]_vars
  PROVE  TokenInv'
<1> USE DEF gate, os, db, run, history
<1>1. ASSUME \/ SubmitRefused \/ StopDraining \/ StopAborting \/ StopFinish
             \/ ClaimNothing \/ StopCheck \/ Wakeup \/ Start \/ RecoverResults \/ UNCHANGED vars
             \/ \E t \in Task : SubmitBegin(t) \/ ProcessExit(t)
      PROVE  TokenInv'
  BY <1>1, TokenFrame DEF SubmitRefused, StopDraining, StopAborting, StopFinish,
     ClaimNothing, StopCheck, Wakeup, Start, RecoverResults, SubmitBegin, LockForSubmit,
     ProcessExit, vars
<1>2. CASE SubmitCommit
  <2>1. submitting \in Task
    BY <1>2 DEF SubmitCommit, LifecycleInv
  <2>2. \A t \in Task : state'[t] = "cancelling" => state[t] = "cancelling"
    BY <1>2, <2>1 DEF SubmitCommit, Accept, AcceptIfRoom, TypeOK
  <2> QED
    BY <1>2, <2>2, TokenFrame DEF SubmitCommit
<1>3. ASSUME NEW c \in Canceller, CancelDropped(c) PROVE TokenInv'
  <2>1. \A h \in Handler : handler[h].pc = "token" =>
          handler'[h] = handler[h] \/ handler[h].task \in orphaned'
    BY <1>3 DEF CancelDropped, Dropped, Handler, TypeOK
  <2> QED
    BY <1>3, <2>1, TokenFrame DEF CancelDropped
<1>4. CASE StopDropped
  <2>1. \A h \in Handler : handler[h].pc = "token" =>
          handler'[h] = handler[h] \/ handler[h].task \in orphaned'
    BY <1>4 DEF StopDropped, Dropped, Handler, TypeOK
  <2> QED
    BY <1>4, <2>1, TokenFrame DEF StopDropped
<1>5. ASSUME NEW h \in Handler, CancelStep(h) PROVE TokenInv'
  BY <1>5, TokenCancelStep
<1>6. ASSUME NEW c \in Canceller, NEW t \in Task, CancelQueued(c, t) PROVE TokenInv'
  BY <1>6, TokenCancelBegin DEF CancelQueued, Handler
<1>7. ASSUME NEW t \in Task, StopCancelNext(t) PROVE TokenInv'
  <2>1. CASE CancelBegin(Owner, t)
    BY <1>7, <2>1, TokenCancelBegin DEF StopCancelNext, Handler
  <2>2. CASE UNCHANGED <<db, handler>>
    BY <1>7, <2>2, TokenFrame DEF StopCancelNext
  <2> QED
    BY <1>7, <2>1, <2>2 DEF StopCancelNext
<1>8. ASSUME NEW t \in Task, ClaimNext(t) \/ Register(t) \/ Join(t) PROVE TokenInv'
  <2>1. TokenOf(t)'
    BY <1>8 DEF ClaimNext, Register, Join, TokenOf, TypeOK
  <2> QED
    BY <1>8, <2>1, TokenOne DEF ClaimNext, Register, Join, TypeOK
<1>9. ASSUME NEW t \in Task, ExecStep(t) PROVE TokenInv'
  BY <1>9, TokenExec
<1>10. ASSUME NEW t \in Task, ExecError(t) PROVE TokenInv'
  <2>1. TokenOf(t)'
    BY <1>10 DEF ExecError, Return, TokenOf, TypeOK
  <2> QED
    BY <1>10, <2>1, TokenOne DEF ExecError, Return, TypeOK
<1>11. CASE RunError \/ Exit \/ Crash
  BY <1>11 DEF RunError, Exit, Crash, Down, FreshRunner, TokenInv, TokenOf
<1>12. ASSUME NEW t \in Task, RecoverTask(t) PROVE TokenInv'
  <2>1. \A u \in Task : state'[u] = "cancelling" => state[u] = "cancelling"
    BY <1>12, TransitionState DEF RecoverTask, TypeOK
  <2> QED
    BY <1>12, <2>1, TokenFrame DEF RecoverTask
<1> QED
  BY <1>1, <1>2, <1>3, <1>4, <1>5, <1>6, <1>7, <1>8, <1>9, <1>10, <1>11, <1>12
     DEF Next, RunStep, StopStep, Handler

\* A row that is cancelling gets its token cancelled, unless the handler that
\* was to do it was dropped; in any order of claims, starts, cancels and stops
\* (Runner::cancel, execute's check of the row).
THEOREM NoLostCancelHolds == Spec => []NoLostCancel
<1>1. Init => TokenInv
  BY DEF Init, TokenInv, TokenOf
<1>2. TypeOK /\ LifecycleInv /\ TokenInv /\ [Next]_vars => TokenInv'
  BY TokenStep
<1>3. TokenInv => NoLostCancel
  BY DEF TokenInv, TokenOf, Answered, NoLostCancel
<1> QED
  BY <1>1, <1>2, <1>3, TypeCorrect, LifecycleInvariant, PTL DEF Spec

-----------------------------------------------------------------------------
(***************************************************************************)
(* An aborting stop and the rows it has still to reach.                    *)
(***************************************************************************)
Unasked == {"queued", "starting", "running"}

\* A row that nobody has asked to end is on the list of the stop, or the stop
\* is about to mark it; a cancel that goes on has seen its row leave the queue.
Reaching(t) == t \in todo \/ handler[Owner] = [pc |-> "active", task |-> t]

ReachInv ==
  /\ admission = "stop" => \A t \in Task : state[t] \in Unasked => Reaching(t)
  /\ \A h \in Handler : handler[h].pc = "active" => state[handler[h].task] \notin {"none", "queued"}

\* Outside of a stop only the queue matters.
LEMMA ReachFrame ==
  ASSUME TypeOK, ReachInv, RowsLeave, admission' # "stop",
         \A h \in Handler : handler'[h].pc = "active" =>
           handler'[h] = handler[h] \/ state'[handler'[h].task] \notin {"none", "queued"}
  PROVE  ReachInv'
BY DEF ReachInv, RowsLeave, TypeOK, Idle

\* In a stop a row may go on, as long as it stays reached.
LEMMA ReachKept ==
  ASSUME TypeOK, ReachInv, RowsLeave, admission' = "stop" => admission = "stop",
         \A t \in Task : state'[t] \in Unasked => state[t] \in Unasked,
         UNCHANGED todo, handler'[Owner] = handler[Owner],
         \A h \in Handler : handler'[h].pc = "active" =>
           handler'[h] = handler[h] \/ state'[handler'[h].task] \notin {"none", "queued"}
  PROVE  ReachInv'
BY DEF ReachInv, RowsLeave, Reaching, TypeOK, Idle, Handler

\* The first step of a cancel.
LEMMA ReachCancelBegin ==
  ASSUME TypeOK, NEW h \in Handler, NEW t \in Task, CancelBegin(h, t)
  PROVE  /\ \A u \in Task : state'[u] \in Unasked => state[u] \in Unasked
         /\ \A g \in Handler \ {h} : handler'[g] = handler[g]
         /\ state'[t] \notin Unasked \/ handler'[h] = [pc |-> "active", task |-> t]
         /\ handler'[h] = handler[h] \/ state'[t] \notin {"none", "queued"}
         /\ handler'[h] = handler[h] \/ handler'[h] = [pc |-> "active", task |-> t]
<1>1. \/ state[t] = "queued" /\ state' = [state EXCEPT ![t] = "cancelled"] /\ UNCHANGED handler
      \/ state[t] # "queued" /\ UNCHANGED state /\ SetHandler(h, "active", t)
  BY TransitionState DEF CancelBegin, TerminalStates, ConfirmedStates
<1>2. state[t] # "none"
  BY DEF CancelBegin, RemoteState, ActiveStates, TerminalStates, ConfirmedStates
<1> QED
  BY <1>1, <1>2 DEF SetHandler, Unasked, TypeOK

\* A handler that is idle is not about to mark a row.
LEMMA IdleIsNotActive == \A u : Idle # [pc |-> "active", task |-> u]
<1> SUFFICES ASSUME NEW u PROVE Idle # [pc |-> "active", task |-> u]
  OBVIOUS
<1>1. Idle.pc = "idle" /\ [pc |-> "active", task |-> u].pc = "active"
  BY DEF Idle
<1> QED
  BY <1>1

\* Every step of the agent keeps what the stop relies on.
LEMMA ReachStep ==
  ASSUME TypeOK, LifecycleInv, ReachInv, [Next]_vars
  PROVE  ReachInv'
<1> USE DEF gate, os, db, run, history
<1>1. ASSUME \/ SubmitRefused \/ StopDraining \/ ClaimNothing \/ StopCheck \/ Wakeup \/ Start
             \/ RunError \/ RecoverResults \/ UNCHANGED vars
             \/ \E t \in Task : \/ SubmitBegin(t) \/ Register(t) \/ Join(t) \/ ExecError(t)
                                \/ ProcessExit(t)
      PROVE  ReachInv'
  <2>1. UNCHANGED <<state, todo, handler>> /\ (admission' = "stop" => admission = "stop")
    BY <1>1 DEF SubmitRefused, StopDraining, ClaimNothing, StopCheck, Wakeup, Start, RunError,
       RecoverResults, vars, SubmitBegin, LockForSubmit, Register, Join, ExecError, ProcessExit
  <2> QED
    BY <2>1, StateKept, ReachKept
<1>2. CASE SubmitCommit
  <2>1. submitting \in Task /\ admission' = "free" /\ UNCHANGED handler
    BY <1>2 DEF SubmitCommit, LifecycleInv
  <2>2. \/ UNCHANGED state
        \/ state[submitting] = "none" /\ state' = [state EXCEPT ![submitting] = "queued"]
    BY <1>2 DEF SubmitCommit, Accept, AcceptIfRoom
  <2> QED
    BY <2>1, <2>2 DEF ReachInv, TypeOK, Idle
<1>3. CASE Exit \/ Crash
  BY <1>3 DEF Exit, Crash, Down, FreshRunner, ReachInv, Idle
<1>4. CASE StopAborting
  <2>1. todo' = {t \in Task : state[t] \in {"queued"} \cup ActiveStates} /\ UNCHANGED <<state, handler>>
    BY <1>4 DEF StopAborting
  <2> QED
    BY <2>1 DEF ReachInv, Reaching, Unasked, ActiveStates
<1>5. CASE StopFinish
  <2>1. UNCHANGED <<state, handler>> /\ admission' = "free"
    BY <1>5 DEF StopFinish
  <2> QED
    BY <2>1, StateKept, ReachFrame
<1>6. CASE StopDropped
  <2>1. UNCHANGED state /\ admission' = "free" /\ handler' = [handler EXCEPT ![Owner] = Idle]
    BY <1>6 DEF StopDropped
  <2>2. \A h \in Handler : handler'[h].pc = "active" => handler'[h] = handler[h]
    BY <2>1 DEF TypeOK, Idle
  <2> QED
    BY <2>1, <2>2, StateKept, ReachFrame
<1>7. ASSUME NEW c \in Canceller, CancelDropped(c) PROVE ReachInv'
  <2>1. UNCHANGED <<state, todo, admission>> /\ handler' = [handler EXCEPT ![c] = Idle]
    BY <1>7 DEF CancelDropped
  <2>2. /\ \A h \in Handler : handler'[h].pc = "active" => handler'[h] = handler[h]
        /\ handler'[Owner] = handler[Owner]
    BY <2>1, HandlerAssumption DEF TypeOK, Idle, Handler
  <2> QED
    BY <2>1, <2>2, StateKept, ReachKept
<1>8. ASSUME NEW c \in Canceller, NEW t \in Task, CancelQueued(c, t) PROVE ReachInv'
  <2>1. c \in Handler /\ CancelBegin(c, t) /\ UNCHANGED <<todo, admission>> /\ RowsLeave
    BY <1>8, StepLeaves DEF CancelQueued, Handler, Next, SubmitCommit
  <2>2. handler'[Owner] = handler[Owner]
    BY <2>1, ReachCancelBegin, HandlerAssumption DEF Handler
  <2>3. \A h \in Handler : handler'[h].pc = "active" =>
          handler'[h] = handler[h] \/ state'[handler'[h].task] \notin {"none", "queued"}
    <3>1. /\ handler'[c] = handler[c] \/ handler'[c] = [pc |-> "active", task |-> t]
          /\ handler'[c] = handler[c] \/ state'[t] \notin {"none", "queued"}
          /\ \A h \in Handler \ {c} : handler'[h] = handler[h]
      BY <2>1, ReachCancelBegin
    <3> QED
      BY <3>1
  <2>4. \A u \in Task : state'[u] \in Unasked => state[u] \in Unasked
    BY <2>1, ReachCancelBegin
  <2> QED
    BY <2>1, <2>2, <2>3, <2>4, ReachKept
<1>9. ASSUME NEW t \in Task, StopCancelNext(t) PROVE ReachInv'
  <2>1. /\ admission = "stop" /\ todo' = todo \ {t} /\ handler[Owner] = Idle /\ Owner \in Handler
        /\ UNCHANGED admission
    BY <1>9 DEF StopCancelNext, Handler
  <2>2. \A u \in Task : state[u] \in Unasked => u \in todo
    <3>1. \A u \in Task : handler[Owner] # [pc |-> "active", task |-> u]
      BY <2>1, IdleIsNotActive
    <3> QED
      BY <2>1, <3>1 DEF ReachInv, Reaching
  <2>3. CASE CancelBegin(Owner, t)
    <3>1. /\ \A u \in Task : state'[u] \in Unasked => state[u] \in Unasked
          /\ \A g \in Handler \ {Owner} : handler'[g] = handler[g]
          /\ state'[t] \notin Unasked \/ handler'[Owner] = [pc |-> "active", task |-> t]
      BY <2>1, <2>3, ReachCancelBegin
    <3>2. \A u \in Task : state'[u] \in Unasked => Reaching(u)'
      BY <2>1, <2>2, <3>1 DEF Reaching
    <3>3. RowsLeave
      BY <2>1, StepLeaves DEF SubmitCommit
    <3>4. \A h \in Handler \ {Owner} : handler'[h].pc = "active" =>
            state'[handler'[h].task] \notin {"none", "queued"}
      BY <3>1, <3>3 DEF ReachInv, RowsLeave, TypeOK, Idle
    <3>5. handler'[Owner].pc = "active" => state'[handler'[Owner].task] \notin {"none", "queued"}
      <4>1. \/ handler'[Owner] = handler[Owner]
            \/ handler'[Owner] = [pc |-> "active", task |-> t]
        BY <2>1, <2>3, ReachCancelBegin
      <4>2. handler'[Owner] = handler[Owner] \/ state'[t] \notin {"none", "queued"}
        BY <2>1, <2>3, ReachCancelBegin
      <4>3. handler[Owner].pc # "active"
        BY <2>1 DEF Idle
      <4> QED
        BY <4>1, <4>2, <4>3
    <3> QED
      BY <3>2, <3>4, <3>5 DEF ReachInv
  <2>4. CASE state[t] \in TerminalStates /\ UNCHANGED <<db, handler>>
    <3>1. state[t] \notin Unasked
      BY <2>4 DEF TerminalStates, ConfirmedStates, Unasked
    <3> QED
      BY <2>1, <2>2, <2>4, <3>1 DEF ReachInv, Reaching
  <2> QED
    BY <1>9, <2>3, <2>4 DEF StopCancelNext
<1>10. ASSUME NEW h \in Handler, CancelStep(h) PROVE ReachInv'
  <2> DEFINE t == handler[h].task
  <2>1. t \in Task
    BY <1>10, HandlerTask DEF CancelStep, CancelActive, CancelToken
  <2>2. CASE CancelActive(h)
    <3>1. /\ handler[h].pc = "active" /\ handler'[h] = [pc |-> "token", task |-> t]
          /\ \A g \in Handler \ {h} : handler'[g] = handler[g]
          /\ UNCHANGED <<todo, admission>>
      BY <2>2 DEF CancelActive, SetHandler, TypeOK
    <3>2. /\ \A u \in Task \ {t} : state'[u] = state[u]
          /\ state'[t] \notin Unasked \cup {"none"}
      BY <2>1, <2>2, <3>1, TransitionState
         DEF CancelActive, ReachInv, Unasked, TypeOK, TerminalStates, ConfirmedStates
    <3> QED
      BY <2>1, <3>1, <3>2 DEF ReachInv, Reaching, Unasked, TypeOK, Handler, Idle
  <2>3. CASE CancelToken(h)
    <3>1. /\ handler[h].pc = "token" /\ handler' = [handler EXCEPT ![h] = Idle]
          /\ UNCHANGED <<state, todo, admission>>
      BY <2>3 DEF CancelToken
    <3> QED
      BY <3>1 DEF ReachInv, Reaching, TypeOK, Idle, Handler
  <2> QED
    BY <1>10, <2>2, <2>3 DEF CancelStep
<1>11. ASSUME NEW t \in Task, ClaimNext(t) \/ ExecStep(t) \/ RecoverTask(t) PROVE ReachInv'
  <2>1. UNCHANGED <<todo, handler, admission>>
    <3>1. CASE ExecStep(t)
      BY <3>1 DEF ExecStep, ExecCheck, ExecStart, ExecStartFailed, ExecRunning, WatchCancelled,
                  WatchDeadline, WatchGrace, WatchExit, ExecFinal, ExecCollect
    <3> QED
      BY <1>11, <3>1 DEF ClaimNext, RecoverTask
  <2>2. RowsLeave
    BY <2>1, StepLeaves DEF SubmitCommit
  <2>3. \A u \in Task : state'[u] \in Unasked => state[u] \in Unasked
    <3>1. CASE ClaimNext(t)
      BY <3>1 DEF ClaimNext, Queued, Unasked, TypeOK
    <3>2. CASE RecoverTask(t)
      BY <3>2, TransitionState DEF RecoverTask, Unasked, TypeOK
    <3>3. CASE ExecCheck(t) \/ ExecStartFailed(t) \/ WatchDeadline(t)
      BY <3>3, TransitionState DEF ExecCheck, ExecStartFailed, WatchDeadline, Unasked, TypeOK
    <3>4. CASE ExecRunning(t)
      BY <3>4, TransitionState DEF ExecRunning, Unasked, TypeOK
    <3>5. CASE ExecFinal(t)
      <4>1. verdict[t] \notin Unasked
        BY DEF TypeOK, ConfirmedStates, Unasked
      <4> QED
        BY <3>5, <4>1, TransitionState DEF ExecFinal, TypeOK
    <3>6. CASE \/ ExecStart(t) \/ WatchCancelled(t) \/ WatchGrace(t) \/ WatchExit(t)
               \/ ExecCollect(t)
      BY <3>6 DEF ExecStart, WatchCancelled, WatchGrace, WatchExit, ExecCollect
    <3> QED
      BY <1>11, <3>1, <3>2, <3>3, <3>4, <3>5, <3>6 DEF ExecStep
  <2> QED
    BY <2>1, <2>2, <2>3, ReachKept
<1> QED
  BY <1>1, <1>2, <1>3, <1>4, <1>5, <1>6, <1>7, <1>8, <1>9, <1>10, <1>11
     DEF Next, RunStep, StopStep, Handler

\* An aborting stop that has gone through its list has reached every row,
\* whatever was claimed, started or cancelled meanwhile (Runner::request_stop).
THEOREM AbortReachesAllHolds == Spec => []AbortReachesAll
<1>1. Init => ReachInv
  BY DEF Init, ReachInv, Idle
<1>2. TypeOK /\ LifecycleInv /\ ReachInv /\ [Next]_vars => ReachInv'
  BY ReachStep
<1>3. ReachInv => AbortReachesAll
  BY IdleIsNotActive DEF ReachInv, Reaching, Unasked, AbortReachesAll
<1> QED
  BY <1>1, <1>2, <1>3, TypeCorrect, LifecycleInvariant, PTL DEF Spec

-----------------------------------------------------------------------------
(***************************************************************************)
(* The task as the submission sees it.                                     *)
(***************************************************************************)
RowState == RemoteState \cup {"none"}

\* How far a row is follows from its outcome in the lifecycle.
LEMMA LevelOfOutcome ==
  ASSUME NEW s \in RowState
  PROVE  /\ LevelOf(s) = 0 <=> Outcome(s) = "none"
         /\ LevelOf(s) = 1 <=> Outcome(s) = "waiting"
         /\ LevelOf(s) = 2 <=> Outcome(s) = "active"
         /\ LevelOf(s) \in 0..3
BY DEF LevelOf, Outcome, RowState, RemoteState, ActiveStates, TerminalStates, ConfirmedStates

\* A step of the lifecycle moves one task by what its outcome becomes.
LEMMA OutcomeMoves ==
  ASSUME TypeOK, TypeOK', Lifecycle!Next
  PROVE  \E t \in Task :
           /\ \A u \in Task \ {t} : Outcome(state'[u]) = Outcome(state[u])
           /\ LET from == Outcome(state[t])
                  to == Outcome(state'[t])
              IN  \/ from = "none" /\ to = "waiting"
                  \/ from = "waiting" /\ to \in {"cancelled", "active"}
                  \/ from = "active" /\ to \notin {"none", "waiting", "active"}
                  \/ to = from
<1> DEFINE outcome == [t \in Task |-> Outcome(state[t])]
           later == [t \in Task |-> Outcome(state'[t])]
<1>1. PICK t \in Task :
        \/ Lifecycle!Accept(t) \/ Lifecycle!Withdraw(t) \/ Lifecycle!Begin(t)
        \/ Lifecycle!Launch(t) \/ Lifecycle!Finish(t) \/ Lifecycle!Abandon(t)
  BY DEF Lifecycle!Next
<1>2. \/ outcome[t] = "none" /\ later = [outcome EXCEPT ![t] = "waiting"]
      \/ \E to \in {"cancelled", "active"} :
           outcome[t] = "waiting" /\ later = [outcome EXCEPT ![t] = to]
      \/ \E to \in {"succeeded", "failed", "cancelled", "timed_out", "recovery_required"} :
           outcome[t] = "active" /\ later = [outcome EXCEPT ![t] = to]
      \/ later = outcome
  <2> USE DEF Lifecycle!Become
  <2>1. CASE Lifecycle!Accept(t)
    BY <2>1 DEF Lifecycle!Accept
  <2>2. CASE Lifecycle!Withdraw(t)
    BY <2>2 DEF Lifecycle!Withdraw
  <2>3. CASE Lifecycle!Begin(t)
    BY <2>3 DEF Lifecycle!Begin
  <2>4. CASE Lifecycle!Launch(t)
    BY <2>4 DEF Lifecycle!Launch
  <2>5. CASE Lifecycle!Finish(t)
    BY <2>5 DEF Lifecycle!Finish
  <2>6. CASE Lifecycle!Abandon(t)
    BY <2>6 DEF Lifecycle!Abandon
  <2> QED
    BY <1>1, <2>1, <2>2, <2>3, <2>4, <2>5, <2>6
<1>3. \A u \in Task : outcome[u] = Outcome(state[u]) /\ later[u] = Outcome(state'[u])
  OBVIOUS
<1>4. DOMAIN outcome = Task
  OBVIOUS
<1> HIDE DEF outcome, later
<1>5. \A u \in Task \ {t} : later[u] = outcome[u]
  BY <1>2, <1>4
<1>6. \/ outcome[t] = "none" /\ later[t] = "waiting"
      \/ outcome[t] = "waiting" /\ later[t] \in {"cancelled", "active"}
      \/ outcome[t] = "active" /\ later[t] \notin {"none", "waiting", "active"}
      \/ later[t] = outcome[t]
  BY <1>2, <1>4
<1> QED
  BY <1>3, <1>5, <1>6

LEMMA StepMoves ==
  ASSUME TypeOK, TypeOK', [Lifecycle!Next]_(Lifecycle!vars)
  PROVE  [Levels!Next]_([t \in Task |-> LevelOf(state[t])])
<1> DEFINE level == [t \in Task |-> LevelOf(state[t])]
           later == [t \in Task |-> LevelOf(state'[t])]
<1>1. \A t \in Task : state[t] \in RowState /\ state'[t] \in RowState
  BY DEF TypeOK, RowState
<1>2. ASSUME NEW u \in Task, Outcome(state'[u]) = Outcome(state[u]) PROVE level[u] = later[u]
  BY <1>1, <1>2, LevelOfOutcome
<1>3. CASE UNCHANGED Lifecycle!vars
  <2>1. \A u \in Task : Outcome(state'[u]) = Outcome(state[u])
    <3>1. [t \in Task |-> Outcome(state'[t])] = [t \in Task |-> Outcome(state[t])]
      BY <1>3 DEF Lifecycle!vars
    <3> QED
      BY <3>1
  <2>2. later = level
    BY <1>2, <2>1
  <2> QED
    BY <2>2
<1>4. CASE Lifecycle!Next
  <2>1. PICK t \in Task :
          /\ \A u \in Task \ {t} : Outcome(state'[u]) = Outcome(state[u])
          /\ \/ Outcome(state[t]) = "none" /\ Outcome(state'[t]) = "waiting"
             \/ Outcome(state[t]) = "waiting" /\ Outcome(state'[t]) \in {"cancelled", "active"}
             \/ /\ Outcome(state[t]) = "active"
                /\ Outcome(state'[t]) \notin {"none", "waiting", "active"}
             \/ Outcome(state'[t]) = Outcome(state[t])
    BY <1>4, OutcomeMoves
  <2>2. \A u \in Task \ {t} : later[u] = level[u]
    BY <1>2, <2>1
  <2>3. later = [level EXCEPT ![t] = later[t]]
    BY <2>2
  <2>4. \/ level[t] = 0 /\ later[t] = 1
        \/ level[t] = 1 /\ later[t] \in {2, 3}
        \/ level[t] = 2 /\ later[t] = 3
        \/ later[t] = level[t]
    BY <1>1, <2>1, LevelOfOutcome
  <2>5. later[t] = level[t] => later = level
    BY <2>3
  <2> HIDE DEF level, later
  <2>6. later = level \/ \E u \in Task :
          \/ level[u] = 0 /\ later = [level EXCEPT ![u] = 1]
          \/ level[u] = 1 /\ later = [level EXCEPT ![u] = 3]
          \/ level[u] \in {1, 2} /\ later = [level EXCEPT ![u] = level[u] + 1]
    BY <2>3, <2>4, <2>5
  <2>7. CASE later = level
    BY <2>7 DEF level, later
  <2>8. ASSUME NEW u \in Task,
               \/ level[u] = 0 /\ later = [level EXCEPT ![u] = 1]
               \/ level[u] = 1 /\ later = [level EXCEPT ![u] = 3]
               \/ level[u] \in {1, 2} /\ later = [level EXCEPT ![u] = level[u] + 1]
        PROVE  Levels!Create(u) \/ Levels!Withdraw(u) \/ Levels!Advance(u)
    BY <2>8 DEF level, later, Levels!Create, Levels!Withdraw, Levels!Advance, Levels!Move
  <2> QED
    BY <2>6, <2>7, <2>8 DEF Levels!Next
<1> QED
  BY <1>3, <1>4

\* The agent moves a task only as the submission takes it to: from queued to
\* active and on to final, or at once if it was cancelled, and never back.
THEOREM AgentLevels == Spec => ImplementsLevels
<1>1. Init => Levels!Init
  <2>1. LevelOf("none") = 0
    BY DEF LevelOf, ActiveStates
  <2>2. Init => \A t \in Task : state[t] = "none"
    BY DEF Init
  <2> QED
    BY <2>1, <2>2 DEF Levels!Init
<1>2. /\ TypeOK /\ TypeOK' /\ LifecycleInv /\ [Next]_vars
      => [Levels!Next]_([t \in Task |-> LevelOf(state[t])])
  BY StepImplements, StepMoves
<1> QED
  BY <1>1, <1>2, TypeCorrect, LifecycleInvariant, PTL DEF Spec, ImplementsLevels, Levels!Spec
=============================================================================
