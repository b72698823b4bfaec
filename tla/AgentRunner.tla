---------------------------- MODULE AgentRunner ----------------------------
(***************************************************************************)
(* The execution side of a remote task: the agent's task table             *)
(* (AgentStore), the Runner that claims and executes queued tasks, the     *)
(* handlers that submit, cancel and stop, and the crash and restart of the *)
(* agent process between any two database transactions.                    *)
(*                                                                         *)
(* A member of Task stands for one (controller, request_id) pair and for   *)
(* the row that accepting it creates.  Every database transaction of the   *)
(* code is one atomic step; what happens between two awaits of a handler   *)
(* or of the runner is a separate step.                                    *)
(***************************************************************************)
EXTENDS Integers, FiniteSets

CONSTANTS
  Task,         \* requests that may be submitted
  ResultDir,    \* the requests that name a result directory
  Canceller,    \* cancel requests that may be in flight at the same time
  Owner,        \* the request_stop call, which cancels tasks itself
  NoTask,       \* no task
  Concurrency,  \* Runner.concurrency, already clamped to 1..4
  MaxWaiting,   \* MAX_WAITING
  MaxRestarts   \* bound: how often the agent process may go down

ASSUME TaskAssumption == /\ IsFiniteSet(Task)
                         /\ ResultDir \subseteq Task
                         /\ NoTask \notin Task
ASSUME HandlerAssumption == Owner \notin Canceller
ASSUME NumberAssumption == /\ Concurrency \in 1..4
                           /\ MaxWaiting \in Nat \ {0}
                           /\ MaxRestarts \in Nat

VARIABLES
  \* agent.db
  state,       \* agent_tasks.state ("none": no row)
  result,      \* agent_tasks.result_status
  created,     \* agent_tasks.created_at of a queued row, 0 when not queued
  \* the agent process
  agent,       \* "up", "down", or "recovering" inside AgentStore::open
  accepting,   \* Runner.accepting
  admission,   \* who holds Runner.admission
  submitting,  \* the request of the submit handler that holds it
  stopped,     \* Runner.stop is cancelled
  fault,       \* the task named by Runner.fault
  token,       \* Runner.active and the cancellation tokens in it
  loop,        \* where Runner::run is
  exec,        \* where Runner::execute of a task is
  verdict,     \* execute's `reason`, then its `final_state`
  handler,     \* the cancel calls in flight
  todo,        \* tasks an aborting request_stop has still to cancel
  \* the operating system
  proc,        \* the worker process of a task until it is reaped
  tree,        \* some process of the task's Job or process group is alive
  \* history
  starts,      \* how often a process was started for a task
  unconfirmed, \* tasks whose execute ended in an error the runner has seen
  orphaned,    \* tasks for which a cancel handler was dropped half way
  restarts     \* how often the agent process went down

db == <<state, result, created>>
gate == <<accepting, admission, submitting, stopped, todo>>
run == <<fault, loop>>
os == <<proc, tree, starts>>
history == <<unconfirmed, orphaned, restarts>>
vars == <<db, agent, gate, run, token, exec, verdict, handler, os, history>>

Handler == Canceller \cup {Owner}

ActiveStates == {"starting", "running", "cancelling"}
ConfirmedStates == {"succeeded", "failed", "cancelled", "timed_out"}
TerminalStates == ConfirmedStates \cup {"recovery_required"}
RemoteState == {"queued"} \cup ActiveStates \cup TerminalStates

ExecPhases == {"idle", "claimed", "check", "start", "started", "watch",
               "drain", "collect", "ok", "err"}
Idle == [pc |-> "idle", task |-> NoTask]

(***************************************************************************)
(* The type of the state.                                                  *)
(***************************************************************************)
TypeOK ==
  /\ state \in [Task -> RemoteState \cup {"none"}]
  /\ result \in [Task -> {"not_requested", "pending", "complete", "incomplete"}]
  /\ created \in [Task -> Nat]
  /\ agent \in {"up", "down", "recovering"}
  /\ accepting \in BOOLEAN
  /\ admission \in {"free", "submit", "stop"}
  /\ submitting \in Task \cup {NoTask}
  /\ stopped \in BOOLEAN
  /\ fault \in Task \cup {NoTask}
  /\ token \in [Task -> {"none", "live", "cancelled"}]
  /\ loop \in {"claim", "register", "check", "wait", "returned"}
  /\ exec \in [Task -> ExecPhases]
  /\ verdict \in [Task -> ConfirmedStates \cup {"none"}]
  /\ handler \in [Handler -> {Idle} \cup [pc : {"active", "token"}, task : Task]]
  /\ todo \in SUBSET Task
  /\ proc \in [Task -> {"none", "alive", "zero", "nonzero", "killed"}]
  /\ tree \in [Task -> BOOLEAN]
  /\ starts \in [Task -> Nat]
  /\ unconfirmed \in SUBSET Task
  /\ orphaned \in SUBSET Task
  /\ restarts \in Nat

(***************************************************************************)
(* The values a fresh process has: Runner::new, no handler, no execute.    *)
(***************************************************************************)
FreshRunner ==
  /\ accepting' = TRUE
  /\ admission' = "free"
  /\ submitting' = NoTask
  /\ stopped' = FALSE
  /\ todo' = {}
  /\ fault' = NoTask
  /\ loop' = "claim"
  /\ token' = [t \in Task |-> "none"]
  /\ exec' = [t \in Task |-> "idle"]
  /\ verdict' = [t \in Task |-> "none"]
  /\ handler' = [h \in Handler |-> Idle]

Init ==
  /\ state = [t \in Task |-> "none"]
  /\ result = [t \in Task |-> "not_requested"]
  /\ created = [t \in Task |-> 0]
  /\ agent = "up"
  /\ accepting = TRUE
  /\ admission = "free"
  /\ submitting = NoTask
  /\ stopped = FALSE
  /\ todo = {}
  /\ fault = NoTask
  /\ loop = "claim"
  /\ token = [t \in Task |-> "none"]
  /\ exec = [t \in Task |-> "idle"]
  /\ verdict = [t \in Task |-> "none"]
  /\ handler = [h \in Handler |-> Idle]
  /\ proc = [t \in Task |-> "none"]
  /\ tree = [t \in Task |-> FALSE]
  /\ starts = [t \in Task |-> 0]
  /\ unconfirmed = {}
  /\ orphaned = {}
  /\ restarts = 0

-----------------------------------------------------------------------------
(***************************************************************************)
(* AgentStore: the one guarded update behind every state change.           *)
(***************************************************************************)
ResultAfter(t, to) ==
  IF /\ result[t] = "pending"
     /\ \/ to = "recovery_required"
        \/ to \in TerminalStates /\ state[t] \in {"queued", "starting"}
  THEN "incomplete"
  ELSE result[t]

Update(t, to) ==
  /\ state' = [state EXCEPT ![t] = to]
  /\ result' = [result EXCEPT ![t] = ResultAfter(t, to)]
  /\ created' = [created EXCEPT ![t] = 0]

Transition(t, from, to) ==
  IF state[t] \in from \ TerminalStates THEN Update(t, to) ELSE UNCHANGED db

Queued == {t \in Task : state[t] = "queued"}
Running == {t \in Task : exec[t] \notin {"idle", "claimed"}}

\* created_at only orders the queued rows, so it is kept relative to them.  It
\* has millisecond resolution: a row may share the timestamp of the newest.
Now(at) == /\ \A t \in Task : created[t] <= at
           /\ at = 1 \/ \E t \in Task : created[t] \in {at - 1, at} \ {0}

-----------------------------------------------------------------------------
(***************************************************************************)
(* submit: take the admission lock, refuse when draining, then accept.     *)
(***************************************************************************)
LockForSubmit(t) ==
  /\ agent = "up"
  /\ admission = "free"
  /\ admission' = "submit"
  /\ submitting' = t
  /\ UNCHANGED <<db, agent, accepting, stopped, todo, run, token, exec,
                 verdict, handler, os, history>>

\* A bug: `accepting` is not looked at under the lock.
SubmitBeginUnchecked(t) == LockForSubmit(t)

SubmitBegin(t) ==
  /\ accepting
  /\ LockForSubmit(t)

\* AgentStore::accept, one transaction: an existing row is returned as it is,
\* a full queue is refused, anything else becomes a queued row.
AcceptIfRoom(t, room) ==
  IF state[t] = "none" /\ room
  THEN /\ state' = [state EXCEPT ![t] = "queued"]
       /\ result' = [result EXCEPT ![t] =
                       IF t \in ResultDir THEN "pending" ELSE "not_requested"]
       /\ \E at \in 1..Cardinality(Task) :
            Now(at) /\ created' = [created EXCEPT ![t] = at]
  ELSE UNCHANGED db

Accept(t) == AcceptIfRoom(t, Cardinality(Queued) < MaxWaiting)

SubmitCommit ==
  /\ agent = "up"
  /\ admission = "submit"
  /\ Accept(submitting)
  /\ admission' = "free"
  /\ submitting' = NoTask
  /\ UNCHANGED <<agent, accepting, stopped, todo, run, token, exec, verdict,
                 handler, os, history>>

\* A check under the lock refuses the request, or its connection closes and
\* the handler is dropped.
SubmitRefused ==
  /\ agent = "up"
  /\ admission = "submit"
  /\ admission' = "free"
  /\ submitting' = NoTask
  /\ UNCHANGED <<db, agent, accepting, stopped, todo, run, token, exec,
                 verdict, handler, os, history>>

-----------------------------------------------------------------------------
(***************************************************************************)
(* Runner::cancel: read the row, try queued -> cancelled, else             *)
(* starting/running -> cancelling, then signal the registered token.       *)
(***************************************************************************)
SetHandler(h, pc, t) == handler' = [handler EXCEPT ![h] = [pc |-> pc, task |-> t]]

\* A task that has ended is left alone.  The read of the row and the first
\* update are one step: a task that ends in between is left alone by both.
CancelBegin(h, t) ==
  /\ state[t] \in RemoteState \ TerminalStates
  /\ Transition(t, {"queued"}, "cancelled")
  /\ IF state[t] = "queued" THEN UNCHANGED handler ELSE SetHandler(h, "active", t)

CancelQueued(c, t) ==
  /\ agent = "up"
  /\ handler[c] = Idle
  /\ CancelBegin(c, t)
  /\ UNCHANGED <<agent, gate, run, token, exec, verdict, os, history>>

CancelActive(h) ==
  /\ handler[h].pc = "active"
  /\ LET t == handler[h].task IN
       /\ Transition(t, {"starting", "running"}, "cancelling")
       /\ SetHandler(h, "token", t)
  /\ UNCHANGED <<agent, gate, run, token, exec, verdict, os, history>>

CancelToken(h) ==
  /\ handler[h].pc = "token"
  /\ LET t == handler[h].task IN
       token' = [token EXCEPT ![t] = IF @ = "none" THEN @ ELSE "cancelled"]
  /\ handler' = [handler EXCEPT ![h] = Idle]
  /\ UNCHANGED <<db, agent, gate, run, exec, verdict, os, history>>

CancelStep(h) == CancelActive(h) \/ CancelToken(h)

\* Dropping a handler (its connection closed, or a database error) loses the
\* steps it had left.
Dropped(h) == IF handler[h].pc = "token" THEN {handler[h].task} ELSE {}

CancelDropped(c) ==
  /\ handler[c] # Idle
  /\ orphaned' = orphaned \cup Dropped(c)
  /\ handler' = [handler EXCEPT ![c] = Idle]
  /\ UNCHANGED <<db, agent, gate, run, token, exec, verdict, os, unconfirmed,
                 restarts>>

-----------------------------------------------------------------------------
(***************************************************************************)
(* Runner::request_stop(abort), under the admission lock.                  *)
(***************************************************************************)
StopDraining ==
  /\ agent = "up"
  /\ admission = "free"
  /\ accepting' = FALSE
  /\ stopped' = TRUE
  /\ UNCHANGED <<db, agent, admission, submitting, todo, run, token, exec,
                 verdict, handler, os, history>>

\* A bug: the list leaves out the rows that are still starting.
StopAbortingFew ==
  /\ agent = "up"
  /\ admission = "free"
  /\ admission' = "stop"
  /\ accepting' = FALSE
  /\ todo' = {t \in Task : state[t] \in {"queued", "running", "cancelling"}}
  /\ UNCHANGED <<db, agent, submitting, stopped, run, token, exec, verdict,
                 handler, os, history>>

StopAborting ==
  /\ agent = "up"
  /\ admission = "free"
  /\ admission' = "stop"
  /\ accepting' = FALSE
  /\ todo' = {t \in Task : state[t] \in {"queued"} \cup ActiveStates}
  /\ UNCHANGED <<db, agent, submitting, stopped, run, token, exec, verdict,
                 handler, os, history>>

\* The next id of the list; a task that has ended meanwhile is left alone.
StopCancelNext(t) ==
  /\ admission = "stop"
  /\ t \in todo
  /\ handler[Owner] = Idle
  /\ todo' = todo \ {t}
  /\ \/ CancelBegin(Owner, t)
     \/ state[t] \in TerminalStates /\ UNCHANGED <<db, handler>>
  /\ UNCHANGED <<agent, accepting, admission, submitting, stopped, run,
                 token, exec, verdict, os, history>>

StopFinish ==
  /\ admission = "stop"
  /\ todo = {}
  /\ handler[Owner] = Idle
  /\ stopped' = TRUE
  /\ admission' = "free"
  /\ UNCHANGED <<db, agent, accepting, submitting, todo, run, token, exec,
                 verdict, handler, os, history>>

StopDropped ==
  /\ admission = "stop"
  /\ orphaned' = orphaned \cup Dropped(Owner)
  /\ handler' = [handler EXCEPT ![Owner] = Idle]
  /\ todo' = {}
  /\ admission' = "free"
  /\ UNCHANGED <<db, agent, accepting, submitting, stopped, run, token, exec,
                 verdict, os, unconfirmed, restarts>>

-----------------------------------------------------------------------------
(***************************************************************************)
(* Runner::run.                                                            *)
(***************************************************************************)
\* A bug: the bound is off by one.
MayClaimTooFew == Cardinality(Running) + 1 < Concurrency /\ fault = NoTask

MayClaim == Cardinality(Running) < Concurrency /\ fault = NoTask

\* AgentStore::claim_next, the oldest queued row by created_at.
ClaimNext(t) ==
  /\ agent = "up"
  /\ loop = "claim"
  /\ MayClaim
  /\ t \in Queued
  /\ \A u \in Queued : created[t] <= created[u]
  /\ state' = [state EXCEPT ![t] = "starting"]
  /\ exec' = [exec EXCEPT ![t] = "claimed"]
  /\ created' = [created EXCEPT ![t] = 0]
  /\ loop' = "register"
  /\ UNCHANGED <<result, agent, gate, fault, token, verdict, handler,
                 os, history>>

\* The token goes into `active` before the task is spawned.
Register(t) ==
  /\ loop = "register"
  /\ exec[t] = "claimed"
  /\ token' = [token EXCEPT ![t] = "live"]
  /\ exec' = [exec EXCEPT ![t] = "check"]
  /\ loop' = "claim"
  /\ UNCHANGED <<db, agent, gate, fault, verdict, handler, os, history>>

ClaimNothing ==
  /\ agent = "up"
  /\ loop = "claim"
  /\ ~MayClaim \/ Queued = {}
  /\ loop' = "check"
  /\ UNCHANGED <<db, agent, gate, fault, token, exec, verdict, handler, os,
                 history>>

\* A bug: run insists on an empty queue, which a fault never lets it have.
StopCheckStrict ==
  /\ loop = "check"
  /\ loop' = IF Running = {} /\ stopped /\ Queued = {} THEN "returned" ELSE "wait"
  /\ UNCHANGED <<db, agent, gate, fault, token, exec, verdict, handler, os,
                 history>>

StopCheck ==
  /\ loop = "check"
  /\ loop' = IF Running = {} /\ stopped THEN "returned" ELSE "wait"
  /\ UNCHANGED <<db, agent, gate, fault, token, exec, verdict, handler, os,
                 history>>

\* join_next: an execute that ended in an error closes the agent.
Join(t) ==
  /\ loop = "wait"
  /\ exec[t] \in {"ok", "err"}
  /\ exec' = [exec EXCEPT ![t] = "idle"]
  /\ loop' = "claim"
  /\ IF exec[t] = "err"
     THEN /\ accepting' = FALSE
          /\ fault' = t
          /\ unconfirmed' = unconfirmed \cup {t}
     ELSE UNCHANGED <<accepting, fault, unconfirmed>>
  /\ UNCHANGED <<db, agent, admission, submitting, stopped, todo, token,
                 verdict, handler, os, orphaned, restarts>>

\* notify, or the 500 ms timer.
Wakeup ==
  /\ loop = "wait"
  /\ loop' = "claim"
  /\ UNCHANGED <<db, agent, gate, fault, token, exec, verdict, handler, os,
                 history>>

-----------------------------------------------------------------------------
(***************************************************************************)
(* Runner::execute, one instance per claimed task.                         *)
(***************************************************************************)
\* execute returned; the wrapper removed the task from `active`.
Return(t, how) ==
  /\ exec' = [exec EXCEPT ![t] = how]
  /\ token' = [token EXCEPT ![t] = "none"]
  /\ verdict' = [verdict EXCEPT ![t] = "none"]
  /\ orphaned' = orphaned \ {t}
  /\ UNCHANGED <<unconfirmed, restarts>>

\* A bug: execute relies on the token alone.
ExecCheckSkipped(t) ==
  /\ exec[t] = "check"
  /\ exec' = [exec EXCEPT ![t] = "start"]
  /\ UNCHANGED <<db, agent, gate, run, token, verdict, handler, os, history>>

\* A cancel that came between the claim and the registration of the token
\* could not signal it: the row says so.
ExecCheck(t) ==
  /\ exec[t] = "check"
  /\ IF state[t] = "cancelling"
     THEN Transition(t, {"cancelling"}, "cancelled") /\ Return(t, "ok")
     ELSE /\ exec' = [exec EXCEPT ![t] = "start"]
          /\ UNCHANGED <<db, token, verdict, history>>
  /\ UNCHANGED <<agent, gate, run, handler, os>>

ExecStart(t) ==
  /\ exec[t] = "start"
  /\ exec' = [exec EXCEPT ![t] = "started"]
  /\ proc' = [proc EXCEPT ![t] = "alive"]
  /\ tree' = [tree EXCEPT ![t] = TRUE]
  /\ starts' = [starts EXCEPT ![t] = @ + 1]
  /\ UNCHANGED <<db, agent, gate, run, token, verdict, handler, history>>

\* Bugs: a cancel that came during the start is forgotten; the start is tried
\* again.
ExecStartFailedOnlyStarting(t) ==
  /\ exec[t] = "start"
  /\ Transition(t, {"starting"}, "failed")
  /\ Return(t, "ok")
  /\ UNCHANGED <<agent, gate, run, handler, os>>

ExecStartFailedRetried(t) ==
  /\ exec[t] = "start"
  /\ Transition(t, {"starting", "cancelling"}, "queued")
  /\ Return(t, "ok")
  /\ UNCHANGED <<agent, gate, run, handler, os>>

\* The working directory is gone or the worker could not be started.
ExecStartFailed(t) ==
  /\ exec[t] = "start"
  /\ Transition(t, {"starting", "cancelling"}, "failed")
  /\ Return(t, "ok")
  /\ UNCHANGED <<agent, gate, run, handler, os>>

\* A bug: the row stays "starting" while the process runs.
ExecRunningSilent(t) ==
  /\ exec[t] = "started"
  /\ exec' = [exec EXCEPT ![t] = "watch"]
  /\ UNCHANGED <<db, agent, gate, run, token, verdict, handler, os, history>>

ExecRunning(t) ==
  /\ exec[t] = "started"
  /\ Transition(t, {"starting"}, "running")
  /\ exec' = [exec EXCEPT ![t] = "watch"]
  /\ UNCHANGED <<agent, gate, run, token, verdict, handler, os, history>>

\* The biased select: child exit, then cancellation, deadline, grace.
Selecting(t) == exec[t] = "watch" /\ proc[t] = "alive"

WatchCancelled(t) ==
  /\ Selecting(t)
  /\ token[t] = "cancelled"
  /\ verdict[t] = "none"
  /\ verdict' = [verdict EXCEPT ![t] = "cancelled"]
  /\ UNCHANGED <<db, agent, gate, run, token, exec, handler, os, history>>

WatchDeadline(t) ==
  /\ Selecting(t)
  /\ token[t] # "cancelled"
  /\ verdict[t] = "none"
  /\ Transition(t, {"running", "starting"}, "cancelling")
  /\ verdict' = [verdict EXCEPT ![t] = "timed_out"]
  /\ UNCHANGED <<agent, gate, run, token, exec, handler, os, history>>

\* A bug: the grace period ends and nothing is forced.
WatchGraceGentle(t) == Selecting(t) /\ verdict[t] # "none" /\ UNCHANGED vars

WatchGrace(t) ==
  /\ Selecting(t)
  /\ verdict[t] # "none"
  /\ proc' = [proc EXCEPT ![t] = "killed"]
  /\ tree' = [tree EXCEPT ![t] = FALSE]
  /\ UNCHANGED <<db, agent, gate, run, token, exec, verdict, handler, starts,
                 history>>

\* The worker has exited: end its descendants, decide the final state.
FinalState(t) == IF verdict[t] # "none" THEN verdict[t]
                 ELSE IF proc[t] = "zero" THEN "succeeded" ELSE "failed"

\* A bug: descendants of the exited worker are left alone.
WatchExitOnly(t) ==
  /\ exec[t] = "watch"
  /\ proc[t] # "alive"
  /\ proc' = [proc EXCEPT ![t] = "none"]
  /\ verdict' = [verdict EXCEPT ![t] = FinalState(t)]
  /\ exec' = [exec EXCEPT ![t] = "drain"]
  /\ UNCHANGED <<db, agent, gate, run, token, handler, tree, starts, history>>

WatchExit(t) ==
  /\ exec[t] = "watch"
  /\ proc[t] # "alive"
  /\ tree' = [tree EXCEPT ![t] = FALSE]
  /\ proc' = [proc EXCEPT ![t] = "none"]
  /\ verdict' = [verdict EXCEPT ![t] = FinalState(t)]
  /\ exec' = [exec EXCEPT ![t] = "drain"]
  /\ UNCHANGED <<db, agent, gate, run, token, handler, starts, history>>

ExecFinal(t) ==
  /\ exec[t] = "drain"
  /\ Transition(t, ActiveStates, verdict[t])
  /\ exec' = [exec EXCEPT ![t] = "collect"]
  /\ UNCHANGED <<agent, gate, run, token, verdict, handler, os, history>>

\* artifacts::collect; a failed snapshot is recorded, not an error.
ExecCollect(t) ==
  /\ exec[t] = "collect"
  /\ IF t \in ResultDir
     THEN \E status \in {"complete", "incomplete"} :
            result' = [result EXCEPT ![t] = status]
     ELSE UNCHANGED result
  /\ Return(t, "ok")
  /\ UNCHANGED <<state, created, agent, gate, run, handler, os>>

ExecStep(t) == \/ ExecCheck(t) \/ ExecStart(t) \/ ExecStartFailed(t)
               \/ ExecRunning(t) \/ WatchCancelled(t) \/ WatchDeadline(t)
               \/ WatchGrace(t) \/ WatchExit(t) \/ ExecFinal(t)
               \/ ExecCollect(t)

\* Dropping a ProcessTree ends its processes, except the ones in `left` that
\* the container could not end.
DropTrees(S, left) ==
  /\ proc' = [t \in Task |-> IF t \in S /\ ~(t \in left /\ proc[t] = "alive")
                             THEN "none" ELSE proc[t]]
  /\ tree' = [t \in Task |-> tree[t] /\ t \notin S \ left]
  /\ UNCHANGED starts

\* A write that fails, a wait that fails, output that does not close.
ExecError(t) ==
  /\ exec[t] \in ExecPhases \ {"idle", "claimed", "ok", "err"}
  /\ \E left \in SUBSET {t} : DropTrees({t}, left)
  /\ Return(t, "err")
  /\ UNCHANGED <<db, agent, gate, run, handler>>

\* claim_next failed: run returns, and the JoinSet aborts every execute.
RunError ==
  /\ agent = "up"
  /\ loop = "claim"
  /\ MayClaim
  /\ loop' = "returned"
  /\ exec' = [t \in Task |-> "idle"]
  /\ verdict' = [t \in Task |-> "none"]
  /\ \E left \in SUBSET Running : DropTrees(Running, left)
  /\ UNCHANGED <<db, agent, gate, fault, token, handler, history>>

-----------------------------------------------------------------------------
(***************************************************************************)
(* The process of a task, and the agent process.                           *)
(***************************************************************************)
ProcessExit(t) ==
  /\ proc[t] = "alive"
  /\ \E code \in IF exec[t] \in {"started", "watch"}
                 THEN {"zero", "nonzero"} ELSE {"none"} :
       proc' = [proc EXCEPT ![t] = code]
  /\ \E descendants \in BOOLEAN : tree' = [tree EXCEPT ![t] = descendants]
  /\ UNCHANGED <<db, agent, gate, run, token, exec, verdict, handler, starts,
                 history>>

Down ==
  /\ agent' = "down"
  /\ FreshRunner
  /\ unconfirmed' = {}
  /\ orphaned' = {}
  /\ UNCHANGED <<db, starts, restarts>>

\* serve returns after run has; connections get five more seconds.
Exit ==
  /\ loop = "returned"
  /\ UNCHANGED <<proc, tree>>
  /\ Down

\* A Job object ends its processes with the agent, a process group does not.
Crash ==
  /\ agent # "down"
  /\ \E left \in {{}, Task} : DropTrees(Task, left)
  /\ Down

Start ==
  /\ agent = "down"
  /\ restarts < MaxRestarts
  /\ agent' = "recovering"
  /\ restarts' = restarts + 1
  /\ UNCHANGED <<db, gate, run, token, exec, verdict, handler, os, unconfirmed,
                 orphaned>>

\* A bug: what was started is queued again.
RecoverTaskAgain(t) ==
  /\ agent = "recovering"
  /\ state[t] \in ActiveStates
  /\ Transition(t, ActiveStates, "queued")
  /\ UNCHANGED <<agent, gate, run, token, exec, verdict, handler, os, history>>

\* AgentStore::recover: one transaction per started task, one for the results.
RecoverTask(t) ==
  /\ agent = "recovering"
  /\ state[t] \in ActiveStates
  /\ Transition(t, ActiveStates, "recovery_required")
  /\ UNCHANGED <<agent, gate, run, token, exec, verdict, handler, os, history>>

RecoverResults ==
  /\ agent = "recovering"
  /\ \A t \in Task : state[t] \notin ActiveStates
  /\ result' = [t \in Task |-> IF result[t] = "pending" /\ state[t] \in TerminalStates
                               THEN "incomplete" ELSE result[t]]
  /\ agent' = "up"
  /\ UNCHANGED <<state, created, gate, run, token, exec, verdict, handler, os,
                 history>>

-----------------------------------------------------------------------------
RunStep == \/ \E t \in Task : ClaimNext(t) \/ Register(t) \/ Join(t)
           \/ ClaimNothing \/ StopCheck \/ Wakeup

StopStep == StopFinish \/ CancelStep(Owner) \/ \E t \in Task : StopCancelNext(t)

Next ==
  \/ \E t \in Task : SubmitBegin(t)
  \/ SubmitCommit
  \/ SubmitRefused
  \/ \E c \in Canceller, t \in Task : CancelQueued(c, t)
  \/ \E c \in Canceller : CancelStep(c) \/ CancelDropped(c)
  \/ StopDraining
  \/ StopAborting
  \/ StopStep
  \/ StopDropped
  \/ RunStep
  \/ RunError
  \/ \E t \in Task : ExecStep(t) \/ ExecError(t) \/ ProcessExit(t)
  \/ Exit
  \/ Crash
  \/ Start
  \/ \E t \in Task : RecoverTask(t)
  \/ RecoverResults

Spec == Init /\ [][Next]_vars

(***************************************************************************)
(* Fairness.  The runtime polls every ready future, so the loop of run and *)
(* every execute go on; the select of run is unbiased, so a finished       *)
(* execute is joined although the timer is ready again and again.  Nothing *)
(* is assumed of the submitted process, of the handlers (a closed          *)
(* connection drops them) or of whoever starts and stops the agent.        *)
(***************************************************************************)
Fairness ==
  /\ WF_vars(RunStep)
  /\ SF_vars(\E t \in Task : Join(t))
  /\ \A t \in Task : WF_vars(ExecStep(t))

FairSpec == Spec /\ Fairness

-----------------------------------------------------------------------------
(***************************************************************************)
(* What the agent promises.                                                *)
(***************************************************************************)
\* One request never has a second execution: across retries of the submit,
\* cancels, crashes and restarts, a process is started for a task at most
\* once (claim_next, recover, accept).
AtMostOnce == \A t \in Task : starts[t] <= 1

\* A task is reported succeeded, failed, cancelled or timed out only when no
\* process of its Job or process group is left (execute ends the tree before
\* it writes the final state; recover reports recovery_required instead).
ConfirmedMeansEnded ==
  \A t \in Task : state[t] \in ConfirmedStates => ~tree[t] /\ proc[t] # "alive"

\* Why AtMostOnce and ConfirmedMeansEnded hold, as an inductive invariant:
\* execute works on an active row until it has written the final state; a row
\* that was not claimed, and an execute that has not reached its start, have
\* started nothing; outside the agent's up time no execute exists; and only
\* an execute between start and drain leaves a process that may be alive.
BeforeStart == {"claimed", "check", "start"}
AfterStart == {"started", "watch", "drain"}

ExecOwnsRow ==
  \A t \in Task : /\ exec[t] \in BeforeStart \cup AfterStart => state[t] \in ActiveStates
                  /\ state[t] \in {"none", "queued"} => exec[t] = "idle"
                  /\ agent # "up" => exec[t] = "idle"

StartedOnce ==
  \A t \in Task :
    /\ starts[t] \in {0, 1}
    /\ state[t] \in {"none", "queued"} \/ exec[t] \in BeforeStart => starts[t] = 0
    /\ exec[t] \in AfterStart => starts[t] = 1
    /\ exec[t] = "drain" => verdict[t] # "none"

TreeInv ==
  \A t \in Task : /\ proc[t] = "alive" => tree[t]
                  /\ starts[t] = 0 \/ exec[t] = "drain" => ~tree[t]
                  /\ state[t] \in ConfirmedStates => ~tree[t]

LifecycleInv == /\ admission = "submit" => submitting \in Task
                /\ ExecOwnsRow
                /\ StartedOnce
                /\ TreeInv

\* While the runner works, every row that is starting, running or cancelling
\* has an execute responsible for it, or is the subject of a reported fault:
\* no path of execute or cancel leaves a started row behind.
StartedIsOwned ==
  agent = "up" /\ loop # "returned" =>
    \A t \in Task : state[t] \in ActiveStates =>
      exec[t] \in ExecPhases \ {"idle", "ok"} \/ t \in unconfirmed

\* A cancel is never missed: once a row is cancelling and execute has passed
\* its own check of the row, the token is cancelled, or a handler is about to
\* cancel it, or the deadline did it - unless the handler was dropped between
\* its update of the row and its use of the token.
NoLostCancel ==
  \A t \in Task :
    state[t] = "cancelling" /\ exec[t] \in {"start", "started", "watch"} =>
      \/ token[t] = "cancelled"
      \/ verdict[t] # "none"
      \/ \E h \in Handler : handler[h] = [pc |-> "token", task |-> t]
      \/ t \in orphaned

\* When an aborting stop has gone through its list, nothing is queued and
\* nothing is still starting or running unasked: the admission lock keeps
\* new rows out, and a claim made meanwhile does not slip past the list.
AbortReachesAll ==
  admission = "stop" /\ todo = {} /\ handler[Owner] = Idle =>
    \A t \in Task : state[t] \notin {"queued", "starting", "running"}

\* The queue never holds more than MAX_WAITING rows.
QueueBound == Cardinality(Queued) <= MaxWaiting

\* Once execute has been joined without a fault, the result of a finished
\* task is settled: it is not "pending" any more.
ResultSettled ==
  agent = "up" /\ loop # "returned" /\ fault = NoTask =>
    \A t \in Task : state[t] \in TerminalStates /\ exec[t] = "idle" =>
      result[t] # "pending"

\* The lifecycle a controller may rely on, see TaskLifecycle.
Outcome(s) == CASE s = "queued" -> "waiting"
                [] s \in ActiveStates -> "active"
                [] OTHER -> s

Lifecycle == INSTANCE TaskLifecycle
               WITH outcome <- [t \in Task |-> Outcome(state[t])],
                    launches <- starts

\* The agent, with its concurrency, crashes and races, implements the
\* lifecycle: in particular a task is launched only while it is active and
\* never again after a restart, and only a launched task can succeed.
ImplementsLifecycle == Lifecycle!Spec

\* What RemoteSubmit sees of a task, see TaskLevel.
LevelOf(s) == CASE s = "none" -> 0
                [] s = "queued" -> 1
                [] s \in ActiveStates -> 2
                [] OTHER -> 3

Levels == INSTANCE TaskLevel WITH level <- [t \in Task |-> LevelOf(state[t])]

\* A row of the agent's table moves as the submission takes it to.
ImplementsLevels == Levels!Spec

\* A final state is final: no late cancel, timeout, exit or recovery rewrites
\* it (AgentStore::transition).
TerminalIsFinal ==
  [][\A t \in Task : state[t] \in TerminalStates => state'[t] = state[t]]_vars

\* A settled result is settled: what transition, collect or recover wrote as
\* complete or incomplete is not rewritten by another of them.
ResultIsFinal ==
  [][\A t \in Task : result[t] \in {"complete", "incomplete"} =>
       result'[t] = result[t]]_vars

\* Once the stop token is cancelled no request becomes a row, in any order of
\* submit and request_stop, until the agent is started again.
NoAcceptAfterStop ==
  [][stopped => \A t \in Task : state[t] = "none" => state'[t] = "none"]_vars

\* A stop, draining or aborting, ends the runner, also when a task never ends
\* by itself or a fault was recorded.
StopReturns == stopped ~> (loop = "returned" \/ agent # "up")

\* An accepted task reaches a final state unless the runner is interrupted by
\* a fault, a stop or a crash: nothing waits in the queue forever.
Interrupted == agent # "up" \/ loop = "returned" \/ fault # NoTask
TaskSettles ==
  \A t \in Task : state[t] = "queued" ~> (state[t] \in TerminalStates \/ Interrupted)

\* A cancelling task does not stay cancelling, even when the handler that
\* asked for it was dropped and the process ignores the request.
CancelConverges ==
  \A t \in Task : state[t] = "cancelling" ~>
    (state[t] \in TerminalStates \/ t \in unconfirmed
       \/ loop = "returned" \/ agent # "up")
=============================================================================
