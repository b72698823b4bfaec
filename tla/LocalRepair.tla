----------------------------- MODULE LocalRepair -----------------------------
(***************************************************************************)
(* Repairs of the application's own data: Store::submit, run, finish and   *)
(* recover, the command submit_repair, and the page (useTailTask) that     *)
(* submits a repair and follows one task.                                  *)
(*                                                                         *)
(* A request is a UUID of the page; it names the task row it creates.  The *)
(* texts, times and events of a task are left out.  The detail sequence    *)
(* number is known by which read is the latest one.  Page and store are    *)
(* one process.                                                            *)
(***************************************************************************)
EXTENDS Naturals

CONSTANTS
  MaxRequest, \* bound: request ids, numbered in the order in which they are made
  Action,    \* the maintenance actions
  Read       \* bound: task_detail calls in flight

ASSUME BoundAssumption == MaxRequest \in Nat

Request == 1..MaxRequest
None == 0   \* no request, no task

VARIABLES
  up,        \* the application runs
  visible,   \* document.visibilityState of the window
  state,     \* tasks.state by request
  action,    \* tasks.action
  run,       \* the spawned Store::run of each task
  outcome,   \* its local: what the action did
  holder,    \* of the runner mutex
  warned,    \* keys of Store.warnings
  pending,   \* pendingRequests: the number kept for each action
  submit,    \* the submit_repair call in flight
  open,      \* detailId
  detail,    \* detail, as far as the task goes
  failed,    \* detailError is shown
  read       \* the task_detail calls

store == <<state, action>>
runner == <<run, outcome, holder, warned>>
page == <<pending, submit, open, detail, failed, read>>
vars == <<up, visible, store, runner, page>>

Unfinished == {"queued", "running"}
Final == {"succeeded", "failed", "interrupted"}
Locked == {"act", "save", "failing"}

Idle == [phase |-> "idle"]
IdleRead == [phase |-> "idle", latest |-> FALSE]
NoDetail == [task |-> None, state |-> "none", warning |-> FALSE]
Detail(r) == [task |-> r, state |-> state[r], warning |-> r \in warned]
TaskDetail == [task : Request, state : Unfinished \cup Final, warning : BOOLEAN]
DetailSet == {NoDetail} \cup TaskDetail

\* The type of the state, and a lock that is held by a run.
TypeOK ==
  /\ up \in BOOLEAN /\ visible \in BOOLEAN
  /\ state \in [Request -> {"none"} \cup Unfinished \cup Final]
  /\ action \in [Request -> Action \cup {None}]
  /\ outcome \in [Request -> {"unknown", "ok", "bad"}]
  /\ run \in [Request -> {"none", "wait"} \cup Locked]
  /\ holder \in Request \cup {None} /\ (holder # None => run[holder] \in Locked)
  /\ warned \subseteq Request
  /\ pending \in [Action -> Request \cup {None}]
  /\ submit \in {Idle} \cup [phase : {"sent"}, action : Action, request : Request]
                       \cup [phase : {"accepted"}, action : Action, detail : TaskDetail]
  /\ open \in Request \cup {None}
  /\ detail \in DetailSet
  /\ failed \in BOOLEAN
  /\ read \in [Read -> {IdleRead} \cup [phase : {"sent"}, task : Request, latest : BOOLEAN]
                              \cup [phase : {"answered"}, detail : TaskDetail, latest : BOOLEAN]]

Init ==
  /\ up = TRUE /\ visible = TRUE
  /\ state = [r \in Request |-> "none"]
  /\ action = [r \in Request |-> None]
  /\ outcome = [r \in Request |-> "unknown"]
  /\ run = [r \in Request |-> "none"]
  /\ holder = None
  /\ warned = {}
  /\ pending = [a \in Action |-> None]
  /\ submit = Idle
  /\ open = None /\ detail = NoDetail /\ failed = FALSE
  /\ read = [q \in Read |-> IdleRead]

-----------------------------------------------------------------------------
(* The store. *)

\* The page gets an error, and keeps the number for the next click.
Refused == submit' = Idle

\* The row is inserted unless the number is known; the run is spawned only for
\* a new row.  A number that is known with another action is a conflict.
SubmitCommit ==
  /\ up /\ submit.phase = "sent"
  /\ LET r == submit.request  a == submit.action  inserted == state[r] = "none"
     IN  IF ~ inserted /\ action[r] # a
           THEN Refused /\ UNCHANGED <<state, action, run>>
           ELSE /\ state' = [state EXCEPT ![r] = IF inserted THEN "queued" ELSE @]
                /\ action' = [action EXCEPT ![r] = a]
                /\ run' = [run EXCEPT ![r] = IF inserted THEN "wait" ELSE @]
                /\ submit' = [phase |-> "accepted", action |-> a, detail |->
                                [task |-> r, state |-> state'[r], warning |-> FALSE]]
  /\ UNCHANGED <<up, visible, outcome, holder, warned, pending, open, detail, failed, read>>

\* The transaction fails, or the row is there, its task is run, and the
\* response is lost.
SubmitFails ==
  /\ up /\ submit.phase \in {"sent", "accepted"}
  /\ Refused
  /\ UNCHANGED <<up, visible, store, runner, pending, open, detail, failed, read>>

To(r, pc) == run' = [run EXCEPT ![r] = pc] /\ holder' = r
Over(r) ==
  /\ run' = [run EXCEPT ![r] = "none"] /\ holder' = None
  /\ outcome' = [outcome EXCEPT ![r] = "unknown"]

\* A bug: a task waits for the results of those before it.
BeginInOrder(r) ==
  /\ run[r] = "wait" /\ holder = None
  /\ \A s \in 1..r - 1 : state[s] \notin Unfinished
  /\ \/ /\ state' = [state EXCEPT ![r] = IF @ = "queued" THEN "running" ELSE @]
        /\ IF state[r] = "queued" THEN To(r, "act") /\ UNCHANGED outcome ELSE Over(r)
     \/ To(r, "failing") /\ UNCHANGED <<state, outcome>>
  /\ UNCHANGED <<up, visible, action, warned, page>>

\* The run gets the mutex.  Only a queued task becomes running; the
\* transaction may fail.
Begin(r) ==
  /\ run[r] = "wait" /\ holder = None
  /\ \/ /\ state' = [state EXCEPT ![r] = IF @ = "queued" THEN "running" ELSE @]
        /\ IF state[r] = "queued" THEN To(r, "act") /\ UNCHANGED outcome ELSE Over(r)
     \/ To(r, "failing") /\ UNCHANGED <<state, outcome>>
  /\ UNCHANGED <<up, visible, action, warned, page>>

\* The action is read back, which may fail, and executed.
Act(r) ==
  /\ run[r] = "act"
  /\ \/ \E o \in {"ok", "bad"} : outcome' = [outcome EXCEPT ![r] = o] /\ To(r, "save")
     \/ To(r, "failing") /\ UNCHANGED outcome
  /\ UNCHANGED <<up, visible, store, warned, page>>

Finish(r, s) == state' = [state EXCEPT ![r] = IF @ \in Unfinished THEN s ELSE @]

\* A bug: what the action did is not looked at.
SaveSuccess(r) ==
  /\ run[r] = "save"
  /\ \/ Finish(r, "succeeded") /\ Over(r)
     \/ To(r, "failing") /\ UNCHANGED <<state, outcome>>
  /\ UNCHANGED <<up, visible, action, warned, page>>

\* The result is saved, or the saving fails.
Save(r) ==
  /\ run[r] = "save"
  /\ \/ /\ Finish(r, IF outcome[r] = "ok" THEN "succeeded" ELSE "failed")
        /\ Over(r)
     \/ To(r, "failing") /\ UNCHANGED <<state, outcome>>
  /\ UNCHANGED <<up, visible, action, warned, page>>

\* A bug: a failure that cannot be saved is dropped.
SaveFailureSilently(r) ==
  /\ run[r] = "failing"
  /\ Over(r)
  /\ Finish(r, "failed") \/ UNCHANGED state
  /\ UNCHANGED <<up, visible, action, warned, page>>

\* The failure itself is saved; if that fails too, a warning is kept in memory.
SaveFailure(r) ==
  /\ run[r] = "failing"
  /\ Over(r)
  /\ \/ Finish(r, "failed") /\ UNCHANGED warned
     \/ warned' = warned \cup {r} /\ UNCHANGED state
  /\ UNCHANGED <<up, visible, action, page>>

\* The application ends: memory, calls and page are lost.
AppExit ==
  /\ up
  /\ up' = FALSE /\ visible' = TRUE
  /\ run' = [r \in Request |-> "none"] /\ holder' = None /\ warned' = {}
  /\ outcome' = [r \in Request |-> "unknown"]
  /\ pending' = [a \in Action |-> None] /\ submit' = Idle
  /\ open' = None /\ detail' = NoDetail /\ failed' = FALSE
  /\ read' = [q \in Read |-> IdleRead]
  /\ UNCHANGED store

\* Store::open with recover: what was not finished is interrupted, not run again.
AppStart ==
  /\ ~ up
  /\ up' = TRUE
  /\ state' = [r \in Request |-> IF state[r] \in Unfinished THEN "interrupted" ELSE state[r]]
  /\ UNCHANGED <<visible, action, runner, page>>

-----------------------------------------------------------------------------
(* The page. *)

Fresh(r) == state[r] = "none" /\ \A a \in Action : pending[a] # r

\* A click submits with the number kept for the action, or a new one.
Repair(a) ==
  /\ up /\ open = None /\ submit.phase = "idle"
  /\ \E r \in Request :
       /\ IF pending[a] # None THEN r = pending[a]
          ELSE Fresh(r) /\ \A s \in 1..r - 1 : ~ Fresh(s)
       /\ pending' = [pending EXCEPT ![a] = r]
       /\ submit' = [phase |-> "sent", action |-> a, request |-> r]
  /\ UNCHANGED <<up, visible, store, runner, open, detail, failed, read>>

Superseded == [q \in Read |-> [read[q] EXCEPT !.latest = FALSE]]

\* A bug: a read of the same task does not supersede the earlier ones.
StartReadShared(q, r) ==
  /\ read[q] = IdleRead
  /\ read' = [p \in Read |->
                IF p = q THEN [phase |-> "sent", task |-> r, latest |-> TRUE]
                ELSE IF read[p].phase = "sent" /\ read[p].task = r THEN read[p]
                ELSE IF read[p].phase = "answered" /\ read[p].detail.task = r THEN read[p]
                ELSE Superseded[p]]

\* A new read is the latest, the others are no longer.
StartRead(q, r) ==
  /\ read[q] = IdleRead
  /\ read' = [Superseded EXCEPT ![q] = [phase |-> "sent", task |-> r, latest |-> TRUE]]

\* The number is dropped, the task is shown as it was accepted and read at once.
Acknowledge ==
  /\ up /\ submit.phase = "accepted"
  /\ pending' = [pending EXCEPT ![submit.action] = None]
  /\ submit' = Idle
  /\ open' = submit.detail.task /\ detail' = submit.detail /\ failed' = FALSE
  /\ \E q \in Read : StartRead(q, submit.detail.task)
  /\ UNCHANGED <<up, visible, store, runner>>

\* The list is reached when no task is open: the detail is a modal.
OpenTask(r) ==
  /\ up /\ open = None /\ state[r] # "none"
  /\ open' = r /\ detail' = NoDetail /\ failed' = FALSE
  /\ \E q \in Read : StartRead(q, r)
  /\ UNCHANGED <<up, visible, store, runner, pending, submit>>

CloseTask ==
  /\ up /\ visible /\ open # None
  /\ open' = None /\ detail' = NoDetail /\ failed' = FALSE
  /\ read' = Superseded
  /\ UNCHANGED <<up, visible, store, runner, pending, submit>>

\* The user hides the window while it follows a task, or shows it again.  Hidden
\* at another time it does nothing that one whose user waits may not do.
Toggle ==
  /\ up /\ open # None /\ submit = Idle
  /\ visible => detail.state \in Unfinished
  /\ visible' = ~ visible
  /\ UNCHANGED <<up, store, runner, page>>

ReadAgain ==
  /\ up /\ open # None
  /\ failed' = FALSE
  /\ \E q \in Read : StartRead(q, open)
  /\ UNCHANGED <<up, visible, store, runner, pending, submit, open, detail>>

\* A bug: a task that is still queued is not read again.
TickRunning == visible /\ detail.state = "running" /\ ~ detail.warning /\ ReadAgain

\* In a window that is seen, the detail is read again while it may change.
Tick == visible /\ detail.state \in Unfinished /\ ~ detail.warning /\ ReadAgain

\* The button beside the error.
RetryRead == visible /\ failed /\ ReadAgain

\* task_detail: the row, and the warning if there is one.
ReadRow(q) ==
  /\ up /\ read[q].phase = "sent"
  /\ read' = [read EXCEPT ![q] =
                [phase |-> "answered", detail |-> Detail(@.task), latest |-> @.latest]]
  /\ UNCHANGED <<up, visible, store, runner, pending, submit, open, detail, failed>>

\* An answer that is not the latest is dropped.
Receive(q) ==
  /\ up /\ read[q].phase = "answered"
  /\ read' = [read EXCEPT ![q] = IdleRead]
  /\ detail' = IF read[q].latest THEN read[q].detail ELSE detail
  /\ UNCHANGED <<up, visible, store, runner, pending, submit, open, failed>>

\* The query fails; the error is shown if the read is the latest.
ReadFails(q) ==
  /\ up /\ read[q].phase = "sent"
  /\ read' = [read EXCEPT ![q] = IdleRead]
  /\ failed' = (failed \/ read[q].latest)
  /\ UNCHANGED <<up, visible, store, runner, pending, submit, open, detail>>

Execute(r) == Begin(r) \/ Act(r) \/ Save(r) \/ SaveFailure(r)

Next ==
  \/ SubmitCommit \/ SubmitFails \/ Acknowledge
  \/ \E r \in Request : Execute(r) \/ OpenTask(r)
  \/ \E a \in Action : Repair(a)
  \/ \E q \in Read : ReadRow(q) \/ Receive(q) \/ ReadFails(q)
  \/ CloseTask \/ Tick \/ RetryRead \/ Toggle
  \/ AppExit \/ AppStart

Spec == Init /\ [][Next]_vars

\* The runtime polls every run and every call.  A read that takes longer than
\* the interval is overtaken by the next; again and again one is fast enough to
\* be answered and received as the latest.
FairSpec ==
  /\ Spec
  /\ WF_vars(\E r \in Request : Execute(r))
  /\ WF_vars(\E q \in Read : ReadRow(q) \/ Receive(q))
  /\ SF_vars(\E q \in Read : read[q].latest /\ ReadRow(q))
  /\ SF_vars(\E q \in Read : read[q].latest /\ Receive(q))
  /\ WF_vars(Tick)

-----------------------------------------------------------------------------
(* Properties. *)

\* A task that is not finished has a run that will finish it, or a warning that
\* its result was not saved (storage.rs:151-165).
UnsavedIsShown ==
  up => \A r \in Request :
    state[r] \in Unfinished => run[r] \in Locked \cup {"wait"} \/ r \in warned

\* Success is recorded only of an action that was executed and went well, and
\* never of a task whose result was reported as not saved (storage.rs:184-226).
SuccessIsEarned ==
  [][\A r \in Request : state'[r] = "succeeded" =>
       state[r] = "succeeded" \/ (outcome[r] = "ok" /\ r \notin warned)]_vars

\* The runner mutex keeps the maintenance actions apart (storage.rs:152).
OneAtATime ==
  \A r, s \in Request : run[r] \in Locked /\ run[s] \in Locked => r = s

\* A finished task stays as it is, over late saves and restarts
\* (storage.rs:114, 218).
FinalStays ==
  [][\A r \in Request : state[r] \in Final => state'[r] = state[r]]_vars

\* The detail shown belongs to the task that is open, although answers of
\* other tasks may still come (useTailTask.ts:60-70).
DetailIsOfOpenTask ==
  detail # NoDetail => detail.task = open

Rank(d) == IF d.state \in Final THEN 3 ELSE IF d.warning THEN 2
           ELSE IF d.state = "running" THEN 1 ELSE 0

\* What is shown of a task never goes back to an older state, but for the one
\* answer of its own submission, which is followed by a read
\* (useTailTask.ts:61-64, 145-149).
ShownNeverOlder ==
  [][Acknowledge \/ (detail.task = detail'.task => Rank(detail) <= Rank(detail'))]_vars

\* An accepted repair gets its result or its warning (storage.rs:151-165).
RepairSettles ==
  \A r \in Request : []<>(~ up \/ state[r] \notin Unfinished \/ r \in warned)

\* While the window is seen, the open page comes to show the final state, the
\* warning or an error; a hidden one does not read (useTailTask.ts:60-66, 95-99).
DetailSettles ==
  []<>(~ visible \/ open = None \/ detail.state \in Final \/ detail.warning \/ failed)
=============================================================================
