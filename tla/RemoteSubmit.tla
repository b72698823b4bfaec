---------------------------- MODULE RemoteSubmit ---------------------------
(***************************************************************************)
(* Submitting a task from the desktop: the controller's history            *)
(* (ControllerStore), the commands submit_remote, pair_remote,             *)
(* remote_detail and cancel_remote, the network between, and the agent's   *)
(* submit handler down to AgentStore::accept.                              *)
(*                                                                         *)
(* The controller is paired with one agent; pairing again replaces the     *)
(* controller identity in the stored connection, not in the target         *)
(* snapshot of a history row.  Requests and responses may be lost, and a   *)
(* request may be handled after its sender has given up.  Requests nobody  *)
(* waits for any more are told apart only by what they ask.                *)
(***************************************************************************)
EXTENDS Naturals, FiniteSets

CONSTANTS
  Request,   \* requests the user submits, each with its request_id
  NoRequest, \* no request
  Sync,      \* remote_detail and cancel_remote calls in flight at one time
  MaxPair    \* bound: how often the controller is paired

ASSUME RequestAssumption == IsFiniteSet(Request) /\ NoRequest \notin Request
ASSUME PairAssumption == MaxPair \in Nat

\* agent_controllers.id, in the order they are issued; 0 is no controller.
Controller == 1..MaxPair

\* How far a task has come: 0 no row, 1 queued, 2 active, 3 final.
Level == 0..3

\* What an answer may show instead of level 2: recovery_required, for a task
\* whose end the runner could not record (service.rs:181-188).
Unconfirmed == 4
Seen == Level \cup {Unconfirmed}

VARIABLES
  \* controller.db
  connection,  \* controller_id in the stored connection
  submission,  \* remote_history.submission_state ("none": no row)
  target,      \* controller_id in remote_history.target_snapshot
  remoteId,    \* the controller whose task remote_history.remote_id names
  lastTask,    \* what remote_history.last_task shows of the task
  \* the desktop process
  lock,        \* the command that holds remote_lock
  subject,     \* its request
  pc,          \* where it is
  reply,       \* the task level in its response
  sync,        \* the detail and cancel calls, which take no lock
  \* the network and the agent's submit handlers
  wire,        \* POST /v1/tasks requests sent and not yet answered
  \* agent.db
  issued,      \* rows of agent_controllers
  granted,     \* those not revoked
  level        \* agent_tasks, by controller and request

history == <<submission, target, remoteId, lastTask>>
command == <<lock, subject, pc, reply>>
desktop == <<connection, history, command, sync>>
access == <<issued, granted>>
vars == <<desktop, wire, access, level>>

Message == [c : Controller, r : Request, live : BOOLEAN, authenticated : BOOLEAN]
SyncCall == [pc : {"asked", "answered"}, op : {"detail", "cancel"}, r : Request,
             reply : Seen]
NoCall == [pc |-> "idle", op |-> "detail", r |-> NoRequest, reply |-> 0]

(***************************************************************************)
(* The type of the state.                                                  *)
(***************************************************************************)
TypeOK ==
  /\ connection \in Controller \cup {0}
  /\ submission \in [Request -> {"none", "prepared", "submission_unknown", "accepted"}]
  /\ target \in [Request -> Controller \cup {0}]
  /\ remoteId \in [Request -> Controller \cup {0}]
  /\ lastTask \in [Request -> Seen]
  /\ lock \in {"free", "submit", "pair"}
  /\ subject \in Request \cup {NoRequest}
  /\ pc \in {"idle", "check", "send", "wait", "answered", "failed", "pairing", "paired"}
  /\ reply \in Level
  /\ sync \in [Sync -> {NoCall} \cup SyncCall]
  /\ wire \subseteq Message
  /\ issued \in Controller \cup {0}
  /\ granted \in SUBSET Controller
  /\ level \in [Controller -> [Request -> Level]]

Init ==
  /\ connection = 0
  /\ submission = [r \in Request |-> "none"]
  /\ target = [r \in Request |-> 0]
  /\ remoteId = [r \in Request |-> 0]
  /\ lastTask = [r \in Request |-> 0]
  /\ lock = "free"
  /\ subject = NoRequest
  /\ pc = "idle"
  /\ reply = 0
  /\ sync = [s \in Sync |-> NoCall]
  /\ wire = {}
  /\ issued = 0
  /\ granted = {}
  /\ level = [c \in Controller |-> [r \in Request |-> 0]]

\* The command returns and its guard on remote_lock is dropped.
Release ==
  /\ lock' = "free"
  /\ subject' = NoRequest
  /\ pc' = "idle"
  /\ reply' = 0

Step(from, to) == pc = from /\ pc' = to /\ UNCHANGED <<lock, subject, reply>>

-----------------------------------------------------------------------------
(***************************************************************************)
(* submit_remote.                                                          *)
(***************************************************************************)
LockForSubmit(r) ==
  /\ lock = "free"
  /\ submission[r] # "accepted"
  /\ lock' = "submit"
  /\ subject' = r
  /\ pc' = "check"
  /\ UNCHANGED reply

\* A bug: a retry is aimed at the connection as it is now.
SubmitRemoteCurrent(r) ==
  /\ LockForSubmit(r)
  /\ connection # 0
  /\ submission' = [submission EXCEPT ![r] = IF @ = "none" THEN "prepared" ELSE @]
  /\ target' = [target EXCEPT ![r] = connection]
  /\ UNCHANGED <<connection, remoteId, lastTask, sync, wire, access, level>>

\* The lock, then prepare: a new request is stored with a snapshot of the
\* connection, a known one keeps its row.  An accepted one is answered from
\* the row, and nothing changes.
SubmitRemote(r) ==
  /\ LockForSubmit(r)
  /\ connection # 0
  /\ IF submission[r] = "none"
     THEN /\ submission' = [submission EXCEPT ![r] = "prepared"]
          /\ target' = [target EXCEPT ![r] = connection]
     ELSE UNCHANGED <<submission, target>>
  /\ UNCHANGED <<connection, remoteId, lastTask, sync, wire, access, level>>

\* The live target, the capabilities or the request are not what they must be.
CheckFailed ==
  /\ pc = "check"
  /\ Release
  /\ UNCHANGED <<connection, history, sync, wire, access, level>>

\* The capabilities, which need an authorized controller, agree; then
\* mark_unknown.  A revocation between the two is the same as one after both.
MarkUnknown ==
  /\ Step("check", "send")
  /\ target[subject] \in granted
  /\ submission' = [submission EXCEPT ![subject] =
                      IF @ \in {"prepared", "submission_unknown"}
                      THEN "submission_unknown" ELSE @]
  /\ UNCHANGED <<connection, target, remoteId, lastTask, sync, wire,
                 access, level>>

Post ==
  /\ Step("send", "wait")
  /\ wire' = wire \cup {[c |-> target[subject], r |-> subject, live |-> TRUE,
                         authenticated |-> FALSE]}
  /\ UNCHANGED <<connection, history, sync, access, level>>

\* What was sent may still arrive when nobody waits for the answer.
Orphaned == {[m EXCEPT !.live = FALSE] : m \in wire}

\* A bug: no timeout.
GiveUpNever == FALSE /\ UNCHANGED vars

\* The request or its response is lost, or takes longer than the timeout.
GiveUp ==
  /\ pc \in {"wait", "answered"}
  /\ pc' = "failed"
  /\ reply' = 0
  /\ wire' = Orphaned
  /\ UNCHANGED <<lock, subject, connection, history, sync, access, level>>

\* record_task: its check reads columns that change at most once, so the read
\* and the update are one step.  A response for another task is refused.
RecordTask(r, n) ==
  /\ remoteId[r] \in {0, target[r]}
  /\ submission' = [submission EXCEPT ![r] = "accepted"]
  /\ remoteId' = [remoteId EXCEPT ![r] = target[r]]
  /\ lastTask' = [lastTask EXCEPT ![r] = n]
  /\ UNCHANGED target

SubmitRecord ==
  /\ pc = "answered"
  /\ RecordTask(subject, reply)
  /\ Release
  /\ UNCHANGED <<connection, sync, wire, access, level>>

\* A bug: a failed submission is put back to where it can be edited.
SubmitFailedReset ==
  /\ pc = "failed"
  /\ submission' = [submission EXCEPT ![subject] = "prepared"]
  /\ Release
  /\ UNCHANGED <<connection, target, remoteId, lastTask, sync, wire, access, level>>

\* The error goes to sync_error, a text for the user.
SubmitFailed ==
  /\ pc = "failed"
  /\ Release
  /\ UNCHANGED <<connection, history, sync, wire, access, level>>

-----------------------------------------------------------------------------
(***************************************************************************)
(* The agent's submit handler: authenticate, then AgentStore::accept.      *)
(***************************************************************************)
Authenticate(m) ==
  /\ m \in wire
  /\ ~m.authenticated
  /\ m.c \in granted
  /\ wire' = (wire \ {m}) \cup {[m EXCEPT !.authenticated = TRUE]}
  /\ UNCHANGED <<desktop, access, level>>

Answer(m, to, n) ==
  /\ wire' = wire \ {m}
  /\ IF m.live THEN pc' = to /\ reply' = n ELSE UNCHANGED <<pc, reply>>
  /\ UNCHANGED <<lock, subject, connection, history, sync, access>>

\* A bug: the transaction trusts the authentication at the door.
AcceptTrusting(m) ==
  /\ m \in wire
  /\ m.authenticated
  /\ level' = [level EXCEPT ![m.c][m.r] = IF @ = 0 THEN 1 ELSE @]
  /\ Answer(m, "answered", level'[m.c][m.r])

\* One transaction: the controller is still authorized, and the row of this
\* controller and request is returned, or created.
Accept(m) ==
  /\ m \in wire
  /\ m.authenticated
  /\ m.c \in granted
  /\ level' = [level EXCEPT ![m.c][m.r] = IF @ = 0 THEN 1 ELSE @]
  /\ Answer(m, "answered", level'[m.c][m.r])

\* Unauthorized, draining, another target, an unknown directory, a full queue.
Refuse(m) ==
  /\ m \in wire
  /\ UNCHANGED level
  /\ Answer(m, "failed", 0)

\* The connection is lost, or the agent goes down: the handler is dropped.
Lose(m) ==
  /\ m \in wire
  /\ wire' = wire \ {m}
  /\ UNCHANGED <<desktop, access, level>>

\* The agent's runner takes the task on.
Advance(c, r) ==
  /\ level[c][r] \in {1, 2}
  /\ level' = [level EXCEPT ![c][r] = @ + 1]
  /\ UNCHANGED <<desktop, wire, access>>

-----------------------------------------------------------------------------
(***************************************************************************)
(* pair_remote, and the owner's revocation.                                *)
(***************************************************************************)
PairRemote ==
  /\ lock = "free"
  /\ issued < MaxPair
  /\ lock' = "pair"
  /\ pc' = "pairing"
  /\ UNCHANGED <<subject, reply, connection, history, sync, wire, access, level>>

\* The agent issues an identity; the response may be lost.
PairIssued ==
  /\ pc = "pairing"
  /\ issued' = issued + 1
  /\ granted' = granted \cup {issued'}
  /\ \/ Step("pairing", "paired")
     \/ Release
  /\ UNCHANGED <<connection, history, sync, wire, level>>

\* The credential is stored, the capabilities agree, the connection is saved.
PairSaved ==
  /\ pc = "paired"
  /\ issued \in granted
  /\ connection' = issued
  /\ Release
  /\ UNCHANGED <<history, sync, wire, access, level>>

PairFailed ==
  /\ pc \in {"pairing", "paired"}
  /\ Release
  /\ UNCHANGED <<connection, history, sync, wire, access, level>>

Revoke(c) ==
  /\ c \in granted
  /\ granted' = granted \ {c}
  /\ UNCHANGED <<desktop, wire, issued, level>>

-----------------------------------------------------------------------------
(***************************************************************************)
(* remote_detail and cancel_remote, which do not take remote_lock.         *)
(***************************************************************************)
SetSync(s, call) == sync' = [sync EXCEPT ![s] = call]

SyncAsk(s, op, r) ==
  /\ sync[s] = NoCall
  /\ remoteId[r] # 0
  /\ SetSync(s, [pc |-> "asked", op |-> op, r |-> r, reply |-> 0])
  /\ UNCHANGED <<connection, history, command, wire, access, level>>

\* The agent reads the task; a cancel ends a queued one and asks an active one
\* to stop.
Cancelled(n) == IF n = 1 THEN 3 ELSE n

\* A detail of an active task may name the runner's fault instead.
Answers(op, n) == {n} \cup {u \in {Unconfirmed} : op = "detail" /\ n = 2}

SyncAnswer(s) ==
  /\ sync[s].pc = "asked"
  /\ LET r == sync[s].r
         c == target[r] IN
       /\ c \in granted
       /\ level' = [level EXCEPT ![c][r] = IF sync[s].op = "cancel" THEN Cancelled(@) ELSE @]
       /\ \E n \in Answers(sync[s].op, level'[c][r]) :
            SetSync(s, [sync[s] EXCEPT !.pc = "answered", !.reply = n])
  /\ UNCHANGED <<connection, history, command, wire, access>>

SyncRecord(s) ==
  /\ sync[s].pc = "answered"
  /\ RecordTask(sync[s].r, sync[s].reply)
  /\ SetSync(s, NoCall)
  /\ UNCHANGED <<connection, command, wire, access, level>>

SyncFailed(s) ==
  /\ sync[s] # NoCall
  /\ SetSync(s, NoCall)
  /\ UNCHANGED <<connection, history, command, wire, access, level>>

\* The desktop process ends.
AppExit ==
  /\ Release
  /\ sync' = [s \in Sync |-> NoCall]
  /\ wire' = Orphaned
  /\ UNCHANGED <<connection, history, access, level>>

-----------------------------------------------------------------------------
SubmitStep == CheckFailed \/ MarkUnknown \/ Post \/ GiveUp \/ SubmitRecord \/ SubmitFailed
PairStep == PairIssued \/ PairSaved \/ PairFailed

Next ==
  \/ \E r \in Request : SubmitRemote(r)
  \/ SubmitStep
  \/ \E m \in wire : Authenticate(m) \/ Accept(m) \/ Refuse(m) \/ Lose(m)
  \/ \E c \in Controller, r \in Request : Advance(c, r)
  \/ PairRemote
  \/ PairStep
  \/ \E c \in Controller : Revoke(c)
  \/ \E s \in Sync, op \in {"detail", "cancel"}, r \in Request : SyncAsk(s, op, r)
  \/ \E s \in Sync : SyncAnswer(s) \/ SyncRecord(s) \/ SyncFailed(s)
  \/ AppExit

Spec == Init /\ [][Next]_vars

(***************************************************************************)
(* Fairness: the desktop's runtime goes on with a command, and its HTTP    *)
(* client has a timeout.  Nothing is assumed of the network or the agent.  *)
(***************************************************************************)
FairSpec == Spec /\ WF_vars(SubmitStep) /\ WF_vars(PairStep)

-----------------------------------------------------------------------------
(***************************************************************************)
(* What the controller and the agent promise together.                     *)
(***************************************************************************)
Sent(c, r) == level[c][r] # 0 \/ \E m \in wire : m.c = c /\ m.r = r

\* A request creates at most one task, across lost responses, retries, late
\* deliveries, restarts of the desktop and new pairings: it is bound to the
\* identity in its target snapshot, and accept knows (controller, request_id).
OneTaskPerRequest ==
  \A r \in Request : Cardinality({c \in Controller : level[c][r] # 0}) <= 1

\* Why: whatever was sent carries the identity of the snapshot, and the row
\* said "unknown" before it was sent; what is recorded is a real task.
SentIsMarked ==
  \A r \in Request, c \in Controller : Sent(c, r) =>
    target[r] = c /\ submission[r] \in {"submission_unknown", "accepted"}

CommandInv ==
  /\ lock = "submit" => subject \in Request
  /\ pc \in {"check", "send", "wait", "answered", "failed"} => lock = "submit"
  /\ lock = "submit" => submission[subject] # "none"
  /\ pc \in {"send", "wait", "answered", "failed"} =>
       submission[subject] \in {"submission_unknown", "accepted"}
  /\ pc = "answered" => target[subject] # 0 /\ reply \in 1..level[target[subject]][subject]
  /\ pc = "pairing" => issued < MaxPair
  /\ \A m \in wire : m.live => pc = "wait" /\ m.r = subject
  /\ \A m, n \in wire : m.live /\ n.live => m = n

\* A task at level l may have been seen as n.
Shown(n, l) == n \in 1..l \/ (n = Unconfirmed /\ l >= 2)

AcceptedIsReal ==
  \A r \in Request :
    /\ submission[r] # "none" <=> target[r] # 0
    /\ submission[r] = "accepted" <=> remoteId[r] # 0
    /\ remoteId[r] # 0 =>
         remoteId[r] = target[r] /\ Shown(lastTask[r], level[target[r]][r])

SyncInv ==
  \A s \in Sync : sync[s] # NoCall =>
    /\ remoteId[sync[s].r] # 0
    /\ sync[s].pc = "answered" =>
         Shown(sync[s].reply, level[target[sync[s].r]][sync[s].r])

SubmitInv == SentIsMarked /\ CommandInv /\ AcceptedIsReal /\ SyncInv

\* A controller whose authorization is revoked gets no further task, also for
\* a request that was authenticated before (accept looks again in its
\* transaction).
NoAcceptAfterRevoke ==
  [][\A c \in Controller \ granted, r \in Request :
       level[c][r] = 0 => level'[c][r] = 0]_vars

\* The promise as an abstract specification, see RequestOnce.
Once == INSTANCE RequestOnce
          WITH view <- [r \in Request |->
                          CASE submission[r] \in {"none", "prepared"} -> "draft"
                            [] submission[r] = "submission_unknown" -> "unknown"
                            [] OTHER -> "accepted"],
               tasks <- [r \in Request |-> Cardinality({c \in Controller : level[c][r] # 0})]
ImplementsOnce == Once!Spec

\* The agent's tasks, by controller and request, move as AgentRunner lets them,
\* see TaskLevel.
Levels == INSTANCE TaskLevel
            WITH Task <- Controller \X Request,
                 level <- [t \in Controller \X Request |-> level[t[1]][t[2]]]
ImplementsLevels == Levels!Spec

\* A command does not keep remote_lock: every submission and every pairing
\* ends, also when no answer ever comes.
LockReleased == lock # "free" ~> lock = "free"
=============================================================================
