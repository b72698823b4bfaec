-------------------------- MODULE LocalRepairProofs --------------------------
(***************************************************************************)
(* Theorems about LocalRepair, for every number of requests, actions and   *)
(* reads in flight.                                                        *)
(***************************************************************************)
EXTENDS LocalRepair, TLAPS

-----------------------------------------------------------------------------
(***************************************************************************)
(* The inductive invariant.                                                *)
(***************************************************************************)
\* The runner mutex is held by the run that is past it; a run belongs to a
\* task that is not finished and of which no warning was given; an
\* unfinished task of a running application has one or the other.
StoreInv ==
  /\ \A r \in Request : run[r] \in Locked <=> holder = r
  /\ \A r \in Request : run[r] # "none" => up /\ state[r] \in Unfinished /\ r \notin warned
  /\ \A r \in Request : run[r] = "wait" => state[r] = "queued"
  /\ \A r \in Request : r \in warned => up /\ state[r] # "none"
  /\ \A r \in Request : up /\ state[r] \in Unfinished => run[r] # "none" \/ r \in warned

\* The task a call asks for or has been told of.
Asked(c) == IF c.phase = "sent" THEN c.task ELSE c.detail.task

\* Whatever the page asks for exists; the latest read is of the open task, and
\* so is the detail shown.
PageInv ==
  /\ open # None => state[open] # "none"
  /\ submit.phase = "accepted" => state[submit.detail.task] # "none"
  /\ \A q \in Read : read[q].phase = "sent" => state[read[q].task] # "none"
  /\ \A q \in Read : read[q].latest => read[q] # IdleRead /\ Asked(read[q]) = open
  /\ detail # NoDetail => detail.task = open

IInv == TypeOK /\ StoreInv /\ PageInv

Reads == {IdleRead} \cup [phase : {"sent"}, task : Request, latest : BOOLEAN]
                    \cup [phase : {"answered"}, detail : TaskDetail, latest : BOOLEAN]

-----------------------------------------------------------------------------
(***************************************************************************)
(* Types.                                                                  *)
(***************************************************************************)
\* A submission that was sent names an action and a request.
LEMMA SentType ==
  ASSUME TypeOK, submit.phase = "sent"
  PROVE  submit.action \in Action /\ submit.request \in Request
         /\ submit \in [phase : {"sent"}, action : Action, request : Request]
BY DEF TypeOK, Idle

\* One that was accepted carries the task as it was accepted.
LEMMA AcceptedType ==
  ASSUME TypeOK, submit.phase = "accepted"
  PROVE  submit.action \in Action /\ submit.detail \in TaskDetail
BY DEF TypeOK, Idle

\* A read in flight, and what becomes of it when it is superseded.
LEMMA ReadType ==
  ASSUME TypeOK, NEW q \in Read
  PROVE  /\ read[q] \in Reads /\ read[q].latest \in BOOLEAN
         /\ read[q].phase = "sent" => read[q].task \in Request
         /\ read[q].phase = "answered" => read[q].detail \in TaskDetail
         /\ Superseded[q] \in Reads
         /\ Superseded[q].latest = FALSE
<1>1. read[q] \in Reads
  BY DEF TypeOK, Reads
<1>2. CASE read[q] = IdleRead
  <2>1. [IdleRead EXCEPT !.latest = FALSE] = IdleRead /\ IdleRead.latest = FALSE
    <3>1. IdleRead.latest = FALSE
      BY DEF IdleRead
    <3>2. [IdleRead EXCEPT !.latest = FALSE] \in [phase : {"idle"}, latest : {FALSE}]
      BY DEF IdleRead
    <3>3. ASSUME NEW c \in [phase : {"idle"}, latest : {FALSE}] PROVE c = IdleRead
      BY DEF IdleRead
    <3> QED
      BY <3>1, <3>2, <3>3
  <2>4. IdleRead.phase = "idle"
    BY DEF IdleRead
  <2>2. Superseded[q] = [read[q] EXCEPT !.latest = FALSE]
    BY DEF Superseded
  <2>3. Superseded[q] = IdleRead
    BY <1>2, <2>1, <2>2
  <2> QED
    BY <1>1, <1>2, <2>1, <2>3, <2>4
<1>3. CASE read[q] \in [phase : {"sent"}, task : Request, latest : BOOLEAN]
  BY <1>3 DEF Superseded, Reads
<1>4. CASE read[q] \in [phase : {"answered"}, detail : TaskDetail, latest : BOOLEAN]
  BY <1>4 DEF Superseded, Reads
<1>5. \/ read[q] = IdleRead
      \/ read[q] \in [phase : {"sent"}, task : Request, latest : BOOLEAN]
      \/ read[q] \in [phase : {"answered"}, detail : TaskDetail, latest : BOOLEAN]
  BY <1>1 DEF Reads
<1> QED
  BY <1>1, <1>2, <1>3, <1>4, <1>5

\* A new read is the only one that is the latest.
LEMMA StartReadStep ==
  ASSUME TypeOK, NEW q \in Read, NEW r \in Request, StartRead(q, r)
  PROVE  /\ read' \in [Read -> Reads]
         /\ \A p \in Read : read'[p].latest => p = q
         /\ read'[q] # IdleRead /\ Asked(read'[q]) = r
<1> DEFINE new == [phase |-> "sent", task |-> r, latest |-> TRUE]
<1>1. new \in Reads /\ new # IdleRead /\ Asked(new) = r
  BY DEF Reads, IdleRead, Asked
<1>2. read' = [Superseded EXCEPT ![q] = new]
  BY DEF StartRead
<1>3. Superseded = [p \in Read |-> Superseded[p]]
  BY DEF Superseded
<1> HIDE DEF new
<1>4. \A p \in Read : read'[p] = IF p = q THEN new ELSE Superseded[p]
  BY <1>2, <1>3
<1>5. read' \in [Read -> Reads]
  BY <1>1, <1>2, <1>3, ReadType
<1> QED
  BY <1>1, <1>4, <1>5, ReadType

\* The pages' actions leave the rest alone, so these types are enough.
PageType ==
  /\ pending \in [Action -> Request \cup {None}]
  /\ submit \in {Idle} \cup [phase : {"sent"}, action : Action, request : Request]
                       \cup [phase : {"accepted"}, action : Action, detail : TaskDetail]
  /\ open \in Request \cup {None}
  /\ detail \in DetailSet
  /\ failed \in BOOLEAN
  /\ read \in [Read -> Reads]

StoreType ==
  /\ up \in BOOLEAN /\ visible \in BOOLEAN
  /\ state \in [Request -> {"none"} \cup Unfinished \cup Final]
  /\ action \in [Request -> Action \cup {None}]
  /\ outcome \in [Request -> {"unknown", "ok", "bad"}]
  /\ run \in [Request -> {"none", "wait"} \cup Locked]
  /\ holder \in Request \cup {None} /\ (holder # None => run[holder] \in Locked)
  /\ warned \subseteq Request

LEMMA TypeSplit == TypeOK <=> StoreType /\ PageType
BY DEF TypeOK, StoreType, PageType, Reads

\* A step of the page keeps its types.
LEMMA PageTypeStep ==
  ASSUME TypeOK, PageInv,
         \/ SubmitCommit \/ SubmitFails \/ Acknowledge
         \/ \E r \in Request : OpenTask(r)
         \/ \E a \in Action : Repair(a)
         \/ \E q \in Read : ReadRow(q) \/ Receive(q) \/ ReadFails(q)
         \/ CloseTask \/ Tick \/ RetryRead
  PROVE  PageType'
<1> USE TypeSplit DEF PageType
<1>1. CASE SubmitCommit
  <2> DEFINE d == [task |-> submit.request, state |-> state'[submit.request], warning |-> FALSE]
  <2>1. submit.phase = "sent" /\ submit.action \in Action /\ submit.request \in Request
    BY <1>1, SentType DEF SubmitCommit
  <2>2. CASE Refused
    BY <1>1, <2>1, <2>2 DEF SubmitCommit, Refused
  <2>3. CASE state' = [state EXCEPT ![submit.request] =
                         IF state[submit.request] = "none" THEN "queued" ELSE @]
             /\ submit' = [phase |-> "accepted", action |-> submit.action, detail |-> d]
    <3>1. state'[submit.request] \in Unfinished \cup Final
      BY <2>1, <2>3 DEF StoreType, Unfinished
    <3>2. d \in TaskDetail
      BY <2>1, <3>1 DEF TaskDetail
    <3> HIDE DEF d
    <3> QED
      BY <1>1, <2>1, <2>3, <3>2 DEF SubmitCommit
  <2> QED
    BY <1>1, <2>2, <2>3 DEF SubmitCommit
<1>2. CASE SubmitFails
  BY <1>2 DEF SubmitFails, Refused
<1>3. CASE Acknowledge
  <2>1. submit.action \in Action /\ submit.detail \in TaskDetail
    BY <1>3, AcceptedType DEF Acknowledge
  <2>2. submit.detail.task \in Request
    BY <2>1 DEF TaskDetail
  <2>3. read' \in [Read -> Reads]
    BY <1>3, <2>2, StartReadStep DEF Acknowledge
  <2> QED
    BY <1>3, <2>1, <2>2, <2>3 DEF Acknowledge, DetailSet
<1>5. ASSUME NEW r \in Request, OpenTask(r) PROVE PageType'
  BY <1>5, StartReadStep DEF OpenTask, DetailSet
<1>6. ASSUME NEW a \in Action, Repair(a) PROVE PageType'
  <2>1. PICK r \in Request : /\ pending' = [pending EXCEPT ![a] = r]
                             /\ submit' = [phase |-> "sent", action |-> a, request |-> r]
    BY <1>6 DEF Repair
  <2> QED
    BY <1>6, <2>1 DEF Repair
<1>7. ASSUME NEW q \in Read, ReadRow(q) PROVE PageType'
  <2> DEFINE d == Detail(read[q].task)
             new == [phase |-> "answered", detail |-> d, latest |-> read[q].latest]
  <2>1. read[q].phase = "sent" /\ state[read[q].task] # "none"
    BY <1>7 DEF ReadRow, PageInv
  <2>2. read[q].task \in Request /\ read[q].latest \in BOOLEAN
    BY <2>1, ReadType DEF Reads, IdleRead
  <2>3. d \in TaskDetail
    BY <2>1, <2>2 DEF TaskDetail, Detail, StoreType
  <2> HIDE DEF d
  <2>4. new \in Reads
    BY <2>2, <2>3 DEF Reads
  <2>5. read' = [read EXCEPT ![q] = new]
    BY <1>7 DEF ReadRow, d
  <2> QED
    BY <1>7, <2>4, <2>5 DEF ReadRow
<1>8. ASSUME NEW q \in Read, Receive(q) PROVE PageType'
  <2>1. read[q].detail \in TaskDetail
    BY <1>8, ReadType DEF Receive, Reads, IdleRead
  <2>2. read' \in [Read -> Reads]
    BY <1>8 DEF Receive, Reads
  <2> QED
    BY <1>8, <2>1, <2>2 DEF Receive, DetailSet
<1>9. ASSUME NEW q \in Read, ReadFails(q) PROVE PageType'
  <2>1. read[q].latest \in BOOLEAN
    BY ReadType
  <2>2. read' \in [Read -> Reads]
    BY <1>9 DEF ReadFails, Reads
  <2> QED
    BY <1>9, <2>1, <2>2 DEF ReadFails
<1>10. CASE CloseTask
  <2>1. read' \in [Read -> Reads]
    BY <1>10, ReadType DEF CloseTask, Superseded
  <2> QED
    BY <1>10, <2>1 DEF CloseTask, DetailSet
<1>11. CASE Tick \/ RetryRead
  <2>1. open \in Request
    BY <1>11 DEF Tick, RetryRead, ReadAgain
  <2>2. read' \in [Read -> Reads]
    BY <1>11, <2>1, StartReadStep DEF Tick, RetryRead, ReadAgain
  <2> QED
    BY <1>11, <2>2 DEF Tick, RetryRead, ReadAgain
<1> QED
  BY <1>1, <1>2, <1>3, <1>5, <1>6, <1>7, <1>8, <1>9, <1>10, <1>11

\* No request is none of them.
LEMMA NoneIsNoRequest == \A r \in Request : r # None
BY BoundAssumption DEF Request, None

\* A step of the store keeps its types.
LEMMA StoreTypeStep ==
  ASSUME TypeOK, StoreInv,
         \/ SubmitCommit
         \/ \E r \in Request : Execute(r)
         \/ AppExit \/ AppStart
  PROVE  StoreType'
<1> USE TypeSplit, NoneIsNoRequest DEF StoreType
<1>1. CASE SubmitCommit
  <2>1. submit.action \in Action /\ submit.request \in Request
    BY <1>1, SentType DEF SubmitCommit
  <2>2. CASE state[submit.request] # "none"
    <3>1. run' = [run EXCEPT ![submit.request] = @] \/ run' = run
      BY <1>1, <2>2 DEF SubmitCommit
    <3>2. run' = run
      BY <2>1, <3>1
    <3> QED
      BY <1>1, <2>1, <2>2, <3>2 DEF SubmitCommit
  <2>3. CASE state[submit.request] = "none"
    <3>1. run[submit.request] = "none"
      BY <2>1, <2>3 DEF StoreInv, Unfinished
    <3>2. holder # submit.request
      BY <2>1, <3>1 DEF Locked
    <3>3. /\ state' = [state EXCEPT ![submit.request] = "queued"]
          /\ action' = [action EXCEPT ![submit.request] = submit.action]
          /\ run' = [run EXCEPT ![submit.request] = "wait"]
          /\ UNCHANGED <<up, visible, outcome, holder, warned>>
      BY <1>1, <2>3 DEF SubmitCommit
    <3> QED
      BY <2>1, <3>2, <3>3 DEF Unfinished
  <2> QED
    BY <2>2, <2>3
<1>2. ASSUME NEW r \in Request, Begin(r) PROVE StoreType'
  BY <1>2 DEF Begin, To, Over, Locked, Unfinished
<1>3. ASSUME NEW r \in Request, Act(r) PROVE StoreType'
  BY <1>3 DEF Act, To, store, Locked
<1>4. ASSUME NEW r \in Request, Save(r) PROVE StoreType'
  BY <1>4 DEF Save, Finish, To, Over, Locked, Final
<1>5. ASSUME NEW r \in Request, SaveFailure(r) PROVE StoreType'
  BY <1>5 DEF SaveFailure, Finish, Over, Locked, Final
<1>6. CASE AppExit
  BY <1>6 DEF AppExit, store
<1>7. CASE AppStart
  BY <1>7 DEF AppStart, runner, Final
<1> QED
  BY <1>1, <1>2, <1>3, <1>4, <1>5, <1>6, <1>7 DEF Execute

-----------------------------------------------------------------------------
(***************************************************************************)
(* The runs and the warnings.                                              *)
(***************************************************************************)
\* No step loses an unfinished task, and none shares the mutex.
LEMMA StoreInvStep ==
  ASSUME TypeOK, StoreInv, Next
  PROVE  StoreInv'
<1> USE TypeSplit, NoneIsNoRequest DEF StoreType, StoreInv
<1>1. CASE SubmitCommit
  <2>1. submit.action \in Action /\ submit.request \in Request /\ up
    BY <1>1, SentType DEF SubmitCommit
  <2>2. CASE state[submit.request] # "none"
    <3>1. UNCHANGED <<up, holder, warned, state, run>>
      BY <1>1, <2>1, <2>2 DEF SubmitCommit
    <3> QED
      BY <3>1
  <2>3. CASE state[submit.request] = "none"
    <3>1. run[submit.request] = "none" /\ submit.request \notin warned
      BY <2>1, <2>3 DEF Unfinished
    <3>2. /\ state' = [state EXCEPT ![submit.request] = "queued"]
          /\ run' = [run EXCEPT ![submit.request] = "wait"]
          /\ UNCHANGED <<up, holder, warned>>
      BY <1>1, <2>3 DEF SubmitCommit
    <3> QED
      BY <2>1, <3>1, <3>2 DEF Unfinished, Locked
  <2> QED
    BY <2>2, <2>3
<1>2. ASSUME NEW r \in Request, Begin(r) PROVE StoreInv'
  <2>1. /\ run[r] = "wait" /\ holder = None /\ state[r] = "queued" /\ r \notin warned
        /\ UNCHANGED <<up, warned>>
    BY <1>2 DEF Begin
  <2>2. CASE state' = [state EXCEPT ![r] = "running"] /\ To(r, "act")
    BY <2>1, <2>2 DEF To, Locked, Unfinished
  <2>3. CASE UNCHANGED state /\ To(r, "failing")
    BY <2>1, <2>3 DEF To, Locked
  <2> QED
    BY <1>2, <2>1, <2>2, <2>3 DEF Begin
<1>3. ASSUME NEW r \in Request, Act(r) PROVE StoreInv'
  BY <1>3 DEF Act, To, store, Locked
<1>4. ASSUME NEW r \in Request, Save(r) PROVE StoreInv'
  <2>1. /\ run[r] = "save" /\ holder = r /\ state[r] \in Unfinished /\ r \notin warned
        /\ UNCHANGED <<up, warned>>
    BY <1>4 DEF Save, Locked
  <2>2. CASE UNCHANGED state /\ To(r, "failing")
    BY <2>1, <2>2 DEF To, Locked
  <2>3. ASSUME NEW f \in {"succeeded", "failed"}, Finish(r, f), Over(r) PROVE StoreInv'
    BY <2>1, <2>3 DEF Finish, Over, Locked, Unfinished
  <2> QED
    BY <1>4, <2>2, <2>3 DEF Save
<1>5. ASSUME NEW r \in Request, SaveFailure(r) PROVE StoreInv'
  <2>1. /\ run[r] = "failing" /\ holder = r /\ state[r] \in Unfinished /\ r \notin warned
        /\ UNCHANGED up /\ Over(r)
    BY <1>5 DEF SaveFailure, Locked
  <2>2. CASE Finish(r, "failed") /\ UNCHANGED warned
    BY <2>1, <2>2 DEF Finish, Over, Locked, Unfinished
  <2>3. CASE warned' = warned \cup {r} /\ UNCHANGED state
    BY <2>1, <2>3 DEF Over, Locked, Unfinished
  <2> QED
    BY <1>5, <2>2, <2>3 DEF SaveFailure
<1>6. CASE AppExit
  <2>1. /\ up' = FALSE /\ holder' = None /\ warned' = {}
        /\ run' = [r \in Request |-> "none"]
    BY <1>6 DEF AppExit
  <2> QED
    BY <2>1 DEF Locked
<1>7. CASE AppStart
  BY <1>7 DEF AppStart, runner, Unfinished
<1>8. CASE UNCHANGED <<up, store, runner>>
  BY <1>8 DEF store, runner
<1>9. CASE SubmitFails \/ Acknowledge \/ CloseTask \/ Tick \/ RetryRead \/ Toggle \/ RetryRead
  BY <1>8, <1>9 DEF SubmitFails, Acknowledge, CloseTask, Tick, RetryRead, ReadAgain, Toggle
<1>10. ASSUME NEW r \in Request, OpenTask(r) PROVE StoreInv'
  BY <1>8, <1>10 DEF OpenTask
<1>11. ASSUME NEW a \in Action, Repair(a) PROVE StoreInv'
  BY <1>8, <1>11 DEF Repair
<1>12. ASSUME NEW q \in Read, ReadRow(q) \/ Receive(q) \/ ReadFails(q) PROVE StoreInv'
  BY <1>8, <1>12 DEF ReadRow, Receive, ReadFails
<1> QED
  BY <1>1, <1>2, <1>3, <1>4, <1>5, <1>6, <1>7, <1>9, <1>10, <1>11, <1>12 DEF Next, Execute

-----------------------------------------------------------------------------
(***************************************************************************)
(* The page.                                                               *)
(***************************************************************************)
\* No step takes a task away.
LEMMA TasksStay ==
  ASSUME TypeOK, Next, NEW r \in Request, state[r] # "none"
  PROVE  state'[r] # "none"
<1> USE TypeSplit DEF StoreType
<1>1. CASE SubmitCommit
  BY <1>1, SentType DEF SubmitCommit
<1>2. ASSUME NEW e \in Request, Execute(e) PROVE state'[r] # "none"
  BY <1>2 DEF Execute, Begin, Act, Save, SaveFailure, Finish, To, Over, store
<1>3. CASE AppStart
  BY <1>3 DEF AppStart
<1>4. CASE SubmitFails \/ Acknowledge \/ CloseTask \/ Tick \/ RetryRead \/ Toggle \/ AppExit
  BY <1>4 DEF SubmitFails, Acknowledge, CloseTask, Tick, RetryRead, ReadAgain, Toggle, AppExit, store
<1>5. ASSUME NEW e \in Request, OpenTask(e) PROVE state'[r] # "none"
  BY <1>5 DEF OpenTask, store
<1>6. ASSUME NEW a \in Action, Repair(a) PROVE state'[r] # "none"
  BY <1>6 DEF Repair, store
<1>7. ASSUME NEW q \in Read, ReadRow(q) \/ Receive(q) \/ ReadFails(q) PROVE state'[r] # "none"
  BY <1>7 DEF ReadRow, Receive, ReadFails, store
<1> QED
  BY <1>1, <1>2, <1>3, <1>4, <1>5, <1>6, <1>7 DEF Next

\* Superseding leaves the phase and the task of a read.
LEMMA SupersededStep ==
  ASSUME TypeOK, NEW q \in Read
  PROVE  Superseded[q].phase = read[q].phase
         /\ (read[q].phase = "sent" => Superseded[q].task = read[q].task)
<1>1. Superseded[q] = [read[q] EXCEPT !.latest = FALSE]
  BY DEF Superseded
<1>2. CASE read[q] = IdleRead
  BY <1>1, <1>2 DEF IdleRead
<1>3. CASE read[q] \in [phase : {"sent"}, task : Request, latest : BOOLEAN]
  BY <1>1, <1>3
<1>4. CASE read[q] \in [phase : {"answered"}, detail : TaskDetail, latest : BOOLEAN]
  BY <1>1, <1>4
<1>5. \/ read[q] = IdleRead
      \/ read[q] \in [phase : {"sent"}, task : Request, latest : BOOLEAN]
      \/ read[q] \in [phase : {"answered"}, detail : TaskDetail, latest : BOOLEAN]
  BY ReadType DEF Reads
<1> QED
  BY <1>2, <1>3, <1>4, <1>5

\* A read that starts is of a task that exists, and so are those in flight.
LEMMA StartReadKnown ==
  ASSUME TypeOK, PageInv, NEW q \in Read, NEW r \in Request, StartRead(q, r),
         state[r] # "none"
  PROVE  \A p \in Read : read'[p].phase = "sent" => state[read'[p].task] # "none"
<1> DEFINE new == [phase |-> "sent", task |-> r, latest |-> TRUE]
<1>1. new.task = r
  OBVIOUS
<1>2. \A p \in Read : read'[p] = IF p = q THEN new ELSE Superseded[p]
  BY DEF StartRead, Superseded
<1> HIDE DEF new
<1> QED
  BY <1>1, <1>2, SupersededStep DEF PageInv

\* The page asks only for what exists, and shows only what is open.
LEMMA PageInvStep ==
  ASSUME TypeOK, PageInv, Next
  PROVE  PageInv'
<1> DEFINE Known == /\ open # None => state[open] # "none"
                    /\ submit.phase = "accepted" => state[submit.detail.task] # "none"
                    /\ \A q \in Read : read[q].phase = "sent" => state[read[q].task] # "none"
           Shown == /\ \A q \in Read : read[q].latest => read[q] # IdleRead /\ Asked(read[q]) = open
                    /\ detail # NoDetail => detail.task = open
<1>a. PageInv <=> Known /\ Shown
  BY DEF PageInv
<1>b. PageInv' <=> Known' /\ Shown'
  BY DEF PageInv
<1>c. \A r \in Request : state[r] # "none" => state'[r] # "none"
  BY TasksStay
<1>d. /\ open \in Request \cup {None}
      /\ \A q \in Read : read[q].phase = "sent" => read[q].task \in Request
      /\ submit.phase = "accepted" => submit.detail.task \in Request
  <2>1. \A q \in Read : read[q].phase = "sent" => read[q].task \in Request
    BY ReadType
  <2>2. submit.phase = "accepted" => submit.detail.task \in Request
    BY AcceptedType DEF TaskDetail
  <2> QED
    BY <2>1, <2>2 DEF TypeOK
<1>e. ASSUME UNCHANGED <<open, submit, read, detail>> PROVE PageInv'
  BY <1>a, <1>b, <1>c, <1>d, <1>e DEF Asked
<1>1. CASE SubmitCommit
  <2>1. submit.request \in Request /\ submit.phase = "sent"
    BY <1>1, SentType DEF SubmitCommit
  <2>2. UNCHANGED <<open, read, detail>>
    BY <1>1 DEF SubmitCommit
  <2>3. Shown'
    BY <1>a, <2>2 DEF Asked
  <2>4. submit'.phase = "accepted" => state'[submit'.detail.task] # "none"
    <3>1. CASE Refused
      BY <3>1 DEF Refused, Idle
    <3>2. CASE /\ state' = [state EXCEPT ![submit.request] =
                              IF state[submit.request] = "none" THEN "queued" ELSE @]
               /\ submit' = [phase |-> "accepted", action |-> submit.action, detail |->
                              [task |-> submit.request, state |-> state'[submit.request],
                               warning |-> FALSE]]
      BY <2>1, <3>2 DEF TypeOK
    <3> QED
      BY <1>1, <3>1, <3>2 DEF SubmitCommit
  <2> QED
    BY <1>a, <1>b, <1>c, <1>d, <2>2, <2>3, <2>4
<1>f. ASSUME NEW q \in Read, NEW r \in Request, StartRead(q, r), state[r] # "none",
             open' = r, UNCHANGED state, submit' = submit \/ submit'.phase = "idle",
             detail' # NoDetail => detail'.task = r
      PROVE  PageInv'
  <2>1. \A p \in Read : read'[p].phase = "sent" => state[read'[p].task] # "none"
    BY <1>f, StartReadKnown
  <2>2. Shown'
    BY <1>f, StartReadStep
  <2>3. Known'
    BY <1>a, <1>f, <2>1
  <2> QED
    BY <1>b, <2>2, <2>3
<1>2. CASE SubmitFails
  <2>1. submit'.phase = "idle" /\ UNCHANGED <<open, read, detail, state>>
    BY <1>2 DEF SubmitFails, Refused, Idle, store
  <2> QED
    BY <1>a, <1>b, <2>1 DEF Asked
<1>3. CASE Acknowledge
  <2>1. submit.phase = "accepted" /\ UNCHANGED state /\ submit'.phase = "idle"
    BY <1>3 DEF Acknowledge, store, Idle
  <2>2. /\ \E q \in Read : StartRead(q, submit.detail.task)
        /\ open' = submit.detail.task /\ detail' = submit.detail
    BY <1>3 DEF Acknowledge
  <2> QED
    BY <1>a, <1>d, <1>f, <2>1, <2>2
<1>4. CASE Toggle
  BY <1>4, <1>e DEF Toggle, page
<1>5. ASSUME NEW r \in Request, OpenTask(r) PROVE PageInv'
  <2>1. /\ UNCHANGED <<state, submit>> /\ state[r] # "none" /\ open' = r /\ detail' = NoDetail
        /\ \E q \in Read : StartRead(q, r)
    BY <1>5 DEF OpenTask, store
  <2> QED
    BY <1>5, <1>f, <2>1
<1>6. ASSUME NEW a \in Action, Repair(a) PROVE PageInv'
  <2>1. submit'.phase = "sent" /\ UNCHANGED <<open, read, detail, state>>
    BY <1>6 DEF Repair, store
  <2> QED
    BY <1>a, <1>b, <2>1 DEF Asked
<1>7. ASSUME NEW q \in Read, ReadRow(q) PROVE PageInv'
  <2> DEFINE new == [phase |-> "answered", detail |-> Detail(read[q].task),
                     latest |-> read[q].latest]
  <2>1. /\ read[q].phase = "sent" /\ UNCHANGED <<open, submit, detail, state>>
        /\ read' = [read EXCEPT ![q] = new]
    BY <1>7 DEF ReadRow, store
  <2>2. \A p \in Read : read'[p] = IF p = q THEN new ELSE read[p]
    BY <2>1 DEF TypeOK
  <2>3. new.phase = "answered" /\ new # IdleRead /\ new.latest = read[q].latest
        /\ Asked(new) = read[q].task
    BY DEF IdleRead, Asked, Detail
  <2>4. Asked(read[q]) = read[q].task
    BY <2>1 DEF Asked
  <2> HIDE DEF new
  <2> QED
    BY <1>a, <1>b, <2>1, <2>2, <2>3, <2>4
<1>8. ASSUME NEW q \in Read, Receive(q) PROVE PageInv'
  <2>1. /\ read[q].phase = "answered" /\ UNCHANGED <<open, submit, state>>
        /\ detail' = (IF read[q].latest THEN read[q].detail ELSE detail)
    BY <1>8 DEF Receive, store
  <2>2. \A p \in Read : read'[p] = IF p = q THEN IdleRead ELSE read[p]
    BY <1>8 DEF Receive, TypeOK
  <2>3. IdleRead.phase = "idle" /\ IdleRead.latest = FALSE
    BY DEF IdleRead
  <2>4. Asked(read[q]) = read[q].detail.task
    BY <2>1 DEF Asked
  <2> QED
    BY <1>a, <1>b, <2>1, <2>2, <2>3, <2>4
<1>9. ASSUME NEW q \in Read, ReadFails(q) PROVE PageInv'
  <2>1. \A p \in Read : read'[p] = IF p = q THEN IdleRead ELSE read[p]
    BY <1>9 DEF ReadFails, TypeOK
  <2>2. UNCHANGED <<open, submit, detail, state>>
    BY <1>9 DEF ReadFails, store
  <2>3. IdleRead.phase = "idle" /\ IdleRead.latest = FALSE
    BY DEF IdleRead
  <2> QED
    BY <1>a, <1>b, <2>1, <2>2, <2>3
<1>10. CASE CloseTask
  <2>1. /\ open' = None /\ detail' = NoDetail /\ read' = Superseded
        /\ UNCHANGED <<submit, state>>
    BY <1>10 DEF CloseTask, store
  <2>2. \A q \in Read : read'[q].latest = FALSE
    BY <2>1, ReadType
  <2>3. \A q \in Read : read'[q].phase = "sent" => state[read'[q].task] # "none"
    BY <1>a, <2>1, SupersededStep
  <2> QED
    BY <1>a, <1>b, <2>1, <2>2, <2>3
<1>11. CASE Tick \/ RetryRead
  <2>1. /\ open # None /\ UNCHANGED <<open, submit, detail, state>>
        /\ \E q \in Read : StartRead(q, open)
    BY <1>11 DEF Tick, RetryRead, ReadAgain, store
  <2> QED
    BY <1>a, <1>d, <1>f, <2>1
<1>12. ASSUME NEW r \in Request, Execute(r) PROVE PageInv'
  BY <1>12, <1>e DEF Execute, Begin, Act, Save, SaveFailure, page
<1>13. CASE AppExit
  <2>1. /\ open' = None /\ detail' = NoDetail /\ submit'.phase = "idle"
        /\ read' = [q \in Read |-> IdleRead]
    BY <1>13 DEF AppExit, Idle
  <2>2. IdleRead.phase = "idle" /\ IdleRead.latest = FALSE
    BY DEF IdleRead
  <2> QED
    BY <1>b, <2>1, <2>2
<1>14. CASE AppStart
  BY <1>14, <1>e DEF AppStart, page
<1> QED
  BY <1>1, <1>2, <1>3, <1>4, <1>5, <1>6, <1>7, <1>8, <1>9, <1>10, <1>11, <1>12, <1>13, <1>14
     DEF Next

-----------------------------------------------------------------------------
(***************************************************************************)
(* The theorems.                                                           *)
(***************************************************************************)
\* The invariant holds at the start.
LEMMA InitInv == Init => IInv
<1> SUFFICES ASSUME Init PROVE IInv
  OBVIOUS
<1> USE DEF Init
<1>1. StoreType
  BY BoundAssumption DEF StoreType
<1>2. PageType
  BY DEF PageType, Reads, DetailSet
<1>3. StoreInv
  BY NoneIsNoRequest DEF StoreInv, Locked, Unfinished
<1>4. IdleRead.phase = "idle" /\ IdleRead.latest = FALSE /\ Idle.phase = "idle"
  BY DEF IdleRead, Idle
<1>5. PageInv
  BY <1>4 DEF PageInv
<1> QED
  BY <1>1, <1>2, <1>3, <1>5, TypeSplit DEF IInv

\* Every step keeps it.
LEMMA StepInv == IInv /\ [Next]_vars => IInv'
<1> SUFFICES ASSUME IInv, [Next]_vars PROVE IInv'
  OBVIOUS
<1> USE DEF IInv
<1>1. CASE Next
  <2>1. ASSUME SubmitCommit PROVE StoreType' /\ PageType'
    BY <2>1, PageTypeStep, StoreTypeStep
  <2>2. ASSUME \/ SubmitFails \/ Acknowledge
               \/ \E r \in Request : OpenTask(r)
               \/ \E a \in Action : Repair(a)
               \/ \E q \in Read : ReadRow(q) \/ Receive(q) \/ ReadFails(q)
               \/ CloseTask \/ Tick \/ RetryRead
        PROVE  StoreType' /\ PageType'
    <3>1. UNCHANGED <<up, visible, store, runner>>
      BY <2>2 DEF SubmitFails, Acknowledge, OpenTask, Repair, ReadRow, Receive,
                  ReadFails, CloseTask, Tick, RetryRead, ReadAgain
    <3>2. StoreType'
      BY <3>1, TypeSplit DEF StoreType, store, runner
    <3> QED
      BY <2>2, <3>2, PageTypeStep
  <2>3. ASSUME (\E r \in Request : Execute(r)) \/ AppStart PROVE StoreType' /\ PageType'
    <3>1. UNCHANGED page
      BY <2>3 DEF Execute, Begin, Act, Save, SaveFailure, AppStart
    <3>2. PageType'
      BY <3>1, TypeSplit DEF PageType, page
    <3> QED
      BY <2>3, <3>2, StoreTypeStep
  <2>4. ASSUME AppExit PROVE StoreType' /\ PageType'
    <3>1. PageType'
      BY <2>4 DEF AppExit, PageType, Reads, DetailSet
    <3> QED
      BY <2>4, <3>1, StoreTypeStep
  <2>7. ASSUME Toggle PROVE StoreType' /\ PageType'
    BY <2>7, TypeSplit DEF Toggle, StoreType, PageType, store, runner, page
  <2>5. StoreType' /\ PageType'
    BY <1>1, <2>1, <2>2, <2>3, <2>4, <2>7 DEF Next
  <2>6. TypeOK'
    BY <2>5, TypeSplit DEF TypeOK, StoreType, PageType, Reads
  <2> QED
    BY <1>1, <2>6, StoreInvStep, PageInvStep
<1>2. CASE UNCHANGED vars
  BY <1>2 DEF vars, store, runner, page, TypeOK, StoreInv, PageInv, Asked
<1> QED
  BY <1>1, <1>2

\* The inductive invariant: a run for every unfinished task or a warning, and
\* every latest read of the open task.
THEOREM RepairInvariant == Spec => []IInv
BY InitInv, StepInv, PTL DEF Spec

\* The state is of its type.
THEOREM TypeCorrect == Spec => []TypeOK
<1>1. IInv => TypeOK
  BY DEF IInv
<1> QED
  BY <1>1, RepairInvariant, PTL

\* A task that is not finished is going to be, or its warning is kept: no
\* failing transaction and no restart leaves a row that says "running" for
\* ever and silently (Store::run, finish, recover).
THEOREM NoneForgotten == Spec => []UnsavedIsShown
<1>1. IInv => UnsavedIsShown
  BY DEF IInv, StoreInv, UnsavedIsShown, TypeOK
<1> QED
  BY <1>1, RepairInvariant, PTL

\* Two maintenance actions never run at the same time (the runner mutex).
THEOREM MutualExclusion == Spec => []OneAtATime
<1>1. IInv => OneAtATime
  BY DEF IInv, StoreInv, OneAtATime
<1> QED
  BY <1>1, RepairInvariant, PTL

\* The page never shows the detail of another task than the open one (the
\* sequence number of useTailTask).
THEOREM DetailOfOpenTask == Spec => []DetailIsOfOpenTask
<1>1. IInv => DetailIsOfOpenTask
  BY DEF IInv, PageInv, DetailIsOfOpenTask
<1> QED
  BY <1>1, RepairInvariant, PTL

\* A step that writes a state other than by AppStart writes it to a task that
\* is new or not finished.
LEMMA StateStep ==
  ASSUME IInv, [Next]_vars, NEW r \in Request
  PROVE  /\ state[r] \in Final => state'[r] = state[r]
         /\ state'[r] = "succeeded" =>
              state[r] = "succeeded" \/ (outcome[r] = "ok" /\ r \notin warned)
<1> USE TypeSplit DEF IInv, StoreType
<1>1. CASE SubmitCommit
  BY <1>1, SentType DEF SubmitCommit, Final
<1>2. ASSUME NEW e \in Request, Begin(e)
      PROVE  /\ state[r] \in Final => state'[r] = state[r]
             /\ state'[r] = "succeeded" => state[r] = "succeeded"
  BY <1>2 DEF Begin, To, Over, Final
<1>3. ASSUME NEW e \in Request, Save(e)
      PROVE  /\ state[r] \in Final => state'[r] = state[r]
             /\ state'[r] = "succeeded" =>
                  state[r] = "succeeded" \/ (outcome[r] = "ok" /\ r \notin warned)
  <2>1. e \notin warned
    BY <1>3 DEF Save, StoreInv
  <2> QED
    BY <1>3, <2>1 DEF Save, Finish, To, Over, Final, Unfinished
<1>4. ASSUME NEW e \in Request, SaveFailure(e)
      PROVE  /\ state[r] \in Final => state'[r] = state[r]
             /\ state'[r] = "succeeded" => state[r] = "succeeded"
  BY <1>4 DEF SaveFailure, Finish, Over, Final, Unfinished
<1>5. CASE AppStart
  BY <1>5 DEF AppStart, Final, Unfinished
<1>6. ASSUME NEW e \in Request, Act(e) PROVE UNCHANGED state
  BY <1>6 DEF Act, store
<1>7. CASE SubmitFails \/ Acknowledge \/ CloseTask \/ Tick \/ RetryRead \/ Toggle \/ AppExit
           \/ UNCHANGED vars
  BY <1>7 DEF SubmitFails, Acknowledge, CloseTask, Tick, RetryRead, ReadAgain, Toggle, AppExit, store, vars
<1>8. ASSUME NEW e \in Request, OpenTask(e) PROVE UNCHANGED state
  BY <1>8 DEF OpenTask, store
<1>9. ASSUME NEW a \in Action, Repair(a) PROVE UNCHANGED state
  BY <1>9 DEF Repair, store
<1>10. ASSUME NEW q \in Read, ReadRow(q) \/ Receive(q) \/ ReadFails(q) PROVE UNCHANGED state
  BY <1>10 DEF ReadRow, Receive, ReadFails, store
<1> QED
  BY <1>1, <1>2, <1>3, <1>4, <1>5, <1>6, <1>7, <1>8, <1>9, <1>10 DEF Next, Execute

\* A finished task stays as it is, over late saves, resubmissions and restarts.
THEOREM FinalIsKept == Spec => FinalStays
<1>1. IInv /\ [Next]_vars =>
        [\A r \in Request : state[r] \in Final => state'[r] = state[r]]_vars
  BY StateStep
<1> QED
  BY <1>1, RepairInvariant, PTL DEF Spec, FinalStays

\* Success is recorded of an action that went well and was not reported as lost.
THEOREM SuccessIsReal == Spec => SuccessIsEarned
<1>1. IInv /\ [Next]_vars =>
        [\A r \in Request : state'[r] = "succeeded" =>
           state[r] = "succeeded" \/ (outcome[r] = "ok" /\ r \notin warned)]_vars
  BY StateStep
<1> QED
  BY <1>1, RepairInvariant, PTL DEF Spec, SuccessIsEarned

-----------------------------------------------------------------------------
(***************************************************************************)
(* How old the shown detail is.                                            *)
(***************************************************************************)
\* What is shown is not newer than the row or than the answer of the latest
\* read, of which there is one; an answer is not newer than the row.
ShownAge == Rank(detail) <= Rank(Detail(open))
AcceptedAge ==
  submit.phase = "accepted" => Rank(submit.detail) <= Rank(Detail(submit.detail.task))
OneLatest == \A p, q \in Read : read[p].latest /\ read[q].latest => p = q
AnswerAge(q) ==
  read[q].phase = "answered" /\ read[q].latest =>
    Rank(detail) <= Rank(read[q].detail) /\ Rank(read[q].detail) <= Rank(Detail(open))

AgeInv == ShownAge /\ AcceptedAge /\ OneLatest /\ \A q \in Read : AnswerAge(q)

NotOlder == Acknowledge \/ (detail.task = detail'.task => Rank(detail) <= Rank(detail'))

\* A rank is a number, and nothing is below the detail that is not there.
LEMMA RankType == Rank(NoDetail) = 0 /\ \A d : Rank(d) \in 0..3
BY DEF Rank, NoDetail, Final

\* A row only gets newer while the application runs, and by recover.
LEMMA RowGrows ==
  ASSUME IInv, Next, ~ AppExit, NEW r \in Request
  PROVE  Rank(Detail(r)) <= Rank(Detail(r))'
<1> USE TypeSplit DEF IInv, StoreType
<1> DEFINE Newer ==
             /\ state[r] \in Final => state'[r] \in Final
             /\ r \in warned => state'[r] \in Final \/ r \in warned'
             /\ state[r] = "running" =>
                  state'[r] \in Final \/ r \in warned' \/ state'[r] = "running"
<1>1. Newer
  <2>1. CASE SubmitCommit
    <3>1. submit.request \in Request
      BY <2>1, SentType DEF SubmitCommit
    <3>2. /\ warned' = warned
          /\ \/ state' = state
             \/ state' = [state EXCEPT ![submit.request] =
                             IF state[submit.request] = "none" THEN "queued" ELSE @]
      BY <2>1 DEF SubmitCommit
    <3> QED
      BY <3>1, <3>2 DEF Final
  <2>2. ASSUME NEW e \in Request, Begin(e)
        PROVE  warned' = warned /\ (state' = state \/ state' = [state EXCEPT ![e] = "running"])
               /\ state[e] = "queued"
    BY <2>2 DEF Begin, StoreInv
  <2>3. ASSUME NEW e \in Request, Save(e)
        PROVE  warned' = warned /\ (state' = state \/ \E s \in Final : Finish(e, s))
    BY <2>3 DEF Save, Final
  <2>4. ASSUME NEW e \in Request, SaveFailure(e)
        PROVE  warned \subseteq warned' /\ (state' = state \/ \E s \in Final : Finish(e, s))
    BY <2>4 DEF SaveFailure, Final
  <2>5. CASE AppStart
    BY <2>5 DEF AppStart, runner, Unfinished, Final
  <2>6. ASSUME NEW e \in Request, Act(e) \/ OpenTask(e) PROVE UNCHANGED <<state, warned>>
    BY <2>6 DEF Act, OpenTask, store, runner
  <2>7. ASSUME NEW q \in Read, ReadRow(q) \/ Receive(q) \/ ReadFails(q)
        PROVE  UNCHANGED <<state, warned>>
    BY <2>7 DEF ReadRow, Receive, ReadFails, store, runner
  <2>8. ASSUME NEW a \in Action, Repair(a) PROVE UNCHANGED <<state, warned>>
    BY <2>8 DEF Repair, store, runner
  <2>9. CASE SubmitFails \/ Acknowledge \/ CloseTask \/ Tick \/ RetryRead \/ Toggle \/ RetryRead
    BY <2>9 DEF SubmitFails, Acknowledge, CloseTask, Tick, RetryRead, ReadAgain, Toggle, store, runner
  <2>10. CASE UNCHANGED <<state, warned>>
    BY <2>10
  <2>11. ASSUME NEW e \in Request, NEW s \in Final, Finish(e, s)
         PROVE  /\ state[r] \in Final => state'[r] \in Final
                /\ state'[r] \in Final \/ state'[r] = state[r]
    BY <2>11 DEF Finish
  <2>12. ASSUME NEW e \in Request, Begin(e) PROVE Newer
    BY <2>2, <2>12 DEF Final
  <2> QED
    BY <2>1, <2>3, <2>4, <2>5, <2>6, <2>7, <2>8, <2>9, <2>10, <2>11, <2>12 DEF Next, Execute
<1>2. Rank(Detail(r)) = IF state[r] \in Final THEN 3 ELSE IF r \in warned THEN 2
                        ELSE IF state[r] = "running" THEN 1 ELSE 0
  BY DEF Rank, Detail
<1>3. Rank(Detail(r))' = IF state'[r] \in Final THEN 3 ELSE IF r \in warned' THEN 2
                         ELSE IF state'[r] = "running" THEN 1 ELSE 0
  BY DEF Rank, Detail
<1> QED
  BY <1>1, <1>2, <1>3 DEF Final

\* The page never gets ahead of the row, and its answer never behind itself.
LEMMA AgeStep ==
  ASSUME IInv, AgeInv, Next
  PROVE  AgeInv' /\ NotOlder
<1> USE TypeSplit, RankType DEF IInv
<1>a. detail = NoDetail \/ (detail.task \in Request /\ open \in Request)
  BY DEF PageType, DetailSet, TaskDetail, PageInv
<1>b. NoDetail.task = None /\ NoDetail.task \notin Request
  BY NoneIsNoRequest DEF NoDetail
<1>c. ASSUME detail' = NoDetail PROVE ShownAge' /\ NotOlder
  BY <1>c, <1>a, <1>b DEF ShownAge, NotOlder
<1>d. ASSUME ~ AppExit, open' = open, detail' = detail PROVE ShownAge' /\ NotOlder
  <2>1. CASE open \in Request
    <3>1. PICK r \in Request : r = open
      BY <2>1
    <3>2. Rank(detail) <= Rank(Detail(r)) /\ Rank(Detail(r)) <= Rank(Detail(r))'
      BY <1>d, <3>1, RowGrows DEF AgeInv, ShownAge
    <3>3. Detail(open)' = Detail(r)'
      BY <1>d, <3>1 DEF Detail
    <3> QED
      BY <1>d, <3>2, <3>3 DEF ShownAge, NotOlder
  <2>2. CASE detail = NoDetail
    BY <1>d, <2>2, <1>c
  <2> QED
    BY <1>a, <2>1, <2>2
<1>e. ASSUME ~ AppExit, submit' = submit PROVE AcceptedAge'
  <2>1. CASE submit.phase = "accepted"
    <3>1. PICK r \in Request : r = submit.detail.task
      BY <2>1, AcceptedType DEF TaskDetail
    <3>2. Rank(submit.detail) <= Rank(Detail(r)) /\ Rank(Detail(r)) <= Rank(Detail(r))'
      BY <1>e, <2>1, <3>1, RowGrows DEF AgeInv, AcceptedAge
    <3>3. Detail(submit.detail.task)' = Detail(r)'
      BY <1>e, <3>1 DEF Detail
    <3> QED
      BY <1>e, <3>2, <3>3 DEF AcceptedAge
  <2> QED
    BY <1>e, <2>1 DEF AcceptedAge
<1>f. ASSUME ~ AppExit, open' = open, detail' = detail, NEW q \in Read, read'[q] = read[q]
      PROVE  AnswerAge(q)'
  <2>1. CASE read[q].phase = "answered" /\ read[q].latest
    <3>1. read[q].detail.task = open /\ open \in Request
      BY <2>1, ReadType DEF PageInv, Asked, TaskDetail
    <3>2. PICK r \in Request : r = open
      BY <3>1
    <3>3. /\ Rank(detail) <= Rank(read[q].detail) /\ Rank(read[q].detail) <= Rank(Detail(r))
          /\ Rank(Detail(r)) <= Rank(Detail(r))'
      BY <1>f, <2>1, <3>2, RowGrows DEF AgeInv, AnswerAge
    <3>4. Detail(open)' = Detail(r)'
      BY <1>f, <3>2 DEF Detail
    <3> QED
      BY <1>f, <3>3, <3>4 DEF AnswerAge
  <2> QED
    BY <1>f, <2>1 DEF AnswerAge
<1>g. OneLatest
  BY DEF AgeInv
<1>h. ASSUME NEW r \in Request, \E q \in Read : StartRead(q, r)
      PROVE  OneLatest' /\ \A q \in Read : AnswerAge(q)'
  <2>1. PICK q \in Read : StartRead(q, r)
    BY <1>h
  <2>2. \A p \in Read : read'[p].latest => p = q
    BY <2>1, StartReadStep
  <2>3. Superseded = [p \in Read |-> Superseded[p]]
    BY DEF Superseded
  <2>4. read'[q].phase = "sent"
    BY <2>1, <2>3 DEF StartRead
  <2> QED
    BY <2>2, <2>4 DEF OneLatest, AnswerAge
<1>j. IdleRead.latest = FALSE
  BY DEF IdleRead
<1>1. CASE SubmitCommit
  <2>1. submit.action \in Action /\ submit.request \in Request
    BY <1>1, SentType DEF SubmitCommit
  <2>2. AcceptedAge'
    <3>1. CASE Refused
      BY <3>1 DEF AcceptedAge, Refused, Idle
    <3>2. CASE submit' = [phase |-> "accepted", action |-> submit.action, detail |->
                            [task |-> submit.request, state |-> state'[submit.request],
                             warning |-> FALSE]]
      <4>1. /\ submit'.detail.state = state'[submit.request] /\ submit'.detail.warning = FALSE
            /\ submit'.detail.task = submit.request
        BY <3>2
      <4> DEFINE d == submit'.detail  e == Detail(submit.detail.task)'
      <4>2. e.state = d.state
        BY <4>1 DEF Detail
      <4> HIDE DEF d, e
      <4>3. d.warning = FALSE
        BY <4>1 DEF d
      <4>4. Rank(d) <= Rank(e)
        BY <4>2, <4>3 DEF Rank, Final
      <4> QED
        BY <4>4 DEF AcceptedAge, d, e
    <3> QED
      BY <1>1, <3>1, <3>2 DEF SubmitCommit
  <2>3. ~ AppExit
    BY <1>1, <2>1 DEF SubmitCommit, AppExit
  <2>4. UNCHANGED <<open, detail, read>>
    BY <1>1 DEF SubmitCommit
  <2> QED
    BY <1>d, <1>f, <1>g, <2>2, <2>3, <2>4 DEF AgeInv, OneLatest
<1>2. CASE SubmitFails
  <2>1. ~ AppExit /\ submit'.phase # "accepted" /\ UNCHANGED <<open, detail, read>>
    BY <1>2 DEF SubmitFails, Refused, AppExit, Idle
  <2> QED
    BY <1>d, <1>f, <1>g, <2>1 DEF AgeInv, OneLatest, AcceptedAge
<1>3. CASE Acknowledge
  <2>1. submit.detail.task \in Request
    BY <1>3, AcceptedType DEF Acknowledge, TaskDetail
  <2>2. ~ AppExit /\ submit'.phase # "accepted" /\ NotOlder
    BY <1>3 DEF Acknowledge, Idle, AppExit, NotOlder
  <2>3. open' = submit.detail.task /\ detail' = submit.detail
    BY <1>3 DEF Acknowledge
  <2>4. ShownAge'
    <3>1. PICK r \in Request : r = submit.detail.task
      BY <2>1
    <3>2. Rank(submit.detail) <= Rank(Detail(r)) /\ Rank(Detail(r)) <= Rank(Detail(r))'
      BY <1>3, <2>2, <3>1, RowGrows DEF AgeInv, AcceptedAge, Acknowledge
    <3>3. Detail(open)' = Detail(r)'
      BY <2>3, <3>1 DEF Detail
    <3> QED
      BY <2>3, <3>2, <3>3 DEF ShownAge
  <2>5. OneLatest' /\ \A q \in Read : AnswerAge(q)'
    BY <1>3, <1>h, <2>1 DEF Acknowledge
  <2> QED
    BY <2>2, <2>4, <2>5 DEF AgeInv, AcceptedAge
<1>4. ASSUME NEW r \in Request, OpenTask(r) PROVE AgeInv' /\ NotOlder
  <2>1. ~ AppExit /\ submit' = submit /\ detail' = NoDetail
    BY <1>4 DEF OpenTask, AppExit
  <2>2. OneLatest' /\ \A q \in Read : AnswerAge(q)'
    BY <1>4, <1>h DEF OpenTask
  <2> QED
    BY <1>c, <1>e, <2>1, <2>2 DEF AgeInv
<1>5. ASSUME NEW a \in Action, Repair(a) PROVE AgeInv' /\ NotOlder
  <2>1. ~ AppExit /\ submit'.phase # "accepted" /\ UNCHANGED <<open, detail, read>>
    BY <1>5 DEF Repair, AppExit
  <2> QED
    BY <1>d, <1>f, <1>g, <2>1 DEF AgeInv, OneLatest, AcceptedAge
<1>6. ASSUME NEW q \in Read, ReadRow(q) PROVE AgeInv' /\ NotOlder
  <2>1. ~ AppExit /\ UNCHANGED <<open, detail, submit, state, warned>>
    BY <1>6 DEF ReadRow, AppExit, store, runner
  <2>2. /\ read[q].phase = "sent"
        /\ read' = [read EXCEPT ![q] = [phase |-> "answered", detail |-> Detail(read[q].task),
                                        latest |-> read[q].latest]]
    BY <1>6 DEF ReadRow
  <2>3. \A p \in Read \ {q} : read'[p] = read[p]
    BY <2>2 DEF PageType
  <2>4. read'[q].latest = read[q].latest /\ read'[q].detail = Detail(read[q].task)
    BY <2>2 DEF PageType
  <2>5. OneLatest'
    BY <1>g, <2>3, <2>4 DEF OneLatest
  <2>6. read[q].latest => read[q].task = open
    BY <2>2 DEF PageInv, Asked
  <2>7. Detail(open)' = Detail(open)
    BY <2>1 DEF Detail
  <2>8. AnswerAge(q)'
    <3>1. CASE read[q].latest
      <4>1. read'[q].detail = Detail(open) /\ Rank(detail) <= Rank(Detail(open))
        BY <2>4, <2>6, <3>1 DEF AgeInv, ShownAge
      <4> QED
        BY <2>1, <2>7, <4>1 DEF AnswerAge
    <3> QED
      BY <2>4, <3>1 DEF AnswerAge
  <2>9. \A p \in Read : AnswerAge(p)'
    BY <1>f, <2>1, <2>3, <2>8
  <2> QED
    BY <1>d, <1>e, <2>1, <2>5, <2>9 DEF AgeInv
<1>7. ASSUME NEW q \in Read, Receive(q) PROVE AgeInv' /\ NotOlder
  <2>1. ~ AppExit /\ UNCHANGED <<open, submit, state, warned>>
    BY <1>7 DEF Receive, AppExit, store, runner
  <2>2. /\ read[q].phase = "answered" /\ read' = [read EXCEPT ![q] = IdleRead]
        /\ detail' = IF read[q].latest THEN read[q].detail ELSE detail
    BY <1>7 DEF Receive
  <2>3. read'[q] = IdleRead /\ \A p \in Read \ {q} : read'[p] = read[p]
    BY <2>2 DEF PageType
  <2>4. OneLatest'
    BY <1>g, <1>j, <2>3 DEF OneLatest
  <2>5. CASE read[q].latest
    <3>1. detail' = read[q].detail
      BY <2>2, <2>5
    <3>2. Rank(detail) <= Rank(detail') /\ Rank(detail') <= Rank(Detail(open))
      BY <2>2, <2>5, <3>1 DEF AgeInv, AnswerAge
    <3>3. Detail(open)' = Detail(open)
      BY <2>1 DEF Detail
    <3>4. \A p \in Read : ~ read'[p].latest
      BY <1>g, <1>j, <2>3, <2>5 DEF OneLatest
    <3>5. \A p \in Read : AnswerAge(p)'
      BY <3>4 DEF AnswerAge
    <3>6. ShownAge' /\ NotOlder
      BY <3>2, <3>3 DEF NotOlder, ShownAge
    <3> QED
      BY <1>e, <2>1, <2>4, <3>5, <3>6 DEF AgeInv
  <2>6. CASE ~ read[q].latest
    <3>1. detail' = detail
      BY <2>2, <2>6
    <3>2. AnswerAge(q)'
      BY <1>j, <2>3 DEF AnswerAge
    <3>3. \A p \in Read : AnswerAge(p)'
      BY <1>f, <2>1, <2>3, <3>1, <3>2
    <3> QED
      BY <1>d, <1>e, <2>1, <2>4, <3>1, <3>3 DEF AgeInv
  <2> QED
    BY <2>5, <2>6
<1>8. ASSUME NEW q \in Read, ReadFails(q) PROVE AgeInv' /\ NotOlder
  <2>1. ~ AppExit /\ UNCHANGED <<open, submit, detail>> /\ read' = [read EXCEPT ![q] = IdleRead]
    BY <1>8 DEF ReadFails, AppExit
  <2>2. read'[q] = IdleRead /\ \A p \in Read \ {q} : read'[p] = read[p]
    BY <2>1 DEF PageType
  <2>3. OneLatest' /\ AnswerAge(q)'
    BY <1>g, <1>j, <2>2 DEF OneLatest, AnswerAge
  <2>4. \A p \in Read : AnswerAge(p)'
    BY <1>f, <2>1, <2>2, <2>3
  <2> QED
    BY <1>d, <1>e, <2>1, <2>3, <2>4 DEF AgeInv
<1>9. CASE CloseTask
  <2>1. ~ AppExit /\ submit' = submit /\ detail' = NoDetail /\ read' = Superseded
    BY <1>9 DEF CloseTask, AppExit
  <2>2. \A q \in Read : ~ read'[q].latest
    BY <2>1, ReadType
  <2>3. OneLatest' /\ \A q \in Read : AnswerAge(q)'
    BY <2>2 DEF OneLatest, AnswerAge
  <2> QED
    BY <1>c, <1>e, <2>1, <2>3 DEF AgeInv
<1>10. CASE Tick \/ RetryRead
  <2>1. ~ AppExit /\ UNCHANGED <<open, submit, detail>> /\ open \in Request
    BY <1>10 DEF Tick, RetryRead, ReadAgain, AppExit, PageType
  <2>2. OneLatest' /\ \A q \in Read : AnswerAge(q)'
    BY <1>10, <1>h, <2>1 DEF Tick, RetryRead, ReadAgain
  <2> QED
    BY <1>d, <1>e, <2>1, <2>2 DEF AgeInv
<1>11. ASSUME (\E r \in Request : Execute(r)) \/ AppStart PROVE AgeInv' /\ NotOlder
  <2>1. ~ AppExit
    BY <1>11 DEF Execute, Begin, Act, Save, SaveFailure, AppStart, AppExit, StoreInv, Locked
  <2>2. UNCHANGED <<open, submit, detail, read>>
    BY <1>11 DEF Execute, Begin, Act, Save, SaveFailure, AppStart, page
  <2> QED
    BY <1>d, <1>e, <1>f, <1>g, <2>1, <2>2 DEF AgeInv, OneLatest
<1>12. CASE AppExit
  <2>1. detail' = NoDetail /\ submit'.phase # "accepted" /\ \A q \in Read : read'[q] = IdleRead
    BY <1>12 DEF AppExit, Idle
  <2>2. OneLatest' /\ \A q \in Read : AnswerAge(q)'
    BY <1>j, <2>1 DEF OneLatest, AnswerAge
  <2> QED
    BY <1>c, <2>1, <2>2 DEF AgeInv, AcceptedAge
<1>13. CASE Toggle
  <2>1. ~ AppExit /\ UNCHANGED <<open, submit, detail, read>>
    BY <1>13 DEF Toggle, AppExit, page
  <2> QED
    BY <1>d, <1>e, <1>f, <1>g, <2>1 DEF AgeInv, OneLatest
<1> QED
  BY <1>1, <1>2, <1>3, <1>4, <1>5, <1>6, <1>7, <1>8, <1>9, <1>10, <1>11, <1>12, <1>13 DEF Next

\* What is shown of a task never goes back to an older state, whatever the
\* order of the answers (the sequence number of useTailTask).
THEOREM ShownIsNewer == Spec => ShownNeverOlder
<1>1. Init => AgeInv
  <2> SUFFICES ASSUME Init PROVE AgeInv
    OBVIOUS
  <2>1. submit.phase = "idle" /\ \A q \in Read : read[q].latest = FALSE
    BY DEF Init, Idle, IdleRead
  <2>2. ShownAge
    BY RankType DEF Init, ShownAge
  <2> QED
    BY <2>1, <2>2 DEF AgeInv, AcceptedAge, OneLatest, AnswerAge
<1>2. IInv /\ AgeInv /\ [Next]_vars => AgeInv' /\ [NotOlder]_vars
  <2>1. ASSUME UNCHANGED vars, AgeInv PROVE AgeInv'
    BY <2>1 DEF vars, store, runner, page, AgeInv, ShownAge, AcceptedAge, OneLatest,
                   AnswerAge, Detail
  <2> QED
    BY <2>1, AgeStep
<1> QED
  BY <1>1, <1>2, RepairInvariant, PTL DEF Spec, ShownNeverOlder, NotOlder
=============================================================================
