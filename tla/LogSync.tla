------------------------------ MODULE LogSync ------------------------------
(***************************************************************************)
(* Following the logs of remote tasks from the desktop: the agent's paged  *)
(* event log, the command remote_detail, which copies a page of events     *)
(* into controller.db (cache_events) and answers from there, and the task  *)
(* page, RemoteTaskModal, which asks again every two seconds from the last *)
(* event it has.                                                           *)
(*                                                                         *)
(* A call goes on when the page that made it is gone.  An event is known   *)
(* by its sequence number; its size is that of its JSON on the wire, where *)
(* quotes, tabs and backslashes take two bytes.                            *)
(***************************************************************************)
EXTENDS Naturals, FiniteSetsExt, Sequences

CONSTANTS
  Task,           \* accepted tasks
  NoTask,         \* no task
  Late,           \* tasks whose submission returns while a page may be open
  Call,           \* remote_detail calls in flight at one time
  NoCall,         \* no call
  Page,           \* LIMIT of both event queries
  Window,         \* rows a page keeps
  WireSize,       \* sizes of an event on the wire
  ResponseLimit,  \* what RemoteClient::json reads at most
  MaxLog          \* bound: events of a task

ASSUME PageAssumption == Page \in Nat \ {0} /\ MaxLog \in Nat
ASSUME NoTaskAssumption == NoTask \notin Task /\ NoCall \notin Call
ASSUME WindowAssumption == Window \in Nat \ {0} /\ Late \subseteq Task

VARIABLES
  log,     \* agent.db: sizes of the task's events, by sequence number
  cached,  \* controller.db: sequence numbers in remote_observations
  call,    \* remote_detail calls
  page,    \* the open task page: its task, cursor, and the call it waits for
  rows     \* the events it shows

vars == <<log, cached, call, page, rows>>

Seqs == 1..MaxLog
Idle == [pc |-> "idle", task |-> NoTask, after |-> 0, got |-> {}]
Closed == [task |-> NoTask, after |-> 0, loading |-> NoCall]
Row == [seq : Seqs, task : Task]

\* The type of the state.
TypeOK ==
  /\ log \in [Task -> Seq(WireSize)] /\ \A t \in Task : Len(log[t]) <= MaxLog
  /\ cached \in [Task -> SUBSET Seqs]
  /\ call \in [Call -> {Idle} \cup [pc : {"asked", "fetched", "synced"}, task : Task,
                                    after : 0..MaxLog, got : SUBSET Seqs]]
  /\ page \in {Closed} \cup [task : Task, after : 0..MaxLog, loading : Call \cup {NoCall}]
  /\ rows \subseteq Row

Init ==
  /\ log = [t \in Task |-> <<>>]
  /\ cached = [t \in Task |-> {}]
  /\ call = [k \in Call |-> Idle]
  /\ page = Closed
  /\ rows = {}

\* event_tx: a transaction of the agent adds the next event.
LogEvent(t, size) ==
  /\ Len(log[t]) < MaxLog
  /\ log' = [log EXCEPT ![t] = Append(@, size)]
  /\ UNCHANGED <<cached, call, page, rows>>

\* ORDER BY seq LIMIT Page, of the sequence numbers in S after a cursor.
FirstPage(S, after) ==
  {n \in S : n > after /\ Cardinality({m \in S : m > after /\ m < n}) < Page}

-----------------------------------------------------------------------------
(***************************************************************************)
(* The page.                                                               *)
(***************************************************************************)
Open(t) ==
  /\ page = Closed
  /\ page' = [task |-> t, after |-> 0, loading |-> NoCall]
  /\ rows' = {}
  /\ UNCHANGED <<log, cached, call>>

Close ==
  /\ page # Closed
  /\ page' = Closed
  /\ rows' = {}
  /\ UNCHANGED <<log, cached, call>>

\* The form's submission returns and shows its task.  A page that is open is
\* not mounted anew: it keeps its rows, its cursor and its call.
SubmitReturns(t) ==
  /\ page # Closed
  /\ page' = [page EXCEPT !.task = t]
  /\ UNCHANGED <<log, cached, call, rows>>

\* A bug: the cursor is taken for the next event.
RefreshSkipping(k) ==
  /\ page # Closed
  /\ page.loading = NoCall
  /\ call[k] = Idle
  /\ call' = [call EXCEPT ![k] = [pc |-> "asked", task |-> page.task,
                                  after |-> page.after + 1, got |-> {}]]
  /\ page' = [page EXCEPT !.loading = k]
  /\ UNCHANGED <<log, cached, rows>>

\* At once, then on every tick of the interval, unless it is loading.
Refresh(k) ==
  /\ page # Closed
  /\ page.loading = NoCall
  /\ call[k] = Idle
  /\ call' = [call EXCEPT ![k] = [pc |-> "asked", task |-> page.task,
                                  after |-> page.after, got |-> {}]]
  /\ page' = [page EXCEPT !.loading = k]
  /\ UNCHANGED <<log, cached, rows>>

\* The newest rows; one row for a sequence number, the last one loaded.
Newest(S) == {x \in S : Cardinality({y \in S : y.seq > x.seq}) < Window}

\* A bug: an answer replaces the rows.
ShownReplaced(new) == Newest(new)

Shown(new) == Newest(new \cup {x \in rows : \A y \in new : y.seq # x.seq})

-----------------------------------------------------------------------------
(***************************************************************************)
(* remote_detail.                                                          *)
(***************************************************************************)
Bytes(t, S) == MapThenSumSet(LAMBDA n : log[t][n], S)

\* The task, then its events after the cursor, unless the answer is too long.
Fetch(k) ==
  /\ call[k].pc = "asked"
  /\ LET t == call[k].task
         batch == FirstPage(DOMAIN log[t], call[k].after) IN
       /\ Bytes(t, batch) <= ResponseLimit
       /\ call' = [call EXCEPT ![k].pc = "fetched", ![k].got = batch]
  /\ UNCHANGED <<log, cached, page, rows>>

\* cache_events, INSERT OR IGNORE in one transaction.
CacheEvents(k) ==
  /\ call[k].pc = "fetched"
  /\ cached' = [cached EXCEPT ![call[k].task] = @ \cup call[k].got]
  /\ call' = [call EXCEPT ![k].pc = "synced", ![k].got = {}]
  /\ UNCHANGED <<log, page, rows>>

\* No network, an answer that is refused, or a failing transaction: the call
\* notes the error and goes on with what is stored.
SyncFails(k) ==
  /\ call[k].pc \in {"asked", "fetched"}
  /\ call' = [call EXCEPT ![k].pc = "synced", ![k].got = {}]
  /\ UNCHANGED <<log, cached, page, rows>>

\* A bug: the call answers with what it fetched.
ReturnFetched(k) ==
  /\ call[k].pc \in {"fetched", "synced"}
  /\ call' = [call EXCEPT ![k] = Idle]
  /\ IF page.loading = k
     THEN /\ rows' = Shown({[seq |-> n, task |-> call[k].task] : n \in call[k].got})
          /\ page' = [page EXCEPT !.loading = NoCall]
     ELSE UNCHANGED <<page, rows>>
  /\ UNCHANGED <<log, cached>>

\* The stored events after the cursor are the answer, which the page that
\* waits for it merges with its rows.
Return(k) ==
  /\ call[k].pc = "synced"
  /\ call' = [call EXCEPT ![k] = Idle]
  /\ IF page.loading = k
     THEN LET new == FirstPage(cached[call[k].task], call[k].after) IN
       /\ rows' = Shown({[seq |-> n, task |-> call[k].task] : n \in new})
       /\ page' = [page EXCEPT !.loading = NoCall,
                               !.after = IF new = {} THEN @
                                         ELSE Max(new)]
     ELSE UNCHANGED <<page, rows>>
  /\ UNCHANGED <<log, cached>>

\* A bug: the page goes on waiting for a call that failed.
ReturnErrorStuck(k) ==
  /\ call[k] # Idle
  /\ call' = [call EXCEPT ![k] = Idle]
  /\ UNCHANGED <<log, cached, page, rows>>

\* The call itself fails.
ReturnError(k) ==
  /\ call[k] # Idle
  /\ call' = [call EXCEPT ![k] = Idle]
  /\ page' = IF page.loading = k THEN [page EXCEPT !.loading = NoCall] ELSE page
  /\ UNCHANGED <<log, cached, rows>>

\* The desktop process ends.
AppExit ==
  /\ call' = [k \in Call |-> Idle]
  /\ page' = Closed
  /\ rows' = {}
  /\ UNCHANGED <<log, cached>>

-----------------------------------------------------------------------------
Next ==
  \/ \E t \in Task, size \in WireSize : LogEvent(t, size)
  \/ \E t \in Task : Open(t)
  \/ Close
  \/ \E t \in Late : SubmitReturns(t)
  \/ \E k \in Call : \/ Refresh(k) \/ Fetch(k) \/ CacheEvents(k) \/ SyncFails(k)
                     \/ Return(k) \/ ReturnError(k)
  \/ AppExit

Spec == Init /\ [][Next]_vars

(***************************************************************************)
(* Fairness: the interval ticks, and the network, the agent and the        *)
(* database work again and again: a call that is repeated for ever         *)
(* succeeds at last.                                                       *)
(***************************************************************************)
FairSpec ==
  /\ Spec
  /\ WF_vars(\E k \in Call : Refresh(k))
  /\ \A k \in Call : WF_vars(SyncFails(k) \/ Return(k) \/ ReturnError(k))
  /\ \A k \in Call : SF_vars(Fetch(k)) /\ SF_vars(CacheEvents(k)) /\ SF_vars(Return(k))

-----------------------------------------------------------------------------
\* What is stored of a log is its beginning, so it can be shown without a gap
\* when there is no connection: for the tasks whose page is mounted anew.
CacheIsPrefix ==
  \A t \in Task \ Late : \E n \in 0..Len(log[t]) : cached[t] = 1..n

\* The page of a task shows the latest rows up to its cursor, all of them.
Latest(t, cursor) ==
  {[seq |-> n, task |-> t] : n \in {m \in 1..cursor : m + Window > cursor}}
Contiguous(t) == page.task = t => rows = Latest(t, page.after)

\* So it is for a page that was mounted anew for its task, whatever happens
\* to the calls and to other pages.
PageIsContiguous == \A t \in Task \ Late : Contiguous(t)

\* Why: no cursor is ahead of what is stored, a fetched batch begins at its
\* call's cursor, and the call a page waits for was made at the page's own
\* task and cursor - unless a submission has switched the page
\* (remote_detail, RemoteTaskModal).
CallFollows(k) ==
  call[k].pc # "idle" =>
    /\ call[k].task \in Late \/ call[k].after \in {0} \cup cached[call[k].task]
    /\ \E n \in 0..Len(log[call[k].task]) : call[k].got = (call[k].after + 1)..n

PageFollows ==
  page.task \in Task \ Late =>
    /\ page.after \in {0} \cup cached[page.task]
    /\ \A k \in Call : page.loading = k =>
         call[k].pc # "idle" /\ call[k].task = page.task /\ call[k].after = page.after

FollowInv == CacheIsPrefix /\ PageIsContiguous /\ (\A k \in Call : CallFollows(k)) /\ PageFollows

\* What the page shows is stored, and is there again after a restart.
ShownIsStored == \A x \in rows : x.seq \in cached[x.task]

\* The page catches up with the log, however often the connection was lost.
PageCatchesUp ==
  \A t \in Task : \A n \in Seqs :
    page.task = t /\ Len(log[t]) >= n ~> page.task # t \/ page.after >= n
=============================================================================
