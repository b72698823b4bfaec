------------------------ MODULE RemoteSubmitProofs -------------------------
(***************************************************************************)
(* Theorems about RemoteSubmit, for every set of requests, every number of *)
(* pairings and every number of detail and cancel calls in flight.         *)
(***************************************************************************)
EXTENDS RemoteSubmit, FiniteSetTheorems, TLAPS

\* Orphaned and authenticated requests are requests.
LEMMA MessageType ==
  ASSUME TypeOK
  PROVE  /\ Orphaned \subseteq Message
         /\ \A m \in wire : [m EXCEPT !.authenticated = TRUE] \in Message
<1>1. ASSUME NEW m \in Message
      PROVE  /\ [m EXCEPT !.live = FALSE] \in Message
             /\ [m EXCEPT !.authenticated = TRUE] \in Message
  BY DEF Message
<1> QED
  BY <1>1 DEF Orphaned, TypeOK

\* The absent call is at no step of a call.
LEMMA AbsentCall == NoCall.pc = "idle"
  BY DEF NoCall

\* A detail or cancel call in flight is not the absent one.
LEMMA SyncCallType ==
  ASSUME TypeOK, NEW s \in Sync, sync[s] # NoCall
  PROVE  sync[s] \in SyncCall /\ sync[s].r \in Request /\ sync[s].reply \in Seen
<1>1. sync[s] \in SyncCall
  BY DEF TypeOK
<1> QED
  BY <1>1 DEF SyncCall

\* The four columns of a history row keep their type when a task is recorded.
LEMMA RecordTaskType ==
  ASSUME TypeOK, NEW r \in Request, NEW n \in Seen, RecordTask(r, n)
  PROVE  /\ submission' \in [Request -> {"none", "prepared", "submission_unknown", "accepted"}]
         /\ target' \in [Request -> Controller \cup {0}]
         /\ remoteId' \in [Request -> Controller \cup {0}]
         /\ lastTask' \in [Request -> Seen]
BY DEF RecordTask, TypeOK

\* An answer takes its request off the wire and hands a level to its sender.
LEMMA AnswerType ==
  ASSUME TypeOK, NEW m, NEW to \in {"answered", "failed"}, NEW n \in Level,
         Answer(m, to, n)
  PROVE  /\ wire' \subseteq Message
         /\ pc' \in {"idle", "check", "send", "wait", "answered", "failed", "pairing", "paired"}
         /\ reply' \in Level
BY DEF Answer, TypeOK

\* A step of the submit_remote command keeps the types.
LEMMA SubmitType ==
  ASSUME TypeOK, SubmitInv, SubmitStep \/ \E r \in Request : SubmitRemote(r)
  PROVE  TypeOK'
<1> USE DEF history, access, Release, Step, TypeOK
<1>1. ASSUME NEW r \in Request, SubmitRemote(r) PROVE TypeOK'
  BY <1>1 DEF SubmitRemote, LockForSubmit
<1>2. CASE CheckFailed
  BY <1>2 DEF CheckFailed, Level
<1>3. CASE MarkUnknown
  BY <1>3 DEF MarkUnknown
<1>4. CASE Post
  <2>1. subject \in Request /\ target[subject] \in Controller
    BY <1>4 DEF Post, SubmitInv, CommandInv, AcceptedIsReal
  <2>2. [c |-> target[subject], r |-> subject, live |-> TRUE, authenticated |-> FALSE]
          \in Message
    BY <2>1 DEF Message
  <2>3. wire' \subseteq Message
    BY <1>4, <2>2 DEF Post
  <2> QED
    BY <1>4, <2>3 DEF Post
<1>5. CASE GiveUp
  <2>1. wire' \subseteq Message
    BY <1>5, MessageType DEF GiveUp
  <2> QED
    BY <1>5, <2>1 DEF GiveUp, Level
<1>6. CASE SubmitRecord
  <2>1. subject \in Request
    BY <1>6 DEF SubmitRecord, SubmitInv, CommandInv
  <2> QED
    BY <1>6, <2>1, RecordTaskType DEF SubmitRecord, Level, Seen
<1>7. CASE SubmitFailed
  BY <1>7 DEF SubmitFailed, Level
<1> QED
  BY <1>1, <1>2, <1>3, <1>4, <1>5, <1>6, <1>7 DEF SubmitStep

\* A step of the agent keeps the types.
LEMMA AgentType ==
  ASSUME TypeOK,
         \/ \E m \in wire : Authenticate(m) \/ Accept(m) \/ Refuse(m) \/ Lose(m)
         \/ \E c \in Controller, r \in Request : Advance(c, r)
  PROVE  TypeOK'
<1> USE DEF desktop, history, command, access
<1>1. ASSUME NEW m \in wire, Authenticate(m) PROVE TypeOK'
  <2>1. wire' \subseteq Message
    BY <1>1, MessageType DEF Authenticate, TypeOK
  <2> QED
    BY <1>1, <2>1 DEF Authenticate, TypeOK
<1>2. ASSUME NEW m \in wire, Accept(m) PROVE TypeOK'
  <2>1. m.c \in Controller /\ m.r \in Request
    BY DEF TypeOK, Message
  <2>2. level' \in [Controller -> [Request -> Level]] /\ level'[m.c][m.r] \in Level
    BY <1>2, <2>1 DEF Accept, TypeOK, Level
  <2> QED
    BY <1>2, <2>2, AnswerType DEF Accept, Answer, TypeOK
<1>3. ASSUME NEW m \in wire, Refuse(m) PROVE TypeOK'
  <2>1. 0 \in Level
    BY DEF Level
  <2> QED
    BY <1>3, <2>1, AnswerType DEF Refuse, Answer, TypeOK
<1>4. ASSUME NEW m \in wire, Lose(m) PROVE TypeOK'
  BY <1>4 DEF Lose, TypeOK
<1>5. ASSUME NEW c \in Controller, NEW r \in Request, Advance(c, r) PROVE TypeOK'
  BY <1>5 DEF Advance, TypeOK, Level
<1> QED
  BY <1>1, <1>2, <1>3, <1>4, <1>5

\* Pairing and revocation keep the types.
LEMMA PairType ==
  ASSUME TypeOK, SubmitInv,
         PairRemote \/ PairStep \/ \E c \in Controller : Revoke(c)
  PROVE  TypeOK'
<1> USE DEF desktop, history, command, access, Release, Step
<1>1. CASE PairRemote
  BY <1>1 DEF PairRemote, TypeOK
<1>2. CASE PairIssued
  <2>1. issued + 1 \in Controller
    BY <1>2, PairAssumption DEF PairIssued, SubmitInv, CommandInv, TypeOK, Controller
  <2> QED
    BY <1>2, <2>1 DEF PairIssued, TypeOK, Level
<1>3. CASE PairSaved
  BY <1>3 DEF PairSaved, TypeOK, Level
<1>4. CASE PairFailed
  BY <1>4 DEF PairFailed, TypeOK, Level
<1>5. ASSUME NEW c \in Controller, Revoke(c) PROVE TypeOK'
  BY <1>5 DEF Revoke, TypeOK
<1> QED
  BY <1>1, <1>2, <1>3, <1>4, <1>5 DEF PairStep

\* The detail and cancel calls, and the end of the process, keep the types.
LEMMA SyncType ==
  ASSUME TypeOK, SubmitInv,
         \/ \E s \in Sync, op \in {"detail", "cancel"}, r \in Request : SyncAsk(s, op, r)
         \/ \E s \in Sync : SyncAnswer(s) \/ SyncRecord(s) \/ SyncFailed(s)
         \/ AppExit
  PROVE  TypeOK'
<1> USE DEF history, command, access, SetSync
<1>1. ASSUME NEW s \in Sync, NEW op \in {"detail", "cancel"}, NEW r \in Request,
             SyncAsk(s, op, r)
      PROVE  TypeOK'
  <2>1. [pc |-> "asked", op |-> op, r |-> r, reply |-> 0] \in SyncCall
    BY DEF SyncCall, Level, Seen
  <2> QED
    BY <1>1, <2>1 DEF SyncAsk, TypeOK
<1>2. ASSUME NEW s \in Sync, SyncAnswer(s) PROVE TypeOK'
  <2> DEFINE r == sync[s].r
             c == target[r]
  <2>1. sync[s] # NoCall
    BY <1>2, AbsentCall DEF SyncAnswer
  <2>2. r \in Request /\ c \in Controller /\ c \in granted
    BY <1>2, <2>1, SyncCallType DEF SyncAnswer, TypeOK
  <2>3. level' \in [Controller -> [Request -> Level]] /\ level'[c][r] \in Level
    <3>1. level' = [level EXCEPT ![c][r] =
                      IF sync[s].op = "cancel" THEN Cancelled(@) ELSE @]
      BY <1>2 DEF SyncAnswer
    <3> HIDE DEF r, c
    <3> QED
      BY <2>2, <3>1 DEF Cancelled, TypeOK, Level
  <2>4. PICK n \in Answers(sync[s].op, level'[c][r]) :
               SetSync(s, [sync[s] EXCEPT !.pc = "answered", !.reply = n])
    BY <1>2 DEF SyncAnswer
  <2>6. [sync[s] EXCEPT !.pc = "answered", !.reply = n] \in SyncCall
    BY <2>1, <2>3, SyncCallType DEF SyncCall, Answers, Seen
  <2>5. sync' \in [Sync -> {NoCall} \cup SyncCall]
    BY <2>4, <2>6 DEF TypeOK
  <2> QED
    BY <1>2, <2>3, <2>5 DEF SyncAnswer, TypeOK
<1>3. ASSUME NEW s \in Sync, SyncRecord(s) PROVE TypeOK'
  <2>1. sync[s].r \in Request /\ sync[s].reply \in Seen
    BY <1>3, SyncCallType, AbsentCall DEF SyncRecord
  <2> QED
    BY <1>3, <2>1, RecordTaskType DEF SyncRecord, TypeOK
<1>4. ASSUME NEW s \in Sync, SyncFailed(s) PROVE TypeOK'
  BY <1>4 DEF SyncFailed, TypeOK
<1>5. CASE AppExit
  <2>1. wire' \subseteq Message
    BY <1>5, MessageType DEF AppExit
  <2> QED
    BY <1>5, <2>1 DEF AppExit, Release, TypeOK, Level
<1> QED
  BY <1>1, <1>2, <1>3, <1>4, <1>5

-----------------------------------------------------------------------------
\* Which steps change a history row.
LEMMA HistoryStep ==
  ASSUME [Next]_vars
  PROVE  \/ UNCHANGED history
         \/ \E r \in Request : SubmitRemote(r)
         \/ MarkUnknown
         \/ SubmitRecord
         \/ \E s \in Sync : SyncRecord(s)
BY DEF Next, SubmitStep, PairStep, vars, desktop, CheckFailed, Post, GiveUp, SubmitFailed,
   Authenticate, Answer, Accept, Refuse, Lose, Advance, PairRemote, PairIssued, PairSaved,
   PairFailed, Revoke, SyncAsk, SyncAnswer, SyncFailed, AppExit

\* The levels recorded by submit_remote and by a detail or cancel call are
\* those of an existing task.
LEMMA RecordedIsReal ==
  ASSUME TypeOK, SubmitInv
  PROVE  /\ SubmitRecord => /\ subject \in Request /\ target[subject] # 0
                            /\ reply \in 1..level[target[subject]][subject]
         /\ \A s \in Sync : SyncRecord(s) =>
              /\ sync[s].r \in Request /\ remoteId[sync[s].r] # 0
              /\ target[sync[s].r] # 0
              /\ Shown(sync[s].reply, level[target[sync[s].r]][sync[s].r])
<1>1. ASSUME SubmitRecord
      PROVE  /\ subject \in Request /\ target[subject] # 0
             /\ reply \in 1..level[target[subject]][subject]
  BY <1>1 DEF SubmitRecord, SubmitInv, CommandInv
<1>2. ASSUME NEW s \in Sync, SyncRecord(s)
      PROVE  /\ sync[s].r \in Request /\ remoteId[sync[s].r] # 0
             /\ target[sync[s].r] # 0
             /\ Shown(sync[s].reply, level[target[sync[s].r]][sync[s].r])
  <2>1. sync[s] # NoCall /\ sync[s].pc = "answered"
    BY <1>2, AbsentCall DEF SyncRecord
  <2>2. sync[s].r \in Request
    BY <2>1, SyncCallType
  <2> QED
    BY <2>1, <2>2 DEF SubmitInv, SyncInv, AcceptedIsReal
<1> QED
  BY <1>1, <1>2

\* A row keeps its target snapshot, and never goes back to where a request
\* may not have been sent, or its task not be known.
LEMMA RowKept ==
  ASSUME TypeOK, SubmitInv, [Next]_vars, NEW r \in Request
  PROVE  /\ submission[r] # "none" => submission'[r] # "none" /\ target'[r] = target[r]
         /\ submission[r] \in {"submission_unknown", "accepted"} =>
              submission'[r] \in {"submission_unknown", "accepted"}
         /\ remoteId[r] # 0 => remoteId'[r] = remoteId[r]
<1>1. CASE UNCHANGED history
  BY <1>1 DEF history
<1>2. ASSUME NEW q \in Request, SubmitRemote(q)
      PROVE  /\ submission[r] # "none" => submission'[r] # "none" /\ target'[r] = target[r]
             /\ submission[r] \in {"submission_unknown", "accepted"} =>
                  submission'[r] \in {"submission_unknown", "accepted"}
             /\ remoteId' = remoteId
  BY <1>2 DEF SubmitRemote, LockForSubmit, TypeOK
<1>3. CASE MarkUnknown
  BY <1>3 DEF MarkUnknown, TypeOK
<1>4. CASE SubmitRecord
  BY <1>4, RecordedIsReal
     DEF SubmitRecord, RecordTask, TypeOK, SubmitInv, AcceptedIsReal
<1>5. ASSUME NEW s \in Sync, SyncRecord(s)
      PROVE  /\ submission[r] # "none" => submission'[r] # "none" /\ target'[r] = target[r]
             /\ submission[r] \in {"submission_unknown", "accepted"} =>
                  submission'[r] \in {"submission_unknown", "accepted"}
             /\ remoteId[r] # 0 => remoteId'[r] = remoteId[r]
  BY <1>5, RecordedIsReal
     DEF SyncRecord, RecordTask, TypeOK, SubmitInv, AcceptedIsReal
<1> QED
  BY <1>1, <1>2, <1>3, <1>4, <1>5, HistoryStep

\* Which steps change the agent's rows.
LEMMA LevelStep ==
  ASSUME [Next]_vars
  PROVE  \/ UNCHANGED level
         \/ \E m \in wire : Accept(m)
         \/ \E c \in Controller, r \in Request : Advance(c, r)
         \/ \E s \in Sync : SyncAnswer(s)
BY DEF Next, SubmitStep, PairStep, vars, SubmitRemote, CheckFailed, MarkUnknown, Post, GiveUp,
   SubmitRecord, SubmitFailed, Authenticate, Refuse, Lose, PairRemote, PairIssued, PairSaved,
   PairFailed, Revoke, SyncAsk, SyncRecord, SyncFailed, AppExit

\* The runner and a cancel move a task forward, and create none.
LEMMA LevelMoves ==
  ASSUME TypeOK, SubmitInv, NEW c \in Controller, NEW r \in Request,
         \/ \E d \in Controller, q \in Request : Advance(d, q)
         \/ \E s \in Sync : SyncAnswer(s)
  PROVE  /\ level'[c][r] \in Nat /\ level[c][r] <= level'[c][r]
         /\ level[c][r] = 0 => level'[c][r] = 0
<1>1. ASSUME NEW d \in Controller, NEW q \in Request, Advance(d, q)
      PROVE  /\ level'[c][r] \in Nat /\ level[c][r] <= level'[c][r]
             /\ level[c][r] = 0 => level'[c][r] = 0
  BY <1>1 DEF Advance, TypeOK, Level
<1>2. ASSUME NEW s \in Sync, SyncAnswer(s)
      PROVE  /\ level'[c][r] \in Nat /\ level[c][r] <= level'[c][r]
             /\ level[c][r] = 0 => level'[c][r] = 0
  <2>1. PICK d \in Controller, q \in Request :
               level' = [level EXCEPT ![d][q] =
                           IF sync[s].op = "cancel" THEN Cancelled(@) ELSE @]
    <3>1. sync[s].r \in Request
      BY <1>2, AbsentCall, SyncCallType DEF SyncAnswer
    <3>2. target[sync[s].r] \in Controller
      BY <1>2 DEF SyncAnswer, TypeOK
    <3> QED
      BY <1>2, <3>1, <3>2 DEF SyncAnswer
  <2> QED
    BY <2>1 DEF Cancelled, TypeOK, Level
<1> QED
  BY <1>1, <1>2

\* A task never goes back, and a new row is that of an authenticated request
\* of an authorized controller.
LEMMA LevelGrows ==
  ASSUME TypeOK, SubmitInv, [Next]_vars, NEW c \in Controller, NEW r \in Request
  PROVE  /\ level'[c][r] \in Nat /\ level[c][r] <= level'[c][r]
         /\ level[c][r] = 0 /\ level'[c][r] # 0 =>
              c \in granted /\ \E m \in wire : Accept(m) /\ m.c = c /\ m.r = r
<1>1. CASE UNCHANGED level
  BY <1>1 DEF TypeOK, Level
<1>2. ASSUME NEW m \in wire, Accept(m)
      PROVE  /\ level'[c][r] \in Nat /\ level[c][r] <= level'[c][r]
             /\ level[c][r] = 0 /\ level'[c][r] # 0 => c \in granted /\ m.c = c /\ m.r = r
  BY <1>2 DEF Accept, TypeOK, Level, Message
<1> QED
  BY <1>1, <1>2, LevelMoves, LevelStep

\* A request on the wire was there before, or has just been posted.
LEMMA WireStep ==
  ASSUME TypeOK, [Next]_vars, NEW n \in wire'
  PROVE  \/ \E m \in wire : m.c = n.c /\ m.r = n.r
         \/ Post /\ n.c = target[subject] /\ n.r = subject
<1>1. CASE UNCHANGED wire
  BY <1>1
<1>2. CASE Post
  BY <1>2 DEF Post
<1>3. CASE wire' = Orphaned
  BY <1>3 DEF Orphaned, TypeOK, Message
<1>4. CASE \E m \in wire : wire' = wire \ {m}
  BY <1>4
<1>5. CASE \E m \in wire : Authenticate(m)
  BY <1>5 DEF Authenticate, TypeOK, Message
<1>6. \/ UNCHANGED wire
      \/ Post
      \/ wire' = Orphaned
      \/ \E m \in wire : wire' = wire \ {m}
      \/ \E m \in wire : Authenticate(m)
  BY DEF Next, SubmitStep, PairStep, vars, SubmitRemote, CheckFailed, MarkUnknown, GiveUp,
     SubmitRecord, SubmitFailed, Accept, Refuse, Answer, Lose, Advance, PairRemote, PairIssued,
     PairSaved, PairFailed, Revoke, SyncAsk, SyncAnswer, SyncRecord, SyncFailed, AppExit
<1> QED
  BY <1>1, <1>2, <1>3, <1>4, <1>5, <1>6

\* What was sent carries the identity of its row's snapshot.
LEMMA SentIsMarkedKept ==
  ASSUME TypeOK, SubmitInv, [Next]_vars
  PROVE  SentIsMarked'
<1> SUFFICES ASSUME NEW r \in Request, NEW c \in Controller, Sent(c, r)'
             PROVE  target'[r] = c /\ submission'[r] \in {"submission_unknown", "accepted"}
  BY DEF SentIsMarked
<1>1. CASE Sent(c, r)
  BY <1>1, RowKept DEF SubmitInv, SentIsMarked
<1>2. CASE Post /\ c = target[subject] /\ r = subject
  BY <1>2 DEF Post, Step, history, SubmitInv, CommandInv
<1>3. CASE level'[c][r] # 0 /\ ~Sent(c, r)
  BY <1>3, LevelGrows DEF Sent
<1> QED
  BY <1>1, <1>2, <1>3, WireStep DEF Sent

\* What the history records is real.
LEMMA AcceptedIsRealKept ==
  ASSUME TypeOK, SubmitInv, [Next]_vars
  PROVE  AcceptedIsReal'
<1> SUFFICES ASSUME NEW r \in Request
             PROVE  /\ submission'[r] # "none" <=> target'[r] # 0
                    /\ submission'[r] = "accepted" <=> remoteId'[r] # 0
                    /\ remoteId'[r] # 0 => /\ remoteId'[r] = target'[r]
                                           /\ Shown(lastTask'[r], level'[target'[r]][r])
  BY DEF AcceptedIsReal
<1> USE DEF SubmitInv, AcceptedIsReal
<1>1. target[r] # 0 /\ Shown(lastTask[r], level[target[r]][r]) =>
        Shown(lastTask[r], level'[target[r]][r])
  <2>1. target[r] # 0 => target[r] \in Controller
    BY DEF TypeOK
  <2> QED
    BY <2>1, LevelGrows DEF TypeOK, Level, Shown
<1>2. CASE UNCHANGED history
  BY <1>1, <1>2 DEF history
<1>3. ASSUME NEW q \in Request, SubmitRemote(q)
      PROVE  /\ submission'[r] # "none" <=> target'[r] # 0
             /\ submission'[r] = "accepted" <=> remoteId'[r] # 0
             /\ remoteId'[r] # 0 => /\ remoteId'[r] = target'[r]
                                    /\ Shown(lastTask'[r], level'[target'[r]][r])
  <2>1. UNCHANGED <<remoteId, lastTask, level>>
    BY <1>3 DEF SubmitRemote
  <2>2. CASE submission[q] = "none" /\ q = r
    BY <1>3, <2>1, <2>2 DEF SubmitRemote, TypeOK
  <2>3. CASE ~(submission[q] = "none" /\ q = r)
    <3>1. submission'[r] = submission[r] /\ target'[r] = target[r]
      BY <1>3, <2>3 DEF SubmitRemote, TypeOK
    <3> QED
      BY <2>1, <3>1
  <2> QED
    BY <2>2, <2>3
<1>4. CASE MarkUnknown
  BY <1>1, <1>4 DEF MarkUnknown, TypeOK, CommandInv
<1>5. ASSUME NEW q \in Request, NEW n, RecordTask(q, n), UNCHANGED level,
             target[q] # 0, Shown(n, level[target[q]][q])
      PROVE  /\ submission'[r] # "none" <=> target'[r] # 0
             /\ submission'[r] = "accepted" <=> remoteId'[r] # 0
             /\ remoteId'[r] # 0 => /\ remoteId'[r] = target'[r]
                                    /\ Shown(lastTask'[r], level'[target'[r]][r])
  <2>1. CASE q = r
    BY <1>5, <2>1 DEF RecordTask, TypeOK
  <2>2. CASE q # r
    BY <1>5, <2>2 DEF RecordTask, TypeOK
  <2> QED
    BY <2>1, <2>2
<1>6. CASE SubmitRecord
  BY <1>5, <1>6, RecordedIsReal DEF SubmitRecord, Shown
<1>7. ASSUME NEW s \in Sync, SyncRecord(s)
      PROVE  RecordTask(sync[s].r, sync[s].reply) /\ UNCHANGED level
  BY <1>7 DEF SyncRecord
<1> QED
  BY <1>2, <1>3, <1>4, <1>5, <1>6, <1>7, HistoryStep, RecordedIsReal

\* A detail or cancel call is about a known task, and carries one of its levels.
LEMMA SyncInvKept ==
  ASSUME TypeOK, SubmitInv, [Next]_vars
  PROVE  SyncInv'
<1> SUFFICES ASSUME NEW s \in Sync, sync'[s] # NoCall
             PROVE  /\ remoteId'[sync'[s].r] # 0
                    /\ sync'[s].pc = "answered" =>
                         Shown(sync'[s].reply, level'[target'[sync'[s].r]][sync'[s].r])
  BY DEF SyncInv
<1> USE DEF SubmitInv, SyncInv
<1>1. ASSUME sync[s] # NoCall, sync'[s] = sync[s]
      PROVE  /\ remoteId'[sync'[s].r] # 0
             /\ sync'[s].pc = "answered" =>
                  Shown(sync'[s].reply, level'[target'[sync'[s].r]][sync'[s].r])
  <2> DEFINE r == sync[s].r
  <2>1. r \in Request /\ sync[s].reply \in Seen
    BY <1>1, SyncCallType
  <2>2. remoteId[r] # 0 /\ target[r] \in Controller /\ submission[r] # "none"
    BY <1>1, <2>1 DEF AcceptedIsReal, TypeOK
  <2>3. remoteId'[r] # 0 /\ target'[r] = target[r]
    BY <2>1, <2>2, RowKept
  <2>4. level[target[r]][r] <= level'[target[r]][r] /\ level'[target[r]][r] \in Nat
    BY <2>1, <2>2, LevelGrows
  <2>5. level[target[r]][r] \in Nat
    BY <2>1, <2>2 DEF TypeOK, Level
  <2> QED
    BY <1>1, <2>1, <2>3, <2>4, <2>5 DEF Level, Seen, Shown
<1>2. ASSUME NEW op, NEW r \in Request, SyncAsk(s, op, r)
      PROVE  sync'[s].pc = "asked" /\ sync'[s].r = r /\ remoteId'[r] # 0
  BY <1>2 DEF SyncAsk, SetSync, history, TypeOK
<1>3. CASE SyncAnswer(s)
  <2> DEFINE r == sync[s].r
  <2>1. r \in Request /\ sync[s] # NoCall /\ sync[s] \in SyncCall
    BY <1>3, AbsentCall, SyncCallType DEF SyncAnswer
  <2>2. UNCHANGED history
    BY <1>3 DEF SyncAnswer
  <2>8. PICK n \in Answers(sync[s].op, level'[target[r]][r]) :
               SetSync(s, [sync[s] EXCEPT !.pc = "answered", !.reply = n])
    BY <1>3 DEF SyncAnswer
  <2>3. sync'[s].r = r /\ sync'[s].reply = n
    BY <2>1, <2>8 DEF SyncCall, SetSync, TypeOK
  <2>4. target[r] \in Controller /\ level[target[r]][r] >= 1
    BY <2>1 DEF AcceptedIsReal, TypeOK, Level, Shown
  <2>5. level'[target[r]][r] \in Nat /\ level'[target[r]][r] >= level[target[r]][r]
    BY <2>1, <2>4, LevelGrows
  <2>6. level[target[r]][r] \in Nat
    <3>1. level[target[r]][r] \in Level
      BY <2>1, <2>4 DEF TypeOK
    <3> QED
      BY <3>1 DEF Level
  <2>7. remoteId[r] # 0
    BY <2>1
  <2> QED
    BY <2>2, <2>3, <2>4, <2>5, <2>6, <2>7, <2>8 DEF history, Answers, Shown
<1>4. \/ sync'[s] = sync[s]
      \/ \E op \in {"detail", "cancel"}, r \in Request : SyncAsk(s, op, r)
      \/ SyncAnswer(s)
      \/ sync'[s] = NoCall
  <2>1. CASE UNCHANGED sync
    BY <2>1
  <2>2. ASSUME NEW z \in Sync, NEW call, SetSync(z, call), z # s PROVE sync'[s] = sync[s]
    BY <2>2 DEF SetSync, TypeOK
  <2>3. ASSUME NEW z \in Sync, SyncRecord(z) \/ SyncFailed(z)
        PROVE  sync'[s] = sync[s] \/ sync'[s] = NoCall
    BY <2>3 DEF SyncRecord, SyncFailed, SetSync, TypeOK
  <2>4. ASSUME NEW z \in Sync, NEW op, NEW r \in Request, SyncAsk(z, op, r)
        PROVE  sync'[s] = sync[s] \/ SyncAsk(s, op, r)
    <3>1. CASE z = s
      BY <2>4, <3>1
    <3>2. CASE z # s
      BY <2>2, <2>4, <3>2 DEF SyncAsk
    <3> QED
      BY <3>1, <3>2
  <2>5. ASSUME NEW z \in Sync, SyncAnswer(z) PROVE sync'[s] = sync[s] \/ SyncAnswer(s)
    <3>1. CASE z = s
      BY <2>5, <3>1
    <3>2. CASE z # s
      BY <2>2, <2>5, <3>2 DEF SyncAnswer
    <3> QED
      BY <3>1, <3>2
  <2>6. CASE AppExit
    BY <2>6 DEF AppExit
  <2>7. \/ UNCHANGED sync
        \/ \E z \in Sync, op \in {"detail", "cancel"}, r \in Request : SyncAsk(z, op, r)
        \/ \E z \in Sync : SyncAnswer(z) \/ SyncRecord(z) \/ SyncFailed(z)
        \/ AppExit
    BY DEF Next, SubmitStep, PairStep, vars, desktop, SubmitRemote, CheckFailed, MarkUnknown,
       Post, GiveUp, SubmitRecord, SubmitFailed, Authenticate, Answer, Accept, Refuse, Lose,
       Advance, PairRemote, PairIssued, PairSaved, PairFailed, Revoke
  <2> QED
    BY <2>1, <2>3, <2>4, <2>5, <2>6, <2>7
<1>5. CASE sync'[s] = sync[s]
  BY <1>1, <1>5
<1>6. ASSUME NEW op, NEW r \in Request, SyncAsk(s, op, r)
      PROVE  /\ remoteId'[sync'[s].r] # 0
             /\ sync'[s].pc # "answered"
  BY <1>2, <1>6
<1> QED
  BY <1>3, <1>4, <1>5, <1>6

\* At most one request has a sender that still waits, and it is about the
\* request of the command.
LEMMA LiveKept ==
  ASSUME TypeOK, SubmitInv, [Next]_vars
  PROVE  /\ \A m \in wire' : m.live => pc' = "wait" /\ m.r = subject'
         /\ \A m, n \in wire' : m.live /\ n.live => m = n
<1> USE DEF SubmitInv, CommandInv
<1>1. CASE wire' = Orphaned
  BY <1>1 DEF Orphaned, TypeOK, Message
<1>2. CASE wire' \subseteq wire /\ UNCHANGED <<pc, subject>>
  BY <1>2
<1>3. CASE Post
  <2>1. \A m \in wire : ~m.live
    BY <1>3 DEF Post, Step
  <2> DEFINE n == [c |-> target[subject], r |-> subject, live |-> TRUE, authenticated |-> FALSE]
  <2>2. wire' = wire \cup {n} /\ pc' = "wait" /\ UNCHANGED subject
    BY <1>3 DEF Post, Step
  <2>3. n.r = subject
    OBVIOUS
  <2> HIDE DEF n
  <2> QED
    BY <2>1, <2>2, <2>3
<1>4. ASSUME NEW m \in wire, Authenticate(m)
      PROVE  /\ \A n \in wire' : n.live => pc' = "wait" /\ n.r = subject'
             /\ \A n, o \in wire' : n.live /\ o.live => n = o
  <2> DEFINE a == [m EXCEPT !.authenticated = TRUE]
  <2>1. a.live = m.live /\ a.r = m.r
    BY DEF TypeOK, Message
  <2>2. wire' = (wire \ {m}) \cup {a} /\ UNCHANGED <<pc, subject>>
    BY <1>4 DEF Authenticate, desktop, command
  <2> HIDE DEF a
  <2> QED
    BY <2>1, <2>2
<1>5. ASSUME NEW m \in wire, Accept(m) \/ Refuse(m)
      PROVE  /\ \A n \in wire' : n.live => pc' = "wait" /\ n.r = subject'
             /\ \A n, o \in wire' : n.live /\ o.live => n = o
  <2>1. wire' = wire \ {m} /\ UNCHANGED subject /\ (~m.live => UNCHANGED pc)
    BY <1>5 DEF Accept, Refuse, Answer
  <2> QED
    BY <2>1
<1>6. CASE pc # "wait" /\ wire' = wire
  BY <1>6
<1>7. \/ wire' = Orphaned
      \/ wire' \subseteq wire /\ UNCHANGED <<pc, subject>>
      \/ Post
      \/ \E m \in wire : Authenticate(m) \/ Accept(m) \/ Refuse(m)
      \/ pc # "wait" /\ wire' = wire
  BY DEF Next, SubmitStep, PairStep, vars, desktop, command, Step, Release, SubmitRemote,
     LockForSubmit, CheckFailed, MarkUnknown, GiveUp, SubmitRecord, SubmitFailed, Lose,
     Advance, PairRemote, PairIssued, PairSaved, PairFailed, Revoke, SyncAsk, SyncAnswer,
     SyncRecord, SyncFailed, AppExit
<1> QED
  BY <1>1, <1>2, <1>3, <1>4, <1>5, <1>6, <1>7

\* What the step of the command says of the row and of the answer.
LEMMA CommandKept ==
  ASSUME TypeOK, SubmitInv, [Next]_vars
  PROVE  /\ lock' = "submit" => subject' \in Request
         /\ pc' \in {"check", "send", "wait", "answered", "failed"} => lock' = "submit"
         /\ lock' = "submit" => submission'[subject'] # "none"
         /\ pc' \in {"send", "wait", "answered", "failed"} =>
              submission'[subject'] \in {"submission_unknown", "accepted"}
         /\ pc' = "answered" => /\ target'[subject'] # 0
                                /\ reply' \in 1..level'[target'[subject']][subject']
         /\ pc' = "pairing" => issued' < MaxPair
<1> DEFINE Goal ==
      /\ lock' = "submit" => subject' \in Request
      /\ pc' \in {"check", "send", "wait", "answered", "failed"} => lock' = "submit"
      /\ lock' = "submit" => submission'[subject'] # "none"
      /\ pc' \in {"send", "wait", "answered", "failed"} =>
           submission'[subject'] \in {"submission_unknown", "accepted"}
      /\ pc' = "answered" => /\ target'[subject'] # 0
                             /\ reply' \in 1..level'[target'[subject']][subject']
      /\ pc' = "pairing" => issued' < MaxPair
<1> USE DEF SubmitInv, CommandInv
<1>1. CASE UNCHANGED <<command, issued>>
  <2>1. CASE lock = "submit"
    <3>1. subject \in Request /\ submission[subject] # "none"
      BY <2>1
    <3>2. /\ submission'[subject] # "none" /\ target'[subject] = target[subject]
          /\ submission[subject] \in {"submission_unknown", "accepted"} =>
               submission'[subject] \in {"submission_unknown", "accepted"}
      BY <3>1, RowKept
    <3>3. ASSUME pc = "answered" PROVE reply \in 1..level'[target[subject]][subject]
      <4>1. target[subject] \in Controller
        BY <3>1, <3>3 DEF TypeOK
      <4>2. level[target[subject]][subject] \in Level
        BY <3>1, <4>1 DEF TypeOK
      <4> QED
        BY <3>1, <3>3, <4>1, <4>2, LevelGrows DEF Level
    <3> QED
      BY <1>1, <3>1, <3>2, <3>3 DEF command
  <2>2. CASE lock # "submit"
    BY <1>1, <2>2 DEF command
  <2> QED
    BY <2>1, <2>2
<1>2. ASSUME NEW r \in Request, SubmitRemote(r) PROVE Goal
  BY <1>2 DEF SubmitRemote, LockForSubmit, TypeOK
<1>3. CASE MarkUnknown
  BY <1>3 DEF MarkUnknown, Step, TypeOK
<1>4. CASE Post
  BY <1>4 DEF Post, Step, history
<1>5. CASE GiveUp
  BY <1>5 DEF GiveUp, history
<1>6. CASE Release
  BY <1>6 DEF Release
<1>7. ASSUME NEW m \in wire, Accept(m) \/ Refuse(m) PROVE Goal
  <2>1. UNCHANGED <<lock, subject, history, issued>>
    BY <1>7 DEF Accept, Refuse, Answer, access
  <2>2. CASE ~m.live
    <3>1. UNCHANGED command
      BY <1>7, <2>1, <2>2 DEF Accept, Refuse, Answer, command
    <3> QED
      BY <1>1, <2>1, <3>1
  <2>3. CASE m.live
    <3>1. pc = "wait" /\ m.r = subject /\ lock = "submit" /\ subject \in Request
      BY <2>3
    <3>2. CASE Refuse(m)
      BY <2>1, <2>3, <3>1, <3>2 DEF Refuse, Answer, history
    <3>3. CASE Accept(m)
      <4>1. m.c \in Controller /\ target[subject] = m.c
        BY <3>1 DEF TypeOK, Message, SentIsMarked, Sent
      <4>2. level'[m.c][m.r] \in Nat /\ level'[m.c][m.r] >= 1
        <5>1. level[m.c][m.r] \in Level /\ m.r \in Request
          BY <3>1, <4>1 DEF TypeOK
        <5>2. level'[m.c][m.r] = IF level[m.c][m.r] = 0 THEN 1 ELSE level[m.c][m.r]
          BY <3>3, <4>1, <5>1 DEF Accept, TypeOK
        <5> QED
          BY <5>1, <5>2 DEF Level
      <4>3. pc' = "answered" /\ reply' = level'[m.c][m.r]
        BY <2>3, <3>3 DEF Accept, Answer
      <4>4. m.c # 0
        BY <4>1 DEF Controller
      <4> QED
        BY <2>1, <3>1, <4>1, <4>2, <4>3, <4>4 DEF history
    <3> QED
      BY <1>7, <3>2, <3>3
  <2> QED
    BY <2>2, <2>3
<1>8. CASE PairRemote
  BY <1>8 DEF PairRemote, access
<1>9. CASE PairIssued
  BY <1>9 DEF PairIssued, Step, Release, history
<1>10. \/ UNCHANGED <<command, issued>>
       \/ \E r \in Request : SubmitRemote(r)
       \/ MarkUnknown \/ Post \/ GiveUp \/ Release
       \/ \E m \in wire : Accept(m) \/ Refuse(m)
       \/ PairRemote \/ PairIssued
  BY DEF Next, SubmitStep, PairStep, vars, desktop, access, CheckFailed, SubmitRecord,
     SubmitFailed, Authenticate, Lose, Advance, PairSaved, PairFailed, Revoke, SyncAsk,
     SyncAnswer, SyncRecord, SyncFailed, AppExit
<1> QED
  BY <1>1, <1>2, <1>3, <1>4, <1>5, <1>6, <1>7, <1>8, <1>9, <1>10

\* TypeOK and SubmitInv hold together: each needs the other.
LEMMA InvariantKept ==
  ASSUME TypeOK, SubmitInv, [Next]_vars
  PROVE  TypeOK' /\ SubmitInv'
<1>1. TypeOK'
  <2>1. CASE UNCHANGED vars
    BY <2>1 DEF vars, desktop, history, command, access, TypeOK
  <2>2. CASE Next
    BY <2>2, SubmitType, AgentType, PairType, SyncType DEF Next
  <2> QED
    BY <2>1, <2>2
<1>2. CommandInv'
  BY CommandKept, LiveKept DEF CommandInv
<1> QED
  BY <1>1, <1>2, SentIsMarkedKept, AcceptedIsRealKept, SyncInvKept DEF SubmitInv

\* The invariant holds before anything is paired or submitted.
LEMMA InvariantInitially ==
  ASSUME Init PROVE TypeOK /\ SubmitInv
<1>1. TypeOK
  BY DEF Init, TypeOK, Level, Seen
<1>2. SentIsMarked /\ CommandInv /\ AcceptedIsReal /\ SyncInv
  BY DEF Init, SentIsMarked, Sent, CommandInv, AcceptedIsReal, SyncInv
<1> QED
  BY <1>1, <1>2 DEF SubmitInv

\* In every reachable state the state is well typed, and history, command,
\* network and agent agree as SubmitInv says.
THEOREM SubmitInvariant == Spec => [](TypeOK /\ SubmitInv)
<1>1. Init => TypeOK /\ SubmitInv
  BY InvariantInitially
<1>2. TypeOK /\ SubmitInv /\ [Next]_vars => (TypeOK /\ SubmitInv)'
  BY InvariantKept
<1> QED
  BY <1>1, <1>2, PTL DEF Spec

-----------------------------------------------------------------------------
\* The number of tasks of a request, read off its row.
LEMMA TaskCount ==
  ASSUME TypeOK, SubmitInv, NEW r \in Request
  PROVE  Cardinality({c \in Controller : level[c][r] # 0}) =
           IF target[r] \in Controller /\ level[target[r]][r] # 0 THEN 1 ELSE 0
<1> DEFINE T == {c \in Controller : level[c][r] # 0}
<1>1. \A c \in T : c = target[r]
  BY DEF SubmitInv, SentIsMarked, Sent
<1>2. CASE target[r] \in T
  <2>1. T = {target[r]}
    BY <1>1, <1>2
  <2> QED
    BY <1>2, <2>1, FS_Singleton
<1>3. CASE target[r] \notin T
  <2>1. T = {}
    BY <1>1, <1>3
  <2> QED
    BY <1>3, <2>1, FS_EmptySet
<1> QED
  BY <1>2, <1>3

\* A request creates at most one task, whatever is lost, repeated or delivered
\* late, and however often the controller is paired.
THEOREM OneTaskPerRequestHolds == Spec => []OneTaskPerRequest
<1>1. TypeOK /\ SubmitInv => OneTaskPerRequest
  <2> SUFFICES ASSUME TypeOK, SubmitInv, NEW r \in Request
               PROVE  Cardinality({c \in Controller : level[c][r] # 0}) <= 1
    BY DEF OneTaskPerRequest
  <2> QED
    BY TaskCount
<1> QED
  BY <1>1, SubmitInvariant, PTL

\* No task is created for a controller whose authorization is revoked.
THEOREM NoAcceptAfterRevokeHolds == Spec => NoAcceptAfterRevoke
<1> DEFINE Kept == \A c \in Controller \ granted, r \in Request :
                     level[c][r] = 0 => level'[c][r] = 0
<1>1. TypeOK /\ SubmitInv /\ [Next]_vars => [Kept]_vars
  BY LevelGrows
<1> QED
  BY <1>1, SubmitInvariant, PTL DEF Spec, NoAcceptAfterRevoke

-----------------------------------------------------------------------------
\* A step that changes neither what the rows say nor which tasks exist is a
\* stutter of the abstract specification.
LEMMA StutterImplements ==
  ASSUME UNCHANGED submission,
         \A c \in Controller, r \in Request : level[c][r] # 0 <=> level'[c][r] # 0
  PROVE  UNCHANGED Once!vars
<1>1. \A r \in Request :
        {c \in Controller : level[c][r] # 0} = {c \in Controller : level'[c][r] # 0}
  OBVIOUS
<1> QED
  BY <1>1 DEF Once!vars

\* Marking a prepared row is the attempt of its request.
LEMMA AttemptImplements ==
  ASSUME TypeOK, NEW r \in Request, submission[r] = "prepared",
         submission' = [submission EXCEPT ![r] = "submission_unknown"], UNCHANGED level
  PROVE  Once!Next
<1>1. Once!Attempt(r)
  BY DEF Once!Attempt, TypeOK
<1> QED
  BY <1>1 DEF Once!Next

\* Recording a task confirms its request, or repeats what is known.
LEMMA RecordImplements ==
  ASSUME TypeOK, SubmitInv, NEW r \in Request,
         submission[r] \in {"submission_unknown", "accepted"},
         target[r] # 0, level[target[r]][r] # 0,
         submission' = [submission EXCEPT ![r] = "accepted"], UNCHANGED level
  PROVE  [Once!Next]_(Once!vars)
<1>1. CASE submission[r] = "submission_unknown"
  <2>1. Cardinality({c \in Controller : level[c][r] # 0}) = 1
    BY TaskCount DEF TypeOK
  <2>2. Once!Confirm(r)
    BY <1>1, <2>1 DEF Once!Confirm, TypeOK
  <2> QED
    BY <2>2 DEF Once!Next
<1>2. CASE submission[r] = "accepted"
  <2>1. UNCHANGED submission
    BY <1>2 DEF TypeOK
  <2> QED
    BY <2>1, StutterImplements
<1> QED
  BY <1>1, <1>2

\* The agent's accept creates the task of an attempted request, once.
LEMMA AcceptImplements ==
  ASSUME TypeOK, SubmitInv, NEW m \in wire, Accept(m), [Next]_vars
  PROVE  [Once!Next]_(Once!vars)
<1> DEFINE c == m.c
           r == m.r
<1>1. c \in Controller /\ r \in Request /\ UNCHANGED submission
  BY DEF TypeOK, Message, Accept, Answer, history
<1>2. target[r] = c /\ submission[r] \in {"submission_unknown", "accepted"}
  BY <1>1 DEF SubmitInv, SentIsMarked, Sent
<1>3. level' = [level EXCEPT ![c][r] = IF @ = 0 THEN 1 ELSE @]
  BY DEF Accept
<1> HIDE DEF c, r
<1>4. CASE level[c][r] # 0
  <2>1. \A d \in Controller, q \in Request : level[d][q] # 0 <=> level'[d][q] # 0
    BY <1>1, <1>3, <1>4 DEF TypeOK
  <2> QED
    BY <1>1, <2>1, StutterImplements
<1>5. CASE level[c][r] = 0
  <2> DEFINE Tasks(q) == {d \in Controller : level[d][q] # 0}
             TasksAfter(q) == {d \in Controller : level'[d][q] # 0}
  <2>1. submission[r] = "submission_unknown"
    BY <1>1, <1>2, <1>5 DEF SubmitInv, AcceptedIsReal, TypeOK, Level, Shown
  <2>2. Cardinality(Tasks(r)) = 0
    BY <1>1, <1>2, <1>5, TaskCount
  <2>3. TasksAfter(r) = {c}
    <3>1. \A d \in Controller : level[d][r] = 0
      BY <1>1, <1>2, <1>5 DEF SubmitInv, SentIsMarked, Sent
    <3> QED
      BY <1>1, <1>3, <3>1 DEF TypeOK
  <2>4. Cardinality(TasksAfter(r)) = 1
    BY <2>3, FS_Singleton
  <2>5. \A q \in Request : q # r => TasksAfter(q) = Tasks(q)
    BY <1>1, <1>3 DEF TypeOK
  <2>6. [q \in Request |-> Cardinality(TasksAfter(q))] =
          [[q \in Request |-> Cardinality(Tasks(q))] EXCEPT ![r] = 1]
    BY <1>1, <2>4, <2>5
  <2>7. Once!Create(r)
    BY <1>1, <2>1, <2>2, <2>6 DEF Once!Create
  <2> QED
    BY <1>1, <2>7 DEF Once!Next
<1> QED
  BY <1>4, <1>5

\* Every step is a step of RequestOnce, or a stutter.
LEMMA StepImplements ==
  ASSUME TypeOK, SubmitInv, [Next]_vars
  PROVE  [Once!Next]_(Once!vars)
<1>1. ASSUME NEW m \in wire, Accept(m) PROVE [Once!Next]_(Once!vars)
  BY <1>1, AcceptImplements
<1>2. CASE MarkUnknown
  <2>1. subject \in Request /\ submission[subject] # "none" /\ UNCHANGED level
    BY <1>2 DEF MarkUnknown, Step, SubmitInv, CommandInv
  <2>2. CASE submission[subject] = "prepared"
    BY <1>2, <2>1, <2>2, AttemptImplements DEF MarkUnknown
  <2>3. CASE submission[subject] # "prepared"
    <3>1. UNCHANGED submission
      BY <1>2, <2>1, <2>3 DEF MarkUnknown, TypeOK
    <3> QED
      BY <2>1, <3>1, StutterImplements
  <2> QED
    BY <2>2, <2>3
<1>3. CASE SubmitRecord
  <2>1. /\ subject \in Request /\ target[subject] # 0
        /\ reply \in 1..level[target[subject]][subject]
        /\ submission[subject] \in {"submission_unknown", "accepted"}
    BY <1>3, RecordedIsReal DEF SubmitRecord, SubmitInv, CommandInv
  <2>2. level[target[subject]][subject] # 0
    BY <2>1
  <2> QED
    BY <1>3, <2>1, <2>2, RecordImplements DEF SubmitRecord, RecordTask
<1>4. ASSUME NEW s \in Sync, SyncRecord(s) PROVE [Once!Next]_(Once!vars)
  <2>1. /\ sync[s].r \in Request /\ target[sync[s].r] # 0
        /\ Shown(sync[s].reply, level[target[sync[s].r]][sync[s].r])
        /\ submission[sync[s].r] = "accepted"
    BY <1>4, RecordedIsReal DEF SubmitInv, AcceptedIsReal
  <2>2. level[target[sync[s].r]][sync[s].r] # 0
    BY <2>1 DEF Shown
  <2> QED
    BY <1>4, <2>1, <2>2, RecordImplements DEF SyncRecord, RecordTask
<1>5. CASE UNCHANGED <<submission, level>>
  BY <1>5, StutterImplements
<1>6. ASSUME NEW r \in Request, SubmitRemote(r) PROVE [Once!Next]_(Once!vars)
  <2>1. UNCHANGED Once!vars
    BY <1>6 DEF SubmitRemote, Once!vars, TypeOK
  <2> QED
    BY <2>1
<1>7. CASE \/ \E c \in Controller, r \in Request : Advance(c, r)
           \/ \E s \in Sync : SyncAnswer(s)
  <2>1. UNCHANGED submission
    BY <1>7 DEF Advance, SyncAnswer, desktop, history
  <2>2. \A c \in Controller, r \in Request : level[c][r] # 0 <=> level'[c][r] # 0
    <3> SUFFICES ASSUME NEW c \in Controller, NEW r \in Request
                 PROVE  level[c][r] # 0 <=> level'[c][r] # 0
      OBVIOUS
    <3>1. level[c][r] \in Nat
      BY DEF TypeOK, Level
    <3> QED
      BY <1>7, <3>1, LevelMoves
  <2> QED
    BY <2>1, <2>2, StutterImplements
<1>8. UNCHANGED history => UNCHANGED submission
  BY DEF history
<1> QED
  BY <1>1, <1>2, <1>3, <1>4, <1>5, <1>6, <1>7, <1>8, HistoryStep, LevelStep

\* The controller and the agent together implement the abstract promise.
THEOREM SubmitRefinement == Spec => ImplementsOnce
<1>1. Init => Once!Init
  <2> SUFFICES ASSUME Init PROVE Once!Init
    OBVIOUS
  <2>1. \A r \in Request : {c \in Controller : level[c][r] # 0} = {}
    BY DEF Init
  <2> QED
    BY <2>1, FS_EmptySet DEF Init, Once!Init
<1>2. TypeOK /\ SubmitInv /\ [Next]_vars => [Once!Next]_(Once!vars)
  BY StepImplements
<1> QED
  BY <1>1, <1>2, SubmitInvariant, PTL DEF Spec, ImplementsOnce, Once!Spec

\* A row that is written with what it held.
LEMMA RowStays ==
  ASSUME TypeOK, NEW c \in Controller, NEW r \in Request,
         level' = [level EXCEPT ![c][r] = level[c][r]]
  PROVE  level' = level
<1> DEFINE row == level[c]
<1>1. level \in [Controller -> [Request -> Level]] /\ row \in [Request -> Level]
  BY DEF TypeOK
<1> HIDE DEF row
<1>2. [row EXCEPT ![r] = row[r]] = row
  BY <1>1
<1>3. level' = [level EXCEPT ![c] = [row EXCEPT ![r] = row[r]]]
  BY DEF row
<1>4. level' = [level EXCEPT ![c] = level[c]]
  BY <1>2, <1>3 DEF row
<1> QED
  BY <1>1, <1>4

\* A row of the agent's table that moves.
LEMMA RowMoves ==
  ASSUME TypeOK, NEW c \in Controller, NEW r \in Request, NEW n \in Level,
         level' = [level EXCEPT ![c][r] = n],
         \/ level[c][r] = 0 /\ n = 1
         \/ level[c][r] = 1 /\ n = 3
         \/ level[c][r] \in {1, 2} /\ n = level[c][r] + 1
  PROVE  Levels!Next
<1> DEFINE at == [t \in Controller \X Request |-> level[t[1]][t[2]]]
           later == [t \in Controller \X Request |-> level'[t[1]][t[2]]]
           p == <<c, r>>
<1>1. p \in Controller \X Request /\ at[p] = level[c][r]
  OBVIOUS
<1>2. later = [at EXCEPT ![p] = n]
  <2>1. ASSUME NEW t \in Controller \X Request
        PROVE  later[t] = IF t = p THEN n ELSE at[t]
    <3>1. PICK d \in Controller, q \in Request : t = <<d, q>>
      OBVIOUS
    <3>2. level'[d][q] = IF d = c /\ q = r THEN n ELSE level[d][q]
      BY DEF TypeOK
    <3> QED
      BY <3>1, <3>2
  <2>2. later = [t \in Controller \X Request |-> later[t]]
    OBVIOUS
  <2>3. [at EXCEPT ![p] = n] = [t \in Controller \X Request |-> IF t = p THEN n ELSE at[t]]
    OBVIOUS
  <2> HIDE DEF p, at, later
  <2> QED
    BY <2>1, <2>2, <2>3
<1>3. \/ at[p] = 0 /\ n = 1
      \/ at[p] = 1 /\ n = 3
      \/ at[p] \in {1, 2} /\ n = at[p] + 1
  BY <1>1
<1> HIDE DEF p
<1>4. Levels!Create(p) \/ Levels!Withdraw(p) \/ Levels!Advance(p)
  BY <1>2, <1>3 DEF Levels!Create, Levels!Withdraw, Levels!Advance, Levels!Move
<1> QED
  BY <1>1, <1>4 DEF Levels!Next

\* The submission, the sync calls and the runner as this module has them move a
\* task as the agent's own module does (AgentLevels in AgentRunnerProofs).
THEOREM SubmitLevels == Spec => ImplementsLevels
<1> DEFINE at == [t \in Controller \X Request |-> level[t[1]][t[2]]]
<1>1. Init => Levels!Init
  BY DEF Init, Levels!Init
<1>2. 1 \in Level /\ 3 \in Level
  BY DEF Level
<1>3. ASSUME TypeOK, [Next]_vars PROVE [Levels!Next]_at
  <2>1. CASE UNCHANGED level
    BY <2>1
  <2>2. ASSUME NEW m \in wire, Accept(m) PROVE [Levels!Next]_at
    <3>1. m.c \in Controller /\ m.r \in Request
      BY <1>3 DEF TypeOK, Message
    <3>2. level[m.c][m.r] \in Level
      BY <1>3, <3>1 DEF TypeOK
    <3>3. CASE level[m.c][m.r] = 0
      <4>1. level' = [level EXCEPT ![m.c][m.r] = 1]
        BY <1>3, <2>2, <3>1, <3>3 DEF Accept, TypeOK
      <4> QED
        BY <1>2, <1>3, <3>1, <3>3, <4>1, RowMoves
    <3>4. CASE level[m.c][m.r] # 0
      <4>1. level' = [level EXCEPT ![m.c][m.r] = level[m.c][m.r]]
        BY <1>3, <2>2, <3>1, <3>4 DEF Accept, TypeOK
      <4>2. level' = level
        BY <1>3, <3>1, <4>1, RowStays
      <4> QED
        BY <4>2
    <3> QED
      BY <3>3, <3>4
  <2>3. ASSUME NEW c \in Controller, NEW r \in Request, Advance(c, r) PROVE [Levels!Next]_at
    <3>1. level' = [level EXCEPT ![c][r] = level[c][r] + 1] /\ level[c][r] \in {1, 2}
      BY <1>3, <2>3 DEF Advance, TypeOK
    <3>2. level[c][r] + 1 \in Level
      BY <3>1 DEF Level
    <3> QED
      BY <1>3, <3>1, <3>2, RowMoves
  <2>4. ASSUME NEW s \in Sync, SyncAnswer(s) PROVE [Levels!Next]_at
    <3> DEFINE r == sync[s].r
               c == target[r]
    <3>1. r \in Request /\ c \in Controller
      <4>1. r \in Request
        BY <1>3, <2>4, AbsentCall, SyncCallType DEF SyncAnswer
      <4> QED
        BY <1>3, <2>4, <4>1 DEF SyncAnswer, TypeOK
    <3>2. \/ level' = [level EXCEPT ![c][r] = Cancelled(level[c][r])]
          \/ level' = [level EXCEPT ![c][r] = level[c][r]]
      BY <1>3, <2>4, <3>1 DEF SyncAnswer, TypeOK
    <3>3. \/ level' = [level EXCEPT ![c][r] = 3] /\ level[c][r] = 1
          \/ level' = [level EXCEPT ![c][r] = level[c][r]]
      BY <3>2 DEF Cancelled
    <3> HIDE DEF r, c
    <3>4. CASE level' = [level EXCEPT ![c][r] = 3] /\ level[c][r] = 1
      BY <1>2, <1>3, <3>1, <3>4, RowMoves
    <3>5. CASE level' = [level EXCEPT ![c][r] = level[c][r]]
      <4>1. level' = level
        BY <1>3, <3>1, <3>5, RowStays
      <4> QED
        BY <4>1
    <3> QED
      BY <3>3, <3>4, <3>5
  <2> QED
    BY <1>3, <2>1, <2>2, <2>3, <2>4, LevelStep
<1> QED
  BY <1>1, <1>3, SubmitInvariant, PTL DEF Spec, ImplementsLevels, Levels!Spec
=============================================================================
