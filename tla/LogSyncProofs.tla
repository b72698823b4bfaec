--------------------------- MODULE LogSyncProofs ---------------------------
(***************************************************************************)
(* Theorems about LogSync, for every set of tasks, every length of the     *)
(* logs, every page size and window, and every number of calls in flight.  *)
(***************************************************************************)
EXTENDS LogSync, FiniteSetTheorems, WellFoundedInduction, TLAPS

\* The order of the naturals, as a relation.
Less == {p \in Nat \X Nat : p[1] < p[2]}

\* A bounded, non-empty set of naturals has a maximum.
LEMMA MaxIsMember ==
  ASSUME NEW b \in Nat, NEW S \in SUBSET (0..b), S # {}
  PROVE  Max(S) \in S /\ \A n \in S : Max(S) >= n
<1> DEFINE T == {b - n : n \in S}
<1>1. IsWellFoundedOn(Less, Nat)
  BY NatLessThanWellFounded DEF OpToRel, Less
<1>2. T \subseteq Nat /\ T # {}
  <2>1. \A n \in S : n \in 0..b /\ b - n \in Nat
    OBVIOUS
  <2> QED  BY <2>1
<1>3. PICK d \in T : \A e \in T : ~ (<<e, d>> \in Less)
  <2> HIDE DEF T
  <2> QED  BY <1>1, <1>2, WFMin
<1>4. PICK m \in S : d = b - m
  OBVIOUS
<1>5. \A n \in S : m >= n
  <2> TAKE n \in S
  <2>1. b - n \in T /\ b - n \in Nat /\ d \in Nat
    OBVIOUS
  <2>2. ~ (b - n < d)
    BY <2>1, <1>3 DEF Less
  <2> QED  BY <2>2, <1>4
<1> QED
  BY <1>5 DEF Max

\* ORDER BY seq LIMIT Page of a log without gaps are the Page rows behind the
\* cursor (events, cache_events).
LEMMA FirstPageIsInterval ==
  ASSUME NEW c \in Nat, NEW a \in Nat
  PROVE  FirstPage(1..c, a) = {n \in 1..c : n > a /\ n <= a + Page}
<1> SUFFICES ASSUME NEW n \in 1..c, n > a
             PROVE  Cardinality({m \in 1..c : m > a /\ m < n}) < Page <=> n <= a + Page
  BY DEF FirstPage
<1> DEFINE Before == {m \in 1..c : m > a /\ m < n}
<1>1. Before = (a + 1)..(n - 1)
  OBVIOUS
<1>2. Cardinality(Before) = (n - 1) - a
  <2>1. a + 1 \in Int /\ n - 1 \in Int
    OBVIOUS
  <2>2. Cardinality((a + 1)..(n - 1))
          = IF a + 1 > n - 1 THEN 0 ELSE (n - 1) - (a + 1) + 1
    BY <2>1, FS_Interval
  <2>3. Cardinality(Before) = IF a + 1 > n - 1 THEN 0 ELSE (n - 1) - (a + 1) + 1
    BY <1>1, <2>2
  <2> HIDE DEF Before
  <2> QED  BY <2>3
<1> HIDE DEF Before
<1>3. Cardinality(Before) < Page <=> n <= a + Page
  BY <1>2, PageAssumption
<1> QED
  BY <1>3 DEF Before

\* The first page is an interval that begins behind the cursor and ends where
\* the log or the page does.
LEMMA FirstPageEnds ==
  ASSUME NEW c \in Nat, NEW a \in Nat
  PROVE  \E n \in 0..c : FirstPage(1..c, a) = (a + 1)..n /\ (a <= c => n >= a)
<1>1. CASE c <= a + Page
  <2>1. FirstPage(1..c, a) = (a + 1)..c
    <3>1. {n \in 1..c : n > a /\ n <= a + Page} = (a + 1)..c
      BY <1>1, PageAssumption
    <3> QED  BY <3>1, FirstPageIsInterval
  <2> QED  BY <2>1
<1>2. CASE c > a + Page
  <2>1. FirstPage(1..c, a) = (a + 1)..(a + Page) /\ a + Page \in 0..c
    <3>1. {n \in 1..c : n > a /\ n <= a + Page} = (a + 1)..(a + Page)
      BY <1>2, PageAssumption
    <3>2. FirstPage(1..c, a) = (a + 1)..(a + Page)
      BY <3>1, FirstPageIsInterval
    <3> QED  BY <1>2, <3>2, PageAssumption
  <2> QED  BY <2>1, PageAssumption
<1> QED
  BY <1>1, <1>2, PageAssumption

\* The rows of a task with the sequence numbers from a to b.
RowsOf(t, a, b) == {[seq |-> n, task |-> t] : n \in a..b}

\* There are as many rows as sequence numbers.
LEMMA RowCount ==
  ASSUME NEW t, NEW a \in Nat, NEW b \in Nat
  PROVE  Cardinality(RowsOf(t, a, b)) = IF a > b THEN 0 ELSE b - a + 1
<1> DEFINE f == [n \in a..b |-> [seq |-> n, task |-> t]]
<1>1. f \in Bijection(a..b, RowsOf(t, a, b))
  <2>1. f \in [a..b -> RowsOf(t, a, b)]
    BY DEF RowsOf
  <2>2. \A m, n \in a..b : f[m] = f[n] => m = n
    <3> TAKE m, n \in a..b
    <3> HAVE f[m] = f[n]
    <3>1. f[m].seq = m /\ f[n].seq = n
      OBVIOUS
    <3> QED  BY <3>1
  <2>3. \A x \in RowsOf(t, a, b) : \E n \in a..b : f[n] = x
    BY DEF RowsOf
  <2> QED
    BY <2>1, <2>2, <2>3 DEF Bijection, Injection, Surjection, IsInjective
<1>2. IsFiniteSet(a..b) /\ Cardinality(a..b) = IF a > b THEN 0 ELSE b - a + 1
  <2>1. a \in Int /\ b \in Int
    OBVIOUS
  <2> QED  BY <2>1, FS_Interval
<1> HIDE DEF f
<1> QED
  BY <1>1, <1>2, FS_Bijection DEF ExistsBijection

\* slice(-2000) of rows without a gap keeps the Window last of them.
LEMMA NewestRows ==
  ASSUME NEW t, NEW a \in Nat, NEW b \in Nat
  PROVE  Newest(RowsOf(t, a, b)) = {[seq |-> n, task |-> t] : n \in {m \in a..b : m + Window > b}}
<1> SUFFICES ASSUME NEW n \in a..b
             PROVE  Cardinality({y \in RowsOf(t, a, b) : y.seq > n}) < Window <=> n + Window > b
  BY DEF Newest, RowsOf
<1> DEFINE Newer == {y \in RowsOf(t, a, b) : y.seq > n}
<1>1. Newer = RowsOf(t, n + 1, b)
  BY DEF RowsOf
<1>2. Cardinality(Newer) = b - n
  BY <1>1, RowCount
<1> HIDE DEF Newer
<1>3. Cardinality(Newer) < Window <=> n + Window > b
  BY <1>2, WindowAssumption
<1> QED
  BY <1>3 DEF Newer

-----------------------------------------------------------------------------
ActiveCall == [pc : {"asked", "fetched", "synced"}, task : Task,
               after : 0..MaxLog, got : SUBSET Seqs]
OpenPage == [task : Task, after : 0..MaxLog, loading : Call \cup {NoCall}]

\* A call that is not idle, and a page that is open, have their fields.
LEMMA Fields ==
  ASSUME TypeOK
  PROVE  /\ \A k \in Call : call[k].pc # "idle" <=> call[k] # Idle
         /\ \A k \in Call : call[k] # Idle => call[k] \in ActiveCall
         /\ page # Closed => page \in OpenPage
         /\ page.task \in Task <=> page # Closed
         /\ \A k \in Call : page.loading = k => page # Closed
BY NoTaskAssumption DEF TypeOK, ActiveCall, OpenPage, Idle, Closed

\* A page of events is a set of sequence numbers.
LEMMA FirstPageType ==
  ASSUME NEW S, NEW a
  PROVE  FirstPage(S, a) \subseteq S
BY DEF FirstPage

\* Return puts the cursor on a row of the log.
LEMMA ReturnType ==
  ASSUME TypeOK, NEW k \in Call, Return(k)
  PROVE  TypeOK'
<1>1. call[k] \in ActiveCall
  BY Fields DEF Return
<1>2. call' \in [Call -> {Idle} \cup ActiveCall]
  BY DEF Return, TypeOK, ActiveCall
<1>3. CASE page.loading = k
  <2> DEFINE new == FirstPage(cached[call[k].task], call[k].after)
             fresh == {[seq |-> n, task |-> call[k].task] : n \in new}
  <2>1. new \subseteq Seqs
    BY <1>1, FirstPageType DEF TypeOK, ActiveCall
  <2>2. new # {} => Max(new) \in 0..MaxLog
    <3> HIDE DEF new
    <3> HAVE new # {}
    <3>1. new \in SUBSET (0..MaxLog) /\ MaxLog \in Nat
      BY <2>1, PageAssumption DEF Seqs
    <3> QED  BY <3>1, MaxIsMember
  <2>3. fresh \subseteq Row
    BY <2>1, <1>1 DEF Row, ActiveCall
  <2>4. Shown(fresh) \subseteq Row
    BY <2>3 DEF Shown, Newest, TypeOK
  <2>5. page \in OpenPage
    BY <1>3, Fields
  <2>6. /\ rows' = Shown(fresh)
        /\ page' = [page EXCEPT !.loading = NoCall, !.after = IF new = {} THEN @ ELSE Max(new)]
    BY <1>3 DEF Return
  <2>7. page' \in OpenPage
    <3> HIDE DEF new
    <3> QED  BY <2>2, <2>5, <2>6 DEF OpenPage
  <2>8. rows' \subseteq Row
    BY <2>4, <2>6
  <2> QED
    BY <1>2, <2>7, <2>8 DEF Return, TypeOK, ActiveCall, OpenPage
<1>4. CASE page.loading # k
  BY <1>2, <1>4 DEF Return, TypeOK, ActiveCall
<1> QED
  BY <1>3, <1>4

\* Every step keeps the types.
LEMMA TypeStep ==
  ASSUME TypeOK, [Next]_vars
  PROVE  TypeOK'
<1> USE DEF TypeOK
<1>1. ASSUME NEW t \in Task, NEW size \in WireSize, LogEvent(t, size) PROVE TypeOK'
  <2>1. Append(log[t], size) \in Seq(WireSize) /\ Len(Append(log[t], size)) = Len(log[t]) + 1
    BY <1>1
  <2>2. log' \in [Task -> Seq(WireSize)] /\ \A u \in Task : Len(log'[u]) <= MaxLog
    BY <1>1, <2>1, PageAssumption DEF LogEvent
  <2> QED  BY <1>1, <2>2 DEF LogEvent
<1>2. ASSUME NEW t \in Task, Open(t) PROVE TypeOK'
  BY <1>2, PageAssumption DEF Open
<1>3. CASE Close
  BY <1>3 DEF Close
<1>4. ASSUME NEW t \in Late, SubmitReturns(t) PROVE TypeOK'
  BY <1>4, WindowAssumption DEF SubmitReturns
<1>5. ASSUME NEW k \in Call, Refresh(k) PROVE TypeOK'
  BY <1>5, Fields DEF Refresh, OpenPage
<1>6. ASSUME NEW k \in Call, Fetch(k) PROVE TypeOK'
  <2>1. call[k] \in ActiveCall
    BY <1>6, Fields DEF Fetch
  <2>2. FirstPage(DOMAIN log[call[k].task], call[k].after) \subseteq Seqs
    BY <2>1, FirstPageType, PageAssumption DEF ActiveCall, Seqs
  <2> QED  BY <1>6, <2>1, <2>2 DEF Fetch, ActiveCall
<1>7. ASSUME NEW k \in Call, CacheEvents(k) PROVE TypeOK'
  <2>1. call[k] \in ActiveCall
    BY <1>7, Fields DEF CacheEvents
  <2> QED  BY <1>7, <2>1 DEF CacheEvents, ActiveCall
<1>8. ASSUME NEW k \in Call, SyncFails(k) PROVE TypeOK'
  <2>1. call[k] \in ActiveCall
    BY <1>8, Fields DEF SyncFails
  <2> QED  BY <1>8, <2>1 DEF SyncFails, ActiveCall
<1>9. ASSUME NEW k \in Call, Return(k) PROVE TypeOK'
  BY <1>9, ReturnType
<1>10. ASSUME NEW k \in Call, ReturnError(k) PROVE TypeOK'
  BY <1>10, Fields DEF ReturnError, OpenPage
<1>11. CASE AppExit
  BY <1>11 DEF AppExit
<1>12. CASE UNCHANGED vars
  BY <1>12 DEF vars
<1> QED
  BY <1>1, <1>2, <1>3, <1>4, <1>5, <1>6, <1>7, <1>8, <1>9, <1>10, <1>11, <1>12 DEF Next

\* Every reachable state is well typed: no cursor or row beyond the log's
\* bound, no page without a task.
THEOREM TypeCorrect == Spec => []TypeOK
<1>1. Init => TypeOK
  BY PageAssumption DEF Init, TypeOK
<1>2. TypeOK /\ [Next]_vars => TypeOK'
  BY TypeStep
<1> QED
  BY <1>1, <1>2, PTL DEF Spec

-----------------------------------------------------------------------------
\* The rows of a contiguous page are an interval.
LEMMA LatestRows ==
  ASSUME NEW t, NEW a \in Nat
  PROVE  \E lo \in Nat \ {0} : /\ lo <= a + 1
                               /\ Latest(t, a) = RowsOf(t, lo, a)
                               /\ \A n \in Nat \ {0} : n + Window > a => n >= lo
<1>1. CASE a >= Window
  <2>1. {m \in 1..a : m + Window > a} = (a - Window + 1)..a
    BY <1>1, WindowAssumption
  <2>2. Latest(t, a) = RowsOf(t, a - Window + 1, a)
    BY <2>1 DEF Latest, RowsOf
  <2>3. a - Window + 1 \in Nat \ {0} /\ a - Window + 1 <= a + 1
    BY <1>1, WindowAssumption
  <2>4. \A n \in Nat \ {0} : n + Window > a => n >= a - Window + 1
    BY WindowAssumption
  <2> QED  BY <2>2, <2>3, <2>4
<1>2. CASE a < Window
  <2>1. {m \in 1..a : m + Window > a} = 1..a
    BY <1>2, WindowAssumption
  <2>2. Latest(t, a) = RowsOf(t, 1, a)
    BY <2>1 DEF Latest, RowsOf
  <2> QED  BY <2>2
<1> QED
  BY <1>1, <1>2, WindowAssumption

\* slice(-2000) of a contiguous page and the rows behind its cursor is the
\* contiguous page of the last of them.
LEMMA MergedRows ==
  ASSUME NEW t, NEW a \in Nat, NEW b \in Nat, b >= a, rows = Latest(t, a)
  PROVE  Shown(RowsOf(t, a + 1, b)) = Latest(t, b)
<1>1. PICK lo \in Nat \ {0} : /\ lo <= a + 1
                             /\ Latest(t, a) = RowsOf(t, lo, a)
                             /\ \A n \in Nat \ {0} : n + Window > a => n >= lo
  BY LatestRows
<1>2. {x \in rows : \A y \in RowsOf(t, a + 1, b) : y.seq # x.seq} = rows
  BY <1>1 DEF RowsOf
<1>3. RowsOf(t, a + 1, b) \cup rows = RowsOf(t, lo, b)
  <2>1. (a + 1)..b \cup lo..a = lo..b
    BY <1>1
  <2> QED  BY <1>1, <2>1 DEF RowsOf
<1>4. {m \in lo..b : m + Window > b} = {m \in 1..b : m + Window > b}
  BY <1>1, WindowAssumption
<1> QED
  BY <1>2, <1>3, <1>4, NewestRows DEF Shown, Latest

\* What a call of a page mounted anew answers with: the rows behind the
\* cursor, without a gap.
LEMMA Answer ==
  ASSUME TypeOK, FollowInv, NEW k \in Call, Return(k),
         page.loading = k, page.task \in Task \ Late
  PROVE  \E b \in {0} \cup cached[page.task] :
           /\ page.after \in Nat /\ b \in Nat /\ b >= page.after
           /\ rows' = Shown(RowsOf(page.task, page.after + 1, b))
           /\ page' = [page EXCEPT !.loading = NoCall, !.after = b]
<1> DEFINE t == page.task
           a == page.after
           new == FirstPage(cached[t], a)
<1>1. call[k].task = t /\ call[k].after = a
  BY DEF FollowInv, PageFollows
<1>2. page \in OpenPage
  BY Fields
<1>3. PICK c \in 0..Len(log[t]) : cached[t] = 1..c
  BY DEF FollowInv, CacheIsPrefix
<1>4. c \in Nat /\ a \in Nat /\ a <= c
  <2>1. a \in {0} \cup cached[t]
    BY DEF FollowInv, PageFollows
  <2>2. log[t] \in Seq(WireSize)
    BY <1>2 DEF TypeOK, OpenPage
  <2> QED  BY <1>2, <1>3, <2>1, <2>2, PageAssumption DEF OpenPage
<1>5. PICK b \in 0..c : new = (a + 1)..b /\ b >= a
  BY <1>3, <1>4, FirstPageEnds
<1>6. {[seq |-> n, task |-> call[k].task] : n \in new} = RowsOf(t, a + 1, b)
  BY <1>1, <1>5 DEF RowsOf
<1>7. (IF new = {} THEN a ELSE Max(new)) = b
  <2>1. CASE b = a
    BY <1>4, <1>5, <2>1
  <2>2. CASE b > a
    <3>1. new # {} /\ b \in new /\ \A n \in new : n <= b
      <4>1. a \in Nat /\ b \in Nat /\ a + 1 <= b /\ new = (a + 1)..b
        BY <1>4, <1>5, <2>2
      <4> HIDE DEF new, a
      <4> QED  BY <4>1
    <3>2. new \in SUBSET (0..b) /\ b \in Nat
      BY <1>4, <1>5
    <3> HIDE DEF new
    <3>3. Max(new) \in new /\ Max(new) >= b
      BY <3>1, <3>2, MaxIsMember
    <3>4. \A n \in new : n \in Nat /\ n <= b
      BY <3>1, <3>2
    <3>5. Max(new) \in Nat /\ Max(new) <= b
      BY <3>3, <3>4, Zenon
    <3> QED  BY <3>1, <3>2, <3>3, <3>5
  <2> QED  BY <1>4, <1>5, <2>1, <2>2
<1>8. rows' = Shown(RowsOf(t, a + 1, b))
  BY <1>1, <1>6 DEF Return
<1>9. page' = [page EXCEPT !.loading = NoCall, !.after = b]
  <2>1. page' = [page EXCEPT !.loading = NoCall, !.after = IF new = {} THEN a ELSE Max(new)]
    BY <1>1 DEF Return
  <2> HIDE DEF new
  <2> QED  BY <1>7, <2>1
<1>10. b \in {0} \cup cached[t] /\ b \in Nat /\ b >= a
  BY <1>3, <1>4, <1>5
<1> QED
  BY <1>4, <1>8, <1>9, <1>10

\* The steps of the log and of the task page keep the invariant.
LEMMA PageStep ==
  ASSUME TypeOK, FollowInv,
         \/ \E t \in Task, size \in WireSize : LogEvent(t, size)
         \/ \E t \in Task : Open(t)
         \/ Close
         \/ \E t \in Late : SubmitReturns(t)
         \/ \E k \in Call : Refresh(k)
         \/ AppExit
  PROVE  FollowInv'
<1> USE DEF FollowInv
<1>1. ASSUME NEW t \in Task, NEW size \in WireSize, LogEvent(t, size) PROVE FollowInv'
  <2>1. \A u \in Task : Len(log[u]) \in Nat /\ Len(log'[u]) \in Nat /\ Len(log[u]) <= Len(log'[u])
    <3>1. Append(log[t], size) \in Seq(WireSize) /\ Len(Append(log[t], size)) = Len(log[t]) + 1
      BY DEF TypeOK
    <3> QED  BY <1>1, <3>1 DEF LogEvent, TypeOK
  <2>2. CacheIsPrefix'
    BY <1>1, <2>1 DEF LogEvent, CacheIsPrefix
  <2>3. ASSUME NEW j \in Call PROVE CallFollows(j)'
    <3> SUFFICES ASSUME call[j].pc # "idle" PROVE CallFollows(j)'
      BY <1>1 DEF LogEvent, CallFollows
    <3>1. call[j].task \in Task
      BY Fields DEF ActiveCall
    <3> QED  BY <1>1, <2>1, <3>1 DEF LogEvent, CallFollows
  <2>4. PageIsContiguous' /\ PageFollows'
    BY <1>1 DEF LogEvent, PageIsContiguous, Contiguous, Latest, PageFollows
  <2> QED  BY <2>2, <2>3, <2>4
<1>2. ASSUME NEW t \in Task, Open(t) PROVE FollowInv'
  <2>1. page' = [task |-> t, after |-> 0, loading |-> NoCall] /\ rows' = {}
    BY <1>2 DEF Open
  <2>2. \A u : Latest(u, 0) = {}
    BY DEF Latest
  <2>3. PageIsContiguous'
    BY <2>1, <2>2 DEF PageIsContiguous, Contiguous, Latest
  <2>4. PageFollows'
    BY <2>1, NoTaskAssumption DEF PageFollows
  <2> QED  BY <1>2, <2>3, <2>4 DEF Open, CacheIsPrefix, CallFollows
<1>3. CASE Close
  BY <1>3, NoTaskAssumption DEF Close, Closed, CacheIsPrefix, CallFollows,
     PageIsContiguous, Contiguous, PageFollows
<1>4. ASSUME NEW t \in Late, SubmitReturns(t) PROVE FollowInv'
  <2>1. page'.task = t
    BY <1>4, Fields DEF SubmitReturns, OpenPage
  <2> QED
    BY <1>4, <2>1 DEF SubmitReturns, CacheIsPrefix, CallFollows,
       PageIsContiguous, Contiguous, PageFollows
<1>5. ASSUME NEW k \in Call, Refresh(k) PROVE FollowInv'
  <2>1. page \in OpenPage
    BY <1>5, Fields DEF Refresh
  <2>2. /\ call' = [call EXCEPT ![k] = [pc |-> "asked", task |-> page.task,
                                       after |-> page.after, got |-> {}]]
        /\ page' = [page EXCEPT !.loading = k]
        /\ UNCHANGED <<log, cached, rows>>
    BY <1>5 DEF Refresh
  <2>3. page'.task = page.task /\ page'.after = page.after /\ page'.loading = k
    BY <2>1, <2>2 DEF OpenPage
  <2>4. /\ call'[k] = [pc |-> "asked", task |-> page.task, after |-> page.after, got |-> {}]
        /\ \A j \in Call : j # k => call'[j] = call[j]
    BY <2>2 DEF TypeOK
  <2>5. ASSUME NEW j \in Call PROVE CallFollows(j)'
    <3>1. CASE j # k
      BY <2>2, <2>4, <3>1 DEF CallFollows
    <3>2. CASE j = k
      <4>1. page.task \in Task \ Late => page.after \in {0} \cup cached[page.task]
        BY DEF PageFollows
      <4>2. {} = (page.after + 1)..0 /\ 0 \in 0..Len(log[page.task])
        BY <2>1 DEF OpenPage, TypeOK
      <4> QED  BY <2>1, <2>2, <2>4, <3>2, <4>1, <4>2 DEF CallFollows, OpenPage
    <3> QED  BY <3>1, <3>2
  <2>6. PageFollows'
    BY <2>2, <2>3, <2>4 DEF PageFollows
  <2>7. CacheIsPrefix' /\ PageIsContiguous'
    BY <2>2, <2>3 DEF CacheIsPrefix, PageIsContiguous, Contiguous, Latest
  <2> QED  BY <2>5, <2>6, <2>7
<1>6. CASE AppExit
  BY <1>6, NoTaskAssumption DEF AppExit, Closed, Idle, CacheIsPrefix, CallFollows,
     PageIsContiguous, Contiguous, PageFollows
<1> QED
  BY <1>1, <1>2, <1>3, <1>4, <1>5, <1>6

\* So do the steps of a call: a fetched batch begins at the cursor, storing
\* it lengthens the beginning that is stored, and the answer moves the cursor
\* of the page to the last row it has.
LEMMA CallStep ==
  ASSUME TypeOK, FollowInv, NEW k \in Call,
         Fetch(k) \/ CacheEvents(k) \/ SyncFails(k) \/ Return(k) \/ ReturnError(k)
  PROVE  FollowInv'
<1> USE DEF FollowInv
<1> DEFINE t == call[k].task
           a == call[k].after
<1>a. call[k] \in ActiveCall /\ call[k].pc # "idle" /\ t \in Task /\ a \in Nat
  <2>1. call[k] # Idle
    BY DEF Fetch, CacheEvents, SyncFails, Return, ReturnError, Idle
  <2> QED  BY <2>1, Fields, PageAssumption DEF ActiveCall
<1>b. CallFollows(k)
  OBVIOUS
<1>1. CASE Fetch(k)
  <2>1. log[t] \in Seq(WireSize) /\ DOMAIN log[t] = 1..Len(log[t]) /\ Len(log[t]) \in Nat
    BY <1>a DEF TypeOK
  <2>2. PICK n \in 0..Len(log[t]) : FirstPage(1..Len(log[t]), a) = (a + 1)..n
    BY <1>a, <2>1, FirstPageEnds
  <2>3. /\ call'[k].task = t /\ call'[k].after = a /\ call'[k].pc = "fetched"
        /\ call'[k].got = (a + 1)..n
        /\ \A j \in Call : j # k => call'[j] = call[j]
    BY <1>1, <1>a, <2>1, <2>2 DEF Fetch, TypeOK, ActiveCall
  <2>4. ASSUME NEW j \in Call PROVE CallFollows(j)'
    <3>1. CASE j # k
      BY <1>1, <2>3, <3>1 DEF CallFollows, Fetch
    <3>2. CASE j = k
      BY <1>1, <1>a, <1>b, <2>3, <3>2 DEF CallFollows, Fetch
    <3> QED  BY <3>1, <3>2
  <2>5. CacheIsPrefix' /\ PageIsContiguous'
    BY <1>1 DEF Fetch, CacheIsPrefix, PageIsContiguous, Contiguous, Latest
  <2>6. PageFollows'
    BY <1>1, <1>a, <2>3 DEF Fetch, PageFollows
  <2> QED  BY <2>4, <2>5, <2>6
<1>2. CASE CacheEvents(k)
  <2>1. /\ call'[k].task = t /\ call'[k].after = a /\ call'[k].pc = "synced"
        /\ call'[k].got = {}
        /\ \A j \in Call : j # k => call'[j] = call[j]
    BY <1>2, <1>a DEF CacheEvents, TypeOK, ActiveCall
  <2>2. /\ cached'[t] = cached[t] \cup call[k].got
        /\ \A u \in Task : u # t => cached'[u] = cached[u]
    BY <1>2, <1>a DEF CacheEvents, TypeOK
  <2>3. \A u \in Task : cached[u] \subseteq cached'[u]
    BY <2>2
  <2>4. CacheIsPrefix'
    <3> SUFFICES ASSUME NEW u \in Task \ Late
                 PROVE  \E n \in 0..Len(log[u]) : cached'[u] = 1..n
      BY <1>2 DEF CacheIsPrefix, CacheEvents
    <3>1. PICK c \in 0..Len(log[u]) : cached[u] = 1..c
      BY DEF CacheIsPrefix
    <3>2. CASE u # t
      BY <2>2, <3>1, <3>2
    <3>3. CASE u = t
      <4>1. PICK n \in 0..Len(log[t]) : call[k].got = (a + 1)..n
        BY <1>a, <1>b DEF CallFollows
      <4>2. Len(log[t]) \in Nat
        BY <1>a DEF TypeOK
      <4>3. a <= c
        BY <1>a, <1>b, <3>1, <3>3, <4>2 DEF CallFollows
      <4>4. cached'[u] = 1..c \cup (a + 1)..n
        BY <2>2, <3>1, <3>3, <4>1
      <4>5. CASE n <= c
        <5>1. 1..c \cup (a + 1)..n = 1..c
          BY <1>a, <4>2, <4>3, <4>5
        <5> QED  BY <3>1, <4>4, <5>1
      <4>6. CASE n > c
        <5>1. 1..c \cup (a + 1)..n = 1..n
          BY <1>a, <3>3, <4>2, <4>3, <4>6
        <5> QED  BY <3>3, <4>4, <5>1
      <4> QED  BY <3>3, <4>2, <4>5, <4>6
    <3> QED  BY <3>2, <3>3
  <2>5. ASSUME NEW j \in Call PROVE CallFollows(j)'
    <3>1. call[j].pc # "idle" => call[j].task \in Task
      BY Fields DEF ActiveCall
    <3>2. CASE j # k
      BY <1>2, <2>1, <2>3, <3>1, <3>2 DEF CallFollows, CacheEvents
    <3>3. CASE j = k
      <4>1. {} = (a + 1)..0 /\ 0 \in 0..Len(log[t])
        BY <1>a DEF TypeOK
      <4>2. log' = log /\ (t \in Late \/ a \in {0} \cup cached'[t])
        BY <1>2, <1>a, <1>b, <2>3 DEF CallFollows, CacheEvents
      <4> QED  BY <2>1, <3>3, <4>1, <4>2 DEF CallFollows
    <3> QED  BY <3>2, <3>3
  <2>6. PageIsContiguous'
    BY <1>2 DEF CacheEvents, PageIsContiguous, Contiguous, Latest
  <2>7. PageFollows'
    BY <1>2, <1>a, <2>1, <2>3 DEF CacheEvents, PageFollows
  <2> QED  BY <2>4, <2>5, <2>6, <2>7
<1>3. CASE SyncFails(k)
  <2>1. /\ call'[k].task = t /\ call'[k].after = a /\ call'[k].pc = "synced"
        /\ call'[k].got = {}
        /\ \A j \in Call : j # k => call'[j] = call[j]
    BY <1>3, <1>a DEF SyncFails, TypeOK, ActiveCall
  <2>2. ASSUME NEW j \in Call PROVE CallFollows(j)'
    <3>1. CASE j # k
      BY <1>3, <2>1, <3>1 DEF CallFollows, SyncFails
    <3>2. CASE j = k
      <4>1. {} = (a + 1)..0 /\ 0 \in 0..Len(log[t])
        BY <1>a DEF TypeOK
      <4>2. log' = log /\ (t \in Late \/ a \in {0} \cup cached'[t])
        BY <1>3, <1>a, <1>b DEF CallFollows, SyncFails
      <4> QED  BY <2>1, <3>2, <4>1, <4>2 DEF CallFollows
    <3> QED  BY <3>1, <3>2
  <2>3. CacheIsPrefix' /\ PageIsContiguous'
    BY <1>3 DEF SyncFails, CacheIsPrefix, PageIsContiguous, Contiguous, Latest
  <2>4. PageFollows'
    BY <1>3, <1>a, <2>1 DEF SyncFails, PageFollows
  <2> QED  BY <2>2, <2>3, <2>4
<1>4. CASE Return(k)
  <2>1. /\ call'[k] = Idle /\ UNCHANGED <<log, cached>>
        /\ \A j \in Call : j # k => call'[j] = call[j]
    BY <1>4 DEF Return, TypeOK
  <2>2. CacheIsPrefix' /\ \A j \in Call : CallFollows(j)'
    BY <2>1 DEF CacheIsPrefix, CallFollows, Idle
  <2>3. CASE page.loading # k
    <3>1. UNCHANGED <<page, rows>>
      BY <1>4, <2>3 DEF Return
    <3> QED
      BY <2>1, <2>2, <2>3, <3>1 DEF PageIsContiguous, Contiguous, Latest, PageFollows
  <2>4. CASE page.loading = k
    <3>1. page \in OpenPage
      BY <2>4, Fields
    <3>2. page'.task = page.task /\ page'.loading = NoCall
      BY <1>4, <2>4, <3>1 DEF Return, OpenPage
    <3>3. CASE page.task \in Late
      BY <2>2, <3>2, <3>3 DEF PageIsContiguous, Contiguous, PageFollows
    <3>4. CASE page.task \in Task \ Late
      <4>1. PICK b \in {0} \cup cached[page.task] :
              /\ page.after \in Nat /\ b \in Nat /\ b >= page.after
              /\ rows' = Shown(RowsOf(page.task, page.after + 1, b))
              /\ page' = [page EXCEPT !.loading = NoCall, !.after = b]
        BY <1>4, <2>4, <3>4, Answer
      <4>2. rows = Latest(page.task, page.after)
        BY <3>4 DEF PageIsContiguous, Contiguous
      <4>3. rows' = Latest(page.task, b)
        BY <4>1, <4>2, MergedRows
      <4>4. page'.after = b
        BY <3>1, <4>1 DEF OpenPage
      <4>5. PageIsContiguous'
        BY <3>2, <4>3, <4>4 DEF PageIsContiguous, Contiguous, Latest
      <4>6. PageFollows'
        BY <2>1, <3>2, <4>1, <4>4, NoTaskAssumption DEF PageFollows
      <4> QED  BY <2>2, <4>5, <4>6
    <3> QED  BY <3>1, <3>3, <3>4 DEF OpenPage
  <2> QED  BY <2>3, <2>4
<1>5. CASE ReturnError(k)
  <2>1. /\ call'[k] = Idle /\ UNCHANGED <<log, cached, rows>>
        /\ \A j \in Call : j # k => call'[j] = call[j]
    BY <1>5 DEF ReturnError, TypeOK
  <2>2. page'.task = page.task /\ page'.after = page.after
    BY <1>5, Fields DEF ReturnError, OpenPage
  <2>3. page'.loading # k /\ (page'.loading \in Call => page'.loading = page.loading)
    BY <1>5, Fields, NoTaskAssumption DEF ReturnError, OpenPage
  <2>4. PageFollows'
    BY <2>1, <2>2, <2>3 DEF PageFollows
  <2> QED
    BY <2>1, <2>2, <2>4 DEF CacheIsPrefix, CallFollows, Idle, PageIsContiguous, Contiguous, Latest
<1> QED
  BY <1>1, <1>2, <1>3, <1>4, <1>5

\* Rows are shown of what is stored, which is never removed.
LEMMA ShownStep ==
  ASSUME TypeOK, ShownIsStored, [Next]_vars
  PROVE  ShownIsStored'
<1>1. ASSUME NEW k \in Call, Return(k) PROVE ShownIsStored'
  <2> DEFINE t == call[k].task
             new == FirstPage(cached[t], call[k].after)
             fresh == {[seq |-> n, task |-> t] : n \in new}
  <2>1. UNCHANGED cached /\ (rows' = rows \/ rows' = Shown(fresh))
    BY <1>1 DEF Return
  <2>2. Shown(fresh) \subseteq fresh \cup rows
    BY DEF Shown, Newest
  <2>3. \A x \in fresh : x.seq \in cached[x.task]
    <3>1. new \subseteq cached[t]
      BY FirstPageType
    <3> QED  BY <3>1
  <2> QED
    BY <2>1, <2>2, <2>3 DEF ShownIsStored
<1>2. ASSUME NEW k \in Call, CacheEvents(k) PROVE ShownIsStored'
  <2>1. \A x \in rows : x.task \in Task
    BY DEF TypeOK, Row
  <2>2. \A u \in Task : cached[u] \subseteq cached'[u]
    BY <1>2 DEF CacheEvents, TypeOK
  <2> QED  BY <1>2, <2>1, <2>2 DEF CacheEvents, ShownIsStored
<1>3. CASE UNCHANGED <<cached, rows>> \/ (UNCHANGED cached /\ rows' = {})
  BY <1>3 DEF ShownIsStored
<1> QED
  BY <1>1, <1>2, <1>3 DEF Next, vars, LogEvent, Open, Close, SubmitReturns, Refresh, Fetch,
     SyncFails, ReturnError, AppExit

\* What the task page shows is stored in controller.db, so it is there again
\* without a connection (remote_detail answers from the store).
THEOREM ShownIsStoredHolds == Spec => []ShownIsStored
<1>1. Init => ShownIsStored
  BY DEF Init, ShownIsStored
<1>2. TypeOK /\ ShownIsStored /\ [Next]_vars => ShownIsStored'
  BY ShownStep
<1> QED
  BY <1>1, <1>2, TypeCorrect, PTL DEF Spec

\* No cursor is ahead of what is stored, a fetched batch begins at its call's
\* cursor, and the open page waits only for a call of its own task and cursor.
THEOREM FollowInvariant == Spec => []FollowInv
<1>1. Init => FollowInv
  <2> SUFFICES ASSUME Init PROVE FollowInv
    OBVIOUS
  <2>1. \A t \in Task : cached[t] = 1..0 /\ Len(log[t]) = 0
    BY DEF Init
  <2>2. CacheIsPrefix
    <3> SUFFICES ASSUME NEW t \in Task PROVE \E n \in 0..Len(log[t]) : cached[t] = 1..n
      BY DEF CacheIsPrefix
    <3>1. 0 \in 0..Len(log[t])
      BY <2>1
    <3> QED  BY <2>1, <3>1
  <2> QED
    BY <2>2, NoTaskAssumption DEF Init, FollowInv, PageIsContiguous, Contiguous, CallFollows,
       PageFollows, Idle, Closed
<1>2. TypeOK /\ FollowInv /\ [Next]_vars => FollowInv'
  <2> SUFFICES ASSUME TypeOK, FollowInv, [Next]_vars PROVE FollowInv'
    OBVIOUS
  <2>1. CASE \E k \in Call : \/ Fetch(k) \/ CacheEvents(k) \/ SyncFails(k)
                            \/ Return(k) \/ ReturnError(k)
    BY <2>1, CallStep
  <2>2. CASE UNCHANGED vars
    BY <2>2 DEF vars, FollowInv, CacheIsPrefix, PageIsContiguous, Contiguous, Latest,
       CallFollows, PageFollows
  <2>3. CASE \/ \E t \in Task, size \in WireSize : LogEvent(t, size)
             \/ \E t \in Task : Open(t)
             \/ Close
             \/ \E t \in Late : SubmitReturns(t)
             \/ \E k \in Call : Refresh(k)
             \/ AppExit
    BY <2>3, PageStep
  <2> QED  BY <2>1, <2>2, <2>3 DEF Next
<1> QED
  BY <1>1, <1>2, TypeCorrect, PTL DEF Spec

\* What is stored of a log has no gap, whatever calls of closed pages are
\* still running beside those of the open one (cache_events).
THEOREM CacheIsPrefixHolds == Spec => []CacheIsPrefix
<1>1. FollowInv => CacheIsPrefix
  BY DEF FollowInv
<1> QED
  BY <1>1, FollowInvariant, PTL

\* The page mounted for a task shows the newest rows up to its cursor, none
\* missing and none of another task (RemoteTaskModal).
THEOREM PageIsContiguousHolds == Spec => []PageIsContiguous
<1>1. FollowInv => PageIsContiguous
  BY DEF FollowInv
<1> QED
  BY <1>1, FollowInvariant, PTL
=============================================================================
