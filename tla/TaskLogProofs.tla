---------------------------- MODULE TaskLogProofs ----------------------------
(***************************************************************************)
(* Theorems about TaskLog, for every set of pipes and chunk sizes, every   *)
(* capacity of the channel and every limit.                                *)
(***************************************************************************)
EXTENDS TaskLog, FiniteSetTheorems, TLAPS

\* The chunk at the end of a queue is a chunk.
LEMMA HeadIsChunk ==
  ASSUME NEW T, NEW q \in Seq(T), q # <<>>
  PROVE  Head(q) \in T /\ Tail(q) \in Seq(T) /\ Len(Tail(q)) = Len(q) - 1
OBVIOUS

\* Logging a chunk keeps the types of the row.
LEMMA OutputType ==
  ASSUME TypeOK, NEW c \in Chunk, Output(c)
  PROVE  /\ log' \in Seq(Chunk \cup {Marker, Final})
         /\ bytes' \in 0..MaxOutput
         /\ truncated' \in BOOLEAN
<1>1. c.size \in Nat
  BY SizeAssumption DEF Chunk
<1>2. log \in Seq(Chunk \cup {Marker, Final}) /\ bytes \in 0..MaxOutput /\ truncated \in BOOLEAN
  BY DEF TypeOK
<1>3. CASE bytes + c.size > MaxOutput
  <2>1. /\ log' = log \/ log' = Append(log, Marker)
        /\ bytes' = bytes /\ truncated' = TRUE
    BY <1>3 DEF Output
  <2>2. log' \in Seq(Chunk \cup {Marker, Final})
    BY <1>2, <2>1
  <2> QED
    BY <1>2, <2>1, <2>2
<1>4. CASE ~(bytes + c.size > MaxOutput)
  <2>1. bytes' = bytes + c.size /\ log' = Append(log, c) /\ truncated' = truncated
    BY <1>4 DEF Output
  <2>2. bytes' \in 0..MaxOutput
    BY <1>1, <1>2, <1>4, <2>1, SizeAssumption
  <2>3. log' \in Seq(Chunk \cup {Marker, Final})
    BY <1>2, <2>1
  <2> QED
    BY <1>2, <2>1, <2>2, <2>3
<1> QED
  BY <1>3, <1>4

\* What is appended can be taken off again.
LEMMA FrontOfAppend ==
  ASSUME NEW T, NEW q \in Seq(T), NEW e \in T
  PROVE  Append(q, e) # <<>> /\ Front(Append(q, e)) = q
BY DEF Front

\* Every step keeps the types.
LEMMA TypeStep == TypeOK /\ [Next]_vars => TypeOK'
<1> SUFFICES ASSUME TypeOK, [Next]_vars PROVE TypeOK'
  OBVIOUS
<1> USE SizeAssumption, CapacityAssumption DEF os, row
<1>1. ASSUME NEW s \in Stream, NEW size \in Size, Write(s, size) PROVE TypeOK'
  <2>1. written' \in [Stream -> 0..MaxWrite]
    BY <1>1 DEF Write, TypeOK
  <2>2. [stream |-> s, n |-> written'[s], size |-> size] \in Chunk
    BY <2>1 DEF Chunk
  <2>3. pipe' \in [Stream -> Seq(Chunk)]
    BY <1>1, <2>2 DEF Write, TypeOK
  <2> QED
    BY <1>1, <2>1, <2>3 DEF Write, TypeOK
<1>2. ASSUME NEW s \in Stream, Read(s) PROVE TypeOK'
  <2>1. pipe[s] \in Seq(Chunk) /\ pipe[s] # <<>>
    BY <1>2 DEF Read, TypeOK
  <2>2. Head(pipe[s]) \in Chunk /\ Tail(pipe[s]) \in Seq(Chunk)
    BY <2>1, HeadIsChunk
  <2>3. channel' \in Seq(Chunk) /\ Len(channel') <= Capacity
    BY <1>2, <2>2 DEF Read, TypeOK
  <2>4. pipe' \in [Stream -> Seq(Chunk)]
    BY <1>2, <2>2 DEF Read, TypeOK
  <2> QED
    BY <1>2, <2>3, <2>4 DEF Read, TypeOK
<1>3. CASE Receive
  <2>1. channel \in Seq(Chunk) /\ channel # <<>> /\ Len(channel) <= Capacity
    BY <1>3 DEF Receive, TypeOK
  <2>2. Head(channel) \in Chunk /\ Tail(channel) \in Seq(Chunk) /\ Len(Tail(channel)) = Len(channel) - 1
    BY <2>1, HeadIsChunk
  <2>3. /\ log' \in Seq(Chunk \cup {Marker, Final})
        /\ bytes' \in 0..MaxOutput
        /\ truncated' \in BOOLEAN
    BY <1>3, <2>2, OutputType DEF Receive
  <2>4. channel' \in Seq(Chunk) /\ Len(channel') <= Capacity
    BY <1>3, <2>1, <2>2 DEF Receive
  <2> QED
    BY <1>3, <2>3, <2>4 DEF Receive, TypeOK
<1>4. CASE Drained
  <2>1. log' \in Seq(Chunk \cup {Marker, Final})
    BY <1>4 DEF Drained, TypeOK
  <2> QED
    BY <1>4, <2>1 DEF Drained, TypeOK
<1>5. CASE \/ WaitReturns \/ EscapedEnds \/ DrainTimeout \/ StorageError \/ UNCHANGED vars
           \/ \E s \in Stream : ReadEnd(s)
  BY <1>5 DEF WaitReturns, EscapedEnds, DrainTimeout, StorageError, ReadEnd, vars, TypeOK
<1> QED
  BY <1>1, <1>2, <1>3, <1>4, <1>5 DEF Next

\* The state has its type; in particular the retained output never exceeds
\* MAX_OUTPUT_BYTES, whatever the sizes of the chunks and the order in which
\* the readers send them (runner.rs:250-283).
THEOREM TypeCorrect == Spec => []TypeOK
<1>1. ASSUME Init PROVE TypeOK
  <2>1. channel = <<>> /\ log = <<>> /\ bytes = 0 /\ truncated = FALSE
    BY <1>1 DEF Init
  <2>2. channel \in Seq(Chunk) /\ Len(channel) <= Capacity
    BY <2>1, CapacityAssumption
  <2>3. log \in Seq(Chunk \cup {Marker, Final}) /\ bytes \in 0..MaxOutput
    BY <2>1, SizeAssumption
  <2>4. truncated \in BOOLEAN
    BY <2>1
  <2>5. written \in [Stream -> 0..MaxWrite] /\ pipe \in [Stream -> Seq(Chunk)]
    BY <1>1, CapacityAssumption DEF Init
  <2> QED
    BY <1>1, <2>2, <2>3, <2>4, <2>5 DEF Init, TypeOK
<1> QED
  BY <1>1, TypeStep, PTL DEF Spec

-----------------------------------------------------------------------------
\* What was logged stays: a log is only appended to, by at most one event a
\* step, the marker comes at most once, and nothing comes after the end.
LogGrows ==
  [][/\ log' = log \/ (log' # <<>> /\ log = Front(log'))
     /\ phase \in {"ended", "error"} => UNCHANGED <<log, bytes, truncated>>
     /\ truncated => truncated' /\ log' # Append(log, Marker)
     /\ bytes <= bytes']_vars

\* The log of a task is append-only, and closed by the end of its execute
\* (runner.rs:209-283).
THEOREM LogOnlyGrows == Spec => LogGrows
<1> DEFINE Grows ==
      /\ log' = log \/ (log' # <<>> /\ log = Front(log'))
      /\ phase \in {"ended", "error"} => UNCHANGED <<log, bytes, truncated>>
      /\ truncated => truncated' /\ log' # Append(log, Marker)
      /\ bytes <= bytes'
<1>1. ASSUME TypeOK, Next PROVE Grows
  <2> USE SizeAssumption DEF row, os
  <2>1. bytes \in Nat /\ log \in Seq(Chunk \cup {Marker, Final})
    BY <1>1 DEF TypeOK
  <2>2. /\ log # Append(log, Marker)
        /\ \A e \in Chunk \cup {Marker, Final} :
             Append(log, e) # <<>> /\ log = Front(Append(log, e))
    BY <2>1, FrontOfAppend
  <2>3. CASE Receive
    <3>1. Head(channel) \in Chunk
      BY <1>1, <2>3, HeadIsChunk DEF Receive, TypeOK
    <3>2. Head(channel).size \in Nat /\ Head(channel).size # Marker.size
      BY <3>1, SizeAssumption DEF Chunk, Marker
    <3>3. Append(log, Head(channel)) # Append(log, Marker)
      BY <2>1, <3>1, <3>2
    <3>4. phase \notin {"ended", "error"}
      BY <2>3 DEF Receive, Receiving
    <3>5. CASE bytes + Head(channel).size > MaxOutput
      <4>1. /\ log' = log \/ (~truncated /\ log' = Append(log, Marker))
            /\ bytes' = bytes /\ truncated'
        BY <2>3, <3>5 DEF Receive, Output
      <4>2. log' = log \/ (log' # <<>> /\ log = Front(log'))
        BY <2>2, <4>1
      <4>3. bytes <= bytes'
        BY <2>1, <4>1
      <4>4. truncated => truncated' /\ log' # Append(log, Marker)
        BY <2>2, <4>1
      <4> QED
        BY <3>4, <4>2, <4>3, <4>4
    <3>6. CASE ~(bytes + Head(channel).size > MaxOutput)
      <4>1. /\ log' = Append(log, Head(channel)) /\ truncated' = truncated
            /\ bytes' = bytes + Head(channel).size
        BY <2>3, <3>6 DEF Receive, Output
      <4>2. log' # <<>> /\ log = Front(log')
        BY <2>2, <3>1, <4>1
      <4>3. bytes <= bytes'
        BY <2>1, <3>2, <4>1
      <4> QED
        BY <3>3, <3>4, <4>1, <4>2, <4>3
    <3> QED
      BY <3>5, <3>6
  <2>4. CASE Drained
    <3>1. /\ log' = Append(log, Final) /\ bytes' = bytes /\ truncated' = truncated
          /\ phase = "drain"
      BY <2>4 DEF Drained
    <3>2. log' # <<>> /\ log = Front(log')
      BY <2>2, <3>1
    <3>3. Append(log, Final) # Append(log, Marker)
      BY <2>1 DEF Marker, Final
    <3> QED
      BY <2>1, <3>1, <3>2, <3>3
  <2>5. CASE ~Receive /\ ~Drained
    <3>1. UNCHANGED <<log, bytes, truncated>>
      BY <1>1, <2>5
         DEF Next, Write, Read, ReadEnd, WaitReturns, EscapedEnds, DrainTimeout, StorageError
    <3> QED
      BY <2>1, <2>2, <3>1
  <2> QED
    BY <2>3, <2>4, <2>5
<1>2. TypeOK /\ [Next]_vars => [Grows]_vars
  BY <1>1
<1> QED
  BY <1>2, TypeCorrect, PTL DEF Spec, LogGrows

-----------------------------------------------------------------------------
(***************************************************************************)
(* Queues that hold a stretch of a stream.                                 *)
(***************************************************************************)
\* Holds by its parts: nothing else, all of it, in order.
LEMMA HoldsIff ==
  ASSUME NEW q, NEW s, NEW a, NEW b
  PROVE  Holds(q, s, a, b) <=>
           /\ \A i \in DOMAIN q : q[i].stream = s => q[i].n \in a..b
           /\ \A n \in a..b : \E i \in DOMAIN q : q[i].stream = s /\ q[i].n = n
           /\ \A i, j \in DOMAIN q :
                q[i].stream = s /\ q[j].stream = s /\ i < j => q[i].n < q[j].n
BY DEF Holds

\* An empty queue holds an empty stretch.
LEMMA EmptyHolds ==
  ASSUME NEW s, NEW a \in Nat, NEW b \in Nat, b < a
  PROVE  Holds(<<>>, s, a, b)
BY HoldsIff

\* The next chunk of the stream, or one of another stream, is put behind.
LEMMA AppendHolds ==
  ASSUME NEW T, NEW q \in Seq(T), NEW c \in T, NEW s, NEW a \in Nat, NEW b \in Nat,
         Holds(q, s, a, b)
  PROVE  /\ c.stream # s => Holds(Append(q, c), s, a, b)
         /\ c.stream = s /\ c.n = b + 1 /\ a <= b + 1 => Holds(Append(q, c), s, a, b + 1)
<1> DEFINE r == Append(q, c)
<1>1. /\ DOMAIN r = 1..Len(q) + 1 /\ DOMAIN q = 1..Len(q) /\ Len(q) \in Nat
      /\ r[Len(q) + 1] = c /\ \A i \in DOMAIN q : r[i] = q[i]
  OBVIOUS
<1>2. /\ \A i \in DOMAIN q : q[i].stream = s => q[i].n \in a..b
      /\ \A n \in a..b : \E i \in DOMAIN q : q[i].stream = s /\ q[i].n = n
      /\ \A i, j \in DOMAIN q :
           q[i].stream = s /\ q[j].stream = s /\ i < j => q[i].n < q[j].n
  BY HoldsIff
<1> HIDE DEF r
<1>3. \A i \in DOMAIN r : i \in DOMAIN q \/ i = Len(q) + 1
  BY <1>1
<1>4. ASSUME c.stream # s PROVE Holds(r, s, a, b)
  <2>1. /\ \A i \in DOMAIN r : r[i].stream = s => i \in DOMAIN q /\ r[i] = q[i]
        /\ DOMAIN q \subseteq DOMAIN r
    BY <1>1, <1>3, <1>4
  <2>2. ASSUME NEW n \in a..b PROVE \E i \in DOMAIN r : r[i].stream = s /\ r[i].n = n
    <3>1. PICK i \in DOMAIN q : q[i].stream = s /\ q[i].n = n
      BY <1>2
    <3>2. i \in DOMAIN r /\ r[i] = q[i]
      BY <1>1, <2>1
    <3> QED
      BY <3>1, <3>2
  <2>3. \A i \in DOMAIN r : r[i].stream = s => r[i].n \in a..b
    BY <1>2, <2>1
  <2>4. ASSUME NEW i \in DOMAIN r, NEW j \in DOMAIN r,
               r[i].stream = s, r[j].stream = s, i < j
        PROVE  r[i].n < r[j].n
    <3>1. i \in DOMAIN q /\ j \in DOMAIN q /\ r[i] = q[i] /\ r[j] = q[j]
      BY <2>1, <2>4
    <3> QED
      BY <1>2, <2>4, <3>1
  <2> QED
    BY <2>2, <2>3, <2>4, HoldsIff
<1>5. ASSUME c.stream = s, c.n = b + 1, a <= b + 1 PROVE Holds(r, s, a, b + 1)
  <2>1. \A i \in DOMAIN r : r[i].stream = s => r[i].n \in a..b + 1
    <3>1. ASSUME NEW i \in DOMAIN q, q[i].stream = s PROVE q[i].n \in a..b + 1
      BY <1>2, <3>1
    <3>2. c.n \in a..b + 1
      BY <1>5
    <3> QED
      BY <1>1, <1>3, <3>1, <3>2
  <2>2. ASSUME NEW n \in a..b + 1 PROVE \E i \in DOMAIN r : r[i].stream = s /\ r[i].n = n
    <3>1. CASE n = b + 1
      <4>1. Len(q) + 1 \in DOMAIN r
        BY <1>1
      <4> QED
        BY <1>1, <1>5, <3>1, <4>1
    <3>2. CASE n # b + 1
      <4>1. n \in a..b
        BY <3>2
      <4>2. PICK i \in DOMAIN q : q[i].stream = s /\ q[i].n = n
        BY <1>2, <4>1
      <4> QED
        BY <1>1, <4>2
    <3> QED
      BY <3>1, <3>2
  <2>3. ASSUME NEW i \in DOMAIN r, NEW j \in DOMAIN r,
               r[i].stream = s, r[j].stream = s, i < j
        PROVE  r[i].n < r[j].n
    <3>1. i \in DOMAIN q
      BY <1>1, <2>3
    <3>2. r[i] = q[i] /\ q[i].n \in a..b
      BY <1>1, <1>2, <2>3, <3>1
    <3>3. CASE j \in DOMAIN q
      BY <1>1, <1>2, <2>3, <3>1, <3>2, <3>3
    <3>4. CASE j = Len(q) + 1
      BY <1>1, <1>5, <3>2, <3>4
    <3> QED
      BY <1>3, <3>3, <3>4
  <2> QED
    BY <2>1, <2>2, <2>3, HoldsIff
<1> QED
  BY <1>4, <1>5 DEF r

\* The first chunk of a queue is the first of its stretch.
LEMMA TailHolds ==
  ASSUME NEW T, NEW q \in Seq(T), q # <<>>, NEW s, NEW a \in Nat, NEW b \in Nat,
         Holds(q, s, a, b)
  PROVE  /\ Head(q).stream # s => Holds(Tail(q), s, a, b)
         /\ Head(q).stream = s => Head(q).n = a /\ a <= b /\ Holds(Tail(q), s, a + 1, b)
<1> DEFINE r == Tail(q)
<1>1. /\ DOMAIN q = 1..Len(q) /\ Len(q) \in Nat \ {0} /\ Head(q) = q[1] /\ 1 \in DOMAIN q
      /\ DOMAIN r = 1..Len(q) - 1 /\ \A i \in DOMAIN r : r[i] = q[i + 1]
  OBVIOUS
<1>2. /\ \A i \in DOMAIN q : q[i].stream = s => q[i].n \in a..b
      /\ \A n \in a..b : \E i \in DOMAIN q : q[i].stream = s /\ q[i].n = n
      /\ \A i, j \in DOMAIN q :
           q[i].stream = s /\ q[j].stream = s /\ i < j => q[i].n < q[j].n
  BY HoldsIff
<1> HIDE DEF r
<1>3. \A i \in DOMAIN r : i + 1 \in DOMAIN q /\ i + 1 > 1 /\ r[i] = q[i + 1]
  BY <1>1
<1>4. \A i \in DOMAIN q : i # 1 => i - 1 \in DOMAIN r /\ r[i - 1] = q[i]
  BY <1>1
<1>5. \A i, j \in DOMAIN r : r[i].stream = s /\ r[j].stream = s /\ i < j => r[i].n < r[j].n
  <2> SUFFICES ASSUME NEW i \in DOMAIN r, NEW j \in DOMAIN r,
                      r[i].stream = s, r[j].stream = s, i < j
               PROVE  r[i].n < r[j].n
    OBVIOUS
  <2>1. i + 1 \in DOMAIN q /\ j + 1 \in DOMAIN q /\ r[i] = q[i + 1] /\ r[j] = q[j + 1]
    BY <1>3
  <2>2. i + 1 < j + 1
    BY <1>1
  <2> QED
    BY <1>2, <2>1, <2>2
<1>6. ASSUME Head(q).stream # s PROVE Holds(r, s, a, b)
  <2>1. ASSUME NEW n \in a..b PROVE \E i \in DOMAIN r : r[i].stream = s /\ r[i].n = n
    <3>1. PICK i \in DOMAIN q : q[i].stream = s /\ q[i].n = n
      BY <1>2
    <3>2. i # 1
      BY <1>1, <1>6, <3>1
    <3>3. i - 1 \in DOMAIN r /\ r[i - 1] = q[i]
      BY <1>4, <3>2
    <3> QED
      BY <3>1, <3>3
  <2>2. \A i \in DOMAIN r : r[i].stream = s => r[i].n \in a..b
    BY <1>2, <1>3
  <2> QED
    BY <1>5, <2>1, <2>2, HoldsIff
<1>7. ASSUME Head(q).stream = s
      PROVE  Head(q).n = a /\ a <= b /\ Holds(r, s, a + 1, b)
  <2>1. q[1].n \in a..b /\ a <= b
    BY <1>1, <1>2, <1>7
  <2>2. PICK i \in DOMAIN q : q[i].stream = s /\ q[i].n = a
    BY <1>2, <2>1
  <2>3. i = 1
    <3>1. i # 1 => q[1].n < q[i].n
      BY <1>1, <1>2, <1>7, <2>2
    <3> QED
      BY <2>1, <2>2, <3>1
  <2>4. q[1].n = a
    BY <2>2, <2>3
  <2>5. \A j \in DOMAIN r : r[j].stream = s => r[j].n \in a + 1..b
    <3> SUFFICES ASSUME NEW j \in DOMAIN r, r[j].stream = s PROVE r[j].n \in a + 1..b
      OBVIOUS
    <3>1. j + 1 \in DOMAIN q /\ 1 < j + 1 /\ r[j] = q[j + 1] /\ 1 \in DOMAIN q /\ q[1].stream = s
      BY <1>1, <1>3, <1>7
    <3>2. q[1].n < q[j + 1].n /\ q[j + 1].n \in a..b
      BY <1>2, <3>1
    <3> QED
      BY <2>4, <3>1, <3>2
  <2>6. ASSUME NEW n \in a + 1..b PROVE \E j \in DOMAIN r : r[j].stream = s /\ r[j].n = n
    <3>1. n \in a..b /\ n # a
      BY <2>6
    <3>2. PICK j \in DOMAIN q : q[j].stream = s /\ q[j].n = n
      BY <1>2, <3>1
    <3>3. j # 1
      BY <2>4, <3>1, <3>2
    <3> QED
      BY <1>4, <3>2, <3>3
  <2> QED
    BY <1>1, <1>5, <2>1, <2>4, <2>5, <2>6, HoldsIff
<1> QED
  BY <1>6, <1>7 DEF r

-----------------------------------------------------------------------------
(***************************************************************************)
(* Nothing is lost on the way to the log.                                  *)
(***************************************************************************)
\* What has been written to a stream is, from its beginning, in the log, in
\* the channel, and in the pipe.
Flow(s) ==
  \E k, m \in 0..written[s] :
    /\ k <= m
    /\ Holds(log, s, 1, k)
    /\ Holds(channel, s, k + 1, m)
    /\ Holds(pipe[s], s, m + 1, written[s])

OwnPipe == \A s \in Stream : \A i \in DOMAIN pipe[s] : pipe[s][i].stream = s

\* The phases of execute, and what each has waited for.
PhaseInv ==
  /\ phase = "watch" => process = "running"
  /\ \A s \in eof : process = "ended" /\ pipe[s] = <<>>
  /\ phase = "ended" => eof = Stream /\ channel = <<>> /\ log # <<>> /\ Last(log) = Final
  /\ phase # "ended" => ~Contains(log, Final)

FlowInv == ~truncated => \A s \in Stream : Flow(s)

LogInv == TypeOK /\ OwnPipe /\ PhaseInv /\ FlowInv

\* An event of the task itself is no chunk.
LEMMA ChunkIsNoEvent ==
  ASSUME NEW c \in Chunk
  PROVE  /\ c # Final /\ c # Marker /\ c.stream \in Stream /\ c.size \in Nat \ {0}
         /\ Final.stream \notin Stream /\ Marker.stream \notin Stream /\ Final # Marker
<1>1. Final.stream = "agent" /\ Marker.stream = "agent" /\ Final.n = 1 /\ Marker.n = 0
  BY DEF Final, Marker
<1>2. c.stream \in Stream /\ c.size \in Nat \ {0}
  BY SizeAssumption DEF Chunk
<1> QED
  BY <1>1, <1>2, StreamAssumption

\* A pipe only carries its own stream.
LEMMA OwnPipeStep == TypeOK /\ OwnPipe /\ [Next]_vars => OwnPipe'
<1> SUFFICES ASSUME TypeOK, OwnPipe, [Next]_vars, NEW t \in Stream, NEW i \in DOMAIN pipe'[t]
             PROVE  pipe'[t][i].stream = t
  BY DEF OwnPipe
<1>1. pipe \in [Stream -> Seq(Chunk)] /\ \A j \in DOMAIN pipe[t] : pipe[t][j].stream = t
  BY DEF TypeOK, OwnPipe
<1>2. ASSUME NEW s \in Stream, NEW size \in Size, Write(s, size) PROVE pipe'[t][i].stream = t
  <2>1. PICK c : c.stream = s /\ pipe' = [pipe EXCEPT ![s] = Append(@, c)]
    BY <1>2 DEF Write
  <2>2. CASE t = s
    <3>1. pipe'[t] = Append(pipe[t], c) /\ pipe[t] \in Seq(Chunk)
      BY <1>1, <2>1, <2>2
    <3>2. CASE i = Len(pipe[t]) + 1
      BY <2>1, <2>2, <3>1, <3>2
    <3>3. CASE i # Len(pipe[t]) + 1
      <4>1. i \in DOMAIN pipe[t] /\ pipe'[t][i] = pipe[t][i]
        BY <3>1, <3>3
      <4> QED
        BY <1>1, <4>1
    <3> QED
      BY <3>2, <3>3
  <2>3. CASE t # s
    BY <1>1, <2>1, <2>3
  <2> QED
    BY <2>2, <2>3
<1>3. ASSUME NEW s \in Stream, Read(s) PROVE pipe'[t][i].stream = t
  <2>1. pipe[s] # <<>> /\ pipe' = [pipe EXCEPT ![s] = Tail(@)]
    BY <1>3 DEF Read
  <2>2. CASE t = s
    <3>1. pipe'[t] = Tail(pipe[t]) /\ pipe[t] \in Seq(Chunk) /\ pipe[t] # <<>>
      BY <1>1, <2>1, <2>2
    <3>2. i + 1 \in DOMAIN pipe[t] /\ pipe'[t][i] = pipe[t][i + 1]
      BY <3>1
    <3> QED
      BY <1>1, <3>2
  <2>3. CASE t # s
    BY <1>1, <2>1, <2>3
  <2> QED
    BY <2>2, <2>3
<1>4. CASE UNCHANGED pipe
  BY <1>1, <1>4
<1>5. \/ \E s \in Stream, size \in Size : Write(s, size)
      \/ \E s \in Stream : Read(s)
      \/ UNCHANGED pipe
  BY DEF Next, ReadEnd, Receive, WaitReturns, EscapedEnds, Drained, DrainTimeout, StorageError, vars
<1> QED
  BY <1>2, <1>3, <1>4, <1>5

\* Appending is seen by Contains and by Last.
LEMMA AppendEnd ==
  ASSUME NEW T, NEW q \in Seq(T), NEW e \in T, NEW f
  PROVE  /\ Append(q, e) # <<>> /\ Last(Append(q, e)) = e
         /\ Contains(Append(q, e), f) => Contains(q, f) \/ e = f
BY DEF Last, Contains

\* The log is extended by a chunk, a marker or the final state, or not at all.
LEMMA LogStep ==
  ASSUME TypeOK, [Next]_vars
  PROVE  \/ UNCHANGED log
         \/ Receive /\ log' = Append(log, Marker) /\ truncated'
         \/ Receive /\ log' = Append(log, Head(channel)) /\ Head(channel) \in Chunk
         \/ Drained /\ log' = Append(log, Final)
<1>1. CASE Receive
  <2>1. Head(channel) \in Chunk
    BY <1>1, HeadIsChunk DEF Receive, TypeOK
  <2> QED
    BY <1>1, <2>1 DEF Receive, Output
<1>2. CASE Drained
  BY <1>2 DEF Drained
<1>3. CASE ~Receive /\ ~Drained
  BY <1>3 DEF Next, Write, Read, ReadEnd, WaitReturns, EscapedEnds, DrainTimeout, StorageError,
              vars, row
<1> QED
  BY <1>1, <1>2, <1>3

\* A final state is the last thing logged, after both readers' last chunk.
LEMMA PhaseStep == TypeOK /\ PhaseInv /\ [Next]_vars => PhaseInv'
<1> SUFFICES ASSUME TypeOK, PhaseInv, [Next]_vars PROVE PhaseInv'
  OBVIOUS
<1>1. log \in Seq(Chunk \cup {Marker, Final}) /\ pipe \in [Stream -> Seq(Chunk)] /\ eof \subseteq Stream
  BY DEF TypeOK
<1>2. phase' = "watch" => process' = "running"
  BY DEF PhaseInv, Next, Write, Read, ReadEnd, Receive, WaitReturns, EscapedEnds, Drained,
         DrainTimeout, StorageError, vars, os
<1>3. ASSUME NEW t \in eof' PROVE process' = "ended" /\ pipe'[t] = <<>>
  <2>1. CASE \E s \in Stream, size \in Size : Write(s, size)
    <3>1. t \in eof /\ process # "ended"
      BY <1>3, <2>1 DEF Write
    <3> QED
      BY <3>1 DEF PhaseInv
  <2>2. ASSUME NEW s \in Stream, Read(s) PROVE process' = "ended" /\ pipe'[t] = <<>>
    <3>1. /\ t \in eof /\ process' = process /\ pipe[s] # <<>>
          /\ pipe' = [pipe EXCEPT ![s] = Tail(@)]
      BY <1>3, <2>2 DEF Read, os
    <3>2. process = "ended" /\ pipe[t] = <<>>
      BY <3>1 DEF PhaseInv
    <3> QED
      BY <1>1, <3>1, <3>2
  <2>3. CASE WaitReturns
    BY <1>3, <2>3 DEF WaitReturns, PhaseInv
  <2>4. CASE \E s \in Stream : ReadEnd(s)
    BY <1>3, <2>4 DEF ReadEnd, PhaseInv, os
  <2>5. CASE Receive \/ EscapedEnds \/ Drained \/ DrainTimeout \/ StorageError \/ UNCHANGED vars
    BY <1>3, <2>5 DEF Receive, EscapedEnds, Drained, DrainTimeout, StorageError, PhaseInv, vars, os
  <2> QED
    BY <2>1, <2>2, <2>3, <2>4, <2>5 DEF Next
<1>4. (phase' = "ended" => eof' = Stream /\ channel' = <<>> /\ log' # <<>> /\ Last(log') = Final)
  <2>1. CASE Drained
    <3>1. log' = Append(log, Final) /\ eof' = Stream /\ channel' = <<>>
      BY <2>1 DEF Drained
    <3>2. Append(log, Final) # <<>> /\ Last(Append(log, Final)) = Final
      <4>1. Final \in Chunk \cup {Marker, Final}
        OBVIOUS
      <4> QED
        BY ONLY <1>1, <4>1, AppendEnd
    <3> QED
      BY <3>1, <3>2
  <2>2. CASE ~Drained /\ phase' = "ended"
    <3>1. phase = "ended"
      BY <2>2 DEF Next, Write, Read, ReadEnd, Receive, WaitReturns, EscapedEnds, DrainTimeout,
                  StorageError, vars
    <3>2. eof = Stream /\ channel = <<>> /\ log # <<>> /\ Last(log) = Final
      BY <3>1 DEF PhaseInv
    <3>3. UNCHANGED <<eof, channel, log>>
      <4>1. ASSUME NEW s \in Stream PROVE ~ReadEnd(s)
        BY <3>2 DEF ReadEnd
      <4> QED
        BY <2>2, <3>1, <4>1 DEF Next, Write, Read, Receive, Receiving, WaitReturns, EscapedEnds,
                                DrainTimeout, StorageError, vars, row
    <3> QED
      BY <3>2, <3>3
  <2> QED
    BY <2>1, <2>2
<1>5. phase' # "ended" => ~Contains(log', Final)
  <2>1. phase' # "ended" => phase # "ended" /\ ~Drained
    BY DEF Next, Write, Read, ReadEnd, Receive, Receiving, WaitReturns, EscapedEnds, Drained,
           DrainTimeout, StorageError, vars
  <2>2. phase # "ended" => ~Contains(log, Final)
    BY DEF PhaseInv
  <2>3. ASSUME phase' # "ended" PROVE ~Contains(log', Final)
    <3>1. ~Contains(log, Final)
      BY <2>1, <2>2, <2>3
    <3>2. \/ log' = log
          \/ \E e \in Chunk \cup {Marker} : log' = Append(log, e)
      BY <2>1, <2>3, LogStep
    <3>3. ASSUME NEW e \in Chunk \cup {Marker} PROVE ~Contains(Append(log, e), Final)
      <4>1. e # Final
        BY ChunkIsNoEvent DEF Marker, Final
      <4> QED
        BY <1>1, <3>1, <4>1, AppendEnd
    <3> QED
      BY <3>1, <3>2, <3>3
  <2> QED
    BY <2>3
<1> QED
  BY <1>2, <1>3, <1>4, <1>5 DEF PhaseInv

\* A chunk written goes to the end of its pipe.
LEMMA WriteFlow ==
  ASSUME TypeOK, NEW s \in Stream, NEW size \in Size, Write(s, size), NEW t \in Stream, Flow(t)
  PROVE  Flow(t)'
<1> DEFINE c == [stream |-> s, n |-> written[s] + 1, size |-> size]
<1>1. /\ written \in [Stream -> Nat] /\ pipe \in [Stream -> Seq(Chunk)]
      /\ written' = [written EXCEPT ![s] = @ + 1]
      /\ pipe' = [pipe EXCEPT ![s] = Append(@, c)]
      /\ UNCHANGED <<log, channel>>
  BY CapacityAssumption DEF TypeOK, Write, row
<1>2. PICK k \in 0..written[t], m \in 0..written[t] :
        /\ k <= m
        /\ Holds(log, t, 1, k)
        /\ Holds(channel, t, k + 1, m)
        /\ Holds(pipe[t], t, m + 1, written[t])
  BY DEF Flow
<1>3. CASE t = s
  <2>1. c \in Chunk /\ c.stream = t /\ c.n = written[t] + 1
    <3>1. written'[s] \in Nat
      BY <1>1
    <3> QED
      BY <1>1, <1>3 DEF Chunk
  <2>2. Holds(Append(pipe[t], c), t, m + 1, written[t] + 1)
    BY <1>1, <1>2, <2>1, AppendHolds
  <2>3. written'[t] = written[t] + 1 /\ pipe'[t] = Append(pipe[t], c)
    BY <1>1, <1>3
  <2>4. k \in 0..written'[t] /\ m \in 0..written'[t]
    BY <1>1, <2>3
  <2> QED
    BY <1>1, <1>2, <2>2, <2>3, <2>4 DEF Flow
<1>4. CASE t # s
  <2>1. written'[t] = written[t] /\ pipe'[t] = pipe[t]
    BY <1>1, <1>4
  <2> QED
    BY <1>1, <1>2, <2>1 DEF Flow
<1> QED
  BY <1>3, <1>4

\* A chunk sent leaves the front of its pipe for the end of the channel.
LEMMA ReadFlow ==
  ASSUME TypeOK, OwnPipe, NEW s \in Stream, Read(s), NEW t \in Stream, Flow(t)
  PROVE  Flow(t)'
<1> DEFINE c == Head(pipe[s])
<1>1. /\ written \in [Stream -> Nat] /\ pipe \in [Stream -> Seq(Chunk)] /\ channel \in Seq(Chunk)
      /\ pipe[s] # <<>> /\ pipe' = [pipe EXCEPT ![s] = Tail(@)]
      /\ channel' = Append(channel, c) /\ UNCHANGED <<log, written>>
  BY CapacityAssumption DEF TypeOK, Read, row, os
<1>2. PICK k \in 0..written[t], m \in 0..written[t] :
        /\ k <= m
        /\ Holds(log, t, 1, k)
        /\ Holds(channel, t, k + 1, m)
        /\ Holds(pipe[t], t, m + 1, written[t])
  BY DEF Flow
<1>3. c \in Chunk /\ c.stream = s
  <2>1. c = pipe[s][1] /\ 1 \in DOMAIN pipe[s] /\ c \in Chunk
    BY <1>1, HeadIsChunk
  <2> QED
    BY <2>1 DEF OwnPipe
<1>4. CASE t = s
  <2>1. /\ c.n = m + 1 /\ m + 1 <= written[t]
        /\ Holds(Tail(pipe[t]), t, m + 1 + 1, written[t])
    <3>1. m + 1 \in Nat /\ written[t] \in Nat /\ pipe[t] \in Seq(Chunk) /\ pipe[t] # <<>>
      BY <1>1, <1>2, <1>4
    <3>2. Head(pipe[t]).stream = t /\ Head(pipe[t]) = c
      BY <1>3, <1>4
    <3> QED
      BY <1>2, <3>1, <3>2, TailHolds
  <2>2. Holds(Append(channel, c), t, k + 1, m + 1)
    <3>1. k + 1 <= m + 1 /\ k + 1 \in Nat /\ m \in Nat
      BY <1>1, <1>2
    <3> QED
      BY <1>1, <1>2, <1>3, <1>4, <2>1, <3>1, AppendHolds
  <2>3. m + 1 \in 0..written[t] /\ k <= m + 1
    BY <1>1, <1>2, <2>1
  <2>4. pipe'[t] = Tail(pipe[t])
    BY <1>1, <1>4
  <2> QED
    BY <1>1, <1>2, <2>1, <2>2, <2>3, <2>4 DEF Flow
<1>5. CASE t # s
  <2>1. Holds(Append(channel, c), t, k + 1, m)
    <3>1. k + 1 \in Nat /\ m \in Nat
      BY <1>1, <1>2
    <3> QED
      BY <1>1, <1>2, <1>3, <1>5, <3>1, AppendHolds
  <2>2. pipe'[t] = pipe[t]
    BY <1>1, <1>5
  <2> QED
    BY <1>1, <1>2, <2>1, <2>2 DEF Flow
<1> QED
  BY <1>4, <1>5

\* A chunk received leaves the front of the channel for the end of the log,
\* unless the output is truncated.
LEMMA ReceiveFlow ==
  ASSUME TypeOK, Receive, log' = Append(log, Head(channel)), Head(channel) \in Chunk,
         NEW t \in Stream, Flow(t)
  PROVE  Flow(t)'
<1> DEFINE c == Head(channel)
           Event == Chunk \cup {Marker, Final}
<1>1. /\ written \in [Stream -> Nat] /\ channel \in Seq(Chunk) /\ log \in Seq(Event)
      /\ channel # <<>> /\ channel' = Tail(channel) /\ c \in Chunk
      /\ log' = Append(log, c) /\ UNCHANGED <<pipe, written>>
  BY CapacityAssumption DEF TypeOK, Receive, os
<1>2. PICK k \in 0..written[t], m \in 0..written[t] :
        /\ k <= m
        /\ Holds(log, t, 1, k)
        /\ Holds(channel, t, k + 1, m)
        /\ Holds(pipe[t], t, m + 1, written[t])
  BY DEF Flow
<1>3. k \in Nat /\ k + 1 \in Nat /\ m \in Nat /\ c \in Event
  BY <1>1, <1>2
<1> HIDE DEF Event
<1>4. CASE c.stream = t
  <2>1. c.n = k + 1 /\ k + 1 <= m /\ Holds(Tail(channel), t, k + 1 + 1, m)
    BY <1>1, <1>2, <1>3, <1>4, TailHolds
  <2>2. Holds(Append(log, c), t, 1, k + 1)
    BY <1>1, <1>2, <1>3, <1>4, <2>1, AppendHolds
  <2>3. k + 1 \in 0..written[t]
    BY <1>1, <1>2, <2>1
  <2> QED
    BY <1>1, <1>2, <2>1, <2>2, <2>3 DEF Flow
<1>5. CASE c.stream # t
  <2>1. Holds(Tail(channel), t, k + 1, m)
    BY <1>1, <1>2, <1>3, <1>5, TailHolds
  <2>2. Holds(Append(log, c), t, 1, k)
    BY <1>1, <1>2, <1>3, <1>5, AppendHolds
  <2> QED
    BY <1>1, <1>2, <2>1, <2>2 DEF Flow
<1> QED
  BY <1>4, <1>5

\* Every step keeps what was written to a stream.
LEMMA FlowStep == LogInv /\ [Next]_vars => FlowInv'
<1> SUFFICES ASSUME LogInv, [Next]_vars, ~truncated', NEW t \in Stream PROVE Flow(t)'
  BY DEF FlowInv
<1>1. TypeOK /\ OwnPipe
  BY DEF LogInv
<1>2. Flow(t)
  <2>1. truncated => truncated'
    BY DEF Next, Write, Read, ReadEnd, Receive, Output, WaitReturns, EscapedEnds, Drained,
           DrainTimeout, StorageError, vars, row
  <2> QED
    BY <2>1 DEF LogInv, FlowInv
<1>3. CASE \E s \in Stream, size \in Size : Write(s, size)
  BY <1>1, <1>2, <1>3, WriteFlow
<1>4. CASE \E s \in Stream : Read(s)
  BY <1>1, <1>2, <1>4, ReadFlow
<1>5. CASE Receive
  <2>1. Head(channel) \in Chunk
    BY <1>1, <1>5, HeadIsChunk DEF Receive, TypeOK
  <2>2. log' = Append(log, Head(channel))
    BY <1>5 DEF Receive, Output
  <2> QED
    BY <1>1, <1>2, <1>5, <2>1, <2>2, ReceiveFlow
<1>6. CASE Drained
  <2>1. log' = Append(log, Final) /\ UNCHANGED <<written, pipe, channel>>
    BY <1>6 DEF Drained, os
  <2>2. PICK k \in 0..written[t], m \in 0..written[t] :
          /\ k <= m
          /\ Holds(log, t, 1, k)
          /\ Holds(channel, t, k + 1, m)
          /\ Holds(pipe[t], t, m + 1, written[t])
    BY <1>2 DEF Flow
  <2>3. Final.stream # t
    BY StreamAssumption DEF Final
  <2>4. log \in Seq(Chunk \cup {Marker, Final}) /\ k \in Nat
    BY <1>1, CapacityAssumption DEF TypeOK
  <2>5. Holds(Append(log, Final), t, 1, k)
    BY <2>2, <2>3, <2>4, AppendHolds
  <2> QED
    BY <2>1, <2>2, <2>5 DEF Flow
<1>7. CASE UNCHANGED <<written, pipe, channel, log>>
  BY <1>2, <1>7 DEF Flow
<1> QED
  BY <1>3, <1>4, <1>5, <1>6, <1>7
     DEF Next, ReadEnd, WaitReturns, EscapedEnds, DrainTimeout, StorageError, vars, os, row

\* The inductive invariant: what is under way, and what each phase waited for.
LEMMA LogInvariant == Spec => []LogInv
<1>1. ASSUME Init PROVE LogInv
  <2>1. /\ process = "running" /\ phase = "watch" /\ eof = {} /\ log = <<>> /\ channel = <<>>
        /\ written = [s \in Stream |-> 0] /\ pipe = [s \in Stream |-> <<>>]
    BY <1>1 DEF Init
  <2>2. TypeOK
    <3>1. written \in [Stream -> 0..MaxWrite] /\ pipe \in [Stream -> Seq(Chunk)]
      BY <2>1, CapacityAssumption
    <3>2. channel \in Seq(Chunk) /\ Len(channel) <= Capacity
      BY <2>1, CapacityAssumption
    <3>3. log \in Seq(Chunk \cup {Marker, Final})
      BY <2>1
    <3>4. bytes \in 0..MaxOutput /\ truncated \in BOOLEAN
      <4>1. bytes = 0 /\ truncated = FALSE
        BY <1>1 DEF Init
      <4>2. 0 \in 0..MaxOutput
        BY SizeAssumption
      <4> QED
        BY <4>1, <4>2
    <3> QED
      BY <2>1, <3>1, <3>2, <3>3, <3>4 DEF TypeOK
  <2>3. OwnPipe
    BY <2>1 DEF OwnPipe
  <2>4. PhaseInv
    BY <2>1 DEF PhaseInv, Contains
  <2>5. ASSUME NEW t \in Stream PROVE Flow(t)
    <3>1. /\ Holds(<<>>, t, 1, 0) /\ Holds(<<>>, t, 0 + 1, 0)
      BY EmptyHolds
    <3>2. written[t] = 0 /\ pipe[t] = <<>> /\ 0 \in 0..written[t]
      BY <2>1
    <3> QED
      BY <2>1, <3>1, <3>2 DEF Flow
  <2> QED
    BY <2>2, <2>3, <2>4, <2>5 DEF LogInv, FlowInv
<1>2. LogInv /\ [Next]_vars => LogInv'
  BY TypeStep, OwnPipeStep, PhaseStep, FlowStep DEF LogInv
<1> QED
  BY <1>1, <1>2, PTL DEF Spec

\* The log of a task holds each of its streams from the beginning, without a
\* gap and in the order written, until the output is truncated; and a final
\* state stands behind all that was written, for any number of pipes, chunks
\* and any capacity of the channel (runner.rs:177-221, 250-283).
THEOREM OutputIsComplete == Spec => []OutputComplete
<1>1. LogInv => OutputComplete
  <2> SUFFICES ASSUME LogInv, ~truncated, NEW t \in Stream
               PROVE  \E last \in 0..written[t] :
                        /\ Holds(log, t, 1, last)
                        /\ Contains(log, Final) => last = written[t] /\ Last(log) = Final
    BY DEF OutputComplete
  <2>1. PICK k \in 0..written[t], m \in 0..written[t] :
          /\ k <= m
          /\ Holds(log, t, 1, k)
          /\ Holds(channel, t, k + 1, m)
          /\ Holds(pipe[t], t, m + 1, written[t])
    BY DEF LogInv, FlowInv, Flow
  <2>2. ASSUME Contains(log, Final) PROVE k = written[t] /\ Last(log) = Final
    <3>1. channel = <<>> /\ pipe[t] = <<>> /\ Last(log) = Final
      BY <2>2 DEF LogInv, PhaseInv
    <3>2. written[t] \in Nat
      BY CapacityAssumption DEF LogInv, TypeOK
    <3>3. ~(m + 1 <= written[t]) /\ ~(k + 1 <= m)
      <4>1. \A a, b \in Nat : a <= b /\ a \in Nat => a \in a..b
        OBVIOUS
      <4>2. \A a, b \in Nat : Holds(<<>>, t, a, b) => ~(a <= b)
        BY <4>1, HoldsIff
      <4>3. m \in Nat /\ k \in Nat
        BY <2>1, <3>2
      <4> QED
        BY <2>1, <3>1, <3>2, <4>2, <4>3
    <3> QED
      BY <2>1, <3>1, <3>2, <3>3
  <2> QED
    BY <2>1, <2>2
<1> QED
  BY <1>1, LogInvariant, PTL

-----------------------------------------------------------------------------
(***************************************************************************)
(* The budget.                                                             *)
(***************************************************************************)
\* What of an event at a place of the log counts.
Span(i, e) == IF e.stream \in Stream THEN {i} \X (1..e.size) ELSE {}

BudgetInv ==
  /\ TypeOK
  /\ IsFiniteSet(RetainedBytes) /\ Cardinality(RetainedBytes) = bytes
  /\ IsFiniteSet(Markers) /\ Cardinality(Markers) = IF truncated THEN 1 ELSE 0

\* The bytes and the markers of a log that is one event longer.
LEMMA AppendBytes ==
  ASSUME TypeOK, NEW e \in Chunk \cup {Marker, Final}, log' = Append(log, e)
  PROVE  /\ RetainedBytes' = RetainedBytes \cup Span(Len(log) + 1, e)
         /\ RetainedBytes \cap Span(Len(log) + 1, e) = {}
         /\ Markers' = IF e = Marker THEN Markers \cup {Len(log) + 1} ELSE Markers
         /\ Len(log) + 1 \notin Markers
<1> DEFINE n == Len(log) + 1
<1>1. /\ n \in Nat /\ DOMAIN log = 1..Len(log) /\ n \notin DOMAIN log
      /\ DOMAIN log' = DOMAIN log \cup {n} /\ log'[n] = e
      /\ \A i \in DOMAIN log : log'[i] = log[i]
  <2>1. log \in Seq(Chunk \cup {Marker, Final})
    BY DEF TypeOK
  <2> QED
    BY <2>1
<1> HIDE DEF n
<1>2. RetainedBytes = UNION {Span(i, log[i]) : i \in DOMAIN log}
  BY DEF RetainedBytes, Span
<1>3. RetainedBytes' = UNION {Span(i, log'[i]) : i \in DOMAIN log'}
  BY DEF RetainedBytes, Span
<1>4. RetainedBytes' = RetainedBytes \cup Span(n, e)
  BY <1>1, <1>2, <1>3
<1>5. RetainedBytes \cap Span(n, e) = {}
  <2>1. ASSUME NEW i \in DOMAIN log, NEW p \in Span(i, log[i]) PROVE p \notin Span(n, e)
    <3>1. p[1] = i
      BY <2>1 DEF Span
    <3>2. p \in Span(n, e) => p[1] = n
      BY DEF Span
    <3> QED
      BY <1>1, <3>1, <3>2
  <2> QED
    BY <1>2, <2>1
<1>6. /\ Markers' = IF e = Marker THEN Markers \cup {n} ELSE Markers
      /\ n \notin Markers
  BY <1>1 DEF Markers
<1> QED
  BY <1>4, <1>5, <1>6 DEF n

\* A step keeps the account.
LEMMA BudgetStep == BudgetInv /\ [Next]_vars => BudgetInv'
<1> SUFFICES ASSUME BudgetInv, [Next]_vars PROVE BudgetInv'
  OBVIOUS
<1>1. TypeOK /\ TypeOK'
  BY TypeStep DEF BudgetInv
<1>2. /\ IsFiniteSet(RetainedBytes) /\ Cardinality(RetainedBytes) = bytes
      /\ IsFiniteSet(Markers) /\ Cardinality(Markers) = IF truncated THEN 1 ELSE 0
      /\ bytes \in Nat /\ log \in Seq(Chunk \cup {Marker, Final}) /\ Len(log) \in Nat
  BY SizeAssumption DEF BudgetInv, TypeOK
<1>3. CASE Receive
  <2> DEFINE c == Head(channel)
  <2>1. c \in Chunk
    BY <1>1, <1>3, HeadIsChunk DEF Receive, TypeOK
  <2>2. c # Marker /\ c # Final /\ c.stream \in Stream /\ c.size \in Nat \ {0}
    BY <2>1, ChunkIsNoEvent
  <2>3. CASE bytes + c.size > MaxOutput /\ truncated
    <3>1. UNCHANGED <<log, bytes, truncated>>
      BY <1>3, <2>3 DEF Receive, Output, TypeOK, BudgetInv
    <3> QED
      BY <1>1, <1>2, <3>1 DEF BudgetInv, RetainedBytes, Markers
  <2>4. CASE bytes + c.size > MaxOutput /\ ~truncated
    <3>1. log' = Append(log, Marker) /\ truncated' /\ bytes' = bytes
      BY <1>3, <2>4 DEF Receive, Output
    <3>2. /\ RetainedBytes' = RetainedBytes \cup Span(Len(log) + 1, Marker)
          /\ Markers' = Markers \cup {Len(log) + 1} /\ Len(log) + 1 \notin Markers
      BY <1>1, <3>1, AppendBytes
    <3>3. Span(Len(log) + 1, Marker) = {}
      BY StreamAssumption DEF Span, Marker
    <3>4. IsFiniteSet(Markers') /\ Cardinality(Markers') = 1
      BY <1>2, <2>4, <3>2, FS_AddElement
    <3> QED
      BY <1>1, <1>2, <3>1, <3>2, <3>3, <3>4 DEF BudgetInv
  <2>5. CASE ~(bytes + c.size > MaxOutput)
    <3>1. log' = Append(log, c) /\ truncated' = truncated /\ bytes' = bytes + c.size
      BY <1>3, <2>5 DEF Receive, Output
    <3> DEFINE more == Span(Len(log) + 1, c)
    <3>2. /\ RetainedBytes' = RetainedBytes \cup more
          /\ RetainedBytes \cap more = {}
          /\ Markers' = Markers
      BY <1>1, <2>1, <2>2, <3>1, AppendBytes
    <3>3. IsFiniteSet(more) /\ Cardinality(more) = c.size
      <4>1. more = {Len(log) + 1} \X (1..c.size)
        BY <2>2 DEF Span
      <4>2. IsFiniteSet(1..c.size) /\ Cardinality(1..c.size) = c.size
        <5>1. 1 \in Int /\ c.size \in Int /\ ~(1 > c.size) /\ c.size - 1 + 1 = c.size
          BY <2>2
        <5> QED
          BY <5>1, FS_Interval
      <4>3. IsFiniteSet({Len(log) + 1}) /\ Cardinality({Len(log) + 1}) = 1
        BY FS_Singleton
      <4>4. 1 * c.size = c.size
        BY <2>2
      <4> HIDE DEF more
      <4>5. /\ IsFiniteSet(more)
            /\ Cardinality(more) = Cardinality({Len(log) + 1}) * Cardinality(1..c.size)
        BY ONLY <4>1, <4>2, <4>3, FS_Product
      <4> QED
        BY <4>2, <4>3, <4>4, <4>5
    <3>4. IsFiniteSet(RetainedBytes') /\ Cardinality(RetainedBytes') = bytes + c.size
      <4>1. /\ IsFiniteSet(RetainedBytes \cup more)
            /\ Cardinality(RetainedBytes \cup more) = bytes + c.size - 0
        BY <1>2, <3>2, <3>3, FS_Union, FS_EmptySet
      <4>2. bytes + c.size - 0 = bytes + c.size
        BY <1>2, <2>2
      <4> QED
        BY <3>2, <4>1, <4>2
    <3> QED
      BY <1>1, <1>2, <3>1, <3>2, <3>4 DEF BudgetInv
  <2> QED
    BY <2>3, <2>4, <2>5
<1>4. CASE Drained
  <2>1. log' = Append(log, Final) /\ UNCHANGED <<bytes, truncated>>
    BY <1>4 DEF Drained
  <2>2. Final # Marker /\ Span(Len(log) + 1, Final) = {}
    BY StreamAssumption DEF Span, Final, Marker
  <2>3. RetainedBytes' = RetainedBytes /\ Markers' = Markers
    BY <1>1, <2>1, <2>2, AppendBytes
  <2> QED
    BY <1>1, <1>2, <2>1, <2>3 DEF BudgetInv
<1>5. CASE UNCHANGED row
  BY <1>1, <1>2, <1>5 DEF BudgetInv, RetainedBytes, Markers, row
<1> QED
  BY <1>3, <1>4, <1>5
     DEF Next, Write, Read, ReadEnd, WaitReturns, EscapedEnds, DrainTimeout, StorageError, vars

\* output_bytes is exactly what the log holds and stays within
\* MAX_OUTPUT_BYTES, and output_truncated says whether a marker stands in it:
\* one at most (runner.rs:250-283).
THEOREM BudgetKept == Spec => []WithinBudget
<1>1. ASSUME Init, TypeOK PROVE BudgetInv
  <2>1. log = <<>> /\ bytes = 0 /\ truncated = FALSE
    BY <1>1 DEF Init
  <2>2. RetainedBytes = {} /\ Markers = {}
    BY <2>1 DEF RetainedBytes, Markers
  <2> QED
    BY <1>1, <2>1, <2>2, FS_EmptySet DEF BudgetInv
<1>2. BudgetInv => WithinBudget
  BY SizeAssumption DEF BudgetInv, WithinBudget, TypeOK
<1> QED
  BY <1>1, <1>2, BudgetStep, TypeCorrect, PTL DEF Spec
=============================================================================
