------------------------------ MODULE TaskLog ------------------------------
(***************************************************************************)
(* The output of one running task: from the process through two pipe       *)
(* readers (read_pipe) and a bounded channel to the event log, in the      *)
(* watch and drain phases of Runner::execute.                              *)
(*                                                                         *)
(* A chunk is what read_pipe sends at once, a line or 8 KiB of one, known  *)
(* here by its stream, its number and its size.  The events of the task's  *)
(* state before and after are left out, but for the final one.             *)
(***************************************************************************)
EXTENDS Naturals, FiniteSets, SequencesExt

CONSTANTS
  Stream,     \* the pipes: stdout and stderr
  Size,       \* sizes of a chunk
  Capacity,   \* of the channel
  MaxOutput,  \* MAX_OUTPUT_BYTES
  MaxWrite    \* bound: chunks the process writes to a stream

ASSUME StreamAssumption == "agent" \notin Stream
ASSUME SizeAssumption == Size \subseteq Nat \ {0} /\ MaxOutput \in Nat
ASSUME CapacityAssumption == Capacity \in Nat \ {0} /\ MaxWrite \in Nat

VARIABLES
  process,    \* the process tree: running, ended, or one left the container
  written,    \* chunks written so far, by stream
  pipe,       \* those not yet sent by the reader, by stream
  eof,        \* streams whose reader has returned
  channel,    \* chunks sent and not yet received
  phase,      \* of execute
  log,        \* agent_events
  bytes,      \* agent_tasks.output_bytes
  truncated   \* agent_tasks.output_truncated

os == <<process, written>>
row == <<log, bytes, truncated>>
vars == <<os, pipe, eof, channel, phase, row>>

Chunk == [stream : Stream, n : Nat, size : Size]
Marker == [stream |-> "agent", n |-> 0, size |-> 0]   \* output_truncated
Final == [stream |-> "agent", n |-> 1, size |-> 0]    \* the final state

\* The type of the state.
TypeOK ==
  /\ process \in {"running", "ended", "escaped"}
  /\ written \in [Stream -> 0..MaxWrite]
  /\ pipe \in [Stream -> Seq(Chunk)]
  /\ eof \subseteq Stream
  /\ channel \in Seq(Chunk) /\ Len(channel) <= Capacity
  /\ phase \in {"watch", "drain", "ended", "error"}
  /\ log \in Seq(Chunk \cup {Marker, Final})
  /\ bytes \in 0..MaxOutput
  /\ truncated \in BOOLEAN

Init ==
  /\ process = "running"
  /\ written = [s \in Stream |-> 0]
  /\ pipe = [s \in Stream |-> <<>>]
  /\ eof = {}
  /\ channel = <<>>
  /\ phase = "watch"
  /\ log = <<>>
  /\ bytes = 0
  /\ truncated = FALSE

Write(s, size) ==
  /\ process # "ended"
  /\ written[s] < MaxWrite
  /\ written' = [written EXCEPT ![s] = @ + 1]
  /\ pipe' = [pipe EXCEPT ![s] = Append(@, [stream |-> s, n |-> written'[s], size |-> size])]
  /\ UNCHANGED <<process, eof, channel, phase, row>>

\* execute still holds the receiver.
Receiving == phase \in {"watch", "drain"}

\* read_pipe: it waits while the channel is full.
Read(s) ==
  /\ Receiving
  /\ pipe[s] # <<>>
  /\ Len(channel) < Capacity
  /\ channel' = Append(channel, Head(pipe[s]))
  /\ pipe' = [pipe EXCEPT ![s] = Tail(@)]
  /\ UNCHANGED <<os, eof, phase, row>>

\* End of file: every holder of the pipe has ended.
ReadEnd(s) ==
  /\ process = "ended"
  /\ pipe[s] = <<>>
  /\ s \notin eof
  /\ eof' = eof \cup {s}
  /\ UNCHANGED <<os, pipe, channel, phase, row>>

\* A bug: the budget is not charged.
OutputUncharged(c) ==
  IF bytes + c.size > MaxOutput
  THEN /\ log' = IF truncated THEN log ELSE Append(log, Marker)
       /\ truncated' = TRUE
       /\ UNCHANGED bytes
  ELSE /\ log' = Append(log, c)
       /\ UNCHANGED <<bytes, truncated>>

\* Runner::output, one transaction: the chunk is retained if it fits into
\* what is left, the first that does not is replaced by a marker.
Output(c) ==
  IF bytes + c.size > MaxOutput
  THEN /\ log' = IF truncated THEN log ELSE Append(log, Marker)
       /\ truncated' = TRUE
       /\ UNCHANGED bytes
  ELSE /\ log' = Append(log, c)
       /\ bytes' = bytes + c.size
       /\ UNCHANGED truncated

\* A bug: the output is not received before the process has ended.
ReceiveLate ==
  /\ phase = "drain"
  /\ channel # <<>>
  /\ Output(Head(channel))
  /\ channel' = Tail(channel)
  /\ UNCHANGED <<os, pipe, eof, phase>>

\* An iteration of the select loop, or of the drain loop.
Receive ==
  /\ Receiving
  /\ channel # <<>>
  /\ Output(Head(channel))
  /\ channel' = Tail(channel)
  /\ UNCHANGED <<os, pipe, eof, phase>>

\* The worker returns, or is ended after a cancel or a timeout; force_stop
\* ends its container.  What has left the container keeps the pipes open.
WaitReturns ==
  /\ phase = "watch"
  /\ process' \in {"ended", "escaped"}
  /\ phase' = "drain"
  /\ UNCHANGED <<written, pipe, eof, channel, row>>

EscapedEnds ==
  /\ process = "escaped"
  /\ process' = "ended"
  /\ UNCHANGED <<written, pipe, eof, channel, phase, row>>

\* A bug: the final state does not wait for the readers.
DrainedEarly ==
  /\ phase = "drain"
  /\ channel = <<>>
  /\ phase' = "ended"
  /\ log' = Append(log, Final)
  /\ UNCHANGED <<os, pipe, eof, channel, bytes, truncated>>

\* Both readers have returned and the channel is empty: the final state.
Drained ==
  /\ phase = "drain"
  /\ channel = <<>>
  /\ eof = Stream
  /\ phase' = "ended"
  /\ log' = Append(log, Final)
  /\ UNCHANGED <<os, pipe, eof, channel, bytes, truncated>>

\* A bug: no limit on the drain.
DrainTimeoutNever == FALSE /\ UNCHANGED vars

\* PROCESS_OUTPUT_NOT_CLOSED: execute ends in an error, the row stays active.
DrainTimeout ==
  /\ phase = "drain"
  /\ phase' = "error"
  /\ UNCHANGED <<os, pipe, eof, channel, row>>

\* A transaction of the log fails.
StorageError ==
  /\ Receiving
  /\ phase' = "error"
  /\ UNCHANGED <<os, pipe, eof, channel, row>>

Next ==
  \/ \E s \in Stream, size \in Size : Write(s, size)
  \/ \E s \in Stream : Read(s) \/ ReadEnd(s)
  \/ Receive
  \/ WaitReturns
  \/ EscapedEnds
  \/ Drained
  \/ DrainTimeout
  \/ StorageError

Spec == Init /\ [][Next]_vars

(***************************************************************************)
(* Fairness: the runtime polls execute and the readers, and its timer      *)
(* fires.  The process need never write or end.                            *)
(***************************************************************************)
FairSpec ==
  /\ Spec
  /\ \A s \in Stream : WF_vars(Read(s))
  /\ WF_vars(Receive)
  /\ WF_vars(Drained \/ DrainTimeout)

-----------------------------------------------------------------------------
Logged(s) == SelectSeq(log, LAMBDA e : e.stream = s)

\* The chunks of a stream in a queue are those from first to last, in order.
Holds(queue, s, first, last) ==
  LET at == {i \in DOMAIN queue : queue[i].stream = s}
  IN  /\ {queue[i].n : i \in at} = first..last
      /\ \A i, j \in at : i < j => queue[i].n < queue[j].n

\* Up to a truncation the log holds each stream from its beginning, without a
\* gap and in the order written; and a final state stands behind all of it
\* (runner.rs:177-221, 250-283).
OutputComplete ==
  ~truncated => \A s \in Stream : \E last \in 0..written[s] :
    /\ Holds(log, s, 1, last)
    /\ Contains(log, Final) => last = written[s] /\ Last(log) = Final

RetainedBytes ==
  UNION {{i} \X (1..log[i].size) : i \in {j \in DOMAIN log : log[j].stream \in Stream}}
Markers == {i \in DOMAIN log : log[i] = Marker}

\* output_bytes is what the log holds, within the limit, and output_truncated
\* says whether there is a marker, of which there is at most one
\* (runner.rs:250-283).
WithinBudget ==
  /\ bytes = Cardinality(RetainedBytes) /\ bytes <= MaxOutput
  /\ Cardinality(Markers) = IF truncated THEN 1 ELSE 0

\* A task whose process has ended is given a final state, or to the owner as
\* unconfirmed, also when something keeps its pipes open.
DrainEnds == phase = "drain" ~> phase \in {"ended", "error"}

\* Output is logged while the process runs on: neither the full channel nor
\* the other stream holds it up for ever.
OutputArrives ==
  \A s \in Stream : \A n \in 1..MaxWrite :
    written[s] >= n ~> Len(Logged(s)) >= n \/ truncated \/ phase = "error"
=============================================================================
