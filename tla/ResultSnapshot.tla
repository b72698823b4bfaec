--------------------------- MODULE ResultSnapshot ---------------------------
(***************************************************************************)
(* The results of a finished task on the agent: snapshot copies the files  *)
(* of the result directory to a directory of the agent's own, collect      *)
(* writes their rows and the result status in one transaction.             *)
(*                                                                         *)
(* The entries are numbered in the order in which the walk meets them, the *)
(* free places included.  A block is what one read of the copy loop        *)
(* returns; a hash is represented by the bytes hashed.  A process that     *)
(* left the container may go on to work in the directory: it writes files, *)
(* makes entries and removes them; a rename is a removal and an entry made.*)
(***************************************************************************)
EXTENDS Integers, Sequences, FiniteSetsExt, Functions

CONSTANTS
  MaxEntry,    \* bound: entries of the directory
  MaxEntries,  \* the limits of a snapshot: entries seen,
  MaxFiles,    \* files copied,
  MaxFile,     \* MAX_FILE
  MaxTotal,    \* MAX_TOTAL
  MaxWrites    \* bound: changes of the directory during the copy

ASSUME LimitAssumption == {MaxEntries, MaxFiles, MaxFile, MaxTotal} \subseteq Nat
ASSUME EntryAssumption == MaxEntry \in Nat /\ MaxWrites \in Nat

Entry == 1..MaxEntry
NoEntry == 0
\* Block i of the file e, with the version that was read.
Block == Entry \X Nat \X {"first", "later"}
NoFile == << <<0, 0, "none">> >>

VARIABLES
  kind,      \* of every entry: file, dir, other, or absent
  source,    \* the contents of the files
  writes,    \* changes of the directory since the task has ended:
  written,   \* the entries written to,
  moved,     \* and those made or removed
  phase,     \* of collect
  at,        \* the entry the walk is at
  visited,   \* the entries it has met
  copied,    \* the registered artifacts: the hash input of each
  total,     \* blocks copied in all
  files,     \* the snapshot files
  kept,      \* those the clean-up could not remove
  rows,      \* agent_artifacts
  status     \* agent_tasks.result_status

directory == <<kind, source, writes, written, moved>>
walk == <<at, visited, copied, total>>
disk == <<files, kept>>
table == <<rows, status>>
snapshotVars == <<directory, phase, walk, disk, table>>

Registered == DOMAIN copied
Row(e) == [entry |-> e, hash |-> copied[e]]

\* The type of the state.
SnapshotTypeOK ==
  /\ kind \in [Entry -> {"file", "dir", "other", "absent"}]
  /\ source \in [Entry -> Seq(Block)]
  /\ writes \in 0..MaxWrites /\ written \subseteq Entry /\ moved \subseteq Entry
  /\ phase \in {"walk", "copy", "commit", "undo", "ended", "down", "recovered"}
  /\ at \in 0..MaxEntry /\ visited \in 0..MaxEntries + 1
  /\ Registered \subseteq Entry
  /\ \A e \in Registered : copied[e] \in Seq(Block)
  /\ total \in 0..MaxTotal + 1
  /\ files \in [Entry -> Seq(Block) \cup {NoFile}] /\ kept \subseteq Entry
  /\ rows \subseteq [entry : Entry, hash : Seq(Block)]
  /\ status \in {"pending", "complete", "incomplete"}

SnapshotInit ==
  /\ kind \in [Entry -> {"file", "dir", "other", "absent"}]
  /\ \E size \in [Entry -> 0..MaxFile + 1] :
       /\ \A e \in Entry : kind[e] # "file" => size[e] = 0
       /\ source = [e \in Entry |-> [i \in 1..size[e] |-> <<e, i, "first">>]]
  /\ writes = 0 /\ written = {} /\ moved = {}
  /\ phase = "walk"
  /\ at = 0 /\ visited = 0
  /\ copied = <<>>
  /\ total = 0
  /\ files = [e \in Entry |-> NoFile] /\ kept = {}
  /\ rows = {}
  /\ status = "pending"

-----------------------------------------------------------------------------
(* A process outside the container. *)

Changing == phase \in {"walk", "copy"} /\ writes < MaxWrites /\ writes' = writes + 1

\* It adds a block to a file, or writes one again.
Change(e) ==
  /\ Changing /\ kind[e] = "file"
  /\ \E i \in 1..Len(source[e]) + 1 :
       source' = [source EXCEPT ![e] = [j \in DOMAIN @ \cup {i} |->
                    IF j = i THEN <<e, i, "later">> ELSE @[j]]]
  /\ written' = written \cup {e}
  /\ UNCHANGED <<kind, moved, phase, walk, disk, table>>

\* It makes an entry, or moves one here from elsewhere.  The place of the file
\* that is being copied stays taken: it is still open.
Create(e) ==
  /\ Changing /\ kind[e] = "absent" /\ ~ (phase = "copy" /\ e = at)
  /\ \E k \in {"file", "dir", "other"}, size \in 0..MaxFile + 1 :
       /\ k # "file" => size = 0
       /\ kind' = [kind EXCEPT ![e] = k]
       /\ source' = [source EXCEPT ![e] = [i \in 1..size |-> <<e, i, "later">>]]
  /\ moved' = moved \cup {e}
  /\ UNCHANGED <<written, phase, walk, disk, table>>

\* It removes an entry.  A copy that has the file open goes on.
Delete(e) ==
  /\ Changing /\ kind[e] # "absent"
  /\ kind' = [kind EXCEPT ![e] = "absent"]
  /\ moved' = moved \cup {e}
  /\ UNCHANGED <<source, written, phase, walk, disk, table>>

-----------------------------------------------------------------------------
(* The snapshot. *)

\* The entries between the one the walk is at and this one.
Between(e) == {f \in Entry : at < f /\ f < e /\ kind[f] # "absent"}

\* The walk meets the next entry.  Of what was made meanwhile it may miss some.
Meets(e) ==
  /\ phase = "walk" /\ at < e /\ kind[e] # "absent" /\ Between(e) \subseteq moved
  /\ at' = e /\ visited' = visited + 1

\* A directory is put on the list of those to be read.
VisitDirectory(e) ==
  /\ Meets(e) /\ visited < MaxEntries /\ kind[e] = "dir"
  /\ UNCHANGED <<directory, phase, copied, total, disk, table>>

\* A bug: one file more than the limit.
CopyableTooMany(e) ==
  /\ visited < MaxEntries /\ kind[e] = "file"
  /\ Cardinality(Registered) <= MaxFiles
  /\ Len(source[e]) <= MaxFile

Copyable(e) ==
  /\ visited < MaxEntries /\ kind[e] = "file"
  /\ Cardinality(Registered) < MaxFiles
  /\ Len(source[e]) <= MaxFile

\* The file is registered before it is copied, so that undo finds it.
VisitFile(e) ==
  /\ Meets(e) /\ Copyable(e)
  /\ copied' = [f \in Registered \cup {e} |-> IF f = e THEN <<>> ELSE copied[f]]
  /\ files' = [files EXCEPT ![e] = <<>>]
  /\ phase' = "copy"
  /\ UNCHANGED <<directory, total, kept, table>>

\* A link, a special file, or one entry or one file too many.
VisitRefused(e) ==
  /\ Meets(e) /\ (kind[e] = "dir" => visited >= MaxEntries) /\ ~ Copyable(e)
  /\ phase' = "undo"
  /\ UNCHANGED <<directory, copied, total, disk, table>>

\* The same bytes go to the hash and to the file, and a limit is met before
\* they are written, whatever length the file had when it was opened.
CopyBlock ==
  /\ phase = "copy"
  /\ LET size == Len(copied[at]) IN
     /\ size < Len(source[at])
     /\ total' = total + 1
     /\ IF size + 1 > MaxFile \/ total + 1 > MaxTotal
          THEN phase' = "undo" /\ UNCHANGED <<copied, files>>
          ELSE /\ copied' = [copied EXCEPT ![at] = Append(@, source[at][size + 1])]
               /\ files' = [files EXCEPT ![at] = Append(@, source[at][size + 1])]
               /\ UNCHANGED phase
  /\ UNCHANGED <<directory, at, visited, kept, table>>

\* The end of the file is read.
CopyEnds ==
  /\ phase = "copy" /\ Len(copied[at]) >= Len(source[at])
  /\ phase' = "walk"
  /\ UNCHANGED <<directory, walk, disk, table>>

\* A check of the directory, an open, a read or a write fails.
CopyFails ==
  /\ phase \in {"walk", "copy"}
  /\ phase' = "undo"
  /\ UNCHANGED <<directory, walk, disk, table>>

WalkEnds ==
  /\ phase = "walk" /\ Between(MaxEntry + 1) \subseteq moved
  /\ phase' = "commit"
  /\ UNCHANGED <<directory, walk, disk, table>>

Forgets(e) == copied' = Restrict(copied, Registered \ {e})

\* A bug: the file that was being copied is not removed.
UndoFinished ==
  /\ phase = "undo"
  /\ \E e \in Registered :
       /\ Forgets(e)
       /\ files' = IF e = at THEN files ELSE [files EXCEPT ![e] = NoFile]
  /\ UNCHANGED <<directory, phase, at, visited, total, kept, table>>

\* After an error the registered files are removed one by one, and an error of
\* that is ignored.
Undo ==
  /\ phase = "undo"
  /\ \E e \in Registered :
       /\ Forgets(e)
       /\ \/ files' = [files EXCEPT ![e] = NoFile] /\ UNCHANGED kept
          \/ kept' = kept \cup {e} /\ UNCHANGED files
  /\ UNCHANGED <<directory, phase, at, visited, total, table>>

\* The locals of the call are gone.
Forget == at' = 0 /\ visited' = 0 /\ copied' = <<>> /\ total' = 0

\* Nothing reads the directory any more, and it is not followed further.
LeaveDirectory ==
  /\ kind' = [e \in Entry |-> "absent"] /\ source' = [e \in Entry |-> <<>>]
  /\ writes' = 0 /\ written' = {} /\ moved' = {}

\* The rows and the status are written in one transaction.
Commit ==
  /\ \/ /\ phase = "commit"
        /\ rows' = {Row(e) : e \in Registered}
        /\ status' = "complete"
     \/ /\ phase = "undo" /\ Registered = {}
        /\ status' = "incomplete"
        /\ UNCHANGED rows
  /\ phase' = "ended"
  /\ Forget /\ LeaveDirectory
  /\ UNCHANGED disk

\* The agent ends, or the transaction fails, which makes it stop.
Crash ==
  /\ phase \in {"walk", "copy", "commit", "undo"}
  /\ phase' = "down"
  /\ Forget
  /\ UNCHANGED <<directory, disk, table>>

\* The next open of the store settles what is pending.
Recover ==
  /\ phase = "down"
  /\ phase' = "recovered"
  /\ status' = IF status = "pending" THEN "incomplete" ELSE status
  /\ UNCHANGED <<directory, walk, disk, rows>>

SnapshotNext ==
  \/ \E e \in Entry : \/ Change(e) \/ Create(e) \/ Delete(e)
                     \/ VisitDirectory(e) \/ VisitFile(e) \/ VisitRefused(e)
  \/ CopyBlock \/ CopyEnds \/ CopyFails \/ WalkEnds
  \/ Undo \/ Commit \/ Crash \/ Recover
=============================================================================
