------------------------------ MODULE Download ------------------------------
(***************************************************************************)
(* A result file on its way to the user: the agent's snapshot              *)
(* (ResultSnapshot), its artifact routes, and RemoteClient::download on    *)
(* the desktop, which appends to a .partial file, resumes it after an      *)
(* interruption and publishes it with a hard link.                         *)
(*                                                                         *)
(* All downloads go to one place chosen by the user, and may overlap:      *)
(* nothing keeps a second one from starting, the page forgets that it is   *)
(* busy when it is closed.  A file is named by the download that created   *)
(* it; a directory entry names a file.  A write is done when its step is.  *)
(***************************************************************************)
EXTENDS ResultSnapshot, SequencesExt

CONSTANTS
  MaxCall,    \* bound: downloads
  MaxLoss     \* bound: downloads cut off by a lost connection or an exit

ASSUME CallAssumption == MaxCall \in Nat /\ MaxLoss \in Nat

VARIABLES
  cached,     \* the controller's remote_artifact_cache of this task
  damaged,    \* a snapshot file was altered on the agent's disk
  call,       \* the downloads
  overlapped, \* the artifacts of which two ran at the same time
  data,       \* the contents of the files created by them
  partial,    \* the .partial entry of every artifact
  target,     \* the entry of the chosen place
  published,  \* the artifact published there
  losses

desktop == <<partial, target, published>>
downloadVars == <<cached, damaged, call, overlapped, data, desktop, losses>>
vars == <<snapshotVars, downloadVars>>

Call == 1..MaxCall
NoInode == 0
Artifacts == {r.entry : r \in rows}
HashOf(a) == (CHOOSE r \in rows : r.entry = a).hash
Size(a) == Len(HashOf(a))

Unused == [pc |-> "new", artifact |-> NoEntry, handle |-> NoInode, retained |-> 0,
           cursor |-> 0, got |-> 0, hashed |-> <<>>, from |-> 0, left |-> 0]

Busy == {"open", "length", "read", "send", "body", "check", "link", "unlink"}
Outcome == {"exists", "unusable", "refused", "interrupted", "mismatch", "failed", "ok"}
Active == {d \in Call : call[d].pc \in Busy}
Partial(d) == partial[call[d].artifact]
Contents(d) == data[call[d].handle]

-----------------------------------------------------------------------------
(* The agent's side. *)

OpenEnd == -1
NoRange == [start |-> 0, end |-> -2]
Unsatisfiable == [start |-> 0, length |-> 0, partial |-> TRUE]
Minimum(a, b) == IF a < b THEN a ELSE b

\* A bug: the last byte asked for is not counted.
ByteRangeShort(range, size) ==
  LET last == IF size = 0 THEN 0 ELSE size - 1
      end == IF range.end = OpenEnd THEN last ELSE Minimum(range.end, last)
  IN  IF range = NoRange THEN [start |-> 0, length |-> size, partial |-> FALSE]
      ELSE IF range.start >= size \/ end < range.start THEN Unsatisfiable
      ELSE [start |-> range.start, length |-> end - range.start, partial |-> TRUE]

\* What part of a file of this size a Range header asks for.
ByteRange(range, size) ==
  LET last == IF size = 0 THEN 0 ELSE size - 1
      end == IF range.end = OpenEnd THEN last ELSE Minimum(range.end, last)
  IN  IF range = NoRange THEN [start |-> 0, length |-> size, partial |-> FALSE]
      ELSE IF range.start >= size \/ end < range.start THEN Unsatisfiable
      ELSE [start |-> range.start, length |-> end - range.start + 1, partial |-> TRUE]

\* Someone writes to the agent's own directory: a block of a file is changed,
\* or a file is cut off.
Damage(e) ==
  /\ ~ damaged /\ phase = "ended" /\ e \in Artifacts
  /\ \/ \E i \in DOMAIN files[e] : files' = [files EXCEPT ![e][i] = <<e, i, "later">>]
     \/ files[e] # <<>> /\ files' = [files EXCEPT ![e] = Front(@)]
  /\ damaged' = TRUE
  /\ UNCHANGED <<directory, phase, walk, kept, table,
                 cached, call, overlapped, data, desktop, losses>>

-----------------------------------------------------------------------------
(* The desktop's side. *)

\* The sum of the sizes.
Bytes(list) == MapThenSumSet(LAMBDA r : Len(r.hash), list)

\* The check of a list of artifacts before it is stored.
Acceptable(list) ==
  /\ Cardinality(list) <= MaxFiles
  /\ \A r \in list : Len(r.hash) <= MaxFile
  /\ Bytes(list) <= MaxTotal

CacheArtifacts ==
  /\ status = "complete" /\ cached # rows
  /\ Acceptable(rows)
  /\ cached' = rows
  /\ UNCHANGED <<snapshotVars, damaged, call, overlapped, data, desktop, losses>>

\* Of a download that has ended nothing is left but how.
Ended(d, outcome) == [Unused EXCEPT !.artifact = call[d].artifact, !.pc = outcome]
Goto(d, pc) ==
  call' = [call EXCEPT ![d] = IF pc \in Outcome THEN Ended(d, pc) ELSE [@ EXCEPT !.pc = pc]]

\* The user asks for an artifact of the agent's list and chooses the place.
Begin(d, a) ==
  /\ call[d].pc = "new"
  /\ d > 1 => call[d - 1].pc # "new"
  /\ a \in Artifacts
  /\ call' = [call EXCEPT ![d] = [Unused EXCEPT !.artifact = a,
                !.pc = IF target # NoInode THEN "exists" ELSE "open"]]
  /\ overlapped' = IF target = NoInode /\ \E c \in Active : call[c].artifact = a
                      THEN overlapped \cup {a} ELSE overlapped
  /\ UNCHANGED <<snapshotVars, cached, damaged, data, desktop, losses>>

\* The .partial file is opened, or created.
Open(d) ==
  /\ call[d].pc = "open"
  /\ LET inode == IF Partial(d) = NoInode THEN d ELSE Partial(d) IN
     /\ partial' = [partial EXCEPT ![call[d].artifact] = inode]
     /\ call' = [call EXCEPT ![d].pc = "length", ![d].handle = inode]
  /\ UNCHANGED <<snapshotVars, cached, damaged, overlapped, data, target, published, losses>>

\* Its length is read once.
Length(d) ==
  /\ call[d].pc = "length"
  /\ IF Len(Contents(d)) > Size(call[d].artifact)
       THEN Goto(d, "unusable")
       ELSE call' = [call EXCEPT ![d].retained = Len(Contents(d)), ![d].pc = "read"]
  /\ UNCHANGED <<snapshotVars, cached, damaged, overlapped, data, desktop, losses>>

\* A bug: the file is not read again, the cursor stays at its beginning.
ReadPartialRewound(d) ==
  /\ call[d].pc = "read"
  /\ call' = [call EXCEPT ![d].hashed = Contents(d), ![d].cursor = 0,
               ![d].pc = IF call[d].retained < Size(call[d].artifact) THEN "send" ELSE "check"]
  /\ UNCHANGED <<snapshotVars, cached, damaged, overlapped, data, desktop, losses>>

\* It is read to its end, which leaves the cursor there.
ReadPartial(d) ==
  /\ call[d].pc = "read"
  /\ call' = [call EXCEPT ![d].hashed = Contents(d), ![d].cursor = Len(Contents(d)),
               ![d].pc = IF call[d].retained < Size(call[d].artifact) THEN "send" ELSE "check"]
  /\ UNCHANGED <<snapshotVars, cached, damaged, overlapped, data, desktop, losses>>

RangeHeader(d) ==
  IF call[d].retained > 0 THEN [start |-> call[d].retained, end |-> OpenEnd] ELSE NoRange

\* What the client expects of the status and of the content-range header.
Expected(d, answer) ==
  /\ answer.partial = (call[d].retained > 0)
  /\ answer.partial => /\ answer.start = call[d].retained
                       /\ answer.start + answer.length = Size(call[d].artifact)

\* The agent opens its file and answers, with an error if the length is wrong.
Answer(d) ==
  /\ call[d].pc = "send"
  /\ LET a == call[d].artifact
         answer == ByteRange(RangeHeader(d), Size(a))
     IN  IF Len(files[a]) = Size(a) /\ Expected(d, answer)
           THEN call' = [call EXCEPT ![d].pc = "body", ![d].from = answer.start,
                                     ![d].left = answer.length]
           ELSE Goto(d, "refused")
  /\ UNCHANGED <<snapshotVars, cached, damaged, overlapped, data, desktop, losses>>

Write(contents, n, block) ==
  [i \in DOMAIN contents \cup {n} |-> IF i = n THEN block ELSE contents[i]]

\* The next block is read by the agent, received, written and hashed.
Chunk(d) ==
  LET c == call[d]
  IN  /\ c.pc = "body" /\ c.left > 0
      /\ c.from < Len(files[c.artifact])
      /\ c.retained + c.got < Size(c.artifact)
      /\ LET block == files[c.artifact][c.from + 1] IN
         /\ data' = [data EXCEPT ![c.handle] = Write(@, c.cursor + 1, block)]
         /\ call' = [call EXCEPT ![d].hashed = Append(@, block), ![d].cursor = @ + 1,
                       ![d].got = @ + 1, ![d].from = @ + 1, ![d].left = @ - 1]
      /\ UNCHANGED <<snapshotVars, cached, damaged, overlapped, desktop, losses>>

BodyEnds(d) ==
  /\ call[d].pc = "body" /\ call[d].left = 0
  /\ Goto(d, IF call[d].retained + call[d].got = Size(call[d].artifact)
               THEN "check" ELSE "interrupted")
  /\ UNCHANGED <<snapshotVars, cached, damaged, overlapped, data, desktop, losses>>

\* The connection is lost, or the client's time limit passes.
Lost(d) ==
  /\ call[d].pc \in {"send", "body"} /\ losses < MaxLoss
  /\ losses' = losses + 1
  /\ Goto(d, "interrupted")
  /\ UNCHANGED <<snapshotVars, cached, damaged, overlapped, data, desktop>>

\* A bug: only the length of the file is compared.
CheckSize(d) ==
  /\ call[d].pc = "check"
  /\ Goto(d, "link")
  /\ UNCHANGED <<snapshotVars, cached, damaged, overlapped, data, desktop, losses>>

\* The file is synchronised, and the hash of the stream compared.
Check(d) ==
  /\ call[d].pc = "check"
  /\ Goto(d, IF call[d].hashed = HashOf(call[d].artifact) THEN "link" ELSE "mismatch")
  /\ UNCHANGED <<snapshotVars, cached, damaged, overlapped, data, desktop, losses>>

\* hard_link refuses a place that is taken.
Link(d) ==
  /\ call[d].pc = "link"
  /\ IF target = NoInode /\ Partial(d) # NoInode
       THEN /\ target' = Partial(d) /\ published' = call[d].artifact
            /\ Goto(d, "unlink")
       ELSE /\ Goto(d, "failed")
            /\ UNCHANGED <<target, published>>
  /\ UNCHANGED <<snapshotVars, cached, damaged, overlapped, data, partial, losses>>

Unlink(d) ==
  /\ call[d].pc = "unlink"
  /\ partial' = [partial EXCEPT ![call[d].artifact] = NoInode]
  /\ Goto(d, IF Partial(d) = NoInode THEN "failed" ELSE "ok")
  /\ UNCHANGED <<snapshotVars, cached, damaged, overlapped, data, target, published, losses>>

\* The user follows the message and deletes a .partial file that does not verify.
DeletePartial(a) ==
  /\ partial[a] # NoInode
  /\ \E d \in Call : call[d].artifact = a /\ call[d].pc \in {"mismatch", "unusable"}
  /\ partial' = [partial EXCEPT ![a] = NoInode]
  /\ UNCHANGED <<snapshotVars, cached, damaged, call, overlapped, data, target, published, losses>>

AppExit ==
  /\ Active # {} /\ losses + Cardinality(Active) <= MaxLoss
  /\ losses' = losses + Cardinality(Active)
  /\ call' = [d \in Call |-> IF d \in Active THEN Ended(d, "interrupted") ELSE call[d]]
  /\ UNCHANGED <<snapshotVars, cached, damaged, overlapped, data, desktop>>

-----------------------------------------------------------------------------
(* The specification. *)

\* The type of the state.
TypeOK ==
  /\ SnapshotTypeOK
  /\ cached \in SUBSET rows /\ damaged \in BOOLEAN
  /\ call \in [Call -> [pc : Busy \cup Outcome \cup {"new"}, artifact : Entry \cup {NoEntry},
                       handle : Call \cup {NoInode}, retained : Nat, cursor : Nat, got : Nat,
                       hashed : Seq(Block), from : Nat, left : Nat]]
  /\ overlapped \subseteq Entry
  /\ data \in [Call -> Seq(Block)]
  /\ partial \in [Entry -> Call \cup {NoInode}]
  /\ target \in Call \cup {NoInode}
  /\ published \in Entry \cup {NoEntry}
  /\ losses \in 0..MaxLoss

Init ==
  /\ SnapshotInit
  /\ cached = {}
  /\ damaged = FALSE
  /\ call = [d \in Call |-> Unused]
  /\ overlapped = {}
  /\ data = [d \in Call |-> <<>>]
  /\ partial = [e \in Entry |-> NoInode]
  /\ target = NoInode
  /\ published = NoEntry
  /\ losses = 0

Step(d) ==
  \/ Open(d) \/ Length(d) \/ ReadPartial(d) \/ Answer(d) \/ Chunk(d) \/ BodyEnds(d)
  \/ Check(d) \/ Link(d) \/ Unlink(d)

Next ==
  \/ SnapshotNext /\ UNCHANGED downloadVars
  \/ \E e \in Entry : Damage(e) \/ DeletePartial(e)
  \/ CacheArtifacts
  \/ \E d \in Call : \/ \E a \in Artifacts : Begin(d, a)
                     \/ Step(d) \/ Lost(d)
  \/ AppExit

Spec == Init /\ [][Next]_vars

\* The desktop's runtime goes on with every download, and the user asks again
\* until the file is there.
Retry == \E d \in Call, a \in Artifacts : Begin(d, a)
Fairness == (\A d \in Call : WF_vars(Step(d))) /\ WF_vars(Retry)

-----------------------------------------------------------------------------
(* Properties. *)

\* What a row says of its file is what the file holds, although the source may
\* have been written during the copy (artifacts.rs:138-156).
RowMatchesFile ==
  phase \in {"ended", "recovered"} /\ ~ damaged =>
    \A r \in rows : files[r.entry] = r.hash

\* What is about to be recorded as a complete result holds every file that was
\* there all the time and nothing else, but for entries made or removed
\* meanwhile; a file nobody wrote to is whole (artifacts.rs:79-159).
CompleteIsWhole ==
  phase = "commit" =>
    /\ \A e \in Entry \ moved : e \in Registered <=> kind[e] = "file"
    /\ \A e \in Registered \ (written \cup moved) : copied[e] = source[e]

\* A snapshot that failed leaves no row, and no file but one that could not be
\* removed, wherever it failed; only a crash leaves others that nobody knows
\* (artifacts.rs:130, 161-166).
FailureLeavesNothing ==
  phase = "ended" /\ status = "incomplete" =>
    rows = {} /\ \A e \in Entry \ kept : files[e] = NoFile

\* What the agent's side promises, by its parts (artifacts.rs:12-168).
SnapshotInv == TypeOK /\ RowMatchesFile /\ CompleteIsWhole /\ FailureLeavesNothing

\* The two sides apply the same limits: a complete result is never refused by
\* the controller's cache_artifacts (core/src/remote/storage.rs:499-520).
CompleteIsAcceptable == status = "complete" => Acceptable(rows)

\* What an interrupted download leaves is a beginning of the artifact, so it
\* can be resumed, unless two downloads of it overlapped (client.rs:104-128).
PartialIsPrefix ==
  ~ damaged => \A a \in Artifacts \ overlapped :
    partial[a] # NoInode => IsPrefix(data[partial[a]], HashOf(a))

\* The file the user gets is the artifact the agent took, whatever happened on
\* the way, and stays it, unless two downloads of it overlapped
\* (client.rs:167-178).
PublishedIsArtifact ==
  target # NoInode /\ published \notin overlapped => data[target] = HashOf(published)

\* What docs/remote-usage.md:31 says of every download: its file is complete
\* only after it was verified.  Two that overlap break it (client.rs:84-160).
PublishedIsVerified == target # NoInode => data[target] = HashOf(published)

\* The promise as an abstract specification, see ResultDelivery: an artifact
\* appears in its place whole and at once, and nothing replaces it or writes to
\* it; a result is settled once (artifacts.rs:29-50, client.rs:167-178).  A
\* place taken by an artifact whose downloads overlapped is left out.
Delivered ==
  IF target = NoInode \/ published \in overlapped
    THEN {} ELSE {[entry |-> published, hash |-> data[target]]}
Delivery == INSTANCE ResultDelivery
              WITH File <- [entry : Entry, hash : Seq(Block)],
                   result <- status, list <- rows, place <- Delivered
ImplementsDelivery == Delivery!Spec

\* A user who asks again after every interruption gets the file, unless it was
\* altered on the agent or two downloads of one artifact overlapped
\* (client.rs:118-166).
ResumeCompletes ==
  Artifacts # {} ~> target # NoInode \/ damaged \/ overlapped # {}
=============================================================================
