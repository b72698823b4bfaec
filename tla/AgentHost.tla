------------------------------- MODULE AgentHost -------------------------------
(***************************************************************************)
(* The agent's directory and the processes that use it: start of the       *)
(* desktop (lifecycle.rs), initialize (identity.rs), serve up to the       *)
(* bound listener and its end (service.rs), and the maintenance program    *)
(* (agent/main.rs).                                                        *)
(*                                                                         *)
(* A configuration is the node and address it was made for, one value, and *)
(* the directories.  A certificate, an owner token and their credentials   *)
(* go by the id of the identity they were made with.  What an agent does   *)
(* while it serves is in the module AgentRunner.                           *)
(***************************************************************************)
EXTENDS Database, FiniteSets

CONSTANTS
  Desktop,     \* the desktop's process
  Server,      \* other processes: agents and the maintenance program
  Root,        \* the directories a user may choose
  Place,       \* the addresses the machine may have
  MaxTrouble   \* bound: crashes, failures, timeouts, stops, other starts

ASSUME HostAssumption ==
  /\ Process = Server \cup {Desktop} /\ Desktop \notin Server
  /\ MaxTrouble \in Nat

VARIABLES
  place,     \* the address the machine has now
  trouble,   \* history: how many of these happened
  pc,        \* where each process is
  cfg,       \* its configuration
  id,        \* its identity
  served,    \* of an agent: the owner_token_hash it read
  child,     \* the agent start spawned
  failed,    \* start reported that it failed
  escaped,   \* history: the system would not look at the child, or not end it
  keys,      \* private keys in the credential store
  owners,    \* owner tokens in the credential store
  hash,      \* settings.owner_token_hash
  identity,  \* settings.remote_identity
  endpoint,  \* endpoint.json
  config     \* config.json

local == <<pc, cfg, id, served>>
start == <<child, failed, escaped>>
vault == <<keys, owners>>
settings == <<hash, identity>>
files == <<endpoint, config>>
stored == <<vault, settings, files>>
vars == <<database, place, trouble, local, start, stored>>

\* Bound: every trouble may leave the credentials of one identity behind.
Id == 1..MaxTrouble + 1
NoId == 0
NoConfig == [none |-> TRUE]
Config == [place : Place, roots : Root]
NoIdentity == [none |-> TRUE]
Identity == [id : Id, place : Place]

Creating == {"saveKey", "saveOwner", "setHash", "setIdentity"}
Initializing == {"init", "endpoint"} \cup Creating
Serving == {"serve", "drain"}
Resting == {"idle", "off"}

\* The type of the state; who uses the store holds it.
TypeOK ==
  /\ DatabaseTypeOK
  /\ place \in Place /\ trouble \in 0..MaxTrouble
  /\ pc \in [Process -> Resting \cup Initializing \cup Serving \cup
                        {"status", "open", "writeConfig", "close", "spawn", "poll", "kill",
                         "wait", "readConfig", "cli", "readKey", "bind"}]
  /\ cfg \in [Process -> {NoConfig} \cup Config]
  /\ id \in [Process -> {NoId} \cup Id]
  /\ served \in [Server -> {NoId} \cup Id]
  /\ child \in Server \cup {NoProcess} /\ failed \in BOOLEAN /\ escaped \in BOOLEAN
  /\ keys \subseteq Id /\ owners \subseteq Id
  /\ hash \in {NoId} \cup Id
  /\ identity \in {NoIdentity} \cup Identity /\ endpoint \in {NoIdentity} \cup Identity
  /\ config \in {NoConfig} \cup Config
  /\ \A p \in Process :
       pc[p] \in Initializing \cup Serving \cup {"writeConfig", "close", "readKey", "bind"}
         => phase[p] = "open" /\ lock = p

Init ==
  /\ DatabaseInit
  /\ place \in Place /\ trouble = 0
  /\ pc = [p \in Process |-> IF p = Desktop THEN "idle" ELSE "off"]
  /\ cfg = [p \in Process |-> NoConfig]
  /\ id = [p \in Process |-> NoId]
  /\ served = [s \in Server |-> NoId]
  /\ child = NoProcess /\ failed = FALSE /\ escaped = FALSE
  /\ keys = {} /\ owners = {}
  /\ hash = NoId /\ identity = NoIdentity
  /\ endpoint = NoIdentity /\ config = NoConfig

Trouble == trouble < MaxTrouble /\ trouble' = trouble + 1
At(p, from, to) == pc[p] = from /\ pc' = [pc EXCEPT ![p] = to]

\* A process, or a call of the desktop, is over: nothing of it is left.
End(p) ==
  /\ pc' = [pc EXCEPT ![p] = IF p = Desktop THEN "idle" ELSE "off"]
  /\ cfg' = [cfg EXCEPT ![p] = NoConfig]
  /\ id' = [id EXCEPT ![p] = NoId]
  /\ served' = IF p \in Server THEN [served EXCEPT ![p] = NoId] ELSE served
  /\ Close(p)

\* start ends, with this report.
Report(f) == failed' = f /\ UNCHANGED <<child, escaped>>

\* It ends with an error of the system, and the child is left to itself.
Abandon == End(Desktop) /\ failed' = TRUE /\ escaped' = TRUE /\ child' = child

-----------------------------------------------------------------------------
(* Opening the store, for start, serve and the maintenance program. *)

OpenStore(p) ==
  /\ pc[p] \in {"open", "cli"}
  /\ Open(p)
  /\ UNCHANGED <<place, trouble, local, start, stored>>

Opened(p) ==
  /\ phase[p] = "open"
  /\ At(p, "open", "init")
  /\ UNCHANGED <<database, place, trouble, cfg, id, served, start, stored>>

NotOpened(p) ==
  /\ pc[p] \in {"open", "cli"} /\ phase[p] = "failed"
  /\ End(p)
  /\ IF p = Desktop THEN Report(TRUE) ELSE UNCHANGED start
  /\ UNCHANGED <<place, trouble, stored>>

-----------------------------------------------------------------------------
(* initialize. *)

Fresh(i) == i \notin keys /\ \A j \in 1..i - 1 : j \in keys

\* A bug: endpoint.json is written for a new identity only.
InitializeSaved(p) ==
  /\ pc[p] = "init"
  /\ IF identity = NoIdentity
       THEN /\ \E i \in Id : Fresh(i) /\ id' = [id EXCEPT ![p] = i]
            /\ At(p, "init", "saveKey")
            /\ UNCHANGED <<database, cfg, served, start>>
       ELSE IF identity.place = cfg[p].place /\ identity.id \in keys \cap owners
         THEN /\ id' = [id EXCEPT ![p] = identity.id]
              /\ At(p, "init", IF p = Desktop THEN "writeConfig" ELSE "readKey")
              /\ UNCHANGED <<database, cfg, served, start>>
         ELSE End(p) /\ IF p = Desktop THEN Report(TRUE) ELSE UNCHANGED start
  /\ UNCHANGED <<place, trouble, stored>>

\* A saved identity is used again if the configuration is for its place and
\* its credentials can be read; otherwise a new one is made.
Initialize(p) ==
  /\ pc[p] = "init"
  /\ IF identity = NoIdentity
       THEN /\ \E i \in Id : Fresh(i) /\ id' = [id EXCEPT ![p] = i]
            /\ At(p, "init", "saveKey")
            /\ UNCHANGED <<database, cfg, served, start>>
       ELSE IF identity.place = cfg[p].place /\ identity.id \in keys \cap owners
         THEN /\ id' = [id EXCEPT ![p] = identity.id]
              /\ At(p, "init", "endpoint")
              /\ UNCHANGED <<database, cfg, served, start>>
         ELSE End(p) /\ IF p = Desktop THEN Report(TRUE) ELSE UNCHANGED start
  /\ UNCHANGED <<place, trouble, stored>>

SaveKey(p) ==
  /\ At(p, "saveKey", "saveOwner")
  /\ keys' = keys \cup {id[p]}
  /\ UNCHANGED <<database, place, trouble, cfg, id, served, start, owners, settings, files>>

SaveOwner(p) ==
  /\ At(p, "saveOwner", "setHash")
  /\ owners' = owners \cup {id[p]}
  /\ UNCHANGED <<database, place, trouble, cfg, id, served, start, keys, settings, files>>

SetHash(p) ==
  /\ At(p, "setHash", "setIdentity")
  /\ hash' = id[p]
  /\ UNCHANGED <<database, place, trouble, cfg, id, served, start, vault, identity, files>>

SetIdentity(p) ==
  /\ At(p, "setIdentity", "endpoint")
  /\ identity' = [id |-> id[p], place |-> cfg[p].place]
  /\ UNCHANGED <<database, place, trouble, cfg, id, served, start, vault, hash, files>>

WriteEndpoint(p) ==
  /\ At(p, "endpoint", IF p = Desktop THEN "writeConfig" ELSE "readKey")
  /\ endpoint' = identity
  /\ UNCHANGED <<database, place, trouble, cfg, id, served, start, vault, settings, config>>

Creates(p) == Initialize(p) \/ SaveKey(p) \/ SaveOwner(p) \/ SetHash(p) \/ SetIdentity(p)

-----------------------------------------------------------------------------
(* start. *)

\* The owner's client is made from endpoint.json and its credential; the agent
\* it reaches must have the certificate, the address and the token.
Reaches(s) ==
  /\ pc[s] \in Serving
  /\ endpoint # NoIdentity /\ endpoint.id \in owners
  /\ id[s] = endpoint.id /\ cfg[s].place = endpoint.place /\ cfg[s].place = place
  /\ served[s] = endpoint.id
Running == config # NoConfig /\ \E s \in Server : Reaches(s)

\* The user starts the agent.  The configuration is for the address now.
Start ==
  /\ At(Desktop, "idle", "status")
  /\ \E r \in Root : cfg' = [cfg EXCEPT ![Desktop] = [place |-> place, roots |-> r]]
  /\ child' = NoProcess /\ failed' = FALSE /\ escaped' = FALSE
  /\ UNCHANGED <<database, place, trouble, id, served, stored>>

Refuse ==
  /\ pc[Desktop] = "status" /\ Running
  /\ End(Desktop) /\ Report(TRUE)
  /\ UNCHANGED <<place, trouble, stored>>

\* A bug: the configuration is written before the store is opened.
ProceedWriting ==
  /\ At(Desktop, "status", "open")
  /\ IF Running THEN Trouble ELSE UNCHANGED trouble
  /\ config' = cfg[Desktop]
  /\ UNCHANGED <<database, place, cfg, id, served, start, vault, settings, endpoint>>

\* No agent answers, or the request fails.
Proceed ==
  /\ At(Desktop, "status", "open")
  /\ IF Running THEN Trouble ELSE UNCHANGED trouble
  /\ UNCHANGED <<database, place, cfg, id, served, start, stored>>

WriteConfig ==
  /\ At(Desktop, "writeConfig", "close")
  /\ config' = cfg[Desktop]
  /\ UNCHANGED <<database, place, trouble, cfg, id, served, start, vault, settings, endpoint>>

\* A bug: the store is kept until start returns.
CloseStoreLater ==
  /\ At(Desktop, "close", "spawn")
  /\ UNCHANGED <<database, place, trouble, cfg, id, served, start, stored>>

CloseStore ==
  /\ At(Desktop, "close", "spawn")
  /\ Close(Desktop)
  /\ UNCHANGED <<place, trouble, cfg, id, served, start, stored>>

Spawn ==
  /\ pc[Desktop] = "spawn"
  /\ \E s \in Server :
       /\ pc[s] = "off"
       /\ pc' = [pc EXCEPT ![Desktop] = "poll", ![s] = "readConfig"]
       /\ child' = s
  /\ UNCHANGED <<database, place, trouble, cfg, id, served, failed, escaped, stored>>

\* The child has exited, or an agent answers.
PollEnds ==
  /\ pc[Desktop] = "poll"
  /\ \/ pc[child] = "off" /\ Report(TRUE)
     \/ pc[child] # "off" /\ Running /\ Report(FALSE)
  /\ End(Desktop)
  /\ UNCHANGED <<place, trouble, stored>>

\* The system does not say whether the child has exited.
PollFails ==
  /\ pc[Desktop] = "poll" /\ Trouble
  /\ Abandon
  /\ UNCHANGED <<place, stored>>

\* No attempt got an answer: the child is killed and awaited.
NotConfirmed ==
  /\ pc[Desktop] = "poll" /\ Trouble
  /\ pc' = [pc EXCEPT ![Desktop] = "kill"]
  /\ UNCHANGED <<database, place, cfg, id, served, start, stored>>

Kill ==
  /\ pc[Desktop] = "kill"
  /\ pc' = [pc EXCEPT ![Desktop] = "idle", ![child] = "off"]
  /\ cfg' = [cfg EXCEPT ![Desktop] = NoConfig, ![child] = NoConfig]
  /\ id' = [id EXCEPT ![Desktop] = NoId, ![child] = NoId]
  /\ served' = [served EXCEPT ![child] = NoId]
  /\ Close(child)
  /\ Report(TRUE)
  /\ UNCHANGED <<place, trouble, stored>>

\* An error of the kill is ignored: the child is awaited all the same, and an
\* error of that is ignored too.
KillFails ==
  /\ pc[Desktop] = "kill"
  /\ \/ /\ pc' = [pc EXCEPT ![Desktop] = "wait"]
        /\ UNCHANGED <<database, cfg, id, served, start>>
     \/ Abandon
  /\ UNCHANGED <<place, trouble, stored>>

Waited ==
  /\ pc[Desktop] = "wait" /\ pc[child] = "off"
  /\ End(Desktop) /\ Report(TRUE)
  /\ UNCHANGED <<place, trouble, stored>>

\* The owner stops the agent; start does not keep it from doing so.
Stop ==
  /\ Trouble
  /\ \E s \in Server : Reaches(s) /\ At(s, "serve", "drain")
  /\ UNCHANGED <<database, place, cfg, id, served, start, stored>>

-----------------------------------------------------------------------------
(* serve. *)

\* A logon starts an agent, or a user the maintenance program.
Launch(s) ==
  /\ Trouble /\ s # child
  /\ At(s, "off", "readConfig") \/ At(s, "off", "cli")
  /\ UNCHANGED <<database, place, cfg, id, served, start, stored>>

\* The configuration must be for the address the machine has.
ReadConfig(s) ==
  /\ pc[s] = "readConfig"
  /\ IF config # NoConfig /\ config.place = place
       THEN /\ At(s, "readConfig", "open") /\ cfg' = [cfg EXCEPT ![s] = config]
            /\ UNCHANGED <<database, id, served>>
       ELSE End(s)
  /\ UNCHANGED <<place, trouble, start, stored>>

\* The private key and the hash of the owner's token.
ReadKey(s) ==
  /\ pc[s] = "readKey"
  /\ IF id[s] \in keys /\ hash # NoId
       THEN /\ At(s, "readKey", "bind") /\ served' = [served EXCEPT ![s] = hash]
            /\ UNCHANGED <<database, cfg, id>>
       ELSE End(s)
  /\ UNCHANGED <<place, trouble, start, stored>>

\* The address must be one of the machine and not in use.
Bind(s) ==
  /\ pc[s] = "bind"
  /\ IF cfg[s].place = place /\ \A t \in Server : pc[t] \notin Serving
       THEN At(s, "bind", "serve") /\ UNCHANGED <<database, cfg, id, served>>
       ELSE End(s)
  /\ UNCHANGED <<place, trouble, start, stored>>

\* The runner has returned, or the maintenance is done.
Exit(s) ==
  /\ pc[s] = "drain" \/ (pc[s] = "cli" /\ phase[s] = "open")
  /\ End(s)
  /\ UNCHANGED <<place, trouble, start, stored>>

-----------------------------------------------------------------------------
(* What may go wrong. *)

\* A step of start or serve returns an error.
StepFails(p) ==
  /\ Trouble
  /\ \/ /\ pc[p] \in {"open", "cli"} /\ OpenFails(p)
        /\ UNCHANGED <<local, start, stored>>
     \/ /\ pc[p] \in Initializing \cup {"readConfig", "writeConfig", "spawn", "readKey", "bind"}
        /\ End(p)
        /\ IF p = Desktop THEN Report(TRUE) ELSE UNCHANGED start
        /\ \/ UNCHANGED keys
           \/ pc[p] = "saveOwner" /\ keys' = keys \ {id[p]}
        /\ UNCHANGED <<owners, settings, files>>
  /\ UNCHANGED place

\* A process dies; a child survives the desktop.
Die(p) ==
  /\ Trouble /\ pc[p] \notin Resting
  /\ End(p)
  /\ IF p = Desktop THEN child' = NoProcess /\ failed' = FALSE /\ escaped' = FALSE ELSE UNCHANGED start
  /\ UNCHANGED <<place, stored>>

\* The machine gets another address.
Move ==
  /\ Trouble
  /\ \E a \in Place \ {place} : place' = a
  /\ UNCHANGED <<database, local, start, stored>>

-----------------------------------------------------------------------------
Common(p) == OpenStore(p) \/ Opened(p) \/ NotOpened(p) \/ Creates(p) \/ WriteEndpoint(p)

Starting ==
  \/ Common(Desktop) \/ Refuse \/ Proceed \/ WriteConfig \/ CloseStore \/ Spawn
  \/ PollEnds \/ NotConfirmed \/ Kill \/ Waited

Serve(s) == Common(s) \/ ReadConfig(s) \/ ReadKey(s) \/ Bind(s) \/ Exit(s)

Next ==
  \/ Start \/ Starting \/ PollFails \/ KillFails \/ Stop \/ Move
  \/ \E s \in Server : Serve(s) \/ Launch(s)
  \/ \E p \in Process : StepFails(p) \/ Die(p)

Spec == Init /\ [][Next]_vars

\* The runtime goes on with every call and process, and the user asks again.
FairSpec ==
  /\ Spec
  /\ WF_vars(Start) /\ WF_vars(Starting)
  /\ \A s \in Server : WF_vars(Serve(s))

-----------------------------------------------------------------------------
(* Properties. *)

\* While an agent serves, no other process uses its store, so nothing of the
\* directory is changed (lifecycle.rs:109-115).
ServedIsKept ==
  [][(\E s \in Server : pc[s] \in Serving) => UNCHANGED <<schema, stored>>]_vars

\* An identity that is saved can be used by every later start: its key, its
\* owner token and the hash of that token were saved before
\* (identity.rs:148-181).
IdentityIsComplete ==
  identity # NoIdentity => identity.id \in keys \cap owners /\ hash = identity.id

\* The owner can reach the agent that serves, unless the machine has moved
\* (service.rs:365-369, client.rs:250-259).
OwnerInControl ==
  \A s \in Server : pc[s] \in Serving => Reaches(s) \/ cfg[s].place # place

\* A start that is reported as failed has left no agent of its own, unless the
\* system failed it: an error of try_wait ends start at once, errors of kill
\* and wait are ignored (lifecycle.rs:149-168).
FailedLeavesNone ==
  failed /\ child # NoProcess => pc[child] = "off" \/ escaped

\* Nothing a start can do about it: the first open was cut off after it created
\* the file, the database is of a later version, or the identity is for
\* another place.
Stuck ==
  schema \in {0, Newer} \/ (identity # NoIdentity /\ identity.place # place)

\* Whatever was cut off, an agent can be started again
\* (identity.rs:127-182, database.rs:21-82).
StartsAgain == []<>(Running \/ Stuck)
=============================================================================
