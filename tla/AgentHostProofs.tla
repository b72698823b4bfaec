--------------------------- MODULE AgentHostProofs ---------------------------
(***************************************************************************)
(* Theorems about AgentHost and the Database it opens, for every set of    *)
(* processes, directories and addresses, every number of migrations and    *)
(* every number of crashes, failures and stops.                            *)
(***************************************************************************)
EXTENDS AgentHost, TLAPS

-----------------------------------------------------------------------------
(***************************************************************************)
(* The inductive invariant.                                                *)
(***************************************************************************)
\* Whoever inspects, upgrades or uses the file holds its lock; a file that is
\* about to be migrated has its backup; no step goes back.
DatabaseInv ==
  /\ \A p \in Process : phase[p] \in Working \cup {"open"} => lock = p
  /\ origin \in 1..Newer => schema \in origin..Newer
  /\ UpgradeHasBackup
  /\ \A p \in Process : phase[p] = "backup" => schema \in 1..SchemaVersion - 1
  /\ \A p \in Process : phase[p] \in {"connect", "migrate"} =>
       /\ schema \in Absent..SchemaVersion
       /\ schema = origin /\ schema \in 1..SchemaVersion - 1 => origin \in backups
  /\ \A p \in Process : phase[p] = "migrate" => schema # Absent

Using == Initializing \cup Serving \cup {"writeConfig", "close", "readKey", "bind"}
Ready == Serving \cup {"readKey", "bind"}

\* What a process may rely on where it is.
HostOf(p) ==
  /\ pc[p] \in Using => phase[p] = "open" /\ lock = p
  /\ pc[p] \in Using \cup {"status", "open"} => cfg[p] \in Config
  /\ pc[p] \in Creating => identity = NoIdentity /\ id[p] \in Id
  /\ pc[p] = "saveOwner" => id[p] \in keys
  /\ pc[p] \in {"setHash", "setIdentity"} => id[p] \in keys \cap owners
  /\ pc[p] = "setIdentity" => hash = id[p]
  /\ pc[p] \in Ready \cup {"endpoint"} =>
       identity # NoIdentity /\ identity.id = id[p] /\ identity.place = cfg[p].place
  /\ pc[p] \in Ready => endpoint = identity
  /\ pc[p] \in Serving \cup {"bind"} /\ p \in Server => served[p] = id[p]

HostInv ==
  /\ \A p \in Process : HostOf(p)
  /\ IdentityIsComplete
  /\ pc[Desktop] \in {"poll", "kill", "wait"} => child \in Server

IInv == TypeOK /\ DatabaseInv /\ HostInv

-----------------------------------------------------------------------------
(***************************************************************************)
(* The database.                                                           *)
(***************************************************************************)
\* A step of the open keeps the types.
LEMMA OpenType ==
  ASSUME DatabaseTypeOK, DatabaseInv, NEW p \in Process, Open(p) \/ OpenFails(p) \/ Close(p)
  PROVE  DatabaseTypeOK'
<1> USE DatabaseAssumption DEF DatabaseTypeOK, To, Release, Working, Absent, Newer
<1>1. CASE Lock(p)
  BY <1>1 DEF Lock
<1>2. CASE Inspect(p)
  BY <1>2 DEF Inspect
<1>3. CASE Backup(p)
  BY <1>3 DEF Backup, DatabaseInv
<1>4. CASE Connect(p)
  BY <1>4 DEF Connect
<1>5. CASE Migrate(p)
  BY <1>5 DEF Migrate
<1>6. CASE OpenFails(p)
  BY <1>6 DEF OpenFails
<1>7. CASE Close(p)
  BY <1>7 DEF Close
<1> QED
  BY <1>1, <1>2, <1>3, <1>4, <1>5, <1>6, <1>7 DEF Open

\* A step of the open keeps the lock with whoever is past it, and the backup
\* of whatever is changed.
LEMMA OpenStep ==
  ASSUME DatabaseTypeOK, DatabaseInv, NEW p \in Process, Open(p) \/ OpenFails(p) \/ Close(p)
  PROVE  DatabaseInv'
<1> USE DatabaseAssumption DEF DatabaseTypeOK, DatabaseInv, UpgradeHasBackup, To, Release,
                               Working, Absent, Newer
<1>1. CASE Lock(p)
  BY <1>1 DEF Lock
<1>2. CASE Inspect(p)
  BY <1>2 DEF Inspect
<1>3. CASE Backup(p)
  BY <1>3 DEF Backup
<1>4. CASE Connect(p)
  BY <1>4 DEF Connect
<1>5. CASE Migrate(p)
  BY <1>5 DEF Migrate
<1>6. CASE OpenFails(p)
  BY <1>6 DEF OpenFails
<1>7. CASE Close(p)
  BY <1>7 DEF Close
<1> QED
  BY <1>1, <1>2, <1>3, <1>4, <1>5, <1>6, <1>7 DEF Open

\* A process that neither opens nor closes keeps its phase and its lock.
LEMMA OthersOpen ==
  ASSUME DatabaseTypeOK, NEW p \in Process, NEW q \in Process, q # p,
         Open(p) \/ OpenFails(p) \/ Close(p), phase[q] = "open", lock = q
  PROVE  phase'[q] = "open" /\ lock' = q
<1> USE DatabaseAssumption DEF DatabaseTypeOK, To, Release
<1> QED
  BY DEF Open, Lock, Inspect, Backup, Connect, Migrate, OpenFails, Close

\* Every step of a process is of its open, or leaves the database alone.
LEMMA DatabaseMoves ==
  ASSUME TypeOK, HostInv, Next
  PROVE  \/ UNCHANGED database
         \/ \E p \in Process : Open(p) \/ OpenFails(p) \/ Close(p)
<1> USE HostAssumption
<1>1. CASE Start \/ Proceed \/ WriteConfig \/ Spawn \/ NotConfirmed \/ Stop \/ Move
  BY <1>1 DEF Start, Proceed, WriteConfig, Spawn, NotConfirmed, Stop, Move
<1>2. CASE Refuse \/ CloseStore \/ PollEnds \/ PollFails \/ KillFails \/ Waited
  BY <1>2 DEF Refuse, CloseStore, PollEnds, PollFails, KillFails, Waited, Abandon, End
<1>3. CASE Kill
  BY <1>3 DEF Kill, HostInv
<1>4. ASSUME NEW p \in Process, Common(p) \/ StepFails(p) \/ Die(p)
      PROVE  UNCHANGED database \/ Open(p) \/ OpenFails(p) \/ Close(p)
  BY <1>4 DEF Common, Creates, OpenStore, Opened, NotOpened, Initialize, SaveKey, SaveOwner,
              SetHash, SetIdentity, WriteEndpoint, StepFails, Die, End
<1>5. ASSUME NEW s \in Server, Serve(s) \/ Launch(s)
      PROVE  \/ UNCHANGED database
             \/ Open(s) \/ OpenFails(s) \/ Close(s)
  <2>1. CASE Common(s)
    BY <2>1, <1>4
  <2> QED
    BY <1>5, <2>1 DEF Serve, Launch, ReadConfig, ReadKey, Bind, Exit, End
<1> QED
  BY <1>1, <1>2, <1>3, <1>4, <1>5 DEF Next, Starting

-----------------------------------------------------------------------------
(***************************************************************************)
(* The processes.                                                          *)
(***************************************************************************)
Same(q) ==
  /\ pc'[q] = pc[q] /\ cfg'[q] = cfg[q] /\ id'[q] = id[q]
  /\ q \in Server => served'[q] = served[q]

\* A configuration and an identity are not "none".
LEMMA SomeConfig == \A a, r : [place |-> a, roots |-> r] # NoConfig
BY DEF NoConfig

LEMMA SomeIdentity == \A i, a : [id |-> i, place |-> a] # NoIdentity
BY DEF NoIdentity

\* A process is where it was as long as it keeps the store it uses.
LEMMA HostSame ==
  ASSUME NEW q \in Process, HostOf(q), Same(q),
         pc[q] \in Using => phase'[q] = "open" /\ lock' = q /\ UNCHANGED stored
  PROVE  HostOf(q)'
BY DEF HostOf, Same, Using, Ready, Initializing, Creating, Serving, stored, vault, settings,
       files, Config, Id, Identity

\* Two processes do not use the store at once.
LEMMA OneUses ==
  ASSUME HostInv, NEW p \in Process, NEW q \in Process, q # p, pc[p] \in Using
  PROVE  pc[q] \notin Using
BY DEF HostInv, HostOf

\* The step of one process leaves the others where they were.
LEMMA OneMoves ==
  ASSUME TypeOK, HostInv, NEW p \in Process, NEW q \in Process, q # p, Same(q),
         UNCHANGED database \/ Open(p) \/ OpenFails(p) \/ Close(p),
         UNCHANGED stored \/ pc[p] \in Using
  PROVE  HostOf(q)'
<1>1. HostOf(q)
  BY DEF HostInv
<1>2. ASSUME pc[q] \in Using PROVE phase'[q] = "open" /\ lock' = q
  <2>1. phase[q] = "open" /\ lock = q
    BY <1>1, <1>2 DEF HostOf
  <2>2. CASE UNCHANGED database
    BY <2>1, <2>2 DEF database
  <2>3. CASE Open(p) \/ OpenFails(p) \/ Close(p)
    BY <2>1, <2>3, OthersOpen DEF TypeOK
  <2> QED
    BY <2>2, <2>3
<1>3. pc[q] \in Using => UNCHANGED stored
  BY OneUses
<1> QED
  BY <1>1, <1>2, <1>3, HostSame

\* A process that ends relies on nothing.
LEMMA EndStep ==
  ASSUME TypeOK, NEW p \in Process, End(p)
  PROVE  HostOf(p)' /\ \A q \in Process \ {p} : Same(q)
<1> USE HostAssumption
<1>1. pc'[p] \in {"idle", "off"}
  BY DEF End, TypeOK
<1>2. HostOf(p)'
  BY <1>1 DEF HostOf, Using, Ready, Initializing, Creating, Serving
<1> QED
  BY <1>2 DEF End, Same, TypeOK

\* The step of a process keeps the invariant if it leaves that process where it
\* may be, and a saved identity complete.
LEMMA HostFrame ==
  ASSUME TypeOK, HostInv, NEW p \in Process, \A q \in Process \ {p} : Same(q),
         UNCHANGED database \/ Open(p) \/ OpenFails(p) \/ Close(p),
         UNCHANGED stored \/ pc[p] \in Using,
         HostOf(p)', IdentityIsComplete',
         pc'[Desktop] \in {"poll", "kill", "wait"} => child' \in Server
  PROVE  HostInv'
<1>1. \A q \in Process \ {p} : HostOf(q)'
  BY OneMoves
<1> QED
  BY <1>1 DEF HostInv

\* An identity is complete as long as nothing is taken away.
LEMMA StoredKept ==
  ASSUME IdentityIsComplete, UNCHANGED stored
  PROVE  IdentityIsComplete'
BY DEF IdentityIsComplete, stored, vault, settings, files

\* The steps of initialize.
LEMMA CreatesStep ==
  ASSUME TypeOK, HostInv, NEW p \in Process, Creates(p) \/ WriteEndpoint(p)
  PROVE  HostInv'
<1> USE HostAssumption DEF At
<1> DEFINE Poll == pc'[Desktop] \in {"poll", "kill", "wait"} => child' \in Server
<1>0. /\ HostOf(p) /\ IdentityIsComplete
      /\ pc[Desktop] \in {"poll", "kill", "wait"} => child \in Server
  BY DEF HostInv
<1>1. CASE pc[p] = "init" /\ End(p) /\ UNCHANGED stored /\ Initialize(p)
  <2>1. Poll
    BY <1>0, <1>1 DEF Initialize, End, Report, TypeOK, start
  <2> QED
    BY <1>0, <1>1, <2>1, EndStep, StoredKept, HostFrame DEF End
<1>2. CASE pc[p] = "init" /\ ~End(p) /\ Initialize(p)
  <2>1. UNCHANGED <<database, cfg, served, start, stored>>
    BY <1>2 DEF Initialize
  <2>2. Poll
    BY <1>0, <1>2, <2>1 DEF Initialize, TypeOK, start
  <2>3. HostOf(p)'
    <3>1. cfg'[p] = cfg[p] /\ cfg[p] \in Config /\ phase'[p] = "open" /\ lock' = p
      BY <1>0, <1>2, <2>1 DEF HostOf, Using, Initializing, database
    <3>2. CASE identity = NoIdentity
      <4>1. pc'[p] = "saveKey" /\ id'[p] \in Id /\ identity' = NoIdentity
        BY <1>2, <2>1, <3>2 DEF Initialize, TypeOK, stored, settings
      <4> QED
        BY <3>1, <4>1 DEF HostOf, Using, Ready, Initializing, Creating, Serving, Id
    <3>3. CASE identity # NoIdentity
      <4>1. /\ pc'[p] = "endpoint" /\ id'[p] = identity.id /\ identity.place = cfg[p].place
            /\ UNCHANGED identity
        BY <1>2, <2>1, <3>3 DEF Initialize, TypeOK, stored, settings
      <4> QED
        BY <3>1, <3>3, <4>1 DEF HostOf, Using, Ready, Initializing, Creating, Serving
    <3> QED
      BY <3>2, <3>3
  <2>4. \A q \in Process \ {p} : Same(q)
    BY <1>2, <2>1 DEF Initialize, Same, TypeOK
  <2> QED
    BY <1>0, <2>1, <2>2, <2>3, <2>4, StoredKept, HostFrame
<1>3. CASE SaveKey(p) \/ SaveOwner(p) \/ SetHash(p) \/ SetIdentity(p) \/ WriteEndpoint(p)
  <2>0. UNCHANGED <<database, cfg, id, served, start>> /\ pc[p] \in Using
    BY <1>3 DEF SaveKey, SaveOwner, SetHash, SetIdentity, WriteEndpoint, Using, Initializing,
                Creating
  <2>1. Poll
    BY <1>0, <1>3, <2>0 DEF SaveKey, SaveOwner, SetHash, SetIdentity, WriteEndpoint, TypeOK, start
  <2>2. \A q \in Process \ {p} : Same(q)
    BY <1>3, <2>0 DEF SaveKey, SaveOwner, SetHash, SetIdentity, WriteEndpoint, Same, TypeOK
  <2>3. HostOf(p)' /\ IdentityIsComplete'
    <3>0. /\ phase'[p] = "open" /\ lock' = p /\ cfg'[p] = cfg[p] /\ cfg[p] \in Config
          /\ id'[p] = id[p]
      BY <1>0, <2>0 DEF HostOf, database
    <3> USE DEF HostOf, IdentityIsComplete, Using, Ready, Initializing, Creating, Serving,
                vault, settings, files
    <3>1. CASE SaveKey(p)
      <4>1. pc'[p] = "saveOwner"
        BY <3>1 DEF SaveKey, TypeOK
      <4> QED
        BY <1>0, <3>0, <3>1, <4>1 DEF SaveKey
    <3>2. CASE SaveOwner(p)
      <4>1. pc'[p] = "setHash"
        BY <3>2 DEF SaveOwner, TypeOK
      <4> QED
        BY <1>0, <3>0, <3>2, <4>1 DEF SaveOwner
    <3>3. CASE SetHash(p)
      <4>1. pc'[p] = "setIdentity"
        BY <3>3 DEF SetHash, TypeOK
      <4> QED
        BY <1>0, <3>0, <3>3, <4>1 DEF SetHash
    <3>4. CASE SetIdentity(p)
      <4>1. pc'[p] = "endpoint"
        BY <3>4 DEF SetIdentity, TypeOK
      <4> QED
        BY <1>0, <3>0, <3>4, <4>1, SomeIdentity DEF SetIdentity
    <3>5. CASE WriteEndpoint(p)
      <4>1. pc'[p] = IF p = Desktop THEN "writeConfig" ELSE "readKey"
        BY <3>5 DEF WriteEndpoint, TypeOK
      <4> QED
        BY <1>0, <3>0, <3>5, <4>1 DEF WriteEndpoint
    <3> QED
      BY <1>3, <3>1, <3>2, <3>3, <3>4, <3>5
  <2> QED
    BY <2>0, <2>1, <2>2, <2>3, HostFrame
<1> QED
  BY <1>1, <1>2, <1>3 DEF Creates, Initialize

\* The steps of the open, and those that end a process.
LEMMA CommonStep ==
  ASSUME TypeOK, DatabaseInv, HostInv, NEW p \in Process, Common(p)
  PROVE  HostInv'
<1> USE HostAssumption DEF At
<1>0. /\ HostOf(p) /\ IdentityIsComplete
      /\ pc[Desktop] \in {"poll", "kill", "wait"} => child \in Server
  BY DEF HostInv
<1>1. CASE OpenStore(p)
  <2>1. UNCHANGED <<local, start, stored>> /\ pc[p] \notin Using /\ Open(p)
    BY <1>1 DEF OpenStore, Using, Initializing, Creating, Serving
  <2>2. HostOf(p)' /\ \A q \in Process \ {p} : Same(q)
    BY <1>0, <2>1, HostSame DEF Same, local
  <2> QED
    BY <1>0, <2>1, <2>2, StoredKept, HostFrame DEF local, start
<1>2. CASE Opened(p)
  <2>1. UNCHANGED <<database, cfg, id, served, start, stored>> /\ pc'[p] = "init"
    BY <1>2 DEF Opened, TypeOK
  <2>2. phase'[p] = "open" /\ lock' = p
    BY <1>2, <2>1 DEF Opened, DatabaseInv, database
  <2>3. HostOf(p)' /\ \A q \in Process \ {p} : Same(q)
    BY <1>0, <1>2, <2>1, <2>2 DEF Opened, Same, HostOf, Using, Ready, Initializing, Creating,
                                  Serving, TypeOK
  <2> QED
    BY <1>0, <1>2, <2>1, <2>3, StoredKept, HostFrame DEF Opened, TypeOK, start
<1>3. CASE NotOpened(p)
  <2>1. pc'[Desktop] \in {"poll", "kill", "wait"} => child' \in Server
    BY <1>0, <1>3 DEF NotOpened, End, Report, TypeOK, start
  <2> QED
    BY <1>0, <1>3, <2>1, EndStep, StoredKept, HostFrame DEF NotOpened, End
<1> QED
  BY <1>1, <1>2, <1>3, CreatesStep DEF Common

LEMMA FaultStep ==
  ASSUME TypeOK, HostInv, NEW p \in Process, StepFails(p) \/ Die(p)
  PROVE  HostInv'
<1> USE HostAssumption
<1>0. /\ HostOf(p) /\ IdentityIsComplete
      /\ pc[Desktop] \in {"poll", "kill", "wait"} => child \in Server
  BY DEF HostInv
<1>1. CASE StepFails(p) /\ OpenFails(p) /\ UNCHANGED <<local, start, stored>>
           /\ pc[p] \in {"open", "cli"}
  <2>1. HostOf(p)' /\ \A q \in Process \ {p} : Same(q)
    BY <1>0, <1>1, HostSame DEF Same, local, Using, Initializing, Creating, Serving
  <2> QED
    BY <1>0, <1>1, <2>1, StoredKept, HostFrame DEF local, start
<1>2. CASE End(p) /\ ((StepFails(p) /\ ~UNCHANGED <<local, start, stored>>) \/ Die(p))
  <2>1. pc'[Desktop] \in {"poll", "kill", "wait"} => child' \in Server
    BY <1>0, <1>2 DEF StepFails, Die, End, Report, TypeOK, start
  <2>2. UNCHANGED stored \/ (pc[p] = "saveOwner" /\ keys' = keys \ {id[p]}
                             /\ UNCHANGED <<owners, settings, files>>)
    BY <1>2 DEF StepFails, Die, stored, vault
  <2>3. CASE UNCHANGED stored
    BY <1>0, <1>2, <2>1, <2>3, EndStep, StoredKept, HostFrame DEF End
  <2>4. CASE pc[p] = "saveOwner" /\ keys' = keys \ {id[p]} /\ UNCHANGED <<owners, settings, files>>
    <3>1. identity = NoIdentity /\ pc[p] \in Using
      BY <1>0, <2>4 DEF HostOf, Using, Initializing, Creating
    <3>2. IdentityIsComplete'
      BY <2>4, <3>1 DEF IdentityIsComplete, settings
    <3> QED
      BY <1>2, <2>1, <3>1, <3>2, EndStep, HostFrame DEF End
  <2> QED
    BY <2>2, <2>3, <2>4
<1>3. CASE StepFails(p) /\ End(p) /\ UNCHANGED <<local, start, stored>>
  <2>1. HostOf(p)' /\ \A q \in Process \ {p} : Same(q)
    BY <1>3, EndStep
  <2> QED
    BY <1>0, <1>3, <2>1, StoredKept, HostFrame DEF local, start, End
<1> QED
  BY <1>1, <1>2, <1>3 DEF StepFails, Die

\* The steps of start that leave the agents alone.
LEMMA StartStep ==
  ASSUME TypeOK, HostInv,
         \/ Start \/ Refuse \/ Proceed \/ WriteConfig \/ CloseStore
         \/ PollEnds \/ NotConfirmed \/ PollFails \/ KillFails \/ Waited
  PROVE  HostInv'
<1> USE HostAssumption DEF At
<1>0. /\ HostOf(Desktop) /\ IdentityIsComplete
      /\ pc[Desktop] \in {"poll", "kill", "wait"} => child \in Server
      /\ DOMAIN pc = Process /\ Desktop \in Process
  BY DEF HostInv, TypeOK
<1>1. CASE Start \/ Proceed \/ NotConfirmed \/ (KillFails /\ ~Abandon)
  <2>1. UNCHANGED <<database, id, served, stored>>
    BY <1>1 DEF Start, Proceed, NotConfirmed, KillFails
  <2>2. \A q \in Process \ {Desktop} : Same(q)
    BY <1>1, <2>1, <1>0 DEF Start, Proceed, NotConfirmed, KillFails, Same, TypeOK
  <2>3. /\ pc'[Desktop] \in {"status", "open", "kill", "wait"}
        /\ pc'[Desktop] \notin {"kill", "wait"} => cfg'[Desktop] \in Config
    <3>1. CASE Start
      BY <1>0, <3>1 DEF Start, TypeOK, Config
    <3>2. CASE Proceed
      BY <1>0, <3>2 DEF Proceed, HostOf
    <3>3. CASE NotConfirmed
      BY <1>0, <3>3 DEF NotConfirmed
    <3>4. CASE KillFails /\ ~Abandon
      BY <1>0, <3>4 DEF KillFails
    <3> QED
      BY <1>1, <3>1, <3>2, <3>3, <3>4
  <2>4. HostOf(Desktop)'
    BY <2>3 DEF HostOf, Using, Ready, Initializing, Creating, Serving
  <2>5. pc'[Desktop] \in {"poll", "kill", "wait"} => child' \in Server
    BY <1>0, <1>1, <2>3 DEF Start, Proceed, NotConfirmed, KillFails, start
  <2> QED
    BY <1>0, <2>1, <2>2, <2>4, <2>5, StoredKept, HostFrame
<1>2. CASE Refuse \/ PollEnds \/ Waited \/ ((PollFails \/ KillFails) /\ Abandon)
  <2>1. End(Desktop) /\ UNCHANGED stored /\ pc'[Desktop] = "idle"
    BY <1>0, <1>2 DEF Refuse, PollEnds, PollFails, KillFails, Waited, Abandon, End
  <2> QED
    BY <1>0, <2>1, EndStep, StoredKept, HostFrame DEF End
<1>3. CASE WriteConfig
  <2>1. UNCHANGED <<database, cfg, id, served, start, vault, settings, endpoint>>
        /\ pc[Desktop] \in Using /\ pc'[Desktop] = "close"
    BY <1>0, <1>3 DEF WriteConfig, Using
  <2>2. \A q \in Process \ {Desktop} : Same(q)
    BY <1>3, <2>1, <1>0 DEF WriteConfig, Same
  <2>3. HostOf(Desktop)'
    BY <1>0, <2>1 DEF HostOf, Using, Ready, Initializing, Creating, Serving, database, Config,
                      vault, settings
  <2>4. IdentityIsComplete'
    BY <1>0, <2>1 DEF IdentityIsComplete, vault, settings
  <2> QED
    BY <2>1, <2>2, <2>3, <2>4, HostFrame
<1>4. CASE CloseStore
  <2>1. UNCHANGED <<cfg, id, served, start, stored>> /\ pc'[Desktop] = "spawn" /\ Close(Desktop)
    BY <1>0, <1>4 DEF CloseStore
  <2>2. \A q \in Process \ {Desktop} : Same(q)
    BY <1>4, <2>1, <1>0 DEF CloseStore, Same
  <2>3. HostOf(Desktop)'
    BY <2>1 DEF HostOf, Using, Ready, Initializing, Creating, Serving
  <2> QED
    BY <1>0, <2>1, <2>2, <2>3, StoredKept, HostFrame
<1>5. PollFails => Abandon
  BY DEF PollFails
<1> QED
  BY <1>1, <1>2, <1>3, <1>4, <1>5

\* The steps of an agent, and those of start that touch one.
LEMMA ServeStep ==
  ASSUME TypeOK, DatabaseInv, HostInv, NEW s \in Server,
         Serve(s) \/ Launch(s)
  PROVE  HostInv'
<1> USE HostAssumption DEF At
<1>0. /\ HostOf(s) /\ IdentityIsComplete
      /\ pc[Desktop] \in {"poll", "kill", "wait"} => child \in Server
      /\ DOMAIN pc = Process /\ DOMAIN cfg = Process /\ DOMAIN served = Server
      /\ s \in Process /\ s # Desktop
  BY DEF HostInv, TypeOK
<1>1. CASE End(s) /\ UNCHANGED <<start, stored>>
  BY <1>0, <1>1, EndStep, StoredKept, HostFrame DEF End, start
<1>2. CASE ~End(s) /\ (ReadConfig(s) \/ ReadKey(s) \/ Bind(s) \/ Launch(s))
  <2>1. UNCHANGED <<database, id, start, stored>>
    BY <1>2 DEF ReadConfig, ReadKey, Bind, Launch
  <2>2. \A q \in Process \ {s} : Same(q)
    BY <1>0, <1>2, <2>1 DEF ReadConfig, ReadKey, Bind, Launch, Same
  <2>3. HostOf(s)'
    <3>1. CASE ReadConfig(s)
      <4>1. pc'[s] = "open" /\ cfg'[s] = config /\ config # NoConfig
        BY <1>0, <1>2, <3>1 DEF ReadConfig
      <4>2. cfg'[s] \in Config
        BY <4>1 DEF TypeOK
      <4> QED
        BY <4>1, <4>2 DEF HostOf, Using, Ready, Initializing, Creating, Serving, Config
    <3>2. CASE ReadKey(s)
      <4>1. /\ pc[s] = "readKey" /\ pc'[s] = "bind" /\ served'[s] = hash
            /\ UNCHANGED <<cfg, id, stored, database>>
        BY <1>0, <1>2, <3>2, <2>1 DEF ReadKey
      <4>2. /\ identity # NoIdentity /\ identity.id = id[s] /\ identity.place = cfg[s].place
            /\ endpoint = identity /\ cfg[s] \in Config /\ phase[s] = "open" /\ lock = s
        BY <1>0, <4>1 DEF HostOf, Using, Ready
      <4>3. hash = id[s]
        BY <1>0, <4>2 DEF IdentityIsComplete
      <4> QED
        BY <4>1, <4>2, <4>3 DEF HostOf, Using, Ready, Initializing, Creating, Serving, stored,
                                settings, files, database, Config
    <3>3. CASE Bind(s)
      <4>1. /\ pc[s] = "bind" /\ pc'[s] = "serve" /\ UNCHANGED <<cfg, id, served, stored, database>>
        BY <1>0, <1>2, <3>3, <2>1 DEF Bind
      <4>2. /\ identity # NoIdentity /\ identity.id = id[s] /\ identity.place = cfg[s].place
            /\ endpoint = identity /\ cfg[s] \in Config /\ phase[s] = "open" /\ lock = s
            /\ served[s] = id[s]
        BY <1>0, <4>1 DEF HostOf, Using, Ready
      <4> QED
        BY <4>1, <4>2 DEF HostOf, Using, Ready, Initializing, Creating, Serving, stored,
                          settings, files, database, Config
    <3>4. CASE Launch(s)
      BY <1>0, <3>4 DEF Launch, HostOf, Using, Ready, Initializing, Creating, Serving
    <3> QED
      BY <1>2, <3>1, <3>2, <3>3, <3>4
  <2>4. pc'[Desktop] = pc[Desktop]
    BY <1>0, <2>2 DEF Same
  <2> QED
    BY <1>0, <2>1, <2>2, <2>3, <2>4, StoredKept, HostFrame DEF start
<1>3. CASE Exit(s)
  BY <1>1, <1>3 DEF Exit
<1>4. CASE Common(s)
  BY <1>0, <1>4, CommonStep
<1> QED
  BY <1>1, <1>2, <1>3, <1>4 DEF Serve, Launch, ReadConfig, ReadKey, Bind

\* The steps that belong to the desktop and an agent, or to none.
LEMMA SharedStep ==
  ASSUME TypeOK, DatabaseInv, HostInv, Spawn \/ Kill \/ Stop \/ Move
  PROVE  HostInv'
<1> USE HostAssumption DEF At
<1>0. /\ \A q \in Process : HostOf(q) 
      /\ IdentityIsComplete
      /\ pc[Desktop] \in {"poll", "kill", "wait"} => child \in Server
      /\ DOMAIN pc = Process /\ DOMAIN cfg = Process /\ DOMAIN served = Server /\ DOMAIN id = Process
  BY DEF HostInv, TypeOK
<1>1. CASE Spawn
  <2>1. PICK s \in Server : pc[s] = "off" /\ child' = s
                            /\ pc' = [pc EXCEPT ![Desktop] = "poll", ![s] = "readConfig"]
    BY <1>1 DEF Spawn
  <2>2. UNCHANGED <<database, cfg, id, served, stored>>
    BY <1>1 DEF Spawn
  <2>3. \A q \in Process \ {s, Desktop} : HostOf(q)'
    BY <1>0, <2>1, <2>2, HostSame DEF Same, database, HostOf
  <2>4. HostOf(s)' /\ HostOf(Desktop)'
    BY <1>0, <2>1 DEF HostOf, Using, Ready, Initializing, Creating, Serving
  <2> QED
    BY <1>0, <2>1, <2>2, <2>3, <2>4, StoredKept DEF HostInv
<1>2. CASE Kill
  <2>1. child \in Server /\ child' = child /\ Close(child) /\ UNCHANGED stored
    BY <1>0, <1>2 DEF Kill, Report
  <2>2. /\ \A q \in Process \ {child, Desktop} : Same(q)
        /\ pc'[child] = "off" /\ pc'[Desktop] = "idle"
    BY <1>0, <1>2, <2>1 DEF Kill, Same
  <2>3. \A q \in Process \ {child, Desktop} : HostOf(q)'
    <3> TAKE q \in Process \ {child, Desktop}
    <3> QED
      BY <2>1, <2>2, OneMoves
  <2>4. HostOf(child)' /\ HostOf(Desktop)'
    BY <2>1, <2>2 DEF HostOf, Using, Ready, Initializing, Creating, Serving
  <2> QED
    BY <1>0, <2>1, <2>2, <2>3, <2>4, StoredKept DEF HostInv
<1>3. CASE Stop
  <2>1. PICK s \in Server : pc[s] = "serve" /\ pc' = [pc EXCEPT ![s] = "drain"]
    BY <1>3 DEF Stop
  <2>2. UNCHANGED <<database, cfg, id, served, start, stored>>
    BY <1>3 DEF Stop
  <2>3. \A q \in Process \ {s} : HostOf(q)'
    BY <1>0, <2>1, <2>2, HostSame DEF Same, database, HostOf
  <2>4. HostOf(s)'
    BY <1>0, <2>1, <2>2 DEF HostOf, Using, Ready, Initializing, Creating, Serving, database,
                            stored, settings, files, Config
  <2> QED
    BY <1>0, <2>1, <2>2, <2>3, <2>4, StoredKept DEF HostInv, start
<1>4. CASE Move
  <2>1. UNCHANGED <<database, local, start, stored>>
    BY <1>4 DEF Move
  <2>2. \A q \in Process : HostOf(q)'
    BY <1>0, <2>1, HostSame DEF Same, local, database, HostOf
  <2> QED
    BY <1>0, <2>1, <2>2, StoredKept DEF HostInv, local, start
<1> QED
  BY <1>1, <1>2, <1>3, <1>4

\* Every step keeps what the processes rely on.
LEMMA HostStep ==
  ASSUME TypeOK, DatabaseInv, HostInv, Next
  PROVE  HostInv'
<1> USE HostAssumption
<1>1. CASE Common(Desktop)
  BY <1>1, CommonStep
<1>2. ASSUME NEW s \in Server, Serve(s) \/ Launch(s) PROVE HostInv'
  BY <1>2, ServeStep
<1>3. ASSUME NEW p \in Process, StepFails(p) \/ Die(p) PROVE HostInv'
  BY <1>3, FaultStep
<1> QED
  BY <1>1, <1>2, <1>3, StartStep, SharedStep DEF Next, Starting

-----------------------------------------------------------------------------
(***************************************************************************)
(* The types.                                                              *)
(***************************************************************************)
\* TypeOK without what it says of the database and of who uses it.
LocalTypes ==
  /\ pc \in [Process -> Resting \cup Initializing \cup Serving \cup
                        {"status", "open", "writeConfig", "close", "spawn", "poll", "kill",
                         "wait", "readConfig", "cli", "readKey", "bind"}]
  /\ cfg \in [Process -> {NoConfig} \cup Config]
  /\ id \in [Process -> {NoId} \cup Id]
  /\ served \in [Server -> {NoId} \cup Id]
Types ==
  /\ LocalTypes
  /\ place \in Place /\ trouble \in 0..MaxTrouble
  /\ child \in Server \cup {NoProcess} /\ failed \in BOOLEAN /\ escaped \in BOOLEAN
  /\ keys \subseteq Id /\ owners \subseteq Id
  /\ hash \in {NoId} \cup Id
  /\ identity \in {NoIdentity} \cup Identity /\ endpoint \in {NoIdentity} \cup Identity
  /\ config \in {NoConfig} \cup Config

LEMMA TypesEnough ==
  ASSUME DatabaseTypeOK, Types, HostInv
  PROVE  TypeOK
BY DEF Types, LocalTypes, TypeOK, HostInv, HostOf, Using

LEMMA TypesHold ==
  ASSUME TypeOK
  PROVE  Types
BY DEF Types, LocalTypes, TypeOK

\* What initialize makes and writes has its type.
LEMMA CreatesTypes ==
  ASSUME TypeOK, HostInv, NEW p \in Process, Creates(p) \/ WriteEndpoint(p)
  PROVE  Types'
<1> USE HostAssumption, TypesHold DEF At
<1>0. HostOf(p)
  BY DEF HostInv
<1>1. CASE Initialize(p)
  <2>1. CASE End(p)
    BY <1>1, <2>1 DEF Initialize, End, Report, Types, LocalTypes, Resting, stored, vault, settings, files,
                      start
  <2>2. CASE ~End(p)
    <3>0. identity # NoIdentity => identity.id \in Id
      BY DEF Types, LocalTypes, Identity
    <3>1. id' \in [Process -> {NoId} \cup Id]
      BY <1>1, <2>2, <3>0 DEF Initialize, Types, LocalTypes
    <3> QED
      BY <1>1, <2>2, <3>1 DEF Initialize, Types, LocalTypes, Initializing, Creating, stored, vault, settings,
                              files, start
  <2> QED
    BY <2>1, <2>2
<1>2. CASE SaveKey(p) \/ SaveOwner(p) \/ SetHash(p) \/ WriteEndpoint(p)
  <2>1. pc[p] \in Creating => id[p] \in Id
    BY <1>0 DEF HostOf
  <2> QED
    BY <1>2, <2>1 DEF SaveKey, SaveOwner, SetHash, WriteEndpoint, Types, LocalTypes, Initializing, Creating,
                      vault, settings, files, start
<1>3. CASE SetIdentity(p)
  <2>1. identity' \in Identity
    BY <1>0, <1>3 DEF SetIdentity, HostOf, Creating, Using, Initializing, Config, Identity
  <2> QED
    BY <1>3, <2>1 DEF SetIdentity, Types, LocalTypes, Initializing, Creating, vault, files, start
<1> QED
  BY <1>1, <1>2, <1>3 DEF Creates

LEMMA EndTypes ==
  ASSUME TypeOK, NEW p \in Process, End(p)
  PROVE  LocalTypes'
BY HostAssumption DEF End, TypeOK, LocalTypes, Resting

\* Every step keeps the types.
LEMMA TypesStep ==
  ASSUME TypeOK, HostInv, Next
  PROVE  Types'
<1> USE HostAssumption, TypesHold DEF At
<1> USE DEF stored, vault, settings, files, start, local, Resting, Initializing, Creating, Serving
<1>0. pc[Desktop] \in {"poll", "kill", "wait"} => child \in Server
  BY DEF HostInv
<1>t. trouble' = trouble \/ Trouble => trouble' \in 0..MaxTrouble
  BY DEF Types, Trouble
<1>1. ASSUME NEW p \in Process, Common(p) \/ StepFails(p) \/ Die(p) PROVE Types'
  <2>1. CASE Creates(p) \/ WriteEndpoint(p)
    BY <2>1, CreatesTypes
  <2>2. CASE OpenStore(p) \/ Opened(p)
    BY <2>2 DEF OpenStore, Opened, Types, LocalTypes
  <2>3. CASE NotOpened(p) 
    BY <2>3, EndTypes DEF NotOpened, Report, Types
  <2>4. CASE Die(p)
    BY <1>t, <2>4, EndTypes DEF Die, Types
  <2>5. CASE StepFails(p) /\ End(p)
    BY <1>t, <2>5, EndTypes DEF StepFails, Report, Types
  <2>6. CASE StepFails(p) /\ ~End(p)
    BY <1>t, <2>6 DEF StepFails, Types, LocalTypes
  <2> QED
    BY <1>1, <2>1, <2>2, <2>3, <2>4, <2>5, <2>6 DEF Common
<1>2. CASE Proceed \/ WriteConfig \/ CloseStore \/ NotConfirmed \/ Move
  BY <1>t, <1>2 DEF Proceed, WriteConfig, CloseStore, NotConfirmed, Move, Types, LocalTypes
<1>7. CASE Start
  <2>1. \A r \in Root : [place |-> place, roots |-> r] \in Config
    BY DEF Types, Config
  <2> QED
    BY <1>7, <2>1 DEF Start, Types, LocalTypes
<1>3. CASE Refuse \/ PollEnds \/ Waited \/ PollFails \/ (KillFails /\ Abandon)
  BY <1>3, <1>t, EndTypes DEF Refuse, PollEnds, PollFails, KillFails, Waited, Abandon, Report, Types
<1>8. CASE KillFails /\ ~Abandon
  BY <1>8 DEF KillFails, Types, LocalTypes
<1>4. CASE Spawn \/ Stop
  BY <1>t, <1>4 DEF Spawn, Stop, Types, LocalTypes
<1>5. CASE Kill
  BY <1>0, <1>5 DEF Kill, Report, Types, LocalTypes
<1>6. ASSUME NEW s \in Server, Serve(s) \/ Launch(s) PROVE Types'
  <2>1. CASE Common(s)
    BY <1>1, <2>1
  <2>2. CASE End(s) /\ (ReadConfig(s) \/ ReadKey(s) \/ Bind(s) \/ Exit(s))
    BY <2>2, EndTypes DEF ReadConfig, ReadKey, Bind, Exit, Types
  <2>3. CASE ~End(s) /\ (ReadConfig(s) \/ ReadKey(s) \/ Bind(s) \/ Exit(s))
    BY <2>3 DEF ReadConfig, ReadKey, Bind, Exit, Types, LocalTypes
  <2>4. CASE Launch(s)
    BY <1>t, <2>4 DEF Launch, Types, LocalTypes
  <2> QED
    BY <1>6, <2>1, <2>2, <2>3, <2>4 DEF Serve
<1> QED
  BY <1>1, <1>2, <1>3, <1>4, <1>5, <1>6, <1>7, <1>8 DEF Next, Starting

-----------------------------------------------------------------------------
(***************************************************************************)
(* The invariant, and what follows from it.                                *)
(***************************************************************************)
LEMMA InitInv == Init => IInv
<1> SUFFICES ASSUME Init PROVE IInv
  OBVIOUS
<1> USE HostAssumption, DatabaseAssumption DEF Init, DatabaseInit
<1>1. TypeOK
  <2>1. DatabaseTypeOK
    BY DEF DatabaseTypeOK, Absent, Newer, Working
  <2>2. Types
    <3>1. LocalTypes
      BY DEF LocalTypes, Resting
    <3>2. trouble \in 0..MaxTrouble /\ failed \in BOOLEAN /\ escaped \in BOOLEAN /\ keys \subseteq Id /\ owners \subseteq Id
      <4>1. trouble = 0 /\ failed = FALSE /\ escaped = FALSE /\ keys = {} /\ owners = {}
        OBVIOUS
      <4>2. trouble \in 0..MaxTrouble
        BY <4>1
      <4>3. failed \in BOOLEAN /\ escaped \in BOOLEAN
        BY <4>1
      <4>4. keys \subseteq Id /\ owners \subseteq Id
        BY <4>1
      <4> QED
        BY <4>2, <4>3, <4>4
    <3>3. place \in Place /\ child \in Server \cup {NoProcess} /\ hash \in {NoId} \cup Id
      OBVIOUS
    <3>4. identity \in {NoIdentity} \cup Identity /\ endpoint \in {NoIdentity} \cup Identity
          /\ config \in {NoConfig} \cup Config
      OBVIOUS
    <3> QED
      BY <3>1, <3>2, <3>3, <3>4 DEF Types
  <2>3. \A p \in Process : pc[p] \notin Using
    BY DEF Using, Initializing, Serving, Creating
  <2> QED
    BY <2>1, <2>2, <2>3 DEF Types, LocalTypes, TypeOK, Using
<1>2. DatabaseInv
  BY DEF DatabaseInv, UpgradeHasBackup, Absent, Newer, Working
<1>3. HostInv
  BY DEF HostInv, HostOf, IdentityIsComplete, Using, Ready, Initializing, Serving, Creating
<1> QED
  BY <1>1, <1>2, <1>3 DEF IInv

LEMMA StepInv == IInv /\ [Next]_vars => IInv'
<1> SUFFICES ASSUME IInv, [Next]_vars PROVE IInv'
  OBVIOUS
<1> USE DEF IInv
<1>1. CASE Next
  <2>1. DatabaseTypeOK' /\ DatabaseInv'
    <3>1. CASE UNCHANGED database
      BY <3>1 DEF database, TypeOK, DatabaseTypeOK, DatabaseInv, UpgradeHasBackup
    <3>2. CASE \E p \in Process : Open(p) \/ OpenFails(p) \/ Close(p)
      BY <3>2, OpenType, OpenStep DEF TypeOK
    <3> QED
      BY <1>1, <3>1, <3>2, DatabaseMoves
  <2>2. HostInv'
    BY <1>1, HostStep
  <2>3. Types'
    BY <1>1, TypesStep
  <2>4. TypeOK'
    BY <2>1, <2>2, <2>3 DEF Types, LocalTypes, TypeOK, HostInv, HostOf, Using
  <2> QED
    BY <2>1, <2>2, <2>4
<1>2. CASE UNCHANGED vars
  <2>1. UNCHANGED <<database, place, trouble, local, start, stored>>
    BY <1>2 DEF vars
  <2>2. HostInv'
    BY <2>1 DEF local, start, stored, vault, settings, files, database, HostInv, HostOf,
                IdentityIsComplete, Config, Id, Using, Ready, Initializing, Serving, Creating
  <2>3. TypeOK'
    BY <2>1 DEF local, start, stored, vault, settings, files, database, TypeOK, DatabaseTypeOK
  <2>4. DatabaseInv'
    BY <2>1 DEF database, DatabaseInv, UpgradeHasBackup
  <2> QED
    BY <2>2, <2>3, <2>4
<1> QED
  BY <1>1, <1>2

\* Whatever start, serve and the maintenance program do, and wherever they are
\* cut off, each of them has what it relies on (lifecycle.rs, identity.rs,
\* service.rs:360-418).
THEOREM HostInvariant == Spec => []IInv
BY InitInv, StepInv, PTL DEF Spec

\* The state has its type, and who uses the store holds its lock.
THEOREM TypeCorrect == Spec => []TypeOK
<1>1. IInv => TypeOK
  BY DEF IInv
<1> QED
  BY <1>1, HostInvariant, PTL

\* No two processes inspect, upgrade or use the database at once
\* (database.rs:39-48).
THEOREM ExclusiveOpen == Spec => []OneOpener
<1>1. IInv => OneOpener
  BY DEF IInv, DatabaseInv, OneOpener
<1> QED
  BY <1>1, HostInvariant, PTL

\* A database that was found has a backup before it is changed, whatever step of
\* the open is cut off (database.rs:49-80).
THEOREM BackupFirst == Spec => []UpgradeHasBackup
<1>1. IInv => UpgradeHasBackup
  BY DEF IInv, DatabaseInv
<1> QED
  BY <1>1, HostInvariant, PTL

\* A saved identity has its key, its owner token and that token's hash
\* (identity.rs:148-181).
THEOREM IdentityUsable == Spec => []IdentityIsComplete
<1>1. IInv => IdentityIsComplete
  BY DEF IInv, HostInv
<1> QED
  BY <1>1, HostInvariant, PTL

\* The owner is not locked out of an agent that serves where the machine is
\* (service.rs:365-369, client.rs:250-259).
THEOREM OwnerReaches == Spec => []OwnerInControl
<1>1. IInv => OwnerInControl
  <2> SUFFICES ASSUME IInv, NEW s \in Server, pc[s] \in Serving, cfg[s].place = place
               PROVE  Reaches(s)
    BY DEF OwnerInControl
  <2>1. HostOf(s) /\ IdentityIsComplete
    BY HostAssumption DEF IInv, HostInv
  <2>2. /\ identity # NoIdentity /\ identity.id = id[s] /\ identity.place = cfg[s].place
        /\ endpoint = identity /\ served[s] = id[s]
    BY <2>1 DEF HostOf, Using, Ready
  <2> QED
    BY <2>1, <2>2 DEF Reaches, IdentityIsComplete
<1> QED
  BY <1>1, HostInvariant, PTL

\* The directory is changed by a process that uses its store, and never by one
\* that serves.
LEMMA StoredMoves ==
  ASSUME TypeOK, HostInv, Next
  PROVE  \/ UNCHANGED stored
         \/ \E p \in Process : pc[p] \in Using \ Serving
<1> USE HostAssumption DEF At, Using, Serving
<1>1. CASE Start \/ Proceed \/ CloseStore \/ Spawn \/ NotConfirmed \/ Stop \/ Move
  BY <1>1 DEF Start, Proceed, CloseStore, Spawn, NotConfirmed, Stop, Move
<1>2. CASE Refuse \/ PollEnds \/ PollFails \/ Kill \/ KillFails \/ Waited
  BY <1>2 DEF Refuse, PollEnds, PollFails, Kill, KillFails, Waited
<1>3. CASE WriteConfig
  BY <1>3 DEF WriteConfig
<1>4. ASSUME NEW p \in Process, Common(p) \/ StepFails(p) \/ Die(p)
      PROVE  UNCHANGED stored \/ pc[p] \in Using \ Serving
  BY <1>4 DEF Common, Creates, OpenStore, Opened, NotOpened, Initialize, SaveKey, SaveOwner,
              SetHash, SetIdentity, WriteEndpoint, StepFails, Die, Initializing, Creating,
              stored, vault
<1>5. ASSUME NEW s \in Server, Serve(s) \/ Launch(s)
      PROVE  UNCHANGED stored \/ pc[s] \in Using \ Serving
  BY <1>4, <1>5 DEF Serve, Launch, ReadConfig, ReadKey, Bind, Exit
<1> QED
  BY <1>1, <1>2, <1>3, <1>4, <1>5 DEF Next, Starting

\* While an agent serves, whatever else is started or dies changes nothing it
\* serves from (lifecycle.rs:109-115).
THEOREM ServedKept == Spec => ServedIsKept
<1>1. ASSUME IInv, Next, NEW s \in Server, pc[s] \in Serving
      PROVE  UNCHANGED <<schema, stored>>
  <2>1. s \in Process /\ pc[s] \in Using /\ phase[s] = "open" /\ lock = s
    BY <1>1, HostAssumption DEF IInv, HostInv, HostOf, Using
  <2>2. UNCHANGED stored
    BY <1>1, <2>1, StoredMoves, OneUses DEF IInv
  <2>3. ASSUME NEW p \in Process, Open(p) \/ OpenFails(p) \/ Close(p)
        PROVE  UNCHANGED schema
    <3>1. phase[p] \notin {"connect", "migrate"}
      BY <1>1, <2>1 DEF IInv, DatabaseInv, Working
    <3> QED
      BY <2>3, <3>1 DEF Open, Lock, Inspect, Backup, Connect, Migrate, OpenFails, Close
  <2> QED
    BY <1>1, <2>2, <2>3, DatabaseMoves DEF IInv, database
<1>2. IInv /\ [Next]_vars =>
        [(\E s \in Server : pc[s] \in Serving) => UNCHANGED <<schema, stored>>]_vars
  BY <1>1
<1> QED
  BY <1>2, HostInvariant, PTL DEF Spec, ServedIsKept
-----------------------------------------------------------------------------
(***************************************************************************)
(* The agent a start has spawned.                                          *)
(***************************************************************************)
\* There is a child from the spawn on, and a report when the call is over.
ChildInv ==
  /\ pc[Desktop] \notin {"idle", "poll", "kill", "wait"} => child = NoProcess
  /\ pc[Desktop] # "idle" => ~failed
  /\ FailedLeavesNone

\* A server process that goes on or ends does not come back as a child.
LEMMA ServerStep ==
  ASSUME TypeOK, ChildInv, NEW s \in Server, UNCHANGED start,
         \A p \in Process \ {s} : pc'[p] = pc[p],
         pc[s] = "off" => pc'[s] = "off" \/ s # child
  PROVE  ChildInv'
<1>1. pc'[Desktop] = pc[Desktop] /\ child' = child /\ failed' = failed /\ escaped' = escaped
  BY HostAssumption DEF start
<1>2. child # NoProcess /\ pc[child] = "off" => pc'[child] = "off"
  BY HostAssumption DEF TypeOK
<1> QED
  BY <1>1, <1>2 DEF ChildInv, FailedLeavesNone

\* So does the end of start, if its report is true.
LEMMA StartEnds ==
  ASSUME TypeOK, ChildInv, End(Desktop),
         \/ child' = NoProcess
         \/ child' = child /\ (failed' => child = NoProcess \/ pc[child] = "off" \/ escaped')
  PROVE  ChildInv'
<1>1. pc'[Desktop] = "idle" /\ \A s \in Server : pc'[s] = pc[s]
  BY HostAssumption DEF End, TypeOK
<1> QED
  BY <1>1, HostAssumption DEF ChildInv, FailedLeavesNone, TypeOK

\* A step of start before the spawn has no child to report of.
LEMMA BeforeSpawn ==
  ASSUME TypeOK, ChildInv, pc[Desktop] \notin {"idle", "poll", "kill", "wait"},
         \A s \in Server : pc'[s] = pc[s],
         \/ UNCHANGED start /\ pc'[Desktop] \notin {"idle", "poll", "kill", "wait"}
         \/ UNCHANGED start /\ pc'[Desktop] = pc[Desktop]
         \/ End(Desktop) /\ child' = child
  PROVE  ChildInv'
<1>1. CASE UNCHANGED start
  BY <1>1 DEF ChildInv, FailedLeavesNone, start
<1>2. CASE End(Desktop) /\ child' = child
  BY <1>2, StartEnds DEF ChildInv
<1> QED
  BY <1>1, <1>2

LEMMA ChildStep == TypeOK /\ HostInv /\ ChildInv /\ [Next]_vars => ChildInv'
<1> SUFFICES ASSUME TypeOK, HostInv, ChildInv, [Next]_vars PROVE ChildInv'
  OBVIOUS
<1> USE HostAssumption
<1>1. CASE Start
  <2>1. pc'[Desktop] = "status" /\ child' = NoProcess /\ ~failed'
    BY <1>1 DEF Start, At, TypeOK
  <2> QED
    BY <2>1 DEF ChildInv, FailedLeavesNone
<1>2. CASE Refuse
  BY <1>2, BeforeSpawn DEF Refuse, Report, End, TypeOK
<1>3. CASE Proceed \/ WriteConfig \/ CloseStore
  <2>1. /\ pc[Desktop] \in {"status", "writeConfig", "close"}
        /\ pc'[Desktop] \notin {"idle", "poll", "kill", "wait"}
        /\ \A s \in Server : pc'[s] = pc[s]
        /\ UNCHANGED start
    BY <1>3 DEF Proceed, WriteConfig, CloseStore, At, TypeOK
  <2> QED
    BY <2>1, BeforeSpawn
<1>4. CASE Spawn
  <2>1. pc'[Desktop] = "poll" /\ ~failed'
    BY <1>4 DEF Spawn, ChildInv, TypeOK
  <2> QED
    BY <2>1 DEF ChildInv, FailedLeavesNone
<1>5. CASE PollEnds \/ PollFails \/ Waited \/ (KillFails /\ Abandon)
  BY <1>5, StartEnds DEF PollEnds, PollFails, Waited, Abandon, Report
<1>14. CASE KillFails /\ ~Abandon
  <2>1. pc[Desktop] = "kill" /\ pc'[Desktop] = "wait" /\ UNCHANGED start
    BY <1>14 DEF KillFails, TypeOK
  <2> QED
    BY <2>1 DEF ChildInv, FailedLeavesNone, start
<1>6. CASE NotConfirmed
  <2>1. pc[Desktop] = "poll" /\ pc'[Desktop] = "kill" /\ UNCHANGED start
    BY <1>6 DEF NotConfirmed, TypeOK
  <2> QED
    BY <2>1 DEF ChildInv, FailedLeavesNone, start
<1>7. CASE Kill
  <2>1. child \in Server
    BY <1>7 DEF Kill, HostInv
  <2>2. pc'[Desktop] = "idle" /\ pc'[child] = "off" /\ child' = child
    BY <1>7, <2>1 DEF Kill, Report, TypeOK
  <2> QED
    BY <2>2 DEF ChildInv, FailedLeavesNone
<1>8. CASE Stop
  BY <1>8, ServerStep DEF Stop, At, TypeOK, Serving, Reaches
<1>9. CASE Move
  BY <1>9 DEF Move, local, start, ChildInv, FailedLeavesNone
<1>10. CASE Common(Desktop)
  <2>1. CASE OpenStore(Desktop) \/ Opened(Desktop)
    BY <2>1, BeforeSpawn DEF OpenStore, Opened, At, local, TypeOK
  <2>2. CASE NotOpened(Desktop)
    BY <2>2, BeforeSpawn DEF NotOpened, End, Report, TypeOK
  <2>3. CASE Initialize(Desktop)
    <3>1. pc[Desktop] = "init" /\ \A s \in Server : pc'[s] = pc[s]
      BY <2>3 DEF Initialize, At, End, TypeOK
    <3>2. \/ UNCHANGED start /\ pc'[Desktop] \notin {"idle", "poll", "kill", "wait"}
          \/ End(Desktop) /\ child' = child
      BY <2>3 DEF Initialize, At, Report, TypeOK
    <3> QED
      BY <3>1, <3>2, BeforeSpawn
  <2>4. CASE SaveKey(Desktop) \/ SaveOwner(Desktop) \/ SetHash(Desktop) \/ SetIdentity(Desktop)
    BY <2>4, BeforeSpawn DEF SaveKey, SaveOwner, SetHash, SetIdentity, At, TypeOK
  <2>5. CASE WriteEndpoint(Desktop)
    BY <2>5, BeforeSpawn DEF WriteEndpoint, At, TypeOK
  <2> QED
    BY <1>10, <2>1, <2>2, <2>3, <2>4, <2>5 DEF Common, Creates
<1>11. ASSUME NEW s \in Server, Serve(s) \/ Launch(s) PROVE ChildInv'
  <2>1. CASE Launch(s)
    BY <2>1, ServerStep DEF Launch, At, TypeOK
  <2>2. CASE OpenStore(s) \/ Opened(s)
    BY <2>2, ServerStep DEF OpenStore, Opened, At, local, TypeOK
  <2>3. CASE NotOpened(s)
    BY <2>3, ServerStep DEF NotOpened, End, TypeOK
  <2>4. CASE Initialize(s)
    <3>1. pc[s] = "init" /\ UNCHANGED start
      BY <2>4 DEF Initialize
    <3>2. \A p \in Process \ {s} : pc'[p] = pc[p]
      BY <2>4 DEF Initialize, At, End, TypeOK
    <3> QED
      BY <3>1, <3>2, ServerStep
  <2>5. CASE SaveKey(s) \/ SaveOwner(s) \/ SetHash(s) \/ SetIdentity(s)
    BY <2>5, ServerStep DEF SaveKey, SaveOwner, SetHash, SetIdentity, At, TypeOK
  <2>6. CASE WriteEndpoint(s)
    BY <2>6, ServerStep DEF WriteEndpoint, At, TypeOK
  <2>7. CASE ReadConfig(s) \/ ReadKey(s) \/ Bind(s) \/ Exit(s)
    <3>1. pc[s] # "off" /\ UNCHANGED start
      BY <2>7 DEF ReadConfig, ReadKey, Bind, Exit, At
    <3>2. \A p \in Process \ {s} : pc'[p] = pc[p]
      BY <2>7 DEF ReadConfig, ReadKey, Bind, Exit, At, End, TypeOK
    <3> QED
      BY <3>1, <3>2, ServerStep
  <2> QED
    BY <1>11, <2>1, <2>2, <2>3, <2>4, <2>5, <2>6, <2>7 DEF Serve, Common, Creates
<1>12. ASSUME NEW p \in Process, StepFails(p) \/ Die(p) PROVE ChildInv'
  <2>1. CASE p \in Server
    <3>1. UNCHANGED start /\ \A q \in Process \ {p} : pc'[q] = pc[q]
      BY <1>12, <2>1 DEF StepFails, Die, End, local, TypeOK
    <3>2. pc[p] # "off"
      BY <1>12 DEF StepFails, Die, Resting, Initializing, Creating
    <3> QED
      BY <2>1, <3>1, <3>2, ServerStep
  <2>2. CASE p = Desktop /\ Die(Desktop)
    BY <2>2, StartEnds DEF Die
  <2>3. CASE p = Desktop /\ StepFails(Desktop)
    <3>1. pc[Desktop] \notin {"idle", "poll", "kill", "wait"}
      BY <2>3 DEF StepFails, Initializing, Creating
    <3>2. \A s \in Server : pc'[s] = pc[s]
      BY <2>3 DEF StepFails, End, local, TypeOK
    <3>3. \/ UNCHANGED start /\ pc'[Desktop] = pc[Desktop]
          \/ End(Desktop) /\ child' = child
      BY <2>3 DEF StepFails, Report, local
    <3> QED
      BY <3>1, <3>2, <3>3, BeforeSpawn
  <2> QED
    BY <1>12, <2>1, <2>2, <2>3
<1>13. CASE UNCHANGED vars
  BY <1>13 DEF vars, local, start, ChildInv, FailedLeavesNone
<1> QED
  BY <1>1, <1>2, <1>3, <1>4, <1>5, <1>6, <1>7, <1>8, <1>9, <1>10, <1>11, <1>12, <1>13, <1>14
     DEF Next, Starting

\* A start that is reported as failed has left no agent of its own, whatever
\* has been launched since, unless the system would not say whether the child
\* had exited, or would not end it (lifecycle.rs:149-168).
THEOREM FailedLeavesNothing == Spec => []FailedLeavesNone
<1>1. Init => ChildInv
  BY HostAssumption DEF Init, ChildInv, FailedLeavesNone
<1>2. IInv /\ ChildInv /\ [Next]_vars => ChildInv'
  BY ChildStep DEF IInv
<1>3. ChildInv => FailedLeavesNone
  BY DEF ChildInv
<1> QED
  BY <1>1, <1>2, <1>3, HostInvariant, PTL DEF Spec
=============================================================================
