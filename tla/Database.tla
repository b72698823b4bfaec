------------------------------- MODULE Database -------------------------------
(***************************************************************************)
(* Opening a database of the application (database.rs): the lock of its    *)
(* directory, the inspection of the file, the backup before an upgrade and *)
(* the migrations, each in a transaction of its own.                       *)
(*                                                                         *)
(* A file is the number of migrations committed in it; 0 is a file without *)
(* a migration record.  The checks of names, symbolic links, markers and   *)
(* checksums are left out: the file is the application's own.              *)
(***************************************************************************)
EXTENDS Integers

CONSTANTS
  Process,       \* the processes that may open the database
  NoProcess,
  SchemaVersion  \* the number of migrations this version knows

ASSUME DatabaseAssumption ==
  NoProcess \notin Process /\ SchemaVersion \in Nat \ {0}

VARIABLES
  schema,   \* the file: absent, or the migrations committed in it
  origin,   \* history: the file as it was found
  backups,  \* the versions of which a complete backup exists
  lock,     \* the process that holds .tailtask.lock
  phase     \* of the open of each process

database == <<schema, origin, backups, lock, phase>>

Absent == -1
Newer == SchemaVersion + 1
Working == {"inspect", "backup", "connect", "migrate"}

DatabaseTypeOK ==
  /\ schema \in Absent..Newer
  /\ origin \in {Absent} \cup 1..Newer
  /\ backups \subseteq 1..SchemaVersion
  /\ lock \in Process \cup {NoProcess}
  /\ phase \in [Process -> {"closed", "open", "failed"} \cup Working]

DatabaseInit ==
  /\ schema \in {Absent} \cup 1..Newer
  /\ origin = schema
  /\ backups = {}
  /\ lock = NoProcess
  /\ phase = [p \in Process |-> "closed"]

Release(p) == lock' = IF lock = p THEN NoProcess ELSE lock
To(p, f) == phase' = [phase EXCEPT ![p] = f]

\* The lock is tried once.
Lock(p) ==
  /\ phase[p] = "closed"
  /\ IF lock = NoProcess THEN lock' = p /\ To(p, "inspect")
     ELSE To(p, "failed") /\ UNCHANGED lock
  /\ UNCHANGED <<schema, origin, backups>>

\* A bug: the last version counts as this one.
InspectLast(p) ==
  /\ phase[p] = "inspect"
  /\ IF schema \in {0, Newer} THEN To(p, "failed") /\ Release(p)
     ELSE /\ To(p, IF schema \in 1..SchemaVersion - 2 THEN "backup" ELSE "connect")
          /\ UNCHANGED lock
  /\ UNCHANGED <<schema, origin, backups>>

\* A file without a record is not owned, one of a later version is too new.
Inspect(p) ==
  /\ phase[p] = "inspect"
  /\ IF schema \in {0, Newer} THEN To(p, "failed") /\ Release(p)
     ELSE /\ To(p, IF schema \in 1..SchemaVersion - 1 THEN "backup" ELSE "connect")
          /\ UNCHANGED lock
  /\ UNCHANGED <<schema, origin, backups>>

Backup(p) ==
  /\ phase[p] = "backup"
  /\ backups' = backups \cup {schema}
  /\ To(p, "connect")
  /\ UNCHANGED <<schema, origin, lock>>

\* A file that did not exist is created.
Connect(p) ==
  /\ phase[p] = "connect"
  /\ schema' = IF schema = Absent THEN 0 ELSE schema
  /\ To(p, "migrate")
  /\ UNCHANGED <<origin, backups, lock>>

Migrate(p) ==
  /\ phase[p] = "migrate"
  /\ IF schema < SchemaVersion THEN schema' = schema + 1 /\ UNCHANGED phase
     ELSE To(p, "open") /\ UNCHANGED schema
  /\ UNCHANGED <<origin, backups, lock>>

\* A step fails: the pool is closed and the lock dropped with it.
OpenFails(p) ==
  /\ phase[p] \in Working
  /\ To(p, "failed") /\ Release(p)
  /\ UNCHANGED <<schema, origin, backups>>

\* The store is dropped, or its process ends.
Close(p) ==
  /\ To(p, "closed") /\ Release(p)
  /\ UNCHANGED <<schema, origin, backups>>

Open(p) == Lock(p) \/ Inspect(p) \/ Backup(p) \/ Connect(p) \/ Migrate(p)

\* One process at a time inspects, upgrades and uses the file (database.rs:46).
OneOpener ==
  \A p, q \in Process :
    phase[p] \in Working \cup {"open"} /\ phase[q] \in Working \cup {"open"} => p = q

\* A file that was found and then changed has a backup of what it was; one
\* of a later version is never changed (database.rs:49-75).
UpgradeHasBackup ==
  origin \in 1..Newer /\ schema # origin => origin \in backups
=============================================================================
