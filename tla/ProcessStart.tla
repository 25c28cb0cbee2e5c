----------------------------- MODULE ProcessStart -----------------------------
(***************************************************************************)
(* The start of worker processes on one database: Storage.initialize of    *)
(* xworkbench/storage.py, which creates the schema or migrates an older    *)
(* one behind a backup, and the lock file of JobService (jobs.py).  The    *)
(* lock is taken after the initialization.  executescript of the sqlite3   *)
(* module commits an open transaction before it runs, so that              *)
(* _create_job_indexes ends the transaction of the migration in its middle.*)
(***************************************************************************)
EXTENDS Integers

CONSTANTS
  Process, \* processes that are started
  MaxLife  \* bound of the starts of each

VARIABLES
  db,     \* the committed database, by the form of its schema
  backup, \* the file of the backup, a copy of the database
  lock,   \* the lock file: the process that created it, and whether it holds its pid
  pc,     \* where each process stands
  mine    \* what each process remembers: its life, a copy, a pid that it read, its tries

vars == <<db, backup, lock, pc, mine>>

\* none: no table or file; part: being created; created: of version 4 from the
\* start; old: of an earlier version; torn: the tables of version 4 under the
\* old version number, not yet indexed; migrated: of version 4.
Whole == {"created", "migrated"}

NoPid    == <<0, 0>>
NoLock   == [owner |-> NoPid, written |-> FALSE]

Pid(p)     == <<p, mine[p].life>>
Alive(pid) == \E p \in Process : pid = Pid(p) /\ pc[p] # "off"

Init ==
  /\ db \in {"none", "old"} /\ backup = "none" /\ lock = NoLock
  /\ pc = [p \in Process |-> "off"]
  /\ mine = [p \in Process |-> [life |-> 0, copy |-> "none", read |-> NoPid, tries |-> 0]]

Goes(p, place) == pc' = [pc EXCEPT ![p] = place]

-----------------------------------------------------------------------------
(* Storage.initialize *)

\* Mutant: any schema with the tables of version 4 is taken for compatible.
DestinationOfAny(form) ==
  CASE form = "none" -> "create"
    [] form = "old"  -> "check"
    [] form \in Whole \union {"torn"} -> "lock"
    [] OTHER -> "off"

\* What a start does with the schema that it finds; a partial one is refused.
Destination(form) ==
  CASE form = "none"    -> "create"
    [] form = "old"     -> "check"
    [] form \in Whole   -> "lock"
    [] OTHER            -> "off"

Start(p) ==
  /\ pc[p] = "off" /\ mine[p].life < MaxLife
  /\ mine' = [mine EXCEPT ![p] = [life |-> @.life + 1, copy |-> "none", read |-> NoPid, tries |-> 0]]
  /\ Goes(p, Destination(db))
  /\ UNCHANGED <<db, backup, lock>>

\* _create_schema: each statement commits; the first one fails when another
\* process was faster.
Create(p) ==
  /\ pc[p] = "create"
  /\ IF db = "none"
       THEN db' = "part" /\ Goes(p, "created")
       ELSE UNCHANGED db /\ Goes(p, "off")
  /\ UNCHANGED <<backup, lock, mine>>

Created(p) ==
  /\ pc[p] = "created"
  /\ db' = "created" /\ Goes(p, "lock")
  /\ UNCHANGED <<backup, lock, mine>>

\* A backup that is there stops the migration.
CheckBackup(p) ==
  /\ pc[p] = "check"
  /\ Goes(p, IF backup = "none" THEN "copy" ELSE "off")
  /\ UNCHANGED <<db, backup, lock, mine>>

\* The committed database is copied to a temporary file, and checked ...
Copy(p) ==
  /\ pc[p] = "copy"
  /\ mine' = [mine EXCEPT ![p].copy = db] /\ Goes(p, "replace")
  /\ UNCHANGED <<db, backup, lock>>

\* ... which then takes the name of the backup.
Backup(p) ==
  /\ pc[p] = "replace"
  /\ backup' = mine[p].copy /\ Goes(p, "migrate")
  /\ UNCHANGED <<db, lock, mine>>

\* The transaction rebuilds the tables and copies the rows, up to the commit
\* that executescript makes; on tables that are migrated already it fails and
\* rolls back.
Migrate(p) ==
  /\ pc[p] = "migrate"
  /\ IF db = "old"
       THEN db' = "torn" /\ Goes(p, "index")
       ELSE UNCHANGED db /\ Goes(p, "off")
  /\ UNCHANGED <<backup, lock, mine>>

\* Indexes, full-text table and version number follow.
Migrated(p) ==
  /\ pc[p] = "index"
  /\ db' = "migrated" /\ Goes(p, "lock")
  /\ UNCHANGED <<backup, lock, mine>>

\* A statement or the disk fails: what is not committed is rolled back.
Fails(p) ==
  /\ pc[p] \in {"created", "copy", "replace", "migrate", "index"}
  /\ Goes(p, "off")
  /\ UNCHANGED <<db, backup, lock, mine>>

-----------------------------------------------------------------------------
(* The lock file: created exclusively, written, read and removed, each a     *)
(* step of its own                                                           *)

CreateLock(p) ==
  /\ pc[p] = "lock" /\ mine[p].tries < 2
  /\ IF lock = NoLock
       THEN lock' = [owner |-> Pid(p), written |-> FALSE] /\ Goes(p, "write")
       ELSE UNCHANGED lock /\ Goes(p, "read")
  /\ mine' = [mine EXCEPT ![p].tries = @ + 1]
  /\ UNCHANGED <<db, backup>>

GiveUp(p) ==
  /\ pc[p] = "lock" /\ mine[p].tries = 2
  /\ Goes(p, "off")
  /\ UNCHANGED <<db, backup, lock, mine>>

\* The pid goes to the file that was created, which may be gone by now.
WriteLock(p) ==
  /\ pc[p] = "write"
  /\ lock' = IF lock.owner = Pid(p) THEN [lock EXCEPT !.written = TRUE] ELSE lock
  /\ Goes(p, "serve")
  /\ UNCHANGED <<db, backup, mine>>

\* Mutant: the process in the file is not looked for.
HolderOfNone(pid) == FALSE

\* os.kill(pid, 0) of a process of the same user: the lock file and its directory
\* are readable to their owner only.
Holder(pid) == pid # NoPid /\ Alive(pid)

\* A file without a pid, of a dead process or gone since is stale.
ReadLock(p) ==
  /\ pc[p] = "read"
  /\ LET read == IF lock.written THEN lock.owner ELSE NoPid IN
     /\ mine' = [mine EXCEPT ![p].read = read]
     /\ Goes(p, IF Holder(read) THEN "off" ELSE "unlink")
  /\ UNCHANGED <<db, backup, lock>>

\* Whatever file has the name now is removed.
Unlink(p) ==
  /\ pc[p] = "unlink"
  /\ lock' = NoLock /\ Goes(p, "lock")
  /\ UNCHANGED <<db, backup, mine>>

\* _release_process_lock removes the file if it names this worker.
Release(p) ==
  /\ pc[p] = "serve"
  /\ IF lock.written /\ lock.owner = Pid(p)
       THEN Goes(p, "release") /\ mine' = [mine EXCEPT ![p].read = lock.owner]
       ELSE Goes(p, "off") /\ UNCHANGED mine
  /\ UNCHANGED <<db, backup, lock>>

Released(p) ==
  /\ pc[p] = "release"
  /\ lock' = NoLock /\ Goes(p, "off")
  /\ UNCHANGED <<db, backup, mine>>

Crash(p) ==
  /\ pc[p] # "off" /\ Goes(p, "off")
  /\ UNCHANGED <<db, backup, lock, mine>>

Next ==
  \E p \in Process :
    \/ Start(p) \/ Create(p) \/ Created(p) \/ CheckBackup(p) \/ Copy(p) \/ Backup(p)
    \/ Migrate(p) \/ Migrated(p) \/ Fails(p) \/ CreateLock(p) \/ GiveUp(p) \/ WriteLock(p)
    \/ ReadLock(p) \/ Unlink(p) \/ Release(p) \/ Released(p) \/ Crash(p)

Spec == Init /\ [][Next]_vars

-----------------------------------------------------------------------------
(* Properties *)

\* Whatever failed in earlier starts or fails in another one now, a process
\* goes for the lock on a complete database only, and a database that is being
\* or was migrated has a backup.  Who is about to rebuild the tables of an old
\* database has that database in the backup, and not a later form of it.
WorksOnWholeDatabase ==
  /\ \A p \in Process :
       pc[p] \in {"lock", "write", "read", "unlink", "serve", "release"} => db \in Whole
  /\ db \in {"torn", "migrated"} => backup # "none"
  /\ db = "old" => \A p \in Process : pc[p] = "migrate" => backup = "old"

\* The lock file of a live process that has written its pid is only removed by
\* a process that took the file for another one: the one that was there when it
\* looked.
LiveLockKept ==
  [][lock.written /\ Alive(lock.owner) /\ lock' = NoLock =>
       \E p \in Process : /\ pc[p] \in {"unlink", "release"} /\ pc'[p] # pc[p]
                          /\ lock.owner = Pid(p) \/ mine[p].read # lock.owner]_vars

\* The migration is one transaction: when every process is gone, the old
\* database is either as it was or migrated.
MigratedOrUntouched == (\A p \in Process : pc[p] = "off") => db # "torn"
=============================================================================
