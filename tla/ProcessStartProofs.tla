------------------------- MODULE ProcessStartProofs --------------------------
(***************************************************************************)
(* Proofs about ProcessStart, for any number of processes and starts: who  *)
(* goes for the lock has a complete database, and the lock file of a live  *)
(* process is only removed by one that read something else in it.          *)
(***************************************************************************)
EXTENDS ProcessStart, TLAPS

Form  == {"none", "part", "created", "old", "torn", "migrated"}
Place == {"off", "create", "created", "check", "copy", "replace", "migrate", "index", "lock",
          "write", "read", "unlink", "serve", "release"}

\* The places behind the initialization.
Behind == {"lock", "write", "read", "unlink", "serve", "release"}

KnownPid == (Process \X Nat) \union {NoPid}

Types ==
  /\ db \in Form /\ backup \in Form
  /\ pc \in [Process -> Place]
  /\ mine \in [Process -> [life : Nat, copy : Form, read : KnownPid, tries : Int]]
  /\ lock \in [owner : KnownPid, written : BOOLEAN]

\* A process copies a database that is there, so that a migration has a backup;
\* whatever was copied of an old database is one.
DatabaseInv ==
  /\ \A p \in Process :
       /\ pc[p] \in Behind => db \in Whole
       /\ pc[p] \in {"check", "copy"} => db # "none"
       /\ pc[p] = "replace" => mine[p].copy # "none"
       /\ pc[p] \in {"migrate", "index"} => backup # "none"
  /\ db \in {"torn", "migrated"} => backup # "none"
  /\ db = "old" => /\ backup \in {"none", "old"}
                   /\ \A p \in Process : mine[p].copy \in {"none", "old"}

\* A pid that is known belongs to a start that was made, so that a dead one
\* never lives again; a lock was taken, and a pid read, by somebody else.
PidBegun(pid) == \A q \in Process : pid[1] = q => pid[2] <= mine[q].life

LockInv ==
  /\ PidBegun(lock.owner)
  /\ \A p \in Process :
       /\ PidBegun(mine[p].read)
       /\ pc[p] = "unlink" => ~Holder(mine[p].read)
       /\ pc[p] = "release" => mine[p].read = Pid(p)
       /\ pc[p] # "off" => mine[p].life > 0

IInv == Types /\ DatabaseInv /\ LockInv

LEMMA InitInv == Init => IInv
<1> SUFFICES ASSUME Init PROVE IInv
  OBVIOUS
<1>1. Types
  BY DEF Init, Types, Form, Place, KnownPid, NoLock
<1>2. DatabaseInv
  BY DEF Init, DatabaseInv, Behind
<1>3. LockInv
  BY SMT DEF Init, LockInv, PidBegun, NoLock, NoPid
<1> QED
  BY <1>1, <1>2, <1>3 DEF IInv

\* A step within a life: whoever moves was alive, and known pids stay known.
Lives(p) ==
  /\ pc[p] # "off" /\ pc' \in [Process -> Place]
  /\ \A q \in Process : q # p => pc'[q] = pc[q] /\ mine'[q] = mine[q]
  /\ mine'[p].life = mine[p].life

LEMMA LivesKeeps ==
  ASSUME IInv, NEW p \in Process, Lives(p), NEW pid \in KnownPid
  PROVE  /\ PidBegun(pid) => PidBegun(pid)'
         /\ Alive(pid)' => Alive(pid)
         /\ Holder(pid)' => Holder(pid)
<1>1. \A q \in Process : mine'[q].life = mine[q].life
  BY DEF Lives
<1>2. PidBegun(pid) => PidBegun(pid)'
  BY <1>1 DEF PidBegun
<1>3. Alive(pid)' => Alive(pid)
  BY <1>1 DEF Alive, Pid, Lives
<1> QED
  BY <1>2, <1>3 DEF Holder

\* What a step within a life has to show for the lock.
LEMMA LivesLock ==
  ASSUME IInv, Types', NEW p \in Process, Lives(p),
         PidBegun(lock'.owner), PidBegun(mine'[p].read),
         pc'[p] = "unlink" => ~Holder(mine'[p].read),
         pc'[p] = "release" => mine'[p].read = Pid(p)
  PROVE  LockInv'
<1>1. lock'.owner \in KnownPid /\ \A q \in Process : mine'[q].read \in KnownPid
  BY DEF Types
<1>2. PidBegun(lock.owner)'
  BY <1>1, LivesKeeps DEF PidBegun
<1>3. ASSUME NEW q \in Process
      PROVE  /\ PidBegun(mine[q].read)'
             /\ pc'[q] = "unlink" => ~Holder(mine[q].read)'
             /\ pc'[q] = "release" => mine'[q].read = Pid(q)'
             /\ pc'[q] # "off" => mine'[q].life > 0
  <2>1. PidBegun(mine'[q].read) /\ (pc'[q] = "unlink" => ~Holder(mine'[q].read))
    BY DEF IInv, LockInv, Lives
  <2>2. PidBegun(mine[q].read)' /\ (pc'[q] = "unlink" => ~Holder(mine[q].read)')
    <3>1. PidBegun(mine[q].read)'
      BY <1>1, <2>1, LivesKeeps DEF PidBegun
    <3>2. ASSUME NEW pid \in KnownPid, pid = mine'[q].read PROVE Holder(pid)' => Holder(pid)
      BY LivesKeeps
    <3>3. Holder(mine[q].read)' => Holder(mine'[q].read)
      BY <1>1, <3>2
    <3> QED
      BY <2>1, <3>1, <3>3
  <2>3. pc'[q] = "release" => mine'[q].read = Pid(q)'
    BY DEF IInv, LockInv, Lives, Pid
  <2>4. pc'[q] # "off" => mine'[q].life > 0
    BY DEF IInv, LockInv, Lives
  <2> QED
    BY <2>2, <2>3, <2>4
<1> QED
  BY <1>2, <1>3 DEF LockInv

\* The first step of a life.
LEMMA StartStep == ASSUME IInv, NEW p \in Process, Start(p) PROVE IInv'
<1> USE DEF Start, Goes
<1>1. Types'
  BY DEF IInv, Types, Form, Place, KnownPid, Destination, Whole
<1>2. DatabaseInv'
  BY DEF IInv, Types, DatabaseInv, Behind, Destination, Whole
<1>3. LockInv'
  <2>1. \A q \in Process : mine'[q].life >= mine[q].life
    BY DEF IInv, Types
  <2>2. ASSUME NEW pid \in KnownPid, PidBegun(pid) PROVE PidBegun(pid)' /\ (Alive(pid)' => Alive(pid))
    <3>1. PidBegun(pid)'
      BY <2>1, <2>2 DEF PidBegun, IInv, Types, KnownPid, NoPid
    <3>2. Alive(pid)' => Alive(pid)
      BY <2>2 DEF PidBegun, IInv, Types, KnownPid, NoPid, Alive, Pid
    <3> QED
      BY <3>1, <3>2
  <2>3. PidBegun(lock.owner)'
    BY <2>2 DEF IInv, Types, LockInv, PidBegun
  <2>4. \A q \in Process : PidBegun(NoPid)'
    BY DEF IInv, Types, NoPid, PidBegun
  <2>5. ASSUME NEW q \in Process
        PROVE  /\ PidBegun(mine[q].read)'
               /\ pc'[q] = "unlink" => ~Holder(mine[q].read)'
               /\ pc'[q] = "release" => mine'[q].read = Pid(q)'
               /\ pc'[q] # "off" => mine'[q].life > 0
    <3>1. CASE q = p
      BY <3>1, <2>4 DEF IInv, Types, Destination, PidBegun
    <3>2. CASE q # p
      <4>1. mine'[q] = mine[q] /\ pc'[q] = pc[q] /\ mine[q].read \in KnownPid
        BY <3>2 DEF IInv, Types
      <4>2. ASSUME NEW pid \in KnownPid, pid = mine[q].read
            PROVE  PidBegun(pid)' /\ (pc[q] = "unlink" => ~Holder(pid)')
        BY <4>2, <2>2 DEF IInv, LockInv, Holder
      <4> QED
        BY <4>1, <4>2 DEF IInv, LockInv, Holder, Pid, PidBegun, Alive
    <3> QED
      BY <3>1, <3>2
  <2> QED
    BY <2>3, <2>5 DEF LockInv
<1> QED
  BY <1>1, <1>2, <1>3 DEF IInv

\* The initialization leaves the lock alone.
LEMMA InitializeStep ==
  ASSUME IInv, NEW p \in Process,
         Create(p) \/ Created(p) \/ CheckBackup(p) \/ Copy(p) \/ Backup(p) \/ Migrate(p) \/ Migrated(p) \/ Fails(p)
  PROVE  IInv'
<1>1. CASE Create(p)
  <2> USE <1>1 DEF Create, Goes
  <2>1. Types'
    BY DEF IInv, Types, Form, Place, KnownPid, NoLock, Pid
  <2>2. DatabaseInv'
    BY DEF IInv, Types, DatabaseInv, Behind, Whole
  <2>3. LockInv'
    <3>1. Lives(p)
      BY <2>1 DEF IInv, Types, Lives, Place
    <3> QED
      BY <2>1, <3>1, LivesLock DEF IInv, Types, LockInv, PidBegun, NoLock, NoPid, Pid, Holder
  <2> QED
    BY <2>1, <2>2, <2>3 DEF IInv
<1>2. CASE Created(p)
  <2> USE <1>2 DEF Created, Goes
  <2>1. Types'
    BY DEF IInv, Types, Form, Place, KnownPid, NoLock, Pid
  <2>2. DatabaseInv'
    BY DEF IInv, Types, DatabaseInv, Behind, Whole
  <2>3. LockInv'
    <3>1. Lives(p)
      BY <2>1 DEF IInv, Types, Lives, Place
    <3> QED
      BY <2>1, <3>1, LivesLock DEF IInv, Types, LockInv, PidBegun, NoLock, NoPid, Pid, Holder
  <2> QED
    BY <2>1, <2>2, <2>3 DEF IInv
<1>3. CASE CheckBackup(p)
  <2> USE <1>3 DEF CheckBackup, Goes
  <2>1. Types'
    BY DEF IInv, Types, Form, Place, KnownPid, NoLock, Pid
  <2>2. DatabaseInv'
    BY DEF IInv, Types, DatabaseInv, Behind, Whole
  <2>3. LockInv'
    <3>1. Lives(p)
      BY <2>1 DEF IInv, Types, Lives, Place
    <3> QED
      BY <2>1, <3>1, LivesLock DEF IInv, Types, LockInv, PidBegun, NoLock, NoPid, Pid, Holder
  <2> QED
    BY <2>1, <2>2, <2>3 DEF IInv
<1>4. CASE Copy(p)
  <2> USE <1>4 DEF Copy, Goes
  <2>1. Types'
    BY DEF IInv, Types, Form, Place, KnownPid, NoLock, Pid
  <2>2. DatabaseInv'
    BY DEF IInv, Types, DatabaseInv, Behind, Whole
  <2>3. LockInv'
    <3>1. Lives(p)
      BY <2>1 DEF IInv, Types, Lives, Place
    <3> QED
      BY <2>1, <3>1, LivesLock DEF IInv, Types, LockInv, PidBegun, NoLock, NoPid, Pid, Holder
  <2> QED
    BY <2>1, <2>2, <2>3 DEF IInv
<1>5. CASE Backup(p)
  <2> USE <1>5 DEF Backup, Goes
  <2>1. Types'
    BY DEF IInv, Types, Form, Place, KnownPid, NoLock, Pid
  <2>2. DatabaseInv'
    BY DEF IInv, Types, DatabaseInv, Behind, Whole
  <2>3. LockInv'
    <3>1. Lives(p)
      BY <2>1 DEF IInv, Types, Lives, Place
    <3> QED
      BY <2>1, <3>1, LivesLock DEF IInv, Types, LockInv, PidBegun, NoLock, NoPid, Pid, Holder
  <2> QED
    BY <2>1, <2>2, <2>3 DEF IInv
<1>6. CASE Migrate(p)
  <2> USE <1>6 DEF Migrate, Goes
  <2>1. Types'
    BY DEF IInv, Types, Form, Place, KnownPid, NoLock, Pid
  <2>2. DatabaseInv'
    BY DEF IInv, Types, DatabaseInv, Behind, Whole
  <2>3. LockInv'
    <3>1. Lives(p)
      BY <2>1 DEF IInv, Types, Lives, Place
    <3> QED
      BY <2>1, <3>1, LivesLock DEF IInv, Types, LockInv, PidBegun, NoLock, NoPid, Pid, Holder
  <2> QED
    BY <2>1, <2>2, <2>3 DEF IInv
<1>7. CASE Migrated(p)
  <2> USE <1>7 DEF Migrated, Goes
  <2>1. Types'
    BY DEF IInv, Types, Form, Place, KnownPid, NoLock, Pid
  <2>2. DatabaseInv'
    BY DEF IInv, Types, DatabaseInv, Behind, Whole
  <2>3. LockInv'
    <3>1. Lives(p)
      BY <2>1 DEF IInv, Types, Lives, Place
    <3> QED
      BY <2>1, <3>1, LivesLock DEF IInv, Types, LockInv, PidBegun, NoLock, NoPid, Pid, Holder
  <2> QED
    BY <2>1, <2>2, <2>3 DEF IInv
<1>8. CASE Fails(p)
  <2> USE <1>8 DEF Fails, Goes
  <2>1. Types'
    BY DEF IInv, Types, Form, Place, KnownPid, NoLock, Pid
  <2>2. DatabaseInv'
    BY DEF IInv, Types, DatabaseInv, Behind, Whole
  <2>3. LockInv'
    <3>1. Lives(p)
      BY <2>1 DEF IInv, Types, Lives, Place
    <3> QED
      BY <2>1, <3>1, LivesLock DEF IInv, Types, LockInv, PidBegun, NoLock, NoPid, Pid, Holder
  <2> QED
    BY <2>1, <2>2, <2>3 DEF IInv
<1> QED
  BY <1>1, <1>2, <1>3, <1>4, <1>5, <1>6, <1>7, <1>8

\* The steps that take, write, read and remove the lock.
LEMMA LockStep ==
  ASSUME IInv, NEW p \in Process,
         CreateLock(p) \/ GiveUp(p) \/ WriteLock(p) \/ ReadLock(p) \/ Unlink(p) \/ Release(p) \/ Released(p) \/ Crash(p)
  PROVE  IInv'
<1>1. CASE CreateLock(p)
  <2> USE <1>1 DEF CreateLock, Goes
  <2>1. Types'
    <3>1. Pid(p) \in KnownPid
      BY DEF IInv, Types, KnownPid, Pid
    <3>2. lock' = lock \/ lock' = [owner |-> Pid(p), written |-> FALSE]
      BY Zenon
    <3>3. lock' \in [owner : KnownPid, written : BOOLEAN]
      <4>1. lock \in [owner : KnownPid, written : BOOLEAN]
        BY DEF IInv, Types
      <4>2. [owner |-> Pid(p), written |-> FALSE] \in [owner : KnownPid, written : BOOLEAN]
        BY <3>1
      <4> QED
        BY <3>2, <4>1, <4>2, Zenon
    <3>4. pc' \in [Process -> Place]
      BY DEF IInv, Types, Place
    <3>5. mine' \in [Process -> [life : Nat, copy : Form, read : KnownPid, tries : Int]]
      BY DEF IInv, Types
    <3> QED
      BY <3>3, <3>4, <3>5 DEF IInv, Types
  <2>2. DatabaseInv'
    BY DEF IInv, Types, DatabaseInv, Behind, Whole
  <2>3. LockInv'
    <3>1. Lives(p)
      BY <2>1 DEF IInv, Types, Lives, Place
    <3> QED
      BY <2>1, <3>1, LivesLock DEF IInv, Types, LockInv, PidBegun, NoLock, NoPid, Pid, Holder
  <2> QED
    BY <2>1, <2>2, <2>3 DEF IInv
<1>2. CASE GiveUp(p)
  <2> USE <1>2 DEF GiveUp, Goes
  <2>1. Types'
    BY DEF IInv, Types, Form, Place, KnownPid, NoLock, Pid
  <2>2. DatabaseInv'
    BY DEF IInv, Types, DatabaseInv, Behind, Whole
  <2>3. LockInv'
    <3>1. Lives(p)
      BY <2>1 DEF IInv, Types, Lives, Place
    <3> QED
      BY <2>1, <3>1, LivesLock DEF IInv, Types, LockInv, PidBegun, NoLock, NoPid, Pid, Holder
  <2> QED
    BY <2>1, <2>2, <2>3 DEF IInv
<1>3. CASE WriteLock(p)
  <2> USE <1>3 DEF WriteLock, Goes
  <2>1. Types'
    BY DEF IInv, Types, Form, Place, KnownPid, NoLock, Pid
  <2>2. DatabaseInv'
    BY DEF IInv, Types, DatabaseInv, Behind, Whole
  <2>3. LockInv'
    <3>1. Lives(p)
      BY <2>1 DEF IInv, Types, Lives, Place
    <3> QED
      BY <2>1, <3>1, LivesLock DEF IInv, Types, LockInv, PidBegun, NoLock, NoPid, Pid, Holder
  <2> QED
    BY <2>1, <2>2, <2>3 DEF IInv
<1>4. CASE ReadLock(p)
  <2> USE <1>4 DEF ReadLock, Goes
  <2>1. Types'
    BY DEF IInv, Types, Form, Place, KnownPid, NoLock, Pid
  <2>2. DatabaseInv'
    BY DEF IInv, Types, DatabaseInv, Behind, Whole
  <2>3. LockInv'
    <3>1. Lives(p)
      BY <2>1 DEF IInv, Types, Lives, Place
    <3> QED
      BY <2>1, <3>1, LivesLock DEF IInv, Types, LockInv, PidBegun, NoLock, NoPid, Pid, Holder
  <2> QED
    BY <2>1, <2>2, <2>3 DEF IInv
<1>5. CASE Unlink(p)
  <2> USE <1>5 DEF Unlink, Goes
  <2>1. Types'
    BY DEF IInv, Types, Form, Place, KnownPid, NoLock, Pid
  <2>2. DatabaseInv'
    BY DEF IInv, Types, DatabaseInv, Behind, Whole
  <2>3. LockInv'
    <3>1. Lives(p)
      BY <2>1 DEF IInv, Types, Lives, Place
    <3> QED
      BY <2>1, <3>1, LivesLock DEF IInv, Types, LockInv, PidBegun, NoLock, NoPid, Pid, Holder
  <2> QED
    BY <2>1, <2>2, <2>3 DEF IInv
<1>6. CASE Release(p)
  <2> USE <1>6 DEF Release, Goes
  <2>1. Types'
    BY DEF IInv, Types, Form, Place, KnownPid, NoLock, Pid
  <2>2. DatabaseInv'
    BY DEF IInv, Types, DatabaseInv, Behind, Whole
  <2>3. LockInv'
    <3>1. Lives(p)
      BY <2>1 DEF IInv, Types, Lives, Place
    <3> QED
      BY <2>1, <3>1, LivesLock DEF IInv, Types, LockInv, PidBegun, NoLock, NoPid, Pid, Holder
  <2> QED
    BY <2>1, <2>2, <2>3 DEF IInv
<1>7. CASE Released(p)
  <2> USE <1>7 DEF Released, Goes
  <2>1. Types'
    BY DEF IInv, Types, Form, Place, KnownPid, NoLock, Pid
  <2>2. DatabaseInv'
    BY DEF IInv, Types, DatabaseInv, Behind, Whole
  <2>3. LockInv'
    <3>1. Lives(p)
      BY <2>1 DEF IInv, Types, Lives, Place
    <3> QED
      BY <2>1, <3>1, LivesLock DEF IInv, Types, LockInv, PidBegun, NoLock, NoPid, Pid, Holder
  <2> QED
    BY <2>1, <2>2, <2>3 DEF IInv
<1>8. CASE Crash(p)
  <2> USE <1>8 DEF Crash, Goes
  <2>1. Types'
    BY DEF IInv, Types, Form, Place, KnownPid, NoLock, Pid
  <2>2. DatabaseInv'
    BY DEF IInv, Types, DatabaseInv, Behind, Whole
  <2>3. LockInv'
    <3>1. Lives(p)
      BY <2>1 DEF IInv, Types, Lives, Place
    <3> QED
      BY <2>1, <3>1, LivesLock DEF IInv, Types, LockInv, PidBegun, NoLock, NoPid, Pid, Holder
  <2> QED
    BY <2>1, <2>2, <2>3 DEF IInv
<1> QED
  BY <1>1, <1>2, <1>3, <1>4, <1>5, <1>6, <1>7, <1>8

LEMMA NextInv == IInv /\ [Next]_vars => IInv'
<1>1. CASE UNCHANGED vars
  BY <1>1 DEF vars, IInv, Types, DatabaseInv, LockInv, PidBegun, Holder, Alive, Pid
<1> QED
  BY <1>1, StartStep, InitializeStep, LockStep DEF Next

\* The inductive invariant holds in every reachable state.
THEOREM StartInvariant == Spec => []IInv
BY InitInv, NextInv, PTL DEF Spec

\* Who goes for the lock has a complete database, and a database that is being
\* or was migrated has its backup, for any number of processes and failed starts.
THEOREM DatabaseWhole == Spec => []WorksOnWholeDatabase
<1>1. IInv => WorksOnWholeDatabase
  BY DEF IInv, DatabaseInv, WorksOnWholeDatabase, Behind
<1> QED
  BY <1>1, StartInvariant, PTL

\* The lock file of a live process is only removed by a process that had read
\* something else in it: only Unlink and Released remove a file that is written.
THEOREM LockStays == Spec => LiveLockKept
<1> DEFINE Gone == lock.written /\ Alive(lock.owner) /\ lock' = NoLock
           Mistaken(p) == /\ pc[p] \in {"unlink", "release"} /\ pc'[p] # pc[p]
                          /\ lock.owner = Pid(p) \/ mine[p].read # lock.owner
<1>1. IInv /\ [Next]_vars => [Gone => \E p \in Process : Mistaken(p)]_vars
  <2> SUFFICES ASSUME IInv, Next, Gone PROVE \E p \in Process : Mistaken(p)
    OBVIOUS
  <2>1. PICK p \in Process :
          \/ Start(p) \/ Create(p) \/ Created(p) \/ CheckBackup(p) \/ Copy(p) \/ Backup(p)
          \/ Migrate(p) \/ Migrated(p) \/ Fails(p) \/ CreateLock(p) \/ GiveUp(p) \/ WriteLock(p)
          \/ ReadLock(p) \/ Unlink(p) \/ Release(p) \/ Released(p) \/ Crash(p)
    BY DEF Next
  <2>2. lock # NoLock /\ NoLock.written = FALSE
    BY DEF NoLock
  <2>3. lock.owner # NoPid
    BY DEF IInv, Types, LockInv, Alive, Pid, NoPid
  <2>4. CASE Unlink(p)
    BY <2>3, <2>4 DEF Unlink, Goes, IInv, Types, LockInv, Holder
  <2>5. CASE Released(p)
    BY <2>5 DEF Released, Goes, IInv, Types, LockInv
  <2>6. CASE WriteLock(p)
    BY <2>2, <2>6 DEF WriteLock, IInv, Types
  <2>7. CASE CreateLock(p)
    BY <2>2, <2>7 DEF CreateLock
  <2> QED
    BY <2>1, <2>2, <2>4, <2>5, <2>6, <2>7
       DEF Start, Create, Created, CheckBackup, Copy, Backup, Migrate, Migrated, Fails, GiveUp,
           ReadLock, Release, Crash
<1> QED
  BY <1>1, StartInvariant, PTL DEF Spec, LiveLockKept
=============================================================================
