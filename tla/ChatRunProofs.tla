---------------------------- MODULE ChatRunProofs ----------------------------
(***************************************************************************)
(* The session lock of ChatRun and the deletion of sessions, for any       *)
(* number of processes, sessions, messages and interruptions.              *)
(***************************************************************************)
EXTENDS ChatRun, TLAPS

(* The part of the type invariant that the lock depends on. *)
LockTypes ==
    /\ lock \in [Sessions -> Procs \cup {Free, Orphan}]
    /\ pc \in [Runs -> PCs]

LockInv == LockTypes /\ LockOwned

(* The sets of program locations, spelled out for the provers. *)
LEMMA Locations ==
    /\ LockPCs = {"locked", "input", "loop", "ack", "think", "act",
                  "save", "persist", "write", "trim", "release"}
    /\ PCs = LockPCs \cup {"none", "load", "loaded", "ending"}
    /\ BodyPCs \subseteq LockPCs
BY DEF LockPCs, PCs, BodyPCs

(* A run that moves to another location inside the lock, or to another one *)
(* outside it, while no lock changes hands, keeps the invariant.           *)
LEMMA Moves ==
    ASSUME LockInv, NEW r \in Runs, NEW l \in PCs,
           pc[r] \in LockPCs <=> l \in LockPCs,
           pc' = [pc EXCEPT ![r] = l], lock' = lock
    PROVE  LockInv'
BY DEF LockInv, LockTypes, LockOwned

(* A run that leaves the lock, which nobody holds afterwards. *)
LEMMA Leaves ==
    ASSUME LockInv, ChatAssumption, NEW r \in Runs,
           NEW l \in PCs \ LockPCs, NEW k \in {Free, Orphan},
           pc[r] \in LockPCs,
           pc' = [pc EXCEPT ![r] = l],
           lock' = [lock EXCEPT ![Sess(r)] = k]
    PROVE  LockInv'
<1> USE DEF LockInv, LockTypes, LockOwned, Runs, Sess
<1>1. lock[Sess(r)] = r[1] /\ Sess(r) \in Sessions
  OBVIOUS
<1>2. k \notin Procs
  BY DEF ChatAssumption
<1>3. LockTypes'
  OBVIOUS
<1>4. ASSUME NEW q \in Runs
      PROVE  pc'[q] \in LockPCs <=> lock'[Sess(q)] = q[1]
  <2>1. CASE q = r
    BY <1>2, <2>1
  <2>2. CASE q # r /\ Sess(q) = Sess(r)
    <3>1. q[1] # r[1]
      BY <2>2
    <3>2. pc[q] \notin LockPCs
      BY <1>1, <2>2, <3>1
    <3> QED
      BY <1>1, <1>2, <2>2, <3>2
  <2>3. CASE Sess(q) # Sess(r)
    BY <2>3
  <2> QED
    BY <2>1, <2>2, <2>3
<1> QED
  BY <1>3, <1>4

(* A run that takes a free lock. *)
LEMMA Takes ==
    ASSUME LockInv, ChatAssumption, NEW r \in Runs, NEW l \in LockPCs,
           lock[Sess(r)] = Free,
           pc' = [pc EXCEPT ![r] = l],
           lock' = [lock EXCEPT ![Sess(r)] = r[1]]
    PROVE  LockInv'
<1> USE DEF LockInv, LockTypes, LockOwned, Runs, Sess
<1>1. Sess(r) \in Sessions /\ r[1] \in Procs
  OBVIOUS
<1>2. LockTypes'
  BY <1>1, Locations
<1>3. ASSUME NEW q \in Runs
      PROVE  pc'[q] \in LockPCs <=> lock'[Sess(q)] = q[1]
  <2>1. CASE q = r
    BY <1>1, <2>1
  <2>2. CASE q # r /\ Sess(q) = Sess(r)
    <3>1. q[1] # r[1]
      BY <2>2
    <3>2. pc[q] \notin LockPCs
      BY <2>2 DEF ChatAssumption
    <3> QED
      BY <1>1, <2>2, <3>1, <3>2
  <2>3. CASE Sess(q) # Sess(r)
    BY <2>3
  <2> QED
    BY <2>1, <2>2, <2>3
<1> QED
  BY <1>2, <1>3

(* A session without a holder in its lock has no run inside it. *)
LEMMA Vacant ==
    ASSUME LockInv, ChatAssumption, NEW s \in Sessions, NEW k \in {Free, Orphan},
           lock[s] \in {Free, Orphan},
           pc' = pc, lock' = [lock EXCEPT ![s] = k]
    PROVE  LockInv'
<1> USE DEF LockInv, LockTypes, LockOwned, Runs, Sess
<1>1. k \notin Procs /\ lock[s] \notin Procs
  BY DEF ChatAssumption
<1>2. LockTypes'
  OBVIOUS
<1>3. ASSUME NEW q \in Runs
      PROVE  pc'[q] \in LockPCs <=> lock'[Sess(q)] = q[1]
  BY <1>1
<1> QED
  BY <1>2, <1>3

(* A step that touches neither the locations nor the locks. *)
LEMMA Elsewhere ==
    ASSUME LockInv, pc' = pc, lock' = lock
    PROVE  LockInv'
BY DEF LockInv, LockTypes, LockOwned

LEMMA InitLockInv == ASSUME ChatAssumption, Init PROVE LockInv
BY Locations DEF ChatAssumption, Init, LockInv, LockTypes, LockOwned, Runs, Sess

(* The steps of one run. *)
LEMMA RunStepLockInv ==
    ASSUME ChatAssumption, LockInv, NEW r \in Runs, RunStep(r) \/ RunFails(r)
    PROVE  LockInv'
<1> USE DEF At
<1>1. CASE Load(r)
  BY <1>1, Moves, Locations DEF Load, Goto, Finish, redis
<1>2. CASE SkipParked(r)
  BY <1>2, Moves, Locations DEF SkipParked, Goto, Finish, redis
<1>3. CASE AcquireSession(r)
  BY <1>3, Takes, Locations DEF AcquireSession, Goto
<1>4. CASE PrepareInput(r)
  BY <1>4, Moves, Locations DEF PrepareInput, Goto
<1>5. CASE RejectInput(r)
  BY <1>5, Moves, Locations DEF RejectInput, Unwind, Goto, redis
<1>6. CASE StartReply(r)
  BY <1>6, Moves, Locations DEF StartReply, Goto
<1>7. CASE ResumeReply(r)
  BY <1>7, Moves, Locations DEF ResumeReply, Goto
<1>8. CASE LeaveLoop(r)
  BY <1>8, Moves, Locations DEF LeaveLoop, Goto
<1>9. CASE ReadInbox(r)
  BY <1>9, Moves, Locations DEF ReadInbox, Goto, redis
<1>10. CASE AckInbox(r)
  BY <1>10, Moves, Locations DEF AckInbox, Goto
<1>11. CASE Think(r)
  BY <1>11, Moves, Locations DEF Think, Goto
<1>12. CASE Act(r)
  BY <1>12, Moves, Locations DEF Act, Goto
<1>13. CASE SaveReply(r)
  BY <1>13, Moves, Locations DEF SaveReply, Goto
<1>14. CASE GetRecord(r)
  BY <1>14, Moves, Locations DEF GetRecord, Unwind, Goto, redis
<1>15. CASE SetRecord(r)
  BY <1>15, Moves, Locations DEF SetRecord, Unwind, Goto
<1>16. CASE TrimLog(r)
  BY <1>16, Moves, Locations DEF TrimLog, Goto
<1>17. CASE ReleaseSession(r)
  <2>1. lock[Sess(r)] = r[1]
    BY <1>17, Locations DEF ReleaseSession, LockInv, LockOwned
  <2>2. lock' = [lock EXCEPT ![Sess(r)] = Free]
    BY <1>17, <2>1 DEF ReleaseSession
  <2> QED
    BY <1>17, <2>2, Leaves, Locations DEF ReleaseSession, Goto
<1>18. CASE EndRun(r)
  BY <1>18, Moves, Locations DEF EndRun, Goto, Finish, redis
<1>19. CASE Interrupted(r)
  <2> DEFINE To(l) == pc' = [pc EXCEPT ![r] = l]
             Give(k) == lock' = [lock EXCEPT ![Sess(r)] = k]
  <2>1. \/ pc[r] \notin LockPCs /\ To("none") /\ lock' = lock
        \/ pc[r] = "loaded" /\ lock[Sess(r)] = Free /\ To("none") /\ Give(Orphan)
        \/ pc[r] \in LockPCs /\ To("trim") /\ lock' = lock
        \/ pc[r] \in LockPCs /\ To("release") /\ lock' = lock
        \/ pc[r] \in LockPCs /\ To("none") /\ Give(Orphan)
    BY <1>19, Locations DEF Interrupted
  <2>2. CASE pc[r] \notin LockPCs /\ To("none") /\ lock' = lock
    BY <2>2, Moves, Locations
  <2>3. CASE /\ pc[r] = "loaded" /\ lock[Sess(r)] = Free
             /\ To("none") /\ Give(Orphan)
    <3> USE DEF LockInv, LockTypes, LockOwned, Runs, Sess
    <3>1. Orphan \notin Procs /\ lock[Sess(r)] \notin Procs
      BY <2>3 DEF ChatAssumption
    <3>2. pc[r] \notin LockPCs
      BY <2>3, Locations
    <3>3. LockTypes'
      BY <2>3, Locations
    <3>4. ASSUME NEW q \in Runs
          PROVE  pc'[q] \in LockPCs <=> lock'[Sess(q)] = q[1]
      <4>1. CASE q = r
        BY <2>3, <3>1, <4>1, Locations
      <4>2. CASE q # r
        BY <2>3, <3>1, <4>2
      <4> QED
        BY <4>1, <4>2
    <3> QED
      BY <3>3, <3>4
  <2>4. CASE pc[r] \in LockPCs /\ To("trim") /\ lock' = lock
    BY <2>4, Moves, Locations
  <2>5. CASE pc[r] \in LockPCs /\ To("release") /\ lock' = lock
    BY <2>5, Moves, Locations
  <2>6. CASE pc[r] \in LockPCs /\ To("none") /\ Give(Orphan)
    BY <2>6, Leaves, Locations
  <2> QED
    BY <2>1, <2>2, <2>3, <2>4, <2>5, <2>6
<1> QED
  BY <1>1, <1>2, <1>3, <1>4, <1>5, <1>6, <1>7, <1>8, <1>9, <1>10, <1>11,
     <1>12, <1>13, <1>14, <1>15, <1>16, <1>17, <1>18, <1>19
  DEF RunStep, RunFails, Cancelled

(* A process that dies leaves its locks to Orphan and takes its runs along. *)
LEMMA CrashLockInv ==
    ASSUME ChatAssumption, LockInv, NEW p \in Procs, Crash(p)
    PROVE  LockInv'
<1> USE DEF LockInv, LockTypes, LockOwned, Runs, Sess
<1>1. /\ pc' = [q \in Runs |-> IF q[1] = p THEN "none" ELSE pc[q]]
      /\ lock' = [s \in Sessions |-> IF lock[s] = p THEN Orphan ELSE lock[s]]
  BY DEF Crash
<1>2. LockTypes'
  BY <1>1, Locations
<1>3. ASSUME NEW q \in Runs
      PROVE  pc'[q] \in LockPCs <=> lock'[Sess(q)] = q[1]
  <2>1. Orphan # q[1] /\ q[1] \in Procs /\ Sess(q) \in Sessions
    BY DEF ChatAssumption
  <2>2. CASE q[1] = p
    BY <1>1, <2>1, <2>2, Locations
  <2>3. CASE q[1] # p
    BY <1>1, <2>1, <2>3
  <2> QED
    BY <2>2, <2>3
<1> QED
  BY <1>2, <1>3

LEMMA NextLockInv ==
    ASSUME ChatAssumption, LockInv, [Next]_vars
    PROVE  LockInv'
<1>1. ASSUME NEW r \in Runs, RunStep(r) \/ RunFails(r)
      PROVE  LockInv'
  BY <1>1, RunStepLockInv
<1>2. ASSUME NEW h \in Hints, ProducerStep(h) \/ ProducerFails(h)
      PROVE  LockInv'
  BY <1>2, Elsewhere DEF ProducerStep, PushInbox, EnqueueWakeup, SignalWakeup,
     ProducerFails, redis, runs
<1>3. ASSUME NEW p \in Procs, NEW x \in Inputs, PostChat(p, x)
      PROVE  LockInv'
  <2>1. <<p, SessionOf[x]>> \in Runs
    BY DEF ChatAssumption, Runs
  <2> QED
    BY <1>3, <2>1, Moves, Locations DEF PostChat, Spawn, redis
<1>4. ASSUME NEW p \in Procs, DispatchStep(p)
      PROVE  LockInv'
  <2>1. CASE ReadQueue(p)
    BY <2>1, Elsewhere DEF ReadQueue, redis, runs
  <2>2. CASE AckQueue(p)
    BY <2>2, Elsewhere DEF AckQueue, runs
  <2>3. CASE CheckRunning(p)
    BY <2>3, Elsewhere DEF CheckRunning, redis, runs
  <2>4. CASE SpawnWakeup(p)
    <3> DEFINE r == <<p, SessionOf[Entry(p)]>>
    <3>1. lock' = lock
      BY <2>4 DEF SpawnWakeup, redis
    <3>2. CASE pc' = pc
      BY <3>1, <3>2, Elsewhere
    <3>3. CASE pc[r] = "none" /\ pc' = [pc EXCEPT ![r] = "load"]
      <4>1. CASE r \in Runs
        BY <3>1, <3>3, <4>1, Moves, Locations
      <4>2. CASE r \notin Runs
        <5>1. pc' = pc
          BY <3>3, <4>2 DEF LockInv, LockTypes
        <5> QED
          BY <3>1, <5>1, Elsewhere
      <4> QED
        BY <4>1, <4>2
    <3> QED
      BY <2>4, <3>2, <3>3 DEF SpawnWakeup, Spawn
  <2> QED
    BY <1>4, <2>1, <2>2, <2>3, <2>4 DEF DispatchStep
<1>5. ASSUME NEW p \in Procs,
             DispatcherFails(p) \/ Shutdown(p) \/ Stopped(p) \/ Restart(p)
      PROVE  LockInv'
  BY <1>5, Elsewhere DEF DispatcherFails, Shutdown, Stopped, Restart, redis, runs
<1>6. ASSUME NEW p \in Procs, Crash(p)
      PROVE  LockInv'
  BY <1>6, CrashLockInv
<1>7. ASSUME NEW s \in Sessions, ExpireLease(s)
      PROVE  LockInv'
  BY <1>7, Vacant DEF ExpireLease, runs
<1>8. ASSUME NEW r \in Runs, CancelSession(r)
      PROVE  LockInv'
  BY <1>8, Elsewhere DEF CancelSession, redis
<1>9. ASSUME NEW s \in Sessions, DeleteStep(s)
      PROVE  LockInv'
  BY <1>9, Elsewhere DEF DeleteStep, PublishCancel, DeleteRecord, PurgeSession,
     redis, runs
<1>10. CASE UNCHANGED vars
  BY <1>10, Elsewhere DEF vars, redis, runs
<1> QED
  BY <1>1, <1>2, <1>3, <1>4, <1>5, <1>6, <1>7, <1>8, <1>9, <1>10 DEF Next

(* Whatever is crashed, cancelled, failed or shut down: a process owns a   *)
(* session's lock exactly while its run of the session is inside           *)
(* ChatService.run's session_run.                                          *)
THEOREM LockAlwaysOwned == Spec => []LockOwned
<1>1. Init => LockInv
  BY ChatAssumption, InitLockInv
<1>2. LockInv /\ [Next]_vars => LockInv'
  BY ChatAssumption, NextLockInv
<1>3. LockInv => LockOwned
  BY DEF LockInv
<1> QED
  BY <1>1, <1>2, <1>3, PTL DEF Spec

(* The processes whose run of the session is inside session_run. *)
Inside(s) == {p \in Procs : pc[<<p, s>>] \in LockPCs}

SessionLock(s) == INSTANCE Mutex WITH Clients <- Procs, holders <- Inside(s)

(* To its runs the lock of a session is the mutex that LeaseLock shows     *)
(* acquire_lock to be (_base.py:485 "the second only enters after the      *)
(* first releases"): a run enters session_run only when nobody is inside,  *)
(* and leaves it by its end, an exception, a cancellation or a crash.      *)
SessionsAreMutexes ==
    /\ \A s \in Sessions : SessionLock(s)!Init
    /\ [][\A s \in Sessions : [SessionLock(s)!Next]_(Inside(s))]_vars

(* A lock never goes from one process to another: it is free, or orphaned, *)
(* in between.                                                             *)
LEMMA LockPasses ==
    ASSUME ChatAssumption, LockInv, Next, NEW s \in Sessions
    PROVE  lock'[s] = lock[s] \/ lock[s] \notin Procs \/ lock'[s] \notin Procs
<1>1. Free \notin Procs /\ Orphan \notin Procs
  BY DEF ChatAssumption
<1>2. ASSUME NEW r \in Runs, RunStep(r) \/ RunFails(r)
      PROVE  \/ lock' = lock
             \/ lock[Sess(r)] = Free /\ lock' = [lock EXCEPT ![Sess(r)] = r[1]]
             \/ \E k \in {Free, Orphan} : lock' = [lock EXCEPT ![Sess(r)] = k]
  <2>1. CASE AcquireSession(r)
    BY <2>1 DEF AcquireSession
  <2>2. CASE ReleaseSession(r)
    BY <2>2 DEF ReleaseSession, LockInv, LockTypes
  <2>3. CASE Interrupted(r)
    BY <2>3 DEF Interrupted
  <2>4. CASE lock' = lock
    BY <2>4
  <2> QED
    BY <1>2, <2>1, <2>2, <2>3, <2>4
       DEF RunStep, RunFails, Cancelled, Load, SkipParked, PrepareInput,
           RejectInput, StartReply, ResumeReply, LeaveLoop, ReadInbox, AckInbox,
           Think, Act, SaveReply, GetRecord, SetRecord, TrimLog, EndRun, redis
<1>3. ASSUME NEW r \in Runs, RunStep(r) \/ RunFails(r) \/ CancelSession(r)
      PROVE  lock'[s] = lock[s] \/ lock[s] \notin Procs \/ lock'[s] \notin Procs
  <2>1. CASE CancelSession(r)
    BY <2>1 DEF CancelSession, redis
  <2> QED
    BY <1>1, <1>2, <1>3, <2>1 DEF LockInv, LockTypes
<1>4. ASSUME NEW p \in Procs, Crash(p)
      PROVE  lock'[s] = lock[s] \/ lock'[s] \notin Procs
  BY <1>1, <1>4 DEF Crash
<1>5. ASSUME NEW t \in Sessions, ExpireLease(t) \/ DeleteStep(t)
      PROVE  lock'[s] = lock[s] \/ lock'[s] \notin Procs
  BY <1>1, <1>5 DEF ExpireLease, DeleteStep, PublishCancel, DeleteRecord,
     PurgeSession, redis, LockInv, LockTypes
<1>6. ASSUME NEW h \in Hints, ProducerStep(h) \/ ProducerFails(h)
      PROVE  lock' = lock
  BY <1>6 DEF ProducerStep, PushInbox, EnqueueWakeup, SignalWakeup,
     ProducerFails, redis
<1>7. ASSUME NEW p \in Procs, ~Crash(p),
             \/ \E x \in Inputs : PostChat(p, x)
             \/ DispatchStep(p) \/ DispatcherFails(p)
             \/ Shutdown(p) \/ Stopped(p) \/ Crash(p) \/ Restart(p)
      PROVE  lock' = lock
  BY <1>7 DEF PostChat, DispatchStep, ReadQueue, AckQueue, CheckRunning,
     SpawnWakeup, DispatcherFails, Shutdown, Stopped, Restart, redis
<1> QED
  BY <1>3, <1>4, <1>5, <1>6, <1>7 DEF Next

(* Who is inside is who owns the lock. *)
LEMMA InsideOwns ==
    ASSUME LockInv, NEW s \in Sessions
    PROVE  Inside(s) = {p \in Procs : lock[s] = p}
BY DEF Inside, LockInv, LockOwned, Runs, Sess

(* The session lock that acquire_lock provides is a mutex to the runs, for *)
(* any processes and sessions and under every interruption: what LeaseLock *)
(* is proved to implement is what ChatService is proved to use.            *)
THEOREM SessionsExclude == Spec => SessionsAreMutexes
<1>1. Init => \A s \in Sessions : SessionLock(s)!Init
  BY Locations DEF Init, SessionLock!Init, Inside, Runs
<1>2. LockInv /\ LockInv' /\ [Next]_vars =>
        [\A s \in Sessions : [SessionLock(s)!Next]_(Inside(s))]_vars
  <2>1. SUFFICES ASSUME LockInv, LockInv', Next, NEW s \in Sessions
                 PROVE  [SessionLock(s)!Next]_(Inside(s))
    OBVIOUS
  <2>2. Inside(s) = {p \in Procs : lock[s] = p}
    BY <2>1, InsideOwns
  <2>3. Inside(s)' = {p \in Procs : lock'[s] = p}
    BY <2>1 DEF Inside, LockInv, LockOwned, Runs, Sess
  <2>4. CASE lock'[s] = lock[s]
    BY <2>2, <2>3, <2>4
  <2>5. CASE lock[s] \notin Procs /\ lock'[s] \in Procs
    <3>1. SessionLock(s)!Enter(lock'[s])
      BY <2>2, <2>3, <2>5 DEF SessionLock!Enter
    <3> QED
      BY <2>5, <3>1 DEF SessionLock!Next
  <2>6. CASE lock[s] \in Procs /\ lock'[s] \notin Procs
    <3>1. SessionLock(s)!Leave(lock[s])
      BY <2>2, <2>3, <2>6 DEF SessionLock!Leave
    <3> QED
      BY <2>6, <3>1 DEF SessionLock!Next
  <2>7. CASE lock[s] \notin Procs /\ lock'[s] \notin Procs
    BY <2>2, <2>3, <2>7
  <2> QED
    BY <2>1, <2>4, <2>5, <2>6, <2>7, LockPasses, ChatAssumption
<1>3. Init => LockInv
  BY ChatAssumption, InitLockInv
<1>4. LockInv /\ [Next]_vars => LockInv'
  BY ChatAssumption, NextLockInv
<1> QED
  BY <1>1, <1>2, <1>3, <1>4, PTL DEF Spec, SessionsAreMutexes

------------------------------------------------------------------------------
(* Deletion *)

Gone(s) == deletion[s] \notin {"none", "cancelling"}

DeletionTypes ==
    /\ pc \in [Runs -> PCs]
    /\ exists \in [Sessions -> BOOLEAN]
    /\ deletion \in [Sessions -> {"none", "cancelling", "purging", "deleted"}]
    /\ overtaken \subseteq Sessions

(* A run about to write the record of a deleted session, or the record     *)
(* itself, is there only if the deletion overtook a write.                 *)
GhostsOvertaken ==
    \A s \in Sessions :
        Gone(s) /\ (exists[s] \/ \E p \in Procs : pc[<<p, s>>] = "write")
            => s \in overtaken

DeletionInv == DeletionTypes /\ GhostsOvertaken

LEMMA InitDeletionInv == ASSUME Init PROVE DeletionInv
BY Locations DEF Init, DeletionInv, DeletionTypes, GhostsOvertaken, Gone

(* Nothing but the deletion deletes, and a run is about to write only if   *)
(* it was before or has just found the record.                             *)
LEMMA QuietDeletion ==
    ASSUME DeletionInv, deletion' = deletion, overtaken' = overtaken,
           pc' \in [Runs -> PCs], exists' = exists,
           \A r \in Runs : pc'[r] = "write" =>
               pc[r] = "write" \/ exists[Sess(r)]
    PROVE  DeletionInv'
<1> USE DEF DeletionInv, DeletionTypes, GhostsOvertaken, Gone
<1>1. DeletionTypes'
  OBVIOUS
<1>2. ASSUME NEW s \in Sessions, Gone(s)', exists'[s] \/ \E p \in Procs : pc'[<<p, s>>] = "write"
      PROVE  s \in overtaken'
  <2>1. CASE exists'[s]
    BY <1>2, <2>1
  <2>2. ASSUME NEW p \in Procs, pc'[<<p, s>>] = "write"
        PROVE  s \in overtaken'
    <3>1. <<p, s>> \in Runs /\ Sess(<<p, s>>) = s
      BY DEF Runs, Sess
    <3> QED
      BY <1>2, <2>2, <3>1
  <2> QED
    BY <1>2, <2>1, <2>2
<1> QED
  BY <1>1, <1>2

LEMMA MovesDeletion ==
    ASSUME DeletionInv, NEW r \in Runs, NEW l \in PCs,
           l = "write" => exists[Sess(r)],
           pc' = [pc EXCEPT ![r] = l], exists' = exists,
           deletion' = deletion, overtaken' = overtaken
    PROVE  DeletionInv'
<1>1. pc' \in [Runs -> PCs]
  BY DEF DeletionInv, DeletionTypes
<1>2. \A q \in Runs : pc'[q] = "write" => pc[q] = "write" \/ exists[Sess(q)]
  BY DEF DeletionInv, DeletionTypes
<1> QED
  BY <1>1, <1>2, QuietDeletion

LEMMA RunStepDeletion ==
    ASSUME DeletionInv, NEW r \in Runs, RunStep(r) \/ RunFails(r)
    PROVE  DeletionInv'
<1> DEFINE Still == deletion' = deletion /\ overtaken' = overtaken
           Move == \E l \in PCs : /\ pc' = [pc EXCEPT ![r] = l]
                                  /\ l = "write" => exists[Sess(r)]
                                  /\ exists' = exists
<1> USE DEF clients, deleting
<1>1. CASE Load(r) \/ SkipParked(r) \/ AcquireSession(r)
  <2>1. Still /\ Move
    BY <1>1, Locations DEF Load, SkipParked, AcquireSession, Finish, Goto, redis
  <2> QED
    BY <2>1, MovesDeletion
<1>2. CASE PrepareInput(r) \/ RejectInput(r) \/ StartReply(r) \/ ResumeReply(r)
  <2>1. Still /\ Move
    BY <1>2, Locations DEF PrepareInput, RejectInput, StartReply, ResumeReply,
       Unwind, Goto, redis
  <2> QED
    BY <2>1, MovesDeletion
<1>3. CASE LeaveLoop(r) \/ ReadInbox(r) \/ AckInbox(r) \/ Think(r) \/ Act(r)
  <2>1. Still /\ Move
    <3>1. CASE LeaveLoop(r) \/ AckInbox(r)
      BY <3>1, Locations DEF LeaveLoop, AckInbox, Goto
    <3>2. CASE ReadInbox(r)
      BY <3>2, Locations DEF ReadInbox, Goto, redis
    <3>3. CASE Think(r) \/ Act(r)
      BY <3>3, Locations DEF Think, Act, Goto
    <3> QED
      BY <1>3, <3>1, <3>2, <3>3
  <2> QED
    BY <2>1, MovesDeletion
<1>4. CASE SaveReply(r) \/ GetRecord(r) \/ TrimLog(r) \/ ReleaseSession(r) \/ EndRun(r)
  <2>1. Still /\ Move
    <3>1. CASE SaveReply(r) \/ TrimLog(r) \/ ReleaseSession(r)
      BY <3>1, Locations DEF SaveReply, TrimLog, ReleaseSession, Goto
    <3>2. CASE GetRecord(r) \/ EndRun(r)
      BY <3>2, Locations DEF GetRecord, EndRun, Unwind, Finish, Goto, redis
    <3> QED
      BY <1>4, <3>1, <3>2
  <2> QED
    BY <2>1, MovesDeletion
<1>5. CASE SetRecord(r)
  <2> USE DEF DeletionInv, DeletionTypes, GhostsOvertaken, Gone
  <2>1. /\ Still /\ pc[r] = "write"
        /\ pc' = [pc EXCEPT ![r] = "trim"]
        /\ exists' = [exists EXCEPT ![Sess(r)] = TRUE]
    BY <1>5 DEF SetRecord, At, Unwind, Goto
  <2>2. Sess(r) \in Sessions /\ r[1] \in Procs /\ r = <<r[1], Sess(r)>>
    BY DEF Runs, Sess
  <2>3. Gone(Sess(r)) => Sess(r) \in overtaken
    BY <2>1, <2>2
  <2>4. DeletionTypes'
    BY <2>1, Locations
  <2>5. GhostsOvertaken'
    BY <2>1, <2>2, <2>3
  <2> QED
    BY <2>4, <2>5
<1>6. CASE Interrupted(r)
  <2>1. Still /\ Move
    BY <1>6, Locations DEF Interrupted
  <2> QED
    BY <2>1, MovesDeletion
<1> QED
  BY <1>1, <1>2, <1>3, <1>4, <1>5, <1>6 DEF RunStep, RunFails, Cancelled

LEMMA DeleteStepDeletion ==
    ASSUME DeletionInv, NEW s \in Sessions, DeleteStep(s)
    PROVE  DeletionInv'
<1> USE DEF DeletionInv, DeletionTypes, GhostsOvertaken, Gone
<1>1. CASE PublishCancel(s)
  BY <1>1 DEF PublishCancel, redis, runs
<1>2. CASE DeleteRecord(s)
  BY <1>2 DEF DeleteRecord, runs
<1>3. CASE PurgeSession(s)
  BY <1>3 DEF PurgeSession, runs
<1> QED
  BY <1>1, <1>2, <1>3 DEF DeleteStep

LEMMA NextDeletionInv ==
    ASSUME ChatAssumption, DeletionInv, [Next]_vars
    PROVE  DeletionInv'
<1> DEFINE Still == deletion' = deletion /\ overtaken' = overtaken /\ exists' = exists
<1> USE DEF clients, deleting
<1>1. ASSUME NEW r \in Runs, RunStep(r) \/ RunFails(r)
      PROVE  DeletionInv'
  BY <1>1, RunStepDeletion
<1>2. ASSUME NEW s \in Sessions, DeleteStep(s)
      PROVE  DeletionInv'
  BY <1>2, DeleteStepDeletion
<1>3. ASSUME Still, pc' = pc
      PROVE  DeletionInv'
  BY <1>3, QuietDeletion DEF DeletionInv, DeletionTypes
<1>4. ASSUME NEW h \in Hints, ProducerStep(h) \/ ProducerFails(h)
      PROVE  DeletionInv'
  BY <1>3, <1>4 DEF ProducerStep, PushInbox, EnqueueWakeup, SignalWakeup,
     ProducerFails, redis, runs
<1>5. ASSUME NEW p \in Procs, NEW x \in Inputs, PostChat(p, x)
      PROVE  DeletionInv'
  <2>1. <<p, SessionOf[x]>> \in Runs
    BY DEF ChatAssumption, Runs
  <2> QED
    BY <1>5, <2>1, MovesDeletion, Locations DEF PostChat, Spawn, redis
<1>6. ASSUME NEW p \in Procs,
             ReadQueue(p) \/ AckQueue(p) \/ CheckRunning(p) \/ DispatcherFails(p)
      PROVE  DeletionInv'
  BY <1>3, <1>6 DEF ReadQueue, AckQueue, CheckRunning, DispatcherFails, redis, runs
<1>7. ASSUME NEW p \in Procs, SpawnWakeup(p)
      PROVE  DeletionInv'
  <2> DEFINE r == <<p, SessionOf[Entry(p)]>>
  <2>1. Still
    BY <1>7 DEF SpawnWakeup, redis
  <2>2. CASE r \in Runs /\ pc' = [pc EXCEPT ![r] = "load"]
    BY <2>1, <2>2, MovesDeletion, Locations
  <2>3. CASE pc' = pc
    BY <1>3, <2>1, <2>3
  <2>4. CASE r \notin Runs
    BY <1>3, <1>7, <2>1, <2>4 DEF SpawnWakeup, Spawn, DeletionInv, DeletionTypes
  <2> QED
    BY <1>7, <2>2, <2>3, <2>4 DEF SpawnWakeup, Spawn
<1>8. ASSUME NEW p \in Procs, Shutdown(p) \/ Stopped(p) \/ Restart(p)
      PROVE  DeletionInv'
  BY <1>3, <1>8 DEF Shutdown, Stopped, Restart, redis, runs
<1>9. ASSUME NEW p \in Procs, Crash(p)
      PROVE  DeletionInv'
  <2>1. /\ Still
        /\ pc' = [q \in Runs |-> IF q[1] = p THEN "none" ELSE pc[q]]
    BY <1>9 DEF Crash
  <2>2. /\ pc' \in [Runs -> PCs]
        /\ \A q \in Runs : pc'[q] = "write" => pc[q] = "write"
    BY <2>1, Locations DEF DeletionInv, DeletionTypes
  <2> QED
    BY <2>1, <2>2, QuietDeletion
<1>10. ASSUME NEW s \in Sessions, ExpireLease(s)
       PROVE  DeletionInv'
  BY <1>3, <1>10 DEF ExpireLease, runs
<1>11. ASSUME NEW r \in Runs, CancelSession(r)
       PROVE  DeletionInv'
  BY <1>3, <1>11 DEF CancelSession, redis
<1>12. CASE UNCHANGED vars
  BY <1>3, <1>12 DEF vars, redis, runs
<1> QED
  BY <1>1, <1>2, <1>4, <1>5, <1>6, <1>7, <1>8, <1>9, <1>10, <1>11, <1>12
  DEF Next, DispatchStep

(* Whatever runs, wake-ups and dispatchers are under way when a session is *)
(* deleted, and whatever fails meanwhile: its record comes back only if    *)
(* the deletion overtook a run between the read and the write of           *)
(* update_session_state.                                                   *)
THEOREM DeletionKept == Spec => []DeletedForGood
<1>1. Init => DeletionInv
  BY InitDeletionInv
<1>2. DeletionInv /\ [Next]_vars => DeletionInv'
  BY ChatAssumption, NextDeletionInv
<1>3. DeletionInv => DeletedForGood
  BY DEF DeletionInv, GhostsOvertaken, Gone, DeletedForGood
<1> QED
  BY <1>1, <1>2, <1>3, PTL DEF Spec
==============================================================================
