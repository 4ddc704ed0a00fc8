------------------------ MODULE WindowsDaemon_proofs ------------------------
(***************************************************************************)
(* Proofs about the daemon on Windows and its jobs, for any number of jobs,*)
(* threads and failing calls: live jobs keep their handles, pausing and    *)
(* resuming reaches every thread that no call missed, and an exit without  *)
(* a question loses nothing.                                               *)
(*                                                                         *)
(* The daemon calls the operations of jobs one at a time, so that what a   *)
(* job keeps is shown of JobNext first, in layers: types, handles and      *)
(* records, threads, suspend counts.  Then comes what CheckQueue knows.    *)
(***************************************************************************)
EXTENDS WindowsDaemon, TLAPS

-----------------------------------------------------------------------------
(* The invariant.                                                          *)

Own(j) == mJobHandle[j] # NULL /\ object[mJobHandle[j]] = j

(* The records of a job: its handles are stored when it is started.  Until *)
(* it is mistaken for another one, a live job has both, unless Windows     *)
(* gave it no job object; and one that was paused while it ran, and still  *)
(* has its job object, shows as paused.                                    *)
Live(j) ==
  \/ mStatus[j] = "RUNNING"
  \/ mStatus[j] = "PAUSED" /\ mPausedStatus[j] = "RUNNING"

Record(j) ==
  /\ mStatus[j] = "PENDING" \/ mPausedStatus[j] = "PENDING"
     => mJobHandle[j] = NULL /\ ~mProcessHandle[j]
  /\ mPausedStatus[j] = "PENDING" => mStatus[j] = "PAUSED"
  /\ mStatus[j] = "PAUSED" => mPausedStatus[j] # "NONE"
  /\ mStatus[j] \in {"RUNNING", "PENDING"} => mPausedStatus[j] = "NONE"
  /\ j \notin mixed =>
       /\ Live(j) => mProcessHandle[j] /\ (mJobHandle[j] = NULL \/ Own(j))
       /\ mPausedStatus[j] = "RUNNING" /\ Own(j) => mStatus[j] = "PAUSED"

(* The operation that walks the threads, and the job it is for: if the     *)
(* handle names another job, both are known to be mistaken for each other. *)
Operation ==
  /\ op # "none" => on \in queue /\ HasObject(on) /\ Mixing(on) \subseteq mixed
  /\ op = "Pause" => mStatus[on] = "RUNNING"
  /\ op = "Resume" => mPausedStatus[on] = "RUNNING"

(* Threads have existed only of jobs that were started.                    *)
ThreadsOf(j) ==
  /\ \A t \in Thread : t > born[j] => t \notin alive[j] /\ suspended[j][t] = 0
  /\ mStatus[j] = "PENDING" \/ mPausedStatus[j] = "PENDING" => born[j] = 0

Threads == \A j \in Jobs : ThreadsOf(j)

(* The threads of a job no operation has missed a thread of, and that was  *)
(* not mistaken for another one, are suspended as the status says, but for *)
(* those a walk has come to; such a job has threads only as long as it is  *)
(* live and in the queue.                                                  *)
Clean(j) == j \notin missed /\ j \notin mixed

Walked(j, t) == op # "none" /\ on = j /\ <<j, t>> \notin todo

SuspensionOf(j) ==
  \A t \in alive[j] :
    /\ suspended[j][t] =
         IF op = "Pause" /\ Walked(j, t) THEN 1
         ELSE IF op = "Resume" /\ Walked(j, t) THEN 0
         ELSE IF mStatus[j] = "PAUSED" THEN 1 ELSE 0
    /\ op \in {"Cancel", "Clear"} => ~Walked(j, t)
    /\ j \in queue /\ Live(j) /\ mJobHandle[j] # NULL

(* A walk is over threads there were of the job the handle names, and only *)
(* that of Cancel can be cut short without a thread having been missed.    *)
Snapshot ==
  /\ op # "none" => \A x \in todo : x[1] = Named(on) /\ x[2] <= born[x[1]]
  /\ op \notin {"none", "Cancel"} /\ ~ok => on \in missed

Suspensions ==
  /\ Snapshot /\ outside \subseteq missed
  /\ \A j \in Jobs : Clean(j) => SuspensionOf(j)

(* What CheckQueue has found so far, and what mRunningJobs says.           *)
Checked ==
  /\ checking => \A j \in queue \ unvisited :
       mStatus[j] # "RUNNING" /\ (mStatus[j] = "PAUSED" => retVal)
  /\ checking => op = "none" /\ batch = {}
  /\ ~mRunningJobs => \A j \in queue \ mixed : ~Live(j)

Records == \A j \in Jobs : Record(j)
HandlesInv == Records /\ Operation

-----------------------------------------------------------------------------
(* What happens to jobs, whoever does it.                                  *)

JobStep(j) ==
  \/ Add(j) \/ Start(j) \/ StartFails(j) \/ Refresh(j)
  \/ Command(j) \/ Spawn(j) \/ EndThread(j)
JobNext == Walk \/ \E j \in Jobs : JobStep(j)

(* The daemon does nothing to a job but these steps.                       *)
LEMMA DaemonDoesJobNext == TypeOK /\ [DaemonNext]_daemonVars => [JobNext]_vars
<1> SUFFICES ASSUME TypeOK, [DaemonNext]_daemonVars
             PROVE  [JobNext]_vars
  OBVIOUS
<1>1. ASSUME NEW j, Idle(j) PROVE j \in Jobs
  BY <1>1 DEF Idle, TypeOK
<1>2. CASE RefreshNext
  BY <1>1, <1>2 DEF RefreshNext, Refresh, JobNext, JobStep
<1>3. CASE StartNext
  BY <1>1, <1>3 DEF StartNext, Start, StartFails, JobNext, JobStep
<1>4. CASE OnExec
  BY <1>4 DEF OnExec, JobNext, JobStep
<1>5. CASE NextOfBatch
  BY <1>1, <1>5 DEF NextOfBatch, PauseRunning, ResumePending, ResumeRunning,
                    JobNext, JobStep, Command
<1>6. CASE Works
  BY <1>6 DEF Works, JobNext, JobStep
<1>7. CASE Walk
  BY <1>7 DEF JobNext
<1>8. CASE OnTimer \/ NothingToStart \/ PauseAll \/ ResumeAll \/ OnExitEvent \/ Answer
  BY <1>8 DEF OnTimer, NothingToStart, PauseAll, ResumeAll, OnExitEvent, Answer
<1>9. CASE UNCHANGED daemonVars
  BY <1>9 DEF daemonVars
<1> QED
  BY <1>2, <1>3, <1>4, <1>5, <1>6, <1>7, <1>8, <1>9 DEF DaemonNext, CheckQueue

(* Every step keeps the types.                                            *)
LEMMA TypeStep ==
  ASSUME TypeOK, HandlesInv, [JobNext]_vars
  PROVE  TypeOK'
<1> USE JobsAssumption, ThreadsAssumption
    DEF TypeOK, Statuses, Ops, Closed, Nobody, NULL, Thread, jobVars, processes,
        threads, history, iteration
<1>on. op # "none" => on \in Jobs
  BY DEF HandlesInv, Operation
<1>obj. ASSUME NEW j \in Jobs, HasObject(j)
        PROVE  Named(j) \in Jobs /\ Mixing(j) \subseteq Jobs
  BY <1>obj DEF HasObject, Named, Mixing, Handle
<1>mix. ASSUME NEW j \in Jobs PROVE Mixing(j) \subseteq Jobs
  BY <1>obj DEF Mixing, HasObject
<1>new. ASSUME NEW j \in Jobs, NewObject(j) \/ NoObject
        PROVE  /\ mJobHandle' \in [Jobs -> Handle \cup {NULL}]
               /\ object' \in [Handle -> Jobs \cup {Closed}]
  <2>1. /\ mJobHandle \in [Jobs -> Handle \cup {NULL}]
        /\ object \in [Handle -> Jobs \cup {Closed}]
    OBVIOUS
  <2>2. CASE NoObject
    BY <2>1, <2>2 DEF NoObject
  <2>3. CASE NewObject(j)
    <3>0. ({j} \cup {mJobHandle[k] : k \in Jobs}) \ {NULL} \subseteq Handle
      <4>1. j \in Handle /\ \A k \in Jobs : mJobHandle[k] \in Handle \cup {NULL}
        BY <2>1 DEF Handle
      <4> QED
        BY ONLY <4>1
    <3>1. PICK h \in Handle : /\ mJobHandle' = [mJobHandle EXCEPT ![j] = h]
                              /\ object' = [object EXCEPT ![h] = j]
      BY ONLY <2>3, <3>0 DEF NewObject
    <3> QED
      BY ONLY <2>1, <3>1, j \in Jobs
  <2> QED
    BY <1>new, <2>2, <2>3
<1>close. ASSUME NEW h PROVE Close(object, h) \in [Handle -> Jobs \cup {Closed}]
  BY DEF Close
<1>begin. ASSUME NEW o \in Ops, NEW j \in Jobs, Begin(o, j) PROVE TypeOK'
  BY <1>begin, <1>obj DEF Begin
<1>set. ASSUME NEW k \in Jobs, NEW t \in Thread, NEW n \in 0 .. MaxSuspend,
               suspended' = [suspended EXCEPT ![k][t] = n]
        PROVE  suspended' \in [Jobs -> [Thread -> 0 .. MaxSuspend]]
  <2>1. suspended \in [Jobs -> [Thread -> 0 .. MaxSuspend]]
    OBVIOUS
  <2> HIDE DEF TypeOK, Thread
  <2> QED
    BY ONLY <1>set, <2>1
<1>end. ASSUME NEW k \in Jobs, NEW t \in Thread, NEW c \in {"zero", "nonzero"},
               EndOf(k, t, c)
        PROVE  /\ alive' \in [Jobs -> SUBSET Thread]
               /\ suspended' \in [Jobs -> [Thread -> 0 .. MaxSuspend]]
               /\ exitCode' \in [Jobs -> {"active", "zero", "nonzero"}]
               /\ UNCHANGED <<born, children>>
  <2>1. alive \in [Jobs -> SUBSET Thread] /\ alive' = [alive EXCEPT ![k] = @ \ {t}]
    BY <1>end DEF EndOf
  <2>2. alive' \in [Jobs -> SUBSET Thread]
    BY ONLY <2>1, <1>end
  <2>3. /\ exitCode \in [Jobs -> {"active", "zero", "nonzero"}]
        /\ exitCode' = exitCode \/ exitCode' = [exitCode EXCEPT ![k] = c]
    BY <1>end DEF EndOf
  <2>4. exitCode' \in [Jobs -> {"active", "zero", "nonzero"}]
    BY ONLY <2>3, <1>end
  <2>5. 0 \in 0 .. MaxSuspend /\ suspended' = [suspended EXCEPT ![k][t] = 0]
    BY <1>end DEF EndOf
  <2> QED
    BY <1>end, <1>set, <2>2, <2>4, <2>5 DEF EndOf
<1>1. CASE Visit
  <2> PICK x \in todo : Visit!2!(x)
    BY <1>1 DEF Visit
  <2>1. PICK k \in Jobs, t \in Thread : k = x[1] /\ t = x[2]
    OBVIOUS
  <2>2. missed' \subseteq Jobs /\ todo' \subseteq Jobs \X Thread
    BY <1>on, <1>1 DEF Visit
  <2>3. CASE UNCHANGED threads
    BY <1>1, <2>2, <2>3 DEF Visit, threads
  <2>4. CASE Apply(k, t)
    <3> DEFINE s == suspended[k][t]
    <3>1. s \in 0 .. MaxSuspend
      <4>1. suspended \in [Jobs -> [Thread -> 0 .. MaxSuspend]]
        OBVIOUS
      <4> HIDE DEF TypeOK, Thread
      <4> QED
        BY ONLY <4>1, <2>1
    <3>2. \/ s < MaxSuspend /\ SetCount(k, t, s + 1)
          \/ SetCount(k, t, IF s = 0 THEN 0 ELSE s - 1)
          \/ EndOf(k, t, "zero")
      BY <2>4 DEF Apply
    <3> HIDE DEF s
    <3>3. /\ s < MaxSuspend => s + 1 \in 0 .. MaxSuspend
          /\ (IF s = 0 THEN 0 ELSE s - 1) \in 0 .. MaxSuspend
      BY ONLY <3>1, ThreadsAssumption DEF ThreadsAssumption
    <3>4. ASSUME NEW n \in 0 .. MaxSuspend, SetCount(k, t, n) PROVE TypeOK'
      <4>1. suspended' \in [Jobs -> [Thread -> 0 .. MaxSuspend]]
        BY <3>4, <1>set DEF SetCount
      <4> QED
        BY <1>1, <2>2, <3>4, <4>1 DEF Visit, SetCount
    <3>5. ASSUME EndOf(k, t, "zero") PROVE TypeOK'
      BY <1>1, <1>end, <2>2, <3>5 DEF Visit
    <3> QED
      BY <3>2, <3>3, <3>4, <3>5
  <2> QED
    BY <2>1, <2>3, <2>4
<1>cut. CASE CutShort
  BY <1>on, <1>cut DEF CutShort
<1>2. CASE EndPause
  <2>1. mStatus' \in [Jobs -> Statuses]
    BY <1>2, <1>on DEF EndPause
  <2>2. mPausedStatus' \in [Jobs -> {"NONE", "PENDING", "RUNNING"}]
    BY <1>2, <1>on DEF EndPause, HandlesInv, Operation
  <2> QED
    BY <1>2, <2>1, <2>2 DEF EndPause, EndIteration
<1>3. CASE EndResume
  <2>1. mStatus' \in [Jobs -> Statuses]
    <3>1. mPausedStatus[on] \in Statuses
      BY <1>3, <1>on DEF EndResume, HandlesInv, Operation, Done
    <3> QED
      BY <1>3, <1>on, <3>1 DEF EndResume, Done
  <2>2. mPausedStatus' \in [Jobs -> {"NONE", "PENDING", "RUNNING"}]
    BY <1>3, <1>on DEF EndResume
  <2> QED
    BY <1>3, <2>1, <2>2 DEF EndResume, EndIteration
<1>4. CASE EndCancel
  <2>1. mStatus' \in [Jobs -> Statuses]
    BY <1>4, <1>on DEF EndCancel
  <2>2. mProcessHandle' \in [Jobs -> BOOLEAN]
    BY <1>4, <1>on DEF EndCancel
  <2>3. object' \in [Handle -> Jobs \cup {Closed}]
    BY <1>4, <1>close DEF EndCancel
  <2> QED
    BY <1>4, <2>1, <2>2, <2>3 DEF EndCancel, EndIteration
<1>freed. ASSUME NEW j \in Jobs, Freed(j)
          PROVE  /\ queue' \subseteq Jobs
                 /\ mStatus' \in [Jobs -> Statuses]
                 /\ mPausedStatus' \in [Jobs -> {"NONE", "PENDING", "RUNNING"}]
                 /\ mJobHandle' \in [Jobs -> Handle \cup {NULL}]
                 /\ mProcessHandle' \in [Jobs -> BOOLEAN]
  BY <1>freed DEF Freed
<1>clear. CASE EndClear
  <2>1. object' \in [Handle -> Jobs \cup {Closed}]
    BY <1>clear, <1>close DEF EndClear
  <2> QED
    BY <1>clear, <1>on, <1>freed, <2>1 DEF EndClear, EndIteration
<1>5. ASSUME NEW j \in Jobs, Add(j) PROVE TypeOK'
  BY <1>5 DEF Add
<1>6. ASSUME NEW j \in Jobs, Start(j) PROVE TypeOK'
  <2>1. NewObject(j) \/ NoObject
    BY <1>6 DEF Start
  <2>2. outside' \subseteq Jobs /\ missed' \subseteq Jobs
    BY <1>6 DEF Start
  <2>3. alive' \in [Jobs -> SUBSET Thread]
    BY <1>6 DEF Start
  <2>4. born' \in [Jobs -> 0 .. MaxThreads]
    BY <1>6 DEF Start
  <2>5. mStatus' \in [Jobs -> Statuses] /\ mProcessHandle' \in [Jobs -> BOOLEAN]
    BY <1>6 DEF Start
  <2> QED
    BY <1>6, <1>new, <2>1, <2>2, <2>3, <2>4, <2>5 DEF Start
<1>7. ASSUME NEW j \in Jobs, StartFails(j) PROVE TypeOK'
  <2>1. mStatus' \in [Jobs -> Statuses]
    BY <1>7 DEF StartFails
  <2> QED
    BY <1>7, <1>new, <2>1 DEF StartFails
<1>8. ASSUME NEW j \in Jobs, Refresh(j) PROVE TypeOK'
  BY <1>8, <1>close, <1>mix DEF Refresh
<1>9. ASSUME NEW j \in Jobs, PausePending(j) PROVE TypeOK'
  BY <1>9 DEF PausePending
<1>10. ASSUME NEW j \in Jobs, ResumePending(j) PROVE TypeOK'
  BY <1>10 DEF ResumePending
<1>11. ASSUME NEW j \in Jobs, ClearNothing(j) PROVE TypeOK'
  BY <1>11, <1>freed DEF ClearNothing
<1>12. ASSUME NEW j \in Jobs,
              PauseRunning(j) \/ ResumeRunning(j) \/ Cancel(j) \/ Clear(j)
       PROVE  TypeOK'
  BY <1>12, <1>begin DEF PauseRunning, ResumeRunning, Cancel, Clear
<1>13. ASSUME NEW j \in Jobs, Spawn(j) PROVE TypeOK'
  <2>1. /\ born \in [Jobs -> 0 .. MaxThreads] /\ born[j] < MaxThreads
        /\ alive \in [Jobs -> SUBSET Thread] /\ MaxThreads \in Nat
        /\ born' = [born EXCEPT ![j] = @ + 1]
        /\ alive' = [alive EXCEPT ![j] = @ \cup {born[j] + 1}]
    BY <1>13 DEF Spawn
  <2>2. born[j] \in 0 .. MaxThreads
    BY ONLY <2>1, j \in Jobs
  <2>3. born[j] + 1 \in 1 .. MaxThreads
    BY ONLY <2>1, <2>2
  <2>4. born' \in [Jobs -> 0 .. MaxThreads]
    BY ONLY <2>1, <2>2, j \in Jobs
  <2>5. alive' \in [Jobs -> SUBSET Thread]
    BY ONLY <2>1, <2>3, j \in Jobs DEF Thread
  <2>6. children' \in [Jobs -> SUBSET Thread]
    <3>1. /\ children \in [Jobs -> SUBSET Thread]
          /\ \E s \in SUBSET {born[j] + 1} :
               children' = [children EXCEPT ![j] = @ \cup s]
      BY <1>13 DEF Spawn
    <3> QED
      BY ONLY <2>3, <3>1, j \in Jobs DEF Thread
  <2>7. missed' \subseteq Jobs
    BY <1>13 DEF Spawn
  <2> QED
    BY <1>13, <2>4, <2>5, <2>6, <2>7 DEF Spawn
<1>14. ASSUME NEW j \in Jobs, EndThread(j) PROVE TypeOK'
  <2>1. PICK t \in Thread, c \in {"zero", "nonzero"} : EndOf(j, t, c)
    BY <1>14 DEF EndThread
  <2>2. /\ alive' \in [Jobs -> SUBSET Thread]
        /\ suspended' \in [Jobs -> [Thread -> 0 .. MaxSuspend]]
        /\ exitCode' \in [Jobs -> {"active", "zero", "nonzero"}]
        /\ UNCHANGED <<born, children>>
    <3> HIDE DEF TypeOK, Thread
    <3> QED
      BY ONLY <1>end, <2>1, j \in Jobs
  <2> QED
    BY <1>14, <2>2 DEF EndThread
<1>15. CASE UNCHANGED vars
  BY <1>15 DEF vars
<1> QED
  BY <1>1, <1>2, <1>3, <1>4, <1>5, <1>6, <1>7, <1>8, <1>9, <1>10, <1>11, <1>12,
     <1>13, <1>14, <1>15, <1>cut, <1>clear
     DEF JobNext, JobStep, Walk, Command

-----------------------------------------------------------------------------
(* Handles and records.                                                    *)

(* Unless it is about to be known as mistaken for another one, a job whose *)
(* handle names a job object has its own.                                  *)
LEMMA ObjectIsOwn ==
  ASSUME TypeOK, NEW j \in Jobs, HasObject(j), j \notin Mixing(j)
  PROVE  Own(j) /\ Named(j) = j
BY DEF HasObject, Mixing, Named, Own, Closed

(* A job the walk is for and that was not mistaken for another one.        *)
LEMMA WalkIsOwn ==
  ASSUME TypeOK, HandlesInv, op # "none", on \notin mixed
  PROVE  on \in Jobs /\ Own(on) /\ Named(on) = on
<1>1. on \in Jobs /\ HasObject(on) /\ on \notin Mixing(on)
  BY DEF TypeOK, HandlesInv, Operation
<1> QED
  BY <1>1, ObjectIsOwn

(* A step that changes nothing about a job keeps its record.               *)
LEMMA RecordOfOther ==
  ASSUME NEW k, Record(k), k \in mixed => k \in mixed',
         k \notin mixed' => Own(k)' = Own(k),
         mStatus'[k] = mStatus[k], mPausedStatus'[k] = mPausedStatus[k],
         mJobHandle'[k] = mJobHandle[k], mProcessHandle'[k] = mProcessHandle[k]
  PROVE  Record(k)'
BY DEF Record, Live

(* Closing the handle of a job takes the job object from no other job,     *)
(* unless the two are known to be mistaken for each other.                 *)
LEMMA CloseKeepsOwn ==
  ASSUME TypeOK, NEW j \in Jobs, NEW k \in Jobs, k # j, k \notin Mixing(j),
         object' = Close(object, mJobHandle[j]), mJobHandle'[k] = mJobHandle[k]
  PROVE  Own(k)' = Own(k)
<1> USE JobsAssumption DEF JobsAssumption, TypeOK, Handle, NULL, Closed
<1>1. CASE mJobHandle[k] = NULL
  BY <1>1 DEF Own
<1>2. CASE mJobHandle[k] # NULL /\ mJobHandle[k] # mJobHandle[j]
  BY <1>2 DEF Own, Close
<1>3. CASE mJobHandle[k] # NULL /\ mJobHandle[k] = mJobHandle[j]
  <2>1. object[mJobHandle[k]] # k
    BY <1>3 DEF Mixing, Named
  <2>2. object'[mJobHandle'[k]] = Closed
    BY <1>3 DEF Close
  <2> QED
    BY <2>1, <2>2 DEF Own
<1> QED
  BY <1>1, <1>2, <1>3

(* A job that has closed its handle has no job object.                     *)
LEMMA ClosedIsNotOwn ==
  ASSUME TypeOK, NEW j \in Jobs,
         object' = Close(object, mJobHandle[j]), mJobHandle' = mJobHandle
  PROVE  ~Own(j)'
BY JobsAssumption DEF JobsAssumption, TypeOK, Handle, NULL, Closed, Own, Close

(* A new job object is given a handle that names no other one.             *)
LEMMA NewObjectIsOwn ==
  ASSUME TypeOK, NEW j \in Jobs, NewObject(j)
  PROVE  Own(j)' /\ \A k \in Jobs : k # j => Own(k)' = Own(k)
<1> USE JobsAssumption DEF JobsAssumption, TypeOK, Handle, NULL, Closed
<1>1. PICK h \in Jobs : /\ object[h] = Closed
                        /\ mJobHandle' = [mJobHandle EXCEPT ![j] = h]
                        /\ object' = [object EXCEPT ![h] = j]
  <2>1. \A k \in Jobs : mJobHandle[k] \in Jobs \cup {NULL}
    OBVIOUS
  <2>2. ({j} \cup {mJobHandle[k] : k \in Jobs}) \ {NULL} \subseteq Jobs
    BY ONLY <2>1, j \in Jobs
  <2> QED
    BY ONLY <2>2, NewObject(j) DEF NewObject
<1>2. Own(j)'
  BY <1>1 DEF Own
<1>3. ASSUME NEW k \in Jobs, k # j PROVE Own(k)' = Own(k)
  BY <1>1, <1>3 DEF Own
<1> QED
  BY <1>2, <1>3

(* Every step keeps what the records of jobs promise.                      *)
LEMMA RecordsStep ==
  ASSUME TypeOK, HandlesInv, [JobNext]_vars
  PROVE  Records'
<1> USE DEF NULL
<1> /\ mStatus \in [Jobs -> Statuses]
    /\ mPausedStatus \in [Jobs -> {"NONE", "PENDING", "RUNNING"}]
    /\ mJobHandle \in [Jobs -> Handle \cup {NULL}]
    /\ mProcessHandle \in [Jobs -> BOOLEAN]
    /\ on \in Jobs \cup {Nobody} /\ queue \subseteq Jobs
  BY DEF TypeOK
<1>r. \A k \in Jobs : Record(k)
  BY DEF HandlesInv, Records
<1>1. CASE UNCHANGED <<jobVars, object>> /\ mixed \subseteq mixed'
  BY <1>1, <1>r DEF Records, Record, Own, Live, jobVars
<1>3. ASSUME NEW j \in Jobs, Start(j) \/ StartFails(j) PROVE Records'
  <2>1. \A k \in Jobs : k # j => Own(k)' = Own(k)
    BY <1>3, NewObjectIsOwn DEF Start, StartFails, NoObject, Own
  <2>2. /\ mStatus[j] = "PENDING" /\ mPausedStatus[j] = "NONE"
        /\ mixed' = mixed /\ mPausedStatus' = mPausedStatus
    BY <1>3, <1>r DEF Start, StartFails, Record, history
  <2>3. Record(j)'
    <3>1. CASE StartFails(j)
      BY <1>r, <2>2, <3>1 DEF StartFails, Record, Live
    <3>2. CASE Start(j)
      <4>1. mJobHandle[j] = NULL
        BY <1>r, <2>2 DEF Record
      <4>2. mJobHandle'[j] = NULL \/ Own(j)'
        BY <3>2, <4>1, NewObjectIsOwn DEF Start, NoObject
      <4> QED
        BY <2>2, <3>2, <4>2 DEF Start, Record, Live
    <3> QED
      BY <1>3, <3>1, <3>2
  <2>4. ASSUME NEW k \in Jobs, k # j PROVE Record(k)'
    BY <1>3, <1>r, <2>1, <2>2, <2>4, RecordOfOther
       DEF Start, StartFails, NewObject, NoObject
  <2> QED
    BY <2>3, <2>4 DEF Records
<1>4. ASSUME NEW j \in Jobs, Refresh(j) PROVE Records'
  <2>1. mStatus[j] # "PENDING" /\ mPausedStatus[j] # "PENDING"
    BY <1>4, <1>r DEF Refresh, HasEnded, Record
  <2>2. Record(j)'
    BY <1>4, <1>r, <2>1, ClosedIsNotOwn DEF Refresh, Record, Live
  <2>3. ASSUME NEW k \in Jobs, k # j PROVE Record(k)'
    BY <1>4, <1>r, <2>3, CloseKeepsOwn, RecordOfOther DEF Refresh
  <2> QED
    BY <2>2, <2>3 DEF Records
<1>on. ASSUME op # "none"
       PROVE  /\ on \in Jobs /\ Mixing(on) \subseteq mixed /\ mJobHandle[on] # NULL
              /\ mStatus[on] # "PENDING" /\ mPausedStatus[on] # "PENDING"
  BY <1>on, <1>r DEF HandlesInv, Operation, HasObject, Named, Record
<1>5. CASE EndCancel /\ ok
  <2>o. PICK j \in Jobs : /\ j = on /\ Mixing(j) \subseteq mixed
                         /\ mStatus[j] # "PENDING" /\ mPausedStatus[j] # "PENDING"
    BY <1>5, <1>on DEF EndCancel, Done
  <2>e. /\ object' = Close(object, mJobHandle[j])
        /\ mProcessHandle' = [mProcessHandle EXCEPT ![j] = FALSE]
        /\ mStatus' = [mStatus EXCEPT ![j] = "CANCELED"]
        /\ UNCHANGED <<mPausedStatus, mJobHandle, mixed>>
    BY <1>5, <2>o DEF EndCancel, history
  <2>1. Record(j)'
    BY <1>r, <2>o, <2>e, ClosedIsNotOwn DEF Record, Live
  <2>2. ASSUME NEW k \in Jobs, k # j PROVE Record(k)'
    BY <1>r, <2>o, <2>e, <2>2, CloseKeepsOwn, RecordOfOther
  <2> QED
    BY <2>1, <2>2 DEF Records
<1>free. ASSUME NEW j \in Jobs, Freed(j), mixed' = mixed,
                \A k \in Jobs : k # j /\ k \notin mixed => Own(k)' = Own(k)
         PROVE  Records'
  <2>1. Record(j)'
    BY <1>free DEF Freed, Record, Live, Own
  <2>2. ASSUME NEW k \in Jobs, k # j PROVE Record(k)'
    BY <1>free, <1>r, <2>2, RecordOfOther DEF Freed
  <2> QED
    BY <2>1, <2>2 DEF Records
<1>clear. CASE EndClear
  <2>o. PICK j \in Jobs : j = on /\ Mixing(j) \subseteq mixed
    BY <1>clear, <1>on DEF EndClear, Done
  <2>1. ASSUME NEW k \in Jobs, k # j, k \notin mixed PROVE Own(k)' = Own(k)
    <3>1. mJobHandle'[k] = mJobHandle[k]
      BY <1>clear, <2>o, <2>1 DEF EndClear, Freed
    <3>2. object' = Close(object, mJobHandle[j]) \/ object' = object
      BY <1>clear, <2>o DEF EndClear
    <3> QED
      BY <2>o, <2>1, <3>1, <3>2, CloseKeepsOwn DEF Own
  <2> QED
    BY <1>clear, <2>o, <1>free, <2>1 DEF EndClear, history
<1>6. ASSUME NEW j \in Jobs, PausePending(j) \/ ResumePending(j) PROVE Records'
  <2>1. Record(j)'
    BY <1>6, <1>r DEF PausePending, ResumePending, Record, Live, Own, history
  <2>2. ASSUME NEW k \in Jobs, k # j PROVE Record(k)'
    BY <1>6, <1>r, <2>2, RecordOfOther DEF PausePending, ResumePending, Own, history
  <2> QED
    BY <2>1, <2>2 DEF Records
<1>nothing. ASSUME NEW j \in Jobs, ClearNothing(j) PROVE Records'
  BY <1>nothing, <1>free DEF ClearNothing, Freed, Own
<1>7. CASE (EndPause \/ EndResume) /\ ok
  <2>1. PICK j \in Jobs : j = on
    BY <1>7, <1>on DEF EndPause, EndResume
  <2>2. Record(j) /\ Own(j)' = Own(j) /\ mixed' = mixed
    BY <1>7, <1>r DEF EndPause, EndResume, Own, history
  <2>3. ASSUME EndPause PROVE Record(j)'
    <3>1. mStatus[j] = "RUNNING"
      BY <2>1, <2>3 DEF EndPause, Done, HandlesInv, Operation
    <3>2. /\ mStatus'[j] = "PAUSED" /\ mPausedStatus'[j] = "RUNNING"
          /\ UNCHANGED <<mJobHandle, mProcessHandle>>
      BY <1>7, <2>1, <2>3, <3>1 DEF EndPause
    <3> QED
      BY <2>1, <2>2, <3>1, <3>2 DEF Record, Live
  <2>4. ASSUME EndResume PROVE Record(j)'
    <3>1. mPausedStatus[j] = "RUNNING"
      BY <2>1, <2>4 DEF EndResume, Done, HandlesInv, Operation
    <3>2. /\ mStatus'[j] = "RUNNING" /\ mPausedStatus'[j] = "NONE"
          /\ UNCHANGED <<mJobHandle, mProcessHandle>>
      BY <1>7, <2>1, <2>4, <3>1 DEF EndResume
    <3>3. j \notin mixed => Own(j)
      BY <2>1, <2>4, WalkIsOwn DEF EndResume, Done
    <3> QED
      BY <2>1, <2>2, <3>1, <3>2, <3>3 DEF Record, Live
  <2>5. Record(j)'
    BY <1>7, <2>3, <2>4
  <2>6. ASSUME NEW k \in Jobs, k # j PROVE Record(k)'
    BY <1>7, <1>r, <2>1, <2>6, RecordOfOther DEF EndPause, EndResume, Own, history
  <2> QED
    BY <2>5, <2>6 DEF Records
<1>8. ASSUME NEW j \in Jobs, JobStep(j) PROVE Records'
  BY <1>1, <1>3, <1>4, <1>6, <1>nothing, <1>8
     DEF JobStep, Add, Command, PauseRunning, ResumeRunning, Cancel, Clear,
         Begin, Spawn, EndThread, history
<1>9. CASE Walk
  BY <1>1, <1>5, <1>7, <1>clear, <1>9
     DEF Walk, Visit, CutShort, EndPause, EndResume, EndCancel, jobVars, history
<1> QED
  BY <1>1, <1>8, <1>9 DEF JobNext, vars, history

(* A walk is always for a job of the queue whose handle names a job object.*)
LEMMA OperationStep ==
  ASSUME TypeOK, HandlesInv, [JobNext]_vars
  PROVE  Operation'
<1>1. ASSUME NEW j \in Jobs, NEW o, Begin(o, j), j \in queue,
             o = "Pause" => mStatus[j] = "RUNNING",
             o = "Resume" => mPausedStatus[j] = "RUNNING"
      PROVE  Operation'
  <2>1. Named(j)' = Named(j) /\ Mixing(j)' = Mixing(j) /\ HasObject(j)' = HasObject(j)
    BY <1>1 DEF Begin, Named, Mixing, HasObject, jobVars
  <2> QED
    BY <1>1, <2>1 DEF Begin, Operation, jobVars
<1>2. CASE op' = "none"
  BY <1>2 DEF Operation
<1>3. CASE /\ UNCHANGED <<jobVars, object, op, on>>
           /\ queue \subseteq queue' /\ mixed \subseteq mixed'
  <2>1. /\ Named(on)' = Named(on) /\ Mixing(on)' = Mixing(on)
        /\ HasObject(on)' = HasObject(on)
    BY <1>3 DEF Named, Mixing, HasObject, jobVars
  <2> QED
    BY <1>3, <2>1 DEF Operation, HandlesInv, jobVars
<1>4. ASSUME NEW j \in Jobs, JobStep(j) PROVE Operation'
  BY <1>1, <1>2, <1>3, <1>4
     DEF JobStep, Idle, Add, Start, StartFails, Refresh, Command, PausePending,
         PauseRunning, ResumePending, ResumeRunning, Cancel, Clear,
         ClearNothing, Spawn, EndThread, iteration, history
<1>5. CASE Walk
  BY <1>2, <1>3, <1>5
     DEF Walk, Visit, CutShort, EndPause, EndResume, EndCancel, EndClear,
         EndIteration
<1> QED
  BY <1>3, <1>4, <1>5 DEF JobNext, vars, iteration, history

-----------------------------------------------------------------------------
(* What is shown so far holds of the daemon.                               *)

Base == TypeOK /\ HandlesInv

(* Every step keeps types, handles and records.                            *)
LEMMA BaseStep ==
  ASSUME Base, [JobNext]_vars
  PROVE  Base'
BY TypeStep, RecordsStep, OperationStep DEF Base, HandlesInv

(* They hold before the first step.                                        *)
LEMMA BaseInit == Init => Base
<1> SUFFICES ASSUME Init PROVE Base
  OBVIOUS
<1>1. TypeOK
  <2>1. MaxThreads \in Nat /\ MaxSuspend \in Nat
    BY ThreadsAssumption DEF ThreadsAssumption
  <2>2. suspended \in [Jobs -> [Thread -> 0 .. MaxSuspend]]
    BY <2>1 DEF Init
  <2>3. born \in [Jobs -> 0 .. MaxThreads]
    BY <2>1 DEF Init
  <2> QED
    BY <2>2, <2>3 DEF Init, TypeOK, Statuses, Ops, Closed, Nobody, NULL
<1>2. Operation
  BY DEF Init, Operation
<1>3. Records
  BY DEF Init, Records, Record, Live, Own, NULL
<1> QED
  BY <1>1, <1>2, <1>3 DEF Base, HandlesInv

(* Types, and the handles, of the daemon on Windows.                       *)
THEOREM BaseHolds == DaemonSpec => []Base
<1>1. DaemonInit => Base
  BY BaseInit DEF DaemonInit
<1>2. Base /\ [DaemonNext]_daemonVars => Base'
  BY DaemonDoesJobNext, BaseStep DEF Base
<1> QED
  BY <1>1, <1>2, PTL DEF DaemonSpec

(* A job that is reported as running, or paused while it ran, keeps the    *)
(* handles of its process and of its own job object, if it was given one,  *)
(* whatever the threads do during the walks and whichever calls fail,      *)
(* although the values of closed handles are used again; jobs mistaken for *)
(* one another through them are exempt.                                    *)
THEOREM LiveJobHasHandleHolds == DaemonSpec => []LiveJobHasHandle
<1>1. ASSUME Base, NEW j \in queue \ mixed, Live(j)
      PROVE  mProcessHandle[j] /\ (mJobHandle[j] = NULL \/ Named(j) = j)
  BY <1>1 DEF Base, TypeOK, HandlesInv, Records, Record, Own, Named
<1>2. Base => LiveJobHasHandle
  BY <1>1 DEF Live, LiveJobHasHandle
<1> QED
  BY <1>2, BaseHolds, PTL

-----------------------------------------------------------------------------
(* Threads.                                                                *)

(* A job of which no thread has started or ended.                          *)
LEMMA ThreadsOfOther ==
  ASSUME NEW k, ThreadsOf(k),
         born'[k] = born[k], alive'[k] = alive[k], suspended'[k] = suspended[k],
         mStatus'[k] = "PENDING" => mStatus[k] = "PENDING" \/ mPausedStatus[k] = "PENDING",
         mPausedStatus'[k] = "PENDING" => mStatus[k] = "PENDING" \/ mPausedStatus[k] = "PENDING"
  PROVE  ThreadsOf(k)'
BY DEF ThreadsOf

(* What ends or is suspended is a thread there has been.                   *)
LEMMA ThreadsOfVisited ==
  ASSUME Base, NEW k \in Jobs, NEW t \in alive[k], ThreadsOf(k),
         EndOf(k, t, "zero") \/ EndOf(k, t, "nonzero")
           \/ (\E n \in Nat : SetCount(k, t, n)),
         UNCHANGED <<mStatus, mPausedStatus>>
  PROVE  ThreadsOf(k)'
<1>t. /\ alive \in [Jobs -> SUBSET Thread]
      /\ born \in [Jobs -> 0 .. MaxThreads]
      /\ suspended \in [Jobs -> [Thread -> 0 .. MaxSuspend]]
  BY DEF Base, TypeOK
<1>1. /\ alive'[k] \subseteq alive[k] /\ born'[k] = born[k]
      /\ \A u \in Thread \ {t} : suspended'[k][u] = suspended[k][u]
  BY <1>t DEF EndOf, SetCount
<1>2. t \in Thread /\ t <= born[k]
  BY <1>t, ThreadsAssumption DEF ThreadsOf, Thread, ThreadsAssumption
<1>3. \A u \in Thread : u > born[k] => u # t
  BY <1>t, <1>2, ThreadsAssumption DEF Thread, ThreadsAssumption
<1> QED
  BY <1>1, <1>3 DEF ThreadsOf

(* Every step keeps the count of threads true.                             *)
LEMMA ThreadsStep ==
  ASSUME Base, Threads, [JobNext]_vars
  PROVE  Threads'
<1> USE DEF jobVars, processes, threads
<1>t. /\ mStatus \in [Jobs -> Statuses]
      /\ mPausedStatus \in [Jobs -> {"NONE", "PENDING", "RUNNING"}]
      /\ alive \in [Jobs -> SUBSET Thread]
      /\ born \in [Jobs -> 0 .. MaxThreads]
      /\ suspended \in [Jobs -> [Thread -> 0 .. MaxSuspend]]
      /\ todo \subseteq Jobs \X Thread
      /\ on \in Jobs \cup {Nobody}
  BY DEF Base, TypeOK
<1>n. MaxThreads \in Nat \ {0}
  BY ThreadsAssumption DEF ThreadsAssumption
<1>r. \A k \in Jobs : ThreadsOf(k) /\ Record(k)
  BY DEF Threads, Base, HandlesInv, Records
<1>1. CASE UNCHANGED <<processes, mStatus, mPausedStatus>>
  BY <1>1 DEF Threads, ThreadsOf
<1>2. CASE Visit
  <2> PICK x \in todo : Visit!2!(x)
    BY <1>2 DEF Visit
  <2>1. PICK k \in Jobs, t \in Thread : k = x[1] /\ t = x[2]
    BY <1>t
  <2>2. UNCHANGED <<mStatus, mPausedStatus>>
    BY <1>2 DEF Visit
  <2>3. CASE UNCHANGED threads
    BY <2>2, <2>3 DEF Threads, ThreadsOf
  <2>4. CASE t \in alive[k] /\ Apply(k, t)
    <3>0. suspended[k][t] \in Nat
      BY <1>t, ThreadsAssumption DEF ThreadsAssumption
    <3>1. EndOf(k, t, "zero") \/ (\E n \in Nat : SetCount(k, t, n))
      BY <2>4, <3>0 DEF Apply
    <3>2. ThreadsOf(k)'
      BY <1>r, <2>2, <2>4, <3>1, ThreadsOfVisited
    <3>3. ASSUME NEW j \in Jobs, j # k PROVE ThreadsOf(j)'
      BY <1>r, <1>t, <2>2, <3>1, <3>3, ThreadsOfOther DEF EndOf, SetCount
    <3> QED
      BY <3>2, <3>3 DEF Threads
  <2> QED
    BY <2>1, <2>3, <2>4
<1>3. ASSUME NEW j \in Jobs, Start(j) PROVE Threads'
  <2>1. mPausedStatus[j] = "NONE" /\ mPausedStatus' = mPausedStatus
    BY <1>3, <1>r DEF Start, Record
  <2>2. born[j] = 0 /\ \A t \in Thread : t > 0 => suspended[j][t] = 0
    BY <1>3, <1>r DEF ThreadsOf, Start
  <2>3. /\ mStatus'[j] = "RUNNING" /\ born'[j] = 1 /\ alive'[j] = {1}
        /\ UNCHANGED suspended
    BY <1>3, <1>t DEF Start
  <2>4. ThreadsOf(j)'
    BY <1>n, <2>1, <2>2, <2>3 DEF ThreadsOf, Thread
  <2>5. ASSUME NEW k \in Jobs, k # j PROVE ThreadsOf(k)'
    BY <1>3, <1>r, <1>t, <2>5, ThreadsOfOther DEF Start
  <2> QED
    BY <2>4, <2>5 DEF Threads
<1>4. ASSUME NEW j \in Jobs,
             \/ StartFails(j) \/ Refresh(j) \/ PausePending(j) \/ ResumePending(j)
             \/ ClearNothing(j)
      PROVE  Threads'
  <2>1. /\ UNCHANGED <<born, alive, suspended>>
        /\ \A k \in Jobs : k # j => /\ mStatus'[k] = mStatus[k]
                                    /\ mPausedStatus'[k] = mPausedStatus[k]
    BY <1>4, <1>t
       DEF StartFails, Refresh, PausePending, ResumePending, ClearNothing, Freed
  <2>2. /\ mStatus'[j] = "PENDING" => mStatus[j] = "PENDING" \/ mPausedStatus[j] = "PENDING"
        /\ mPausedStatus'[j] = "PENDING"
           => mStatus[j] = "PENDING" \/ mPausedStatus[j] = "PENDING"
    BY <1>4, <1>t
       DEF StartFails, Refresh, PausePending, ResumePending, ClearNothing, Freed
  <2> QED
    BY <1>r, <2>1, <2>2, ThreadsOfOther DEF Threads
<1>5. ASSUME NEW j \in Jobs, Spawn(j) PROVE Threads'
  <2>1. PICK t \in Thread : t \in alive[j]
    BY <1>5 DEF Spawn, Runs
  <2>2. /\ born[j] \in Nat /\ born[j] # 0
        /\ mStatus[j] # "PENDING" /\ mPausedStatus[j] # "PENDING"
    BY <1>n, <1>r, <1>t, <2>1 DEF ThreadsOf, Thread
  <2>3. /\ born'[j] = born[j] + 1 /\ alive'[j] = alive[j] \cup {born[j] + 1}
        /\ UNCHANGED <<suspended, mStatus, mPausedStatus>>
    BY <1>5, <1>t DEF Spawn
  <2>4. ASSUME NEW u \in Thread, u > born[j] + 1
        PROVE  u \notin alive'[j] /\ suspended'[j][u] = 0
    BY <1>n, <1>r, <2>2, <2>3, <2>4 DEF ThreadsOf, Thread
  <2>5. ThreadsOf(j)'
    BY <2>2, <2>3, <2>4 DEF ThreadsOf
  <2>6. ASSUME NEW k \in Jobs, k # j PROVE ThreadsOf(k)'
    BY <1>5, <1>r, <1>t, <2>6, ThreadsOfOther DEF Spawn
  <2> QED
    BY <2>5, <2>6 DEF Threads
<1>6. ASSUME NEW j \in Jobs, EndThread(j) PROVE Threads'
  <2>1. PICK t \in alive[j] : EndOf(j, t, "zero") \/ EndOf(j, t, "nonzero")
    BY <1>6 DEF EndThread, Runs
  <2>2. ThreadsOf(j)'
    BY <1>6, <1>r, <2>1, ThreadsOfVisited DEF EndThread
  <2>3. ASSUME NEW k \in Jobs, k # j PROVE ThreadsOf(k)'
    BY <1>6, <1>r, <1>t, <2>1, <2>3, ThreadsOfOther DEF EndThread, EndOf
  <2> QED
    BY <2>2, <2>3 DEF Threads
<1>7. CASE EndPause \/ EndResume \/ EndCancel \/ EndClear
  <2>1. PICK j \in Jobs : j = on
    BY <1>7 DEF EndPause, EndResume, EndCancel, EndClear, Done, Base, TypeOK,
                HandlesInv, Operation
  <2>2. /\ UNCHANGED <<born, alive, suspended>>
        /\ \A k \in Jobs : k # j => /\ mStatus'[k] = mStatus[k]
                                    /\ mPausedStatus'[k] = mPausedStatus[k]
    BY <1>7, <1>t, <2>1 DEF EndPause, EndResume, EndCancel, EndClear, Freed
  <2>3. /\ mStatus'[j] = "PENDING" => mStatus[j] = "PENDING" \/ mPausedStatus[j] = "PENDING"
        /\ mPausedStatus'[j] = "PENDING"
           => mStatus[j] = "PENDING" \/ mPausedStatus[j] = "PENDING"
    BY <1>7, <1>t, <2>1 DEF EndPause, EndResume, EndCancel, EndClear, Freed
  <2> QED
    BY <1>r, <2>2, <2>3, ThreadsOfOther DEF Threads
<1>8. ASSUME NEW j \in Jobs, JobStep(j) PROVE Threads'
  BY <1>1, <1>3, <1>4, <1>5, <1>6, <1>8
     DEF JobStep, Add, Command, PauseRunning, ResumeRunning, Cancel, Clear, Begin
<1>9. CASE Walk
  BY <1>1, <1>2, <1>7, <1>9 DEF Walk, CutShort
<1> QED
  BY <1>1, <1>8, <1>9 DEF JobNext, vars

-----------------------------------------------------------------------------
(* Suspend counts.                                                         *)

(* A job whose threads and status do not change, in a step that neither    *)
(* begins nor ends a walk over them.                                       *)
LEMMA SuspensionOfOther ==
  ASSUME NEW k, SuspensionOf(k),
         alive'[k] = alive[k], suspended'[k] = suspended[k],
         mStatus'[k] = mStatus[k], mPausedStatus'[k] = mPausedStatus[k],
         mJobHandle'[k] = mJobHandle[k],
         k \in queue => k \in queue',
         \/ UNCHANGED iteration
         \/ (op = "none" \/ on # k) /\ (op' = "none" \/ on' # k)
  PROVE  SuspensionOf(k)'
BY DEF SuspensionOf, Walked, Live, iteration

(* A job without threads.                                                  *)
LEMMA NoSuspension ==
  ASSUME NEW k, alive'[k] = {}
  PROVE  SuspensionOf(k)'
BY DEF SuspensionOf

(* No step takes a job off the lists of those that were missed or mixed.   *)
LEMMA HistoryGrows ==
  ASSUME [JobNext]_vars
  PROVE  missed \subseteq missed' /\ mixed \subseteq mixed'
<1>1. CASE Walk
  BY <1>1
     DEF Walk, Visit, CutShort, EndPause, EndResume, EndCancel, EndClear, history
<1>2. ASSUME NEW j, JobStep(j) PROVE missed \subseteq missed' /\ mixed \subseteq mixed'
  BY <1>2
     DEF JobStep, Add, Start, StartFails, Refresh, Command, PausePending,
         PauseRunning, ResumePending, ResumeRunning, Cancel, Clear, ClearNothing,
         Begin, Spawn, EndThread, history
<1> QED
  BY <1>1, <1>2 DEF JobNext, vars, history

(* A walk begins: nothing has been visited yet.                            *)
LEMMA BeginSuspensions ==
  ASSUME Base, Threads, Suspensions, NEW o \in Ops, NEW j \in Jobs, op = "none", Begin(o, j)
  PROVE  Suspensions'
<1>u. /\ UNCHANGED <<queue, jobVars, object, processes, missed>>
      /\ mixed' = mixed \cup Mixing(j)
      /\ on' = j /\ ok' /\ todo' \subseteq {Named(j)} \X alive[Named(j)]
      /\ (Named(j) \notin outside => todo' = {Named(j)} \X alive[Named(j)])
  BY DEF Begin
<1>1. Snapshot'
  <2>1. Named(on)' = Named(j)
    BY <1>u DEF Named, jobVars
  <2>2. Named(j) \in Jobs
    BY DEF Begin, HasObject, Named, Base, TypeOK
  <2>3. \A t \in alive[Named(j)] : t <= born[Named(j)]
    <3>1. /\ alive[Named(j)] \subseteq Thread /\ ThreadsOf(Named(j))
          /\ born[Named(j)] \in 0 .. MaxThreads
      BY <2>2 DEF Threads, Base, TypeOK
    <3> QED
      BY <3>1, ThreadsAssumption DEF ThreadsOf, Thread, ThreadsAssumption
  <2>4. born' = born
    BY <1>u DEF processes, threads
  <2> QED
    BY <1>u, <2>1, <2>3, <2>4 DEF Snapshot
<1>2. ASSUME NEW k \in Jobs, Clean(k)' PROVE SuspensionOf(k)'
  <2>1. SuspensionOf(k) /\ k \notin missed /\ k \notin mixed'
    BY <1>u, <1>2 DEF Suspensions, Clean
  <2>2. CASE k # j
    BY <1>u, <2>1, <2>2, SuspensionOfOther DEF jobVars, processes, threads
  <2>3. CASE k = j
    <3>1. Named(j) = j /\ j \notin outside
      BY <1>u, <2>1, <2>3, ObjectIsOwn DEF Suspensions, Base, Begin
    <3>2. \A t \in alive[k] : ~Walked(k, t) /\ ~Walked(k, t)'
      BY <1>u, <2>3, <3>1 DEF Walked
    <3> QED
      BY <1>u, <2>1, <3>2 DEF SuspensionOf, Live, jobVars, processes, threads
  <2> QED
    BY <2>2, <2>3
<1>3. outside' \subseteq missed'
  BY <1>u DEF Suspensions, processes
<1> QED
  BY <1>1, <1>2, <1>3 DEF Suspensions

(* One thread is visited.                                                  *)
LEMMA VisitSuspensions ==
  ASSUME Base, Suspensions, Visit
  PROVE  Suspensions'
<1>t. /\ alive \in [Jobs -> SUBSET Thread]
      /\ suspended \in [Jobs -> [Thread -> 0 .. MaxSuspend]]
      /\ todo \subseteq Jobs \X Thread
      /\ on \in Jobs
  BY DEF Base, TypeOK, HandlesInv, Operation, Visit
<1>u. /\ op # "none" /\ ok
      /\ UNCHANGED <<queue, jobVars, object, outside, mixed, op, on, ok>>
  BY DEF Visit
<1> PICK x \in todo : Visit!2!(x)
  BY DEF Visit
<1>1. PICK k \in Jobs, t \in Thread : x = <<k, t>> /\ x[1] = k /\ x[2] = t
  BY <1>t
<1>2. missed \subseteq missed' /\ todo' = todo \ {<<k, t>>}
  BY <1>1
<1>3. Snapshot'
  <2>1. born' = born /\ Named(on)' = Named(on)
    BY <1>u, <1>1 DEF Apply, SetCount, EndOf, threads, Named, jobVars
  <2> QED
    BY <1>u, <1>2, <2>1 DEF Suspensions, Snapshot
<1>4. k = Named(on) /\ (k # on => k \in mixed)
  BY <1>1, <1>u DEF Suspensions, Snapshot, Base, HandlesInv, Operation, Mixing,
                    HasObject
<1>5. ASSUME NEW j \in Jobs, Clean(j)' PROVE SuspensionOf(j)'
  <2>1. SuspensionOf(j) /\ j \notin missed' /\ j \notin mixed
    BY <1>u, <1>2, <1>5 DEF Suspensions, Clean
  <2>2. CASE j # k
    <3>1. alive'[j] = alive[j] /\ suspended'[j] = suspended[j]
      BY <1>t, <1>1, <2>2 DEF Apply, SetCount, EndOf, threads
    <3>2. \A v \in alive[j] : Walked(j, v)' = Walked(j, v)
      BY <1>u, <1>2, <2>2 DEF Walked
    <3> QED
      BY <1>u, <2>1, <3>1, <3>2 DEF SuspensionOf, Live, jobVars
  <2>3. CASE /\ j = k /\ UNCHANGED threads
             /\ missed' = missed \cup {i \in {on} : t \in alive[k]}
    <3>1. k = on /\ t \notin alive[k]
      BY <1>4, <2>1, <2>3
    <3>2. \A v \in alive[j] : Walked(j, v)' = Walked(j, v)
      BY <1>u, <1>2, <2>3, <3>1 DEF Walked
    <3> QED
      BY <1>u, <2>1, <2>3, <3>2 DEF SuspensionOf, Live, jobVars, threads
  <2>4. CASE j = k /\ t \in alive[k] /\ Apply(k, t)
    <3>1. k = on /\ ~Walked(k, t)
      BY <1>1, <1>4, <2>1, <2>4 DEF Walked
    <3>2. suspended[k][t] = IF mStatus[k] = "PAUSED" THEN 1 ELSE 0
      BY <2>1, <2>4, <3>1 DEF SuspensionOf
    <3>3. ASSUME NEW v \in alive'[k], v # t
          PROVE  /\ v \in alive[k] /\ suspended'[k][v] = suspended[k][v]
                 /\ Walked(k, v)' = Walked(k, v)
      BY <1>t, <1>u, <1>2, <2>4, <3>3 DEF Apply, SetCount, EndOf, Walked
    <3>4. CASE op = "Pause"
      <4>1. suspended'[k][t] = 1 /\ mStatus[k] = "RUNNING"
        BY <1>t, <2>4, <3>1, <3>2, <3>4
           DEF Apply, SetCount, Base, HandlesInv, Operation
      <4>2. alive'[k] = alive[k]
        BY <2>4, <3>4 DEF Apply, SetCount
      <4>3. ASSUME NEW v \in alive'[k]
            PROVE  suspended'[k][v] = IF Walked(k, v)' THEN 1 ELSE 0
        <5>1. CASE v = t
          BY <1>u, <1>2, <3>1, <4>1, <5>1 DEF Walked
        <5>2. CASE v # t
          BY <2>1, <2>4, <3>3, <3>4, <4>1, <5>2 DEF SuspensionOf
        <5> QED
          BY <5>1, <5>2
      <4>4. k \in queue' /\ Live(k)' /\ mJobHandle'[k] # NULL /\ mStatus'[k] # "PAUSED"
        BY <1>u, <2>1, <2>4, <4>1 DEF SuspensionOf, Live, jobVars
      <4> QED
        BY <1>u, <2>4, <3>4, <4>3, <4>4 DEF SuspensionOf
    <3>5. CASE op = "Resume"
      <4>0. Own(k)
        BY <1>u, <2>1, <2>4, <3>1, WalkIsOwn DEF Base
      <4>1. mStatus[k] = "PAUSED"
        BY <2>1, <2>4, <3>1, <3>5, <4>0
           DEF Base, HandlesInv, Operation, Records, Record
      <4>2. suspended'[k][t] = 0
        BY <1>t, <2>4, <3>2, <3>5, <4>1 DEF Apply, SetCount
      <4>3. alive'[k] = alive[k]
        BY <2>4, <3>5 DEF Apply, SetCount
      <4>4. ASSUME NEW v \in alive'[k]
            PROVE  suspended'[k][v] = IF Walked(k, v)' THEN 0 ELSE 1
        <5>1. CASE v = t
          BY <1>u, <1>2, <3>1, <4>2, <5>1 DEF Walked
        <5>2. CASE v # t
          BY <2>1, <2>4, <3>3, <3>5, <4>1, <5>2 DEF SuspensionOf
        <5> QED
          BY <5>1, <5>2
      <4>5. k \in queue' /\ Live(k)' /\ mJobHandle'[k] # NULL /\ mStatus'[k] = "PAUSED"
        BY <1>u, <2>1, <2>4, <4>1 DEF SuspensionOf, Live, jobVars
      <4> QED
        BY <1>u, <2>4, <3>5, <4>4, <4>5 DEF SuspensionOf
    <3>6. CASE op \notin {"Pause", "Resume"}
      <4>1. t \notin alive'[k]
        BY <1>t, <2>4, <3>6 DEF Apply, EndOf
      <4> QED
        BY <1>u, <2>1, <2>4, <3>3, <3>6, <4>1 DEF SuspensionOf, Live, jobVars
    <3> QED
      BY <3>4, <3>5, <3>6
  <2> QED
    BY <1>1, <2>2, <2>3, <2>4
<1>6. outside' \subseteq missed'
  BY <1>u, <1>2 DEF Suspensions
<1> QED
  BY <1>3, <1>5, <1>6 DEF Suspensions

(* The walk is cut short: of all operations only Cancel leaves the threads *)
(* of the job as its status says.                                          *)
LEMMA CutSuspensions ==
  ASSUME Base, Suspensions, CutShort
  PROVE  Suspensions'
<1>u. /\ op # "none" /\ UNCHANGED <<queue, jobVars, object, processes, mixed, op, on, todo>>
      /\ missed' = missed \cup {j \in {on} : op # "Cancel"}
  BY DEF CutShort
<1>1. Snapshot'
  BY <1>u DEF Suspensions, Snapshot, Named, jobVars, processes, threads
<1>2. ASSUME NEW j \in Jobs, Clean(j)' PROVE SuspensionOf(j)'
  <2>1. SuspensionOf(j) /\ \A t \in alive[j] : Walked(j, t)' = Walked(j, t)
    BY <1>u, <1>2 DEF Suspensions, Clean, Walked
  <2> QED
    BY <1>u, <2>1 DEF SuspensionOf, Live, jobVars, processes, threads
<1> QED
  BY <1>u, <1>1, <1>2 DEF Suspensions, processes

(* The walk is over, and the status follows.                               *)
LEMMA EndSuspensions ==
  ASSUME Base, Suspensions, EndPause \/ EndResume \/ EndCancel \/ EndClear
  PROVE  Suspensions'
<1>t. /\ mStatus \in [Jobs -> Statuses]
      /\ mPausedStatus \in [Jobs -> {"NONE", "PENDING", "RUNNING"}]
      /\ mJobHandle \in [Jobs -> Handle \cup {NULL}]
      /\ mProcessHandle \in [Jobs -> BOOLEAN]
      /\ alive \in [Jobs -> SUBSET Thread] /\ queue \subseteq Jobs
  BY DEF Base, TypeOK
<1>1. /\ Done /\ op' = "none"
      /\ UNCHANGED <<alive, suspended, missed, mixed, outside>>
  BY DEF EndPause, EndResume, EndCancel, EndClear, EndIteration, processes, threads,
         history
<1>2. PICK j \in Jobs : j = on
  BY <1>1 DEF Base, HandlesInv, Operation, TypeOK, Done
<1>3. Snapshot'
  BY <1>1 DEF Snapshot
<1>4. ASSUME NEW k \in Jobs, k # j, Clean(k)' PROVE SuspensionOf(k)'
  <2>1. SuspensionOf(k)
    BY <1>1, <1>4 DEF Suspensions, Clean
  <2> QED
    BY <1>t, <1>1, <1>2, <1>4, <2>1, SuspensionOfOther
       DEF EndPause, EndResume, EndCancel, EndClear, Freed
<1>5. ASSUME Clean(j)' PROVE SuspensionOf(j)'
  <2>1. SuspensionOf(j) /\ Clean(j)
    BY <1>1, <1>5 DEF Suspensions, Clean
  <2>2. ok => \A t \in alive[j] : Walked(j, t)
    BY <1>1, <1>2 DEF Walked, Done
  <2>3. op # "Cancel" => ok
    BY <1>1, <1>2, <2>1 DEF Suspensions, Snapshot, Clean, Done
  <2>4. CASE EndPause
    <3>1. mStatus[j] = "RUNNING" /\ op = "Pause"
      BY <1>2, <2>4 DEF EndPause, Base, HandlesInv, Operation
    <3>2. /\ mStatus'[j] = "PAUSED" /\ mPausedStatus'[j] = "RUNNING"
          /\ UNCHANGED <<queue, mJobHandle>>
      BY <1>t, <1>2, <2>3, <2>4, <3>1 DEF EndPause
    <3> QED
      BY <1>1, <2>1, <2>2, <2>3, <3>1, <3>2 DEF SuspensionOf, Walked, Live
  <2>5. CASE EndResume
    <3>1. mPausedStatus[j] = "RUNNING" /\ op = "Resume"
      BY <1>2, <2>5 DEF EndResume, Base, HandlesInv, Operation
    <3>2. mStatus'[j] = "RUNNING" /\ UNCHANGED <<queue, mJobHandle>>
      BY <1>t, <1>2, <2>3, <2>5, <3>1 DEF EndResume
    <3> QED
      BY <1>1, <2>1, <2>2, <2>3, <3>1, <3>2 DEF SuspensionOf, Walked, Live
  <2>6. CASE (EndCancel \/ EndClear) /\ ok
    <3>1. alive[j] = {}
      BY <2>1, <2>2, <2>6 DEF SuspensionOf, EndCancel, EndClear
    <3> QED
      BY <1>1, <3>1, NoSuspension
  <2>7. CASE EndCancel /\ ~ok
    <3>1. UNCHANGED <<queue, mStatus, mPausedStatus, mJobHandle>> /\ op = "Cancel"
      BY <2>7 DEF EndCancel
    <3> QED
      BY <1>1, <2>1, <3>1 DEF SuspensionOf, Walked, Live
  <2>8. EndClear => ok
    BY <2>3 DEF EndClear
  <2> QED
    BY <2>4, <2>5, <2>6, <2>7, <2>8
<1> QED
  BY <1>1, <1>3, <1>4, <1>5 DEF Suspensions

(* A job that is not live, or has no handle of a job object, has no thread *)
(* unless one was missed.                                                  *)
LEMMA DeadHasNoThread ==
  ASSUME Suspensions, NEW j \in Jobs, Clean(j),
         ~(j \in queue /\ Live(j) /\ mJobHandle[j] # NULL)
  PROVE  alive[j] = {}
BY DEF Suspensions, SuspensionOf

(* Every step keeps the suspend counts true.                               *)
LEMMA SuspensionsStep ==
  ASSUME Base, Threads, Suspensions, [JobNext]_vars
  PROVE  Suspensions'
<1>t. /\ queue \subseteq Jobs
      /\ mStatus \in [Jobs -> Statuses]
      /\ mPausedStatus \in [Jobs -> {"NONE", "PENDING", "RUNNING"}]
      /\ mJobHandle \in [Jobs -> Handle \cup {NULL}]
      /\ mProcessHandle \in [Jobs -> BOOLEAN]
      /\ alive \in [Jobs -> SUBSET Thread]
      /\ born \in [Jobs -> 0 .. MaxThreads]
      /\ suspended \in [Jobs -> [Thread -> 0 .. MaxSuspend]]
  BY DEF Base, TypeOK
<1>n. MaxThreads \in Nat \ {0}
  BY ThreadsAssumption DEF ThreadsAssumption
<1>g. missed \subseteq missed' /\ mixed \subseteq mixed'
  BY HistoryGrows
<1>s. \A k \in Jobs : Clean(k)' => Clean(k) /\ SuspensionOf(k)
  BY <1>g DEF Suspensions, Clean
<1>1. CASE Walk
  BY <1>1, VisitSuspensions, CutSuspensions, EndSuspensions DEF Walk
<1>2. CASE UNCHANGED vars
  <2>1. Snapshot' /\ outside' \subseteq missed'
    BY <1>2 DEF vars, Suspensions, Snapshot, Named, jobVars, processes, threads, history,
                  iteration
  <2>2. ASSUME NEW k \in Jobs, Clean(k)' PROVE SuspensionOf(k)'
    BY <1>2, <1>s, <2>2, SuspensionOfOther DEF vars, jobVars, processes, threads
  <2> QED
    BY <2>1, <2>2 DEF Suspensions
<1>3. ASSUME NEW j \in Jobs, JobStep(j) PROVE Suspensions'
  <2> SUFFICES ASSUME ~(PauseRunning(j) \/ ResumeRunning(j) \/ Cancel(j)
                          \/ Clear(j))
               PROVE  Suspensions'
    BY BeginSuspensions
       DEF PauseRunning, ResumeRunning, Cancel, Clear, Idle, Ops
  <2>1. UNCHANGED iteration
    BY <1>3
       DEF JobStep, Add, Start, StartFails, Refresh, Command, PausePending,
           ResumePending, ClearNothing, Spawn, EndThread
  <2>2. Snapshot'
    <3>1. CASE op = "none"
      BY <2>1, <3>1 DEF Snapshot, iteration
    <3>2. CASE op # "none"
      <4>1. UNCHANGED <<mJobHandle, object>>
        BY <1>3, <3>2
           DEF JobStep, Idle, Add, Start, StartFails, Refresh, Command,
               PausePending, ResumePending, ClearNothing, Spawn, EndThread, jobVars
      <4>2. Named(on)' = Named(on)
        BY <2>1, <4>1 DEF Named, iteration
      <4>3. ASSUME NEW x \in todo PROVE x[2] <= born'[x[1]]
        <5>1. x[1] \in Jobs /\ x[2] \in Nat /\ x[2] <= born[x[1]]
          BY <3>2 DEF Suspensions, Snapshot, Base, TypeOK, Thread
        <5>2. born[x[1]] \in Nat
          BY <1>t, <1>n, <5>1
        <5>3. born'[x[1]] \in {born[x[1]], born[x[1]] + 1}
          BY <1>t, <1>3, <3>2, <5>1
             DEF JobStep, Idle, Add, Start, StartFails, Refresh, Command,
                 PausePending, ResumePending, ClearNothing, Spawn, EndThread, EndOf,
                 processes, threads
        <5> QED
          BY ONLY <5>1, <5>2, <5>3
      <4> QED
        BY <1>g, <2>1, <4>2, <4>3 DEF Suspensions, Snapshot, iteration
    <3> QED
      BY <3>1, <3>2
  <2>o. outside' \subseteq missed'
    BY <1>3, <1>g
       DEF Suspensions, JobStep, Add, Start, StartFails, Refresh, Command,
           PausePending, ResumePending, ClearNothing, Spawn, EndThread, processes
  <2>3. ASSUME NEW k \in Jobs, k # j, Clean(k)' PROVE SuspensionOf(k)'
    <3>1. /\ alive'[k] = alive[k] /\ suspended'[k] = suspended[k]
          /\ mStatus'[k] = mStatus[k] /\ mPausedStatus'[k] = mPausedStatus[k]
          /\ mJobHandle'[k] = mJobHandle[k] /\ (k \in queue => k \in queue')
      BY <1>t, <1>3, <2>3
         DEF JobStep, Add, Start, StartFails, NewObject, NoObject, Refresh, Command,
             PausePending, ResumePending, ClearNothing, Freed, Spawn, EndThread,
             EndOf, processes, threads, jobVars
    <3> QED
      BY <1>s, <2>1, <2>3, <3>1, SuspensionOfOther
  <2>4. ASSUME Clean(j)' PROVE SuspensionOf(j)'
    <3>s. SuspensionOf(j) /\ Clean(j)
      BY <1>s, <2>4
    <3>1. CASE Add(j)
      BY <2>1, <3>s, <3>1, SuspensionOfOther DEF Add, jobVars, processes, threads
    <3>2. CASE Start(j)
      <4>1. mPausedStatus[j] = "NONE" /\ born[j] = 0
        BY <1>t, <3>2 DEF Start, Base, HandlesInv, Records, Record, Threads, ThreadsOf
      <4>2. suspended[j][1] = 0
        BY <1>n, <4>1 DEF Threads, ThreadsOf, Thread
      <4>3. NewObject(j)
        BY <2>4, <3>2 DEF Start, Clean
      <4>4. mJobHandle'[j] # NULL
        BY <4>3, NewObjectIsOwn DEF Base, Own
      <4>5. /\ alive'[j] = {1} /\ mStatus'[j] = "RUNNING" /\ op' = "none"
            /\ j \in queue' /\ suspended' = suspended
        BY <1>t, <3>2 DEF Start, Idle, iteration
      <4> QED
        BY <4>2, <4>4, <4>5 DEF SuspensionOf, Walked, Live
    <3>3. CASE StartFails(j)
      BY <1>t, <3>s, <3>3, DeadHasNoThread, NoSuspension
         DEF StartFails, Live, processes, threads
    <3>4. CASE Refresh(j)
      BY <2>4, <3>4, NoSuspension DEF Refresh, Clean, processes, threads
    <3>5. CASE PausePending(j)
      BY <1>t, <3>s, <3>5, DeadHasNoThread, NoSuspension
         DEF PausePending, Live, processes, threads
    <3>6. CASE ResumePending(j)
      <4>1. ~Live(j)
        BY <3>6 DEF ResumePending, Live, Base, HandlesInv, Records, Record
      <4> QED
        BY <3>s, <3>6, <4>1, DeadHasNoThread, NoSuspension
           DEF ResumePending, processes, threads
    <3>7. CASE ClearNothing(j)
      <4>1. ~HasObject(j)
        BY <2>4, <3>7 DEF ClearNothing, Clean
      <4>2. ~Own(j)
        <5>1. j # Closed
          BY JobsAssumption DEF JobsAssumption, Closed
        <5> QED
          BY <4>1, <5>1 DEF HasObject, Named, Own
      <4>3. ~(Live(j) /\ mJobHandle[j] # NULL)
        BY <3>s, <4>2 DEF Clean, Base, HandlesInv, Records, Record
      <4> QED
        BY <3>s, <3>7, <4>3, DeadHasNoThread, NoSuspension
           DEF ClearNothing, processes, threads
    <3>8. CASE Spawn(j)
      <4>1. PICK t \in Thread : t \in alive[j] /\ suspended[j][t] = 0
        BY <3>8 DEF Spawn, Runs
      <4>2. on = j => op \in {"none", "Resume"}
        BY <2>4, <3>8 DEF Spawn, Clean
      <4>3. j \in queue /\ Live(j) /\ mJobHandle[j] # NULL
        BY <3>s, <4>1 DEF SuspensionOf
      <4>4. suspended[j][born[j] + 1] = 0
        BY <1>t, <1>n, <3>8 DEF Threads, ThreadsOf, Thread, Spawn
      <4>5. /\ alive'[j] = alive[j] \cup {born[j] + 1}
            /\ UNCHANGED <<queue, mStatus, mPausedStatus, mJobHandle, suspended>>
        BY <1>t, <3>8 DEF Spawn, jobVars
      <4>6. \A u \in alive[j] \cup {born[j] + 1} : Walked(j, u)' = Walked(j, u)
        BY <2>1 DEF Walked, iteration
      <4>7. CASE op = "Resume" /\ on = j
        <5>1. <<j, born[j] + 1>> \notin todo
          <6>1. \A x \in todo : x[2] <= born[x[1]]
            BY <4>7 DEF Suspensions, Snapshot
          <6>2. born[j] \in Nat
            BY <1>t, <1>n
          <6> QED
            BY <6>1, <6>2
        <5>2. ASSUME NEW u \in alive[j] \cup {born[j] + 1}
              PROVE  suspended[j][u] = IF Walked(j, u) THEN 0
                                       ELSE IF mStatus[j] = "PAUSED" THEN 1 ELSE 0
          <6>1. CASE u \in alive[j]
            BY <3>s, <4>7, <6>1 DEF SuspensionOf
          <6>2. CASE u = born[j] + 1
            BY <4>4, <4>7, <5>1, <6>2 DEF Walked
          <6> QED
            BY <6>1, <6>2
        <5> QED
          BY <2>1, <4>3, <4>5, <4>6, <4>7, <5>2 DEF SuspensionOf, Live, iteration
      <4>8. CASE op = "none" \/ on # j
        <5>1. mStatus[j] # "PAUSED"
          <6>1. suspended[j][t] = IF mStatus[j] = "PAUSED" THEN 1 ELSE 0
            BY <3>s, <4>1, <4>8 DEF SuspensionOf, Walked
          <6> QED
            BY <4>1, <6>1
        <5> QED
          BY <2>1, <3>s, <4>3, <4>4, <4>5, <4>6, <4>8, <5>1
             DEF SuspensionOf, Walked, Live, iteration
      <4> QED
        BY <4>2, <4>7, <4>8
    <3>9. CASE EndThread(j)
      <4>1. PICK t \in Thread : /\ alive'[j] = alive[j] \ {t}
                                /\ \A u \in Thread \ {t} : suspended'[j][u] = suspended[j][u]
        BY <1>t, <3>9 DEF EndThread, EndOf
      <4>2. UNCHANGED <<queue, mStatus, mPausedStatus, mJobHandle>>
        BY <3>9 DEF EndThread, jobVars
      <4>3. \A u \in alive'[j] : u \in Thread \ {t} /\ Walked(j, u)' = Walked(j, u)
        BY <1>t, <2>1, <4>1 DEF Walked, iteration
      <4> QED
        BY <2>1, <3>s, <4>1, <4>2, <4>3 DEF SuspensionOf, Live, iteration
    <3> QED
      BY <1>3, <3>1, <3>2, <3>3, <3>4, <3>5, <3>6, <3>7, <3>8, <3>9
         DEF JobStep, Command
  <2> QED
    BY <2>2, <2>o, <2>3, <2>4 DEF Suspensions
<1> QED
  BY <1>1, <1>2, <1>3 DEF JobNext

Counted == Base /\ Threads /\ Suspensions

(* The layers together, in every state of the daemon.                      *)
LEMMA CountedHolds == DaemonSpec => []Counted
<1>1. DaemonInit => Counted
  <2>1. Init => Threads /\ Suspensions
    BY ThreadsAssumption
       DEF Init, Threads, ThreadsOf, Suspensions, Snapshot, SuspensionOf
  <2> QED
    BY <2>1, BaseInit DEF DaemonInit, Counted
<1>2. Counted /\ [DaemonNext]_daemonVars => Counted'
  BY DaemonDoesJobNext, BaseStep, ThreadsStep, SuspensionsStep DEF Counted, Base
<1> QED
  BY <1>1, <1>2, PTL DEF DaemonSpec

(* Between two operations the threads of a job are suspended exactly once  *)
(* if it shows as paused and run if it does not, unless an operation has   *)
(* missed one of them or the job was mistaken for another one.             *)
THEOREM SuspendedIffPausedHolds == DaemonSpec => []SuspendedIffPaused
<1>1. Counted => SuspendedIffPaused
  BY DEF Counted, Base, TypeOK, Suspensions, Clean, SuspensionOf, SuspendedIffPaused
<1> QED
  BY <1>1, CountedHolds, PTL

-----------------------------------------------------------------------------
(* CheckQueue.                                                             *)

(* Steps that start no job. *)
NoStart ==
  \/ Walk
  \/ \E k \in Jobs : \/ Add(k) \/ StartFails(k) \/ Refresh(k)
                     \/ Command(k) \/ Spawn(k) \/ EndThread(k)
  \/ UNCHANGED vars

(* Only Start makes a job live: what Resume lets run has been live.        *)
LEMMA OnlyStartMakesLive ==
  ASSUME Base, NoStart, NEW j \in queue', j \notin mixed', Live(j)'
  PROVE  j \in queue \ mixed /\ Live(j)
<1> SUFFICES j \in queue /\ Live(j)
  <2>1. [JobNext]_vars
    BY DEF NoStart, JobNext, JobStep
  <2> QED
    BY <2>1, HistoryGrows
<1>t. /\ queue \subseteq Jobs
      /\ mStatus \in [Jobs -> Statuses]
      /\ mPausedStatus \in [Jobs -> {"NONE", "PENDING", "RUNNING"}]
  BY DEF Base, TypeOK
<1>1. CASE UNCHANGED <<queue, jobVars>>
  BY <1>1 DEF Live, jobVars
<1>2. ASSUME NEW k \in Jobs,
             \/ Add(k) \/ StartFails(k) \/ Refresh(k)
             \/ Command(k) \/ Spawn(k) \/ EndThread(k)
      PROVE  j \in queue /\ Live(j)
  <2>1. CASE Add(k)
    BY <1>t, <2>1 DEF Add, Live, jobVars
  <2>2. CASE StartFails(k) \/ Refresh(k)
    BY <1>t, <2>2 DEF StartFails, Refresh, Live
  <2>3. CASE PausePending(k)
    <3>1. mPausedStatus'[k] = "PENDING" /\ mStatus'[k] = "PAUSED"
      BY <1>t, <2>3 DEF PausePending, Idle
    <3> QED
      BY <1>t, <2>3, <3>1 DEF PausePending, Live
  <2>4. CASE ResumePending(k)
    BY <1>t, <2>4 DEF ResumePending, Live
  <2>5. CASE ClearNothing(k)
    BY <1>t, <2>5 DEF ClearNothing, Freed, Live
  <2>6. CASE \/ PauseRunning(k) \/ ResumeRunning(k) \/ Cancel(k) \/ Clear(k)
             \/ Spawn(k) \/ EndThread(k)
    BY <1>1, <2>6
       DEF PauseRunning, ResumeRunning, Cancel, Clear, Begin, Spawn, EndThread
  <2> QED
    BY <1>2, <2>1, <2>2, <2>3, <2>4, <2>5, <2>6 DEF Command
<1>3. CASE Walk
  <2>1. CASE EndPause
    BY <1>t, <2>1 DEF EndPause, Done, Live, Base, HandlesInv, Operation
  <2>2. CASE EndResume
    <3>1. CASE j = on /\ ok
      <4>1. mPausedStatus[j] = "RUNNING" /\ on \in queue /\ mixed' = mixed
        BY <2>2, <3>1 DEF EndResume, Done, Base, HandlesInv, Operation, history
      <4>2. Own(j)
        BY <2>2, <3>1, <4>1, WalkIsOwn DEF EndResume, Done, Base
      <4> QED
        BY <1>t, <3>1, <4>1, <4>2 DEF Live, Base, HandlesInv, Records, Record
    <3>2. CASE j # on \/ ~ok
      BY <1>t, <2>2, <3>2 DEF EndResume, Live
    <3> QED
      BY <3>1, <3>2
  <2>3. CASE EndCancel
    BY <1>t, <2>3 DEF EndCancel, Live
  <2>4. CASE EndClear
    BY <1>t, <2>4 DEF EndClear, Freed, Live
  <2> QED
    BY <1>1, <1>3, <2>1, <2>2, <2>3, <2>4 DEF Walk, Visit, CutShort
<1> QED
  BY <1>1, <1>2, <1>3 DEF NoStart, vars

(* Every step keeps what CheckQueue has found true.                        *)
LEMMA CheckedStep ==
  ASSUME Base, Checked, [DaemonNext]_daemonVars
  PROVE  Checked'
<1>t. /\ queue \subseteq Jobs
      /\ mStatus \in [Jobs -> Statuses]
      /\ mPausedStatus \in [Jobs -> {"NONE", "PENDING", "RUNNING"}]
  BY DEF Base, TypeOK
<1>1. ASSUME ~checking', NoStart, mRunningJobs => mRunningJobs'
      PROVE  Checked'
  BY <1>1, OnlyStartMakesLive DEF Checked
<1>2. ASSUME UNCHANGED <<jobVars, queue, op, batch, mRunningJobs, check>>,
             mixed \subseteq mixed'
      PROVE  Checked'
  BY <1>2 DEF Checked, Live, jobVars, check
<1>3. CASE OnTimer
  BY <1>3 DEF OnTimer, Free, Checked, Live, vars, jobVars, history, iteration, pausing
<1>4. CASE RefreshNext
  <2> PICK j \in Front(unvisited) : RefreshNext!(j)
    BY <1>4 DEF RefreshNext
  <2>1. CASE EndCheck(TRUE)
    BY <2>1 DEF EndCheck, Checked
  <2>2. CASE ~checking /\ checking' = checking /\ mRunningJobs' = mRunningJobs
    <3>1. NoStart
      BY <1>t DEF NoStart, Refresh, Idle
    <3> QED
      BY <1>1, <2>2, <3>1
  <2>3. CASE /\ checking /\ mStatus'[j] # "RUNNING"
             /\ unvisited' = unvisited \ {j}
             /\ retVal' = (retVal \/ mStatus'[j] = "PAUSED")
             /\ UNCHANGED <<app, pausing, mRunningJobs, checking>>
    <3>1. /\ \A k \in Jobs : k # j => mStatus'[k] = mStatus[k]
          /\ UNCHANGED <<queue, op>> /\ NoStart
      BY <1>t DEF Refresh, Idle, NoStart, iteration, vars, jobVars
    <3>2. \A k \in queue' \ unvisited' :
            mStatus'[k] # "RUNNING" /\ (mStatus'[k] = "PAUSED" => retVal')
      BY <1>t, <2>3, <3>1 DEF Checked
    <3>3. ~mRunningJobs' => \A k \in queue' \ mixed' : ~Live(k)'
      BY <2>3, <3>1, OnlyStartMakesLive DEF Checked
    <3> QED
      BY <2>3, <3>1, <3>2, <3>3 DEF Checked, pausing
  <2> QED
    BY <2>1, <2>2, <2>3
<1>5. CASE StartNext
  BY <1>5 DEF StartNext, EndCheck, Checked
<1>6. CASE NothingToStart
  BY <1>6 DEF NothingToStart, EndCheck, Checked, Live, vars, jobVars, history
<1>7. CASE OnExec
  <2>1. ~checking' /\ mRunningJobs' = mRunningJobs /\ NoStart
    BY <1>7 DEF OnExec, Free, check, NoStart
  <2> QED
    BY <1>1, <2>1
<1>8. CASE PauseAll \/ ResumeAll
  <2>1. ~checking' /\ mRunningJobs' = mRunningJobs /\ NoStart
    BY <1>8 DEF PauseAll, ResumeAll, Free, check, NoStart
  <2> QED
    BY <1>1, <2>1
<1>9. CASE NextOfBatch
  <2>1. ~checking' /\ mRunningJobs' = mRunningJobs /\ NoStart
    BY <1>9, <1>t DEF NextOfBatch, Front, Checked, check, NoStart, Command,
                      PauseRunning, ResumePending, ResumeRunning, Idle
  <2> QED
    BY <1>1, <2>1
<1>10. CASE OnExitEvent \/ Answer \/ UNCHANGED daemonVars
  BY <1>2, <1>10
     DEF OnExitEvent, Answer, daemonVars, vars, pausing, history, iteration
<1>11. CASE Walk /\ UNCHANGED <<app, pausing, mRunningJobs, check>>
  <2>1. ~checking' /\ NoStart
    BY <1>11
       DEF Checked, check, NoStart, Walk, Visit, CutShort, EndPause, EndResume,
           EndCancel, EndClear, Done
  <2> QED
    BY <1>1, <1>11, <2>1
<1>12. CASE Works /\ UNCHANGED <<app, pausing, mRunningJobs, check>>
  BY <1>2, <1>12 DEF Works, Spawn, EndThread, pausing, history, iteration
<1> QED
  BY <1>3, <1>4, <1>5, <1>6, <1>7, <1>8, <1>9, <1>10, <1>11, <1>12
     DEF DaemonNext, CheckQueue

(* An exit nobody was asked about leaves no job that runs or was paused    *)
(* while it ran, whatever calls failed, and no thread of a job but of one  *)
(* an operation has missed a thread of; jobs mistaken for one another are  *)
(* exempt from both.                                                       *)
THEOREM UnaskedExitHolds == DaemonSpec => UnaskedExitLosesNothing
<1> DEFINE Nothing == /\ \A j \in queue \ mixed :
                           /\ mStatus[j] # "RUNNING"
                           /\ mStatus[j] = "PAUSED" => mPausedStatus[j] = "PENDING"
                      /\ \A j \in Jobs \ (missed \cup mixed) : alive[j] = {}
<1>1. DaemonInit => Checked
  BY DEF DaemonInit, Init, Checked, Live
<1>2. Base /\ Checked /\ [DaemonNext]_daemonVars => Checked'
  BY CheckedStep
<1>3. Counted => Base
  BY DEF Counted
<1>4. ASSUME Counted, Checked, [DaemonNext]_daemonVars, app = "up", app' = "gone"
      PROVE  Nothing
  <2>1. ~mRunningJobs
    BY <1>4
       DEF DaemonNext, OnTimer, CheckQueue, RefreshNext, StartNext,
           NothingToStart, EndCheck, OnExec, PauseAll, ResumeAll, NextOfBatch,
           OnExitEvent, Answer, daemonVars
  <2>2. \A j \in queue \ mixed : ~Live(j)
    BY <1>4, <2>1 DEF Checked
  <2>3. \A j \in Jobs : mPausedStatus[j] \in {"NONE", "PENDING", "RUNNING"}
    BY <1>4 DEF Counted, Base, TypeOK
  <2>4. \A j \in Jobs : mStatus[j] = "PAUSED" => mPausedStatus[j] # "NONE"
    BY <1>4 DEF Counted, Base, HandlesInv, Records, Record
  <2>5. queue \subseteq Jobs
    BY <1>4 DEF Counted, Base, TypeOK
  <2>6. \A j \in queue \ mixed :
          /\ mStatus[j] # "RUNNING"
          /\ mStatus[j] = "PAUSED" => mPausedStatus[j] = "PENDING"
    BY <2>2, <2>3, <2>4, <2>5 DEF Live
  <2>7. ASSUME NEW j \in Jobs \ (missed \cup mixed) PROVE alive[j] = {}
    BY <1>4, <2>2, <2>7, DeadHasNoThread DEF Counted, Clean
  <2> QED
    BY <2>6, <2>7
<1>5. Counted /\ Checked /\ [DaemonNext]_daemonVars =>
        [app = "up" /\ app' = "gone" => Nothing]_daemonVars
  BY <1>4
<1>6. DaemonSpec => [][app = "up" /\ app' = "gone" => Nothing]_daemonVars
  BY <1>1, <1>2, <1>3, <1>5, CountedHolds, PTL DEF DaemonSpec
<1> QED
  BY <1>6 DEF UnaskedExitLosesNothing
=============================================================================
