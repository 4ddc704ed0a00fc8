----------------------------- MODULE WindowsJob -----------------------------
(***************************************************************************)
(* The Windows implementation of Job (windows_job.cpp): a job object and a *)
(* process handle per job, and IterateThreads, which walks a snapshot of   *)
(* the threads and suspends, resumes or terminates them one by one while   *)
(* they go on running, starting and ending.  A call to Windows that fails  *)
(* is logged at most: a process may stay outside its job object, and a     *)
(* walk may not begin, miss a thread or be cut short.                      *)
(*                                                                         *)
(* Two sets record what such calls did: "missed" the jobs one of whose     *)
(* threads was not reached, "mixed" those an operation mistook for another *)
(* one because it used the handle of a job object closed long before.      *)
(*                                                                         *)
(* The daemon, which calls these operations, is WindowsDaemon.             *)
(***************************************************************************)
EXTENDS Naturals, FiniteSets

CONSTANTS
  Jobs,          \* their numbers, in the order of the queue
  MaxThreads,    \* bound: threads a job ever has
  Unruly,        \* bound: jobs that start threads, and calls for which fail
  MaxFailing,    \* bound: jobs missed a thread of until no call fails
  MaxSuspend     \* MAXIMUM_SUSPEND_COUNT: SuspendThread fails beyond it

ASSUME JobsAssumption == IsFiniteSet(Jobs) /\ Jobs \subseteq Nat \ {0}
ASSUME ThreadsAssumption ==
  /\ MaxThreads \in Nat \ {0} /\ MaxFailing \in Nat /\ Unruly \subseteq Jobs
  /\ MaxSuspend \in Nat \ {0}

Statuses == {"ERROR", "PENDING", "PAUSED", "RUNNING", "DONE", "CANCELED"}
Finished == {"ERROR", "DONE", "CANCELED"}

Thread == 1 .. MaxThreads
Handle == Jobs   \* each named after the job it was first given to
NULL == 0
Closed == 0
Nobody == 0
Ops == {"none", "Cancel", "Clear", "Pause", "Resume"}

VARIABLES
  queue,          \* the jobs of the queue
  mStatus, mPausedStatus,
  mJobHandle,     \* the value Start stored; CloseHandle does not reset it
  mProcessHandle, \* not NULL
  object,         \* open job handles, and whose job object they name
  alive,          \* the threads of each job
  born,           \* threads there have been
  children,       \* those of them not of the first process but of a child
  outside,        \* jobs whose processes are in no job object
  suspended,      \* the suspend counts of threads
  exitCode,       \* of the first process: STILL_ACTIVE, zero or not
  missed,         \* jobs one of whose threads an operation did not reach
  mixed,          \* jobs mistaken for one another
  op, on, todo, ok \* the operation IterateThreads serves, the job it is for,
                  \* the threads of the snapshot still to visit, retVal

jobVars == <<mStatus, mPausedStatus, mJobHandle, mProcessHandle>>
threads == <<alive, born, children, suspended, exitCode>>
processes == <<threads, outside>>
history == <<missed, mixed>>
iteration == <<op, on, todo, ok>>
vars == <<queue, jobVars, object, processes, history, iteration>>

TypeOK ==
  /\ queue \subseteq Jobs
  /\ mStatus \in [Jobs -> Statuses]
  /\ mPausedStatus \in [Jobs -> {"NONE", "PENDING", "RUNNING"}]
  /\ mJobHandle \in [Jobs -> Handle \cup {NULL}]
  /\ mProcessHandle \in [Jobs -> BOOLEAN]
  /\ object \in [Handle -> Jobs \cup {Closed}]
  /\ alive \in [Jobs -> SUBSET Thread]
  /\ born \in [Jobs -> 0 .. MaxThreads]
  /\ children \in [Jobs -> SUBSET Thread]
  /\ suspended \in [Jobs -> [Thread -> 0 .. MaxSuspend]]
  /\ exitCode \in [Jobs -> {"active", "zero", "nonzero"}]
  /\ outside \subseteq Jobs /\ missed \subseteq Jobs /\ mixed \subseteq Jobs
  /\ op \in Ops /\ on \in Jobs \cup {Nobody} /\ ok \in BOOLEAN
  /\ todo \subseteq Jobs \X Thread

Init ==
  /\ queue \in SUBSET Jobs
  /\ mStatus = [j \in Jobs |-> "PENDING"]
  /\ mPausedStatus = [j \in Jobs |-> "NONE"]
  /\ mJobHandle = [j \in Jobs |-> NULL]
  /\ mProcessHandle = [j \in Jobs |-> FALSE]
  /\ object = [h \in Handle |-> Closed]
  /\ alive = [j \in Jobs |-> {}]
  /\ born = [j \in Jobs |-> 0]
  /\ children = [j \in Jobs |-> {}]
  /\ suspended = [j \in Jobs |-> [t \in Thread |-> 0]]
  /\ exitCode = [j \in Jobs |-> "active"]
  /\ outside = {} /\ missed = {} /\ mixed = {}
  /\ op = "none" /\ on = Nobody /\ todo = {} /\ ok = TRUE

MayFail(j) == j \in Unruly /\ Cardinality(missed) < MaxFailing

Idle(j) == op = "none" /\ j \in queue

-----------------------------------------------------------------------------
(* Start, called for a pending job.  The process is created                *)
(* suspended and put into the job object before its thread may run; it     *)
(* runs as well if there is no job object or it cannot be put into it.  If *)
(* it cannot be created the job object stays behind, open and empty.       *)

NewObject(j) ==
  \E h \in ({j} \cup {mJobHandle[k] : k \in Jobs}) \ {NULL} :
    /\ object[h] = Closed
    /\ mJobHandle' = [mJobHandle EXCEPT ![j] = h]
    /\ object' = [object EXCEPT ![h] = j]
NoObject == UNCHANGED <<mJobHandle, object>>

StartFails(j) ==
  /\ Idle(j) /\ mStatus[j] = "PENDING"
  /\ mStatus' = [mStatus EXCEPT ![j] = "ERROR"]
  /\ NewObject(j) \/ NoObject            \* no process, no rungms.bat either
  /\ UNCHANGED <<queue, mPausedStatus, mProcessHandle, processes, history,
                 iteration>>

Start(j) ==
  /\ Idle(j) /\ mStatus[j] = "PENDING"
  /\ \/ NewObject(j) /\ UNCHANGED <<outside, missed>>
     \/ /\ MayFail(j) /\ (NewObject(j) \/ NoObject)
        /\ outside' = outside \cup {j} /\ missed' = missed \cup {j}
  /\ mStatus' = [mStatus EXCEPT ![j] = "RUNNING"]
  /\ mProcessHandle' = [mProcessHandle EXCEPT ![j] = TRUE]
  /\ alive' = [alive EXCEPT ![j] = {1}]
  /\ born' = [born EXCEPT ![j] = 1]
  /\ UNCHANGED <<queue, mPausedStatus, children, suspended, exitCode, mixed,
                 iteration>>

Close(obj, h) == [x \in Handle |-> IF x = h THEN Closed ELSE obj[x]]

(* The job whose object mJobHandle names, which is another one if the      *)
(* handle was closed and its value given out again since.                  *)
Named(j) == IF mJobHandle[j] = NULL THEN Closed ELSE object[mJobHandle[j]]
HasObject(j) == Named(j) # Closed
Mixing(j) == IF Named(j) \in {j, Closed} THEN {} ELSE {j, Named(j)}

(* The first process has ended; a child of it may go on, which is missed.  *)
HasEnded(j) == mProcessHandle[j] /\ exitCode[j] # "active"

Refresh_DoneOnly(j) ==
  /\ Idle(j) /\ mProcessHandle[j] /\ exitCode[j] = "zero"
  /\ mStatus' = [mStatus EXCEPT ![j] = "DONE"]
  /\ object' = Close(object, mJobHandle[j])
  /\ mProcessHandle' = [mProcessHandle EXCEPT ![j] = FALSE]
  /\ missed' = missed \cup {k \in {j} : alive[k] # {}}
  /\ mixed' = mixed \cup Mixing(j)
  /\ UNCHANGED <<queue, mPausedStatus, mJobHandle, processes, iteration>>
Refresh(j) ==
  /\ Idle(j) /\ HasEnded(j)
  /\ mStatus' = [mStatus EXCEPT ![j] = IF exitCode[j] = "zero" THEN "DONE"
                                       ELSE "ERROR"]
  /\ object' = Close(object, mJobHandle[j])
  /\ mProcessHandle' = [mProcessHandle EXCEPT ![j] = FALSE]
  /\ missed' = missed \cup {k \in {j} : alive[k] # {}}
  /\ mixed' = mixed \cup Mixing(j)
  /\ UNCHANGED <<queue, mPausedStatus, mJobHandle, processes, iteration>>

-----------------------------------------------------------------------------
(* IterateThreads: a snapshot of the threads of the job object, then the   *)
(* callback on each of them.  It fails at once if the handle is NULL or    *)
(* closed (the daemon itself is in no job object), and may if it is not:   *)
(* the list of processes can be too short for them.  Pause, Resume and     *)
(* Cancel do nothing then.                                                 *)

Begin(o, j) ==
  LET k == Named(j) IN
  /\ HasObject(j)
  /\ op' = o /\ on' = j /\ ok' = TRUE
  /\ todo' = {k} \X (IF k \in outside THEN {} ELSE alive[k])
  /\ mixed' = mixed \cup Mixing(j)
  /\ UNCHANGED <<queue, jobVars, object, processes, missed>>

(* A thread of j ends, with the code c; the first process may end with it. *)
EndOf(j, t, c) ==
  /\ alive' = [alive EXCEPT ![j] = @ \ {t}]
  /\ exitCode' = [exitCode EXCEPT ![j] =
                    IF @ = "active" /\ alive[j] \ {t} \subseteq children[j]
                    THEN c ELSE @]
  /\ suspended' = [suspended EXCEPT ![j][t] = 0]
  /\ UNCHANGED <<born, children>>

SetCount(k, t, n) ==
  /\ suspended' = [suspended EXCEPT ![k][t] = n]
  /\ UNCHANGED <<alive, born, children, exitCode>>

Apply(k, t) ==
  LET count == suspended[k][t] IN
  \/ op = "Pause" /\ count < MaxSuspend /\ SetCount(k, t, count + 1)
  \/ op = "Resume" /\ SetCount(k, t, IF count = 0 THEN 0 ELSE count - 1)
  \/ op \in {"Cancel", "Clear"} /\ EndOf(k, t, "zero") \* TerminateThread(.., 0)

(* One thread of the snapshot.  If it cannot be opened, because it has     *)
(* ended or although it lives, that is only logged.                        *)
Visit ==
  /\ op # "none" /\ ok
  /\ \E x \in todo :
       /\ todo' = todo \ {x}
       /\ \/ /\ x[2] \in alive[x[1]] /\ Apply(x[1], x[2])
             /\ UNCHANGED missed
          \/ /\ x[2] \in alive[x[1]] => MayFail(on)
             /\ missed' = missed \cup {j \in {on} : x[2] \in alive[x[1]]}
             /\ UNCHANGED threads
  /\ UNCHANGED <<queue, jobVars, object, outside, mixed, op, on, ok>>

(* The callback fails, after which retVal && callback(...) is not called   *)
(* for the other threads, or Thread32Next does.  A job that was to be      *)
(* cancelled is left as it is, to be cancelled again.                      *)
CutShort ==
  /\ op # "none" /\ ok
  /\ \/ MayFail(on)
     \/ \E x \in todo : op = "Pause" /\ suspended[x[1]][x[2]] = MaxSuspend
  /\ ok' = FALSE
  /\ missed' = missed \cup {j \in {on} : op # "Cancel"}
  /\ UNCHANGED <<queue, jobVars, object, processes, mixed, op, on, todo>>

Done == op # "none" /\ (todo = {} \/ ~ok)
EndIteration == op' = "none" /\ todo' = {} /\ ok' = TRUE /\ on' = Nobody

(* Pause: a pending job has no threads to suspend.                         *)
PausePending(j) ==
  /\ Idle(j) /\ mStatus[j] = "PENDING"
  /\ mPausedStatus' = [mPausedStatus EXCEPT ![j] = "PENDING"]
  /\ mStatus' = [mStatus EXCEPT ![j] = "PAUSED"]
  /\ UNCHANGED <<queue, mJobHandle, mProcessHandle, object, processes, history,
                 iteration>>

PauseRunning_Again(j) ==
  Idle(j) /\ mStatus[j] \in {"RUNNING", "PAUSED"} /\ Begin("Pause", j)
PauseRunning(j) == Idle(j) /\ mStatus[j] = "RUNNING" /\ Begin("Pause", j)

EndPause ==
  /\ Done /\ op = "Pause"
  /\ IF ok
     THEN /\ mPausedStatus' = [mPausedStatus EXCEPT ![on] = mStatus[on]]
          /\ mStatus' = [mStatus EXCEPT ![on] = "PAUSED"]
     ELSE UNCHANGED <<mPausedStatus, mStatus>>
  /\ EndIteration
  /\ UNCHANGED <<queue, mJobHandle, mProcessHandle, object, processes, history>>

ResumePending(j) ==
  /\ Idle(j) /\ mPausedStatus[j] = "PENDING"
  /\ mStatus' = [mStatus EXCEPT ![j] = "PENDING"]
  /\ mPausedStatus' = [mPausedStatus EXCEPT ![j] = "NONE"]
  /\ UNCHANGED <<queue, mJobHandle, mProcessHandle, object, processes, history,
                 iteration>>

ResumeRunning(j) ==
  Idle(j) /\ mPausedStatus[j] = "RUNNING" /\ Begin("Resume", j)

EndResume ==
  /\ Done /\ op = "Resume"
  /\ IF ok
     THEN /\ mStatus' = [mStatus EXCEPT ![on] = mPausedStatus[on]]
          /\ mPausedStatus' = [mPausedStatus EXCEPT ![on] = "NONE"]
     ELSE UNCHANGED <<mPausedStatus, mStatus>>
  /\ EndIteration
  /\ UNCHANGED <<queue, mJobHandle, mProcessHandle, object, processes, history>>

(* Cancel, by its command or from Clear, which REMOVE and CLEAR call       *)
(* before they free the job.  If there is no walk, or it is cut short, the *)
(* job is freed all the same, whatever runs of it.  Of a job that is gone  *)
(* the model keeps nothing but that it is not to be added again.           *)
Freed(j) ==
  /\ queue' = queue \ {j}
  /\ mStatus' = [mStatus EXCEPT ![j] = "CANCELED"]
  /\ mPausedStatus' = [mPausedStatus EXCEPT ![j] = "NONE"]
  /\ mJobHandle' = [mJobHandle EXCEPT ![j] = NULL]
  /\ mProcessHandle' = [mProcessHandle EXCEPT ![j] = FALSE]

Cancel(j) == Idle(j) /\ Begin("Cancel", j)

Clear(j) == Idle(j) /\ Begin("Clear", j)

ClearNothing(j) ==
  /\ Idle(j) /\ (HasObject(j) => MayFail(j))
  /\ Freed(j)
  /\ missed' = missed \cup {k \in {j} : HasObject(k)}
  /\ UNCHANGED <<object, processes, mixed, iteration>>

EndClear ==
  /\ Done /\ op = "Clear"
  /\ object' = IF ok THEN Close(object, mJobHandle[on]) ELSE object
  /\ Freed(on) /\ EndIteration
  /\ UNCHANGED <<processes, history>>

EndCancel_ClosesAnyway ==
  /\ Done /\ op = "Cancel"
  /\ object' = Close(object, mJobHandle[on])
  /\ mProcessHandle' = [mProcessHandle EXCEPT ![on] = FALSE]
  /\ mStatus' = IF ok THEN [mStatus EXCEPT ![on] = "CANCELED"] ELSE mStatus
  /\ EndIteration
  /\ UNCHANGED <<queue, mPausedStatus, mJobHandle, processes, history>>
EndCancel ==
  /\ Done /\ op = "Cancel"
  /\ IF ok
     THEN /\ object' = Close(object, mJobHandle[on])
          /\ mProcessHandle' = [mProcessHandle EXCEPT ![on] = FALSE]
          /\ mStatus' = [mStatus EXCEPT ![on] = "CANCELED"]
     ELSE UNCHANGED <<object, mProcessHandle, mStatus>>
  /\ EndIteration
  /\ UNCHANGED <<queue, mPausedStatus, mJobHandle, processes, history>>

-----------------------------------------------------------------------------
(* The processes: a thread that is not suspended may start another one,    *)
(* in the same or in a child process, or end.  One that starts during a    *)
(* walk is not in its snapshot.                                            *)

Runs(j, t) == t \in alive[j] /\ suspended[j][t] = 0

Spawn(j) ==
  /\ born[j] < MaxThreads
  /\ j \in Unruly
  /\ \E t \in Thread, child \in BOOLEAN :
       /\ Runs(j, t) /\ (t \in children[j] => child)
       /\ children' = [children EXCEPT ![j] = @ \cup {s \in {born[j] + 1} : child}]
  /\ born' = [born EXCEPT ![j] = @ + 1]
  /\ alive' = [alive EXCEPT ![j] = @ \cup {born[j] + 1}]
  /\ missed' = missed \cup {k \in {j} : on = k /\ op # "Resume"}
  /\ UNCHANGED <<queue, jobVars, object, suspended, exitCode, outside, mixed,
                 iteration>>

EndThread(j) ==
  /\ \E t \in Thread, c \in {"zero", "nonzero"} : Runs(j, t) /\ EndOf(j, t, c)
  /\ UNCHANGED <<queue, jobVars, object, outside, history, iteration>>

Walk == Visit \/ CutShort \/ EndPause \/ EndResume \/ EndCancel \/ EndClear

Command(j) ==
  \/ PausePending(j) \/ PauseRunning(j) \/ ResumePending(j) \/ ResumeRunning(j)
  \/ Cancel(j) \/ Clear(j) \/ ClearNothing(j)

Works == \E j \in Jobs : Spawn(j) \/ EndThread(j)

-----------------------------------------------------------------------------
(* Properties.                                                             *)

(* A job that is reported as running, or paused while it ran, still has    *)
(* the handles Refresh and Cancel need, of its process and, unless Windows *)
(* gave it none, of its own job object, however threads race with the      *)
(* walks and calls fail in them.  The handles that other jobs have closed  *)
(* may be in use again; only jobs already mistaken for one another through *)
(* such a handle are exempt (windows_job.cpp:172-198,211-220,304-309).     *)
LiveJobHasHandle ==
  \A j \in queue \ mixed :
    mStatus[j] = "RUNNING" \/ (mStatus[j] = "PAUSED" /\ mPausedStatus[j] = "RUNNING")
    => mProcessHandle[j] /\ (mJobHandle[j] = NULL \/ Named(j) = j)

(* Between two operations the threads of a job are suspended exactly once  *)
(* if it shows as paused and run if it does not, although threads end and, *)
(* but for those of a job being paused or terminated, start during the     *)
(* walks, and walks over other jobs fail.  It is promised of no job whose  *)
(* process is in no job object, of which a walk skipped a thread that      *)
(* lived, or whose Pause or Resume was cut short, nor of one mistaken for  *)
(* another (windows_job.cpp:230-240,251-264).                              *)
SuspendedIffPaused ==
  op = "none" =>
    \A j \in queue \ (missed \cup mixed) : \A t \in alive[j] :
      suspended[j][t] = IF mStatus[j] = "PAUSED" THEN 1 ELSE 0
=============================================================================
