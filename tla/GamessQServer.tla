--------------------------- MODULE GamessQServer ---------------------------
(***************************************************************************)
(* The daemon of GamessQ: class GamessQServer (gamessqd.cpp) holding the   *)
(* queue of PosixJobs, driven by the commands of its clients and by        *)
(* CheckQueue, which the poll loop of gamessqd_posix.cpp calls when nothing*)
(* else happens; the processes of the jobs, which run beside it; the queue *)
(* file every change is saved to; and the daemon's exits, crashes and      *)
(* starts.                                                                 *)
(*                                                                         *)
(* The daemon is single threaded, so each handler is one action.  What     *)
(* interleaves with the handlers are the processes of the jobs.            *)
(*                                                                         *)
(* A job is named by its id.  Jobs are only ever appended, and with the    *)
(* next id, so the list mJobQueue is the set of its ids taken in           *)
(* increasing order (NextIdFresh is what makes that so).                   *)
(***************************************************************************)
EXTENDS Naturals, FiniteSets, PosixJob

CONSTANTS
  MaxJobs,    \* bound: ids handed out before the queue empties
  MaxCrashes, \* bound: crashes of the daemon
  MaxClients  \* bound: connected clients

ASSUME MaxJobsAssumption == MaxJobs \in Nat
ASSUME MaxCrashesAssumption == MaxCrashes \in Nat
ASSUME MaxClientsAssumption == MaxClients \in Nat

Id == 0 .. MaxJobs - 1

(* mPausedList is a pointer to a list of pointers to jobs.  The            *)
(* constructor does not initialise it.                                     *)
Pointers == {"uninit", "null", "list"}
PausedList == [ptr : Pointers, jobs : SUBSET Id]

ListOf(ids) == [ptr |-> "list", jobs |-> ids]
NoList(p) == [ptr |-> p, jobs |-> {}]

VARIABLES
  up,          \* the daemon is running
  clients,     \* number of connected clients (mNumFds - 1)
  queue,       \* ids of the jobs in mJobQueue
  job,         \* the Job objects; that of a removed job is freed memory
  nextId,      \* Job::nextId
  mActive,     \* false between COMMAND_PAUSE_ALL and COMMAND_RESUME_ALL
  mPausedList, \* the jobs COMMAND_PAUSE_ALL paused; a list of pointers
  diskQueue,   \* queue.dat: the ids of the saved jobs
  diskStatus,  \* queue.dat: the saved status of each
  diskNextId,  \* queue.dat: the saved next id
  orphans,     \* ids whose processes outlived the daemon that forked them
  crashes      \* crashes so far

mem == <<queue, job, nextId, mActive, mPausedList>>
disk == <<diskQueue, diskStatus, diskNextId>>
vars == <<up, clients, mem, disk, orphans, crashes>>

(* The canonical content of memory that holds no job. *)
NoJob == [mStatus |-> "CANCELED", mPausedStatus |-> "NONE", proc |-> "none"]

TypeOK ==
  /\ up \in BOOLEAN
  /\ clients \in 0 .. MaxClients
  /\ queue \subseteq Id
  /\ job \in [Id -> Job]
  /\ nextId \in 0 .. MaxJobs
  /\ mActive \in BOOLEAN
  /\ mPausedList \in PausedList
  /\ diskQueue \subseteq Id
  /\ diskStatus \in [Id -> Statuses \cup {"NONE"}]
  /\ diskNextId \in 0 .. MaxJobs
  /\ orphans \subseteq Id
  /\ crashes \in 0 .. MaxCrashes

Init ==
  /\ up = FALSE
  /\ clients = 0
  /\ queue = {}
  /\ job = [i \in Id |-> NoJob]
  /\ nextId = 0
  /\ mActive = TRUE
  /\ mPausedList = NoList("uninit")
  /\ diskQueue = {}
  /\ diskStatus = [i \in Id |-> "NONE"]
  /\ diskNextId = 0
  /\ orphans = {}
  /\ crashes = 0

-----------------------------------------------------------------------------
(* Helpers of the handlers.                                                *)

HasStatus(q, jb, st) == {i \in q : jb[i].mStatus = st}

(* SaveQueue writes the ids and statuses of the queue, and 0 for the next  *)
(* id of an empty queue.                                                   *)
SaveQueue(q, jb, nid) ==
  /\ diskQueue' = q
  /\ diskStatus' = [i \in Id |-> IF i \in q THEN jb[i].mStatus ELSE "NONE"]
  /\ diskNextId' = IF q = {} THEN 0 ELSE nid

(* The daemon process is gone.  Groups that were running go on as orphans; *)
(* the kernel kills the stopped ones (SIGHUP, SIGCONT to an orphaned       *)
(* process group with stopped members).                                    *)
DaemonGone ==
  /\ up' = FALSE
  /\ clients' = 0
  /\ orphans' = orphans \cup
       {i \in Id : job[i].proc \in {"forked", "running", "dying"}}
  /\ queue' = {}
  /\ job' = [i \in Id |-> NoJob]
  /\ nextId' = 0
  /\ mActive' = TRUE
  /\ mPausedList' = NoList("uninit")

CrashCounted == crashes < MaxCrashes /\ crashes' = crashes + 1

-----------------------------------------------------------------------------
(* The clients' connections.  Only their number matters to the queue.      *)

Connect ==
  /\ up /\ clients < MaxClients
  /\ clients' = clients + 1
  /\ UNCHANGED <<up, mem, disk, orphans, crashes>>

Disconnect_Twice ==
  /\ up /\ clients > 0
  /\ \E n \in {1, 2} : clients' = clients - n
  /\ UNCHANGED <<up, mem, disk, orphans, crashes>>
Disconnect ==
  /\ up /\ clients > 0
  /\ clients' = clients - 1
  /\ UNCHANGED <<up, mem, disk, orphans, crashes>>

(* What is common to the handlers of OnExecute: a connected client sent    *)
(* the command, and the queue is saved whatever the command did.           *)
Command ==
  /\ up /\ clients > 0
  /\ SaveQueue(queue', job', nextId')
  /\ UNCHANGED <<up, clients, orphans>>

-----------------------------------------------------------------------------
(* The commands of OnExecute.                                              *)

Add_Unsaved ==
  /\ nextId < MaxJobs
  /\ \E copied \in BOOLEAN :
       job' = [job EXCEPT ![nextId] = NewJob(copied)]
  /\ queue' = queue \cup {nextId}
  /\ nextId' = nextId + 1
  /\ UNCHANGED <<mActive, mPausedList, crashes>>
  /\ up /\ clients > 0
  /\ UNCHANGED <<up, clients, orphans, disk>>
Add ==
  /\ nextId < MaxJobs
  /\ \E copied \in BOOLEAN :
       job' = [job EXCEPT ![nextId] = NewJob(copied)]
  /\ queue' = queue \cup {nextId}
  /\ nextId' = nextId + 1
  /\ UNCHANGED <<mActive, mPausedList, crashes>>
  /\ Command

(* The job leaves the list, is cleared (cancelled, and its files deleted)  *)
(* and freed.  mPausedList may still point at it.                          *)
Remove(i) ==
  /\ i \in queue
  /\ queue' = queue \ {i}
  /\ job' = [job EXCEPT ![i] = CancelJob(@)]
  /\ UNCHANGED <<nextId, mActive, mPausedList, crashes>>
  /\ Command

(* Pause and Resume of one job are refused while the queue is inactive.    *)
Pause(i) ==
  /\ i \in queue
  /\ job' = IF mActive THEN [job EXCEPT ![i] = PauseJob(@)] ELSE job
  /\ UNCHANGED <<queue, nextId, mActive, mPausedList, crashes>>
  /\ Command

Resume(i) ==
  /\ i \in queue
  /\ job' = IF mActive THEN [job EXCEPT ![i] = ResumeJob(@)] ELSE job
  /\ UNCHANGED <<queue, nextId, mActive, mPausedList, crashes>>
  /\ Command

Cancel(i) ==
  /\ i \in queue
  /\ job' = [job EXCEPT ![i] = CancelJob(@)]
  /\ UNCHANGED <<queue, nextId, mActive, mPausedList, crashes>>
  /\ Command

(* SET_NAME, SAVE, SPOOLDIR, GAMESSDIR, and any command that names no job  *)
(* of the queue: they leave the statuses alone, but the queue is saved.    *)
OtherCommand ==
  /\ UNCHANGED <<mem, crashes>>
  /\ Command

PauseAll_OnlyPaused ==
  /\ IF mActive
     THEN LET running == HasStatus(queue, job, "RUNNING") IN
          /\ mActive' = FALSE
          /\ mPausedList' = ListOf({i \in running : PauseJob(job[i]).mStatus = "PAUSED"})
          /\ job' = [i \in Id |-> IF i \in running THEN PauseJob(job[i])
                                  ELSE job[i]]
     ELSE UNCHANGED <<mActive, mPausedList, job>>
  /\ UNCHANGED <<queue, nextId, crashes>>
  /\ Command
PauseAll ==
  /\ IF mActive
     THEN LET running == HasStatus(queue, job, "RUNNING") IN
          /\ mActive' = FALSE
          /\ mPausedList' = ListOf(running)
          /\ job' = [i \in Id |-> IF i \in running THEN PauseJob(job[i])
                                  ELSE job[i]]
     ELSE UNCHANGED <<mActive, mPausedList, job>>
  /\ UNCHANGED <<queue, nextId, crashes>>
  /\ Command

(* Resumes every job of mPausedList.  The entries of removed jobs point at *)
(* freed memory: calling Resume through one acts on what is left of the    *)
(* job, does nothing, or crashes the daemon (ResumeAllFault).              *)
ResumeAll_FirstOnly ==
  /\ IF ~mActive /\ mPausedList.ptr # "null"
     THEN \E stale \in SUBSET (mPausedList.jobs \ queue) :
            LET resumed == (mPausedList.jobs \cap queue) \cup stale IN
            /\ mActive' = TRUE
            /\ mPausedList' = NoList("null")
            /\ job' = [i \in Id |->
                         IF i \in resumed /\ \A k \in resumed : i <= k
                         THEN ResumeJob(job[i])
                         ELSE job[i]]
     ELSE UNCHANGED <<mActive, mPausedList, job>>
  /\ UNCHANGED <<queue, nextId, crashes>>
  /\ Command
ResumeAll ==
  /\ IF ~mActive /\ mPausedList.ptr # "null"
     THEN \E stale \in SUBSET (mPausedList.jobs \ queue) :
            /\ mActive' = TRUE
            /\ mPausedList' = NoList("null")
            /\ job' = [i \in Id |->
                         IF i \in (mPausedList.jobs \cap queue) \cup stale
                         THEN ResumeJob(job[i])
                         ELSE job[i]]
     ELSE UNCHANGED <<mActive, mPausedList, job>>
  /\ UNCHANGED <<queue, nextId, crashes>>
  /\ Command

ResumeAllFault ==
  /\ up /\ clients > 0
  /\ ~mActive /\ mPausedList.ptr # "null"
  /\ mPausedList.jobs \ queue # {}
  /\ DaemonGone
  /\ CrashCounted
  /\ UNCHANGED disk

Clear ==
  /\ LET gone == {i \in queue : job[i].mStatus \in Finished} IN
     /\ queue' = queue \ gone
     /\ job' = [i \in Id |-> IF i \in gone THEN CancelJob(job[i]) ELSE job[i]]
  /\ UNCHANGED <<nextId, mActive, mPausedList, crashes>>
  /\ Command

-----------------------------------------------------------------------------
(***************************************************************************)
(* CheckQueue, and what the poll loop does with its result: when it is     *)
(* FALSE and no client is connected the daemon leaves the loop and exits.  *)
(*                                                                         *)
(* The first loop refreshes the jobs in order and returns at the first one *)
(* that is RUNNING after its refresh: the later ones are not refreshed and *)
(* nothing is saved.                                                       *)
(***************************************************************************)
Visited(q, jb) ==
  {i \in q : \A k \in q : k < i => RefreshJob(jb[k]).mStatus # "RUNNING"}

AfterRefresh(q, jb) ==
  [i \in Id |-> IF i \in Visited(q, jb) THEN RefreshJob(jb[i]) ELSE jb[i]]

(* mActive is false: "return true" before anything is looked at.           *)
CheckInactive ==
  /\ up /\ ~mActive
  /\ UNCHANGED vars

CheckRunning ==
  /\ up /\ mActive
  /\ job' = AfterRefresh(queue, job)
  /\ HasStatus(Visited(queue, job), job', "RUNNING") # {}
  /\ UNCHANGED <<up, clients, queue, nextId, mActive, mPausedList, disk,
                 orphans, crashes>>

(* Nothing runs: the first pending job is started, whether it has a        *)
(* process then or not, and the queue is saved.                            *)
CheckStart_AnyPending ==
  /\ up /\ mActive
  /\ LET jr == AfterRefresh(queue, job)
         pending == HasStatus(queue, jr, "PENDING")
     IN /\ \E i \in pending :
             \E started \in StartJob(jr[i]) : job' = [jr EXCEPT ![i] = started]
  /\ SaveQueue(queue, job', nextId)
  /\ UNCHANGED <<up, clients, queue, nextId, mActive, mPausedList,
                 orphans, crashes>>
CheckStart_HeadOnly ==
  /\ up /\ mActive
  /\ LET jr == AfterRefresh(queue, job)
         pending == HasStatus(queue, jr, "PENDING")
     IN /\ HasStatus(Visited(queue, job), jr, "RUNNING") = {}
        /\ \E i \in pending :
             /\ \A k \in queue : i <= k
             /\ \E started \in StartJob(jr[i]) :
                  job' = [jr EXCEPT ![i] = started]
  /\ SaveQueue(queue, job', nextId)
  /\ UNCHANGED <<up, clients, queue, nextId, mActive, mPausedList,
                 orphans, crashes>>
CheckStart ==
  /\ up /\ mActive
  /\ LET jr == AfterRefresh(queue, job)
         pending == HasStatus(queue, jr, "PENDING")
     IN /\ HasStatus(Visited(queue, job), jr, "RUNNING") = {}
        /\ \E i \in pending :
             /\ \A k \in pending : i <= k
             /\ \E started \in StartJob(jr[i]) :
                  job' = [jr EXCEPT ![i] = started]
  /\ SaveQueue(queue, job', nextId)
  /\ UNCHANGED <<up, clients, queue, nextId, mActive, mPausedList,
                 orphans, crashes>>

(* Nothing runs and nothing waits.  The result is TRUE if a job is paused. *)
NothingToDo(jr) ==
  /\ HasStatus(Visited(queue, job), jr, "RUNNING") = {}
  /\ HasStatus(queue, jr, "PENDING") = {}

CheckIdle_Unsaved ==
  /\ up /\ mActive
  /\ job' = AfterRefresh(queue, job)
  /\ NothingToDo(job')
  /\ HasStatus(queue, job', "PAUSED") # {} \/ clients > 0
  /\ UNCHANGED <<up, clients, queue, nextId, mActive, mPausedList, disk,
                 orphans, crashes>>
CheckIdle ==
  /\ up /\ mActive
  /\ job' = AfterRefresh(queue, job)
  /\ NothingToDo(job')
  /\ HasStatus(queue, job', "PAUSED") # {} \/ clients > 0
  /\ SaveQueue(queue, job', nextId)
  /\ UNCHANGED <<up, clients, queue, nextId, mActive, mPausedList,
                 orphans, crashes>>

Quit_ForgetsPaused ==
  /\ up /\ mActive /\ clients = 0
  /\ LET jr == AfterRefresh(queue, job) IN
     /\ NothingToDo(jr)
     /\ SaveQueue(queue, jr, nextId)
  /\ DaemonGone
  /\ UNCHANGED crashes
Quit ==
  /\ up /\ mActive /\ clients = 0
  /\ LET jr == AfterRefresh(queue, job) IN
     /\ NothingToDo(jr)
     /\ HasStatus(queue, jr, "PAUSED") = {}
     /\ SaveQueue(queue, jr, nextId)
  /\ DaemonGone
  /\ UNCHANGED crashes

CheckQueue == CheckInactive \/ CheckRunning \/ CheckStart \/ CheckIdle \/ Quit

-----------------------------------------------------------------------------
(* The daemon is killed, or the machine fails; a client starts it again    *)
(* and the constructor loads the queue file.                               *)

Crash ==
  /\ up
  /\ DaemonGone
  /\ CrashCounted
  /\ UNCHANGED disk

Boot ==
  /\ ~up
  /\ up' = TRUE
  /\ queue' = diskQueue
  /\ job' = [i \in Id |-> IF i \in diskQueue THEN LoadedJob(diskStatus[i])
                          ELSE NoJob]
  /\ nextId' = diskNextId
  /\ mActive' = TRUE
  /\ mPausedList' = NoList("uninit")
  /\ UNCHANGED <<clients, disk, orphans, crashes>>

-----------------------------------------------------------------------------
(* The processes.  They belong to the daemon's jobs whether the job is     *)
(* still in the queue or not.                                              *)

ProcessStep(i, from, to) ==
  /\ up
  /\ job[i].proc \in from
  /\ \E p \in to : job' = [job EXCEPT ![i].proc = p]
  /\ UNCHANGED <<up, clients, queue, nextId, mActive, mPausedList, disk,
                 orphans, crashes>>

(* The child calls setpgid and execs gms; exit(1) if execl fails.          *)
Exec(i) == ProcessStep(i, {"forked"}, {"running", "exitedErr"})

(* GAMESS ends: normally, or with an error.                                *)
Exit(i) == ProcessStep(i, {"running"}, {"exitedOk", "exitedErr"})

(* SIGINT takes effect.                                                    *)
Die(i) == ProcessStep(i, {"dying"}, {"exitedErr"})

(* A suspended group can only end by a signal from outside the program.    *)
Killed(i) == ProcessStep(i, {"stopped", "stoppedDying"}, {"exitedErr"})

(* A group that outlived its daemon ends; nobody is told.                  *)
OrphanExit(i) ==
  /\ i \in orphans
  /\ orphans' = orphans \ {i}
  /\ UNCHANGED <<up, clients, mem, disk, crashes>>

-----------------------------------------------------------------------------
Handlers ==
  \/ Add \/ OtherCommand \/ PauseAll \/ ResumeAll \/ Clear
  \/ \E i \in Id : Remove(i) \/ Pause(i) \/ Resume(i) \/ Cancel(i)

Processes == \E i \in Id : Exec(i) \/ Exit(i) \/ Die(i) \/ Killed(i)
                           \/ OrphanExit(i)

Next ==
  \/ Connect \/ Disconnect
  \/ Handlers \/ ResumeAllFault
  \/ CheckQueue
  \/ Crash \/ Boot
  \/ Processes

Spec == Init /\ [][Next]_vars

(***************************************************************************)
(* Fairness.  poll times out every 500 ms when no client is active, so     *)
(* CheckQueue is called again and again; an exec happens and a signal that *)
(* was delivered acts.  A GAMESS run ends if it runs often enough, however *)
(* often it is suspended on the way (SF).                                  *)
(***************************************************************************)
Fairness ==
  /\ WF_vars(CheckQueue)
  /\ \A i \in Id : WF_vars(Exec(i)) /\ SF_vars(Exit(i)) /\ WF_vars(Die(i))

FairSpec == Spec /\ Fairness

-----------------------------------------------------------------------------
(* Safety.  The first four lift the invariant of one job (PosixJob) to     *)
(* every job, those a client removed included.                             *)

(* No daemon launches a job twice: what is pending, or would be pending    *)
(* again after a resume, was never forked.                                 *)
EachLaunchedOnce == \A i \in Id : LaunchedOnce(job[i])

(* No job waits for a process that is gone: a job whose process was waited *)
(* for is finished, so it cannot block the queue or keep the daemon alive. *)
NoGhostJob == \A i \in Id : NoGhost(job[i])

(* A process the daemon suspended can always be continued by its job, also *)
(* when other commands, PAUSE_ALL or the end of the process came between.  *)
EachSuspendedIsResumable == \A i \in Id : SuspendedIsResumable(job[i])

(* No process is left behind a job shown as done or failed.                *)
EachFinishedHasNoProcess == \A i \in Id : FinishedHasNoProcess(job[i])

(* The id the next job gets is fresh, in memory and after a reload of the  *)
(* saved queue, and nothing, the process of a removed job included, uses   *)
(* it: the list stays sorted by id and a command names one job (getJob).   *)
Fresh(n, q) == \A i \in q : i < n
NextIdFresh ==
  /\ Fresh(nextId, queue)
  /\ Fresh(diskNextId, diskQueue)
  /\ \A i \in Id : i >= nextId => job[i] = NoJob

(* While the queue is inactive, a job that still runs although PAUSE_ALL   *)
(* meant to suspend it is on mPausedList, and mPausedList is a list:       *)
(* RESUME_ALL never reads the pointer the constructor left uninitialised,  *)
(* and its null test "should never actually happen" (gamessqd.cpp:305).    *)
PausedListComplete ==
  up /\ ~mActive =>
    /\ mPausedList.ptr = "list"
    /\ HasStatus(queue, job, "RUNNING") \subseteq mPausedList.jobs

(* A crash loses no job and brings none back: between two handlers the     *)
(* queue file has the jobs of the queue, and a fresh next id.              *)
DiskHasQueue ==
  up => diskQueue = queue /\ (queue # {} => diskNextId = nextId)

(* A restart brings every job back as it was, a running or paused one as   *)
(* pending, with one exception: while a job runs, CheckQueue returns       *)
(* without saving the ends of jobs it has just noticed.                    *)
Behind(saved, now) ==
  \/ Reload(saved) = "PENDING" /\ now \in {"DONE", "ERROR"}
  \/ saved = "CANCELED" /\ now = "DONE"

RestartKeepsStatus ==
  up => \A i \in queue :
          Reload(diskStatus[i]) # Reload(job[i].mStatus) =>
            /\ Behind(diskStatus[i], job[i].mStatus)
            /\ HasStatus(queue, job, "RUNNING") # {}

-----------------------------------------------------------------------------
(* Action properties: what no step may do.                                 *)

(* A job is launched only when every earlier job of the queue is past its  *)
(* turn and no other job of the queue is shown as running: first come,     *)
(* first served, one at a time.                                            *)
LaunchIsFifo ==
  [][\A i \in Id :
       job[i].proc = "none" /\ job'[i].proc = "forked" =>
         /\ i \in queue /\ mActive
         /\ \A k \in queue \ {i} :
              /\ job'[k].mStatus # "RUNNING"
              /\ k < i => job'[k].mStatus # "PENDING"]_vars

(* RESUME_ALL gives back what PAUSE_ALL suspended: no process on the list  *)
(* stays suspended (gamessqd.h:74-80), and jobs that were paused one by    *)
(* one before stay as they were.                                           *)
ResumeAllRestores ==
  [][up /\ up' /\ ~mActive /\ mActive' =>
       /\ \A i \in queue \cap mPausedList.jobs :
            job[i].mStatus = "PAUSED" => job'[i].proc # "stopped"
       /\ \A i \in queue \ mPausedList.jobs : job'[i] = job[i]]_vars

(* When the daemon leaves its loop nothing is lost: every saved job is     *)
(* finished, and a process that outlives it belongs to a job that was      *)
(* cancelled or removed.                                                   *)
QuitLosesNothing ==
  [][up /\ ~up' /\ crashes' = crashes =>
       /\ \A i \in diskQueue' : diskStatus'[i] \in Finished
       /\ \A i \in orphans' \ orphans :
            i \in queue => job[i].mStatus = "CANCELED"]_vars

(* A result that was saved stays: not a resume, a reload nor a crash makes *)
(* a job that was saved as done or failed run again.                       *)
SavedResultIsFinal ==
  [][\A i \in diskQueue \cap diskQueue' :
       diskStatus[i] \in {"DONE", "ERROR"} =>
         diskStatus'[i] \in {"DONE", "ERROR", "CANCELED"}]_vars

-----------------------------------------------------------------------------
(* Liveness, under FairSpec.                                               *)

(* If the daemon stays up and active, a pending job is started in its      *)
(* turn, or a client pauses, cancels or removes it.  A job whose fork      *)
(* failed blocks the queue for ever, so there must be none.                *)
LostRun ==
  \E i \in queue : job[i].mStatus = "RUNNING" /\ job[i].proc = "none"
Waiting(i) == up /\ i \in queue /\ job[i].mStatus = "PENDING"
PendingIsServed ==
  <>[](up /\ mActive /\ ~LostRun) => \A i \in Id : Waiting(i) ~> ~Waiting(i)
=============================================================================
