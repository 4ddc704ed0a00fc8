--------------------------- MODULE WindowsDaemon ---------------------------
(***************************************************************************)
(* The daemon on Windows (gamessqd_windows.cpp): one thread with an event  *)
(* loop.  A timer calls CheckQueue once a second, commands arrive between  *)
(* two of its events, and "Exit" in the menu of the tray icon ends it.     *)
(* Whether to ask first is decided by mRunningJobs, which only the timer   *)
(* sets.  While the user is asked, the dialog's event loop goes on serving *)
(* timer and commands.  What the processes do once the daemon is gone is   *)
(* left out.                                                               *)
(*                                                                         *)
(* A larger job number stands behind a smaller one in the queue.           *)
(***************************************************************************)
EXTENDS WindowsJob

VARIABLES
  app,          \* "up", "asking", which is up too, "gone" or "crashed"
  mActive,
  mPausedList,  \* the jobs PAUSE_ALL paused
  batch,        \* PAUSE_ALL, RESUME_ALL: jobs still to pause or resume
  mRunningJobs, \* what CheckQueue returned last
  checking,     \* CheckQueue is at work
  unvisited,    \* CheckQueue: jobs still to refresh
  retVal        \* CheckQueue: retVal

check == <<checking, unvisited, retVal>>
pausing == <<mActive, mPausedList, batch>>
daemonVars == <<vars, app, pausing, mRunningJobs, check>>

(* OnInit: the queue is loaded, with its jobs pending, finished ones left  *)
(* out.                                                                    *)
DaemonInit ==
  /\ Init
  /\ app = "up"
  /\ mActive = TRUE /\ mPausedList = {} /\ batch = {}
  /\ mRunningJobs = FALSE
  /\ checking = FALSE /\ unvisited = {} /\ retVal = FALSE

(* The event loop is free. *)
Up == app \in {"up", "asking"}
Free == Up /\ ~checking /\ batch = {} /\ op = "none"

-----------------------------------------------------------------------------
(* OnTimer: CheckQueue, refresh by refresh, while processes go on.         *)

OnTimer ==
  /\ Free
  /\ checking' = mActive
  /\ unvisited' = IF mActive THEN queue ELSE {}
  /\ mRunningJobs' = (mRunningJobs \/ ~mActive)
  /\ UNCHANGED <<vars, app, pausing, retVal>>

EndCheck(result) ==
  /\ mRunningJobs' = result
  /\ checking' = FALSE /\ unvisited' = {} /\ retVal' = FALSE
  /\ UNCHANGED <<app, pausing>>

Front(js) == {j \in js : \A k \in js : j <= k}

RefreshNext_ForgetsPaused ==
  \E j \in Front(unvisited) :
    /\ Refresh(j) \/ (~HasEnded(j) /\ UNCHANGED vars)
    /\ IF mStatus'[j] = "RUNNING"
       THEN EndCheck(TRUE)
       ELSE /\ unvisited' = unvisited \ {j}
            /\ UNCHANGED <<app, pausing, mRunningJobs, checking, retVal>>
RefreshNext ==
  \E j \in Front(unvisited) :
    /\ Refresh(j) \/ (~HasEnded(j) /\ UNCHANGED vars)
    /\ IF mStatus'[j] = "RUNNING"
       THEN EndCheck(TRUE)
       ELSE /\ unvisited' = unvisited \ {j}
            /\ retVal' = (retVal \/ mStatus'[j] = "PAUSED")
            /\ UNCHANGED <<app, pausing, mRunningJobs, checking>>

Pending == {j \in queue : mStatus[j] = "PENDING"}

StartNext ==
  /\ checking /\ unvisited = {}
  /\ \E j \in Front(Pending) : Start(j) \/ StartFails(j)
  /\ EndCheck(TRUE)

NothingToStart ==
  /\ checking /\ unvisited = {} /\ Pending = {}
  /\ EndCheck(retVal)
  /\ UNCHANGED vars

CheckQueue == RefreshNext \/ StartNext \/ NothingToStart

-----------------------------------------------------------------------------
(* ServerConn::OnExec: the commands of the front ends.                     *)

Add(j) ==
  /\ j \in Jobs \ queue
  /\ mStatus[j] = "PENDING" /\ mPausedStatus[j] = "NONE"
  /\ \A k \in queue : k < j
  /\ queue' = queue \cup {j}
  /\ UNCHANGED <<jobVars, object, processes, history, iteration>>

OnExec ==
  /\ Free
  /\ \E j \in Jobs : Add(j) \/ Command(j)
  /\ UNCHANGED <<app, pausing, mRunningJobs, check>>

PauseAll ==
  /\ Free /\ mActive
  /\ mActive' = FALSE
  /\ mPausedList' = {j \in queue : mStatus[j] = "RUNNING"}
  /\ batch' = mPausedList'
  /\ UNCHANGED <<vars, app, mRunningJobs, check>>

(* Jobs on the list may have been freed since.                             *)
ResumeAll ==
  /\ Free /\ ~mActive
  /\ mActive' = TRUE /\ mPausedList' = {}
  /\ batch' = mPausedList \cap queue
  /\ app' \in {app} \cup {a \in {"crashed"} : ~(mPausedList \subseteq queue)}
  /\ UNCHANGED <<vars, mRunningJobs, check>>

(* Their calls of Pause and Resume, which may have nothing to do or fail.  *)
NextOfBatch ==
  /\ Up /\ op = "none"
  /\ \E j \in Front(batch) :
       /\ batch' = batch \ {j}
       /\ CASE ~mActive -> PauseRunning(j) \/ UNCHANGED vars
            [] mPausedStatus[j] = "PENDING" -> ResumePending(j)
            [] OTHER -> ResumeRunning(j) \/ UNCHANGED vars
  /\ UNCHANGED <<app, mActive, mPausedList, mRunningJobs, check>>

(* OnExitEvent, and the answer to its question.                            *)
OnExitEvent ==
  /\ Free /\ app = "up"
  /\ app' = IF mRunningJobs THEN "asking" ELSE "gone"
  /\ UNCHANGED <<vars, pausing, mRunningJobs, check>>

Answer ==
  /\ Free /\ app = "asking"
  /\ app' \in {"up", "gone"}
  /\ UNCHANGED <<vars, pausing, mRunningJobs, check>>

-----------------------------------------------------------------------------
DaemonNext ==
  \/ OnTimer \/ CheckQueue \/ OnExec \/ PauseAll \/ ResumeAll \/ NextOfBatch
  \/ OnExitEvent \/ Answer
  \/ Walk /\ UNCHANGED <<app, pausing, mRunningJobs, check>>
  \/ Up /\ Works /\ UNCHANGED <<app, pausing, mRunningJobs, check>>

DaemonSpec == DaemonInit /\ [][DaemonNext]_daemonVars

(* The event loop comes to the timer between the commands, and a walk over *)
(* the threads ends; nothing is owed by the user or by GAMESS.             *)
FairDaemonSpec ==
  /\ DaemonSpec
  /\ WF_daemonVars(Walk /\ UNCHANGED <<app, pausing, mRunningJobs, check>>)
  /\ WF_daemonVars(CheckQueue \/ NextOfBatch)
  /\ SF_daemonVars(OnTimer)

-----------------------------------------------------------------------------
(* Properties.                                                             *)

(* An exit nobody was asked about loses no work: although mRunningJobs is  *)
(* up to a second old, no job of the queue runs then or was paused while   *)
(* it ran, whatever calls failed; and no thread of GAMESS is left, of a    *)
(* job that ended, was cancelled or was removed, but of the jobs an        *)
(* operation missed a thread of: one that was skipped or started during    *)
(* the walk, is in no job object or belongs to a child that outlives the   *)
(* first process, or all of them where REMOVE or CLEAR freed a job whose   *)
(* walk failed.  Jobs mistaken for one another are exempt                  *)
(* (gamessqd_windows.cpp:123-133).                                         *)
UnaskedExitLosesNothing ==
  [][app = "up" /\ app' = "gone" =>
       /\ \A j \in queue \ mixed :
            /\ mStatus[j] # "RUNNING"
            /\ mStatus[j] = "PAUSED" => mPausedStatus[j] = "PENDING"
       /\ \A j \in Jobs \ (missed \cup mixed) : alive[j] = {}]_daemonVars

(* The end of a process is noticed although jobs are paused, resumed and   *)
(* cancelled all the time, unless a job before it runs on, at which        *)
(* CheckQueue stops, the queue is paused, or the job was mistaken for      *)
(* another one (gamessqd.cpp:425-441).                                     *)
EndIsNoticed ==
  \A j \in Jobs :
    j \in queue /\ mStatus[j] = "RUNNING" /\ exitCode[j] # "active"
    ~> \/ ~Up \/ ~mActive \/ j \in mixed
       \/ ~(j \in queue /\ mStatus[j] = "RUNNING")
       \/ \E k \in queue : k < j /\ mStatus[k] = "RUNNING"
=============================================================================
