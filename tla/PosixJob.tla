------------------------------ MODULE PosixJob ------------------------------
(***************************************************************************)
(* One job of the queue and the process group that runs it: class Job      *)
(* (job.h, job.cpp) with the POSIX implementation PosixJob                 *)
(* (posix_job.cpp).  The module has no variables.  A job is a record       *)
(*   mStatus        Job::mStatus                                           *)
(*   mPausedStatus  Job::mPausedStatus, "NONE" for STATUS_NONE             *)
(*   proc           mPid together with the state of the process group it   *)
(*                  names                                                  *)
(* and each method is an operator from the record before the call to the   *)
(* record after it; Start, whose outcome the environment chooses, is the   *)
(* set of records it can leave.                                            *)
(***************************************************************************)
CONSTANTS
  ZombiesTakeSignals, \* kill() on a group whose only member is an unreaped
                      \* zombie returns 0 (Linux) or fails (macOS)
  ForkMayFail         \* fork() in Start can return -1

ASSUME ZombiesAssumption == ZombiesTakeSignals \in BOOLEAN
ASSUME ForkAssumption == ForkMayFail \in BOOLEAN

Statuses == {"ERROR", "PENDING", "PAUSED", "RUNNING", "DONE", "CANCELED"}

(* The statuses COMMAND_CLEAR takes for finished. *)
Finished == {"ERROR", "DONE", "CANCELED"}

(***************************************************************************)
(* The process group of a job.                                             *)
(*   none          never forked (mPid = -1)                                *)
(*   forked        fork() returned in the daemon; the child has not called *)
(*                 setpgid(0, 0) yet, so no group -mPid exists             *)
(*   running       the group runs                                          *)
(*   stopped       every member is stopped by SIGSTOP                      *)
(*   dying         SIGINT was delivered, the group is terminating          *)
(*   stoppedDying  stopped with a SIGINT pending: it acts after SIGCONT    *)
(*   exitedOk,     zombie with exit status 0 / another status, not yet     *)
(*   exitedErr     waited for                                              *)
(*   reaped        waited for: mPid names nothing any more                 *)
(***************************************************************************)
Zombies == {"exitedOk", "exitedErr"}
LiveGroups == {"running", "stopped", "dying", "stoppedDying"}
ProcStates == {"none", "forked", "reaped"} \cup Zombies \cup LiveGroups

Job == [mStatus : Statuses,
        mPausedStatus : Statuses \cup {"NONE"},
        proc : ProcStates]

-----------------------------------------------------------------------------
(* kill(-mPid, sig): whether it returns 0, and what the group does.        *)

KillSucceeds(p) ==
  p \in LiveGroups \/ (ZombiesTakeSignals /\ p \in Zombies)

Sigint(p) ==
  CASE p = "running" -> "dying"
    [] p = "stopped" -> "stoppedDying"
    [] OTHER -> p

Sigstop(p) == IF p = "running" THEN "stopped" ELSE p

Sigcont(p) ==
  CASE p = "stopped" -> "running"
    [] p = "stoppedDying" -> "dying"
    [] OTHER -> p

-----------------------------------------------------------------------------
(* Constructors.  A new job is an error at once if its input file could    *)
(* not be copied.  LoadedJob is the job LoadQueue makes of a saved status. *)

NewJob(copied) ==
  [mStatus |-> IF copied THEN "PENDING" ELSE "ERROR",
   mPausedStatus |-> "NONE",
   proc |-> "none"]

Reload(st) == IF st \in {"RUNNING", "PAUSED"} THEN "PENDING" ELSE st

LoadedJob(st) ==
  [mStatus |-> Reload(st), mPausedStatus |-> "NONE", proc |-> "none"]

(* The methods of PosixJob.                                                *)

StartJob(j) ==
  {[j EXCEPT !.mStatus = "ERROR"],                        \* no gms script
   [j EXCEPT !.mStatus = "RUNNING", !.proc = "forked"]}
  \cup {x \in {[j EXCEPT !.mStatus = "RUNNING"]} : ForkMayFail}

CancelJob(j) == [j EXCEPT !.mStatus = "CANCELED", !.proc = Sigint(@)]

PauseJob_Swapped(j) ==
  CASE j.mStatus = "RUNNING" /\ KillSucceeds(j.proc) ->
         [mStatus |-> "PAUSED", mPausedStatus |-> "PAUSED",
          proc |-> Sigstop(j.proc)]
    [] j.mStatus = "PENDING" ->
         [j EXCEPT !.mPausedStatus = "PENDING", !.mStatus = "PAUSED"]
    [] OTHER -> j
PauseJob(j) ==
  CASE j.mStatus = "RUNNING" /\ KillSucceeds(j.proc) ->
         [mStatus |-> "PAUSED", mPausedStatus |-> "RUNNING",
          proc |-> Sigstop(j.proc)]
    [] j.mStatus = "PENDING" ->
         [j EXCEPT !.mPausedStatus = "PENDING", !.mStatus = "PAUSED"]
    [] OTHER -> j

ResumeJob_ToPending(j) ==
  CASE j.mPausedStatus = "RUNNING" /\ KillSucceeds(j.proc) ->
         [mStatus |-> "PENDING", mPausedStatus |-> "NONE",
          proc |-> Sigcont(j.proc)]
    [] j.mPausedStatus = "PENDING" ->
         [j EXCEPT !.mStatus = "PENDING", !.mPausedStatus = "NONE"]
    [] OTHER -> j
ResumeJob_Unchecked(j) ==
  IF j.mPausedStatus = "NONE"
  THEN j
  ELSE [mStatus |-> j.mPausedStatus, mPausedStatus |-> "NONE",
        proc |-> Sigcont(j.proc)]
ResumeJob(j) ==
  CASE j.mPausedStatus = "RUNNING" /\ KillSucceeds(j.proc) ->
         [mStatus |-> "RUNNING", mPausedStatus |-> "NONE",
          proc |-> Sigcont(j.proc)]
    [] j.mPausedStatus = "PENDING" ->
         [j EXCEPT !.mStatus = "PENDING", !.mPausedStatus = "NONE"]
    [] OTHER -> j

(* waitpid(mPid, &status, WNOHANG) reports an exited child once; a child   *)
(* that is only stopped is not reported.                                   *)
RefreshJob_RunningOnly(j) ==
  LET set(st) == IF j.mStatus = "RUNNING" THEN st ELSE j.mStatus IN
  CASE j.proc = "exitedOk" ->
         [j EXCEPT !.mStatus = set("DONE"), !.proc = "reaped"]
    [] j.proc = "exitedErr" ->
         [j EXCEPT !.mStatus = set("ERROR"), !.proc = "reaped"]
    [] OTHER -> j
RefreshJob(j) ==
  CASE j.proc = "exitedOk" ->
         [j EXCEPT !.mStatus = "DONE", !.proc = "reaped"]
    [] j.proc = "exitedErr" ->
         [j EXCEPT !.mStatus = IF @ = "CANCELED" THEN @ ELSE "ERROR",
                   !.proc = "reaped"]
    [] OTHER -> j

-----------------------------------------------------------------------------
(***************************************************************************)
(* What every job of the daemon satisfies, whatever was called on it and   *)
(* whatever its processes did: the invariant of one job.                   *)
(***************************************************************************)

(* A job that is going to be started, now or after a resume, has never     *)
(* been forked: no job is launched twice by one daemon (Start, CheckQueue).*)
LaunchedOnce(j) ==
  j.mStatus = "PENDING" \/ j.mPausedStatus = "PENDING" => j.proc = "none"

(* A job whose process is gone and waited for is reported as finished: a   *)
(* job never shows as running or paused, blocking the queue for ever, when *)
(* nothing is left that could finish (Refresh, Pause, Resume).             *)
NoGhost(j) == j.proc = "reaped" => j.mStatus \in Finished

(* A suspended process belongs to a job that Resume continues: Pause never *)
(* stops a process and then loses the way back (Pause, Resume).            *)
SuspendedIsResumable(j) ==
  j.proc = "stopped" =>
    j.mStatus = "PAUSED" /\ ResumeJob(j).proc = "running"

(* A job reported as done or failed has no process left (Refresh, Start).  *)
FinishedHasNoProcess(j) ==
  j.mStatus \in {"DONE", "ERROR"} => j.proc \in {"none", "reaped"}

(* The remaining facts the four above rest on.                             *)
PauseState(j) ==
  /\ j.mPausedStatus \in {"NONE", "PENDING", "RUNNING"}
  /\ j.mStatus = "PAUSED" => j.mPausedStatus # "NONE"
  /\ j.mStatus \in {"PENDING", "RUNNING"} => j.mPausedStatus = "NONE"
  /\ j.mPausedStatus = "PENDING" => j.mStatus \in {"PAUSED", "CANCELED"}
  /\ j.mPausedStatus = "RUNNING" => j.proc \notin {"none", "forked"}
  /\ j.mStatus = "RUNNING" /\ j.proc = "none" => ForkMayFail
  /\ j.proc = "stoppedDying" => j.mStatus = "CANCELED"

JobInv(j) ==
  /\ LaunchedOnce(j)
  /\ NoGhost(j)
  /\ SuspendedIsResumable(j)
  /\ FinishedHasNoProcess(j)
  /\ PauseState(j)
=============================================================================
