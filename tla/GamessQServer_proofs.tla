----------------------- MODULE GamessQServer_proofs ------------------------
(***************************************************************************)
(* Proofs about the daemon for every number of jobs, clients and crashes,  *)
(* whether fork may fail or not and whichever way kill treats zombies.     *)
(*                                                                         *)
(* The inductive invariant is built up in layers: what each method keeps   *)
(* of one job (JobInv), the basic facts about memory and disk (Base), the  *)
(* relation between the queue and its file (OnDisk), and the list of       *)
(* COMMAND_PAUSE_ALL.  The action properties follow from it.               *)
(***************************************************************************)
EXTENDS GamessQServer, WellFoundedInduction, TLAPS

-----------------------------------------------------------------------------
(* The methods of one job.                                                 *)

(* Cancel keeps the invariant of its job.                                  *)
LEMMA CancelKeeps ==
  ASSUME NEW j \in Job, JobInv(j)
  PROVE  CancelJob(j) \in Job /\ JobInv(CancelJob(j))
  BY DEF Job, JobInv, CancelJob, Sigint, LaunchedOnce, NoGhost,
         SuspendedIsResumable, FinishedHasNoProcess, PauseState, Statuses,
         Finished, ProcStates, Zombies, LiveGroups, ResumeJob, Sigcont,
         KillSucceeds

(* Pause keeps the invariant of its job.                                   *)
LEMMA PauseKeeps ==
  ASSUME NEW j \in Job, JobInv(j)
  PROVE  PauseJob(j) \in Job /\ JobInv(PauseJob(j))
  BY ZombiesAssumption, ForkAssumption
     DEF Job, JobInv, PauseJob, Sigstop, LaunchedOnce, NoGhost,
         SuspendedIsResumable, FinishedHasNoProcess, PauseState, Statuses,
         Finished, ProcStates, Zombies, LiveGroups, ResumeJob, Sigcont,
         KillSucceeds

(* Resume keeps the invariant of its job.                                  *)
LEMMA ResumeKeeps ==
  ASSUME NEW j \in Job, JobInv(j)
  PROVE  ResumeJob(j) \in Job /\ JobInv(ResumeJob(j))
  BY ZombiesAssumption, ForkAssumption
     DEF Job, JobInv, LaunchedOnce, NoGhost, SuspendedIsResumable,
         FinishedHasNoProcess, PauseState, Statuses, Finished, ProcStates,
         Zombies, LiveGroups, ResumeJob, Sigcont, KillSucceeds

(* Refresh keeps the invariant of its job.                                 *)
LEMMA RefreshKeeps ==
  ASSUME NEW j \in Job, JobInv(j)
  PROVE  RefreshJob(j) \in Job /\ JobInv(RefreshJob(j))
  BY ZombiesAssumption, ForkAssumption
     DEF Job, JobInv, RefreshJob, LaunchedOnce, NoGhost,
         SuspendedIsResumable, FinishedHasNoProcess, PauseState, Statuses,
         Finished, ProcStates, Zombies, LiveGroups, ResumeJob, Sigcont,
         KillSucceeds

(* Start, called on a pending job, keeps the invariant of its job whatever *)
(* the outcome.                                                            *)
LEMMA StartKeeps ==
  ASSUME NEW j \in Job, JobInv(j), j.mStatus = "PENDING",
         NEW k \in StartJob(j)
  PROVE  k \in Job /\ JobInv(k)
  BY ZombiesAssumption, ForkAssumption
     DEF Job, JobInv, StartJob, LaunchedOnce, NoGhost,
         SuspendedIsResumable, FinishedHasNoProcess, PauseState, Statuses,
         Finished, ProcStates, Zombies, LiveGroups, ResumeJob, Sigcont,
         KillSucceeds

(* The constructors make jobs that satisfy the invariant.                  *)
LEMMA NewKeeps ==
  ASSUME NEW copied \in BOOLEAN
  PROVE  NewJob(copied) \in Job /\ JobInv(NewJob(copied))
  BY DEF Job, JobInv, NewJob, LaunchedOnce, NoGhost, SuspendedIsResumable,
         FinishedHasNoProcess, PauseState, Statuses, Finished, ProcStates,
         Zombies, LiveGroups

LEMMA LoadedKeeps ==
  ASSUME NEW st \in Statuses
  PROVE  LoadedJob(st) \in Job /\ JobInv(LoadedJob(st))
  BY DEF Job, JobInv, LoadedJob, Reload, LaunchedOnce, NoGhost,
         SuspendedIsResumable, FinishedHasNoProcess, PauseState, Statuses,
         Finished, ProcStates, Zombies, LiveGroups

LEMMA NoJobKeeps == NoJob \in Job /\ JobInv(NoJob)
  BY DEF Job, JobInv, NoJob, LaunchedOnce, NoGhost, SuspendedIsResumable,
         FinishedHasNoProcess, PauseState, Statuses, Finished, ProcStates,
         Zombies, LiveGroups

(* A step of the job's processes keeps the invariant.                      *)
ProcMoves == {<<"forked", "running">>, <<"forked", "exitedErr">>,
              <<"running", "exitedOk">>, <<"running", "exitedErr">>,
              <<"dying", "exitedErr">>, <<"stopped", "exitedErr">>,
              <<"stoppedDying", "exitedErr">>}

LEMMA ProcessKeeps ==
  ASSUME NEW j \in Job, JobInv(j), NEW p, <<j.proc, p>> \in ProcMoves
  PROVE  LET k == [j EXCEPT !.proc = p] IN k \in Job /\ JobInv(k)
  BY ZombiesAssumption, ForkAssumption
     DEF ProcMoves, Job, JobInv, LaunchedOnce, NoGhost, SuspendedIsResumable,
         FinishedHasNoProcess, PauseState, Statuses, Finished, ProcStates,
         Zombies, LiveGroups, ResumeJob, Sigcont, KillSucceeds

(* Refresh and Resume leave empty memory alone.                            *)
LEMMA NoJobStays == RefreshJob(NoJob) = NoJob /\ ResumeJob(NoJob) = NoJob
  BY DEF NoJob, RefreshJob, ResumeJob

-----------------------------------------------------------------------------
(* Memory and disk.                                                        *)

JobsOK == \A i \in Id : JobInv(job[i])
DiskTyped == \A i \in diskQueue : diskStatus[i] \in Statuses

Base == TypeOK /\ JobsOK /\ NextIdFresh /\ DiskTyped

(* The facts about memory that an action has to keep; the rest of Base     *)
(* follows from the way every handler saves the queue.                     *)
MemOK ==
  /\ queue \subseteq Id
  /\ job \in [Id -> Job]
  /\ nextId \in 0 .. MaxJobs
  /\ mActive \in BOOLEAN
  /\ mPausedList \in PausedList
  /\ JobsOK
  /\ Fresh(nextId, queue)
  /\ \A i \in Id : i >= nextId => job[i] = NoJob

DiskOK ==
  /\ diskQueue \subseteq Id
  /\ diskStatus \in [Id -> Statuses \cup {"NONE"}]
  /\ diskNextId \in 0 .. MaxJobs
  /\ Fresh(diskNextId, diskQueue)
  /\ DiskTyped

RestOK ==
  /\ up \in BOOLEAN
  /\ clients \in 0 .. MaxClients
  /\ orphans \subseteq Id
  /\ crashes \in 0 .. MaxCrashes

LEMMA BaseParts == Base <=> MemOK /\ DiskOK /\ RestOK
  BY DEF Base, MemOK, DiskOK, RestOK, TypeOK, NextIdFresh

(* A saved queue is well formed.                                           *)
LEMMA SaveKeeps ==
  ASSUME NEW q \in SUBSET Id, NEW jb \in [Id -> Job], NEW n \in 0 .. MaxJobs,
         Fresh(n, q), SaveQueue(q, jb, n)
  PROVE  DiskOK'
  <1>1. diskQueue' \subseteq Id /\ diskNextId' \in 0 .. MaxJobs
    BY MaxJobsAssumption DEF SaveQueue
  <1>2. \A i \in Id : jb[i].mStatus \in Statuses
    BY DEF Job
  <1>3. diskStatus' \in [Id -> Statuses \cup {"NONE"}] /\ DiskTyped'
    BY <1>2 DEF SaveQueue, DiskTyped
  <1>4. Fresh(diskNextId', diskQueue')
    BY DEF SaveQueue, Fresh
  <1> QED BY <1>1, <1>3, <1>4 DEF DiskOK

(* A handler of OnExecute has to keep MemOK only.                          *)
LEMMA CommandKeeps ==
  ASSUME Base, Command, MemOK', crashes' = crashes
  PROVE  Base'
  <1>1. DiskOK'
    <2>1. SaveQueue(queue', job', nextId')
      BY DEF Command
    <2> QED BY <2>1, SaveKeeps DEF MemOK
  <1>2. RestOK'
    BY BaseParts DEF Command, RestOK
  <1> QED BY <1>1, <1>2, BaseParts, PTL

(* A handler that leaves good jobs, empties no memory slot and adds no job *)
(* keeps MemOK.                                                            *)
LEMMA JobsKept ==
  ASSUME Base, job' \in [Id -> Job], JobsOK',
         \A i \in Id : i >= nextId => job'[i] = NoJob,
         queue' \subseteq queue, nextId' = nextId,
         mActive' \in BOOLEAN, mPausedList' \in PausedList
  PROVE  MemOK'
  BY DEF Base, TypeOK, NextIdFresh, Fresh, MemOK

LEMMA AddKeeps == Base /\ Add => Base'
  <1> SUFFICES ASSUME Base, Add PROVE Base'
    OBVIOUS
  <1> USE DEF Id
  <1>1. nextId \in Id /\ nextId + 1 \in 0 .. MaxJobs
    BY MaxJobsAssumption DEF Add, Base, TypeOK
  <1>2. PICK copied \in BOOLEAN : job' = [job EXCEPT ![nextId] = NewJob(copied)]
    BY DEF Add
  <1>3. job' \in [Id -> Job] /\ JobsOK'
    BY <1>1, <1>2, NewKeeps DEF Base, TypeOK, JobsOK
  <1>4. \A i \in Id : i >= nextId' => job'[i] = NoJob
    BY <1>1, <1>2 DEF Add, Base, TypeOK, NextIdFresh
  <1>5. Fresh(nextId', queue') /\ queue' \subseteq Id
    BY <1>1 DEF Add, Base, TypeOK, NextIdFresh, Fresh
  <1>6. MemOK'
    BY <1>1, <1>3, <1>4, <1>5 DEF Add, Base, TypeOK, MemOK
  <1> QED BY <1>6, CommandKeeps DEF Add

LEMMA OneJobKeeps ==
  ASSUME Base, NEW i \in queue, NEW k \in Job, JobInv(k),
         job' = [job EXCEPT ![i] = k], queue' \subseteq queue,
         UNCHANGED <<nextId, mActive, mPausedList>>
  PROVE  MemOK'
  <1>1. i \in Id /\ nextId \in Nat
    BY DEF Base, TypeOK
  <1>2. ~(i >= nextId)
    BY <1>1 DEF Base, NextIdFresh, Fresh, Id
  <1>3. job' \in [Id -> Job] /\ JobsOK'
    BY <1>1 DEF Base, TypeOK, JobsOK
  <1>4. \A n \in Id : n >= nextId => job'[n] = NoJob
    BY <1>1, <1>2 DEF Base, TypeOK, NextIdFresh
  <1> QED BY <1>3, <1>4, JobsKept DEF Base, TypeOK

(* The commands on one job.                                                *)
LEMMA JobCommandsKeep ==
  ASSUME Base, NEW i \in Id,
         Remove(i) \/ Pause(i) \/ Resume(i) \/ Cancel(i)
  PROVE  Base'
  <1>1. i \in queue /\ Command /\ crashes' = crashes
    BY DEF Remove, Pause, Resume, Cancel
  <1>2. job[i] \in Job /\ JobInv(job[i])
    BY DEF Base, TypeOK, JobsOK
  <1>3. PICK k \in Job : JobInv(k) /\ job' = [job EXCEPT ![i] = k]
    <2>1. CASE Remove(i) \/ Cancel(i)
      BY <2>1, <1>2, CancelKeeps DEF Remove, Cancel
    <2>2. CASE (Pause(i) \/ Resume(i)) /\ ~mActive
      <3>1. job' = [job EXCEPT ![i] = job[i]]
        BY <2>2 DEF Pause, Resume, Base, TypeOK
      <3> QED BY <3>1, <1>2
    <2>3. CASE Pause(i) /\ mActive
      BY <2>3, <1>2, PauseKeeps DEF Pause
    <2>4. CASE Resume(i) /\ mActive
      BY <2>4, <1>2, ResumeKeeps DEF Resume
    <2> QED BY <2>1, <2>2, <2>3, <2>4
  <1>4. queue' \subseteq queue /\ UNCHANGED <<nextId, mActive, mPausedList>>
    BY DEF Remove, Pause, Resume, Cancel
  <1>5. MemOK'
    BY <1>1, <1>3, <1>4, OneJobKeeps
  <1> QED BY <1>1, <1>5, CommandKeeps

LEMMA OtherCommandKeeps == Base /\ OtherCommand => Base'
  <1> SUFFICES ASSUME Base, OtherCommand PROVE Base'
    OBVIOUS
  <1>1. MemOK'
    BY BaseParts DEF OtherCommand, mem, MemOK, JobsOK
  <1> QED BY <1>1, CommandKeeps DEF OtherCommand

(* The commands on the whole queue.                                        *)
LEMMA PauseAllKeeps == Base /\ PauseAll => Base'
  <1> SUFFICES ASSUME Base, PauseAll PROVE Base'
    OBVIOUS
  <1> DEFINE running == HasStatus(queue, job, "RUNNING")
  <1>1. CASE mActive
    <2>1. running \subseteq queue /\ \A i \in running : ~(i >= nextId)
      BY DEF HasStatus, Base, TypeOK, NextIdFresh, Fresh, Id
    <2>2. job' = [i \in Id |-> IF i \in running THEN PauseJob(job[i])
                              ELSE job[i]]
      BY <1>1 DEF PauseAll
    <2>3. job' \in [Id -> Job] /\ JobsOK'
      BY <2>2, PauseKeeps DEF Base, TypeOK, JobsOK
    <2>4. \A i \in Id : i >= nextId => job'[i] = NoJob
      BY <2>1, <2>2 DEF Base, NextIdFresh
    <2>5. mPausedList' = ListOf(running) /\ mActive' \in BOOLEAN
      BY <1>1 DEF PauseAll
    <2>6. \A S \in SUBSET Id : ListOf(S) \in PausedList
      BY DEF ListOf, PausedList, Pointers
    <2>7. mPausedList' \in PausedList
      BY <2>1, <2>5, <2>6 DEF Base, TypeOK
    <2> QED BY <2>3, <2>4, <2>5, <2>7, JobsKept, CommandKeeps DEF PauseAll
  <1>2. CASE ~mActive
    <2>1. MemOK'
      BY <1>2, BaseParts DEF PauseAll, MemOK, JobsOK
    <2> QED BY <2>1, CommandKeeps DEF PauseAll
  <1> QED BY <1>1, <1>2

LEMMA ResumeAllKeeps == Base /\ ResumeAll => Base'
  <1> SUFFICES ASSUME Base, ResumeAll PROVE Base'
    OBVIOUS
  <1>1. CASE ~mActive /\ mPausedList.ptr # "null"
    <2>1. PICK stale \in SUBSET (mPausedList.jobs \ queue) :
            /\ mActive' = TRUE
            /\ mPausedList' = NoList("null")
            /\ job' = [i \in Id |->
                         IF i \in (mPausedList.jobs \cap queue) \cup stale
                         THEN ResumeJob(job[i])
                         ELSE job[i]]
      BY <1>1 DEF ResumeAll
    <2>2. job' \in [Id -> Job] /\ JobsOK'
      BY <2>1, ResumeKeeps DEF Base, TypeOK, JobsOK
    <2>3. \A i \in Id : i >= nextId => job'[i] = NoJob
      BY <2>1, NoJobStays DEF Base, NextIdFresh
    <2>4. mPausedList' \in PausedList /\ mActive' \in BOOLEAN
      BY <2>1 DEF NoList, PausedList, Pointers
    <2> QED BY <2>2, <2>3, <2>4, JobsKept, CommandKeeps DEF ResumeAll
  <1>2. CASE ~(~mActive /\ mPausedList.ptr # "null")
    <2>1. MemOK'
      BY <1>2, BaseParts DEF ResumeAll, MemOK, JobsOK
    <2> QED BY <2>1, CommandKeeps DEF ResumeAll
  <1> QED BY <1>1, <1>2

LEMMA ClearKeeps == Base /\ Clear => Base'
  <1> SUFFICES ASSUME Base, Clear PROVE Base'
    OBVIOUS
  <1> DEFINE gone == {i \in queue : job[i].mStatus \in Finished}
  <1>1. /\ queue' = queue \ gone
        /\ job' = [i \in Id |-> IF i \in gone THEN CancelJob(job[i])
                                ELSE job[i]]
    BY DEF Clear
  <1>2. \A i \in gone : ~(i >= nextId)
    BY DEF Base, TypeOK, NextIdFresh, Fresh, Id
  <1>3. job' \in [Id -> Job] /\ JobsOK'
    BY <1>1, CancelKeeps DEF Base, TypeOK, JobsOK
  <1>4. \A i \in Id : i >= nextId => job'[i] = NoJob
    BY <1>1, <1>2 DEF Base, NextIdFresh
  <1> QED BY <1>1, <1>3, <1>4, JobsKept, CommandKeeps
           DEF Clear, Base, TypeOK

-----------------------------------------------------------------------------
(* CheckQueue, exits and starts.                                           *)

(* The jobs a round of CheckQueue refreshed are good jobs.                 *)
LEMMA RefreshedOK ==
  ASSUME Base
  PROVE  LET jr == AfterRefresh(queue, job) IN
         /\ jr \in [Id -> Job]
         /\ \A i \in Id : JobInv(jr[i])
         /\ \A i \in Id : i >= nextId => jr[i] = NoJob
  BY RefreshKeeps, NoJobStays DEF AfterRefresh, Base, TypeOK, JobsOK, NextIdFresh

LEMMA CheckRunningKeeps == Base /\ CheckRunning => Base'
  <1> SUFFICES ASSUME Base, CheckRunning PROVE Base'
    OBVIOUS
  <1>1. MemOK'
    BY RefreshedOK, JobsKept DEF CheckRunning, Base, TypeOK, JobsOK
  <1>2. DiskOK' /\ RestOK'
    BY BaseParts DEF CheckRunning, DiskOK, RestOK, disk, DiskTyped
  <1> QED BY <1>1, <1>2, BaseParts, PTL

LEMMA CheckStartKeeps == Base /\ CheckStart => Base'
  <1> SUFFICES ASSUME Base, CheckStart PROVE Base'
    OBVIOUS
  <1> DEFINE jr == AfterRefresh(queue, job)
  <1>0. PICK i \in HasStatus(queue, jr, "PENDING") :
          \E started \in StartJob(jr[i]) : job' = [jr EXCEPT ![i] = started]
    BY DEF CheckStart
  <1>1. PICK started \in StartJob(jr[i]) : job' = [jr EXCEPT ![i] = started]
    BY <1>0
  <1>2. i \in queue /\ i \in Id /\ jr[i].mStatus = "PENDING" /\ ~(i >= nextId)
    BY <1>0 DEF HasStatus, Base, TypeOK, NextIdFresh, Fresh, Id
  <1>3. /\ jr \in [Id -> Job]
        /\ \A k \in Id : JobInv(jr[k])
        /\ \A k \in Id : k >= nextId => jr[k] = NoJob
    BY RefreshedOK
  <1>4. started \in Job /\ JobInv(started)
    BY <1>1, <1>2, <1>3, StartKeeps
  <1> HIDE DEF jr
  <1>5. job' \in [Id -> Job] /\ JobsOK'
    BY <1>1, <1>3, <1>4 DEF JobsOK
  <1>6. \A k \in Id : k >= nextId => job'[k] = NoJob
    BY <1>1, <1>2, <1>3
  <1>7. MemOK'
    BY <1>5, <1>6, JobsKept DEF CheckStart, Base, TypeOK
  <1>8. DiskOK'
    BY <1>5, SaveKeeps DEF CheckStart, Base, TypeOK, NextIdFresh
  <1>9. RestOK'
    BY BaseParts DEF CheckStart, RestOK
  <1> QED BY <1>7, <1>8, <1>9, BaseParts, PTL

LEMMA CheckIdleKeeps == Base /\ CheckIdle => Base'
  <1> SUFFICES ASSUME Base, CheckIdle PROVE Base'
    OBVIOUS
  <1>1. MemOK'
    BY RefreshedOK, JobsKept DEF CheckIdle, Base, TypeOK, JobsOK
  <1>2. DiskOK'
    BY <1>1, SaveKeeps DEF CheckIdle, Base, TypeOK, NextIdFresh, MemOK
  <1>3. RestOK'
    BY BaseParts DEF CheckIdle, RestOK
  <1> QED BY <1>1, <1>2, <1>3, BaseParts, PTL

LEMMA GoneKeeps ==
  ASSUME Base, DaemonGone, crashes' \in 0 .. MaxCrashes
  PROVE  MemOK' /\ RestOK'
  <1>1. MemOK'
    BY NoJobKeeps, MaxJobsAssumption
       DEF DaemonGone, MemOK, JobsOK, Fresh, NoList, PausedList, Pointers
  <1>2. orphans' \subseteq Id
    BY DEF DaemonGone, Base, TypeOK
  <1>3. up' \in BOOLEAN
    BY DEF DaemonGone
  <1>4. clients' \in 0 .. MaxClients
    BY MaxClientsAssumption DEF DaemonGone
  <1> QED BY <1>1, <1>2, <1>3, <1>4 DEF RestOK

LEMMA QuitKeeps == Base /\ Quit => Base'
  <1> SUFFICES ASSUME Base, Quit PROVE Base'
    OBVIOUS
  <1>1. MemOK' /\ RestOK'
    BY GoneKeeps DEF Quit, Base, TypeOK
  <1>2. DiskOK'
    BY RefreshedOK, SaveKeeps DEF Quit, Base, TypeOK, NextIdFresh
  <1> QED BY <1>1, <1>2, BaseParts, PTL

LEMMA CrashKeeps == Base /\ (Crash \/ ResumeAllFault) => Base'
  <1> SUFFICES ASSUME Base, Crash \/ ResumeAllFault PROVE Base'
    OBVIOUS
  <1>1. crashes' \in 0 .. MaxCrashes
    BY MaxCrashesAssumption DEF Crash, ResumeAllFault, CrashCounted, Base, TypeOK
  <1>2. MemOK' /\ RestOK'
    BY <1>1, GoneKeeps DEF Crash, ResumeAllFault
  <1>3. DiskOK'
    BY BaseParts DEF Crash, ResumeAllFault, DiskOK, DiskTyped, disk
  <1> QED BY <1>2, <1>3, BaseParts, PTL

LEMMA BootKeeps == Base /\ Boot => Base'
  <1> SUFFICES ASSUME Base, Boot PROVE Base'
    OBVIOUS
  <1>1. job' \in [Id -> Job] /\ JobsOK'
    BY LoadedKeeps, NoJobKeeps DEF Boot, Base, DiskTyped, JobsOK
  <1>2. \A i \in Id : i >= nextId' => job'[i] = NoJob
    BY DEF Boot, Base, TypeOK, NextIdFresh, Fresh, Id
  <1>3. MemOK'
    BY <1>1, <1>2 DEF Boot, MemOK, Base, TypeOK, NextIdFresh, NoList,
                      PausedList, Pointers
  <1>4. DiskOK' /\ RestOK'
    BY BaseParts DEF Boot, DiskOK, RestOK, disk, DiskTyped
  <1> QED BY <1>3, <1>4, BaseParts, PTL

-----------------------------------------------------------------------------
(* Clients and processes.                                                  *)

LEMMA ClientsKeep == Base /\ (Connect \/ Disconnect) => Base'
  <1> SUFFICES ASSUME Base, Connect \/ Disconnect PROVE Base'
    OBVIOUS
  <1>1. MemOK' /\ DiskOK'
    BY BaseParts DEF Connect, Disconnect, mem, disk, MemOK, DiskOK, JobsOK, DiskTyped
  <1>2. RestOK'
    BY MaxClientsAssumption DEF Connect, Disconnect, RestOK, Base, TypeOK
  <1> QED BY <1>1, <1>2, BaseParts, PTL

(* What a step of the processes of job i does.                             *)
LEMMA ProcessStepIs ==
  ASSUME NEW i \in Id, Exec(i) \/ Exit(i) \/ Die(i) \/ Killed(i)
  PROVE  /\ \E p : /\ <<job[i].proc, p>> \in ProcMoves
                  /\ job' = [job EXCEPT ![i].proc = p]
         /\ UNCHANGED <<up, clients, queue, nextId, mActive, mPausedList,
                        disk, orphans, crashes>>
  <1>1. CASE Exec(i)
    <2>1. PICK p \in {"running", "exitedErr"} : job' = [job EXCEPT ![i].proc = p]
      BY <1>1 DEF Exec, ProcessStep
    <2>2. job[i].proc \in {"forked"}
      BY <1>1 DEF Exec, ProcessStep
    <2>3. <<job[i].proc, p>> \in ProcMoves
      BY <2>1, <2>2 DEF ProcMoves
    <2> QED BY <1>1, <2>1, <2>3 DEF Exec, ProcessStep
  <1>2. CASE Exit(i)
    <2>1. PICK p \in {"exitedOk", "exitedErr"} : job' = [job EXCEPT ![i].proc = p]
      BY <1>2 DEF Exit, ProcessStep
    <2>2. job[i].proc \in {"running"}
      BY <1>2 DEF Exit, ProcessStep
    <2>3. <<job[i].proc, p>> \in ProcMoves
      BY <2>1, <2>2 DEF ProcMoves
    <2> QED BY <1>2, <2>1, <2>3 DEF Exit, ProcessStep
  <1>3. CASE Die(i)
    <2>1. PICK p \in {"exitedErr"} : job' = [job EXCEPT ![i].proc = p]
      BY <1>3 DEF Die, ProcessStep
    <2>2. job[i].proc \in {"dying"}
      BY <1>3 DEF Die, ProcessStep
    <2>3. <<job[i].proc, p>> \in ProcMoves
      BY <2>1, <2>2 DEF ProcMoves
    <2> QED BY <1>3, <2>1, <2>3 DEF Die, ProcessStep
  <1>4. CASE Killed(i)
    <2>1. PICK p \in {"exitedErr"} : job' = [job EXCEPT ![i].proc = p]
      BY <1>4 DEF Killed, ProcessStep
    <2>2. job[i].proc \in {"stopped", "stoppedDying"}
      BY <1>4 DEF Killed, ProcessStep
    <2>3. <<job[i].proc, p>> \in ProcMoves
      BY <2>1, <2>2 DEF ProcMoves
    <2> QED BY <1>4, <2>1, <2>3 DEF Killed, ProcessStep
  <1> QED BY <1>1, <1>2, <1>3, <1>4

LEMMA ProcessesKeep == Base /\ Processes => Base'
  <1> SUFFICES ASSUME Base, Processes PROVE Base'
    OBVIOUS
  <1>1. PICK i \in Id : \/ Exec(i) \/ Exit(i) \/ Die(i) \/ Killed(i)
                        \/ OrphanExit(i)
    BY DEF Processes
  <1>2. CASE OrphanExit(i)
    <2>1. MemOK' /\ DiskOK' /\ RestOK'
      BY <1>2, BaseParts DEF OrphanExit, mem, disk, MemOK, DiskOK, RestOK,
                             JobsOK, DiskTyped
    <2> QED BY <2>1, BaseParts, PTL
  <1>3. CASE Exec(i) \/ Exit(i) \/ Die(i) \/ Killed(i)
    <2>1. PICK p : /\ <<job[i].proc, p>> \in ProcMoves
                   /\ job' = [job EXCEPT ![i].proc = p]
      BY <1>3, ProcessStepIs
    <2>2. UNCHANGED <<up, clients, queue, nextId, mActive, mPausedList, disk,
                      orphans, crashes>>
      BY <1>3, ProcessStepIs
    <2>3. /\ [job[i] EXCEPT !.proc = p] \in Job
          /\ JobInv([job[i] EXCEPT !.proc = p])
      BY <2>1, ProcessKeeps DEF Base, TypeOK, JobsOK
    <2>4. job' \in [Id -> Job] /\ JobsOK'
      BY <2>1, <2>3 DEF Base, TypeOK, JobsOK
    <2>5. job[i] # NoJob
      BY <2>1 DEF NoJob, ProcMoves
    <2>6. \A k \in Id : k >= nextId => job'[k] = NoJob
      BY <2>1, <2>5 DEF Base, TypeOK, NextIdFresh
    <2>7. MemOK'
      BY <2>2, <2>4, <2>6, JobsKept DEF Base, TypeOK
    <2>8. DiskOK' /\ RestOK'
      BY <2>2, BaseParts DEF DiskOK, RestOK, disk, DiskTyped
    <2> QED BY <2>7, <2>8, BaseParts, PTL
  <1> QED BY <1>1, <1>2, <1>3

LEMMA StutterKeeps == Base /\ UNCHANGED vars => Base'
  <1> SUFFICES ASSUME Base, UNCHANGED vars PROVE Base'
    OBVIOUS
  <1>1. MemOK' /\ DiskOK' /\ RestOK'
    BY BaseParts DEF vars, mem, disk, MemOK, DiskOK, RestOK, JobsOK, DiskTyped
  <1> QED BY <1>1, BaseParts, PTL

LEMMA BaseInit == Init => Base
  <1> SUFFICES ASSUME Init PROVE Base
    OBVIOUS
  <1>1. MemOK
    BY NoJobKeeps, MaxJobsAssumption
       DEF Init, MemOK, JobsOK, Fresh, NoList, PausedList, Pointers
  <1>2. DiskOK
    BY MaxJobsAssumption DEF Init, DiskOK, Fresh, DiskTyped
  <1>3. up \in BOOLEAN
    BY DEF Init
  <1>4. clients \in 0 .. MaxClients /\ crashes \in 0 .. MaxCrashes
    BY MaxClientsAssumption, MaxCrashesAssumption DEF Init
  <1>5. RestOK
    BY <1>3, <1>4 DEF Init, RestOK
  <1> QED BY <1>1, <1>2, <1>5, BaseParts

LEMMA BaseStep == Base /\ [Next]_vars => Base'
  <1> SUFFICES ASSUME Base, [Next]_vars PROVE Base'
    OBVIOUS
  <1>1. CASE Connect \/ Disconnect
    BY <1>1, ClientsKeep
  <1>2. CASE Handlers
    BY <1>2, AddKeeps, OtherCommandKeeps, PauseAllKeeps, ResumeAllKeeps,
       ClearKeeps, JobCommandsKeep DEF Handlers
  <1>3. CASE ResumeAllFault \/ Crash
    BY <1>3, CrashKeeps
  <1>4. CASE CheckQueue
    BY <1>4, StutterKeeps, CheckRunningKeeps, CheckStartKeeps, CheckIdleKeeps,
       QuitKeeps DEF CheckQueue, CheckInactive
  <1>5. CASE Boot
    BY <1>5, BootKeeps
  <1>6. CASE Processes
    BY <1>6, ProcessesKeep
  <1>7. CASE UNCHANGED vars
    BY <1>7, StutterKeeps
  <1> QED BY <1>1, <1>2, <1>3, <1>4, <1>5, <1>6, <1>7 DEF Next

THEOREM BaseHolds == Spec => []Base
  BY BaseInit, BaseStep, PTL DEF Spec

(* Type correctness of the daemon.                                         *)
THEOREM TypeCorrect == Spec => []TypeOK
  BY BaseHolds, PTL DEF Base

(* No daemon launches a job twice.                                         *)
THEOREM LaunchedOnceHolds == Spec => []EachLaunchedOnce
  <1>1. Base => EachLaunchedOnce
    BY DEF Base, JobsOK, JobInv, EachLaunchedOnce
  <1> QED BY <1>1, BaseHolds, PTL

(* A job whose process is gone and waited for is finished.                 *)
THEOREM NoGhostHolds == Spec => []NoGhostJob
  <1>1. Base => NoGhostJob
    BY DEF Base, JobsOK, JobInv, NoGhostJob
  <1> QED BY <1>1, BaseHolds, PTL

(* A suspended process can be continued by its job.                        *)
THEOREM ResumableHolds == Spec => []EachSuspendedIsResumable
  <1>1. Base => EachSuspendedIsResumable
    BY DEF Base, JobsOK, JobInv, EachSuspendedIsResumable
  <1> QED BY <1>1, BaseHolds, PTL

(* A job shown as done or failed has no process left.                      *)
THEOREM FinishedHolds == Spec => []EachFinishedHasNoProcess
  <1>1. Base => EachFinishedHasNoProcess
    BY DEF Base, JobsOK, JobInv, EachFinishedHasNoProcess
  <1> QED BY <1>1, BaseHolds, PTL

(* Ids are handed out fresh, also after a restart.                         *)
THEOREM FreshIdsHold == Spec => []NextIdFresh
  BY BaseHolds, PTL DEF Base

-----------------------------------------------------------------------------
(* The queue and its file.                                                 *)

OnDisk == DiskHasQueue /\ RestartKeepsStatus

(* A queue saved as it is, is on disk.                                     *)
LEMMA SavedIsOnDisk ==
  ASSUME SaveQueue(queue', job', nextId'), queue' \subseteq Id
  PROVE  OnDisk'
  BY DEF SaveQueue, OnDisk, DiskHasQueue, RestartKeepsStatus

LEMMA ReloadIdempotent ==
  \A st \in Statuses : Reload(LoadedJob(st).mStatus) = Reload(st)
  BY DEF Statuses, LoadedJob, Reload

(* A refresh only lets the saved status fall behind.                       *)
LEMMA RefreshIsBehind ==
  ASSUME NEW j \in Job, JobInv(j), NEW st \in Statuses,
         Reload(st) # Reload(j.mStatus) => Behind(st, j.mStatus),
         Reload(st) # Reload(RefreshJob(j).mStatus)
  PROVE  Behind(st, RefreshJob(j).mStatus)
  BY DEF Job, JobInv, RefreshJob, LaunchedOnce, FinishedHasNoProcess,
         PauseState, Statuses, ProcStates, Zombies, LiveGroups, Reload, Behind

LEMMA CheckRunningOnDisk == Base /\ OnDisk /\ CheckRunning => OnDisk'
  <1> SUFFICES ASSUME Base, OnDisk, CheckRunning PROVE OnDisk'
    OBVIOUS
  <1>1. DiskHasQueue'
    BY DEF CheckRunning, OnDisk, DiskHasQueue, disk
  <1>2. up /\ queue = diskQueue /\ UNCHANGED <<queue, disk>>
    BY DEF CheckRunning, OnDisk, DiskHasQueue
  <1>3. HasStatus(queue, job', "RUNNING") # {}
    BY DEF CheckRunning, HasStatus, Visited
  <1>4. ASSUME NEW i \in queue, Reload(diskStatus[i]) # Reload(job'[i].mStatus)
        PROVE  Behind(diskStatus[i], job'[i].mStatus)
    <2>1. /\ job[i] \in Job /\ JobInv(job[i]) /\ diskStatus[i] \in Statuses
          /\ i \in Id
      BY <1>2 DEF Base, TypeOK, JobsOK, DiskTyped
    <2>2. Reload(diskStatus[i]) # Reload(job[i].mStatus)
            => Behind(diskStatus[i], job[i].mStatus)
      BY <1>2 DEF OnDisk, RestartKeepsStatus
    <2>3. job'[i] = RefreshJob(job[i]) \/ job'[i] = job[i]
      BY <2>1 DEF CheckRunning, AfterRefresh
    <2> QED BY <1>4, <2>1, <2>2, <2>3, RefreshIsBehind
  <1>5. RestartKeepsStatus'
    BY <1>2, <1>3, <1>4 DEF RestartKeepsStatus, disk
  <1> QED BY <1>1, <1>5 DEF OnDisk

LEMMA BootOnDisk == Base /\ Boot => OnDisk'
  <1> SUFFICES ASSUME Base, Boot PROVE OnDisk'
    OBVIOUS
  <1>1. DiskHasQueue'
    BY DEF Boot, DiskHasQueue, disk
  <1>2. \A i \in queue' :
          Reload(diskStatus'[i]) = Reload(job'[i].mStatus)
    BY ReloadIdempotent DEF Boot, Base, TypeOK, DiskTyped, disk
  <1> QED BY <1>1, <1>2 DEF OnDisk, RestartKeepsStatus

(* Steps that neither save the queue nor change a status.                  *)
LEMMA SameStatusOnDisk ==
  ASSUME Base, OnDisk, UNCHANGED <<up, queue, nextId, disk>>,
         \A i \in Id : job'[i].mStatus = job[i].mStatus
  PROVE  OnDisk'
  <1>1. HasStatus(queue', job', "RUNNING") = HasStatus(queue, job, "RUNNING")
    BY DEF HasStatus, Base, TypeOK
  <1>2. queue' \subseteq Id
    BY DEF Base, TypeOK
  <1> QED BY <1>1, <1>2 DEF OnDisk, DiskHasQueue, RestartKeepsStatus, disk

(* The processes of a job do not touch its status.                         *)
LEMMA ProcessesKeepStatus ==
  ASSUME Base, NEW i \in Id, Exec(i) \/ Exit(i) \/ Die(i) \/ Killed(i)
  PROVE  \A k \in Id : job'[k].mStatus = job[k].mStatus
  <1>1. PICK p : job' = [job EXCEPT ![i].proc = p]
    BY ProcessStepIs
  <1> QED BY <1>1 DEF Base, TypeOK, Job

LEMMA HandlersOnDisk ==
  ASSUME Base, Handlers
  PROVE  OnDisk' /\ SaveQueue(queue', job', nextId')
  <1>1. Command
    BY DEF Handlers, Add, OtherCommand, PauseAll, ResumeAll, Clear, Remove,
           Pause, Resume, Cancel
  <1>2. Base'
    BY BaseStep DEF Next
  <1> QED BY <1>1, <1>2, SavedIsOnDisk DEF Command, Base, TypeOK

LEMMA OnDiskStep == Base /\ OnDisk /\ [Next]_vars => OnDisk'
  <1> SUFFICES ASSUME Base, OnDisk, [Next]_vars PROVE OnDisk'
    OBVIOUS
  <1>1. Base'
    BY BaseStep
  <1>2. CASE Handlers
    BY <1>2, HandlersOnDisk
  <1>3. CASE ResumeAllFault \/ Crash \/ Quit
    BY <1>3 DEF ResumeAllFault, Crash, Quit, DaemonGone, OnDisk, DiskHasQueue,
                RestartKeepsStatus
  <1>4. CASE CheckStart \/ CheckIdle
    <2>1. SaveQueue(queue', job', nextId')
      BY <1>4 DEF CheckStart, CheckIdle
    <2> QED BY <1>1, <2>1, SavedIsOnDisk DEF Base, TypeOK
  <1>5. CASE CheckRunning
    BY <1>5, CheckRunningOnDisk
  <1>6. CASE Boot
    BY <1>6, BootOnDisk
  <1>7. CASE Connect \/ Disconnect \/ CheckInactive \/ UNCHANGED vars
    BY <1>7, SameStatusOnDisk
       DEF Connect, Disconnect, CheckInactive, vars, mem
  <1>8. CASE Processes
    <2>1. PICK i \in Id : \/ Exec(i) \/ Exit(i) \/ Die(i) \/ Killed(i)
                          \/ OrphanExit(i)
      BY <1>8 DEF Processes
    <2>2. CASE OrphanExit(i)
      BY <2>2, SameStatusOnDisk DEF OrphanExit, mem
    <2>3. CASE Exec(i) \/ Exit(i) \/ Die(i) \/ Killed(i)
      BY <2>3, ProcessesKeepStatus, ProcessStepIs, SameStatusOnDisk
    <2> QED BY <2>1, <2>2, <2>3
  <1> QED BY <1>2, <1>3, <1>4, <1>5, <1>6, <1>7, <1>8 DEF Next, CheckQueue

LEMMA OnDiskInit == Init => OnDisk
  BY DEF Init, OnDisk, DiskHasQueue, RestartKeepsStatus

THEOREM OnDiskHolds == Spec => []OnDisk
  BY OnDiskInit, OnDiskStep, BaseHolds, PTL DEF Spec

(* A crash between two handlers loses no job of the queue.                 *)
THEOREM DiskHasQueueHolds == Spec => []DiskHasQueue
  BY OnDiskHolds, PTL DEF OnDisk

(* A restart brings the jobs back as they were, but for ends noticed while *)
(* another job still ran.                                                  *)
THEOREM RestartHolds == Spec => []RestartKeepsStatus
  BY OnDiskHolds, PTL DEF OnDisk

-----------------------------------------------------------------------------
(* COMMAND_PAUSE_ALL and COMMAND_RESUME_ALL.                               *)

(* While the queue stays inactive no handler makes a job RUNNING.          *)
LEMMA InactiveRunsNothing ==
  ASSUME Base, ~mActive, ~mActive', Handlers
  PROVE  HasStatus(queue', job', "RUNNING") \subseteq
           HasStatus(queue, job, "RUNNING")
  <1>1. CASE Add
    BY <1>1, MaxJobsAssumption
       DEF Add, HasStatus, NewJob, Base, TypeOK, NextIdFresh, Fresh, Id
  <1>2. CASE OtherCommand \/ PauseAll
    BY <1>2 DEF OtherCommand, PauseAll, mem, HasStatus
  <1>3. CASE ResumeAll
    BY <1>3 DEF ResumeAll, HasStatus
  <1>4. CASE Clear
    BY <1>4 DEF Clear, HasStatus, CancelJob, Base, TypeOK, Job
  <1>5. ASSUME NEW i \in Id, Remove(i) \/ Cancel(i)
        PROVE  HasStatus(queue', job', "RUNNING") \subseteq
                 HasStatus(queue, job, "RUNNING")
    <2>1. queue' \subseteq queue /\ job' = [job EXCEPT ![i] = CancelJob(job[i])]
      BY <1>5 DEF Remove, Cancel
    <2>2. CancelJob(job[i]).mStatus # "RUNNING"
      BY DEF CancelJob, Base, TypeOK, Job
    <2> QED BY <2>1, <2>2 DEF HasStatus, Base, TypeOK
  <1>6. ASSUME NEW i \in Id, Pause(i) \/ Resume(i)
        PROVE  HasStatus(queue', job', "RUNNING") \subseteq
                 HasStatus(queue, job, "RUNNING")
    BY <1>6 DEF Pause, Resume, HasStatus
  <1> QED BY <1>1, <1>2, <1>3, <1>4, <1>5, <1>6 DEF Handlers

(* No handler touches mPausedList while the queue stays inactive.          *)
LEMMA InactiveKeepsList ==
  ASSUME ~mActive, ~mActive', Handlers
  PROVE  mPausedList' = mPausedList
  BY DEF Handlers, Add, OtherCommand, mem, PauseAll, ResumeAll, Clear,
         Remove, Pause, Resume, Cancel

(* A job PAUSE_ALL finds RUNNING is listed, suspended or not.              *)
LEMMA PauseAllLists ==
  ASSUME Base, mActive, ~mActive', Handlers
  PROVE  /\ mPausedList'.ptr = "list"
         /\ HasStatus(queue', job', "RUNNING") \subseteq mPausedList'.jobs
  <1>1. PauseAll
    BY DEF Handlers, Add, OtherCommand, mem, ResumeAll, Clear,
           Remove, Pause, Resume, Cancel
  <1> DEFINE running == HasStatus(queue, job, "RUNNING")
  <1>2. mPausedList' = ListOf(running) /\ queue' = queue
    BY <1>1 DEF PauseAll
  <1>3. \A i \in queue : i \notin running => job'[i] = job[i]
    BY <1>1 DEF PauseAll, Base, TypeOK
  <1>4. HasStatus(queue', job', "RUNNING") \subseteq running
    BY <1>2, <1>3 DEF HasStatus
  <1> QED BY <1>2, <1>4 DEF ListOf

LEMMA PausedListStep ==
  Base /\ PausedListComplete /\ [Next]_vars => PausedListComplete'
  <1> SUFFICES ASSUME Base, PausedListComplete, [Next]_vars,
                      up', ~mActive'
               PROVE  /\ mPausedList'.ptr = "list"
                      /\ HasStatus(queue', job', "RUNNING")
                           \subseteq mPausedList'.jobs
    BY DEF PausedListComplete
  <1>1. CASE Handlers
    <2>1. up
      BY <1>1 DEF Handlers, Add, OtherCommand, PauseAll, ResumeAll, Clear,
                  Remove, Pause, Resume, Cancel, Command
    <2>2. CASE mActive
      BY <1>1, <2>2, PauseAllLists
    <2>3. CASE ~mActive
      BY <1>1, <2>1, <2>3, InactiveRunsNothing, InactiveKeepsList
         DEF PausedListComplete
    <2> QED BY <2>2, <2>3
  <1>2. CASE ResumeAllFault \/ Crash \/ Quit
    <2>1. DaemonGone
      BY <1>2 DEF ResumeAllFault, Crash, Quit
    <2>2. up' = FALSE
      BY <2>1 DEF DaemonGone
    <2> QED BY <2>2
  <1>3. CASE CheckRunning \/ CheckStart \/ CheckIdle
    <2>1. mActive /\ mActive' = mActive
      BY <1>3 DEF CheckRunning, CheckStart, CheckIdle
    <2> QED BY <2>1
  <1>4. CASE Boot
    <2>1. mActive' = TRUE
      BY <1>4 DEF Boot
    <2> QED BY <2>1
  <1>5. CASE Connect \/ Disconnect \/ CheckInactive \/ UNCHANGED vars
    BY <1>5 DEF Connect, Disconnect, CheckInactive, vars, mem,
                PausedListComplete, HasStatus
  <1>6. CASE Processes
    <2>1. PICK i \in Id : \/ Exec(i) \/ Exit(i) \/ Die(i) \/ Killed(i)
                          \/ OrphanExit(i)
      BY <1>6 DEF Processes
    <2>2. CASE OrphanExit(i)
      BY <2>2 DEF OrphanExit, mem, PausedListComplete, HasStatus
    <2>3. CASE Exec(i) \/ Exit(i) \/ Die(i) \/ Killed(i)
      <3>1. \A k \in queue : job'[k].mStatus = job[k].mStatus
        BY <2>3, ProcessesKeepStatus DEF Base, TypeOK
      <3> QED BY <2>3, <3>1, ProcessStepIs DEF PausedListComplete, HasStatus
    <2> QED BY <2>1, <2>2, <2>3
  <1> QED BY <1>1, <1>2, <1>3, <1>4, <1>5, <1>6 DEF Next, CheckQueue

(* The list of COMMAND_PAUSE_ALL is there, and has every job still running,*)
(* whenever COMMAND_RESUME_ALL reads it.                                   *)
THEOREM PausedListHolds == Spec => []PausedListComplete
  <1>1. Init => PausedListComplete
    BY DEF Init, PausedListComplete
  <1> QED BY <1>1, PausedListStep, BaseHolds, PTL DEF Spec

(* Resume never leaves a suspended process suspended.                      *)
LEMMA ResumeContinues ==
  ASSUME NEW j \in Job, JobInv(j)
  PROVE  ResumeJob(j).proc # "stopped"
  BY DEF Job, JobInv, SuspendedIsResumable, ResumeJob, Sigcont, KillSucceeds,
         LiveGroups, Zombies, ProcStates

(* COMMAND_RESUME_ALL continues what COMMAND_PAUSE_ALL suspended, and       *)
(* leaves the jobs paused one by one alone.                                *)
THEOREM ResumeAllHolds == Spec => ResumeAllRestores
  <1>1. ASSUME Base, [Next]_vars, up, up', ~mActive, mActive'
        PROVE  /\ \A i \in queue \cap mPausedList.jobs :
                    job[i].mStatus = "PAUSED" => job'[i].proc # "stopped"
               /\ \A i \in queue \ mPausedList.jobs : job'[i] = job[i]
    <2>1. ResumeAll
      BY <1>1 DEF Next, Handlers, Add, OtherCommand, mem, PauseAll, Clear,
           Remove, Pause, Resume, Cancel, ResumeAllFault, Crash, Quit,
           DaemonGone, CheckQueue, CheckInactive, CheckRunning, CheckStart,
           CheckIdle, Boot, Connect, Disconnect, Processes, Exec, Exit, Die,
           Killed, ProcessStep, OrphanExit, vars
    <2>2. PICK stale \in SUBSET (mPausedList.jobs \ queue) :
            job' = [i \in Id |->
                      IF i \in (mPausedList.jobs \cap queue) \cup stale
                      THEN ResumeJob(job[i])
                      ELSE job[i]]
      BY <1>1, <2>1 DEF ResumeAll
    <2>3. \A i \in queue : i \in Id /\ job[i] \in Job /\ JobInv(job[i])
      BY <1>1 DEF Base, TypeOK, JobsOK
    <2> QED BY <2>2, <2>3, ResumeContinues
  <1>2. Base /\ [Next]_vars =>
          [up /\ up' /\ ~mActive /\ mActive' =>
             /\ \A i \in queue \cap mPausedList.jobs :
                  job[i].mStatus = "PAUSED" => job'[i].proc # "stopped"
             /\ \A i \in queue \ mPausedList.jobs : job'[i] = job[i]]_vars
    BY <1>1
  <1> QED BY <1>2, BaseHolds, PTL DEF Spec, ResumeAllRestores

-----------------------------------------------------------------------------
(* The order in which CheckQueue starts jobs, and when it lets go.         *)

LEMMA LeastElement ==
  ASSUME NEW S \in SUBSET Nat, S # {}
  PROVE  \E m \in S : \A k \in S : m <= k
  <1>1. PICK m \in S : \A k \in S : <<k, m>> \notin OpToRel(<, Nat)
    BY NatLessThanWellFounded, WFMin
  <1>2. \A k \in S : ~(k < m)
    BY <1>1 DEF OpToRel
  <1> QED BY <1>2

(* When no job CheckQueue visited runs, it visited them all: the least job *)
(* of the queue that was RUNNING after a refresh would have been visited.  *)
LEMMA AllVisited ==
  ASSUME Base,
         HasStatus(Visited(queue, job), AfterRefresh(queue, job), "RUNNING") = {}
  PROVE  /\ Visited(queue, job) = queue
         /\ \A i \in queue :
              /\ AfterRefresh(queue, job)[i] = RefreshJob(job[i])
              /\ RefreshJob(job[i]).mStatus # "RUNNING"
  <1> DEFINE S == {i \in queue : RefreshJob(job[i]).mStatus = "RUNNING"}
  <1>0. Id \subseteq Nat
    BY MaxJobsAssumption DEF Id
  <1>1. queue \subseteq Id /\ S \in SUBSET Nat
    BY <1>0 DEF Base, TypeOK
  <1>2. ASSUME S # {} PROVE FALSE
    <2>1. PICK m \in S : \A k \in S : m <= k
      BY <1>1, <1>2, LeastElement
    <2>2. \A k \in queue : k < m => k \notin S
      BY <1>1, <2>1 DEF Id
    <2>3. m \in Visited(queue, job)
      BY <2>2 DEF Visited
    <2>4. AfterRefresh(queue, job)[m].mStatus = "RUNNING"
      BY <1>1, <2>3 DEF AfterRefresh
    <2> QED BY <2>3, <2>4 DEF HasStatus
  <1>3. Visited(queue, job) = queue
    BY <1>2 DEF Visited
  <1> QED BY <1>1, <1>2, <1>3 DEF AfterRefresh

(* Only Start forks.                                                       *)
LEMMA OnlyStartForks ==
  ASSUME NEW j \in Job, j.proc = "none"
  PROVE  /\ CancelJob(j).proc = "none" /\ PauseJob(j).proc = "none"
         /\ ResumeJob(j).proc = "none" /\ RefreshJob(j).proc = "none"
  BY ZombiesAssumption
     DEF Job, CancelJob, PauseJob, ResumeJob, RefreshJob, KillSucceeds,
         Sigint, Sigstop, Sigcont, LiveGroups, Zombies

LEMMA HandlersDoNotFork ==
  ASSUME Base, Handlers, NEW i \in Id, job[i].proc = "none"
  PROVE  job'[i].proc = "none"
  <1>0. job \in [Id -> Job] /\ job[i] \in Job
    BY DEF Base, TypeOK
  <1>1. CASE Add
    BY <1>0, <1>1 DEF Add, NewJob
  <1>2. CASE OtherCommand
    BY <1>2 DEF OtherCommand, mem
  <1>3. CASE PauseAll
    BY <1>0, <1>3, OnlyStartForks DEF PauseAll
  <1>4. CASE ResumeAll
    BY <1>0, <1>4, OnlyStartForks DEF ResumeAll
  <1>5. CASE Clear
    BY <1>0, <1>5, OnlyStartForks DEF Clear
  <1>6. ASSUME NEW k \in Id, Remove(k) \/ Pause(k) \/ Resume(k) \/ Cancel(k)
        PROVE  job'[i].proc = "none"
    BY <1>0, <1>6, OnlyStartForks DEF Remove, Pause, Resume, Cancel
  <1> QED BY <1>1, <1>2, <1>3, <1>4, <1>5, <1>6 DEF Handlers

(* A step that launches a job is CheckStart.                               *)
LEMMA LaunchIsCheckStart ==
  ASSUME Base, [Next]_vars, NEW i \in Id,
         job[i].proc = "none", job'[i].proc = "forked"
  PROVE  CheckStart
  <1>0. job \in [Id -> Job] /\ job[i] \in Job
    BY DEF Base, TypeOK
  <1>1. ~Handlers
    BY HandlersDoNotFork
  <1>2. ~(ResumeAllFault \/ Crash \/ Quit)
    BY DEF ResumeAllFault, Crash, Quit, DaemonGone, NoJob
  <1>3. ~(CheckRunning \/ CheckIdle)
    BY <1>0, OnlyStartForks DEF CheckRunning, CheckIdle, AfterRefresh
  <1>4. ~Boot
    BY DEF Boot, LoadedJob, NoJob
  <1>5. ~(Connect \/ Disconnect \/ CheckInactive \/ UNCHANGED vars)
    BY DEF Connect, Disconnect, CheckInactive, vars, mem
  <1>6. ~Processes
    <2>1. SUFFICES ASSUME NEW k \in Id,
                          \/ Exec(k) \/ Exit(k) \/ Die(k) \/ Killed(k)
                          \/ OrphanExit(k)
                   PROVE  FALSE
      BY DEF Processes
    <2>2. CASE OrphanExit(k)
      BY <2>2 DEF OrphanExit, mem
    <2>3. CASE Exec(k) \/ Exit(k) \/ Die(k) \/ Killed(k)
      BY <1>0, <2>3, ProcessStepIs DEF ProcMoves
    <2> QED BY <2>1, <2>2, <2>3
  <1> QED BY <1>1, <1>2, <1>3, <1>4, <1>5, <1>6 DEF Next, CheckQueue

(* Jobs are launched first come, first served, and one at a time.          *)
THEOREM FifoHolds == Spec => LaunchIsFifo
  <1>1. ASSUME Base, [Next]_vars, NEW i \in Id,
               job[i].proc = "none", job'[i].proc = "forked"
        PROVE  /\ i \in queue /\ mActive
               /\ \A k \in queue \ {i} :
                    /\ job'[k].mStatus # "RUNNING"
                    /\ k < i => job'[k].mStatus # "PENDING"
    <2> DEFINE jr == AfterRefresh(queue, job)
               pending == HasStatus(queue, jr, "PENDING")
    <2>0. CheckStart
      BY <1>1, LaunchIsCheckStart
    <2>1. mActive /\ HasStatus(Visited(queue, job), jr, "RUNNING") = {}
      BY <2>0 DEF CheckStart
    <2>2. PICK n \in pending :
            /\ \A k \in pending : n <= k
            /\ \E started \in StartJob(jr[n]) : job' = [jr EXCEPT ![n] = started]
      BY <2>0 DEF CheckStart
    <2>3. PICK started \in StartJob(jr[n]) : job' = [jr EXCEPT ![n] = started]
      BY <2>2
    <2>4. /\ jr \in [Id -> Job] /\ queue \subseteq Id
          /\ \A k \in queue : jr[k].mStatus # "RUNNING"
      BY <1>1, <2>1, RefreshedOK, AllVisited DEF Base, TypeOK
    <2>5. i = n
      <3>1. SUFFICES ASSUME i # n PROVE FALSE
        OBVIOUS
      <3>2. job'[i] = jr[i]
        BY <2>3, <2>4, <3>1
      <3>3. jr[i].proc = "none"
        BY <1>1, OnlyStartForks DEF AfterRefresh, Base, TypeOK
      <3> QED BY <1>1, <3>2, <3>3
    <2>6. \A k \in queue \ {i} : job'[k] = jr[k] /\ jr[k].mStatus # "RUNNING"
      BY <2>3, <2>4, <2>5
    <2>7. \A k \in queue : k < n => jr[k].mStatus # "PENDING"
      BY <2>2, <2>4 DEF HasStatus, Id
    <2> QED BY <2>1, <2>2, <2>5, <2>6, <2>7 DEF HasStatus
  <1>2. Base /\ [Next]_vars =>
          [\A i \in Id :
             job[i].proc = "none" /\ job'[i].proc = "forked" =>
               /\ i \in queue /\ mActive
               /\ \A k \in queue \ {i} :
                    /\ job'[k].mStatus # "RUNNING"
                    /\ k < i => job'[k].mStatus # "PENDING"]_vars
    BY <1>1
  <1> QED BY <1>2, BaseHolds, PTL DEF Spec, LaunchIsFifo

(* A refresh of a job that is not a zombie changes nothing.                *)
LEMMA RefreshOnlyZombies ==
  ASSUME NEW j \in Job, j.proc \notin Zombies
  PROVE  RefreshJob(j) = j
  BY DEF RefreshJob, Zombies

(* When the daemon leaves its loop, every job on disk is finished, and only*)
(* processes of cancelled or removed jobs outlive it.                      *)
THEOREM QuitHolds == Spec => QuitLosesNothing
  <1>1. ASSUME Base, [Next]_vars, up, ~up', crashes' = crashes
        PROVE  Quit
    <2>1. up' # up
      BY <1>1
    <2>2. ~(ResumeAllFault \/ Crash)
      BY <1>1 DEF ResumeAllFault, Crash, CrashCounted, Base, TypeOK
    <2>3. ~Handlers
      BY <2>1 DEF Handlers, Add, OtherCommand, PauseAll, ResumeAll, Clear,
                  Remove, Pause, Resume, Cancel, Command
    <2>4. ~(CheckInactive \/ CheckRunning \/ CheckStart \/ CheckIdle)
      BY <2>1 DEF CheckInactive, CheckRunning, CheckStart, CheckIdle, vars
    <2>5. ~(Connect \/ Disconnect \/ Boot \/ UNCHANGED vars)
      BY <1>1, <2>1 DEF Connect, Disconnect, Boot, vars
    <2>6. ~Processes
      BY <2>1 DEF Processes, Exec, Exit, Die, Killed, ProcessStep, OrphanExit
    <2> QED BY <1>1, <2>2, <2>3, <2>4, <2>5, <2>6 DEF Next, CheckQueue
  <1>2. ASSUME Base, Quit
        PROVE  /\ \A i \in diskQueue' : diskStatus'[i] \in Finished
               /\ \A i \in orphans' \ orphans :
                    i \in queue => job[i].mStatus = "CANCELED"
    <2> DEFINE jr == AfterRefresh(queue, job)
    <2>1. /\ HasStatus(Visited(queue, job), jr, "RUNNING") = {}
          /\ HasStatus(queue, jr, "PENDING") = {}
          /\ HasStatus(queue, jr, "PAUSED") = {}
          /\ SaveQueue(queue, jr, nextId)
          /\ DaemonGone
      BY <1>2 DEF Quit, NothingToDo
    <2>2. \A i \in queue : jr[i] = RefreshJob(job[i]) /\ jr[i].mStatus # "RUNNING"
      BY <1>2, <2>1, AllVisited
    <2>3. queue \subseteq Id /\ jr \in [Id -> Job] /\ \A i \in Id : JobInv(jr[i])
      BY <1>2, RefreshedOK DEF Base, TypeOK
    <2> HIDE DEF jr
    <2>4. \A i \in queue : jr[i].mStatus \in Statuses
      BY <2>3 DEF Job
    <2>5. \A i \in queue : jr[i].mStatus \in Finished
      BY <2>1, <2>2, <2>4 DEF HasStatus, Statuses, Finished
    <2>6. \A i \in diskQueue' : diskStatus'[i] \in Finished
      BY <2>1, <2>3, <2>5 DEF SaveQueue
    <2>7. ASSUME NEW i \in orphans' \ orphans, i \in queue
          PROVE  job[i].mStatus = "CANCELED"
      <3>1. job[i].proc \in {"forked", "running", "dying"} /\ job[i] \in Job
        BY <1>2, <2>1, <2>7 DEF DaemonGone, Base, TypeOK
      <3>2. jr[i] = job[i]
        BY <2>2, <2>7, <3>1, RefreshOnlyZombies DEF Zombies
      <3>3. FinishedHasNoProcess(job[i]) /\ job[i].mStatus \in Finished
        BY <1>2, <2>3, <2>5, <2>7, <3>2 DEF Base, JobsOK, JobInv
      <3> QED BY <3>1, <3>3 DEF FinishedHasNoProcess, Finished
    <2> QED BY <2>6, <2>7
  <1>3. Base /\ [Next]_vars =>
          [up /\ ~up' /\ crashes' = crashes =>
             /\ \A i \in diskQueue' : diskStatus'[i] \in Finished
             /\ \A i \in orphans' \ orphans :
                  i \in queue => job[i].mStatus = "CANCELED"]_vars
    BY <1>1, <1>2
  <1> QED BY <1>3, BaseHolds, PTL DEF Spec, QuitLosesNothing

-----------------------------------------------------------------------------
(* Saved results.                                                          *)

Ended == {"DONE", "ERROR"}
StaysEnded == Ended \cup {"CANCELED"}

(* No method brings an ended job back.                                     *)
LEMMA EndedStays ==
  ASSUME NEW j \in Job, JobInv(j), j.mStatus \in Ended
  PROVE  /\ CancelJob(j).mStatus \in StaysEnded
         /\ PauseJob(j).mStatus \in StaysEnded
         /\ ResumeJob(j).mStatus \in StaysEnded
         /\ RefreshJob(j).mStatus \in StaysEnded
  BY ZombiesAssumption
     DEF Job, JobInv, FinishedHasNoProcess, PauseState, CancelJob, PauseJob,
         ResumeJob, RefreshJob, KillSucceeds, LiveGroups, Zombies, Ended,
         StaysEnded

LEMMA HandlersKeepEnded ==
  ASSUME Base, Handlers, NEW i \in queue, job[i].mStatus \in Ended
  PROVE  job'[i].mStatus \in StaysEnded
  <1>0. /\ job \in [Id -> Job] /\ job[i] \in Job /\ JobInv(job[i])
        /\ i \in Id /\ job[i].mStatus \in StaysEnded
    BY DEF Base, TypeOK, JobsOK, StaysEnded
  <1>1. CASE Add
    <2>1. i # nextId
      BY <1>0, MaxJobsAssumption DEF Base, TypeOK, NextIdFresh, Fresh, Id
    <2> QED BY <1>0, <1>1, <2>1 DEF Add
  <1>2. CASE OtherCommand
    BY <1>0, <1>2 DEF OtherCommand, mem
  <1>3. CASE PauseAll
    BY <1>0, <1>3, EndedStays DEF PauseAll
  <1>4. CASE ResumeAll
    BY <1>0, <1>4, EndedStays DEF ResumeAll
  <1>5. CASE Clear
    BY <1>0, <1>5, EndedStays DEF Clear
  <1>6. ASSUME NEW k \in Id, Remove(k) \/ Pause(k) \/ Resume(k) \/ Cancel(k)
        PROVE  job'[i].mStatus \in StaysEnded
    BY <1>0, <1>6, EndedStays DEF Remove, Pause, Resume, Cancel
  <1> QED BY <1>1, <1>2, <1>3, <1>4, <1>5, <1>6 DEF Handlers

(* While the daemon is up, a result on disk is the result in memory.       *)
LEMMA SavedEndIsEnd ==
  ASSUME Base, OnDisk, up, NEW i \in diskQueue, diskStatus[i] \in Ended
  PROVE  i \in queue /\ job[i].mStatus \in Ended
  <1>1. i \in queue /\ i \in Id /\ job[i].mStatus \in Statuses
    BY DEF OnDisk, DiskHasQueue, Base, TypeOK, Job
  <1>2. Reload(diskStatus[i]) = Reload(job[i].mStatus)
    BY <1>1 DEF OnDisk, RestartKeepsStatus, Behind, Reload, Ended
  <1> QED BY <1>1, <1>2 DEF Reload, Ended, Statuses

(* A job that was saved as done or failed never runs again, over restarts  *)
(* and crashes.                                                            *)
THEOREM SavedResultHolds == Spec => SavedResultIsFinal
  <1>1. ASSUME Base, OnDisk, [Next]_vars,
               NEW i \in diskQueue \cap diskQueue', diskStatus[i] \in Ended
        PROVE  diskStatus'[i] \in StaysEnded
    <2>1. CASE UNCHANGED disk
      BY <1>1, <2>1 DEF disk, StaysEnded
    <2>2. CASE Handlers
      <3>1. up /\ SaveQueue(queue', job', nextId')
        BY <2>2, <1>1, HandlersOnDisk
           DEF Handlers, Add, OtherCommand, PauseAll, ResumeAll, Clear,
               Remove, Pause, Resume, Cancel, Command
      <3>2. job'[i].mStatus \in StaysEnded
        BY <1>1, <2>2, <3>1, SavedEndIsEnd, HandlersKeepEnded
      <3> QED BY <1>1, <3>1, <3>2 DEF SaveQueue, Base, TypeOK
    <2>3. CASE CheckStart \/ CheckIdle \/ Quit
      <3> DEFINE jr == AfterRefresh(queue, job)
      <3>1. up
        BY <2>3 DEF CheckStart, CheckIdle, Quit
      <3>2. i \in queue /\ i \in Id /\ job[i].mStatus \in Ended
        BY <1>1, <3>1, SavedEndIsEnd DEF Base, TypeOK
      <3>3. jr \in [Id -> Job] /\ jr[i].mStatus \in StaysEnded
        BY <1>1, <3>2, EndedStays, RefreshedOK
           DEF AfterRefresh, Base, TypeOK, JobsOK, StaysEnded
      <3>4. CASE CheckIdle \/ Quit
        <4>1. SaveQueue(queue, jr, nextId)
          BY <3>4 DEF CheckIdle, Quit
        <4> QED BY <3>2, <3>3, <4>1 DEF SaveQueue
      <3>5. CASE CheckStart
        <4>1. PICK n \in HasStatus(queue, jr, "PENDING") :
                \E started \in StartJob(jr[n]) : job' = [jr EXCEPT ![n] = started]
          BY <3>5 DEF CheckStart
        <4>2. i # n
          BY <3>3, <4>1 DEF HasStatus, StaysEnded, Ended
        <4>3. job'[i] = jr[i] /\ SaveQueue(queue, job', nextId)
          BY <3>3, <3>5, <4>1, <4>2 DEF CheckStart
        <4> QED BY <3>2, <3>3, <4>3 DEF SaveQueue
      <3> QED BY <2>3, <3>4, <3>5
    <2>4. CASE \/ ResumeAllFault \/ Crash \/ Boot \/ Connect \/ Disconnect
               \/ CheckInactive \/ CheckRunning \/ Processes
      <3>1. UNCHANGED disk
        BY <2>4 DEF ResumeAllFault, Crash, Boot, Connect, Disconnect,
             CheckInactive, CheckRunning, Processes, Exec, Exit, Die, Killed,
             ProcessStep, OrphanExit, vars
      <3> QED BY <2>1, <3>1
    <2>5. CASE UNCHANGED vars
      BY <2>1, <2>5 DEF vars
    <2> QED BY <1>1, <2>2, <2>3, <2>4, <2>5 DEF Next, CheckQueue
  <1>2. Base /\ OnDisk /\ [Next]_vars =>
          [\A i \in diskQueue \cap diskQueue' :
             diskStatus[i] \in {"DONE", "ERROR"} =>
               diskStatus'[i] \in {"DONE", "ERROR", "CANCELED"}]_vars
    BY <1>1 DEF Ended, StaysEnded
  <1> QED BY <1>2, BaseHolds, OnDiskHolds, PTL DEF Spec, SavedResultIsFinal
=============================================================================
