------------------------- MODULE SpoolFiles_proofs -------------------------
(***************************************************************************)
(* Proofs about the spool directory, for any directories, any files a run  *)
(* may write, any number of jobs, moves and crashes: a daemon finds the    *)
(* queue of the last one, a finished job has the results of its own last   *)
(* run, and a job that runs again finds nothing of an earlier one.         *)
(*                                                                         *)
(* The first needs little: QueueAtConfig.  The others need to know of each *)
(* job that counts, which is one not disturbed, what is at its place and   *)
(* what the next daemon will read of it: JobOK.  What is saved may lag     *)
(* behind, since CheckQueue may leave the end of a job unsaved; such a job *)
(* is loaded as one that was interrupted, and its files are cleared.       *)
(***************************************************************************)
EXTENDS SpoolFiles, TLAPS

(* queue.dat of d lists the jobs of the queue. *)
HasQueue(d) == DOMAIN queueDat[d].status = queue

(* Where the next daemon looks, the queue is; and while one runs, it saves *)
(* there.  This does not depend on what is in the queue.                   *)
QueueAtConfig ==
  /\ queueDat = [d \in Dir |-> queueDat[d]]
  /\ config \in Dir
  /\ ~misled => HasQueue(config)
  /\ ~misled /\ up => config = spoolDir /\ spoolDir \in made

-----------------------------------------------------------------------------
(* SaveQueue puts the queue into the file of the directory in use.         *)
LEMMA SaveKeeps ==
  ASSUME QueueAtConfig, up, SaveQueue, UNCHANGED daemon
  PROVE  QueueAtConfig'
<1>1. queueDat' = [d \in Dir |-> queueDat'[d]]
  BY DEF QueueAtConfig, SaveQueue, SaveQueueIn
<1>2. ASSUME ~misled PROVE HasQueue(config)'
  BY <1>2 DEF QueueAtConfig, SaveQueue, SaveQueueIn, HasQueue, daemon
<1> QED
  BY <1>1, <1>2 DEF QueueAtConfig, daemon

(* A step that touches none of what the invariant is about keeps it.       *)
LEMMA OthersKeep ==
  ASSUME QueueAtConfig, UNCHANGED <<config, spoolDir, made, misled, queue,
                                    queueDat>>,
         up' => up
  PROVE  QueueAtConfig'
  BY DEF QueueAtConfig, HasQueue

(* COMMAND_SPOOLDIR: the queue goes with the configuration, unless the     *)
(* directory could not be made.                                            *)
LEMMA MoveKeeps ==
  ASSUME QueueAtConfig, NEW d \in Dir, SetSpoolDir(d)
  PROVE  QueueAtConfig'
<1>1. queueDat' = [e \in Dir |-> queueDat'[e]]
  BY DEF SetSpoolDir, QueueAtConfig, SaveQueueIn
<1>2. ASSUME ~misled'
      PROVE  HasQueue(config)' /\ (config = spoolDir)' /\ (spoolDir \in made)'
  BY <1>2 DEF SetSpoolDir, QueueAtConfig, SaveQueueIn, HasQueue
<1> QED
  BY <1>1, <1>2 DEF QueueAtConfig, SetSpoolDir

(* The settings without a daemon.                                          *)
LEMMA SettingsKeep ==
  ASSUME QueueAtConfig, NEW d \in Dir, OnSETUPOk(d)
  PROVE  QueueAtConfig'
  BY DEF OnSETUPOk, QueueAtConfig, HasQueue, jobs

(* The constructor: whatever it finds is the queue then.                   *)
LEMMA BootKeeps ==
  ASSUME QueueAtConfig, Boot
  PROVE  QueueAtConfig'
  BY DEF Boot, QueueAtConfig, HasQueue

(* Every step keeps the queue where the next daemon looks.                 *)
LEMMA QueueAtConfigStep == QueueAtConfig /\ [SpoolNext]_vars => QueueAtConfig'
<1> SUFFICES ASSUME QueueAtConfig, [SpoolNext]_vars
             PROVE  QueueAtConfig'
  OBVIOUS
<1>1. CASE Add
  BY <1>1, SaveKeeps DEF Add
<1>2. CASE Clear
  BY <1>2, SaveKeeps DEF Clear, Discard
<1>3. CASE SetSameDir
  BY <1>3, SaveKeeps DEF SetSameDir
<1>4. CASE Quit
  BY <1>4, OthersKeep DEF Quit, jobs
<1>5. CASE Crash
  BY <1>5, OthersKeep DEF Crash, jobs
<1>6. CASE Boot
  BY <1>6, BootKeeps
<1>7. ASSUME NEW j \in JobNo, Remove(j) PROVE QueueAtConfig'
  BY <1>7, SaveKeeps DEF Remove, Discard
<1>8. ASSUME NEW j \in JobNo, Cancel(j) PROVE QueueAtConfig'
  BY <1>8, SaveKeeps DEF Cancel
<1>9. ASSUME NEW j \in JobNo, Start(j) PROVE QueueAtConfig'
  BY <1>9, SaveKeeps DEF Start, Forked, IsNext
<1>10. ASSUME NEW j \in JobNo, DieInStart(j) PROVE QueueAtConfig'
  BY <1>10, OthersKeep DEF DieInStart
<1>11. ASSUME NEW j \in JobNo, End(j) PROVE QueueAtConfig'
  BY <1>11, SaveKeeps, OthersKeep DEF End, daemon
<1>18. ASSUME NEW j \in JobNo, Pause(j) PROVE QueueAtConfig'
  BY <1>18, SaveKeeps DEF Pause
<1>19. ASSUME NEW j \in JobNo, Resume(j) PROVE QueueAtConfig'
  BY <1>19, SaveKeeps DEF Resume
<1>12. ASSUME NEW d \in Dir, SetSpoolDir(d) PROVE QueueAtConfig'
  BY <1>12, MoveKeeps
<1>13. ASSUME NEW d \in Dir, OnSETUPOk(d) PROVE QueueAtConfig'
  BY <1>13, SettingsKeep
<1>14. ASSUME NEW p \in procs, Gms(p) PROVE QueueAtConfig'
  BY <1>14, OthersKeep DEF Gms, daemon, jobs
<1>15. ASSUME NEW p \in procs, WriteMore(p) PROVE QueueAtConfig'
  BY <1>15, OthersKeep DEF WriteMore, daemon, jobs
<1>16. ASSUME NEW p \in procs, OrphanEnd(p) PROVE QueueAtConfig'
  BY <1>16, OthersKeep DEF OrphanEnd, daemon, jobs
<1>17. CASE UNCHANGED vars
  BY <1>17, OthersKeep DEF vars, daemon, jobs
<1> QED
  BY <1>1, <1>2, <1>3, <1>4, <1>5, <1>6, <1>7, <1>8, <1>9, <1>10, <1>11,
     <1>12, <1>13, <1>14, <1>15, <1>16, <1>17, <1>18, <1>19
     DEF SpoolNext

-----------------------------------------------------------------------------
(* A restarted daemon finds the queue of the last one, whatever commands,  *)
(* changes of the directory, crashes and restarts there were, unless the   *)
(* directory could not be made or was set without a daemon.                *)
THEOREM RestartFindsQueueHolds == SpoolSpec => RestartFindsQueue
<1>1. Init => QueueAtConfig
  BY DirAssumption DEF Init, QueueAtConfig, HasQueue, NoDat
<1>2. QueueAtConfig /\ [SpoolNext]_vars =>
        [Boot /\ ~misled => queue' = queue]_vars
  BY DEF QueueAtConfig, HasQueue, Boot
<1> QED
  BY <1>1, <1>2, QueueAtConfigStep, PTL DEF SpoolSpec, RestartFindsQueue

-----------------------------------------------------------------------------
(* The invariant.                                                          *)

HasInput == {"PENDING", "PAUSED", "RUNNING", "DONE"}

JobType == [id : Id, dir : Dir, status : Statuses,
            paused : {"NONE", "PENDING", "RUNNING"}, mPid : BOOLEAN]
Process == [of : JobNo, run : Run, at : {"forked", "running"}]

DatOK(d) ==
  LET dat == queueDat[d] IN
  /\ DOMAIN dat.status \subseteq 1 .. added
  /\ \A j \in DOMAIN dat.status : dat.status[j] \in Statuses
  /\ dat.nextId \in 0 .. added

TypeOK ==
  /\ up \in BOOLEAN /\ misled \in BOOLEAN
  /\ config \in Dir /\ spoolDir \in Dir /\ made \subseteq Dir
  /\ added \in 0 .. MaxJobs /\ nextId \in 0 .. added /\ queue \subseteq 1 .. added
  /\ job \in [JobNo -> JobType]
  /\ run \in [JobNo -> Run] /\ \A j \in JobNo : run[j] > 0 => j <= added
  /\ procs \subseteq Process /\ \A p \in procs : p.of <= added
  /\ files \in [Dir \X Id -> [Ext -> Content \cup {None, Emptied}]]
  /\ queueDat = [d \in Dir |-> queueDat[d]]
  /\ \A d \in Dir : DatOK(d)
  /\ moves \in 0 .. MaxMoves /\ crashes \in 0 .. MaxCrashes
  /\ disturbed \subseteq 1 .. added

(* No two jobs of a queue have one id, and the next job has another.       *)
Apart(js, next) ==
  /\ \A j \in js : job[j].id < next
  /\ \A j, k \in js : job[j].id = job[k].id => j = k

(* So it is in memory and in every file.                                   *)
IdsApart ==
  /\ Apart(queue, nextId)
  /\ \A d \in Dir : Apart(DOMAIN queueDat[d].status, queueDat[d].nextId)

(* What is at the place of a job: its files, the processes that write them.*)
FilesOf(j) == files[PathOf(j)]
ProcsOf(j) == {p \in procs : PathOf(p.of) = PathOf(j)}

(* What the next daemon will read of it, if it looks where it should.      *)
Saved(j) == IF misled THEN "none" ELSE queueDat[config].status[j]

(* It may be started, now or once it is resumed.                           *)
Waiting(j) == job[j].status = "PENDING" \/ job[j].paused = "PENDING"

(* What gms would refuse to overwrite is of its last run.                  *)
OwnOutput(j) ==
  \A e \in RefusedExts :
    FilesOf(j)[e] # None => FilesOf(j)[e] = Written(j, run[j], TRUE)

(* Only its own process, that of its last start, is where its files are.   *)
Alone(j) ==
  /\ \A p \in ProcsOf(j) : p.of = j /\ p.run = run[j] /\ job[j].mPid
  /\ \A p, q \in ProcsOf(j) : p = q

Clean(j) ==
  Waiting(j) => /\ ~job[j].mPid
                /\ run[j] > 0 => \A e \in Outputs : FilesOf(j)[e] = None

InputThere(j) ==
  \/ job[j].mPid \/ job[j].paused # "NONE" \/ job[j].status \in HasInput
  \/ Saved(j) \in Interrupted
  => FilesOf(j)["inp"] = Written(j, 0, TRUE)

Writes(j) ==
  (\E p \in ProcsOf(j) : p.at = "running")
  => FilesOf(j)["log"] = Written(j, run[j], FALSE) /\ OwnOutput(j)

Result(j) ==
  job[j].status = "DONE"
  => /\ ProcsOf(j) = {}
     /\ FilesOf(j)["log"] = Written(j, run[j], TRUE) /\ OwnOutput(j)

JobOK(j) ==
  /\ Alone(j) /\ Clean(j) /\ InputThere(j) /\ Writes(j) /\ Result(j)
  /\ job[j].paused = "PENDING" => job[j].status \in {"PAUSED", "CANCELED"}
  /\ Saved(j) \in {"none", "CANCELED", job[j].status} \cup Interrupted

JobsOK == \A j \in queue \ disturbed : JobOK(j)

SpoolInv == TypeOK /\ IdsApart /\ QueueAtConfig /\ JobsOK

-----------------------------------------------------------------------------
(* What all steps need.                                                    *)

(* Jobs of a queue have places of their own, among those there are.        *)
LEMMA PathsApart ==
  ASSUME TypeOK, IdsApart
  PROVE  /\ \A j \in 1 .. added : j \in JobNo /\ PathOf(j) \in Dir \X Id
         /\ \A p \in procs : p.of \in 1 .. added
         /\ \A j, k \in queue : PathOf(j) = PathOf(k) => j = k
         /\ queue \subseteq 1 .. added
<1>1. MaxJobs \in Nat /\ added \in 0 .. MaxJobs /\ queue \subseteq 1 .. added
  BY BoundsAssumption DEF TypeOK
<1>2. \A j \in 1 .. added : j \in JobNo
  BY <1>1 DEF JobNo
<1>3. \A j \in JobNo : job[j] \in JobType
  BY DEF TypeOK
<1>4. \A j \in 1 .. added : PathOf(j) \in Dir \X Id
  BY <1>2, <1>3 DEF JobType, PathOf
<1>5. \A p \in procs : p.of \in JobNo /\ p.of <= added
  BY DEF TypeOK, Process
<1>6. \A p \in procs : p.of \in 1 .. added
  BY <1>1, <1>5 DEF JobNo
<1>7. \A j, k \in queue : PathOf(j) = PathOf(k) => j = k
  BY DEF PathOf, IdsApart, Apart
<1> QED
  BY <1>1, <1>2, <1>4, <1>6, <1>7

(* What is neither touched nor written to by others stays as it should be. *)
LEMMA SettledKeeps ==
  ASSUME SpoolInv, NEW j \in queue \ disturbed,
         \A k \in 1 .. added : PathOf(k)' = PathOf(k),
         job'[j] = job[j], run'[j] = run[j],
         \A e \in Ext : files'[PathOf(j)][e] = files[PathOf(j)][e],
         \A p \in procs' : \/ p \in procs
                           \/ p.of \in 1 .. added /\ PathOf(p.of) # PathOf(j),
         Saved(j)' \in {"none", job[j].status, Saved(j)}
  PROVE  JobOK(j)'
<1>1. /\ JobOK(j) /\ j \in 1 .. added /\ PathOf(j)' = PathOf(j)
      /\ \A p \in procs : p.of \in 1 .. added
  BY PathsApart DEF SpoolInv, JobsOK
<1>2. ProcsOf(j)' \subseteq ProcsOf(j)
  <2> SUFFICES ASSUME NEW p \in procs', PathOf(p.of)' = PathOf(j)'
               PROVE  p \in procs /\ PathOf(p.of) = PathOf(j)
    BY DEF ProcsOf
  <2>1. p \in procs
    BY <1>1
  <2> QED
    BY <1>1, <2>1
<1>3. \A e \in Ext : FilesOf(j)'[e] = FilesOf(j)[e]
  BY <1>1 DEF FilesOf
<1>4. {"inp", "log"} \subseteq Ext /\ RefusedExts \subseteq Ext
      /\ Outputs \subseteq Ext
  BY DEF Ext, Outputs, RefusedExts
<1>5. Alone(j)' /\ Clean(j)'
  BY <1>1, <1>2, <1>3, <1>4 DEF JobOK, Alone, Clean, Waiting
<1>6. OwnOutput(j) => OwnOutput(j)'
  BY <1>3, <1>4 DEF OwnOutput, Written
<1>7. InputThere(j)'
  <2>1. Saved(j)' \in Interrupted
        => Saved(j) \in Interrupted \/ job[j].status \in HasInput
    BY DEF Interrupted, HasInput
  <2> QED
    BY <1>1, <1>3, <1>4, <2>1 DEF JobOK, InputThere, Written
<1>8. Writes(j)' /\ Result(j)'
  BY <1>1, <1>2, <1>3, <1>4, <1>6 DEF JobOK, Writes, Result, Written
<1>9. Saved(j)' \in {"none", "CANCELED", job[j].status} \cup Interrupted
  BY <1>1 DEF JobOK
<1> QED
  BY <1>1, <1>5, <1>7, <1>8, <1>9 DEF JobOK

(* A queue as it may be: some jobs, with ids apart.                        *)
QueueOK ==
  /\ added \in 0 .. MaxJobs /\ nextId \in 0 .. added /\ queue \subseteq 1 .. added
  /\ job \in [JobNo -> JobType]
  /\ Apart(queue, nextId)

(* Jobs keep their files.                                                  *)
KeepPaths ==
  /\ added' >= added
  /\ \A k \in 1 .. added : job'[k].id = job[k].id /\ job'[k].dir = job[k].dir

(* Files that are not written stay in order.                               *)
LEMMA OldDatsKeep ==
  ASSUME TypeOK, IdsApart, KeepPaths, added' \in Nat, NEW d \in Dir,
         queueDat'[d] = queueDat[d]
  PROVE  DatOK(d)' /\ Apart(DOMAIN queueDat[d].status, queueDat[d].nextId)'
<1>1. /\ DOMAIN queueDat[d].status \subseteq 1 .. added
      /\ \A j \in DOMAIN queueDat[d].status : queueDat[d].status[j] \in Statuses
      /\ queueDat[d].nextId \in 0 .. added
      /\ added \in Nat /\ added' \in Nat /\ added' >= added
  BY BoundsAssumption DEF TypeOK, DatOK, KeepPaths
<1>2. 1 .. added \subseteq 1 .. added' /\ 0 .. added \subseteq 0 .. added'
  BY <1>1
<1>3. DatOK(d)'
  BY <1>1, <1>2 DEF DatOK
<1>4. Apart(DOMAIN queueDat[d].status, queueDat[d].nextId)
  BY DEF IdsApart
<1> QED
  BY <1>1, <1>3, <1>4 DEF Apart, KeepPaths

(* SaveQueue: every file has a queue as it may be, and the one that the    *)
(* next daemon reads has this queue.                                       *)
LEMMA SaveIsOK ==
  ASSUME TypeOK, IdsApart, KeepPaths, QueueOK', NEW f \in Dir, NEW ds,
         SaveQueueIn(f, ds)
  PROVE  /\ queueDat' = [d \in Dir |-> queueDat'[d]]
         /\ \A d \in Dir : DatOK(d)'
         /\ IdsApart'
         /\ f \in ds => \A k \in queue' : queueDat'[f].status[k] = job'[k].status
<1>1. queueDat = [d \in Dir |-> queueDat[d]] /\ added' \in Nat
  BY BoundsAssumption DEF TypeOK, QueueOK
<1>2. queueDat' = [d \in Dir |-> queueDat'[d]]
  BY <1>1 DEF SaveQueueIn
<1>3. \A d \in Dir : queueDat'[d] = queueDat[d] \/
                     /\ d = f /\ f \in ds
                     /\ DOMAIN queueDat'[d].status = queue'
                     /\ \A k \in queue' : queueDat'[d].status[k] = job'[k].status
                     /\ queueDat'[d].nextId = IF queue' = {} THEN 0 ELSE nextId'
  BY <1>1 DEF SaveQueueIn
<1>4. f \in ds => \A k \in queue' : queueDat'[f].status[k] = job'[k].status
  BY <1>1 DEF SaveQueueIn
<1>5. ASSUME NEW d \in Dir
      PROVE  DatOK(d)' /\ Apart(DOMAIN queueDat[d].status, queueDat[d].nextId)'
  <2>1. CASE queueDat'[d] = queueDat[d]
    BY <1>1, <2>1, OldDatsKeep
  <2>2. CASE /\ d = f /\ f \in ds
             /\ DOMAIN queueDat'[d].status = queue'
             /\ \A k \in queue' : queueDat'[d].status[k] = job'[k].status
             /\ queueDat'[d].nextId = IF queue' = {} THEN 0 ELSE nextId'
    <3>1. /\ \A k \in queue' : job'[k].status \in Statuses
          /\ queue' \subseteq 1 .. added' /\ nextId' \in 0 .. added'
      <4>1. 1 .. added' \subseteq JobNo
        BY BoundsAssumption DEF QueueOK, JobNo
      <4> QED
        BY <4>1 DEF QueueOK, JobType
    <3>2. DatOK(d)'
      BY <1>1, <2>2, <3>1 DEF DatOK
    <3>3. Apart(DOMAIN queueDat[d].status, queueDat[d].nextId)'
      BY <2>2 DEF QueueOK, Apart
    <3> QED
      BY <3>2, <3>3
  <2> QED
    BY <1>3, <2>1, <2>2
<1>6. IdsApart'
  BY <1>5 DEF IdsApart, QueueOK
<1> QED
  BY <1>2, <1>4, <1>5, <1>6

(* So it is of every command that leaves the directory alone.              *)
LEMMA SaveQueueIsOK ==
  ASSUME TypeOK, IdsApart, QueueAtConfig, KeepPaths, QueueOK', up, UNCHANGED daemon,
         SaveQueue
  PROVE  /\ queueDat' = [d \in Dir |-> queueDat'[d]]
         /\ \A d \in Dir : DatOK(d)'
         /\ IdsApart'
         /\ \A k \in queue' : Saved(k)' \in {"none", job'[k].status}
<1>1. spoolDir \in Dir /\ (~misled => config = spoolDir /\ spoolDir \in made)
      /\ UNCHANGED <<up, config, spoolDir, made, misled>>
  BY DEF TypeOK, QueueAtConfig, daemon
<1>2. SaveQueueIn(spoolDir, made)
  BY DEF SaveQueue
<1> QED
  BY <1>1, <1>2, SaveIsOK DEF Saved

(* A step that writes no queue.dat.                                        *)
LEMMA NoSaveIsOK ==
  ASSUME TypeOK, IdsApart, KeepPaths, QueueOK', UNCHANGED queueDat
  PROVE  /\ queueDat' = [d \in Dir |-> queueDat'[d]]
         /\ \A d \in Dir : DatOK(d)'
         /\ IdsApart'
<1>1. added' \in Nat
  BY BoundsAssumption DEF QueueOK
<1> QED
  BY <1>1, OldDatsKeep DEF TypeOK, IdsApart, QueueOK

-----------------------------------------------------------------------------
(* Commands on one job, its start and its end.                             *)

(* A command saves it with its new status; a job whose end CheckQueue does *)
(* not save keeps the one it had.                                          *)
SavedAs(j, st) ==
  /\ SaveQueue => Saved(j)' \in {"none", st}
  /\ UNCHANGED queueDat => Saved(j)' = Saved(j)

(* A step of one job: of the others nothing changes.                       *)
LEMMA OneJobStep ==
  ASSUME SpoolInv, up, NEW j \in queue, NEW r \in JobType,
         r.id = job[j].id, r.dir = job[j].dir, job' = [job EXCEPT ![j] = r],
         UNCHANGED <<queue, nextId, added, disturbed>>, UNCHANGED daemon,
         SaveQueue \/ UNCHANGED queueDat,
         run' \in [JobNo -> Run], \A k \in JobNo \ {j} : run'[k] = run[k],
         files' \in [Dir \X Id -> [Ext -> Content \cup {None, Emptied}]],
         \A k \in queue \ {j} : files'[PathOf(k)] = files[PathOf(k)],
         \A p \in procs' : p \in procs \/ (p \in Process /\ p.of = j),
         moves' \in 0 .. MaxMoves, crashes' \in 0 .. MaxCrashes
  PROVE  /\ TypeOK' /\ IdsApart'
         /\ \A k \in queue \ disturbed : k # j => JobOK(k)'
         /\ \A k \in 1 .. added : PathOf(k)' = PathOf(k)
         /\ job'[j] = r
         /\ SavedAs(j, r.status)
<1>t. TypeOK /\ IdsApart /\ QueueAtConfig /\ JobsOK
  BY DEF SpoolInv
<1>1. /\ \A k \in 1 .. added : k \in JobNo
      /\ \A p \in procs : p.of \in 1 .. added
      /\ \A k, l \in queue : PathOf(k) = PathOf(l) => k = l
      /\ queue \subseteq 1 .. added /\ j \in 1 .. added /\ j \in JobNo
      /\ added \in 0 .. MaxJobs /\ nextId \in 0 .. added /\ added \in Nat
      /\ job \in [JobNo -> JobType]
  BY <1>t, PathsApart, BoundsAssumption DEF TypeOK
<1>2. /\ job' \in [JobNo -> JobType] /\ job'[j] = r
      /\ \A k \in JobNo : k # j => job'[k] = job[k]
      /\ \A k \in 1 .. added : job'[k].id = job[k].id /\ job'[k].dir = job[k].dir
  BY <1>1
<1>3. \A k \in 1 .. added : PathOf(k)' = PathOf(k)
  BY <1>2 DEF PathOf
<1>4. QueueOK' /\ KeepPaths
  <2>1. Apart(queue, nextId)'
    <3>1. Apart(queue, nextId) /\ UNCHANGED <<queue, nextId>>
          /\ \A k \in queue : job'[k].id = job[k].id
      BY <1>t, <1>1, <1>2 DEF IdsApart
    <3> QED
      BY <3>1 DEF Apart
  <2>2. KeepPaths
    BY <1>1, <1>2 DEF KeepPaths
  <2> QED
    BY <1>1, <1>2, <2>1, <2>2 DEF QueueOK
<1>5. /\ queueDat' = [d \in Dir |-> queueDat'[d]]
      /\ \A d \in Dir : DatOK(d)'
      /\ IdsApart'
      /\ SaveQueue => \A k \in queue : Saved(k)' \in {"none", job'[k].status}
  <2>1. CASE SaveQueue
    BY <1>t, <1>4, <2>1, SaveQueueIsOK
  <2>2. CASE ~SaveQueue
    BY <1>t, <1>4, <2>2, NoSaveIsOK
  <2> QED
    BY <2>1, <2>2
<1>6. UNCHANGED queueDat => \A k : Saved(k)' = Saved(k)
  BY DEF Saved, daemon
<1>7. TypeOK'
  <2>1. \A p \in procs' : p \in Process /\ p.of <= added
    BY <1>t, <1>1 DEF TypeOK
  <2>2. \A k \in JobNo : run'[k] > 0 => k <= added'
    <3>1. j <= added /\ added' = added
      BY <1>1
    <3>2. \A k \in JobNo : k # j => (run[k] > 0 => k <= added)
      BY <1>t DEF TypeOK
    <3> QED
      BY <3>1, <3>2
  <2> QED
    BY <1>t, <1>1, <1>2, <1>5, <2>1, <2>2 DEF TypeOK, daemon
<1>8. ASSUME NEW k \in queue \ disturbed, k # j
      PROVE  JobOK(k)'
  <2>1. k \in JobNo /\ job'[k] = job[k] /\ run'[k] = run[k]
    BY <1>1, <1>2, <1>8
  <2>2. \A p \in procs' : \/ p \in procs
                          \/ p.of \in 1 .. added /\ PathOf(p.of) # PathOf(k)
    BY <1>1, <1>8
  <2>3. Saved(k)' \in {"none", job[k].status, Saved(k)}
    BY <1>5, <1>6, <2>1
  <2>4. files'[PathOf(k)] = files[PathOf(k)]
    BY <1>8
  <2> QED
    BY <1>3, <1>8, <2>1, <2>2, <2>3, <2>4, SettledKeeps
<1>9. SavedAs(j, r.status)
  BY <1>2, <1>5, <1>6 DEF SavedAs
<1> QED
  BY <1>2, <1>3, <1>5, <1>7, <1>8, <1>9

(* Fewer processes at the place of a job.                                  *)
LEMMA FewerProcs ==
  ASSUME TypeOK, IdsApart, \A k \in 1 .. added : PathOf(k)' = PathOf(k),
         procs' \subseteq procs, NEW j \in queue
  PROVE  ProcsOf(j)' \subseteq ProcsOf(j)
BY PathsApart DEF ProcsOf

(* Cancel: the job may have ended before, or go on.                        *)
LEMMA CancelKeeps ==
  ASSUME SpoolInv, NEW j \in JobNo, Cancel(j)
  PROVE  TypeOK' /\ IdsApart' /\ JobsOK'
<1> DEFINE r == [job[j] EXCEPT !.status = "CANCELED"]
<1>t. TypeOK /\ IdsApart /\ j \in queue
  BY DEF SpoolInv, Cancel
<1>1. r \in JobType /\ r.id = job[j].id /\ r.dir = job[j].dir
      /\ r.status = "CANCELED" /\ r.paused = job[j].paused /\ r.mPid = job[j].mPid
  BY <1>t DEF TypeOK, JobType, Statuses
<1>2. job' = [job EXCEPT ![j] = r] /\ procs' \subseteq procs
  BY <1>t DEF Cancel, SetStatus, Signalled, TypeOK
<1>3. /\ UNCHANGED <<queue, nextId, added, disturbed, run, files, moves, crashes>>
      /\ UNCHANGED daemon /\ up /\ SaveQueue
  BY DEF Cancel
<1>4. /\ run \in [JobNo -> Run] /\ moves \in 0 .. MaxMoves
         /\ crashes \in 0 .. MaxCrashes
      /\ files \in [Dir \X Id -> [Ext -> Content \cup {None, Emptied}]]
  BY <1>t DEF TypeOK
<1> HIDE DEF r
<1>5. /\ TypeOK' /\ IdsApart'
      /\ \A k \in queue \ disturbed : k # j => JobOK(k)'
      /\ \A k \in 1 .. added : PathOf(k)' = PathOf(k)
      /\ job'[j] = r
      /\ SavedAs(j, r.status)
  BY <1>t, <1>1, <1>2, <1>3, <1>4, OneJobStep
<1>6. ASSUME j \notin disturbed PROVE JobOK(j)'
  <2>1. JobOK(j) /\ ProcsOf(j)' \subseteq ProcsOf(j) /\ FilesOf(j)' = FilesOf(j)
        /\ run' = run
    BY <1>t, <1>2, <1>3, <1>5, <1>6, FewerProcs, PathsApart
       DEF SpoolInv, JobsOK, FilesOf
  <2>2. Alone(j)' /\ Clean(j)' /\ Writes(j)' /\ Result(j)'
    BY <1>1, <1>5, <2>1
       DEF JobOK, Alone, Clean, Waiting, Writes, Result, OwnOutput
  <2>3. Saved(j)' \in {"none", "CANCELED"}
    BY <1>1, <1>3, <1>5 DEF SavedAs
  <2>4. InputThere(j)'
    BY <1>1, <1>5, <2>1, <2>3 DEF JobOK, InputThere, Interrupted, HasInput
  <2> QED
    BY <1>1, <1>5, <2>1, <2>2, <2>3, <2>4 DEF JobOK
<1> QED
  BY <1>3, <1>5, <1>6 DEF JobsOK

(* Pause: nothing but the two statuses.                                    *)
LEMMA PauseKeeps ==
  ASSUME SpoolInv, NEW j \in JobNo, Pause(j)
  PROVE  TypeOK' /\ IdsApart' /\ JobsOK'
<1> DEFINE r == [job[j] EXCEPT !.paused = job[j].status, !.status = "PAUSED"]
<1>t. TypeOK /\ IdsApart /\ j \in queue
      /\ job[j].status \in {"PENDING", "RUNNING"}
  BY DEF SpoolInv, Pause, HasStatus
<1>1. /\ r \in JobType /\ r.id = job[j].id /\ r.dir = job[j].dir
      /\ r.status = "PAUSED" /\ r.paused = job[j].status /\ r.mPid = job[j].mPid
  BY <1>t DEF TypeOK, JobType, Statuses
<1>2. job' = [job EXCEPT ![j] = r]
  BY <1>t DEF Pause, TypeOK, JobType
<1>3. /\ UNCHANGED <<queue, nextId, added, disturbed, run, files, procs, crashes>>
      /\ UNCHANGED daemon /\ up /\ SaveQueue
  BY DEF Pause
<1>4. /\ run \in [JobNo -> Run] /\ moves' \in 0 .. MaxMoves
         /\ crashes \in 0 .. MaxCrashes
      /\ files \in [Dir \X Id -> [Ext -> Content \cup {None, Emptied}]]
  BY <1>t, BoundsAssumption DEF TypeOK, Pause
<1> HIDE DEF r
<1>5. /\ TypeOK' /\ IdsApart'
      /\ \A k \in queue \ disturbed : k # j => JobOK(k)'
      /\ \A k \in 1 .. added : PathOf(k)' = PathOf(k)
      /\ job'[j] = r
      /\ SavedAs(j, r.status)
  BY <1>t, <1>1, <1>2, <1>3, <1>4, OneJobStep
<1>6. ASSUME j \notin disturbed PROVE JobOK(j)'
  <2>1. JobOK(j) /\ ProcsOf(j)' \subseteq ProcsOf(j) /\ FilesOf(j)' = FilesOf(j)
        /\ run' = run
    BY <1>t, <1>3, <1>5, <1>6, FewerProcs, PathsApart
       DEF SpoolInv, JobsOK, FilesOf
  <2>2. Alone(j)' /\ Clean(j)' /\ Writes(j)' /\ Result(j)'
    BY <1>t, <1>1, <1>5, <2>1
       DEF JobOK, Alone, Clean, Waiting, Writes, Result, OwnOutput
  <2>3. Saved(j)' \in {"none", "PAUSED"}
    BY <1>1, <1>3, <1>5 DEF SavedAs
  <2>4. InputThere(j)'
    BY <1>t, <1>1, <1>5, <2>1, <2>3 DEF JobOK, InputThere, Interrupted, HasInput
  <2> QED
    BY <1>1, <1>5, <2>1, <2>2, <2>3, <2>4 DEF JobOK
<1> QED
  BY <1>3, <1>5, <1>6 DEF JobsOK

(* Resume: a job that was paused before its start waits again.             *)
LEMMA ResumeKeeps ==
  ASSUME SpoolInv, NEW j \in JobNo, Resume(j)
  PROVE  TypeOK' /\ IdsApart' /\ JobsOK'
<1> DEFINE r == [job[j] EXCEPT !.status = job[j].paused, !.paused = "NONE"]
<1>t. TypeOK /\ IdsApart /\ j \in queue
      /\ job[j].paused \in {"PENDING", "RUNNING"}
  BY DEF SpoolInv, Resume, TypeOK, JobType
<1>1. /\ r \in JobType /\ r.id = job[j].id /\ r.dir = job[j].dir
      /\ r.status = job[j].paused /\ r.paused = "NONE" /\ r.mPid = job[j].mPid
  BY <1>t DEF TypeOK, JobType, Statuses
<1>2. job' = [job EXCEPT ![j] = r]
  BY <1>t DEF Resume, TypeOK, JobType
<1>3. /\ UNCHANGED <<queue, nextId, added, disturbed, run, files, procs, moves,
                     crashes>>
      /\ UNCHANGED daemon /\ up /\ SaveQueue
  BY DEF Resume
<1>4. /\ run \in [JobNo -> Run] /\ moves \in 0 .. MaxMoves
         /\ crashes \in 0 .. MaxCrashes
      /\ files \in [Dir \X Id -> [Ext -> Content \cup {None, Emptied}]]
  BY <1>t DEF TypeOK
<1> HIDE DEF r
<1>5. /\ TypeOK' /\ IdsApart'
      /\ \A k \in queue \ disturbed : k # j => JobOK(k)'
      /\ \A k \in 1 .. added : PathOf(k)' = PathOf(k)
      /\ job'[j] = r
      /\ SavedAs(j, r.status)
  BY <1>t, <1>1, <1>2, <1>3, <1>4, OneJobStep
<1>6. ASSUME j \notin disturbed PROVE JobOK(j)'
  <2>1. JobOK(j) /\ ProcsOf(j)' \subseteq ProcsOf(j) /\ FilesOf(j)' = FilesOf(j)
        /\ run' = run
    BY <1>t, <1>3, <1>5, <1>6, FewerProcs, PathsApart
       DEF SpoolInv, JobsOK, FilesOf
  <2>2. Alone(j)' /\ Clean(j)' /\ Writes(j)' /\ Result(j)'
    BY <1>t, <1>1, <1>5, <2>1
       DEF JobOK, Alone, Clean, Waiting, Writes, Result, OwnOutput
  <2>3. Saved(j)' \in {"none", job[j].paused}
    BY <1>1, <1>3, <1>5 DEF SavedAs
  <2>4. InputThere(j)'
    BY <1>t, <1>1, <1>5, <2>1, <2>3 DEF JobOK, InputThere, Interrupted, HasInput
  <2> QED
    BY <1>t, <1>1, <1>5, <2>1, <2>2, <2>3, <2>4 DEF JobOK
<1> QED
  BY <1>3, <1>5, <1>6 DEF JobsOK

(* A process is forked: there was none before of a job that waits.         *)
LEMMA StartKeeps ==
  ASSUME SpoolInv, NEW j \in JobNo, Start(j)
  PROVE  TypeOK' /\ IdsApart' /\ JobsOK'
<1>t. /\ TypeOK /\ IdsApart /\ j \in queue /\ job[j].status = "PENDING"
      /\ job[j] \in JobType /\ j \in 1 .. added
      /\ run \in [JobNo -> Run] /\ moves \in 0 .. MaxMoves
         /\ crashes \in 0 .. MaxCrashes
      /\ files \in [Dir \X Id -> [Ext -> Content \cup {None, Emptied}]]
      /\ up /\ SaveQueue /\ UNCHANGED daemon
      /\ UNCHANGED <<queue, nextId, added, disturbed, moves, crashes>>
  BY PathsApart DEF SpoolInv, Start, Forked, IsNext, HasStatus, TypeOK
<1>1. CASE /\ Forked(j)
           /\ job' = [job EXCEPT ![j].status = "RUNNING", ![j].mPid = TRUE]
           /\ UNCHANGED files
  <2> DEFINE r == [job[j] EXCEPT !.status = "RUNNING", !.mPid = TRUE]
             new == [of |-> j, run |-> run[j] + 1, at |-> "forked"]
  <2>1. /\ r \in JobType /\ r.id = job[j].id /\ r.dir = job[j].dir
        /\ r.status = "RUNNING" /\ r.paused = job[j].paused /\ r.mPid
    BY <1>t DEF JobType, Statuses
  <2>2. job' = [job EXCEPT ![j] = r]
    BY <1>1, <1>t DEF TypeOK, JobType
  <2>3. run[j] + 1 \in Run
    <3>1. run[j] \in 0 .. MaxCrashes + 1 /\ run[j] <= MaxCrashes
          /\ MaxCrashes \in Nat
      BY <1>1, <1>t, BoundsAssumption DEF Forked, Run
    <3> QED
      BY ONLY <3>1 DEF Run
  <2>4. /\ run' \in [JobNo -> Run] /\ run'[j] = run[j] + 1
        /\ \A k \in JobNo \ {j} : run'[k] = run[k]
        /\ procs' = procs \cup {new}
    BY <1>1, <1>t, <2>3 DEF Forked
  <2>5. new \in Process /\ new.of = j /\ new.run = run[j] + 1 /\ new.at = "forked"
    BY <2>3 DEF Process
  <2> HIDE DEF r, new
  <2>6. \A p \in procs' : p \in procs \/ (p \in Process /\ p.of = j)
    BY <2>4, <2>5
  <2>7. /\ TypeOK' /\ IdsApart'
        /\ \A k \in queue \ disturbed : k # j => JobOK(k)'
        /\ \A k \in 1 .. added : PathOf(k)' = PathOf(k)
        /\ job'[j] = r
        /\ SavedAs(j, r.status)
    BY <1>1, <1>t, <2>1, <2>2, <2>4, <2>6, OneJobStep
  <2>8. ASSUME j \notin disturbed PROVE JobOK(j)'
    <3>1. JobOK(j) /\ FilesOf(j)' = FilesOf(j)
      BY <1>1, <1>t, <2>7, <2>8 DEF SpoolInv, JobsOK, FilesOf
    <3>2. ProcsOf(j) = {}
      BY <1>t, <3>1 DEF JobOK, Alone, Clean, Waiting
    <3>3. ProcsOf(j)' \subseteq {new}
      <4>1. ASSUME NEW p \in procs, PathOf(p.of)' = PathOf(j)' PROVE p \in ProcsOf(j)
        BY <1>t, <2>7, <4>1, PathsApart DEF ProcsOf
      <4> QED
        BY <2>4, <3>2, <4>1 DEF ProcsOf
    <3>4. Alone(j)'
      <4>1. \A p \in ProcsOf(j)' : p = new
        BY <3>3
      <4>2. job'[j].mPid /\ run'[j] = run[j] + 1
        BY <2>1, <2>4, <2>7
      <4> QED
        BY <2>5, <4>1, <4>2 DEF Alone
    <3>7. Clean(j)' /\ Result(j)'
      BY <1>t, <2>1, <2>7, <3>1 DEF JobOK, Clean, Waiting, Result
    <3>8. Writes(j)'
      BY <2>5, <3>3 DEF Writes
    <3>5. InputThere(j)'
      BY <1>t, <2>1, <2>7, <3>1 DEF JobOK, InputThere, HasInput
    <3>6. Saved(j)' \in {"none", "RUNNING"}
      BY <1>t, <2>1, <2>7 DEF SavedAs
    <3> QED
      BY <1>t, <2>1, <2>7, <3>1, <3>4, <3>5, <3>6, <3>7, <3>8
         DEF JobOK, Interrupted
  <2> QED
    BY <1>t, <2>7, <2>8 DEF JobsOK
<1>2. CASE /\ SetStatus(j, "ERROR")
           /\ files' = [files EXCEPT ![PathOf(j)]["log"] = Emptied]
           /\ UNCHANGED <<run, procs>>
  <2> DEFINE r == [job[j] EXCEPT !.status = "ERROR"]
  <2>1. /\ r \in JobType /\ r.id = job[j].id /\ r.dir = job[j].dir
        /\ r.status = "ERROR" /\ r.paused = job[j].paused /\ r.mPid = job[j].mPid
    BY <1>t DEF JobType, Statuses
  <2>2. job' = [job EXCEPT ![j] = r]
    BY <1>2, <1>t DEF SetStatus, TypeOK
  <2>3. /\ files' \in [Dir \X Id -> [Ext -> Content \cup {None, Emptied}]]
        /\ \A k \in queue \ {j} : files'[PathOf(k)] = files[PathOf(k)]
        /\ files'[PathOf(j)]["inp"] = files[PathOf(j)]["inp"]
    <3>1. /\ PathOf(j) \in Dir \X Id /\ "log" \in Ext /\ "inp" \in Ext
          /\ \A k \in queue \ {j} : PathOf(k) \in Dir \X Id /\ PathOf(k) # PathOf(j)
      BY <1>t, PathsApart DEF Ext, Outputs
    <3> QED
      BY <1>2, <1>t, <3>1
  <2> HIDE DEF r
  <2>4. /\ TypeOK' /\ IdsApart'
        /\ \A k \in queue \ disturbed : k # j => JobOK(k)'
        /\ \A k \in 1 .. added : PathOf(k)' = PathOf(k)
        /\ job'[j] = r
        /\ SavedAs(j, r.status)
    BY <1>2, <1>t, <2>1, <2>2, <2>3, OneJobStep
  <2>5. ASSUME j \notin disturbed PROVE JobOK(j)'
    <3>1. JobOK(j) /\ ProcsOf(j)' \subseteq ProcsOf(j) /\ run' = run
      BY <1>2, <1>t, <2>4, <2>5, FewerProcs DEF SpoolInv, JobsOK
    <3>2. ProcsOf(j) = {}
      BY <1>t, <3>1 DEF JobOK, Alone, Clean, Waiting
    <3>3. Alone(j)' /\ Clean(j)' /\ Writes(j)' /\ Result(j)'
      BY <1>t, <2>1, <2>4, <3>1, <3>2
         DEF JobOK, Alone, Clean, Waiting, Writes, Result
    <3>4. InputThere(j)'
      BY <1>t, <2>1, <2>3, <2>4, <3>1 DEF JobOK, InputThere, HasInput, FilesOf
    <3>5. Saved(j)' \in {"none", "ERROR"}
      BY <1>t, <2>1, <2>4 DEF SavedAs
    <3> QED
      BY <1>t, <2>1, <2>4, <3>1, <3>3, <3>4, <3>5 DEF JobOK
  <2> QED
    BY <1>t, <2>4, <2>5 DEF JobsOK
<1> QED
  BY <1>1, <1>2 DEF Start

(* The end of a job: its log is whole, and nothing writes to it any more.  *)
LEMMA EndKeeps ==
  ASSUME SpoolInv, NEW j \in JobNo, End(j)
  PROVE  TypeOK' /\ IdsApart' /\ JobsOK'
<1>t. /\ TypeOK /\ IdsApart /\ j \in queue /\ job[j].mPid
      /\ job[j].status \in {"RUNNING", "PAUSED", "CANCELED"}
      /\ job[j] \in JobType /\ j \in 1 .. added /\ run[j] \in Run
      /\ run \in [JobNo -> Run] /\ moves \in 0 .. MaxMoves
         /\ crashes \in 0 .. MaxCrashes
      /\ files \in [Dir \X Id -> [Ext -> Content \cup {None, Emptied}]]
      /\ up /\ UNCHANGED daemon /\ (SaveQueue \/ UNCHANGED queueDat)
      /\ UNCHANGED <<queue, nextId, added, disturbed, run, moves, crashes>>
      /\ procs' = Reaped(j)
  BY PathsApart DEF SpoolInv, End, Interrupted, TypeOK
<1>p. /\ PathOf(j) \in Dir \X Id /\ "log" \in Ext /\ "inp" \in Ext
         /\ "log" \notin RefusedExts
      /\ RefusedExts \subseteq Ext
      /\ \A k \in queue \ {j} : PathOf(k) \in Dir \X Id /\ PathOf(k) # PathOf(j)
  BY <1>t, PathsApart DEF Ext, Outputs, RefusedExts
<1>2. PICK st \in {"DONE", "ERROR"} :
        /\ job' = [job EXCEPT ![j].status = st]
        /\ st = "DONE" => IsAt(j, "running")
        /\ \/ /\ UNCHANGED files
              /\ st = "DONE" => FilesOf(j)["log"] # Written(j, run[j], FALSE)
           \/ files' = [files EXCEPT ![PathOf(j)]["log"] = Written(j, run[j], TRUE)]
  BY DEF End, SetStatus, FilesOf
<1>1. /\ \A e \in Ext : e # "log" => files'[PathOf(j)][e] = files[PathOf(j)][e]
      /\ files' \in [Dir \X Id -> [Ext -> Content \cup {None, Emptied}]]
      /\ \A k \in queue \ {j} : files'[PathOf(k)] = files[PathOf(k)]
  <2>1. Written(j, run[j], TRUE) \in Content
    BY <1>t DEF Written, Content
  <2> HIDE DEF Written, Content
  <2>2. CASE UNCHANGED files
    BY <1>t, <2>2
  <2>3. CASE files' = [files EXCEPT ![PathOf(j)]["log"] = Written(j, run[j], TRUE)]
    BY <1>t, <1>p, <2>1, <2>3
  <2> QED
    BY <1>2, <2>2, <2>3
<1> DEFINE r == [job[j] EXCEPT !.status = st]
<1>3. /\ r \in JobType /\ r.id = job[j].id /\ r.dir = job[j].dir
      /\ r.status = st /\ r.paused = job[j].paused /\ r.mPid
  BY <1>t, <1>2 DEF JobType, Statuses
<1>4. job' = [job EXCEPT ![j] = r]
  BY <1>2, <1>t DEF TypeOK
<1> HIDE DEF r
<1>5. procs' \subseteq procs
  BY <1>t DEF Reaped
<1>6. /\ TypeOK' /\ IdsApart'
      /\ \A k \in queue \ disturbed : k # j => JobOK(k)'
      /\ \A k \in 1 .. added : PathOf(k)' = PathOf(k)
      /\ job'[j] = r
      /\ SavedAs(j, r.status)
  BY <1>t, <1>1, <1>3, <1>4, <1>5, OneJobStep
<1>7. ASSUME j \notin disturbed PROVE JobOK(j)'
  <2>1. JobOK(j) /\ ProcsOf(j)' \subseteq ProcsOf(j)
    BY <1>t, <1>5, <1>6, <1>7, FewerProcs DEF SpoolInv, JobsOK
  <2>2. ProcsOf(j)' = {}
    BY <1>t, <2>1 DEF JobOK, Alone, ProcsOf, Reaped, IsOf
  <2>3. job[j].paused # "PENDING"
    BY <1>t, <2>1 DEF JobOK, Clean, Waiting
  <2>4. Alone(j)' /\ Clean(j)' /\ Writes(j)'
    BY <1>2, <1>3, <1>6, <2>2, <2>3 DEF Alone, Clean, Waiting, Writes
  <2>5. Saved(j)' \in {"none", "CANCELED", r.status} \cup Interrupted
    <3>1. CASE SaveQueue
      BY <1>6, <3>1 DEF SavedAs
    <3>2. CASE UNCHANGED queueDat
      BY <1>t, <1>6, <2>1, <3>2 DEF SavedAs, JobOK, Interrupted
    <3> QED
      BY <1>t, <3>1, <3>2
  <2>6. InputThere(j)'
    BY <1>t, <1>p, <1>1, <1>6, <2>1 DEF JobOK, InputThere, FilesOf, Written
  <2>7. Result(j)'
    <3> SUFFICES ASSUME st = "DONE"
                 PROVE  files'[PathOf(j)]["log"] = Written(j, run[j], TRUE)
                        /\ OwnOutput(j)'
      BY <1>t, <1>3, <1>6, <2>2 DEF Result, FilesOf
    <3>1. IsAt(j, "running")
      BY <1>2
    <3>2. [of |-> j, run |-> run[j], at |-> "running"] \in ProcsOf(j)
      BY <3>1 DEF IsAt, ProcsOf
    <3>3. files[PathOf(j)]["log"] = Written(j, run[j], FALSE) /\ OwnOutput(j)
      BY <2>1, <3>2 DEF JobOK, Writes, FilesOf
    <3>4. OwnOutput(j)'
      BY <1>t, <1>p, <1>1, <1>6, <3>3 DEF OwnOutput, FilesOf, Written
    <3>5. files'[PathOf(j)]["log"] = Written(j, run[j], TRUE)
      <4>1. files' = [files EXCEPT ![PathOf(j)]["log"] = Written(j, run[j], TRUE)]
        BY <1>2, <3>3 DEF FilesOf
      <4> QED
        BY <1>t, <1>p, <4>1
    <3> QED
      BY <3>4, <3>5
  <2> QED
    BY <1>3, <1>6, <2>3, <2>4, <2>5, <2>6, <2>7 DEF JobOK
<1> QED
  BY <1>t, <1>6, <1>7 DEF JobsOK

-----------------------------------------------------------------------------
(* Commands on the queue.                                                  *)

(* A job that is added has a place where no other job of the queue is, and *)
(* unless one that left it still writes there, nobody writes.              *)
LEMMA AddKeeps ==
  ASSUME SpoolInv, Add
  PROVE  TypeOK' /\ IdsApart' /\ JobsOK'
<1> DEFINE path == <<spoolDir, nextId>>
<1>j. PICK j : j = added + 1
  OBVIOUS
<1>t. /\ TypeOK /\ IdsApart /\ QueueAtConfig
      /\ added \in Nat /\ MaxJobs \in Nat /\ added < MaxJobs
      /\ nextId \in 0 .. added /\ queue \subseteq 1 .. added /\ spoolDir \in Dir
      /\ job \in [JobNo -> JobType]
      /\ files \in [Dir \X Id -> [Ext -> Content \cup {None, Emptied}]]
      /\ up /\ SaveQueue /\ UNCHANGED daemon /\ UNCHANGED <<run, procs>>
  BY BoundsAssumption DEF SpoolInv, Add, TypeOK
<1>1. PICK copied \in {FALSE, (spoolDir \in made)} :
        /\ job' = [job EXCEPT ![j] =
             NewJob(nextId, spoolDir, IF copied THEN "PENDING" ELSE "ERROR")]
        /\ files' = IF copied
                    THEN [files EXCEPT ![path]["inp"] = Written(j, 0, TRUE)]
                    ELSE files
        /\ queue' = queue \cup {j} /\ added' = j /\ nextId' = nextId + 1
        /\ disturbed' = disturbed \cup
             {k \in {j} : \E p \in procs : PathOf(p.of) = path}
  BY <1>j DEF Add
<1>2. /\ j \in JobNo /\ nextId \in Id /\ j \notin 1 .. added /\ path \in Dir \X Id
      /\ nextId' \in 0 .. added' /\ added' \in 0 .. MaxJobs /\ added' >= added
      /\ queue' \subseteq 1 .. added' /\ added' = j /\ added <= j
  <2>1. j \in JobNo /\ nextId \in Id /\ j \notin 1 .. added /\ j >= added
        /\ nextId + 1 \in 0 .. j /\ j \in 0 .. MaxJobs
           /\ queue \cup {j} \subseteq 1 .. j
    BY <1>j, <1>t DEF JobNo, Id
  <2> QED
    BY <1>1, <1>t, <2>1
<1> DEFINE new == NewJob(nextId, spoolDir, IF copied THEN "PENDING" ELSE "ERROR")
<1>3. /\ new \in JobType /\ new.id = nextId /\ new.dir = spoolDir
      /\ new.status = (IF copied THEN "PENDING" ELSE "ERROR")
      /\ new.paused = "NONE" /\ new.mPid = FALSE
  BY <1>t, <1>2 DEF NewJob, JobType, Statuses
<1>4. job' = [job EXCEPT ![j] = new]
  BY <1>1
<1> HIDE DEF new, path
<1>5. /\ job' \in [JobNo -> JobType] /\ job'[j] = new
      /\ \A k \in 1 .. added : k \in JobNo /\ job'[k] = job[k] /\ PathOf(k)' = PathOf(k)
  <2>1. \A k \in 1 .. added : k \in JobNo /\ k # j
    BY <1>t, <1>2, PathsApart
  <2>2. \A k \in 1 .. added : job'[k] = job[k]
    BY <1>t, <1>4, <2>1
  <2> QED
    BY <1>t, <1>2, <1>3, <1>4, <2>1, <2>2 DEF PathOf
<1>6. PathOf(j)' = path
  BY <1>3, <1>5 DEF PathOf, path
<1>7. \A k \in queue : PathOf(k) # path
  <2>1. \A k \in queue : job[k].id < nextId /\ job[k].id \in Nat
    BY <1>t, <1>5 DEF IdsApart, Apart, JobType, Id
  <2> QED
    BY <1>t, <2>1 DEF PathOf, path
<1>8. QueueOK' /\ KeepPaths
  <2>1. Apart(queue, nextId)'
    <3>1. /\ \A k \in queue : job'[k].id = job[k].id /\ job[k].id < nextId
                              /\ job[k].id \in Nat
          /\ \A k, l \in queue : job[k].id = job[l].id => k = l
          /\ job'[j].id = nextId /\ nextId \in Nat
      BY <1>t, <1>3, <1>5 DEF IdsApart, Apart, JobType, Id
    <3>2. \A k \in queue' : job'[k].id < nextId'
      BY <1>1, <3>1
    <3>3. \A k, l \in queue' : job'[k].id = job'[l].id => k = l
      BY <1>1, <3>1
    <3> QED
      BY <3>2, <3>3 DEF Apart
  <2>2. KeepPaths
    BY <1>2, <1>5 DEF KeepPaths
  <2> QED
    BY <1>2, <1>5, <2>1, <2>2 DEF QueueOK
<1>9. /\ queueDat' = [d \in Dir |-> queueDat'[d]]
      /\ \A d \in Dir : DatOK(d)'
      /\ IdsApart'
      /\ \A k \in queue' : Saved(k)' \in {"none", job'[k].status}
  BY <1>t, <1>8, SaveQueueIsOK
<1>10. /\ files' \in [Dir \X Id -> [Ext -> Content \cup {None, Emptied}]]
       /\ \A k \in queue : files'[PathOf(k)] = files[PathOf(k)]
       /\ copied => files'[path]["inp"] = Written(j, 0, TRUE)
  <2>1. Written(j, 0, TRUE) \in Content /\ "inp" \in Ext
    BY <1>2, BoundsAssumption DEF Written, Content, Run, Ext
  <2>2. \A k \in queue : PathOf(k) \in Dir \X Id
    BY <1>t, PathsApart
  <2> HIDE DEF Written, Content
  <2>3. CASE copied
             /\ files' = [files EXCEPT ![path]["inp"] = Written(j, 0, TRUE)]
    BY <1>t, <1>2, <1>7, <2>1, <2>2, <2>3
  <2>4. CASE ~copied /\ files' = files
    BY <1>t, <2>4
  <2> QED
    BY <1>1, <2>3, <2>4
<1>11. TypeOK'
  <2>1. \A p \in procs' : p \in Process /\ p.of <= added'
    <3>1. \A p \in procs : p \in Process /\ p.of \in 1 .. added /\ p.of <= added
      BY <1>t, PathsApart DEF TypeOK
    <3> QED
      BY <1>t, <1>2, <3>1
  <2>2. /\ run' \in [JobNo -> Run]
        /\ \A k \in JobNo : run'[k] > 0 => k <= added'
    <3>1. \A k \in JobNo : k \in Nat
      BY DEF JobNo
    <3>2. run \in [JobNo -> Run] /\ \A k \in JobNo : run[k] > 0 => k <= added
      BY <1>t DEF TypeOK
    <3> QED
      BY <1>t, <1>2, <3>1, <3>2
  <2>3. disturbed' \subseteq 1 .. added'
    <3>1. disturbed \subseteq 1 .. added
      BY <1>t DEF TypeOK
    <3>2. 1 .. added \subseteq 1 .. added' /\ j \in 1 .. added'
      BY <1>j, <1>t, <1>2
    <3> QED
      BY <1>1, <3>1, <3>2
  <2>4. moves' = moves /\ crashes' = crashes
    BY DEF Add
  <2> QED
    BY <1>t, <1>2, <1>5, <1>9, <1>10, <2>1, <2>2, <2>3, <2>4 DEF TypeOK, daemon
<1>12. ASSUME NEW k \in queue' \ disturbed', k # j PROVE JobOK(k)'
  <2>1. k \in queue \ disturbed /\ k \in 1 .. added
    BY <1>1, <1>t, <1>12
  <2> QED
    BY <1>t, <1>5, <1>9, <1>10, <1>12, <2>1, SettledKeeps
<1>13. ASSUME j \notin disturbed' PROVE JobOK(j)'
  <2>1. ProcsOf(j)' = {}
    <3>1. \A p \in procs : PathOf(p.of) # path /\ p.of \in 1 .. added
      BY <1>1, <1>13, <1>t, PathsApart
    <3> QED
      BY <1>t, <1>5, <1>6, <3>1 DEF ProcsOf
  <2>2. run'[j] = 0
    <3>1. run[j] \in Nat /\ ~(j <= added) /\ run' = run
      BY <1>j, <1>t, <1>2 DEF TypeOK, Run
    <3> QED
      BY <1>t, <1>2, <3>1 DEF TypeOK
  <2>3. Alone(j)' /\ Clean(j)' /\ Writes(j)' /\ Result(j)'
    <3>1. job'[j].status # "DONE" /\ job'[j].mPid = FALSE /\ ~(run'[j] > 0)
      BY <1>3, <1>5, <2>2
    <3> QED
      BY <2>1, <3>1 DEF Alone, Clean, Writes, Result
  <2>4. Saved(j)' \in {"none", new.status}
    BY <1>1, <1>5, <1>9
  <2>5. InputThere(j)'
    BY <1>3, <1>5, <1>6, <1>10, <2>4
       DEF InputThere, FilesOf, HasInput, Interrupted
  <2> QED
    BY <1>3, <1>5, <2>3, <2>4, <2>5 DEF JobOK
<1> QED
  BY <1>9, <1>11, <1>12, <1>13 DEF JobsOK

(* Jobs that leave the queue take their files along, and no other's.       *)
LEMMA DiscardKeeps ==
  ASSUME SpoolInv, NEW js \in SUBSET queue, up, Discard(js)
  PROVE  TypeOK' /\ IdsApart' /\ JobsOK'
<1>t. /\ TypeOK /\ IdsApart /\ QueueAtConfig
      /\ added \in Nat /\ added \in 0 .. MaxJobs /\ nextId \in 0 .. added
      /\ queue \subseteq 1 .. added /\ job \in [JobNo -> JobType]
      /\ files \in [Dir \X Id -> [Ext -> Content \cup {None, Emptied}]]
      /\ SaveQueue /\ UNCHANGED daemon
      /\ UNCHANGED <<nextId, run, added, moves, crashes>>
      /\ queue' = queue \ js /\ disturbed' = disturbed \ js
  BY BoundsAssumption DEF SpoolInv, Discard, TypeOK
<1>p. /\ \A j \in 1 .. added : j \in JobNo /\ PathOf(j) \in Dir \X Id
      /\ \A j, k \in queue : PathOf(j) = PathOf(k) => j = k
  BY <1>t, PathsApart
<1>1. procs' \subseteq procs
  BY DEF Discard, Signalled
<1>2. /\ job' \in [JobNo -> JobType]
      /\ \A k \in JobNo : job'[k].id = job[k].id /\ job'[k].dir = job[k].dir
      /\ \A k \in JobNo \ js : job'[k] = job[k]
  <2>1. job' = [j \in JobNo |->
                  IF j \in js THEN NewJob(job[j].id, job[j].dir, "CANCELED")
                  ELSE job[j]]
    BY DEF Discard
  <2>2. \A k \in JobNo :
          LET r == NewJob(job[k].id, job[k].dir, "CANCELED")
          IN r \in JobType /\ r.id = job[k].id /\ r.dir = job[k].dir
    BY <1>t DEF NewJob, JobType, Statuses
  <2> HIDE DEF NewJob, JobType
  <2> QED
    BY <1>t, <2>1, <2>2
<1>3. \A k \in 1 .. added : PathOf(k)' = PathOf(k)
  BY <1>p, <1>2 DEF PathOf
<1>4. QueueOK' /\ KeepPaths
  <2>1. Apart(queue, nextId)'
    BY <1>t, <1>p, <1>2 DEF IdsApart, Apart
  <2> QED
    BY <1>t, <1>p, <1>2, <2>1 DEF QueueOK, KeepPaths
<1>5. /\ queueDat' = [d \in Dir |-> queueDat'[d]]
      /\ \A d \in Dir : DatOK(d)'
      /\ IdsApart'
      /\ \A k \in queue' : Saved(k)' \in {"none", job'[k].status}
  BY <1>t, <1>4, SaveQueueIsOK
<1>6. /\ files' \in [Dir \X Id -> [Ext -> Content \cup {None, Emptied}]]
      /\ \A k \in queue \ js : files'[PathOf(k)] = files[PathOf(k)]
  <2>1. files' = [p \in Dir \X Id |->
                   IF \E j \in js : PathOf(j) = p
                   THEN [e \in Ext |-> IF e \in ClearedExts THEN None
                                       ELSE files[p][e]]
                   ELSE files[p]]
    BY DEF Discard
  <2>2. \A p \in Dir \X Id : files'[p] \in [Ext -> Content \cup {None, Emptied}]
    BY <1>t, <2>1
  <2>3. \A k \in queue \ js : PathOf(k) \in Dir \X Id
                              /\ ~(\E j \in js : PathOf(j) = PathOf(k))
    BY <1>t, <1>p
  <2> QED
    BY <2>1, <2>2, <2>3
<1>7. TypeOK'
  BY <1>t, <1>1, <1>2, <1>5, <1>6 DEF TypeOK, daemon
<1>8. ASSUME NEW k \in queue' \ disturbed' PROVE JobOK(k)'
  <2>1. k \in queue \ disturbed /\ k \notin js /\ k \in JobNo
    BY <1>t, <1>p, <1>8
  <2> QED
    BY <1>t, <1>1, <1>2, <1>3, <1>5, <1>6, <1>8, <2>1, SettledKeeps
<1> QED
  BY <1>5, <1>7, <1>8 DEF JobsOK

-----------------------------------------------------------------------------
(* Changes of the directory, crashes, and the start of a daemon.           *)

(* COMMAND_SPOOLDIR: what is copied changes no file of a job that counts.  *)
LEMMA SetSpoolDirKeeps ==
  ASSUME SpoolInv, NEW d \in Dir, SetSpoolDir(d)
  PROVE  TypeOK' /\ IdsApart' /\ JobsOK'
<1>t. /\ TypeOK /\ IdsApart
      /\ spoolDir \in Dir /\ queue \subseteq 1 .. added
      /\ files \in [Dir \X Id -> [Ext -> Content \cup {None, Emptied}]]
      /\ UNCHANGED <<queue, nextId, job, run, added, procs, crashes, up>>
      /\ spoolDir' = d /\ config' = d /\ misled' = (d \notin made')
      /\ SaveQueueIn(d, made')
      /\ moves < MaxMoves /\ moves' = moves + 1
  BY DEF SpoolInv, SetSpoolDir, TypeOK, jobs
<1>p. /\ \A j \in 1 .. added : j \in JobNo /\ PathOf(j) \in Dir \X Id
                               /\ PathOf(j)[1] = job[j].dir
      /\ \A p \in procs : p.of \in 1 .. added
  BY <1>t, PathsApart DEF PathOf
<1>1. made' \subseteq Dir /\ disturbed' = disturbed \cup Overwritten
      /\ Overwritten \subseteq queue
  BY <1>t DEF SetSpoolDir, Overwritten, TypeOK
<1>2. files' \in [Dir \X Id -> [Ext -> Content \cup {None, Emptied}]]
  <2>1. CASE files' = CopyAll(spoolDir, d)
    BY <1>t, <2>1 DEF CopyAll
  <2>2. CASE files' = files
    BY <1>t, <2>2
  <2> QED
    BY <2>1, <2>2 DEF SetSpoolDir
<1>3. ASSUME NEW k \in queue, k \notin disturbed', NEW e \in Ext
      PROVE  files'[PathOf(k)][e] = files[PathOf(k)][e]
  BY <1>1, <1>3 DEF Overwritten
<1>4. QueueOK' /\ KeepPaths
  <2>1. QueueOK' /\ added \in Nat
    BY <1>t, BoundsAssumption DEF TypeOK, QueueOK, IdsApart, Apart
  <2> QED
    BY <1>t, <2>1 DEF KeepPaths
<1>5. /\ queueDat' = [e \in Dir |-> queueDat'[e]]
      /\ \A e \in Dir : DatOK(e)'
      /\ IdsApart'
      /\ \A k \in queue' : Saved(k)' \in {"none", job'[k].status}
  BY <1>t, <1>4, SaveIsOK DEF Saved
<1>6. TypeOK'
  <2>1. moves' \in 0 .. MaxMoves
    BY <1>t, BoundsAssumption DEF TypeOK
  <2> QED
    BY <1>t, <1>1, <1>2, <1>5, <2>1 DEF TypeOK
<1>7. ASSUME NEW k \in queue' \ disturbed' PROVE JobOK(k)'
  <2>1. k \in queue \ disturbed /\ k \in JobNo
    BY <1>t, <1>p, <1>1, <1>7
  <2>2. \A i \in 1 .. added : PathOf(i)' = PathOf(i)
    BY <1>t DEF PathOf
  <2> QED
    BY <1>t, <1>3, <1>5, <1>7, <2>1, <2>2, SettledKeeps
<1> QED
  BY <1>5, <1>6, <1>7 DEF JobsOK

(* The directory in use by another name: jobs whose files are emptied no   *)
(* longer count.                                                           *)
LEMMA SetSameDirKeeps ==
  ASSUME SpoolInv, SetSameDir
  PROVE  TypeOK' /\ IdsApart' /\ JobsOK'
<1>t. /\ TypeOK /\ IdsApart /\ QueueAtConfig /\ up
      /\ queue \subseteq 1 .. added
      /\ files \in [Dir \X Id -> [Ext -> Content \cup {None, Emptied}]]
      /\ UNCHANGED <<queue, nextId, job, run, added, procs, crashes>>
      /\ UNCHANGED daemon /\ SaveQueue
      /\ moves < MaxMoves /\ moves' = moves + 1
      /\ disturbed' = disturbed \cup Overwritten
  BY DEF SpoolInv, SetSameDir, TypeOK, jobs
<1>p. /\ \A j \in 1 .. added : j \in JobNo /\ PathOf(j) \in Dir \X Id
                               /\ PathOf(j)[1] = job[j].dir
      /\ \A p \in procs : p.of \in 1 .. added
  BY <1>t, PathsApart DEF PathOf
<1>2. files' \in [Dir \X Id -> [Ext -> Content \cup {None, Emptied}]]
  BY <1>t DEF SetSameDir
<1>4. QueueOK' /\ KeepPaths
  <2>1. QueueOK' /\ added \in Nat
    BY <1>t, BoundsAssumption DEF TypeOK, QueueOK, IdsApart, Apart
  <2> QED
    BY <1>t, <2>1 DEF KeepPaths
<1>5. /\ queueDat' = [e \in Dir |-> queueDat'[e]]
      /\ \A e \in Dir : DatOK(e)'
      /\ IdsApart'
      /\ \A k \in queue' : Saved(k)' \in {"none", job'[k].status}
  BY <1>t, <1>4, SaveQueueIsOK
<1>6. TypeOK'
  <2>1. moves' \in 0 .. MaxMoves
    BY <1>t, BoundsAssumption DEF TypeOK
  <2> QED
    BY <1>t, <1>2, <1>5, <2>1 DEF TypeOK, daemon, Overwritten
<1>7. ASSUME NEW k \in queue' \ disturbed' PROVE JobOK(k)'
  <2>1. k \in queue \ disturbed /\ k \in JobNo
    BY <1>t, <1>p, <1>7
  <2>2. \A i \in 1 .. added : PathOf(i)' = PathOf(i)
    BY <1>t DEF PathOf
  <2>3. \A e \in Ext : files'[PathOf(k)][e] = files[PathOf(k)][e]
    BY <1>t, <1>7, <2>1 DEF Overwritten
  <2> QED
    BY <1>t, <1>5, <1>7, <2>1, <2>2, <2>3, SettledKeeps
<1> QED
  BY <1>5, <1>6, <1>7 DEF JobsOK

(* Settings without a daemon, its end, and its death.                      *)
LEMMA NothingMoves ==
  ASSUME SpoolInv, up' \in BOOLEAN,
         UNCHANGED <<spoolDir, made, jobs, files, queueDat, disturbed>>,
         procs' \subseteq procs, config' \in Dir, misled' \in BOOLEAN,
         ~misled' => ~misled /\ config' = config,
         moves' \in 0 .. MaxMoves, crashes' \in 0 .. MaxCrashes
  PROVE  TypeOK' /\ IdsApart' /\ JobsOK'
<1>t. /\ TypeOK /\ IdsApart /\ queue \subseteq 1 .. added
      /\ UNCHANGED <<queue, nextId, job, run, added>>
  BY DEF SpoolInv, TypeOK, jobs
<1>1. \A j \in 1 .. added : j \in JobNo /\ PathOf(j)' = PathOf(j)
  BY <1>t, PathsApart DEF PathOf
<1>2. TypeOK'
  BY <1>t DEF TypeOK, DatOK
<1>3. IdsApart'
  BY <1>t DEF IdsApart, Apart
<1>4. ASSUME NEW k \in queue' \ disturbed' PROVE JobOK(k)'
  <2>1. k \in queue \ disturbed
    BY <1>t, <1>4
  <2>2. Saved(k)' \in {"none", job[k].status, Saved(k)}
    BY DEF Saved
  <2> QED
    BY <1>t, <1>1, <2>1, <2>2, SettledKeeps
<1> QED
  BY <1>2, <1>3, <1>4 DEF JobsOK

(* The daemon dies over a start: of the job it started nothing is promised.*)
LEMMA DieInStartKeeps ==
  ASSUME SpoolInv, NEW j \in JobNo, DieInStart(j)
  PROVE  TypeOK' /\ IdsApart' /\ JobsOK'
<1> DEFINE new == [of |-> j, run |-> run[j] + 1, at |-> "forked"]
<1>t. /\ TypeOK /\ IdsApart /\ queue \subseteq 1 .. added /\ j \in queue
      /\ run \in [JobNo -> Run] /\ run[j] <= MaxCrashes /\ MaxCrashes \in Nat
      /\ crashes < MaxCrashes /\ crashes' = crashes + 1 /\ up' = FALSE
      /\ UNCHANGED <<queue, nextId, job, added, config, spoolDir, made, misled,
                     files,
                     queueDat, moves>>
      /\ run' = [run EXCEPT ![j] = @ + 1]
      /\ procs' = procs \cup {new}
      /\ disturbed' = disturbed \cup {j}
  BY BoundsAssumption DEF SpoolInv, DieInStart, Forked, IsNext, HasStatus, TypeOK
<1>1. run[j] + 1 \in Run
  <2>1. run[j] \in 0 .. MaxCrashes + 1
    BY <1>t DEF Run
  <2> QED
    BY ONLY <1>t, <2>1 DEF Run
<1>2. new \in Process /\ new.of = j
  BY <1>1 DEF Process
<1> HIDE DEF new
<1>3. /\ \A i \in 1 .. added : i \in JobNo /\ PathOf(i)' = PathOf(i)
      /\ \A i, k \in queue : PathOf(i) = PathOf(k) => i = k
      /\ j \in 1 .. added /\ j <= added
  <2>1. j \in 1 .. added /\ added \in Nat
    BY <1>t, BoundsAssumption DEF TypeOK
  <2>2. j <= added
    BY ONLY <2>1
  <2>3. \A i \in 1 .. added : PathOf(i)' = PathOf(i)
    BY <1>t DEF PathOf
  <2> QED
    BY <1>t, <2>1, <2>2, <2>3, PathsApart
<1>4. TypeOK'
  <2>1. crashes' \in 0 .. MaxCrashes
    BY <1>t DEF TypeOK
  <2>2. run' \in [JobNo -> Run] /\ \A k \in JobNo : run'[k] > 0 => k <= added'
    <3>1. \A k \in JobNo : run[k] > 0 => k <= added
      BY <1>t DEF TypeOK
    <3>2. \A k \in JobNo : k # j => run'[k] = run[k]
      BY <1>t
    <3>3. run' \in [JobNo -> Run]
      BY <1>t, <1>1
    <3> QED
      BY <1>t, <1>3, <3>1, <3>2, <3>3
  <2>3. \A p \in procs' : p \in Process /\ p.of <= added
    BY <1>t, <1>2, <1>3 DEF TypeOK
  <2>4. disturbed' \subseteq 1 .. added
    BY <1>t, <1>3 DEF TypeOK
  <2> QED
    BY <1>t, <2>1, <2>2, <2>3, <2>4 DEF TypeOK, DatOK
<1>5. IdsApart'
  BY <1>t DEF IdsApart, Apart
<1>6. ASSUME NEW k \in queue' \ disturbed' PROVE JobOK(k)'
  <2>1. k \in queue \ disturbed /\ k # j /\ k \in JobNo
    BY <1>t, <1>3, <1>6
  <2>2. \A p \in procs' : \/ p \in procs
                          \/ p.of \in 1 .. added /\ PathOf(p.of) # PathOf(k)
    BY <1>t, <1>2, <1>3, <2>1
  <2>3. run'[k] = run[k]
    BY <1>t, <2>1
  <2>4. Saved(k)' = Saved(k)
    BY <1>t DEF Saved
  <2> QED
    BY <1>t, <1>3, <2>1, <2>2, <2>3, <2>4, SettledKeeps
<1> QED
  BY <1>4, <1>5, <1>6 DEF JobsOK

(* A job of the last queue, loaded again: what was saved of it tells of    *)
(* its files what the next daemon relies on.                               *)
LEMMA LoadedJob ==
  ASSUME SpoolInv, Boot, NEW k \in queue' \ disturbed'
  PROVE  /\ ~misled /\ queue' = queue /\ k \in queue \ disturbed
         /\ ProcsOf(k) = {}
         /\ Saved(k) = queueDat[config].status[k] /\ Saved(k) \in Statuses
         /\ JobOK(k)
<1>1. ~misled /\ k \notin disturbed /\ ~(\E p \in procs : p.of = k)
  BY DEF Boot
<1>2. queue' = queue
  BY <1>1 DEF SpoolInv, QueueAtConfig, HasQueue, Boot
<1>3. JobOK(k)
  BY <1>1, <1>2 DEF SpoolInv, JobsOK
<1>4. Saved(k) = queueDat[config].status[k] /\ Saved(k) \in Statuses
  <2>1. DatOK(config) /\ k \in DOMAIN queueDat[config].status
    BY <1>1, <1>2 DEF SpoolInv, TypeOK, QueueAtConfig, HasQueue
  <2> QED
    BY <1>1, <2>1 DEF Saved, DatOK
<1>5. ProcsOf(k) = {}
  BY <1>1, <1>3 DEF JobOK, Alone, ProcsOf
<1> QED
  BY <1>1, <1>2, <1>3, <1>4, <1>5

(* The start of a daemon: a job that was interrupted is clean again, and   *)
(* every other is as it was.                                               *)
LEMMA BootSpoolKeeps ==
  ASSUME SpoolInv, Boot
  PROVE  TypeOK' /\ IdsApart' /\ JobsOK'
<1> DEFINE dat == queueDat[config]
           again == {j \in DOMAIN dat.status : dat.status[j] \in Interrupted}
           as(j) == NewJob(job[j].id, job[j].dir,
                           IF j \in again THEN "PENDING" ELSE dat.status[j])
<1>t. /\ TypeOK /\ IdsApart /\ config \in Dir /\ DatOK(config)
      /\ added \in Nat /\ added \in 0 .. MaxJobs
      /\ files \in [Dir \X Id -> [Ext -> Content \cup {None, Emptied}]]
      /\ job \in [JobNo -> JobType]
      /\ up' = TRUE /\ spoolDir' = config
         /\ made' = made \cup ({config} \ Uncreatable)
      /\ queue' = DOMAIN dat.status /\ nextId' = dat.nextId
      /\ misled' = (config \in Uncreatable)
      /\ UNCHANGED <<config, run, added, procs, queueDat, moves, crashes>>
      /\ disturbed' \subseteq queue'
  BY BoundsAssumption DEF SpoolInv, Boot, TypeOK
<1>1. /\ job' = [j \in JobNo |-> IF j \in DOMAIN dat.status THEN as(j) ELSE job[j]]
      /\ files' = [p \in Dir \X Id |->
                     IF \E j \in again : PathOf(j) = p
                     THEN [e \in Ext |-> IF e \in ReloadedExts THEN None
                                         ELSE files[p][e]]
                     ELSE files[p]]
  BY DEF Boot
<1>2. /\ queue' \subseteq 1 .. added /\ nextId' \in 0 .. added
      /\ \A j \in queue' : dat.status[j] \in Statuses
  BY <1>t DEF DatOK
<1>3. \A j \in queue' : /\ as(j) \in JobType
                        /\ as(j).id = job[j].id /\ as(j).dir = job[j].dir
                        /\ as(j).status = (IF j \in again THEN "PENDING"
                                           ELSE dat.status[j])
                        /\ as(j).paused = "NONE" /\ as(j).mPid = FALSE
  <2> SUFFICES ASSUME NEW j \in queue'
               PROVE  /\ as(j) \in JobType
                      /\ as(j).id = job[j].id /\ as(j).dir = job[j].dir
                      /\ as(j).status = (IF j \in again THEN "PENDING"
                                         ELSE dat.status[j])
                      /\ as(j).paused = "NONE" /\ as(j).mPid = FALSE
    OBVIOUS
  <2>1. job[j] \in JobType
    BY <1>t, <1>2, PathsApart
  <2>2. (IF j \in again THEN "PENDING" ELSE dat.status[j]) \in Statuses
    BY <1>2 DEF Statuses
  <2> HIDE DEF again, dat
  <2> QED
    BY <2>1, <2>2 DEF NewJob, JobType
<1>4. /\ \A j \in 1 .. added : j \in JobNo /\ PathOf(j) \in Dir \X Id
      /\ \A j, k \in queue : PathOf(j) = PathOf(k) => j = k
  BY <1>t, PathsApart
<1> HIDE DEF as
<1>5. /\ job' \in [JobNo -> JobType]
      /\ \A j \in queue' : job'[j] = as(j)
      /\ \A j \in JobNo : job'[j].id = job[j].id /\ job'[j].dir = job[j].dir
  <2>1. \A j \in queue' : j \in JobNo
    BY <1>2, <1>4
  <2> QED
    BY <1>t, <1>1, <1>3, <2>1
<1>6. \A j \in 1 .. added : PathOf(j)' = PathOf(j)
  BY <1>4, <1>5 DEF PathOf
<1>7. files' \in [Dir \X Id -> [Ext -> Content \cup {None, Emptied}]]
  <2>1. \A p \in Dir \X Id : files'[p] \in [Ext -> Content \cup {None, Emptied}]
    BY <1>t, <1>1
  <2> QED
    BY <1>1, <2>1
<1>8. IdsApart'
  <2>1. QueueOK' /\ KeepPaths
    <3>1. Apart(queue, nextId)'
      <4>1. Apart(DOMAIN dat.status, dat.nextId)
        BY <1>t DEF IdsApart
      <4> QED
        BY <1>t, <1>2, <1>4, <1>5, <4>1 DEF Apart
    <3> QED
      BY <1>t, <1>2, <1>4, <1>5, <3>1 DEF QueueOK, KeepPaths
  <2> QED
    BY <1>t, <2>1, NoSaveIsOK
<1>9. TypeOK'
  <2>1. made' \subseteq Dir
    BY <1>t DEF TypeOK
  <2>2. \A d \in Dir : DatOK(d)'
    BY <1>t DEF TypeOK, DatOK
  <2>3. disturbed' \subseteq 1 .. added
    BY <1>t, <1>2
  <2> HIDE DEF dat, again
  <2> QED
    BY <1>t, <1>2, <1>5, <1>7, <2>1, <2>2, <2>3 DEF TypeOK
<1>10. ASSUME NEW k \in queue' \ disturbed' PROVE JobOK(k)'
  <2>1. /\ ~misled /\ queue' = queue /\ k \in queue
        /\ ProcsOf(k) = {}
        /\ Saved(k) = dat.status[k] /\ Saved(k) \in Statuses
        /\ JobOK(k)
    BY <1>10, LoadedJob
  <2>2. /\ k \in 1 .. added /\ PathOf(k)' = PathOf(k) /\ PathOf(k) \in Dir \X Id
        /\ job'[k].paused = "NONE" /\ job'[k].mPid = FALSE
        /\ job'[k].status = (IF k \in again THEN "PENDING" ELSE Saved(k))
    BY <1>2, <1>3, <1>4, <1>5, <1>6, <2>1
  <2>3. k \in again <=> Saved(k) \in Interrupted
    BY <1>t, <2>1
  <2>4. /\ k \notin again => files'[PathOf(k)] = files[PathOf(k)]
        /\ k \in again => \A e \in Ext :
             files'[PathOf(k)][e] = IF e \in ReloadedExts THEN None
                                    ELSE files[PathOf(k)][e]
    <3>1. k \notin again => ~(\E j \in again : PathOf(j) = PathOf(k))
      BY <1>t, <1>4, <2>1
    <3> HIDE DEF again
    <3> QED
      BY <1>1, <2>2, <3>1
  <2> HIDE DEF again, dat
  <2>5. ProcsOf(k)' = {}
    <3>1. \A p \in procs : p.of \in 1 .. added
      BY <1>t, PathsApart
    <3> QED
      BY <1>t, <1>6, <2>1, <2>2, <3>1 DEF ProcsOf
  <2>6. Saved(k) # "none"
        /\ Saved(k) \in {"CANCELED", job[k].status} \cup Interrupted
    BY <2>1 DEF JobOK, Statuses
  <2>7. k \notin again => job'[k].status \in {"CANCELED", job[k].status}
    BY <2>2, <2>3, <2>6
  <2>8. Clean(k)'
    <3> SUFFICES ASSUME job'[k].status = "PENDING", run[k] > 0, NEW e \in Outputs
                 PROVE  files'[PathOf(k)][e] = None
      BY <1>t, <2>2 DEF Clean, Waiting, FilesOf
    <3>1. e \in Ext /\ e \in ReloadedExts
      BY DEF Outputs, ReloadedExts, Ext
    <3>2. CASE k \in again
      BY <2>4, <3>1, <3>2
    <3>3. CASE k \notin again
      BY <2>1, <2>4, <2>7, <3>3 DEF JobOK, Clean, Waiting, FilesOf
    <3> QED
      BY <3>2, <3>3
  <2>9. Saved(k)' \in {"none", "CANCELED", job'[k].status} \cup Interrupted
    BY <1>t, <2>1, <2>2, <2>3 DEF Saved
  <2>10. InputThere(k)'
    <3>1. files'[PathOf(k)]["inp"] = files[PathOf(k)]["inp"]
      BY <2>4 DEF Ext, ReloadedExts
    <3>2. CASE k \in again
      BY <2>1, <2>2, <2>3, <3>1, <3>2 DEF JobOK, InputThere, FilesOf
    <3>3. CASE k \notin again
      <4>1. Saved(k)' \notin Interrupted
        BY <1>t, <2>1, <2>3, <3>3 DEF Saved, Interrupted
      <4>2. job'[k].status \in HasInput => job[k].status \in HasInput
        BY <2>7, <3>3 DEF HasInput
      <4> QED
        BY <2>1, <2>2, <3>1, <4>1, <4>2 DEF JobOK, InputThere, FilesOf
    <3> QED
      BY <3>2, <3>3
  <2>11. Result(k)'
    <3> SUFFICES ASSUME job'[k].status = "DONE"
                 PROVE  Result(k)'
      BY DEF Result
    <3>1. k \notin again /\ job[k].status = "DONE"
      BY <2>2, <2>7
    <3> QED
      BY <1>t, <2>1, <2>2, <2>4, <2>5, <3>1 DEF JobOK, Result, OwnOutput, FilesOf
  <2>12. Alone(k)' /\ Writes(k)'
    BY <2>5 DEF Alone, Writes
  <2> QED
    BY <2>2, <2>8, <2>9, <2>10, <2>11, <2>12 DEF JobOK
<1> QED
  BY <1>8, <1>9, <1>10 DEF JobsOK

-----------------------------------------------------------------------------
(* The processes.                                                          *)

(* The process at the place of a job that counts is its only one, and the  *)
(* one of its last start.                                                  *)
LEMMA ItsProcess ==
  ASSUME SpoolInv, NEW k \in queue \ disturbed, NEW p \in procs,
         PathOf(p.of) = PathOf(k)
  PROVE  /\ JobOK(k) /\ p.of = k /\ p.run = run[k] /\ job[k].mPid
         /\ ProcsOf(k) = {p}
         /\ p = [of |-> k, run |-> run[k], at |-> p.at]
<1>1. JobOK(k) /\ p \in ProcsOf(k)
  BY DEF SpoolInv, JobsOK, ProcsOf
<1>2. p.of = k /\ p.run = run[k] /\ job[k].mPid /\ ProcsOf(k) = {p}
  BY <1>1 DEF JobOK, Alone
<1>3. p \in Process
  BY DEF SpoolInv, TypeOK
<1> QED
  BY <1>1, <1>2, <1>3 DEF Process

(* What a process does changes nothing else than files at its own place.   *)
LEMMA ProcessStep ==
  ASSUME SpoolInv, NEW p \in procs,
         UNCHANGED <<daemon, jobs, queueDat, moves, crashes, disturbed>>,
         procs' \subseteq Process,
         \A q \in procs' : q \in procs \/ q.of = p.of,
         files' \in [Dir \X Id -> [Ext -> Content \cup {None, Emptied}]],
         \A x \in Dir \X Id : x # PathOf(p.of) => files'[x] = files[x],
         \A k \in queue \ disturbed : PathOf(p.of) = PathOf(k) => JobOK(k)'
  PROVE  TypeOK' /\ IdsApart' /\ JobsOK'
<1>t. /\ TypeOK /\ IdsApart /\ queue \subseteq 1 .. added
      /\ UNCHANGED <<up, config, spoolDir, made, misled, queue, nextId, job, run,
                     added>>
      /\ UNCHANGED <<queueDat, moves, crashes, disturbed>>
  BY DEF SpoolInv, TypeOK, jobs, daemon
<1>1. /\ \A j \in 1 .. added : j \in JobNo /\ PathOf(j)' = PathOf(j)
                               /\ PathOf(j) \in Dir \X Id
      /\ \A q \in procs : q.of \in 1 .. added
  <2>1. \A j \in 1 .. added : PathOf(j)' = PathOf(j)
    BY <1>t DEF PathOf
  <2> QED
    BY <1>t, <2>1, PathsApart
<1>2. TypeOK'
  <2>1. \A q \in procs' : q.of <= added
    BY <1>t DEF TypeOK
  <2> QED
    BY <1>t, <2>1 DEF TypeOK, DatOK
<1>3. IdsApart'
  BY <1>t DEF IdsApart, Apart
<1>4. ASSUME NEW k \in queue' \ disturbed' PROVE JobOK(k)'
  <2>1. CASE PathOf(p.of) = PathOf(k)
    BY <1>t, <1>4, <2>1
  <2>2. CASE PathOf(p.of) # PathOf(k)
    <3>1. k \in queue \ disturbed /\ k \in 1 .. added
      BY <1>t, <1>4
    <3>2. files'[PathOf(k)] = files[PathOf(k)]
      BY <1>1, <2>2, <3>1
    <3>3. \A q \in procs' : \/ q \in procs
                            \/ q.of \in 1 .. added /\ PathOf(q.of) # PathOf(k)
      BY <1>1, <2>2
    <3>4. Saved(k)' = Saved(k)
      BY <1>t DEF Saved
    <3> QED
      BY <1>t, <1>1, <3>1, <3>2, <3>3, <3>4, SettledKeeps
  <2> QED
    BY <2>1, <2>2
<1> QED
  BY <1>2, <1>3, <1>4 DEF JobsOK

(* gms: it goes on only if there is no old output, which is not its own.   *)
LEMMA GmsKeeps ==
  ASSUME SpoolInv, NEW p \in procs, Gms(p)
  PROVE  TypeOK' /\ IdsApart' /\ JobsOK'
<1> DEFINE path == PathOf(p.of)
           log == Written(p.of, p.run, FALSE)
           dat == Written(p.of, p.run, TRUE)
           on == [p EXCEPT !.at = "running"]
<1>t. /\ TypeOK /\ IdsApart /\ p \in Process /\ p.at = "forked"
      /\ files \in [Dir \X Id -> [Ext -> Content \cup {None, Emptied}]]
      /\ procs \subseteq Process
      /\ UNCHANGED <<daemon, jobs, queueDat, moves, crashes, disturbed>>
  BY DEF SpoolInv, Gms, TypeOK
<1>1. path \in Dir \X Id /\ p.of \in 1 .. added
  BY <1>t, PathsApart
<1>2. /\ on \in Process /\ on.of = p.of /\ on.run = p.run /\ on.at = "running"
      /\ log \in Content /\ dat \in Content
  BY <1>t DEF Process, Written, Content
<1>3. /\ {"inp", "log", "dat", "irc"} \subseteq Ext
         /\ RefusedExts = {"dat", "irc"}
      /\ RefusedExts \subseteq Ext
  BY DEF Ext, Outputs, RefusedExts
<1>4. \/ /\ \E e \in RefusedExts : There(path, e)
         /\ files' = [files EXCEPT ![path]["log"] = log]
         /\ procs' = procs \ {p}
      \/ /\ \A e \in RefusedExts : ~There(path, e)
         /\ files' = [[files EXCEPT ![path]["log"] = log] EXCEPT ![path]["dat"] = dat]
         /\ procs' = (procs \ {p}) \cup {on}
  BY DEF Gms
<1> HIDE DEF path, log, dat, on
<1>5. /\ files' \in [Dir \X Id -> [Ext -> Content \cup {None, Emptied}]]
      /\ \A x \in Dir \X Id : x # path => files'[x] = files[x]
      /\ files'[path]["inp"] = files[path]["inp"]
      /\ files'[path]["log"] = log
      /\ on \in procs' => files'[path]["dat"] = dat \/ on \in procs
  BY <1>t, <1>1, <1>2, <1>3, <1>4
<1>6. /\ procs' \subseteq Process /\ p \notin procs'
      /\ \A q \in procs' : q \in procs \/ q = on
  BY <1>t, <1>2, <1>4
<1>7. ASSUME NEW k \in queue \ disturbed, path = PathOf(k)
      PROVE  JobOK(k)'
  <2>1. /\ JobOK(k) /\ p.of = k /\ p.run = run[k] /\ job[k].mPid
        /\ ProcsOf(k) = {p}
    BY <1>7, ItsProcess DEF path
  <2>2. /\ k \in 1 .. added /\ \A j \in 1 .. added : PathOf(j)' = PathOf(j)
        /\ UNCHANGED <<job, run, queue, misled, queueDat, config, disturbed>>
        /\ \A q \in procs : q.of \in 1 .. added
    BY <1>t, <1>1, <2>1, PathsApart DEF jobs, daemon, PathOf
  <2>3. ProcsOf(k)' \subseteq {on}
    BY <1>1, <1>2, <1>6, <2>1, <2>2 DEF ProcsOf
  <2>4. ~Waiting(k) /\ job[k].status # "DONE"
    BY <2>1 DEF JobOK, Clean, Result
  <2>5. Alone(k)' /\ Clean(k)' /\ Result(k)'
    BY <1>2, <2>1, <2>2, <2>3, <2>4 DEF Alone, Clean, Waiting, Result
  <2>6. Saved(k)' = Saved(k)
    BY <2>2 DEF Saved
  <2>7. InputThere(k)'
    BY <1>5, <1>7, <2>1, <2>2, <2>6 DEF JobOK, InputThere, FilesOf
  <2>8. Writes(k)'
    <3> SUFFICES ASSUME on \in procs'
                 PROVE  FilesOf(k)'["log"] = Written(k, run[k], FALSE)
                        /\ OwnOutput(k)'
      BY <2>2, <2>3 DEF Writes, ProcsOf
    <3>1. on \notin procs
      BY <1>2, <1>7, <2>1, <1>t DEF ProcsOf, path
    <3>2. /\ \A e \in RefusedExts : ~There(path, e)
          /\ files' = [[files EXCEPT ![path]["log"] = log] EXCEPT ![path]["dat"] = dat]
      BY <1>4, <3>1
    <3>3. files'[path]["irc"] = None /\ files'[path]["dat"] = dat
      BY <1>t, <1>1, <1>3, <3>2 DEF There
    <3> QED
      BY <1>3, <1>5, <1>7, <2>1, <2>2, <3>3 DEF OwnOutput, FilesOf, log, dat
  <2> QED
    BY <2>1, <2>2, <2>5, <2>6, <2>7, <2>8 DEF JobOK
<1> QED
  BY <1>t, <1>2, <1>5, <1>6, <1>7, ProcessStep DEF path

(* What else a run writes is its own.                                      *)
LEMMA WriteMoreKeeps ==
  ASSUME SpoolInv, NEW p \in procs, WriteMore(p)
  PROVE  TypeOK' /\ IdsApart' /\ JobsOK'
<1> DEFINE path == PathOf(p.of)
           new == Written(p.of, p.run, TRUE)
<1>t. /\ TypeOK /\ IdsApart /\ p \in Process /\ p.at = "running"
      /\ files \in [Dir \X Id -> [Ext -> Content \cup {None, Emptied}]]
      /\ procs \subseteq Process
      /\ UNCHANGED <<daemon, jobs, procs, queueDat, moves, crashes, disturbed>>
  BY DEF SpoolInv, WriteMore, TypeOK
<1>1. path \in Dir \X Id /\ p.of \in 1 .. added
  BY <1>t, PathsApart
<1>2. PICK e \in {"irc", "rst"} : files' = [files EXCEPT ![path][e] = new]
  BY OptionalAssumption DEF WriteMore
<1>3. new \in Content
  BY <1>t DEF Process, Written, Content
<1>4. e \in Ext /\ {"inp", "log"} \subseteq Ext /\ RefusedExts \subseteq Ext
  BY DEF Ext, Outputs, RefusedExts
<1> HIDE DEF path, new
<1>5. /\ files' \in [Dir \X Id -> [Ext -> Content \cup {None, Emptied}]]
      /\ \A x \in Dir \X Id : x # path => files'[x] = files[x]
      /\ \A f \in Ext : f # e => files'[path][f] = files[path][f]
      /\ files'[path][e] = new
  BY <1>t, <1>1, <1>2, <1>3, <1>4
<1>6. ASSUME NEW k \in queue \ disturbed, path = PathOf(k)
      PROVE  JobOK(k)'
  <2>1. /\ JobOK(k) /\ p.of = k /\ p.run = run[k] /\ job[k].mPid
        /\ ProcsOf(k) = {p}
    BY <1>6, ItsProcess DEF path
  <2>2. /\ k \in 1 .. added /\ \A j \in 1 .. added : PathOf(j)' = PathOf(j)
        /\ UNCHANGED <<job, run, queue, procs, misled, queueDat, config,
                       disturbed>>
        /\ \A q \in procs : q.of \in 1 .. added
    BY <1>t, <1>1, <2>1, PathsApart DEF jobs, daemon, PathOf
  <2>3. ProcsOf(k)' = ProcsOf(k)
    BY <2>2 DEF ProcsOf
  <2>4. ~Waiting(k) /\ job[k].status # "DONE"
    BY <2>1 DEF JobOK, Clean, Result
  <2>5. Alone(k)' /\ Clean(k)' /\ Result(k)'
    BY <2>1, <2>2, <2>3, <2>4 DEF JobOK, Alone, Clean, Waiting, Result
  <2>6. Saved(k)' = Saved(k)
    BY <2>2 DEF Saved
  <2>7. InputThere(k)'
    BY <1>4, <1>5, <1>6, <2>1, <2>2, <2>6 DEF JobOK, InputThere, FilesOf
  <2>8. FilesOf(k)["log"] = Written(k, run[k], FALSE) /\ OwnOutput(k)
    BY <1>t, <2>1 DEF JobOK, Writes
  <2>9. Writes(k)'
    <3>1. FilesOf(k)'["log"] = Written(k, run'[k], FALSE)
      BY <1>4, <1>5, <1>6, <2>2, <2>8 DEF FilesOf, Written
    <3>2. OwnOutput(k)'
      BY <1>4, <1>5, <1>6, <2>1, <2>2, <2>8 DEF OwnOutput, FilesOf, new
    <3> QED
      BY <3>1, <3>2 DEF Writes
  <2> QED
    BY <2>1, <2>2, <2>5, <2>6, <2>7, <2>9 DEF JobOK
<1> QED
  BY <1>t, <1>5, <1>6, ProcessStep DEF path

(* A process ends by itself.                                               *)
LEMMA OrphanEndKeeps ==
  ASSUME SpoolInv, NEW p \in procs, OrphanEnd(p)
  PROVE  TypeOK' /\ IdsApart' /\ JobsOK'
<1>1. /\ UNCHANGED <<up, config, spoolDir, made, misled>>
      /\ UNCHANGED <<jobs, files, queueDat, moves, crashes, disturbed>>
      /\ procs' \subseteq procs
  BY DEF OrphanEnd, daemon
<1> QED
  BY <1>1, NothingMoves DEF SpoolInv, TypeOK

-----------------------------------------------------------------------------
(* Every step keeps the invariant.                                         *)
LEMMA SpoolInvStep == SpoolInv /\ [SpoolNext]_vars => SpoolInv'
<1> SUFFICES ASSUME SpoolInv, [SpoolNext]_vars
             PROVE  TypeOK' /\ IdsApart' /\ JobsOK'
  BY QueueAtConfigStep DEF SpoolInv
<1>t. TypeOK
  BY DEF SpoolInv
<1>1. CASE Add
  BY <1>1, AddKeeps
<1>2. CASE Clear
  BY <1>2, DiscardKeeps DEF Clear
<1>3. CASE SetSameDir
  BY <1>3, SetSameDirKeeps
<1>4. CASE Quit
  BY <1>4, <1>t, NothingMoves DEF Quit, TypeOK
<1>5. CASE Crash
  <2>1. crashes' \in 0 .. MaxCrashes
    <3>1. crashes \in 0 .. MaxCrashes /\ MaxCrashes \in Nat
      BY <1>t, BoundsAssumption DEF TypeOK
    <3>2. crashes < MaxCrashes /\ crashes' = crashes + 1
      BY <1>5 DEF Crash
    <3> QED
      BY ONLY <3>1, <3>2
  <2> QED
    BY <1>5, <1>t, <2>1, NothingMoves DEF Crash, TypeOK
<1>6. CASE Boot
  BY <1>6, BootSpoolKeeps
<1>7. ASSUME NEW j \in JobNo, Remove(j) PROVE TypeOK' /\ IdsApart' /\ JobsOK'
  BY <1>7, DiscardKeeps DEF Remove
<1>8. ASSUME NEW j \in JobNo, Cancel(j) PROVE TypeOK' /\ IdsApart' /\ JobsOK'
  BY <1>8, CancelKeeps
<1>9. ASSUME NEW j \in JobNo, Pause(j) PROVE TypeOK' /\ IdsApart' /\ JobsOK'
  BY <1>9, PauseKeeps
<1>10. ASSUME NEW j \in JobNo, Resume(j) PROVE TypeOK' /\ IdsApart' /\ JobsOK'
  BY <1>10, ResumeKeeps
<1>11. ASSUME NEW j \in JobNo, Start(j) PROVE TypeOK' /\ IdsApart' /\ JobsOK'
  BY <1>11, StartKeeps
<1>12. ASSUME NEW j \in JobNo, DieInStart(j) PROVE TypeOK' /\ IdsApart' /\ JobsOK'
  BY <1>12, DieInStartKeeps
<1>13. ASSUME NEW j \in JobNo, End(j) PROVE TypeOK' /\ IdsApart' /\ JobsOK'
  BY <1>13, EndKeeps
<1>14. ASSUME NEW d \in Dir, SetSpoolDir(d) PROVE TypeOK' /\ IdsApart' /\ JobsOK'
  BY <1>14, SetSpoolDirKeeps
<1>15. ASSUME NEW d \in Dir, OnSETUPOk(d) PROVE TypeOK' /\ IdsApart' /\ JobsOK'
  <2>1. moves' \in 0 .. MaxMoves
    <3>1. moves \in 0 .. MaxMoves /\ MaxMoves \in Nat
      BY <1>t, BoundsAssumption DEF TypeOK
    <3>2. moves < MaxMoves /\ moves' = moves + 1
      BY <1>15 DEF OnSETUPOk
    <3> QED
      BY ONLY <3>1, <3>2
  <2>2. misled' \in BOOLEAN /\ (~misled' => ~misled /\ config' = config)
    BY <1>15, <1>t DEF OnSETUPOk, TypeOK
  <2>3. /\ up' \in BOOLEAN /\ procs' \subseteq procs /\ config' \in Dir
        /\ UNCHANGED <<spoolDir, made, jobs, files, queueDat, disturbed>>
        /\ crashes' \in 0 .. MaxCrashes
    BY <1>15, <1>t DEF OnSETUPOk, TypeOK
  <2> QED
    BY <2>1, <2>2, <2>3, NothingMoves
<1>16. ASSUME NEW p \in procs, Gms(p) PROVE TypeOK' /\ IdsApart' /\ JobsOK'
  BY <1>16, GmsKeeps
<1>17. ASSUME NEW p \in procs, WriteMore(p) PROVE TypeOK' /\ IdsApart' /\ JobsOK'
  BY <1>17, WriteMoreKeeps
<1>18. ASSUME NEW p \in procs, OrphanEnd(p) PROVE TypeOK' /\ IdsApart' /\ JobsOK'
  BY <1>18, OrphanEndKeeps
<1>19. CASE UNCHANGED vars
  BY <1>19, <1>t, NothingMoves DEF vars, daemon, TypeOK
<1> QED
  BY <1>1, <1>2, <1>3, <1>4, <1>5, <1>6, <1>7, <1>8, <1>9, <1>10, <1>11,
     <1>12, <1>13, <1>14, <1>15, <1>16, <1>17, <1>18, <1>19
     DEF SpoolNext

(* It holds at first.                                                      *)
LEMMA SpoolInvInit == Init => SpoolInv
<1> SUFFICES ASSUME Init PROVE SpoolInv
  OBVIOUS
<1>1. QueueAtConfig
  BY DirAssumption DEF Init, QueueAtConfig, HasQueue, NoDat
<1>2. \A d \in Dir : DatOK(d)
  BY DEF Init, DatOK, NoDat
<1>3. IdsApart /\ JobsOK
  BY DEF Init, IdsApart, Apart, NoDat, JobsOK
<1>4. job \in [JobNo -> JobType] /\ run \in [JobNo -> Run]
  <2>1. \A j \in JobNo : 0 \in Id
    BY BoundsAssumption DEF JobNo, Id
  <2>2. 0 \in Run
    BY BoundsAssumption DEF Run
  <2> QED
    BY <2>1, <2>2, DirAssumption DEF Init, NewJob, JobType, Statuses
<1>5. /\ up \in BOOLEAN /\ misled \in BOOLEAN
      /\ config \in Dir /\ spoolDir \in Dir /\ made \subseteq Dir
      /\ added \in 0 .. MaxJobs /\ nextId \in 0 .. added
         /\ queue \subseteq 1 .. added
      /\ \A j \in JobNo : run[j] > 0 => j <= added
      /\ procs \subseteq Process /\ \A p \in procs : p.of <= added
      /\ moves \in 0 .. MaxMoves /\ crashes \in 0 .. MaxCrashes
      /\ disturbed \subseteq 1 .. added
  <2>1. \A j \in JobNo : run[j] = 0
    BY DEF Init
  <2>2. up = FALSE /\ misled = FALSE /\ config = FirstDir /\ spoolDir = FirstDir
        /\ made = {} /\ added = 0 /\ nextId = 0 /\ queue = {} /\ procs = {}
        /\ moves = 0 /\ crashes = 0 /\ disturbed = {}
    BY DEF Init
  <2>3. \A j \in JobNo : run[j] > 0 => j <= added
    BY ONLY <2>1
  <2>4. procs \subseteq Process /\ \A p \in procs : p.of <= added
    BY ONLY <2>2
  <2>5. 0 \in 0 .. MaxJobs /\ 0 \in 0 .. MaxMoves /\ 0 \in 0 .. MaxCrashes
    BY BoundsAssumption
  <2>6. up \in BOOLEAN /\ misled \in BOOLEAN
    BY DEF Init
  <2>7. config \in Dir /\ spoolDir \in Dir /\ made \subseteq Dir
    BY DirAssumption DEF Init
  <2>8. /\ added \in 0 .. MaxJobs /\ nextId \in 0 .. added
           /\ queue \subseteq 1 .. added
        /\ moves \in 0 .. MaxMoves /\ crashes \in 0 .. MaxCrashes
        /\ disturbed \subseteq 1 .. added
    BY ONLY <2>2, <2>5
  <2> QED
    BY <2>3, <2>4, <2>6, <2>7, <2>8
<1>6. files \in [Dir \X Id -> [Ext -> Content \cup {None, Emptied}]]
  BY DEF Init
<1> QED
  BY <1>1, <1>2, <1>3, <1>4, <1>5, <1>6 DEF SpoolInv, TypeOK, QueueAtConfig

(* The invariant holds of every state, for any directories, files a run    *)
(* may write, jobs, moves and crashes.                                     *)
THEOREM SpoolInvariant == SpoolSpec => []SpoolInv
  BY SpoolInvInit, SpoolInvStep, PTL DEF SpoolSpec

-----------------------------------------------------------------------------
(* Where outputs come from.  Those that Clear leaves behind and gms runs   *)
(* over may be there when a job is added, so what can be said of them is   *)
(* not of one job only: that no run is in the files that has not been, and *)
(* none under an id that is not its job's.                                 *)

Origin(x, e) ==
  files[x][e].of # 0 =>
    /\ files[x][e].of \in 1 .. added
    /\ job[files[x][e].of].id = x[2]
    /\ files[x][e].run \in 1 .. run[files[x][e].of]

Traces ==
  /\ \A p \in procs : p.run \in 1 .. run[p.of]
  /\ \A x \in Dir \X Id, e \in Outputs : Origin(x, e)

(* What a job has of its own there is of its last run.                     *)
LastRuns ==
  \A j \in queue \ disturbed :
    FilesOf(j)["rst"].of = j => FilesOf(j)["rst"] = Written(j, run[j], TRUE)

(* A step makes an output of one that was there under the same id, or that *)
(* a process writes.                                                       *)
Descends(x, e) ==
  \/ files'[x][e].of = 0
  \/ \E y \in Dir \X Id :
       /\ y[2] = x[2]
       /\ files'[x][e].of = files[y][e].of /\ files'[x][e].run = files[y][e].run
  \/ \E p \in procs :
       /\ x = PathOf(p.of)
       /\ files'[x][e].of = p.of /\ files'[x][e].run = p.run

(* So it is of every step.                                                 *)
LEMMA FilesDescend ==
  ASSUME SpoolInv, [SpoolNext]_vars, NEW x \in Dir \X Id, NEW e \in Outputs
  PROVE  Descends(x, e)
<1>t. /\ files \in [Dir \X Id -> [Ext -> Content \cup {None, Emptied}]]
      /\ TypeOK /\ IdsApart
  BY DEF SpoolInv, TypeOK
<1>e. e \in Ext /\ e # "inp" /\ "inp" \in Ext /\ "log" \in Ext /\ "dat" \in Ext
  BY DEF Ext, Outputs
<1>p. \A j \in 1 .. added : PathOf(j) \in Dir \X Id
  BY <1>t, PathsApart
<1>0. /\ files'[x][e] = files[x][e] => Descends(x, e)
      /\ files'[x][e] = None \/ files'[x][e] = Emptied => Descends(x, e)
  BY DEF Descends, None, Emptied
<1>1. CASE Add
  <2>1. \/ files' = files
        \/ files' = [files EXCEPT ![<<spoolDir, nextId>>]["inp"] =
                       Written(added + 1, 0, TRUE)]
    BY <1>1 DEF Add
  <2>2. [files EXCEPT ![<<spoolDir, nextId>>]["inp"] =
           Written(added + 1, 0, TRUE)][x][e] = files[x][e]
    BY <1>t, <1>e
  <2>3. files'[x][e] = files[x][e]
    BY <2>1, <2>2
  <2> QED
    BY <1>0, <2>3
<1>2. ASSUME NEW js, Discard(js) PROVE Descends(x, e)
  BY <1>2, <1>0, <1>e DEF Discard
<1>3. CASE SetSameDir
  BY <1>3, <1>0, <1>e DEF SetSameDir
<1>4. CASE Boot
  BY <1>4, <1>0, <1>e DEF Boot
<1>5. ASSUME NEW d \in Dir, SetSpoolDir(d) PROVE Descends(x, e)
  <2>1. spoolDir \in Dir /\ <<spoolDir, x[2]>> \in Dir \X Id
        /\ <<spoolDir, x[2]>>[2] = x[2]
    BY <1>t DEF TypeOK
  <2>2. CASE files' = CopyAll(spoolDir, d)
    <3>1. files'[x][e] = files[x][e] \/ files'[x][e] = files[<<spoolDir, x[2]>>][e]
      BY <1>e, <2>2 DEF CopyAll
    <3> QED
      BY <1>0, <2>1, <3>1 DEF Descends
  <2> QED
    BY <1>5, <1>0, <2>2 DEF SetSpoolDir
<1>6. ASSUME NEW j \in JobNo, Start(j) PROVE Descends(x, e)
  <2>1. CASE files' = [files EXCEPT ![PathOf(j)]["log"] = Emptied]
    <3>1. files'[x][e] = files[x][e] \/ files'[x][e] = Emptied
      BY <1>t, <1>e, <2>1
    <3> QED
      BY <1>0, <3>1
  <2> QED
    BY <1>6, <1>0, <2>1 DEF Start
<1>7. ASSUME NEW j \in JobNo, End(j) PROVE Descends(x, e)
  <2>1. CASE /\ files[PathOf(j)]["log"] = Written(j, run[j], FALSE)
             /\ files' = [files EXCEPT ![PathOf(j)]["log"] = Written(j, run[j], TRUE)]
    <3>1. \/ files'[x][e] = files[x][e]
          \/ /\ files[x][e] = Written(j, run[j], FALSE)
             /\ files'[x][e] = Written(j, run[j], TRUE)
      BY <1>t, <1>e, <2>1
    <3> QED
      BY <1>0, <3>1 DEF Descends, Written
  <2>2. CASE UNCHANGED files
    BY <1>0, <2>2
  <2> QED
    BY <1>7, <2>1, <2>2 DEF End
<1>8. ASSUME NEW p \in procs, Gms(p) \/ WriteMore(p) PROVE Descends(x, e)
  <2>1. \/ files'[x][e] = files[x][e]
        \/ /\ x = PathOf(p.of)
           /\ \/ files'[x][e] = Written(p.of, p.run, TRUE)
              \/ files'[x][e] = Written(p.of, p.run, FALSE)
    <3>1. ASSUME NEW f, NEW c \in {Written(p.of, p.run, TRUE),
                                   Written(p.of, p.run, FALSE)},
                 files' = [files EXCEPT ![PathOf(p.of)][f] = c]
          PROVE  \/ files'[x][e] = files[x][e]
                 \/ x = PathOf(p.of) /\ files'[x][e] = c
      BY <1>t, <1>e, <3>1
    <3>2. CASE files' = [[files EXCEPT ![PathOf(p.of)]["log"] =
                                         Written(p.of, p.run, FALSE)]
                           EXCEPT ![PathOf(p.of)]["dat"] =
                                         Written(p.of, p.run, TRUE)]
      BY <1>t, <1>e, <3>2
    <3>3. CASE Gms(p)
      BY <3>1, <3>2, <3>3 DEF Gms
    <3>4. CASE WriteMore(p)
      BY <3>1, <3>4 DEF WriteMore
    <3> QED
      BY <1>8, <3>3, <3>4
  <2> QED
    BY <1>0, <2>1 DEF Descends, Written
<1>9. CASE UNCHANGED files
  BY <1>0, <1>9
<1> QED
  BY <1>1, <1>2, <1>3, <1>4, <1>5, <1>6, <1>7, <1>8, <1>9
     DEF SpoolNext, Clear, Remove, Quit, Crash, Cancel, Pause, Resume,
         DieInStart, OnSETUPOk, OrphanEnd, vars

SamePlace(k) == job'[k].id = job[k].id /\ job'[k].dir = job[k].dir

(* Jobs keep their files, and are started once more at a time.             *)
LEMMA RunsGrow ==
  ASSUME SpoolInv, [SpoolNext]_vars
  PROVE  /\ added' \in Nat /\ added \in Nat /\ added' >= added
         /\ \A k \in 1 .. added : /\ SamePlace(k)
                                  /\ run'[k] \in Nat /\ run[k] \in Nat
                                  /\ run'[k] >= run[k]
         /\ \A p \in procs' : \/ p \in procs
                              \/ p.of \in 1 .. added /\ p.run \in 1 .. run'[p.of]
                              \/ \E q \in procs : p.of = q.of /\ p.run = q.run
<1>t. /\ TypeOK /\ IdsApart /\ queue \subseteq 1 .. added
      /\ job \in [JobNo -> JobType] /\ run \in [JobNo -> Run]
      /\ added \in Nat /\ procs \subseteq Process
  BY BoundsAssumption DEF SpoolInv, TypeOK
<1>1. \A k \in 1 .. added : k \in JobNo /\ k # added + 1
  BY <1>t, PathsApart
<1>2. \A k \in JobNo : run[k] \in Nat
  BY <1>t, BoundsAssumption DEF Run
<1>3. added' = added \/ Add
  BY DEF SpoolNext, Clear, Remove, Discard, SetSameDir, Quit, Crash, Boot,
         Cancel, Pause, Resume, Start, DieInStart, End, SetSpoolDir, OnSETUPOk,
         Gms, WriteMore, OrphanEnd, vars, jobs
<1>4. added' \in Nat /\ added' >= added
  BY <1>t, <1>3 DEF Add
<1> DEFINE As(r, s) == r.id = s.id /\ r.dir = s.dir
<1>5. ASSUME NEW k \in 1 .. added PROVE SamePlace(k)
  <2>0. SamePlace(k) <=> As(job'[k], job[k])
    BY DEF SamePlace
  <2>1. k \in JobNo /\ k # added + 1 /\ job[k] \in JobType
    BY <1>t, <1>1
  <2>2. CASE Add
    BY <1>t, <2>0, <2>1, <2>2 DEF Add
  <2>3. ASSUME NEW js, Discard(js) PROVE SamePlace(k)
    BY <2>0, <2>1, <2>3 DEF Discard, NewJob
  <2>4. CASE Boot
    BY <2>0, <2>1, <2>4 DEF Boot, NewJob
  <2>5. ASSUME NEW j \in JobNo,
               \/ \E st : job' = [job EXCEPT ![j].status = st]
               \/ \E st, b : job' = [job EXCEPT ![j].status = st, ![j].mPid = b]
               \/ \E st, b : job' = [job EXCEPT ![j].status = st, ![j].paused = b]
               \/ \E st, b : job' = [job EXCEPT ![j].paused = b, ![j].status = st]
        PROVE  SamePlace(k)
    <3>0. job[j] \in JobType /\ {"id", "dir"} \subseteq DOMAIN job[j]
      BY <1>t DEF JobType
    <3>1. CASE j # k
      BY <1>t, <2>0, <2>1, <2>5, <3>1
    <3>2. CASE j = k
      <4>1. \A st : As([job[k] EXCEPT !.status = st], job[k])
        BY <3>0, <3>2
      <4>2. \A st, b : As([[job[k] EXCEPT !.status = st] EXCEPT !.mPid = b], job[k])
        BY <3>0, <3>2
      <4>3. \A st, b : As([[job[k] EXCEPT !.status = st] EXCEPT !.paused = b], job[k])
        BY <3>0, <3>2
      <4>4. \A st, b : As([[job[k] EXCEPT !.paused = b] EXCEPT !.status = st], job[k])
        BY <3>0, <3>2
      <4>5. ASSUME NEW st, job' = [job EXCEPT ![j].status = st]
            PROVE  SamePlace(k)
        BY <1>t, <2>0, <2>1, <3>2, <4>1, <4>5
      <4>6. ASSUME NEW st, NEW b, job' = [job EXCEPT ![j].status = st, ![j].mPid = b]
            PROVE  SamePlace(k)
        BY <1>t, <2>0, <2>1, <3>2, <4>2, <4>6
      <4>7. ASSUME NEW st, NEW b, job' = [job EXCEPT ![j].status = st, ![j].paused = b]
            PROVE  SamePlace(k)
        BY <1>t, <2>0, <2>1, <3>2, <4>3, <4>7
      <4>8. ASSUME NEW st, NEW b, job' = [job EXCEPT ![j].paused = b, ![j].status = st]
            PROVE  SamePlace(k)
        BY <1>t, <2>0, <2>1, <3>2, <4>4, <4>8
      <4> QED
        BY <2>5, <4>5, <4>6, <4>7, <4>8
    <3> QED
      BY <3>1, <3>2
  <2>6. CASE job' = job
    BY <2>0, <2>6
  <2> QED
    BY <2>2, <2>3, <2>4, <2>5, <2>6
       DEF SpoolNext, Clear, Remove, SetSameDir, Quit, Crash, Cancel, SetStatus,
           Pause, Resume, Start, DieInStart, End, SetSpoolDir, OnSETUPOk,
           Gms, WriteMore, OrphanEnd, vars, jobs
<1>6. \/ /\ UNCHANGED run
         /\ \A p \in procs' : \/ p \in procs
                              \/ \E q \in procs : p.of = q.of /\ p.run = q.run
      \/ \E j \in JobNo : Forked(j)
  <2>1. ASSUME NEW p \in procs, Gms(p)
        PROVE  \A q \in procs' : \/ q \in procs
                                 \/ q.of = p.of /\ q.run = p.run
    <3>1. p \in Process
      BY <1>t
    <3> QED
      BY <2>1, <3>1 DEF Gms, Process
  <2>2. ASSUME NEW js, Signalled(js) PROVE procs' \subseteq procs
    BY <2>2 DEF Signalled
  <2>3. ASSUME NEW j, procs' = Reaped(j) PROVE procs' \subseteq procs
    BY <2>3 DEF Reaped
  <2>4. ASSUME NEW p \in procs, WriteMore(p)
        PROVE  UNCHANGED <<run, procs>>
    BY <2>4 DEF WriteMore, jobs
  <2>5. ASSUME NEW p \in procs, Gms(p) \/ OrphanEnd(p)
        PROVE  UNCHANGED run
    BY <2>5 DEF Gms, OrphanEnd, jobs
  <2>6. ASSUME NEW p \in procs, OrphanEnd(p)
        PROVE  procs' \subseteq procs
    BY <2>6 DEF OrphanEnd
  <2>7. ASSUME NEW js, Discard(js) PROVE UNCHANGED run /\ procs' \subseteq procs
    BY <2>2, <2>7 DEF Discard
  <2>8. ASSUME NEW j \in JobNo, Start(j) \/ DieInStart(j)
        PROVE  UNCHANGED <<run, procs>> \/ Forked(j)
    BY <2>8 DEF Start, DieInStart
  <2>9. ASSUME NEW j \in JobNo, Cancel(j) \/ Pause(j) \/ Resume(j) \/ End(j)
        PROVE  UNCHANGED run /\ procs' \subseteq procs
    BY <2>2, <2>3, <2>9 DEF Cancel, Pause, Resume, End
  <2>10. ASSUME NEW d \in Dir, SetSpoolDir(d) \/ OnSETUPOk(d)
         PROVE  UNCHANGED <<run, procs>>
    BY <2>10 DEF SetSpoolDir, OnSETUPOk, jobs
  <2>11. CASE \/ Add \/ SetSameDir \/ Quit \/ Crash \/ Boot \/ UNCHANGED vars
    <3>1. UNCHANGED <<run, procs>>
      BY <2>11 DEF Add, SetSameDir, Quit, Crash, Boot, vars, jobs
    <3> QED
      BY <3>1
  <2> QED
    BY <2>1, <2>4, <2>5, <2>6, <2>7, <2>8, <2>9, <2>10, <2>11
       DEF SpoolNext, Clear, Remove
<1>7. ASSUME NEW j \in JobNo, Forked(j)
      PROVE  /\ \A k \in JobNo : run'[k] \in Nat /\ run'[k] >= run[k]
             /\ \A p \in procs' : \/ p \in procs
                                  \/ p.of \in 1 .. added /\ p.run \in 1 .. run'[p.of]
  <2>1. /\ run' = [run EXCEPT ![j] = @ + 1] /\ j \in 1 .. added
        /\ procs' = procs \cup {[of |-> j, run |-> run[j] + 1, at |-> "forked"]}
    BY <1>t, <1>7 DEF Forked, IsNext, HasStatus
  <2>2. run'[j] = run[j] + 1 /\ \A k \in JobNo \ {j} : run'[k] = run[k]
    BY <1>t, <2>1
  <2>3. run[j] + 1 \in 1 .. run'[j]
    BY <1>2, <2>2
  <2> QED
    BY <1>2, <2>1, <2>2, <2>3
<1> QED
  BY <1>t, <1>1, <1>2, <1>4, <1>5, <1>6, <1>7

(* Every step keeps where outputs come from.                               *)
LEMMA TracesStep ==
  ASSUME SpoolInv, Traces, [SpoolNext]_vars
  PROVE  Traces'
<1>t. \A p \in procs : p.of \in 1 .. added /\ PathOf(p.of)[2] = job[p.of].id
  BY PathsApart DEF SpoolInv, PathOf
<1>1. ASSUME NEW p \in procs' PROVE p.run \in 1 .. run'[p.of]
  BY <1>t, RunsGrow DEF Traces
<1>2. ASSUME NEW x \in Dir \X Id, NEW e \in Outputs PROVE Origin(x, e)'
  <2> DEFINE k == files'[x][e].of
             n == files'[x][e].run
  <2> SUFFICES ASSUME k # 0
               PROVE  k \in 1 .. added' /\ job'[k].id = x[2] /\ n \in 1 .. run'[k]
    BY DEF Origin
  <2>1. \/ \E y \in Dir \X Id :
             y[2] = x[2] /\ k = files[y][e].of /\ n = files[y][e].run
        \/ \E p \in procs : x = PathOf(p.of) /\ k = p.of /\ n = p.run
    BY FilesDescend DEF Descends
  <2> HIDE DEF k, n
  <2>2. k \in 1 .. added /\ job[k].id = x[2] /\ n \in 1 .. run[k]
    BY <1>t, <2>1 DEF Traces, Origin
  <2> QED
    BY <2>2, RunsGrow DEF SamePlace
<1> QED
  BY <1>1, <1>2 DEF Traces

(* The place of a job that is added.                                       *)
LEMMA NewPath ==
  ASSUME SpoolInv, Add, NEW j, j = added + 1
  PROVE  PathOf(j)' \in Dir \X Id
<1>1. /\ job \in [JobNo -> JobType] /\ added \in Nat /\ added < MaxJobs
      /\ MaxJobs \in Nat /\ nextId \in 0 .. added /\ spoolDir \in Dir
  BY BoundsAssumption DEF SpoolInv, TypeOK, Add
<1>2. j \in JobNo /\ j = added + 1 /\ nextId \in Id
  BY <1>1 DEF JobNo, Id
<1>3. job'[j].id = nextId /\ job'[j].dir = spoolDir
  BY <1>1, <1>2 DEF Add, NewJob
<1> QED
  BY <1>1, <1>2, <1>3 DEF PathOf

(* A step that writes to no such file of a job, but to delete it.          *)
LEMMA LastRunKeeps ==
  ASSUME LastRuns, NEW k \in queue \ disturbed, k # 0, run'[k] = run[k],
         PathOf(k)' = PathOf(k),
         \/ files'[PathOf(k)]["rst"] = files[PathOf(k)]["rst"]
         \/ files'[PathOf(k)]["rst"] = None
  PROVE  FilesOf(k)'["rst"].of = k =>
           FilesOf(k)'["rst"] = Written(k, run'[k], TRUE)
<1>1. CASE files'[PathOf(k)]["rst"] = files[PathOf(k)]["rst"]
  BY <1>1 DEF LastRuns, FilesOf, Written
<1>2. CASE files'[PathOf(k)]["rst"] = None
  BY <1>2 DEF FilesOf, None, Written
<1> QED
  BY <1>1, <1>2

(* Every step: a job that is started had no such file of its own.          *)
LEMMA LastRunsStep ==
  ASSUME SpoolInv, SpoolInv', Traces, LastRuns, [SpoolNext]_vars
  PROVE  LastRuns'
<1> DEFINE Own(k) == FilesOf(k)["rst"].of = k =>
                       FilesOf(k)["rst"] = Written(k, run[k], TRUE)
<1> SUFFICES ASSUME NEW k \in queue' \ disturbed' PROVE Own(k)'
  BY DEF LastRuns
<1>t. /\ TypeOK /\ IdsApart /\ queue \subseteq 1 .. added /\ added \in Nat
      /\ files \in [Dir \X Id -> [Ext -> Content \cup {None, Emptied}]]
      /\ job \in [JobNo -> JobType] /\ run \in [JobNo -> Run]
      /\ queue' \subseteq 1 .. added' /\ added' \in Nat
  BY BoundsAssumption DEF SpoolInv, TypeOK
<1>k. k \in Nat /\ k # 0 /\ k \in 1 .. added'
  BY <1>t
<1>e. "rst" \in Ext /\ "rst" \in Outputs /\ "inp" \in Ext /\ "log" \in Ext /\ "dat" \in Ext
  BY DEF Ext, Outputs
<1>p. \A i \in 1 .. added : PathOf(i) \in Dir \X Id /\ i \in JobNo
  BY <1>t, PathsApart
<1>path. k \in 1 .. added => PathOf(k)' = PathOf(k)
  BY RunsGrow DEF SamePlace, PathOf
(* Of a job of the queue it is enough that its file is not written.        *)
<1>0. ASSUME k \in queue \ disturbed, run'[k] = run[k],
             \/ files'[PathOf(k)]["rst"] = files[PathOf(k)]["rst"]
             \/ files'[PathOf(k)]["rst"] = None
      PROVE  Own(k)'
  BY <1>0, <1>k, <1>t, <1>path, LastRunKeeps
<1> HIDE DEF Own
<1>1. CASE Add
  <2>1. queue' = queue \cup {added + 1} /\ disturbed \subseteq disturbed'
        /\ run' = run
    BY <1>1 DEF Add
  <2>f. \/ files' = files
        \/ files' = [files EXCEPT ![<<spoolDir, nextId>>]["inp"] =
                       Written(added + 1, 0, TRUE)]
    BY <1>1 DEF Add
  <2>g. ASSUME NEW x \in Dir \X Id PROVE files'[x]["rst"] = files[x]["rst"]
    <3>1. [files EXCEPT ![<<spoolDir, nextId>>]["inp"] =
             Written(added + 1, 0, TRUE)][x]["rst"] = files[x]["rst"]
      BY <1>t, <1>e
    <3> QED
      BY <2>f, <3>1
  <2>2. CASE k \in queue
    <3>1. PathOf(k) \in Dir \X Id
      BY <1>t, <1>p, <2>2
    <3> QED
      BY <1>0, <2>1, <2>2, <2>g, <3>1
  <2>3. CASE k \notin queue
    <3>1. k = added + 1
      BY <2>1, <2>3
    <3>2. PathOf(k)' \in Dir \X Id
      BY <1>1, <3>1, NewPath
    <3>3. files'[PathOf(k)']["rst"].of # 0 =>
            files'[PathOf(k)']["rst"].of \in 1 .. added
      BY <1>e, <2>g, <3>2 DEF Traces, Origin
    <3>4. files'[PathOf(k)']["rst"].of # k
      BY <1>t, <1>k, <3>1, <3>3
    <3> QED
      BY <3>4 DEF Own, FilesOf
  <2> QED
    BY <2>2, <2>3
<1>2. ASSUME NEW js, Discard(js) PROVE Own(k)'
  <2>1. k \in queue \ disturbed /\ run' = run /\ PathOf(k) \in Dir \X Id
    BY <1>2, <1>t, <1>p DEF Discard
  <2>2. \/ files'[PathOf(k)]["rst"] = files[PathOf(k)]["rst"]
        \/ files'[PathOf(k)]["rst"] = None
    BY <1>2, <1>e, <2>1 DEF Discard
  <2> QED
    BY <1>0, <2>1, <2>2
<1>3. ASSUME NEW d \in Dir, SetSameDir \/ SetSpoolDir(d) PROVE Own(k)'
  <2>1. k \in queue \ disturbed /\ run' = run /\ k \notin Overwritten
    BY <1>3 DEF SetSameDir, SetSpoolDir, jobs
  <2>2. files'[PathOf(k)] = files[PathOf(k)]
    BY <2>1 DEF Overwritten
  <2> QED
    BY <1>0, <2>1, <2>2
<1>4. CASE Boot
  <2>1. k \in queue \ disturbed /\ PathOf(k) \in Dir \X Id /\ run' = run
    BY <1>4, <1>t, <1>p, LoadedJob DEF Boot
  <2>2. \/ files'[PathOf(k)]["rst"] = files[PathOf(k)]["rst"]
        \/ files'[PathOf(k)]["rst"] = None
    BY <1>4, <1>e, <2>1 DEF Boot
  <2> QED
    BY <1>0, <2>1, <2>2
<1>5. ASSUME NEW j \in JobNo, Start(j) \/ DieInStart(j) PROVE Own(k)'
  <2>1. /\ k \in queue \ disturbed /\ PathOf(k) \in Dir \X Id /\ k \in JobNo
        /\ j \in queue /\ PathOf(j) \in Dir \X Id
    BY <1>5, <1>t, <1>p DEF Start, DieInStart, Forked, IsNext, HasStatus
  <2>2. files'[PathOf(k)]["rst"] = files[PathOf(k)]["rst"]
    <3>1. CASE files' = [files EXCEPT ![PathOf(j)]["log"] = Emptied]
      BY <1>t, <1>e, <2>1, <3>1
    <3> QED
      BY <1>5, <3>1 DEF Start, DieInStart
  <2>3. CASE run'[k] = run[k]
    BY <1>0, <2>1, <2>2, <2>3
  <2>4. CASE run'[k] # run[k]
    <3>1. k = j /\ job[k].status = "PENDING"
      BY <1>5, <1>t, <2>1, <2>4
         DEF Start, DieInStart, Forked, IsNext, HasStatus
    <3>2. run[k] > 0 => FilesOf(k)["rst"] = None
      BY <1>e, <2>1, <3>1 DEF SpoolInv, JobsOK, JobOK, Clean, Waiting
    <3>3. FilesOf(k)["rst"].of # k
      <4>1. run[k] \in Nat /\ (run[k] > 0 => FilesOf(k)["rst"].of = 0)
        BY <1>t, <2>1, <3>2, BoundsAssumption DEF Run, None
      <4>2. FilesOf(k)["rst"].of = k => FilesOf(k)["rst"].run \in 1 .. run[k]
        BY <1>e, <1>k, <2>1 DEF Traces, Origin, FilesOf
      <4> QED
        BY <1>k, <4>1, <4>2
    <3> QED
      BY <1>t, <1>path, <2>1, <2>2, <3>3 DEF Own, FilesOf
  <2> QED
    BY <2>3, <2>4
<1>6. ASSUME NEW p \in procs, WriteMore(p) PROVE Own(k)'
  <2>1. /\ k \in queue \ disturbed /\ PathOf(k) \in Dir \X Id
        /\ PathOf(p.of) \in Dir \X Id /\ run' = run
    BY <1>6, <1>t, <1>p, PathsApart DEF WriteMore, jobs
  <2>2. PICK e : files' = [files EXCEPT ![PathOf(p.of)][e] =
                             Written(p.of, p.run, TRUE)]
    BY <1>6 DEF WriteMore
  <2>3. CASE PathOf(k) = PathOf(p.of) /\ e = "rst"
    <3>1. p.of = k /\ p.run = run[k]
      BY <2>1, <2>3, ItsProcess
    <3>2. files'[PathOf(k)]["rst"] = Written(k, run[k], TRUE)
      BY <1>t, <1>e, <2>1, <2>2, <2>3, <3>1
    <3> QED
      BY <1>t, <1>path, <2>1, <3>2 DEF Own, FilesOf, Written
  <2>4. CASE ~(PathOf(k) = PathOf(p.of) /\ e = "rst")
    <3>1. files'[PathOf(k)]["rst"] = files[PathOf(k)]["rst"]
      BY <1>t, <1>e, <2>1, <2>2, <2>4
    <3> QED
      BY <1>0, <2>1, <3>1
  <2> QED
    BY <2>3, <2>4
<1>7. ASSUME NEW p \in procs, Gms(p) PROVE Own(k)'
  <2>1. /\ k \in queue \ disturbed /\ PathOf(k) \in Dir \X Id /\ run' = run
    BY <1>7, <1>t, <1>p DEF Gms, jobs
  <2>2. files'[PathOf(k)]["rst"] = files[PathOf(k)]["rst"]
    <3>1. CASE files' = [files EXCEPT ![PathOf(p.of)]["log"] =
                           Written(p.of, p.run, FALSE)]
      BY <1>t, <1>e, <2>1, <3>1
    <3>2. CASE files' = [[files EXCEPT ![PathOf(p.of)]["log"] =
                                         Written(p.of, p.run, FALSE)]
                           EXCEPT ![PathOf(p.of)]["dat"] =
                                         Written(p.of, p.run, TRUE)]
      BY <1>t, <1>e, <2>1, <3>2
    <3> QED
      BY <1>7, <3>1, <3>2 DEF Gms
  <2> QED
    BY <1>0, <2>1, <2>2
<1>8. ASSUME NEW j \in JobNo, End(j) PROVE Own(k)'
  <2>1. /\ k \in queue \ disturbed /\ PathOf(k) \in Dir \X Id /\ run' = run
    BY <1>8, <1>t, <1>p DEF End
  <2>2. files'[PathOf(k)]["rst"] = files[PathOf(k)]["rst"]
    <3>1. CASE files' = [files EXCEPT ![PathOf(j)]["log"] = Written(j, run[j], TRUE)]
      BY <1>t, <1>e, <2>1, <3>1
    <3> QED
      BY <1>8, <3>1 DEF End
  <2> QED
    BY <1>0, <2>1, <2>2
<1>9. CASE UNCHANGED <<queue, run, files, disturbed>>
  BY <1>0, <1>9
<1>10. \/ UNCHANGED <<queue, run, files, disturbed>>
       \/ Add \/ SetSameDir \/ Boot \/ \E js : Discard(js)
       \/ \E d \in Dir : SetSpoolDir(d)
       \/ \E j \in JobNo : Start(j) \/ DieInStart(j) \/ End(j)
       \/ \E p \in procs : Gms(p) \/ WriteMore(p)
  BY DEF SpoolNext, Clear, Remove, Quit, Crash, Cancel, Pause, Resume,
         OnSETUPOk, OrphanEnd, vars, jobs
<1> QED
  BY <1>1, <1>2, <1>3, <1>4, <1>5, <1>6, <1>7, <1>8, <1>9, <1>10, DirAssumption

(* Where outputs come from, always.                                        *)
LEMMA OutputsOfRuns == SpoolSpec => [](SpoolInv /\ Traces /\ LastRuns)
<1>1. Init => SpoolInv /\ Traces /\ LastRuns
  <2> SUFFICES ASSUME Init PROVE Traces /\ LastRuns
    BY SpoolInvInit
  <2>1. \A x \in Dir \X Id, e \in Outputs : files[x][e] = None
    BY DEF Init, Ext
  <2>2. Traces
    <3>1. \A x \in Dir \X Id, e \in Outputs : Origin(x, e)
      BY <2>1 DEF Origin, None
    <3>2. procs = {}
      BY DEF Init
    <3> QED
      BY <3>1, <3>2 DEF Traces
  <2>3. LastRuns
    BY DEF Init, LastRuns
  <2> QED
    BY <2>2, <2>3
<1>2. SpoolInv /\ Traces /\ LastRuns /\ [SpoolNext]_vars
      => (SpoolInv /\ Traces /\ LastRuns)'
  BY SpoolInvStep, TracesStep, LastRunsStep
<1> QED
  BY <1>1, <1>2, PTL DEF SpoolSpec

(* A finished job has its own input, the whole log of its own last run and *)
(* no dat or irc but of that run; a trj, efp, gamma or rst is of that run, *)
(* or one that a job left behind which is not in the queue any more        *)
(* (job.cpp:147-206, gamessqd.cpp:603-638, gms:61-74).  Of disturbed jobs  *)
(* nothing is said: those over whose files a directory was copied, of      *)
(* which two processes ran, or that were loaded from an older queue.       *)
THEOREM ResultIsOwnHolds == SpoolSpec => []ResultIsOwn
<1>1. ASSUME SpoolInv, Traces, LastRuns PROVE ResultIsOwn
  <2> SUFFICES ASSUME NEW j \in queue \ disturbed, job[j].status = "DONE"
               PROVE  /\ files[PathOf(j)]["inp"] = Written(j, 0, TRUE)
                      /\ files[PathOf(j)]["log"] = Written(j, run[j], TRUE)
                      /\ \A e \in Outputs :
                           files[PathOf(j)][e] # None =>
                             \/ files[PathOf(j)][e] = Written(j, run[j], TRUE)
                             \/ /\ e \notin RefusedExts \cup ClearedExts
                                /\ files[PathOf(j)][e].of \notin queue
    BY DEF ResultIsOwn, HasStatus, There
  <2>1. JobOK(j)
    BY <1>1 DEF SpoolInv, JobsOK
  <2>2. /\ files[PathOf(j)]["inp"] = Written(j, 0, TRUE)
        /\ files[PathOf(j)]["log"] = Written(j, run[j], TRUE)
        /\ \A e \in RefusedExts : files[PathOf(j)][e] # None =>
             files[PathOf(j)][e] = Written(j, run[j], TRUE)
    BY <2>1 DEF JobOK, Result, InputThere, OwnOutput, FilesOf, HasInput
  <2>3. files[PathOf(j)]["rst"].of = j =>
          files[PathOf(j)]["rst"] = Written(j, run[j], TRUE)
    BY <1>1 DEF LastRuns, FilesOf
  <2>4. ASSUME files[PathOf(j)]["rst"].of \in queue
        PROVE  files[PathOf(j)]["rst"].of = j
    <3>1. /\ PathOf(j) \in Dir \X Id /\ PathOf(j)[2] = job[j].id
          /\ \A k \in queue : k # 0
      <4>1. queue \subseteq 1 .. added
        BY <1>1 DEF SpoolInv, TypeOK
      <4>2. PathOf(j) \in Dir \X Id
        BY <1>1, <4>1, PathsApart DEF SpoolInv
      <4> QED
        BY <4>1, <4>2 DEF PathOf
    <3>2. job[files[PathOf(j)]["rst"].of].id = job[j].id
      BY <1>1, <2>4, <3>1 DEF Traces, Origin, Outputs
    <3> QED
      BY <1>1, <2>4, <3>2 DEF SpoolInv, IdsApart, Apart
  <2>5. /\ Outputs = {"log", "rst"} \cup RefusedExts
        /\ "rst" \notin RefusedExts \cup ClearedExts
    BY DEF Outputs, RefusedExts, ClearedExts
  <2> QED
    BY <2>2, <2>3, <2>4, <2>5
<1> QED
  BY <1>1, OutputsOfRuns, PTL

(* A job that runs again finds nothing of what an earlier run wrote        *)
(* (gamessqd.cpp:603-638).                                                 *)
THEOREM RerunIsCleanHolds == SpoolSpec => []RerunIsClean
<1>1. SpoolInv => RerunIsClean
  BY DEF SpoolInv, JobsOK, JobOK, Clean, Waiting, FilesOf, RerunIsClean,
         HasStatus, There
<1> QED
  BY <1>1, SpoolInvariant, PTL
=============================================================================
