----------------------------- MODULE SpoolFiles -----------------------------
(***************************************************************************)
(* The files in the spool directory: the copy of the input file each job   *)
(* is given, what its process writes beside it, what Job::Clear and        *)
(* GamessQServer::LoadQueue delete, and what COMMAND_SPOOLDIR, which sets  *)
(* another directory, copies (job.cpp, gamessqd.cpp, the script gms).      *)
(*                                                                         *)
(* A file is named by its directory, the name of the job, the id of the    *)
(* job and an extension.  All jobs have one name here; files of jobs with  *)
(* different names never meet.  A job is known by its number, the how      *)
(* manieth that was added, since ids are handed out again once the daemon  *)
(* was restarted with an empty queue.                                      *)
(***************************************************************************)
EXTENDS Naturals, FiniteSets

CONSTANTS
  Dir,          \* directories
  FirstDir,     \* the one of the configuration at first
  Uncreatable,  \* those wxMkdir cannot make
  Optional,     \* the files beside log and dat that a run may write
  OtherNames,   \* a directory may be given by another name than before
  MaxMore,      \* bound: of those, how many are there at once
  MaxJobs,      \* bound: jobs added
  MaxMoves,     \* bound: directories set, and jobs paused
  MaxCrashes    \* bound: crashes of the daemon

ASSUME DirAssumption == FirstDir \in Dir \ Uncreatable
ASSUME OptionalAssumption == Optional \subseteq {"irc", "rst"}
ASSUME NamesAssumption == OtherNames \in BOOLEAN
ASSUME BoundsAssumption ==
  MaxMore \in Nat /\ MaxJobs \in Nat /\ MaxMoves \in Nat /\ MaxCrashes \in Nat

JobNo == 1 .. MaxJobs
Id == 0 .. MaxJobs - 1
Run == 0 .. MaxCrashes + 1

(***************************************************************************)
(* Extensions.  "rst" stands for trj, efp, gamma and rst, which only some  *)
(* runs write, as they do irc.                                             *)
(***************************************************************************)
Outputs == {"log", "dat", "irc", "rst"}
Ext == {"inp"} \cup Outputs
ClearedExts == {"inp", "log", "dat"}         \* Job::Clear
ReloadedExts == {"log", "dat", "irc", "rst"} \* LoadQueue
RefusedExts == {"dat", "irc"}                \* gms does not overwrite them

(* A file: the job and the run that wrote it, and whether they finished.   *)
Content == [of : JobNo, run : Run, whole : BOOLEAN]
None == [of |-> 0, run |-> 0, whole |-> FALSE]
Emptied == [of |-> 0, run |-> 0, whole |-> TRUE]
Written(j, r, whole) == [of |-> j, run |-> r, whole |-> whole]

Statuses == {"ERROR", "PENDING", "PAUSED", "RUNNING", "DONE", "CANCELED"}
Interrupted == {"RUNNING", "PAUSED"}         \* LoadQueue
Finished == {"ERROR", "DONE", "CANCELED"}

VARIABLES
  up,        \* the daemon runs
  config,    \* "Spool Directory" in the configuration
  spoolDir,  \* Job::spoolDir
  made,      \* directories there are
  queue,     \* jobs in mJobQueue; while no daemon runs, in that of the last
  nextId,    \* Job::nextId
  job,       \* id, directory (both from mSpoolFileName), mStatus,
             \* mPausedStatus, and whether this daemon has a mPid for it
  run,       \* how often each job was started
  added,     \* jobs added so far
  procs,     \* the processes of jobs
  files,     \* the files of the jobs
  queueDat,  \* queue.dat of each directory
  moves, crashes, \* so far
  disturbed, \* history: jobs whose files a copy of a directory changed, or
             \* two processes write, or that were loaded from an older
             \* queue than the last
  misled     \* history: the configuration names a directory without queue

daemon == <<up, config, spoolDir, made, misled>>
jobs == <<queue, nextId, job, run, added>>
vars == <<daemon, jobs, procs, files, queueDat, moves, crashes, disturbed>>

NewJob(id, dir, st) ==
  [id |-> id, dir |-> dir, status |-> st, paused |-> "NONE", mPid |-> FALSE]

NoDat == [there |-> FALSE, status |-> [j \in {} |-> "ERROR"], nextId |-> 0]

Init ==
  /\ up = FALSE
  /\ config = FirstDir /\ spoolDir = FirstDir
  /\ made = {}
  /\ queue = {} /\ nextId = 0 /\ added = 0
  /\ job = [j \in JobNo |-> NewJob(0, FirstDir, "ERROR")]
  /\ run = [j \in JobNo |-> 0]
  /\ procs = {}
  /\ files = [p \in Dir \X Id |-> [e \in Ext |-> None]]
  /\ queueDat = [d \in Dir |-> NoDat]
  /\ moves = 0 /\ crashes = 0
  /\ disturbed = {} /\ misled = FALSE

-----------------------------------------------------------------------------
(* Helpers.                                                                *)

PathOf(j) == <<job[j].dir, job[j].id>>
There(p, e) == files[p][e] # None

(* The process whose mPid a job has.                                       *)
IsOf(p, j) == p.of = j /\ p.run = run[j] /\ job[j].mPid
IsAt(j, at) == job[j].mPid /\ [of |-> j, run |-> run[j], at |-> at] \in procs
Reaped(j) == {p \in procs : ~IsOf(p, j)}

(* SIGINT ends a process or not: it may not have its group yet, may have   *)
(* ended already, or may be stopped.                                       *)
Signalled(js) ==
  \E dead \in SUBSET {p \in procs : \E j \in js : IsOf(p, j)} :
    procs' = procs \ dead

HasStatus(st) == {j \in queue : job[j].status = st}
SetStatus(j, st) == job' = [job EXCEPT ![j].status = st]

(* SaveQueue writes into Job::spoolDir; the file cannot be opened if there *)
(* is no such directory.                                                   *)
SaveQueueIn(d, ds) ==
  queueDat' =
    IF d \in ds
    THEN [queueDat EXCEPT ![d] =
            [there |-> TRUE,
             status |-> [j \in queue' |-> job'[j].status],
             nextId |-> IF queue' = {} THEN 0 ELSE nextId']]
    ELSE queueDat

SaveQueue == SaveQueueIn(spoolDir, made)

-----------------------------------------------------------------------------
(* Commands.                                                               *)

(* The constructor of a job copies the input file over one that may be     *)
(* there, or fails.                                                        *)
Add_KeepsOld ==
  /\ up /\ added < MaxJobs
  /\ LET j == added + 1
         path == <<spoolDir, nextId>>
     IN \E copied \in {FALSE, (spoolDir \in made)} :
          /\ job' = [job EXCEPT ![j] =
               NewJob(nextId, spoolDir, IF copied THEN "PENDING" ELSE "ERROR")]
          /\ files' = IF copied /\ ~There(path, "inp")
                      THEN [files EXCEPT ![path]["inp"] = Written(j, 0, TRUE)]
                      ELSE files
          /\ queue' = queue \cup {j}
          /\ added' = j
          /\ disturbed' = disturbed \cup
               {k \in {j} : \E p \in procs : PathOf(p.of) = path}
  /\ nextId' = nextId + 1
  /\ SaveQueue
  /\ UNCHANGED <<daemon, run, procs, moves, crashes>>
Add ==
  /\ up /\ added < MaxJobs
  /\ LET j == added + 1
         path == <<spoolDir, nextId>>
     IN \E copied \in {FALSE, (spoolDir \in made)} :
          /\ job' = [job EXCEPT ![j] =
               NewJob(nextId, spoolDir, IF copied THEN "PENDING" ELSE "ERROR")]
          /\ files' = IF copied
                      THEN [files EXCEPT ![path]["inp"] = Written(j, 0, TRUE)]
                      ELSE files
          /\ queue' = queue \cup {j}
          /\ added' = j
          /\ disturbed' = disturbed \cup
               {k \in {j} : \E p \in procs : PathOf(p.of) = path}
  /\ nextId' = nextId + 1
  /\ SaveQueue
  /\ UNCHANGED <<daemon, run, procs, moves, crashes>>

(* Jobs leave the queue and Job::Clear is called for each.                 *)
Discard(js) ==
  /\ queue' = queue \ js
  /\ Signalled(js)
  /\ files' = [p \in Dir \X Id |->
                 IF \E j \in js : PathOf(j) = p
                 THEN [e \in Ext |-> IF e \in ClearedExts THEN None
                                     ELSE files[p][e]]
                 ELSE files[p]]
  /\ job' = [j \in JobNo |->
               IF j \in js THEN NewJob(job[j].id, job[j].dir, "CANCELED")
               ELSE job[j]]
  /\ disturbed' = disturbed \ js
  /\ UNCHANGED <<daemon, nextId, run, added, moves, crashes>>
  /\ SaveQueue

Remove(j) == up /\ j \in queue /\ Discard({j})

Clear == up /\ Discard({j \in queue : job[j].status \in Finished})

Cancel(j) ==
  /\ up /\ j \in queue
  /\ SetStatus(j, "CANCELED")
  /\ Signalled({j})
  /\ UNCHANGED <<queue, nextId, run, added>>
  /\ SaveQueue
  /\ UNCHANGED <<daemon, files, moves, crashes, disturbed>>

(* A job that is paused before it is started, or while its process runs.   *)
Pause(j) ==
  /\ up /\ moves < MaxMoves
  /\ moves' = moves + 1
  /\ j \in HasStatus("PENDING") \cup HasStatus("RUNNING")
  /\ job[j].status = "RUNNING" => IsAt(j, "forked") \/ IsAt(j, "running")
  /\ job' = [job EXCEPT ![j].paused = job[j].status, ![j].status = "PAUSED"]
  /\ UNCHANGED <<queue, nextId, run, added>>
  /\ SaveQueue
  /\ UNCHANGED <<daemon, procs, files, crashes, disturbed>>

(* Not only a paused job: also one that was paused, and then cancelled.    *)
Resume(j) ==
  /\ up /\ j \in queue /\ job[j].paused # "NONE"
  /\ job[j].paused = "RUNNING" => IsAt(j, "forked") \/ IsAt(j, "running")
  /\ job' = [job EXCEPT ![j].status = job[j].paused, ![j].paused = "NONE"]
  /\ UNCHANGED <<queue, nextId, run, added>>
  /\ SaveQueue
  /\ UNCHANGED <<daemon, procs, files, moves, crashes, disturbed>>

(* COMMAND_SPOOLDIR: the directory is set before it is made, and it stays  *)
(* set if it cannot be made.  All files of the old one are copied.  Jobs   *)
(* stay where they were, and find the copies there if they were in the     *)
(* directory before.                                                       *)
Overwritten == {j \in queue : files'[PathOf(j)] # files[PathOf(j)]}

CopyAll(from, to) ==
  [p \in Dir \X Id |->
     [e \in Ext |->
        IF p[1] = to /\ There(<<from, p[2]>>, e)
        THEN files[<<from, p[2]>>][e]
        ELSE files[p][e]]]

SetSpoolDir_NoConfig(d) ==
  /\ up /\ moves < MaxMoves
  /\ moves' = moves + 1
  /\ spoolDir' = d
  /\ IF d \in made \/ d \notin Uncreatable
     THEN made' = made \cup {d} /\ files' = CopyAll(spoolDir, d)
     ELSE UNCHANGED <<made, files>>
  /\ disturbed' = disturbed \cup Overwritten
  /\ misled' = (d \notin made')
  /\ UNCHANGED <<jobs, procs, crashes, up, config>>
  /\ SaveQueueIn(d, made')
SetSpoolDir(d) ==
  /\ up /\ moves < MaxMoves
  /\ moves' = moves + 1
  /\ config' = d /\ spoolDir' = d
  /\ IF d \in made \/ d \notin Uncreatable
     THEN made' = made \cup {d} /\ files' = CopyAll(spoolDir, d)
     ELSE UNCHANGED <<made, files>>
  /\ disturbed' = disturbed \cup Overwritten
  /\ misled' = (d \notin made')
  /\ UNCHANGED <<jobs, procs, crashes, up>>
  /\ SaveQueueIn(d, made')

(* The directory in use under another text, as with a slash behind it, or  *)
(* the default one under none: every file is copied onto itself, and is    *)
(* empty then if it is truncated before it is read.                        *)
SetSameDir ==
  /\ OtherNames /\ up /\ moves < MaxMoves /\ spoolDir \in made
  /\ moves' = moves + 1
  /\ \/ UNCHANGED files
     \/ files' = [p \in Dir \X Id |->
                    [e \in Ext |-> IF p[1] = spoolDir /\ There(p, e)
                                  THEN Emptied ELSE files[p][e]]]
  /\ disturbed' = disturbed \cup Overwritten
  /\ UNCHANGED <<daemon, jobs, procs, crashes>>
  /\ SaveQueue

(* The settings of the GUI: the command fails without a daemon, and the    *)
(* configuration is written all the same.                                  *)
OnSETUPOk(d) ==
  /\ ~up /\ moves < MaxMoves
  /\ moves' = moves + 1
  /\ config' = d
  /\ misled' = (misled \/ d # config)
  /\ UNCHANGED <<up, spoolDir, made, jobs, procs, files, queueDat, crashes,
                 disturbed>>

-----------------------------------------------------------------------------
(* CheckQueue.                                                             *)

IsNext(j) ==
  /\ up /\ HasStatus("RUNNING") = {}
  /\ j \in HasStatus("PENDING")
  /\ \A k \in HasStatus("PENDING") : j <= k

Forked(j) ==
  /\ IsNext(j) /\ run[j] <= MaxCrashes
  /\ run' = [run EXCEPT ![j] = @ + 1]
  /\ procs' = procs \cup {[of |-> j, run |-> run[j] + 1, at |-> "forked"]}

(* Where there is no gms, Start writes that to the log.  (A fork that      *)
(* fails touches no file: see GamessQServer.tla.)                          *)
Start(j) ==
  /\ \/ /\ Forked(j)
        /\ job' = [job EXCEPT ![j].status = "RUNNING", ![j].mPid = TRUE]
        /\ UNCHANGED files
     \/ /\ IsNext(j)
        /\ SetStatus(j, "ERROR")
        /\ files' = [files EXCEPT ![PathOf(j)]["log"] = Emptied]
        /\ UNCHANGED <<run, procs>>
  /\ UNCHANGED <<queue, nextId, added>>
  /\ SaveQueue
  /\ UNCHANGED <<daemon, moves, crashes, disturbed>>

(* The daemon dies between the fork in Start and SaveQueue: the job is     *)
(* PENDING in the file, and its process runs.                              *)
DieInStart(j) ==
  /\ crashes < MaxCrashes
  /\ Forked(j)
  /\ up' = FALSE
  /\ crashes' = crashes + 1
  /\ disturbed' = disturbed \cup {j}
  /\ UNCHANGED <<config, spoolDir, made, misled, queue, nextId, job, added,
                 files, queueDat, moves>>

(* The process has ended and Refresh sees it, also that of a job that was  *)
(* cancelled.  CheckQueue looks at no job behind a running one, and saves  *)
(* the queue unless it meets one.                                          *)
End(j) ==
  /\ up /\ j \in queue /\ job[j].mPid
  /\ job[j].status \in Interrupted \cup {"CANCELED"}
  /\ \A k \in HasStatus("RUNNING") : j <= k
  /\ \/ /\ IsAt(j, "running")
        /\ SetStatus(j, "DONE")
        /\ files' = IF files[PathOf(j)]["log"] = Written(j, run[j], FALSE)
                    THEN [files EXCEPT ![PathOf(j)]["log"] =
                            Written(j, run[j], TRUE)]
                    ELSE files
     \/ /\ ~IsAt(j, "forked") /\ job[j].status # "CANCELED"
        /\ SetStatus(j, "ERROR")
        /\ UNCHANGED files
  /\ procs' = Reaped(j)
  /\ UNCHANGED <<queue, nextId, run, added>>
  /\ \/ SaveQueue
     \/ HasStatus("RUNNING") \ {j} # {} /\ UNCHANGED queueDat
  /\ UNCHANGED <<daemon, moves, crashes, disturbed>>

Quit ==
  /\ up /\ \A j \in queue : job[j].status \in Finished
  /\ up' = FALSE
  /\ UNCHANGED <<config, spoolDir, made, misled, jobs, procs, files, queueDat,
                 moves, crashes, disturbed>>

Crash ==
  /\ up /\ crashes < MaxCrashes
  /\ up' = FALSE
  /\ crashes' = crashes + 1
  /\ UNCHANGED <<config, spoolDir, made, misled, jobs, procs, files, queueDat,
                 moves, disturbed>>

(* The constructor: the directory of the configuration, which is made but  *)
(* nothing is copied to it, and its queue, whose running jobs lose their   *)
(* output.                                                                 *)
Boot_KeepsIrc ==
  /\ ~up
  /\ up' = TRUE
  /\ spoolDir' = config
  /\ made' = made \cup ({config} \ Uncreatable)
  /\ LET dat == queueDat[config]
         again == {j \in DOMAIN dat.status : dat.status[j] \in Interrupted}
     IN /\ queue' = DOMAIN dat.status
        /\ nextId' = dat.nextId
        /\ job' = [j \in JobNo |->
                     IF j \in DOMAIN dat.status
                     THEN NewJob(job[j].id, job[j].dir,
                             IF j \in again THEN "PENDING" ELSE dat.status[j])
                     ELSE job[j]]
        /\ files' = [p \in Dir \X Id |->
                       IF \E j \in again : PathOf(j) = p
                       THEN [e \in Ext |->
                               IF e \in ReloadedExts \ {"irc"} THEN None
                               ELSE files[p][e]]
                       ELSE files[p]]
        /\ disturbed' = {j \in queue' :
             misled \/ j \in disturbed \/ \E p \in procs : p.of = j}
  /\ misled' = (config \in Uncreatable)
  /\ UNCHANGED <<config, run, added, procs, queueDat, moves, crashes>>
Boot ==
  /\ ~up
  /\ up' = TRUE
  /\ spoolDir' = config
  /\ made' = made \cup ({config} \ Uncreatable)
  /\ LET dat == queueDat[config]
         again == {j \in DOMAIN dat.status : dat.status[j] \in Interrupted}
     IN /\ queue' = DOMAIN dat.status
        /\ nextId' = dat.nextId
        /\ job' = [j \in JobNo |->
                     IF j \in DOMAIN dat.status
                     THEN NewJob(job[j].id, job[j].dir,
                             IF j \in again THEN "PENDING" ELSE dat.status[j])
                     ELSE job[j]]
        /\ files' = [p \in Dir \X Id |->
                       IF \E j \in again : PathOf(j) = p
                       THEN [e \in Ext |->
                               IF e \in ReloadedExts THEN None
                               ELSE files[p][e]]
                       ELSE files[p]]
        /\ disturbed' = {j \in queue' :
             misled \/ j \in disturbed \/ \E p \in procs : p.of = j}
  /\ misled' = (config \in Uncreatable)
  /\ UNCHANGED <<config, run, added, procs, queueDat, moves, crashes>>

-----------------------------------------------------------------------------
(* The processes, whether a daemon runs or not.                            *)

(* gms begins the log, and ends where it finds old output.                 *)
Gms(p) ==
  /\ p.at = "forked"
  /\ LET path == PathOf(p.of)
         logged == [files EXCEPT ![path]["log"] = Written(p.of, p.run, FALSE)]
     IN IF \E e \in RefusedExts : There(path, e)
        THEN /\ files' = logged
             /\ procs' = procs \ {p}
        ELSE /\ files' = [logged EXCEPT ![path]["dat"] =
                            Written(p.of, p.run, TRUE)]
             /\ procs' = (procs \ {p}) \cup {[p EXCEPT !.at = "running"]}
  /\ UNCHANGED <<daemon, jobs, queueDat, moves, crashes, disturbed>>

(* What a run writes beside the log and the dat, over what may be there.   *)
OtherFiles(p, e) ==
  {<<f[2], files[f[1]][f[2]]>> : f \in {g \in (Dir \X Id) \X Optional :
     There(g[1], g[2]) /\ g # <<PathOf(p.of), e>>}}

WriteMore(p) ==
  /\ p.at = "running"
  /\ \E e \in Optional :
       /\ files[PathOf(p.of)][e] # Written(p.of, p.run, TRUE)
       /\ Cardinality(OtherFiles(p, e)) < MaxMore
       /\ files' = [files EXCEPT ![PathOf(p.of)][e] =
                      Written(p.of, p.run, TRUE)]
  /\ UNCHANGED <<daemon, jobs, procs, queueDat, moves, crashes, disturbed>>

(* A process ends that no daemon has, or that was cancelled.               *)
OrphanEnd(p) ==
  /\ ~up \/ ~IsOf(p, p.of) \/ job[p.of].status = "CANCELED"
  /\ procs' = procs \ {p}
  /\ UNCHANGED <<daemon, jobs, files, queueDat, moves, crashes, disturbed>>

-----------------------------------------------------------------------------
SpoolNext ==
  \/ Add \/ Clear \/ SetSameDir \/ Quit \/ Crash \/ Boot
  \/ \E j \in JobNo :
       \/ Remove(j) \/ Cancel(j) \/ Pause(j) \/ Resume(j)
       \/ Start(j) \/ DieInStart(j) \/ End(j)
  \/ \E d \in Dir : SetSpoolDir(d) \/ OnSETUPOk(d)
  \/ \E p \in procs : Gms(p) \/ WriteMore(p) \/ OrphanEnd(p)

SpoolSpec == Init /\ [][SpoolNext]_vars

-----------------------------------------------------------------------------
(* Properties.                                                             *)

(* A finished job has its own input, and the whole log of its own last run *)
(* (job.cpp:147-206, gamessqd.cpp:603-638, gms:61-74); its other outputs   *)
(* are of that run too, although ids, and so names of files, are given out *)
(* again and directories are copied.  A trj, efp, gamma or rst may instead *)
(* be one that a removed job left behind, since Clear does not delete it   *)
(* and gms runs over it, and SAVE copies it as the new job's               *)
(* (gamessqd.cpp:218-248); but even that is never of an earlier run of the *)
(* job, nor of a job that is still in the queue.  None of this is so once  *)
(* a directory was copied over files of the job, or two of its processes   *)
(* met: disturbed.                                                         *)
ResultIsOwn ==
  \A j \in HasStatus("DONE") \ disturbed :
    /\ files[PathOf(j)]["inp"] = Written(j, 0, TRUE)
    /\ files[PathOf(j)]["log"] = Written(j, run[j], TRUE)
    /\ \A e \in Outputs :
         There(PathOf(j), e) =>
           \/ files[PathOf(j)][e] = Written(j, run[j], TRUE)
           \/ /\ e \notin RefusedExts \cup ClearedExts
              /\ files[PathOf(j)][e].of \notin queue

(* A job that runs again, because the daemon died under it, finds none of  *)
(* what its first run wrote, which gms would refuse to overwrite: LoadQueue*)
(* has deleted all of it, wherever the spool directory is now              *)
(* (gamessqd.cpp:603-638).  It cannot know of a run that an older queue,   *)
(* to which the settings lead it back, does not have: disturbed.           *)
RerunIsClean ==
  \A j \in HasStatus("PENDING") \ disturbed :
    up /\ run[j] > 0 => \A e \in Outputs : ~There(PathOf(j), e)

(* A daemon that is started finds the queue of the last one, wherever the  *)
(* spool directory was moved in between (gamessqd.cpp:251-270, 48-56),     *)
(* unless the directory could not be made, or was set without a daemon.    *)
RestartFindsQueue == [][Boot /\ ~misled => queue' = queue]_vars

(* doc/gamessq.html:28-31 says of the spool directory that the output      *)
(* files of a job are stored there until the job is removed from the       *)
(* queue.  Not if the directory is changed while the job runs and changed  *)
(* back afterwards, or is given by another name.                           *)
StoredUntilRemoved ==
  \A j \in HasStatus("DONE") :
    files[PathOf(j)]["log"] = Written(j, run[j], TRUE)
=============================================================================
