# Formal models of GamessQ

GamessQ keeps a queue of GAMESS calculations. Front ends (a GUI window and a
command line) talk over a socket to a daemon, which holds the queue, runs the
jobs one after the other, and saves the queue to a file. The daemon is started
by the first front end that finds none, and ends when its work is done and
nobody is connected.

This directory has TLA+ modules translated from the source, TLC configurations
that check them on small instances, and TLAPS proofs of its most important
properties for every value of the constants. `PROJECT.json` maps
every definition to the lines it models.

Paths below are relative to the repository's `src/`.

## 1. The system

| Component | State | Operations | Who calls it |
|---|---|---|---|
| `Job`, `PosixJob` (`job.*`, `posix_job.*`) | `mStatus`, `mPausedStatus`, `mPid`; files in the spool directory | Start, Cancel, Pause, Resume, Refresh, Clear | GamessQServer |
| `GamessQServer` (`gamessqd.*`) | `mJobQueue`, `Job::nextId`, `mActive`, `mPausedList` | `OnExecute` (12 commands), `OnRequest` (reads only), `CheckQueue`, `LoadQueue`, `SaveQueue` | the platform's main loop |
| queue file (`queue.dat`) | number of jobs, next id, six lines per job | saved after every command and by `CheckQueue`; loaded once, by the constructor | GamessQServer |
| spool directory | the input file of every job, `log`, `dat`, `irc` and more beside it, `queue.dat` | copied to by ADD, written by the jobs, deleted from by `Clear` and `LoadQueue`, copied by SPOOLDIR | GamessQServer, the jobs |
| POSIX daemon (`gamessqd_posix.*`) | `mFds`, `mNumFds`, `mMaxNumFds`, a listening socket | `OnRun` (poll loop), `HandleConnection`, `ReadCommands` | front ends, a 500 ms timeout |
| connection (`gamessq_client.h`, `gamessq_posix_client.*`) | a socket | Connect, IsConnected, Execute, Request, Disconnect | JobQueueManager |
| `JobQueueManager` (`job_queue_manager.*`) | a connection | `Init` (connect, else start a daemon and retry ten times), one function per command | both front ends |
| main window (`gamessq_frame.*`) | `mJobList`, list control, selection, `mActive`, `mConnected`, one-shot timer | button handlers, `RefreshList`, `RefreshButtons`, `OnTimer`, save as, save to folder, label edits | the user, the timer |
| `WindowsJob` (`windows_job.*`) | as PosixJob, with a job object and a process handle | as PosixJob, through `IterateThreads` | GamessQServer |
| Windows daemon and connection (`gamessqd_windows.*`, `gamessq_windows_client.*`) | `mRunningJobs`, tray icon, timer, DDE connections | `CheckQueue` every second, commands, exit | user, front ends |
| command line (`gamessq.*`) | the parsed command, `mIds` or `mFilenames`, the rows of a listing | one command per process: add, remove, pause, resume, list, clear, pause-all, resume-all, or the GUI | user |
| log viewer (`log_viewer.*`) | `mLogPages`, `mNumPages`, `mNotebook` | open, refresh, remove pages, close | main window |
| dialogs, resources, `gms` script | layout | answers of the user; running GAMESS | main window; the job's process |

What makes each of them hard, and correct:

* **Job.** Its processes run beside the daemon: they start late (the child has
  to call `setpgid` and exec), end at any moment and remain as zombies until
  `Refresh` waits for them. A status has to remain true to the processes
  through every order of Pause, Resume, Cancel and Refresh: no job launched
  twice, no process suspended without a way back, no job shown as running or
  paused when nothing is left that could end.
* **GamessQServer.** First come first served, one at a time; PAUSE_ALL and
  RESUME_ALL as a pair; fresh ids; a job that waits gets its turn; the daemon
  leaves only when nothing is left to do.
* **Queue file.** It is truncated and written again after every command, and
  nobody looks at the results. A crash or a full disk at any moment, then a
  start: a whole file must come back as it was, and a broken one must not cost
  more than what was cut off.
* **Spool directory.** Files are named by id, ids are given out again, some
  files are never deleted, `gms` does not run over old ones, directories are
  changed while jobs write: the output of a job has to be its own.
* **POSIX daemon and connection.** One thread, an array of descriptors that
  grows and is compacted while it is walked, reads that block, front ends that
  die between two messages: each call carried out once and answered, and
  `CheckQueue`, which runs only when poll times out, is not starved.
* **JobQueueManager::Init.** Connects, starts, retries; a daemon may be on its
  way up or out, and only the name of the socket keeps two of them apart.
* **Main window.** A copy of the queue that is always old, rows that index it,
  a timer that is set again by its own handler, dialogs under which the timer
  still fires.
* **Save to folder.** Names are made unique, files that would be overwritten
  are listed, the user is asked, and then another process copies by its own
  rules.
* **Command line.** Processes beside each other and the GUI, each of which
  makes several requests; a listing makes three per job.
* **WindowsJob.** A walk over a snapshot of threads that start and end.
* **Windows daemon.** It exits without a question by what the last timer event
  saw, while commands go on; the ends of jobs have to be noticed between them.
* **Log viewer.** An array of pages is walked while pages are taken out of it,
  by files that other processes make and delete.

## 2. Modules

| Module | Models | Kind |
|---|---|---|
| `PosixJob` | the methods of `Job`/`PosixJob` as operators on a record; the invariant of one job | library, no variables |
| `GamessQServer` | the daemon's queue, its commands, `CheckQueue`, the file, crashes and starts, the processes | specification; EXTENDS PosixJob |
| `GamessQServer_proofs`, `PosixDaemon_proofs`, `QueueFile_proofs`, `SpoolFiles_proofs`, `Startup_proofs`, `WindowsDaemon_proofs` | the proofs about each of those | TLAPS |
| `FrontEnds_proofs` | the proofs about `ClientFrame` and `CommandLine`, two front ends of one daemon | TLAPS |
| `LogViewer_proofs` | the proofs about `LogViewer` and `SaveFolder` | TLAPS |
| `CallService` | what the connection promises | abstract specification |
| `PosixDaemon` | poll loop and front ends over the socket | implements CallService |
| `QueueFile` | `SaveQueue` and `LoadQueue`, line by line, with saves that are broken off | specification |
| `SpoolFiles` | the files of jobs, the spool directory and its changes, crashes, `gms` | specification |
| `Startup` | how a front end finds or starts a daemon; several daemons over one file and one socket name | specification |
| `WindowsJob` | the Windows jobs, thread by thread | operations, without a next-state relation |
| `WindowsDaemon` | timer, commands and exit of the Windows daemon | specification; EXTENDS WindowsJob |
| `QueueView` | the daemon as a front end sees it: how statuses move, what a request is answered | the part the next two share |
| `ClientFrame` | the main window, request by request | specification; EXTENDS QueueView |
| `CommandLine` | command line processes, request by request | specification; EXTENDS QueueView |
| `SaveFolder` | save to folder | specification |
| `LogViewer` | the log viewer on the same selection of rows | specification; EXTENDS SaveFolder |
| `MCGamessQServer`, `MCPosixDaemon`, `MCSaveFolder`, `MCCommandLine` | symmetry, constants, and a statement of a comment that the code does not keep | model checking |

The modules meet at small interfaces. `PosixDaemon` has the queue as one bit,
`work`, the result of `CheckQueue`, which `GamessQServer` computes;
`GamessQServer` has of the connections only their number, `clients`, which
`PosixDaemon` computes. `QueueView` has of the daemon the statuses and how
they may change (`Follows`, `After`), which are those of `PosixJob`. `Startup`
has of both the load and save of the queue and the end of the loop.
`QueueFile` is the one step in which `GamessQServer` saves, and the one in
which it boots, cut into lines. `SpoolFiles` has of the queue the ids,
statuses and paused statuses of jobs, and of `queue.dat` the statuses it holds.

A sequence that lists a set in order is a member of `InOrder(S)`, the
increasing sequences of its elements, of which there is one. Recursion is
written as a recursive function (`Renamed`, `KeptRows`).

Definitions whose name has an underscore (`Add_Unsaved`, `HangUp_KeepsLast`)
are broken variants of the operator they stand before. No specification uses
them: each shows that one of the properties fails if the code had that bug.

### PosixJob and GamessQServer

A job is a record of `mStatus`, `mPausedStatus` and `proc`, which stands for
`mPid` together with the state of the process group: never forked; `forked`
(the child has not reached `setpgid`, so no group exists that could be
signalled); running; stopped; dying; stopped with a SIGINT pending; a zombie
with either exit status; waited for. `kill` and `waitpid` are external and
modelled from what the code does with their results. Whether `kill` reports
success for a zombie (Linux) or not (macOS) is the constant
`ZombiesTakeSignals`; whether `fork` may fail is `ForkMayFail`.

The daemon has one thread, so each handler of `OnExecute` is one action that
includes the `SaveQueue` after it (`Command`); `CheckQueue` is cut into its
outcomes. Only the processes (`Exec`, `Exit`, `Die`, `Killed`) interleave.
Jobs of the list are appended in the order of their ids, so the list is a set
of ids. A removed job leaves `queue` while its record (freed memory) stays,
because its processes live on and `mPausedList` may point at it: RESUME_ALL
through such a pointer resumes the remains, does nothing, or crashes
(`ResumeAllFault`). `DaemonGone` is the end of the process: running groups go
on as `orphans`, stopped ones are killed by the kernel. `Boot` is the
constructor with `LoadQueue`.

`Id` is bounded by `MaxJobs`: ids handed out before the queue is empty again,
when the code, too, starts at 0. `MaxCrashes` and `MaxClients` bound crashes
and connections.

### PosixDaemon and CallService

The daemon's `pc` is where it is between two system calls: in poll, walking
the connections, before reading a type byte or the rest of a message, between
reading and carrying out, between carrying out and writing the answer, in
`HandleConnection`. Front ends go on in between, and may be killed there. What
is read at the end of a stream, into variables the code never initialises, is
a choice among the outcomes (`ReadGarbage`, `VerifyEof`).

`CallService` is what the front ends rely on: a call is carried out exactly
once between its beginning and its return. `PosixDaemon` implements it under
the mapping `phase <- PhaseOf`.

### Startup

Front ends connect, start a daemon when they cannot, and retry; a daemon
loads, unlinks, binds, listens, runs jobs, leaves its loop and exits. `disk`
is the queue file; each daemon has its own copy of it in memory and saves all
of that. `overlap` records that two daemons had the queue loaded at one time.

### QueueFile

A line is a number, a text (also a number, 0 is the empty one) or what is left
of either. `SaveQueue` empties the file; `WriteLine` appends one line of
`Contents` at a time; `WriteFails` and `Crash` break it off before a line or
inside one, where a number keeps some of its leading digits. `LoadHeader` and
`LoadEntry` read as `LoadQueue` does: a missing line is empty, and a number
that cannot be read is the one that was read before, since `tmp` is one
variable; before the first it is uninitialised (`Garbage`). `SkipForEver` is
the loop at `gamessqd.cpp:569` at the end of the file.

### SpoolFiles

Jobs are numbered in the order they were added, which ids are not: an id is
given out again after a restart with an empty queue. `files[<<dir, id>>]` has,
per extension, which job and which of its runs wrote the file, and whether
whole. `Add` overwrites the input file, `Discard` deletes what `Job::Clear`
deletes, `Boot` what `LoadQueue` deletes for jobs it requeues. `Gms` is the
script: it begins the log and ends at once if it finds old `dat` or `irc`; a
run may write the files of `Optional` or none (`WriteMore`), over any left-over
ones: `irc`, and `rst`, which stands for trj, efp, gamma and rst, as none of
these four is deleted by `Clear` or refused by `gms`. `Pause` and `Resume` are there
for the jobs that wait again afterwards. SIGINT may miss a process
(`Signalled`), and `CheckQueue` may leave the end of a job unsaved, since it
saves only when it starts one (`End`).
`SetSpoolDir` copies all files over those of the new directory; jobs go on
where they were. `SetSameDir` is the same directory by another name, where each
file is copied onto itself, which may empty it. `disturbed` records the jobs
whose files such a copy changed (`Overwritten`), or two processes write, or
that came from an older queue; `misled` that the configuration names a
directory without the queue. Properties leave them out where they say so.

### WindowsJob and WindowsDaemon

`IterateThreads` takes a snapshot of the threads of the job object (`Begin`)
and applies the callback to one thread per step (`Visit`), while threads start,
in the first process or in a child of it, end and run. The first process, whose
exit code `Refresh` reads, ends when its own threads have; its children may go on.

Calls to Windows fail, and the code logs that and goes on: no job object, or the
process not put into it (`Start`, `outside`); no list of processes or no
snapshot, so that nothing is done but `Clear` frees the job all the same
(`ClearNothing`; elsewhere a stutter); a living thread that cannot be opened is
skipped (`Visit`); the callback or `Thread32Next` fails and the rest is not
visited (`CutShort`). `missed` is the jobs one of whose threads an operation
did not reach in one of these ways, because it started during the walk, or
because it belonged to a child when `Refresh` closed the job object.

A handle is a value that names an object until it is closed. `mJobHandle` keeps
its value after `CloseHandle`, and `NewObject` may give a new job object the
value of a closed one: an operation through the stale value then walks, or
closes the object of, another job. Both jobs are `mixed` from then on. A handle
is named after the job it was first given to, so there are as many as jobs:
`CreateJobObject` for j gives a fresh value or one that some job still has.

`WindowsDaemon` has the event loop: `OnTimer` begins a `CheckQueue`, which
refreshes job by job in queue order (`RefreshNext`) and then starts one;
`OnExec` is a command, `PauseAll` and `ResumeAll` go through their jobs one
walk after the other (`NextOfBatch`); `OnExitEvent` is the menu of the tray
icon. While its question is open, `app = "asking"`, timer and commands go on,
as they do in a modal dialog's event loop.

### QueueView, ClientFrame, CommandLine and SaveFolder

Every request of the window is a step of its own, and the queue changes
between two of them (`Elsewhere`). Adding files, by the menu or by dropping
them, opens a dialog (`modal = "add"`) under which the timer may fire. `mConnected` is also "the buttons are not
grey", as in the code, where `GreyButtons` and `RefreshButtons` keep them that
way.

`CommandLine` takes each process from its arguments (`HandleCmd`) over its
connection to its requests, and to its end or to the GUI; `app[p]` is what the
process has in memory. `Items` is what is left of the arguments, `Truncated`
the cast of a `long` to an `int`. Whether `JobQueueManager::Init` finds or
starts a daemon is `Startup`'s subject; here it succeeds or fails. `failed` is
history.

`SaveFolder` does the naming (`NameAll`), the question and the copies; names
are a stem, an extension and the numbers appended, so that `SetExt`, which
replaces the text after the last dot, is modelled by what it does. SAVE makes
of each file of a job a whole copy, a part of one or none (`SaveNext`): copies
fail, the log may be missing, the daemon may be gone or die in the middle, and
neither `OnExecute` nor the window stops at any of that. `failed` is history: the
rows of which not all was copied. `LogViewer` starts
from the same rows: the user saves them or views their logs. `Refresh` keeps or
deletes one page per step (`KeepPage`, `DeletePage`), and logs come and go in
between (`LogsChange`).

## 3. Runs

| Run | Instance | What it shows |
|---|---|---|
| `Server` | 2 jobs, 1 crash, 1 client, fork may fail, kill succeeds on zombies; fair | statuses, pause list, file and exit; FIFO launches; RESUME_ALL gives back what PAUSE_ALL suspended; pending jobs are served |
| `DaemonFaults` | 3 front ends with 1 call each, killed at any moment; an array for 2 descriptors at first | the others are polled and served; each call at most once |
| `DaemonLiveness` | 2 front ends with 2 calls each, not killed; fair | `mFds` mirrors the open connections; every call returns; `CheckQueue` gets its turn; an unused daemon quits |
| `Startup` | 2 front ends, 2 starts each, 2 jobs, 2 daemons, 2 tries; fair | added jobs are kept, run, and run once; a daemon that serves can be reached |
| `QueueFile` | 2 jobs, 2 ends of the daemon, names that may be empty, binary numbers; fair | whole files load as they were saved; broken ones keep every whole entry; loads end, but for files that end between entries |
| `Spool` | 2 jobs, 2 directories, 1 change or pause, 1 crash; runs may write an `irc` and an `rst`, one of which is there at a time beside the one being written over | input, log, dat and irc are the job's own, other outputs its own or left by a job that is gone; a rerun finds no old output; a restart finds the queue |
| `Windows` | 2 jobs, the first of up to 2 threads in 1 or 2 processes and with calls that fail, suspend counts up to 2, handles given out again; fair | handles and suspend counts; an exit without a question loses nothing; ends are noticed |
| `Frame` | 2 jobs, all buttons, up to 2 files dropped or chosen, label edits; fair | rows, copy and selection in line; the window converges |
| `SaveFolder` | 3 rows with names out of 2, 1 file in the folder before, 1 row whose copies may fail | jobs saved whole but for the one that failed, which spoils no other; nothing but input files overwritten unasked; the viewer's pages are those whose file was there |
| `CommandLine` | 2 processes, one lists or removes or adds by the GUI, the other has one of 8 command lines; 2 jobs | complete rows of a listing are true |
| `ClaimPausedList`, `ClaimResultStays` | smallest that shows it | section 6 |

Why the bounds are enough to be interesting:

* Two jobs are the least for which one waits, is paused, cancelled or removed
  while the other runs. The orders between a first, a middle and a last job
  are left to the proofs, which have no bounds.
* One crash is enough to lose what was in memory; a state after two crashes is
  the state after the second alone, with more orphans.
* An array of 2 (the listening socket and one connection) grows with the second
  connection, as one of 10 does with the tenth; it would grow again with the
  fourth, which is left to the proofs. With three connections there is a first,
  a middle and a last one to hang up.
* `QueueFile` writes numbers to the base 2, so that an id or status of small
  value has several digits to be cut. Two entries have a first, whose end is
  the beginning of the second, and a last; the second end of the daemon meets
  a file that was saved from a queue loaded from a broken one.
* The one change of `Spool` goes to a directory that is new or in use, to the
  same by another name, or happens without a daemon, or a job is paused
  instead; the crash makes ids be given out again beside leftovers, or a second
  run. There and back again takes two changes: `ClaimResultStays`. A directory
  that cannot be made, and more changes are left to the proofs, which cover all
  three properties of the run. `MaxMore` bounds how many different optional
  files there are beside the one being written: with 1, a job can find what an
  earlier one left while it writes its own.
* `MaxTries` 2 has a first attempt that starts a daemon, one that fails again
  and one that gives up. Two daemons are what overlaps and what restarts.
* Two threads are what a walk can have half done, and a first process and a
  child of it; `MaxSuspend` 2 has the first suspension, the second, and the
  failure beyond the limit. Only the jobs of `Unruly` start threads and have
  calls that fail for them, and none fails for another once `MaxFailing` jobs
  were missed a thread of: the second job runs in one thread beside the first,
  where the properties must hold of it whatever happens to the first. With two
  jobs, a stale handle can only mix up these two; a third that must not notice
  is left to the proofs, which bound none of this.
* Two processes and two jobs of `CommandLine`: a listing of two rows, and
  somebody who removes, clears or adds in between. Only its processes pause and
  resume the whole queue; the button of the GUI sends the same command. A
  daemon that was killed is not started again there.
* Two rows of one name collide once; the third collides with the number the
  second was given. A SAVE that fails for the first, second or third of three
  rows (`MaxFailing` 1, rows that leave the queue counted) has rows saved before
  and after it.

`CHECK_DEADLOCK FALSE` stands where the system may really stop: the daemon has
exited and every front end has made its bounded number of calls or starts, all
jobs have been removed, the files are saved, or the bounded crashes and changes
are used up.

## 4. Fairness

* `GamessQServer`: `WF(CheckQueue)`, since poll times out after 500 ms
  whenever no front end is active; `WF(Exec(i))` and `WF(Die(i))`, since the
  kernel runs the child and delivers the signal; `SF(Exit(i))`, since a
  calculation that is continued often enough ends although it is suspended in
  between. None for commands, connections, crashes or `Boot`.
* `PosixDaemon`: `WF(Daemon)`, the loop goes on when it can; `WF(Proceed(s))`,
  a front end finishes what it has begun. Connecting, calling and closing are
  up to the user and have no fairness.
* `Startup`: the daemons go on, and so do front ends in `Init`; starting and
  closing one, and adding a job, have none.
* `QueueFile`: `WF(Load)`, the constructor goes on by itself. None for commands
  or for writing.
* `WindowsDaemon`: `WF` of a walk over the threads and of a `CheckQueue` or a
  PAUSE_ALL or RESUME_ALL that has begun, which are loops of one handler;
  `SF(OnTimer)`, because the timer goes off every second
  (`gamessqd_windows.cpp:55`), and its event is delivered between the commands
  that make it wait. None for the user or for GAMESS.
* `ClientFrame`: the event loop runs a handler that has begun to its end, and
  `SF(OnTimer)`, since a timer that is due is delivered between two clicks.
  The user closes a dialog or label edit he has opened.

`EndIsNoticed` of `WindowsDaemon` leaves out jobs behind one that runs on, at
which `CheckQueue` returns, and a paused queue. `PendingIsServed` assumes that from some time on the daemon is up and active and that no job is
RUNNING without a process after a failed fork (`LostRun`): such a job blocks
the queue for ever. `Converges` assumes that the queue stands still from some time on and that the timer is set
again and again (a timer that fires during a label edit is lost). The model
contains both failures; the assumptions say what they cost.

## 5. Proofs

`GamessQServer_proofs` proves, for all `MaxJobs`, `MaxCrashes` and
`MaxClients` and both values of `ZombiesTakeSignals` and `ForkMayFail`, from
the named assumptions on their types alone:

| Theorem | Property |
|---|---|
| `TypeCorrect` | `TypeOK` |
| `LaunchedOnceHolds` | `EachLaunchedOnce` |
| `NoGhostHolds` | `NoGhostJob` |
| `ResumableHolds` | `EachSuspendedIsResumable` |
| `FinishedHolds` | `EachFinishedHasNoProcess`: a job shown as done or failed has no process |
| `FreshIdsHold` | `NextIdFresh`: ids are handed out fresh, also after a reload |
| `DiskHasQueueHolds` | `DiskHasQueue` |
| `RestartHolds` | `RestartKeepsStatus` |
| `PausedListHolds` | `PausedListComplete` |
| `ResumeAllHolds` | `ResumeAllRestores` |
| `FifoHolds` | `LaunchIsFifo` |
| `QuitHolds` | `QuitLosesNothing` |
| `SavedResultHolds` | `SavedResultIsFinal` |

Together they are all the safety properties of the module. `FinishedHolds` and
`FreshIdsHold` are proved only: no run has them as a property of its own.

The invariant is built in layers. None of the properties is inductive by
itself: that a stopped process can be resumed, for example, rests on
`mPausedStatus` being RUNNING only for a job that was forked.

1. *One job.* `JobInv` is the four properties of a job and `PauseState`, the
   relation between `mStatus`, `mPausedStatus` and `proc` they rest on. One
   lemma per method of `PosixJob`, and one for the steps of a process, says
   that it is kept.
2. *Memory and disk.* `Base` is types, `JobInv` of every job (the removed ones
   included), fresh ids, and the types of the saved statuses. `BaseStep` has a
   lemma per handler; that every handler saves is factored out
   (`SaveKeeps`, `CommandKeeps`). `BaseHolds` is the theorem all others cite.
3. *Queue and file.* `OnDisk` adds to it what a restart would bring back;
   inductive only together with `Base`. It gives `DiskHasQueue` and
   `RestartKeepsStatus`.
4. *The pause list.* `PausedListComplete` is inductive relative to `Base`:
   while the queue is inactive no command and no `CheckQueue` makes a job
   RUNNING (`InactiveRunsNothing`).
5. *Action properties.* Each is shown of one step under the invariants.
   `LaunchIsFifo` first shows that only `CheckStart` forks
   (`LaunchIsCheckStart`), and then, by a least-element argument over the ids
   (`LeastElement`, `AllVisited`), that when the refresh loop found no running
   job it had visited all of them.

`SpoolFiles_proofs` proves, for any directories, files a run may write, jobs,
moves and crashes:

| Theorem | Property |
|---|---|
| `RestartFindsQueueHolds` | `RestartFindsQueue` |
| `SpoolInvariant` | `SpoolInv` |
| `ResultIsOwnHolds` | `ResultIsOwn` |
| `RerunIsCleanHolds` | `RerunIsClean` |

`RestartFindsQueue` is about what `Boot` reads; its invariant, `QueueAtConfig`,
about where it is: the `queue.dat` of the directory in the configuration lists
the queue, and while a daemon runs that directory is the one it saves to, and
is there. Without the second half a save would miss the file the next daemon
reads. `misled` is what breaks it: a directory that could not be made, or
settings without a daemon.

`RerunIsClean`, and what `ResultIsOwn` says of input, log, dat and irc, need
`SpoolInv`. `IdsApart` says that the jobs in memory, and those of every
`queue.dat` there is, old ones too, have ids of their own, below the next id;
so two jobs of one queue never share a file (`PathsApart`). Of each job that is
not `disturbed`, `JobOK` says that only its own process is where its files are
(`Alone`), that one that waits to run again has no old output (`Clean`), that
its input file is there (`InputThere`), that what is being written, or was, is
of its last run (`Writes`, `Result`), and that what is saved of it may lag
behind, but only as RUNNING or PAUSED: such a job is requeued by `LoadQueue`,
which deletes what `gms` would refuse to run over. That last part is what makes
an unsaved end harmless.

The other outputs, of which jobs that are gone leave some behind, need to know
where a file can have come from. `Traces` says that every file there is was
written by a job whose id it carries (`Origin`), in a run there has been, and
`LastRuns` that a file at the place of a job that is not disturbed is of its
last run, if it is the job's at all. They rest on `FilesDescend`: after any step
a file is as it was, the same file of the directory that was copied, the new
one of a running process, or gone. A file of a job in the queue cannot then lie
at the place of another, since their ids differ (`IdsApart`): hence "left by a
job no longer in the queue".

`QueueFile_proofs` proves, for queues and files of any length, names and
numbers of any size, and any base of the digits:

| Theorem | Property |
|---|---|
| `FileInvariant` | `FileInv` |
| `BrokenFileLoadsHolds` | `BrokenFileLoads` |
| `WholeFileLoadsHolds` | `WholeFileLoads` |

Neither property is inductive: both speak of the state in which `LoadQueue`
has ended. `FileInv` says that the file is a beginning of what was to be
written, with at most its last line cut (`Prefix`), and that the reader, after
so many jobs, stands on the line where the writer stood after as many
(`Loading`). `LineNumbers` and `ContentsProperties` say where in the file each
line of each job is.

`Startup_proofs` proves, for any numbers of front ends, daemons, jobs, starts
and attempts:

| Theorem | Property |
|---|---|
| `StartupTypeOK` | `TypeOK` |
| `AloneHolds` | `StartupInv` |
| `AddedIsKeptHolds` | `AddedIsKept` |
| `RunOnceHolds` | `RunOnce` |
| `ServerIsFoundHolds` | `ServerIsFound` |

No lock keeps two daemons apart, and the properties hold as long as `overlap`
is FALSE. `Alone` is what that gives: one daemon at most has a queue loaded,
its queue is what `queue.dat` says, the socket's name is its own from `bind`
on, and the file has exactly the jobs that were answered.

`PosixDaemon_proofs` proves, for any numbers of sessions and calls and any
array to begin with, front ends killed or not, from `NobodyAssumption` (the
mark for a free descriptor is no session):

| Theorem | Property |
|---|---|
| `DaemonInvariant` | `DaemonInv` |
| `DaemonTypeOK` | `TypeOK` |
| `ConnectedIsPolledHolds` | `ConnectedIsPolled` |
| `NobodyAbandonedHolds` | `NobodyAbandoned` |
| `ExactlyOnceHolds` | `ExactlyOnce`: every step is one of `CallService` or a stutter |
| `FdsMirrorTableHolds` | `FdsMirrorTable`, under `~ClientsMayDie` |

The invariant follows one message at a time. `Wire` says for each state of a
front end what lies in the two directions of its socket and how many calls were
carried out: a type byte, or the rest, or nothing because the daemon has it in
hand, or the answer. `Descriptors` keeps connections and descriptors apart, and
`Loop` is what the daemon relies on where it is (that the connection it reads
from has not been closed, above all). `ConnectedIsPolled` needs all three:
`HangUp` moves the entries behind the one it takes out, while the loop goes on
over the array. `FdsMirrorTable` fails when a front end may die before it is
verified (section 6); without that, `Mirror` adds that entries are open.

`FrontEnds_proofs` proves, for any number of jobs and files to add, and of
processes of the command line whatever their arguments:

| Theorem | Property |
|---|---|
| `FrameInvariant` | `FrameInv /\ Order` |
| `FrameTypeOK` | `TypeOK` |
| `RowsAreJobsHolds` | `RowsAreJobs` |
| `SelectionKeptHolds` | `SelectionKept` |
| `ListIsTrueHolds` | `ListIsTrue` of `CommandLine` |
| `CommandLineTypeOK` | `LineTypeOK` |

While `RefreshList` walks the copy, rows and copy are neither the old answer
nor the new one. `Walked` says that the copy begins with the part of the answer
it has come to; `Listed`, that outside a walk rows and copy are the last
answer. `SelectionKept` needs more, that a job new in the answer comes after
all rows there were (`Order`), which holds because the daemon hands out
growing ids and appends: only then is the row that `EndRefresh` keeps selected
the one of the same job. `KeptRows`, which walks both lists, is described by
`KeptAlong`, whose existence is shown by induction on the rows (`KeptExists`).

A listing of the command line asks for a name, a status and a number of
processors, while the daemon goes on. `ListInv` says what is known of the last
row after each answer: if the job is still in the queue, the row has its name
(`Named`), and says ERROR only if the job has failed (`Told`). This stays known
because no job that is gone comes back (`Later`: ids grow, and only `AddJob`
puts a new one into the queue), so that the last answer, which only a job of the
queue gets, vouches for the other two.

`LogViewer_proofs` proves, for any number of rows, names and files that are in
the folder before:

| Theorem | Property |
|---|---|
| `RefreshKeepsOrderHolds` | `RefreshKeepsOrder` |
| `OverwritesAnnouncedHolds` | `OverwritesAnnounced` |
| `SaveTypeOK` | `TypeOK` of `SaveFolder` |
| `SavedWholeHolds` | `SavedWhole`, for names without a dot and a number (`Plain`) |

For the viewer, `PagesOK` says that the pages before `i` are those whose file
was loaded, in order, and that the notebook is there, unless the viewer had one
page left before. For saving, `SaveInv` says that, once the user was asked, all
output files that would be overwritten are known: jobs leave, and files are
copied, but nothing makes a new file to overwrite (`Asked`). `SavedWhole` follows the
folder through the copies (`Saved`): of the rows before `todo`, under the name
of each there is whole what did not fail and nothing of another job's (`OwnOrOld`);
one step of the loop touches the files of one name only (`SaveNextEffect`).
That rests on the names being different, which is shown of the loop that numbers them
(`Numbering`): after the round of the i-th name, names that are still equal
are behind it and have no number, and one that was given a number is like no
later one without. With a dot or a number in a name this is not so (section 6).

`WindowsDaemon_proofs` proves, for any jobs, threads, limit of the suspend count
and failing calls (`Unruly` and `MaxFailing` are parameters, so that any number
may fail for any job), and handle values given out again:

| Theorem | Property |
|---|---|
| `BaseHolds` | `Base`: types, handles, records, the operation at work |
| `LiveJobHasHandleHolds` | `LiveJobHasHandle` |
| `SuspendedIffPausedHolds` | `SuspendedIffPaused` |
| `UnaskedExitHolds` | `UnaskedExitLosesNothing` |

The daemon is one thread, so every one of its steps is a step of one job or
none (`DaemonDoesJobNext`), and the invariant is built of layers shown of those:

1. *Handles* (`Records`, `Operation`). A live job that is not `mixed` has its
   process handle and either its own job object or none. What `IterateThreads`
   walks is the object the handle names (`Named`); if that is another job's,
   both are in `mixed` before the first thread is touched (`Mixing`), so that
   closing a handle takes nothing from any other job. `Operation` keeps the
   status a walk relies on until it ends: `Pause` is for a running job, `Resume`
   for one paused while running.
2. *Threads* (`Threads`). A thread that has not been born is not suspended, so
   that a new one starts with count 0; a job that was never started has none.
3. *Suspend counts* (`Suspensions`), job by job for those neither `missed` nor
   `mixed`: in the middle of a walk a thread's count depends on whether it was
   visited (`SuspensionOf`). `Snapshot` says that a walk is over threads of the
   job its handle names, and that only a Cancel is cut short without its job
   being missed. A job that is clean has threads only while it is live and in
   the queue, which is the second half of `UnaskedExitLosesNothing`.
4. *The timer* (`Checked`). What `CheckQueue` has visited does not run, and is
   paused only if `retVal` says so; and while `mRunningJobs` is FALSE no job that
   is not `mixed` is live, since only `Start` makes one so (`OnlyStartMakesLive`): that is why an
   exit without a question is safe although `mRunningJobs` is up to a second
   old.

Model-checked only:

* liveness, which rests on fairness and so is out of TLAPS's reach here:
  `PendingIsServed`, `QuietQueueIsChecked`, `QuitsWhenUnused`, `AddedIsRun`,
  `EndIsNoticed`, `Converges`, `LoadEnds`, and of `ImplementsService` the
  fairness (its safety is `ExactlyOnce`).

## 6. Where the code and its comments part

Two statements of the documentation are refuted by a run; the counterexample is
the run's.

* `ClaimPausedList`: REMOVE and CLEAR free jobs that `mPausedList` still points
  at (`src/gamessqd.cpp:134`), although `src/gamessqd.h:77-78` says the list
  gives back "the original state of the queue".
* `ClaimResultStays`: "the output files will be stored here until the job is
  removed from the queue" (`doc/gamessq.html:28-31`). A change of the spool
  directory copies the half-written log of a running job, which goes on in the
  old one; a change back copies it over the finished log (`src/job.cpp:83`).

More is in the models, met while translating, and has no run of its own:

* A front end that is killed before it is verified leaves a closed descriptor
  in `mFds` (`gamessqd_posix.cpp:160`). poll reports it for ever, `CheckQueue`
  never runs again and the loop never ends, against
  `gamessqd_posix.cpp:47-49`. `QuitsWhenUnused` fails with
  `ClientsMayDie = TRUE`.
* `mJobHandle` keeps its value after `CloseHandle` (`windows_job.cpp:215`,
  `:307`); when the value is given out again, `Clear` of a finished job
  terminates the threads of another, or Cancel closes its handle, against
  `windows_job.h:106-107`. The model does so, and the properties of the Windows
  daemon leave out the two jobs that were mixed up.
* Every call to Windows that fails is only logged. A job whose process could not
  be put into its job object (`windows_job.cpp:182`) can be neither paused nor
  cancelled and is freed by REMOVE while it runs; a thread that cannot be opened
  runs on in a job shown as PAUSED, or after its job was cancelled (`:415`); a
  job with more than `mNumProcessors + 15` processes is freed without being
  stopped, as the list of processes is too short (`:383`, `job.cpp:198`).
* The job is over when its first process is (`windows_job.cpp:277`): children
  that outlive it run on, in a job object nobody has a handle of any more.
* A `queue.dat` that ends between two entries keeps `LoadQueue` from ever
  returning (`gamessqd.cpp:569`): the daemon hangs at every start until the
  file is deleted. `LoadEnds` fails without its `CutBetweenEntries`. A file cut
  inside an entry gives a last job with fields of another, and an empty one an
  uninitialised next id (`gamessqd.cpp:558`).
* The spool directory in use by another name (a slash at its end, or the empty
  text for the default) passes the comparison of texts at `job.cpp:75`, and
  every file is copied onto itself, which may empty it.
* `Clear` leaves `irc`, `trj`, `efp`, `gamma` and `rst` (`job.cpp:196-206`), and
  copies in other directories stay. When the id is given out again to a job of
  the same name, `gms` refuses to run over the `irc` and the job fails. It does
  not look at the other four: if the new job writes none of its own, SAVE copies
  those of the removed job as the new one's (`gamessqd.cpp:218-248`).
  `ResultIsOwn` fails without its last alternative.
* Saving to a folder looks at no result (`gamessq_frame.cpp:1262-1264`): a copy
  that fails, a log that is missing or a daemon that dies leaves a job out, in
  part or whole, and the user is told nothing.
* The spool directory is set, and written to the configuration, before it is
  made (`gamessqd.cpp:254`, `job.cpp:70`), and the GUI writes it although no
  daemon was there (`gamessq_frame.cpp:446`): the next daemon starts with an
  empty queue.
* Settings that lead back to a directory used before bring its older queue
  back: jobs that have run since are pending there, so `LoadQueue` deletes
  nothing of theirs, and `gms` refuses to run over what they wrote
  (`gamessqd.cpp:603`).
* The daemon may die between the fork of a job and `SaveQueue`
  (`gamessqd.cpp:448`): the next one starts a second process beside the first.
* When one page of the log viewer is left, its notebook is deleted; if that
  page's file is gone at the next Refresh, `mNotebook` is NULL
  (`log_viewer.cpp:102`). A viewer of which every page is removed stays open,
  against `log_viewer.cpp:94`; one opened for no log at all never sets
  `mNumPages`, which its destructor uses (`log_viewer.cpp:84`).
* The tray icon's "View Logs" opens `server.log` (`gamessqd_windows.cpp:108`);
  the log is `QUEUE_LOG_FILENAME`, `queue.log` (`gamessq_common.h:104`).
* `mRunningJobs` is up to a second old (`gamessqd_windows.h:139-143`): an exit
  without a question may leave a job that was added since. It is in
  `queue.dat`, and no process is lost.

* Cancel leaves `mPausedStatus` set (`posix_job.cpp:131`), so Pause, Cancel,
  Resume brings a cancelled job back; `job.h:214-215` says otherwise.
* SIGINT to a stopped group stays pending: cancelling a suspended job leaves
  its processes suspended (`posix_job.cpp:129`).
* Between fork and the child's `setpgid` there is no group: a Pause then does
  nothing, and PAUSE_ALL leaves that job running (`posix_job.cpp:145`).
* After a failed `fork` the job is RUNNING with `mPid` -1, which `Refresh`
  takes for "not started" (`posix_job.cpp:116`).
* A daemon whose queue is inactive never exits (`gamessqd.cpp:425`).
* Answering a front end that was killed raises SIGPIPE in the daemon
  (`gamessqd_posix.cpp:217`).
* A second daemon unlinks the socket of the first (`gamessqd_posix.cpp:76`).
  Two front ends started together each start one; the properties of `Startup`
  say what holds as long as they do not overlap.
* On Windows, when the callback fails for one thread the rest are not visited:
  a job half suspended, or half terminated and then reported as done
  (`windows_job.cpp:418`).
* The window never asks again about a job it has as done, failed or cancelled
  (`gamessq_frame.cpp:933`); cancels a job that has ended since the last
  refresh; may find the row to be saved gone when its dialog closes
  (`gamessq_frame.cpp:1317`); loses its timer if it fires during a label edit
  (`gamessq_frame.cpp:554`); and shows its own opinion of whether the queue is
  active (`gamessq_frame.cpp:1417`).
* Jobs `a.opt` and `a.freq` are both saved as `a.inp`, `a.log` and `a.dat`,
  against `gamessq_frame.cpp:1208-1210`: `SetExt` replaces what follows the last
  dot (`gamessqd.cpp:194`). `SavedWhole` fails with `Names <- DottedNames`.
* `gamessq clear 3` says that clear "does not take any arguments", and then
  clears the queue: `OnRun` does not look at `mRetVal` (`gamessq.cpp:306`). The
  same goes for list, pause-all and resume-all.
* Ids on the command line are valid if they are on the command line
  (`gamessq.cpp:251`; the daemon's list is fetched and not used), and a number
  beyond an `int` names another job (`gamessq.cpp:453`). The processors option
  is parsed and not passed on (`gamessq.cpp:239`), against
  `doc/man/gamessq.1:31-32`.
* A job that is removed while it is listed is shown without a name or
  processors, as failed (`gamessq.cpp:490`).
* Input files are overwritten unasked (`gamessqd.cpp:195`), and jobs named
  `a_001`, `a`, `a` collide after numbering (`gamessq_frame.cpp:1246`).

## 7. What is left out

* *Abstracted:* names, texts, log output and file contents; of `OnRequest` the
  answers about files and directories; the first poll of 100 seconds, which only delays the loop; a
  failing `accept` or `poll`. `SaveQueue` and `LoadQueue` are one step each but
  in `QueueFile`; a queue loaded from a broken file is not followed in the other
  modules. A job's name, its directory and its other texts are taken to be one line
  each: a name with a line break in it would be read back as two lines, and
  everything behind it as something else, which `QueueFile` does not have. In `Startup` a job runs in one step; in `ClientFrame` dialogs other
  than "save as" and those for new jobs are choices of the user made at once. In
  `SpoolFiles` a fork that fails and what SIGSTOP does to a process are left to
  `GamessQServer`, and all jobs have one name, as files of different names
  never meet. In `CommandLine` the processors option, the exit status and the
  layout of the table. In `WindowsJob` a handle value is given out again to job
  objects only, not to files or processes; `GetExitCodeProcess` does not fail;
  what is kept of a removed job is only its threads. In `SaveFolder` and
  `LogViewer` what is under a name is a file, never a directory.
* *Types:* of the invariants `TypeOK` only that of `GamessQServer` is a
  property of a run. Those of the other modules are proved, as parts of their
  invariants or by themselves, and that of `WindowsJob` as part of `BaseHolds`.
* *Not modelled:* the DDE connection, which is wxWidgets'; the dialogs, which
  have no state but what was typed; icons and resources; the construction of
  the window's controls; opening a job in MacMolPlt, which starts a program and
  changes nothing.

## 8. Plan

Done: every component with state of its own has a module, and every safety
property of a run is proved. Left are the liveness properties, for which TLC's
bounds stay the evidence; `SavedWhole` for the names with dots and numbers that
do not collide; and `LoadEnds` as a measure that every line read decreases.

Running: `tlc -config <run>.cfg <module>.tla` with the module `PROJECT.json`
names, and `tlapm <module>_proofs.tla`.
