---------------------------- MODULE CommandLine ----------------------------
(***************************************************************************)
(* The command line front end (gamessq.cpp): each process parses its       *)
(* arguments, connects, sends its command job by job through               *)
(* JobQueueManager, and ends or goes on as the GUI (ClientFrame.tla).      *)
(* Processes run beside each other, the GUI and the daemon; a listing is   *)
(* put together from three requests per job.                               *)
(***************************************************************************)
EXTENDS QueueView

CONSTANTS
  Proc,      \* the processes: each runs one command
  Lines,     \* the command lines each may be given
  IntSize    \* how many values an int has

ASSUME IntSizeAssumption == IntSize \in Nat \ {0}

VARIABLES
  active,    \* the daemon's mActive
  app,       \* what each process has in memory
  failed     \* history: the jobs that ever were STATUS_ERROR

lineVars == <<daemon, active, app, failed>>

(* mItems is mFilenames or mIds, less those that are done with; ids are    *)
(* the jobs of a listing that it has not come to.                          *)
Fresh == [pc |-> "start", mCommand |-> "none", mGui |-> FALSE, mItems |-> <<>>,
          connected |-> FALSE, ids |-> <<>>, rows |-> <<>>]

(* What is left of a process that has ended, or has become the GUI.        *)
Ended(a) == [Fresh EXCEPT !.pc = IF a.mGui THEN "gui" ELSE "ended"]

LineInit ==
  /\ DaemonInit
  /\ active = TRUE
  /\ app = [p \in Proc |-> Fresh]
  /\ failed = {}

LineTypeOK ==
  /\ DaemonOK
  /\ active \in BOOLEAN
  /\ \A p \in Proc : ToSet(app[p].ids) \subseteq Id
  /\ failed \subseteq Id

Becomes(p, a) == app' = [app EXCEPT ![p] = a]

-----------------------------------------------------------------------------
(* HandleCmd.  A command line is [help, gui, cmd, args]; an argument is a  *)
(* number, the name of an input file that exists, or anything else.        *)

OnJobs == {"remove", "pause", "resume"}
OnQueue == {"clear", "list", "pause-all", "resume-all"}

Number(n) == [kind |-> "number", n |-> n]
InputFile == [kind |-> "file", n |-> 0]
Neither == [kind |-> "neither", n |-> 0]

IsNumber(w) == w.kind = "number"
IsInputFile(w) == w.kind = "file"

(* A long is stored in an int.                                             *)
Truncated(n) == n % IntSize

Items(line) ==
  CASE line.cmd \in OnJobs ->
         LET numbers == SelectSeq(line.args, IsNumber)
         IN  [k \in DOMAIN numbers |-> Truncated(numbers[k].n)]
    [] line.cmd \in OnQueue -> <<>>
    [] OTHER -> SelectSeq(line.args, IsInputFile)

RetVal(line) == IF line.cmd \in OnQueue /\ line.args # <<>> THEN 1 ELSE 0

HandleCmd(p) ==
  /\ app[p].pc = "start"
  /\ \E line \in Lines[p] :
       LET a == [Fresh EXCEPT
                   !.pc = "parsed", !.mCommand = line.cmd, !.mItems = Items(line),
                   !.mGui = (line.gui \/ line.cmd = "none") /\ RetVal(line) = 0]
       IN  Becomes(p, IF line.help THEN Ended(Fresh) ELSE a)
  /\ UNCHANGED <<daemon, active, failed>>

-----------------------------------------------------------------------------
(* OnRun.  It does not look at mRetVal, and only a listing looks at the    *)
(* result of JobQueueManager::Init, which Startup.tla models.              *)

RunGui(p) ==
  /\ app[p].pc = "parsed" /\ app[p].mCommand = "none"
  /\ Becomes(p, Ended(app[p]))
  /\ UNCHANGED <<daemon, active, failed>>

Connect(p) ==
  /\ app[p].pc = "parsed" /\ app[p].mCommand # "none"
  /\ \E c \in {FALSE, alive} :
       LET a == [app[p] EXCEPT !.connected = c,
                   !.pc = IF app[p].mCommand \in OnJobs \cup {"list"}
                          THEN "ids" ELSE "act"]
       IN  Becomes(p, IF app[p].mCommand = "list" /\ ~c THEN Ended(a) ELSE a)
  /\ UNCHANGED <<daemon, active, failed>>

Reaches(p) == app[p].connected /\ alive

(* GetJobIds, for a listing.                                               *)
ListIds(p) ==
  /\ app[p].pc = "ids" /\ app[p].mCommand = "list"
  /\ \E answer \in IdsAnswers :
       Becomes(p, [app[p] EXCEPT !.ids = answer,
                     !.pc = IF answer = <<>> THEN "print" ELSE "name"])
  /\ UNCHANGED <<daemon, active, failed>>

(* Before commands on jobs the answer is not used: an id is valid if it is *)
(* among those on the command line.                                        *)
ValidateIds(p) ==
  /\ app[p].pc = "ids" /\ app[p].mCommand \in OnJobs
  /\ LET Valid(id) == id \in ToSet(app[p].mItems)
     IN  Becomes(p, [app[p] EXCEPT !.mItems = SelectSeq(app[p].mItems, Valid),
                                   !.pc = "act"])
  /\ UNCHANGED <<daemon, active, failed>>

Present(j) == j \in Id /\ Answered(j)

(* The command for the next id, carried out by OnExecute.                  *)
RemoveJob(j) ==
  /\ IF Present(j)
     THEN \E st \in After("Remove", status[j]) : status' = [status EXCEPT ![j] = st]
     ELSE UNCHANGED status
  /\ UNCHANGED nextId

PauseOrResume(o, j) ==
  /\ IF active /\ Present(j)
     THEN \E st \in After(o, status[j]) : status' = [status EXCEPT ![j] = st]
     ELSE UNCHANGED status
  /\ UNCHANGED nextId

Add ==
  /\ IF nextId < MaxJobs THEN AddJob ELSE UNCHANGED <<status, nextId>>

Execute(p) ==
  /\ app[p].pc = "act" /\ app[p].mItems # <<>>
  /\ LET j == Head(app[p].mItems) IN
     \/ Reaches(p) /\ app[p].mCommand = "add" /\ Add
     \/ Reaches(p) /\ app[p].mCommand = "remove" /\ RemoveJob(j)
     \/ Reaches(p) /\ app[p].mCommand = "pause" /\ PauseOrResume("Pause", j)
     \/ Reaches(p) /\ app[p].mCommand = "resume" /\ PauseOrResume("Resume", j)
     \/ ~Reaches(p) /\ UNCHANGED <<status, nextId>>
  /\ Becomes(p, [app[p] EXCEPT !.mItems = Tail(@)])
  /\ UNCHANGED <<alive, active, failed>>

(* PAUSE_ALL and RESUME_ALL, for the jobs they do pause and continue.      *)
SetActive(a) ==
  /\ active' = a
  /\ LET from == IF a THEN "PAUSED" ELSE "RUNNING"
         to == IF a THEN "RUNNING" ELSE "PAUSED" IN
     IF active = a THEN UNCHANGED status
     ELSE \E S \in SUBSET {j \in Id : status[j] = from} :
            status' = [j \in Id |-> IF j \in S THEN to ELSE status[j]]

ExecuteOnQueue(p) ==
  /\ app[p].pc = "act" /\ app[p].mCommand \in OnQueue
  /\ \/ Reaches(p) /\ app[p].mCommand = "clear" /\ ClearQueue /\ UNCHANGED active
     \/ Reaches(p) /\ app[p].mCommand = "pause-all" /\ SetActive(FALSE)
     \/ Reaches(p) /\ app[p].mCommand = "resume-all" /\ SetActive(TRUE)
     \/ ~Reaches(p) /\ UNCHANGED <<status, active>>
  /\ Becomes(p, Ended(app[p]))
  /\ UNCHANGED <<alive, nextId, failed>>

Done(p) ==
  /\ app[p].pc = "act" /\ app[p].mItems = <<>> /\ app[p].mCommand \notin OnQueue
  /\ Becomes(p, Ended(app[p]))
  /\ UNCHANGED <<daemon, active, failed>>

-----------------------------------------------------------------------------
(* ListJobs: three requests per job, each of them answered as the queue is *)
(* then; a name that is empty and no processors if the job is gone.        *)

HasName(j) == Answered(j)
HasProcs_OneIfGone(j) == TRUE
HasProcs(j) == Answered(j)

LastRow(a) == Len(a.rows)

GetName(p) ==
  /\ app[p].pc = "name"
  /\ LET j == Head(app[p].ids) IN
     Becomes(p, [app[p] EXCEPT !.pc = "status",
                   !.rows = Append(@, [id |-> j, name |-> HasName(j),
                                       status |-> "ERROR", procs |-> FALSE])])
  /\ UNCHANGED <<daemon, active, failed>>

RowStatus(p) ==
  /\ app[p].pc = "status"
  /\ Becomes(p, [app[p] EXCEPT !.pc = "procs",
                   !.rows[LastRow(app[p])].status = GetStatus(Head(app[p].ids))])
  /\ UNCHANGED <<daemon, active, failed>>

GetNumProcessors(p) ==
  /\ app[p].pc = "procs"
  /\ Becomes(p, [app[p] EXCEPT !.ids = Tail(@),
                   !.pc = IF Len(app[p].ids) = 1 THEN "print" ELSE "name",
                   !.rows[LastRow(app[p])].procs = HasProcs(Head(app[p].ids))])
  /\ UNCHANGED <<daemon, active, failed>>

PrintTable(p) ==
  /\ app[p].pc = "print"
  /\ Becomes(p, Ended(app[p]))
  /\ UNCHANGED <<daemon, active, failed>>

-----------------------------------------------------------------------------
(* Jobs start and end, and other front ends send commands; the daemon may  *)
(* be killed.                                                              *)
Others ==
  /\ alive /\ Moves
  /\ failed' = failed \cup {j \in Id : status'[j] = "ERROR"}
  /\ UNCHANGED <<active, app>>

Run(p) ==
  \/ HandleCmd(p) \/ RunGui(p) \/ Connect(p) \/ ListIds(p) \/ ValidateIds(p)
  \/ Execute(p) \/ ExecuteOnQueue(p) \/ Done(p)
  \/ GetName(p) \/ RowStatus(p) \/ GetNumProcessors(p) \/ PrintTable(p)

LineNext == Others \/ \E p \in Proc : Run(p)

LineSpec == LineInit /\ [][LineNext]_lineVars

-----------------------------------------------------------------------------
(* When a listing is printed, a row that shows processors is true, although*)
(* it was put together from three answers: the job has its name, and is    *)
(* shown as failed only if it did fail (0, the answer for a job that is    *)
(* gone, reads as STATUS_ERROR).  And a job that is still there is shown   *)
(* with all it has.                                                        *)
ListIsTrue ==
  \A p \in Proc : app[p].pc = "print" =>
    \A k \in DOMAIN app[p].rows :
      LET r == app[p].rows[k] IN
      /\ r.procs => r.name /\ (r.status = "ERROR" => r.id \in failed)
      /\ r.id \in queue => r.name /\ r.procs
=============================================================================
