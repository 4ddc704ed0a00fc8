------------------------------ MODULE Startup ------------------------------
(***************************************************************************)
(* How front ends find or start the daemon: JobQueueManager::Init          *)
(* (job_queue_manager.cpp) with GamessQPosixClient::Connect, against the   *)
(* daemon's way up, OnInit and OnRun (gamessqd_posix.cpp, gamessqd.cpp).   *)
(*                                                                         *)
(* Nothing but the name of the socket keeps two daemons apart: each loads  *)
(* queue.dat once, when it starts, and writes the whole of it afterwards.  *)
(* The module says what is kept as long as no two daemons overlap, and     *)
(* how they may come to overlap.                                           *)
(***************************************************************************)
EXTENDS Naturals, FiniteSets

CONSTANTS
  FrontEnd,  \* front ends: GUI windows and command lines
  Jobs,      \* the jobs that are added
  MaxDaemons,\* bound: daemons started
  MaxStarts, \* bound: times each front end is started
  MaxTries   \* attempts to connect after starting a daemon: 10 in the code

ASSUME FrontEndAssumption == IsFiniteSet(FrontEnd)
ASSUME BoundsAssumption ==
  MaxDaemons \in Nat /\ MaxStarts \in Nat /\ MaxTries \in Nat \ {0}

Daemons == 1 .. MaxDaemons
Nothing == 0                       \* the name of the socket does not exist
Status == {"absent", "PENDING", "DONE"}

VARIABLES
  path,    \* the daemon whose socket SOCKETNAME names, dead or alive
  daemon,  \* where each daemon is
  mem,     \* its queue
  disk,    \* queue.dat
  fe,      \* where each front end is, whom it talks to, attempts made
  starts,  \* how often it was started
  acked,   \* jobs whose ADD was answered with true
  runs,    \* how often each job was run
  overlap  \* two daemons had the queue loaded at one time

vars == <<path, daemon, mem, disk, fe, starts, acked, runs, overlap>>

DaemonStates == {"off", "spawned", "loaded", "unlinked", "bound", "listening",
                 "deaf", "leaving", "gone"}
Serving == {"loaded", "unlinked", "bound", "listening", "deaf"}
FrontEndStates == {"off", "trying", "verifying", "connected", "failed"}

TypeOK ==
  /\ path \in Daemons \cup {Nothing}
  /\ daemon \in [Daemons -> DaemonStates]
  /\ mem \in [Daemons -> [Jobs -> Status]]
  /\ disk \in [Jobs -> Status]
  /\ fe \in [FrontEnd -> [pc : FrontEndStates,
                          to : Daemons \cup {Nothing},
                          tries : 0 .. MaxTries]]
  /\ starts \in [FrontEnd -> 0 .. MaxStarts]
  /\ acked \subseteq Jobs
  /\ runs \in [Jobs -> Nat]
  /\ overlap \in BOOLEAN

NoJobs == [j \in Jobs |-> "absent"]
Away(pc) == [pc |-> pc, to |-> Nothing, tries |-> 0]

Init ==
  /\ path = Nothing
  /\ daemon = [d \in Daemons |-> "off"]
  /\ mem = [d \in Daemons |-> NoJobs]
  /\ disk = NoJobs
  /\ fe = [f \in FrontEnd |-> Away("off")]
  /\ starts = [f \in FrontEnd |-> 0]
  /\ acked = {}
  /\ runs = [j \in Jobs |-> 0]
  /\ overlap = FALSE

-----------------------------------------------------------------------------
(* The daemon's way up: the constructor of GamessQServer, then the socket. *)

Moves(d, from, to) ==
  daemon[d] = from /\ daemon' = [daemon EXCEPT ![d] = to]

Load_Nothing(d) ==
  /\ Moves(d, "spawned", "loaded")
  /\ overlap' = (overlap \/ \E e \in Daemons : daemon[e] \in Serving)
  /\ UNCHANGED <<path, mem, disk, fe, starts, acked, runs>>
Load_Requeues(d) ==
  /\ Moves(d, "spawned", "loaded")
  /\ mem' = [mem EXCEPT ![d] = [j \in Jobs |-> IF disk[j] = "absent" THEN "absent"
                                               ELSE "PENDING"]]
  /\ overlap' = (overlap \/ \E e \in Daemons : daemon[e] \in Serving)
  /\ UNCHANGED <<path, disk, fe, starts, acked, runs>>
Load(d) ==
  /\ Moves(d, "spawned", "loaded")
  /\ mem' = [mem EXCEPT ![d] = disk]
  /\ overlap' = (overlap \/ \E e \in Daemons : daemon[e] \in Serving)
  /\ UNCHANGED <<path, disk, fe, starts, acked, runs>>

Unlink(d) ==
  /\ Moves(d, "loaded", "unlinked")
  /\ path' = Nothing
  /\ UNCHANGED <<mem, disk, fe, starts, acked, runs, overlap>>

(* bind fails if the name exists again; the error is logged and no more.   *)
(* The socket then cannot listen, poll reports it at once and for ever,    *)
(* and CheckQueue never runs.                                              *)
Bind_ThenUnlink(d) ==
  /\ path' = Nothing
  /\ \/ path = Nothing /\ Moves(d, "unlinked", "bound")
     \/ path # Nothing /\ Moves(d, "unlinked", "deaf")
  /\ UNCHANGED <<mem, disk, fe, starts, acked, runs, overlap>>
Bind(d) ==
  /\ \/ path = Nothing /\ Moves(d, "unlinked", "bound") /\ path' = d
     \/ path # Nothing /\ Moves(d, "unlinked", "deaf") /\ path' = path
  /\ UNCHANGED <<mem, disk, fe, starts, acked, runs, overlap>>

Listen(d) ==
  /\ Moves(d, "bound", "listening")
  /\ UNCHANGED <<path, mem, disk, fe, starts, acked, runs, overlap>>

(* CheckQueue on a timeout: the next pending job is run (at once, here),   *)
(* and with none left and no connection the daemon leaves its loop.        *)
Quiet(d) == \A f \in FrontEnd : fe[f].to = d => fe[f].pc # "verifying"

RunJob(d) ==
  /\ daemon[d] = "listening" /\ Quiet(d)
  /\ \E j \in Jobs :
       /\ mem[d][j] = "PENDING"
       /\ mem' = [mem EXCEPT ![d][j] = "DONE"]
       /\ runs' = [runs EXCEPT ![j] = @ + 1]
  /\ disk' = mem'[d]
  /\ UNCHANGED <<path, daemon, fe, starts, acked, overlap>>

Leave_WithPending(d) ==
  /\ Moves(d, "listening", "leaving") /\ Quiet(d)
  /\ \A f \in FrontEnd : fe[f].to # d
  /\ disk' = mem[d]
  /\ UNCHANGED <<path, mem, fe, starts, acked, runs, overlap>>
Leave(d) ==
  /\ Moves(d, "listening", "leaving") /\ Quiet(d)
  /\ \A j \in Jobs : mem[d][j] # "PENDING"
  /\ \A f \in FrontEnd : fe[f].to # d
  /\ disk' = mem[d]
  /\ UNCHANGED <<path, mem, fe, starts, acked, runs, overlap>>

(* The name of the socket stays behind.                                    *)
Exit(d) ==
  /\ Moves(d, "leaving", "gone")
  /\ UNCHANGED <<path, mem, disk, fe, starts, acked, runs, overlap>>

Daemon(d) ==
  \/ Load(d) \/ Unlink(d) \/ Bind(d) \/ Listen(d)
  \/ RunJob(d) \/ Leave(d) \/ Exit(d)

-----------------------------------------------------------------------------
(* JobQueueManager::Init.                                                  *)

Start(f) ==
  /\ starts[f] < MaxStarts
  /\ fe[f].pc \in {"off", "failed"}
  /\ fe' = [fe EXCEPT ![f] = Away("trying")]
  /\ starts' = [starts EXCEPT ![f] = @ + 1]
  /\ UNCHANGED <<path, daemon, mem, disk, acked, runs, overlap>>

(* connect() succeeds with a socket that listens, even if its daemon has   *)
(* left the loop and will never accept.                                    *)
Reachable == path # Nothing /\ daemon[path] \in {"listening", "leaving"}

Connect(f) ==
  /\ fe[f].pc = "trying" /\ Reachable
  /\ fe' = [fe EXCEPT ![f].pc = "verifying", ![f].to = path]
  /\ UNCHANGED <<path, daemon, mem, disk, starts, acked, runs, overlap>>

Verified(f) ==
  /\ fe[f].pc = "verifying" /\ daemon[fe[f].to] = "listening"
  /\ fe' = [fe EXCEPT ![f].pc = "connected"]
  /\ UNCHANGED <<path, daemon, mem, disk, starts, acked, runs, overlap>>

(* An attempt fails: nobody listens, or the daemon exits unanswered.  The  *)
(* first failure starts a daemon; after it there are MaxTries attempts,    *)
(* half a second apart, and the daemon may be slower than all of them.     *)
Refused(f) ==
  \/ fe[f].pc = "trying" /\ ~Reachable
  \/ fe[f].pc = "verifying" /\ daemon[fe[f].to] = "gone"

Spawn(f) ==
  /\ Refused(f) /\ fe[f].tries = 0
  /\ \E d \in Daemons :
       /\ Moves(d, "off", "spawned")
       /\ \A e \in Daemons : daemon[e] = "off" => d <= e
  /\ fe' = [fe EXCEPT ![f] = [pc |-> "trying", to |-> Nothing, tries |-> 1]]
  /\ UNCHANGED <<path, mem, disk, starts, acked, runs, overlap>>

TryAgain(f) ==
  /\ Refused(f) /\ fe[f].tries > 0
  /\ fe' = [fe EXCEPT ![f] = IF @.tries < MaxTries
                             THEN [pc |-> "trying", to |-> Nothing,
                                   tries |-> @.tries + 1]
                             ELSE Away("failed")]
  /\ UNCHANGED <<path, daemon, mem, disk, starts, acked, runs, overlap>>

(* With a connection: AddJob, answered after the queue was saved.          *)
Add(f) ==
  /\ fe[f].pc = "connected" /\ daemon[fe[f].to] = "listening"
  /\ LET d == fe[f].to IN
     \E j \in Jobs :
       /\ j \notin acked
       /\ mem' = [mem EXCEPT ![d][j] = "PENDING"]
       /\ disk' = mem'[d]
       /\ acked' = acked \cup {j}
  /\ UNCHANGED <<path, daemon, fe, starts, runs, overlap>>

Close(f) ==
  /\ fe[f].pc = "connected"
  /\ fe' = [fe EXCEPT ![f] = Away("off")]
  /\ UNCHANGED <<path, daemon, mem, disk, starts, acked, runs, overlap>>

Proceed(f) == Connect(f) \/ Verified(f) \/ Spawn(f) \/ TryAgain(f)

Next ==
  \/ \E d \in Daemons : Daemon(d)
  \/ \E f \in FrontEnd : Proceed(f) \/ Start(f) \/ Add(f) \/ Close(f)

Spec == Init /\ [][Next]_vars

FairSpec ==
  /\ Spec
  /\ \A d \in Daemons : WF_vars(Daemon(d))
  /\ \A f \in FrontEnd : WF_vars(Proceed(f))

-----------------------------------------------------------------------------
(* What holds as long as no two daemons overlapped.                        *)

(* A job the daemon said it had added is in the queue file from then on,   *)
(* through every exit and start (OnExecute, LoadQueue, SaveQueue).         *)
AddedIsKept == ~overlap => \A j \in acked : disk[j] # "absent"

(* No job is run by two daemons (RunJob saves before the next daemon can   *)
(* load).                                                                  *)
RunOnce == ~overlap => \A j \in Jobs : runs[j] <= 1

(* A daemon that serves is the one new front ends find: nobody starts a    *)
(* second one because the first cannot be reached.                         *)
ServerIsFound ==
  ~overlap => \A d \in Daemons : daemon[d] = "listening" => path = d

(* Once added, a job is run, though its front end may close at once.       *)
AddedIsRun == \A j \in Jobs : j \in acked ~> runs[j] > 0 \/ overlap
=============================================================================
