--------------------------- MODULE Startup_proofs ---------------------------
(***************************************************************************)
(* Proofs about the start of the daemon, for any number of front ends,     *)
(* jobs and daemons: as long as no two daemons overlapped, an added job    *)
(* stays in queue.dat, runs at most once, and the daemon that listens is   *)
(* the one the name of the socket leads to.                                *)
(*                                                                         *)
(* No lock keeps daemons apart: the argument is that a daemon alone has    *)
(* the queue file to itself, so that its queue and the file agree.         *)
(***************************************************************************)
EXTENDS Startup, TLAPS

-----------------------------------------------------------------------------
(* The invariant.                                                          *)

(* A front end that has a connection has it to a daemon.                   *)
Peers ==
  \A f \in FrontEnd :
    fe[f].pc \in {"verifying", "connected"} => fe[f].to \in Daemons

(* One daemon at most has a queue loaded; its queue is what queue.dat says,*)
(* and from bind() on the name of the socket is its own.                   *)
OneServes ==
  \A d \in Daemons : daemon[d] \in Serving =>
    /\ \A e \in Daemons : daemon[e] \in Serving => e = d
    /\ mem[d] = disk

NameIsIts ==
  \A d \in Daemons : daemon[d] \in {"bound", "listening"} => path = d

(* The file has the jobs whose ADD was answered and no others, and says    *)
(* of each whether it was run.                                             *)
FileIsTrue ==
  \A j \in Jobs :
    /\ j \in acked <=> disk[j] # "absent"
    /\ runs[j] = IF disk[j] = "DONE" THEN 1 ELSE 0

Alone == OneServes /\ NameIsIts /\ FileIsTrue

StartupInv == ~overlap => Alone

-----------------------------------------------------------------------------
(* Types: each front end makes at most MaxTries attempts, and the name of  *)
(* the socket is always a daemon's or absent.                              *)
LEMMA Typing == Spec => []TypeOK /\ []Peers
<1>1. Init => TypeOK /\ Peers
  <2> SUFFICES ASSUME Init PROVE TypeOK /\ Peers
    OBVIOUS
  <2>1. fe \in [FrontEnd -> [pc : FrontEndStates, to : Daemons \cup {Nothing},
                            tries : 0 .. MaxTries]]
    BY BoundsAssumption DEF Init, Away, FrontEndStates
  <2>2. starts \in [FrontEnd -> 0 .. MaxStarts]
    BY BoundsAssumption DEF Init
  <2> QED
    BY <2>1, <2>2 DEF Init, TypeOK, Peers, NoJobs, Away, Status, DaemonStates
<1>2. TypeOK /\ Peers /\ [Next]_vars => Peers'
  <2> SUFFICES ASSUME TypeOK, Peers, [Next]_vars, NEW f \in FrontEnd
               PROVE  Peers!(f)'
    BY DEF Peers
  <2>t. fe \in [FrontEnd -> [pc : FrontEndStates, to : Daemons \cup {Nothing},
                            tries : 0 .. MaxTries]]
    BY DEF TypeOK
  <2>1. ASSUME NEW d \in Daemons, Daemon(d) PROVE fe' = fe
    BY <2>1 DEF Daemon, Load, Unlink, Bind, Listen, RunJob, Leave, Exit
  <2>2. ASSUME NEW g \in FrontEnd, Proceed(g) \/ Start(g) \/ Add(g) \/ Close(g)
        PROVE  Peers!(f)'
    <3>1. CASE Connect(g)
      BY <2>t, <3>1 DEF Connect, Reachable, Peers, TypeOK
    <3> QED
      BY <2>2, <2>t, <3>1
         DEF Proceed, Verified, Spawn, TryAgain, Start, Add, Close, Away, Peers
  <2> QED
    BY <2>1, <2>2 DEF Next, vars, Peers
<1>3. TypeOK /\ Peers /\ [Next]_vars => TypeOK'
  <2> SUFFICES ASSUME TypeOK, Peers, [Next]_vars PROVE TypeOK'
    OBVIOUS
  <2> USE DEF TypeOK
  <2>1. ASSUME NEW d \in Daemons, Daemon(d) PROVE TypeOK'
    <3>1. CASE Load(d)
      BY <3>1 DEF Load, Moves, DaemonStates
    <3>2. CASE Unlink(d)
      BY <3>2 DEF Unlink, Moves, DaemonStates
    <3>3. CASE Bind(d)
      BY <3>3 DEF Bind, Moves, DaemonStates
    <3>4. CASE Listen(d)
      BY <3>4 DEF Listen, Moves, DaemonStates
    <3>5. CASE RunJob(d)
      <4>1. PICK j \in Jobs : /\ mem' = [mem EXCEPT ![d][j] = "DONE"]
                              /\ runs' = [runs EXCEPT ![j] = @ + 1]
        BY <3>5 DEF RunJob
      <4>2. mem' \in [Daemons -> [Jobs -> Status]]
        BY <4>1 DEF Status
      <4>3. runs' \in [Jobs -> Nat] /\ disk' \in [Jobs -> Status]
        BY <3>5, <4>1, <4>2 DEF RunJob
      <4> QED
        BY <3>5, <4>2, <4>3 DEF RunJob
    <3>6. CASE Leave(d)
      BY <3>6 DEF Leave, Moves, DaemonStates
    <3>7. CASE Exit(d)
      BY <3>7 DEF Exit, Moves, DaemonStates
    <3> QED
      BY <2>1, <3>1, <3>2, <3>3, <3>4, <3>5, <3>6, <3>7 DEF Daemon
  <2>2. ASSUME NEW f \in FrontEnd, Proceed(f) \/ Start(f) \/ Add(f) \/ Close(f)
        PROVE  TypeOK'
    <3>1. CASE Connect(f)
      BY <3>1 DEF Connect, FrontEndStates
    <3>2. CASE Verified(f)
      BY <3>2 DEF Verified, FrontEndStates
    <3>3. CASE Spawn(f)
      BY <3>3, BoundsAssumption DEF Spawn, Moves, DaemonStates, FrontEndStates
    <3>4. CASE TryAgain(f)
      BY <3>4, BoundsAssumption DEF TryAgain, Away, FrontEndStates
    <3>5. CASE Start(f)
      BY <3>5, BoundsAssumption DEF Start, Away, FrontEndStates
    <3>6. CASE Add(f)
      <4>1. fe[f].to \in Daemons \cup {Nothing}
        OBVIOUS
      <4>2. PICK j \in Jobs : /\ mem' = [mem EXCEPT ![fe[f].to][j] = "PENDING"]
                              /\ disk' = mem'[fe[f].to]
                              /\ acked' = acked \cup {j}
        BY <3>6 DEF Add
      <4>3. fe[f].to \in Daemons
        BY <3>6 DEF Add, Peers
      <4>4. mem' \in [Daemons -> [Jobs -> Status]]
        BY <4>2 DEF Status
      <4> QED
        BY <3>6, <4>2, <4>3, <4>4 DEF Add
    <3>7. CASE Close(f)
      BY <3>7, BoundsAssumption DEF Close, Away, FrontEndStates
    <3> QED
      BY <2>2, <3>1, <3>2, <3>3, <3>4, <3>5, <3>6, <3>7 DEF Proceed
  <2>3. CASE UNCHANGED vars
    BY <2>3 DEF vars
  <2> QED
    BY <2>1, <2>2, <2>3 DEF Next
<1> QED
  BY <1>1, <1>2, <1>3, PTL DEF Spec

(* TypeOK by itself.                                                       *)
THEOREM StartupTypeOK == Spec => []TypeOK
  BY Typing, PTL

-----------------------------------------------------------------------------
(* Steps of daemons and of front ends keep the invariant.                  *)

(* A daemon that loads the queue while another has it sets overlap; else   *)
(* it takes the file as it is and changes nothing.                         *)
LEMMA LoadKeepsAlone ==
  ASSUME TypeOK, StartupInv, NEW d \in Daemons, Load(d), ~overlap'
  PROVE  Alone'
<1>t. /\ daemon \in [Daemons -> DaemonStates]
      /\ mem \in [Daemons -> [Jobs -> Status]]
  BY DEF TypeOK
<1>1. Alone /\ \A e \in Daemons : daemon[e] \notin Serving
  BY DEF Load, StartupInv
<1>2. \A e \in Daemons : daemon'[e] \in Serving => e = d
  BY <1>t, <1>1 DEF Load, Moves
<1>3. mem'[d] = disk' /\ daemon'[d] = "loaded"
  BY <1>t DEF Load, Moves
<1>4. OneServes'
  BY <1>2, <1>3 DEF OneServes
<1>5. NameIsIts'
  BY <1>2, <1>3 DEF NameIsIts, Serving
<1>6. FileIsTrue'
  BY <1>1 DEF Alone, FileIsTrue, Load
<1> QED
  BY <1>4, <1>5, <1>6 DEF Alone

(* The socket: the name is removed, bound and listened on by the only      *)
(* daemon that serves.                                                     *)
LEMMA SocketKeepsAlone ==
  ASSUME TypeOK, Alone, NEW d \in Daemons, Unlink(d) \/ Bind(d) \/ Listen(d)
  PROVE  Alone'
<1>t. daemon \in [Daemons -> DaemonStates]
  BY DEF TypeOK
<1>1. daemon[d] \in Serving /\ UNCHANGED <<mem, disk, acked, runs>>
  BY DEF Unlink, Bind, Listen, Moves, Serving
<1>2. \A e \in Daemons : daemon'[e] \in Serving => e = d /\ daemon[e] \in Serving
  BY <1>t, <1>1 DEF Unlink, Bind, Listen, Moves, Alone, OneServes
<1>3. OneServes'
  BY <1>1, <1>2 DEF Alone, OneServes
<1>4. NameIsIts'
  <2>1. daemon'[d] \in {"bound", "listening"} => path' = d
    BY <1>t DEF Unlink, Bind, Listen, Moves, Alone, NameIsIts
  <2> QED
    BY <1>2, <2>1 DEF NameIsIts, Serving
<1>5. FileIsTrue'
  BY <1>1 DEF Alone, FileIsTrue
<1> QED
  BY <1>3, <1>4, <1>5 DEF Alone

(* A job is run by the daemon whose queue the file is: the file says at    *)
(* once that it was.                                                       *)
LEMMA RunJobKeepsAlone ==
  ASSUME TypeOK, Alone, NEW d \in Daemons, RunJob(d)
  PROVE  Alone'
<1>t. /\ mem \in [Daemons -> [Jobs -> Status]]
      /\ disk \in [Jobs -> Status]
      /\ runs \in [Jobs -> Nat]
  BY DEF TypeOK
<1>1. PICK j \in Jobs : /\ mem[d][j] = "PENDING"
                        /\ mem' = [mem EXCEPT ![d][j] = "DONE"]
                        /\ runs' = [runs EXCEPT ![j] = @ + 1]
  BY DEF RunJob
<1>2. /\ disk' = mem'[d]
      /\ UNCHANGED <<path, daemon, acked>>
      /\ daemon[d] \in Serving
  BY DEF RunJob, Serving
<1>3. OneServes'
  BY <1>2 DEF Alone, OneServes
<1>4. NameIsIts'
  BY <1>2 DEF Alone, NameIsIts
<1>5. disk' = [disk EXCEPT ![j] = "DONE"]
  BY <1>t, <1>1, <1>2 DEF Alone, OneServes
<1>6. FileIsTrue'
  <2> SUFFICES ASSUME NEW k \in Jobs
               PROVE  /\ k \in acked <=> disk'[k] # "absent"
                      /\ runs'[k] = IF disk'[k] = "DONE" THEN 1 ELSE 0
    BY <1>2 DEF FileIsTrue
  <2>0. /\ k \in acked <=> disk[k] # "absent"
        /\ runs[k] = IF disk[k] = "DONE" THEN 1 ELSE 0
    BY DEF Alone, FileIsTrue
  <2>1. CASE k = j
    <3>1. disk[j] = "PENDING"
      BY <1>1, <1>2 DEF Alone, OneServes
    <3> QED
      BY <1>t, <1>1, <1>5, <2>0, <2>1, <3>1
  <2>2. CASE k # j
    BY <1>t, <1>1, <1>5, <2>0, <2>2
  <2> QED
    BY <2>1, <2>2
<1> QED
  BY <1>3, <1>4, <1>6 DEF Alone

(* On its way out a daemon writes what the file says already.              *)
LEMMA LeavingKeepsAlone ==
  ASSUME TypeOK, Alone, NEW d \in Daemons, Leave(d) \/ Exit(d)
  PROVE  Alone'
<1>t. daemon \in [Daemons -> DaemonStates]
  BY DEF TypeOK
<1>1. disk' = disk /\ UNCHANGED <<path, mem, acked, runs>>
  BY DEF Leave, Exit, Moves, Alone, OneServes, Serving
<1>2. \A e \in Daemons : /\ daemon'[e] \in Serving => daemon[e] \in Serving
                         /\ daemon'[e] \in {"bound", "listening"}
                            => daemon[e] \in {"bound", "listening"}
  BY <1>t DEF Leave, Exit, Moves, Serving
<1> QED
  BY <1>1, <1>2 DEF Alone, OneServes, NameIsIts, FileIsTrue

(* A job is added by the only daemon that serves, to the file too; it was  *)
(* not in the file before, so that it was not run.                         *)
LEMMA AddKeepsAlone ==
  ASSUME TypeOK, Peers, Alone, NEW f \in FrontEnd, Add(f)
  PROVE  Alone'
<1> DEFINE d == fe[f].to
<1>t. /\ mem \in [Daemons -> [Jobs -> Status]]
      /\ disk \in [Jobs -> Status]
      /\ d \in Daemons
  BY DEF TypeOK, Peers, Add
<1>1. PICK j \in Jobs : /\ j \notin acked
                        /\ mem' = [mem EXCEPT ![d][j] = "PENDING"]
                        /\ disk' = mem'[d]
                        /\ acked' = acked \cup {j}
  BY DEF Add
<1>2. UNCHANGED <<path, daemon, runs>> /\ daemon[d] \in Serving
  BY DEF Add, Serving
<1> HIDE DEF d
<1>3. OneServes'
  BY <1>t, <1>1, <1>2 DEF Alone, OneServes
<1>4. NameIsIts'
  BY <1>2 DEF Alone, NameIsIts
<1>5. disk' = [disk EXCEPT ![j] = "PENDING"]
  BY <1>t, <1>1, <1>2 DEF Alone, OneServes
<1>6. FileIsTrue'
  <2> SUFFICES ASSUME NEW k \in Jobs
               PROVE  /\ k \in acked' <=> disk'[k] # "absent"
                      /\ runs'[k] = IF disk'[k] = "DONE" THEN 1 ELSE 0
    BY DEF FileIsTrue
  <2>0. /\ k \in acked <=> disk[k] # "absent"
        /\ runs[k] = IF disk[k] = "DONE" THEN 1 ELSE 0
    BY DEF Alone, FileIsTrue
  <2>1. CASE k = j
    BY <1>t, <1>1, <1>2, <1>5, <2>0, <2>1
  <2>2. CASE k # j
    BY <1>t, <1>1, <1>2, <1>5, <2>0, <2>2
  <2> QED
    BY <2>1, <2>2
<1> QED
  BY <1>3, <1>4, <1>6 DEF Alone

(* Front ends that come, try, start a daemon or leave change nothing that  *)
(* a daemon knows; a daemon they start has no queue yet.                   *)
LEMMA FrontEndsKeepAlone ==
  ASSUME TypeOK, Alone, NEW f \in FrontEnd, Proceed(f) \/ Start(f) \/ Close(f)
  PROVE  Alone'
<1>t. daemon \in [Daemons -> DaemonStates]
  BY DEF TypeOK
<1>1. UNCHANGED <<path, mem, disk, acked, runs>>
  BY DEF Proceed, Connect, Verified, Spawn, TryAgain, Start, Close
<1>2. daemon' = daemon \/ \E d \in Daemons : daemon' = [daemon EXCEPT ![d] = "spawned"]
  BY DEF Proceed, Connect, Verified, Spawn, TryAgain, Start, Close, Moves
<1>3. \A e \in Daemons : /\ daemon'[e] \in Serving => daemon[e] \in Serving
                         /\ daemon'[e] \in {"bound", "listening"}
                            => daemon[e] \in {"bound", "listening"}
  BY <1>t, <1>2 DEF Serving
<1> QED
  BY <1>1, <1>3 DEF Alone, OneServes, NameIsIts, FileIsTrue

(* The invariant holds in every state: the first has no daemon and no job, *)
(* and once daemons have overlapped nothing more is claimed.               *)
THEOREM AloneHolds == Spec => []StartupInv
<1>1. Init => StartupInv
  BY DEF Init, StartupInv, Alone, OneServes, NameIsIts, FileIsTrue, NoJobs, Serving
<1>2. TypeOK /\ Peers /\ StartupInv /\ [Next]_vars => StartupInv'
  <2> SUFFICES ASSUME TypeOK, Peers, StartupInv, [Next]_vars, ~overlap' PROVE Alone'
    BY DEF StartupInv
  <2>1. ~overlap
    BY DEF Next, vars, Daemon, Load, Unlink, Bind, Listen, RunJob, Leave, Exit,
           Proceed, Connect, Verified, Spawn, TryAgain, Start, Add, Close
  <2>2. Alone
    BY <2>1 DEF StartupInv
  <2>3. ASSUME NEW d \in Daemons, Daemon(d) PROVE Alone'
    BY <2>2, <2>3, LoadKeepsAlone, SocketKeepsAlone, RunJobKeepsAlone,
       LeavingKeepsAlone DEF Daemon
  <2>4. ASSUME NEW f \in FrontEnd, Proceed(f) \/ Start(f) \/ Add(f) \/ Close(f)
        PROVE  Alone'
    BY <2>2, <2>4, AddKeepsAlone, FrontEndsKeepAlone
  <2>5. CASE UNCHANGED vars
    BY <2>2, <2>5 DEF vars, Alone, OneServes, NameIsIts, FileIsTrue
  <2> QED
    BY <2>3, <2>4, <2>5 DEF Next
<1> QED
  BY <1>1, <1>2, Typing, PTL DEF Spec

-----------------------------------------------------------------------------
(* What it gives.                                                          *)

(* A job whose ADD was answered is in queue.dat from then on, as long as   *)
(* no two daemons overlapped (OnExecute, LoadQueue, SaveQueue).            *)
THEOREM AddedIsKeptHolds == Spec => []AddedIsKept
<1>1. TypeOK /\ StartupInv => AddedIsKept
  BY DEF TypeOK, StartupInv, Alone, FileIsTrue, AddedIsKept
<1> QED
  BY <1>1, StartupTypeOK, AloneHolds, PTL

(* No job is run twice, by one daemon or by two that follow each other     *)
(* (RunJob, LoadQueue).                                                    *)
THEOREM RunOnceHolds == Spec => []RunOnce
<1>1. StartupInv => RunOnce
  BY DEF StartupInv, Alone, FileIsTrue, RunOnce
<1> QED
  BY <1>1, AloneHolds, PTL

(* The daemon that listens is the one the name of the socket leads front   *)
(* ends to (OnRun: unlink, bind, listen).                                  *)
THEOREM ServerIsFoundHolds == Spec => []ServerIsFound
<1>1. StartupInv => ServerIsFound
  BY DEF StartupInv, Alone, NameIsIts, ServerIsFound
<1> QED
  BY <1>1, AloneHolds, PTL

=============================================================================
