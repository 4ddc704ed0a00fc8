----------------------------- MODULE QueueFile -----------------------------
(***************************************************************************)
(* The file queue.dat, line by line: GamessQServer::SaveQueue, which       *)
(* truncates it and writes it again after every command, and               *)
(* GamessQServer::LoadQueue, which the constructor calls before the daemon *)
(* has a socket.  A save may be broken off, by the end of the daemon or by *)
(* a disk that is full: the file is then any part of the beginning of what *)
(* was to be written, and its last line may be cut.                        *)
(*                                                                         *)
(* Texts are numbers here, 0 is the empty one.  The commands that change   *)
(* the queue are those of GamessQServer, as far as they change what is     *)
(* saved.                                                                  *)
(***************************************************************************)
EXTENDS Naturals, Sequences

CONSTANTS
  Base,       \* what numbers are written in: 10 in the program; with a
              \* smaller one small numbers have several digits
  Names,      \* the names SET_NAME gives
  Procs,      \* numbers of processors
  Garbage,    \* what the uninitialised tmp of LoadQueue may hold
  MaxId,      \* bound: ids handed out before the queue is empty
  MaxCrashes  \* bound: ends of the daemon

ASSUME BaseAssumption == Base \in Nat \ {0, 1}
ASSUME NamesAssumption == Names \subseteq Nat
ASSUME ProcsAssumption == Procs \subseteq Nat \ {0}
ASSUME GarbageAssumption == Garbage \subseteq Nat
ASSUME BoundsAssumption == MaxId \in Nat /\ MaxCrashes \in Nat

(* Job::Status as its codes. *)
ERROR == 0
PENDING == 1
PAUSED == 2
RUNNING == 3
DONE == 4
CANCELED == 5
StatusCodes == ERROR .. CANCELED

Job == [id : Nat, name : Nat, procs : Nat, spool : Nat, status : Nat]

VARIABLES
  doing,     \* what the daemon is at
  mJobQueue, \* the queue; during a load, as far as it was read
  nextId,    \* Job::nextId
  exists,    \* there is a queue.dat
  file,      \* its lines
  ended,     \* its last line has its newline
  saved,     \* history: what the last SaveQueue was to write
  pos,       \* LoadQueue: lines read
  num,       \* LoadQueue: num
  tmp,       \* LoadQueue: tmp
  crashes    \* ends of the daemon so far

onDisk == <<exists, file, ended, saved>>
reader == <<pos, num, tmp>>
vars == <<doing, mJobQueue, nextId, onDisk, reader, crashes>>

-----------------------------------------------------------------------------
(* Lines.                                                                  *)

Num(n) == [kind |-> "num", v |-> n]
Text(t) == [kind |-> "text", v |-> t]
Line == [kind : {"num", "text"}, v : Nat]
Blank == Text(0)

TypeOK ==
  /\ doing \in {"down", "loading", "idle", "saving"}
  /\ mJobQueue \in Seq(Job) /\ nextId \in Nat
  /\ exists \in BOOLEAN /\ file \in Seq(Line) /\ ended \in BOOLEAN
  /\ saved \in [queue : Seq(Job), nextId : Nat]
  /\ pos \in Nat /\ num \in Nat /\ tmp \in Nat
  /\ crashes \in 0 .. MaxCrashes

(* What a line may read when its newline, or more, is missing.  Part is    *)
(* any text that was cut.                                                  *)
Part == MaxId + 1000
CutNumber(n) == {m \in 1 .. n : \E k \in 1 .. n : m = n \div Base ^ k}
Cut(l) ==
  CASE l = Blank -> {}
    [] l.kind = "num" -> {l} \cup {Num(n) : n \in CutNumber(l.v)}
    [] OTHER -> {l, Text(Part)}

-----------------------------------------------------------------------------
(* What SaveQueue writes: the number of jobs, the next id, or 0 if there   *)
(* is no job, and six lines per job, the first of them empty.              *)

EntryLines == 6
EntryLine_StatusFirst(j, n) ==
  <<Blank, Num(j.id), Text(j.name), Num(j.status), Num(j.procs),
    Text(j.spool)>>[n]
EntryLine(j, n) ==
  <<Blank, Num(j.id), Text(j.name), Num(j.procs), Text(j.spool),
    Num(j.status)>>[n]

Contents(q, nid) ==
  [n \in 1 .. 2 + EntryLines * Len(q) |->
     CASE n = 1 -> Num(Len(q))
       [] n = 2 -> Num(IF q = <<>> THEN 0 ELSE nid)
       [] OTHER -> EntryLine(q[((n - 3) \div EntryLines) + 1],
                             ((n - 3) % EntryLines) + 1)]

ToWrite == Contents(saved.queue, saved.nextId)

(* The file is opened with mode "w", which empties it.                     *)
SaveQueue(q, nid) ==
  /\ doing' = "saving"
  /\ mJobQueue' = q
  /\ nextId' = nid
  /\ saved' = [queue |-> q, nextId |-> nid]
  /\ exists' = TRUE
  /\ file' = <<>>
  /\ ended' = TRUE
  /\ UNCHANGED <<reader, crashes>>

WriteLine ==
  /\ doing = "saving"
  /\ Len(file) < Len(ToWrite)
  /\ file' = Append(file, ToWrite[Len(file) + 1])
  /\ UNCHANGED <<doing, mJobQueue, nextId, exists, ended, saved, reader,
                 crashes>>

Close ==
  /\ doing = "saving"
  /\ Len(file) = Len(ToWrite)
  /\ doing' = "idle"
  /\ UNCHANGED <<mJobQueue, nextId, onDisk, reader, crashes>>

(* The next line is written in part, and nothing after it.                 *)
BreaksOff ==
  /\ UNCHANGED <<exists, saved>>
  /\ \/ UNCHANGED <<file, ended>>
     \/ /\ Len(file) < Len(ToWrite)
        /\ \E l \in Cut(ToWrite[Len(file) + 1]) : file' = Append(file, l)
        /\ ended' = FALSE

(* The disk is full: nobody looks at the results of Write and Close.       *)
WriteFails ==
  /\ doing = "saving"
  /\ Len(file) < Len(ToWrite)
  /\ BreaksOff
  /\ doing' = "idle"
  /\ UNCHANGED <<mJobQueue, nextId, reader, crashes>>

-----------------------------------------------------------------------------
(* The commands.  Each of them is followed by SaveQueue.                   *)

Add ==
  /\ doing = "idle" /\ nextId <= MaxId
  /\ \E procs \in Procs, st \in {PENDING, ERROR} :
       SaveQueue(Append(mJobQueue,
                        [id |-> nextId, name |-> 1, procs |-> procs,
                         spool |-> nextId + 1, status |-> st]),
                 nextId + 1)

Remove ==
  /\ doing = "idle"
  /\ \E i \in DOMAIN mJobQueue :
       SaveQueue([k \in 1 .. Len(mJobQueue) - 1 |->
                    mJobQueue[IF k < i THEN k ELSE k + 1]], nextId)

SetName ==
  /\ doing = "idle"
  /\ \E i \in DOMAIN mJobQueue, name \in Names :
       SaveQueue([mJobQueue EXCEPT ![i].name = name], nextId)

(* Pause, Resume, Cancel, and the starts and ends CheckQueue sees.         *)
SetStatus ==
  /\ doing = "idle"
  /\ \E i \in DOMAIN mJobQueue, st \in StatusCodes :
       SaveQueue([mJobQueue EXCEPT ![i].status = st], nextId)

(* A command that changes nothing is followed by SaveQueue all the same.   *)
OtherCommand == doing = "idle" /\ SaveQueue(mJobQueue, nextId)

-----------------------------------------------------------------------------
(* The daemon ends, whatever it is doing, and is started again.            *)

Crash ==
  /\ doing # "down" /\ crashes < MaxCrashes
  /\ IF doing = "saving" THEN BreaksOff ELSE UNCHANGED onDisk
  /\ doing' = "down"
  /\ crashes' = crashes + 1
  /\ mJobQueue' = <<>> /\ nextId' = 0
  /\ pos' = 0 /\ num' = 0 /\ tmp' = 0

LoadNothing ==
  /\ doing = "down" /\ ~exists
  /\ doing' = "idle"
  /\ UNCHANGED <<mJobQueue, nextId, onDisk, reader, crashes>>

(* ReadLine at a position, and whether it met the end of the file: it does *)
(* where the line or its newline is missing.                               *)
ReadLine(n) == IF n <= Len(file) THEN file[n] ELSE Blank
AtEof(n) == n > Len(file) \/ (n = Len(file) /\ ~ended)

(* wxString::ToLong leaves the number alone if the text is none.           *)
ToLong(l, old) == IF l.kind = "num" THEN l.v ELSE old

LoadHeader ==
  /\ doing = "down" /\ exists
  /\ \E g \in Garbage :
       LET n == ToLong(ReadLine(1), g)
           nid == ToLong(ReadLine(2), n)
       IN /\ num' = n
          /\ tmp' = nid
          /\ nextId' = nid
  /\ pos' = 2
  /\ doing' = "loading"
  /\ UNCHANGED <<mJobQueue, onDisk, crashes>>

MoreEntries_ByCount == Len(mJobQueue) < num
MoreEntries_OneShort == Len(mJobQueue) + 1 < num /\ ~AtEof(pos)
MoreEntries == Len(mJobQueue) < num /\ ~AtEof(pos)

(* The lines an entry could start at: not empty, and after an empty one.   *)
Starts == {n \in pos + 1 .. Len(file) :
             /\ file[n] # Blank
             /\ \E b \in pos + 1 .. n - 1 : file[b] = Blank}

Reload(st) == IF st \in {RUNNING, PAUSED} THEN PENDING ELSE st

(* One round of the loop.  A line that is missing reads as an empty text;  *)
(* a number that cannot be read is the one read before it.                 *)
LoadEntry ==
  /\ doing = "loading" /\ MoreEntries
  /\ \E n \in Starts :
       LET id == ToLong(ReadLine(n), tmp)
           procs == ToLong(ReadLine(n + 2), id)
           status == ToLong(ReadLine(n + 4), procs)
       IN /\ \A k \in Starts : n <= k
          /\ mJobQueue' = Append(mJobQueue,
               [id |-> id, name |-> ReadLine(n + 1).v, procs |-> procs,
                spool |-> ReadLine(n + 3).v, status |-> Reload(status)])
          /\ tmp' = status
          /\ pos' = n + 4
  /\ UNCHANGED <<doing, nextId, onDisk, num, crashes>>

(* At the end of the file every line is empty: the loop that skips them    *)
(* does not end.                                                           *)
SkipForEver ==
  /\ doing = "loading" /\ MoreEntries /\ Starts = {}
  /\ UNCHANGED vars

LoadDone ==
  /\ doing = "loading" /\ ~MoreEntries
  /\ doing' = "idle"
  /\ pos' = 0 /\ num' = 0 /\ tmp' = 0
  /\ UNCHANGED <<mJobQueue, nextId, onDisk, crashes>>

-----------------------------------------------------------------------------
Init ==
  /\ doing = "down"
  /\ mJobQueue = <<>> /\ nextId = 0
  /\ exists = FALSE /\ file = <<>> /\ ended = TRUE
  /\ saved = [queue |-> <<>>, nextId |-> 0]
  /\ pos = 0 /\ num = 0 /\ tmp = 0
  /\ crashes = 0

Save == WriteLine \/ Close \/ WriteFails
Load == LoadNothing \/ LoadHeader \/ LoadEntry \/ SkipForEver \/ LoadDone
Command == Add \/ Remove \/ SetName \/ SetStatus \/ OtherCommand

Next == Command \/ Save \/ Load \/ Crash

Spec == Init /\ [][Next]_vars

(* The daemon goes on with a load it has begun.                            *)
FairSpec == Spec /\ WF_vars(Load)

-----------------------------------------------------------------------------
(* Properties.                                                             *)

Reloaded(q) == [k \in DOMAIN q |-> [q[k] EXCEPT !.status = Reload(@)]]

(* What was saved whole is loaded as it was saved, with its order, names   *)
(* and next id, and with running and paused jobs pending: the reader of    *)
(* LoadQueue stays in step with the writer of SaveQueue through all jobs,  *)
(* also through those with an empty name.                                  *)
WholeFileLoads ==
  [][LoadDone /\ file = ToWrite =>
       /\ mJobQueue = Reloaded(saved.queue)
       /\ nextId = IF saved.queue = <<>> THEN 0 ELSE saved.nextId]_vars

(* Lines that have their newline. *)
WholeLines == IF ended THEN Len(file) ELSE Len(file) - 1

(* From a file that was broken off, LoadQueue takes the jobs whose entries *)
(* are whole as they were saved, and at most one job more, made of what is *)
(* left of an entry.                                                       *)
BrokenFileLoads ==
  doing = "loading" =>
    \A k \in DOMAIN mJobQueue :
      /\ 2 + EntryLines * (k - 1) < Len(file)
      /\ 2 + EntryLines * k <= WholeLines =>
           mJobQueue[k] = Reloaded(saved.queue)[k]

(* The file ends where LoadQueue looks for the next entry. *)
CutBetweenEntries ==
  /\ file # ToWrite
  /\ ended
  /\ Len(file) >= 2
  /\ (Len(file) - 2) % EntryLines \in {0, 1}

(* Every load ends, but for that of a file that ends between two entries,  *)
(* on which LoadQueue looks for a line that is not empty for ever.         *)
LoadEnds ==
  doing = "loading" /\ ~CutBetweenEntries ~> doing # "loading"
=============================================================================
