-------------------------- MODULE QueueFile_proofs --------------------------
(***************************************************************************)
(* Proofs about queue.dat in QueueFile: what was saved whole is loaded as  *)
(* it was saved, and of a file that was broken off all whole entries are.  *)
(*                                                                         *)
(* The inductive invariant says that the file is a beginning of what was   *)
(* to be written (Prefix), and that LoadQueue, after so many entries, is   *)
(* at the line where SaveQueue had written as many (Loading).              *)
(***************************************************************************)
EXTENDS QueueFile, SequenceTheorems, TLAPS

-----------------------------------------------------------------------------
(* What is written.                                                        *)

HeaderId(q, nid) == IF q = <<>> THEN 0 ELSE nid

(* The line of an entry, counted from the beginning of the file.           *)
LineOf(k, m) == 2 + EntryLines * (k - 1) + m

(* Each line of an entry, one by one.                                      *)
LEMMA EntryLineIs ==
  ASSUME NEW j \in Job
  PROVE  /\ EntryLine(j, 1) = Blank /\ EntryLine(j, 2) = Num(j.id)
         /\ EntryLine(j, 3) = Text(j.name) /\ EntryLine(j, 4) = Num(j.procs)
         /\ EntryLine(j, 5) = Text(j.spool) /\ EntryLine(j, 6) = Num(j.status)
         /\ \A m \in 1 .. EntryLines : EntryLine(j, m) \in Line
<1>1. /\ EntryLine(j, 1) = Blank /\ EntryLine(j, 2) = Num(j.id)
      /\ EntryLine(j, 3) = Text(j.name) /\ EntryLine(j, 4) = Num(j.procs)
      /\ EntryLine(j, 5) = Text(j.spool) /\ EntryLine(j, 6) = Num(j.status)
  BY DEF EntryLine
<1>2. /\ Blank \in Line /\ Num(j.id) \in Line /\ Text(j.name) \in Line
      /\ Num(j.procs) \in Line /\ Text(j.spool) \in Line /\ Num(j.status) \in Line
  BY DEF Job, Blank, Num, Text, Line
<1>3. \A m \in 1 .. EntryLines : m = 1 \/ m = 2 \/ m = 3 \/ m = 4 \/ m = 5 \/ m = 6
  BY DEF EntryLines
<1> QED
  BY <1>1, <1>2, <1>3

(* The numbers of the lines of the entries.                                *)
LEMMA LineNumbers ==
  ASSUME NEW N \in Nat
  PROVE  /\ 2 + EntryLines * N \in Nat
         /\ \A k \in 1 .. N, m \in 1 .. EntryLines :
              /\ LineOf(k, m) \in 3 .. 2 + EntryLines * N
              /\ ((LineOf(k, m) - 3) \div EntryLines) + 1 = k
              /\ ((LineOf(k, m) - 3) % EntryLines) + 1 = m
         /\ \A n \in 3 .. 2 + EntryLines * N :
              /\ ((n - 3) \div EntryLines) + 1 \in 1 .. N
              /\ ((n - 3) % EntryLines) + 1 \in 1 .. EntryLines
BY DEF EntryLines, LineOf

(* What SaveQueue writes has two lines of header and six per job, and each *)
(* line of a job is where LineOf says.                                     *)
LEMMA ContentsProperties ==
  ASSUME NEW q \in Seq(Job), NEW nid \in Nat
  PROVE  /\ Contents(q, nid) \in Seq(Line)
         /\ Len(Contents(q, nid)) = 2 + EntryLines * Len(q)
         /\ 2 + EntryLines * Len(q) \in Nat
         /\ Contents(q, nid)[1] = Num(Len(q))
         /\ Contents(q, nid)[2] = Num(HeaderId(q, nid))
         /\ \A k \in 1 .. Len(q), m \in 1 .. EntryLines :
              Contents(q, nid)[LineOf(k, m)] = EntryLine(q[k], m)
<1> DEFINE N == Len(q)
           M == 2 + EntryLines * N
           E(n) == EntryLine(q[((n - 3) \div EntryLines) + 1],
                             ((n - 3) % EntryLines) + 1)
           L(n) == CASE n = 1 -> Num(N) [] n = 2 -> Num(HeaderId(q, nid))
                     [] OTHER -> E(n)
<1>1. N \in Nat /\ M \in Nat /\ M >= 2 /\ \A k \in 1 .. N : q[k] \in Job
  <2>1. N \in Nat /\ \A k \in 1 .. N : q[k] \in Job
    BY LenProperties, ElementOfSeq
  <2> QED
    BY <2>1 DEF EntryLines
<1>2. Contents(q, nid) = [n \in 1 .. M |-> L(n)]
  BY DEF Contents, HeaderId
<1>3. \A n \in 3 .. M : E(n) \in Line
  BY <1>1, LineNumbers, EntryLineIs
<1>4. Num(N) \in Line /\ Num(HeaderId(q, nid)) \in Line
  BY <1>1 DEF Num, Line, HeaderId
<1> HIDE DEF E, M, N
<1>5. \A n \in 1 .. M : L(n) \in Line
  <2>1. \A n \in 1 .. M : n = 1 \/ n = 2 \/ n \in 3 .. M
    BY <1>1
  <2> QED
    BY <1>3, <1>4, <2>1
<1>6. \A n \in 3 .. M : L(n) = E(n)
  BY <1>1
<1>7. L(1) = Num(N) /\ L(2) = Num(HeaderId(q, nid))
  OBVIOUS
<1> HIDE DEF L
<1>8. Contents(q, nid) \in Seq(Line) /\ Len(Contents(q, nid)) = M
  BY <1>1, <1>2, <1>5
<1>9. Contents(q, nid)[1] = L(1) /\ Contents(q, nid)[2] = L(2)
  BY <1>1, <1>2
<1>10. ASSUME NEW k \in 1 .. N, NEW m \in 1 .. EntryLines
       PROVE  Contents(q, nid)[LineOf(k, m)] = EntryLine(q[k], m)
  <2>1. /\ LineOf(k, m) \in 3 .. M
        /\ ((LineOf(k, m) - 3) \div EntryLines) + 1 = k
        /\ ((LineOf(k, m) - 3) % EntryLines) + 1 = m
    BY <1>1, LineNumbers DEF M
  <2>2. E(LineOf(k, m)) = EntryLine(q[k], m)
    BY <2>1 DEF E
  <2>3. LineOf(k, m) \in 1 .. M
    BY <1>1, <2>1
  <2> QED
    BY <1>2, <1>6, <2>1, <2>2, <2>3
<1> QED
  BY <1>1, <1>7, <1>8, <1>9, <1>10 DEF M, N

-----------------------------------------------------------------------------
(* The invariant.                                                          *)

(* The file is a beginning of what SaveQueue was to write, but for its     *)
(* last line, which may be cut.                                            *)
Prefix ==
  /\ Len(file) <= Len(ToWrite)
  /\ \A n \in 1 .. WholeLines : file[n] = ToWrite[n]
  /\ ~ended => file # <<>> /\ file[Len(file)] \in Cut(ToWrite[Len(file)])
  /\ doing = "saving" => ended

(* Line n is there and as it was to be written.                            *)
Good(n) == n <= Len(file) /\ file[n] = ToWrite[n]

(* LoadQueue has the number of jobs and the next id, if their lines are    *)
(* good; it has read six lines per job; and each job whose lines are good  *)
(* is as it was saved.                                                     *)
Loading ==
  /\ doing = "down" => mJobQueue = <<>>
  /\ doing = "loading" =>
       /\ pos = 2 + EntryLines * Len(mJobQueue)
       /\ mJobQueue # <<>> => pos - 4 <= Len(file)
       /\ Good(1) => num = Len(saved.queue)
       /\ Good(2) => nextId = HeaderId(saved.queue, saved.nextId)
       /\ \A k \in DOMAIN mJobQueue :
            (\A m \in 1 .. EntryLines : Good(LineOf(k, m)))
            => k \in DOMAIN saved.queue /\ mJobQueue[k] = Reloaded(saved.queue)[k]

FileInv == TypeOK /\ Prefix /\ Loading

(* What is to be written, of the last SaveQueue.                           *)
LEMMA ToWriteProperties ==
  ASSUME TypeOK
  PROVE  /\ ToWrite \in Seq(Line)
         /\ saved.queue \in Seq(Job) /\ Len(saved.queue) \in Nat
         /\ Len(ToWrite) = 2 + EntryLines * Len(saved.queue) /\ Len(ToWrite) \in Nat
         /\ ToWrite[1] = Num(Len(saved.queue))
         /\ ToWrite[2] = Num(HeaderId(saved.queue, saved.nextId))
         /\ \A k \in 1 .. Len(saved.queue), m \in 1 .. EntryLines :
              ToWrite[LineOf(k, m)] = EntryLine(saved.queue[k], m)
<1>1. saved.queue \in Seq(Job) /\ saved.nextId \in Nat /\ Len(saved.queue) \in Nat
  BY LenProperties DEF TypeOK
<1> QED
  BY <1>1, ContentsProperties DEF ToWrite

(* What is left of a line is a line; of a number, a number.                *)
LEMMA CutIsLine ==
  ASSUME NEW l \in Line, NEW c \in Cut(l)
  PROVE  c \in Line /\ l # Blank /\ (l.kind = "num" => c.kind = "num")
<1>1. CASE l = Blank
  <2>1. Blank.kind = "text"
    BY DEF Blank, Text
  <2> QED
    BY <1>1, <2>1 DEF Cut
<1>2. CASE l # Blank /\ l.kind = "num"
  <2>1. c = l \/ \E n \in CutNumber(l.v) : c = Num(n)
    BY <1>2 DEF Cut
  <2>2. \A n \in CutNumber(l.v) : n \in Nat
    BY DEF CutNumber, Line
  <2> QED
    BY <1>2, <2>1, <2>2 DEF Num, Line
<1>3. CASE l # Blank /\ l.kind # "num"
  <2>1. c \in {l, Text(Part)}
    BY <1>3 DEF Cut
  <2>2. Part \in Nat
    BY BoundsAssumption DEF Part
  <2> QED
    BY <1>3, <2>1, <2>2 DEF Text, Line
<1> QED
  BY <1>1, <1>2, <1>3

-----------------------------------------------------------------------------
(* Saving keeps the invariant.                                             *)

(* SaveQueue begins with an empty file.                                    *)
LEMMA SaveQueueKeeps ==
  ASSUME FileInv, NEW q \in Seq(Job), NEW nid \in Nat, SaveQueue(q, nid)
  PROVE  FileInv'
<1>1. /\ doing' = "saving" /\ mJobQueue' = q /\ nextId' = nid
      /\ saved' = [queue |-> q, nextId |-> nid] /\ exists' = TRUE
      /\ file' = <<>> /\ ended' = TRUE /\ UNCHANGED <<pos, num, tmp, crashes>>
  BY DEF SaveQueue, reader
<1>2. TypeOK'
  BY <1>1 DEF FileInv, TypeOK
<1>3. Len(file') = 0 /\ WholeLines' = 0
  BY <1>1 DEF WholeLines
<1>4. Len(ToWrite') \in Nat
  BY <1>2, ToWriteProperties
<1>5. Prefix'
  BY <1>1, <1>3, <1>4 DEF Prefix
<1> QED
  BY <1>1, <1>2, <1>5 DEF FileInv, Loading

(* Every command saves a queue and a next id.                              *)
LEMMA CommandKeeps ==
  ASSUME FileInv, Command
  PROVE  FileInv'
<1>t. /\ mJobQueue \in Seq(Job) /\ nextId \in Nat /\ Len(mJobQueue) \in Nat
      /\ \A k \in 1 .. Len(mJobQueue) : mJobQueue[k] \in Job
      /\ DOMAIN mJobQueue = 1 .. Len(mJobQueue)
  BY LenProperties, ElementOfSeq DEF FileInv, TypeOK
<1>c. StatusCodes \subseteq Nat
  BY DEF StatusCodes, ERROR, CANCELED
<1>1. CASE Add
  <2>1. PICK procs \in Procs, st \in {PENDING, ERROR} :
          SaveQueue(Append(mJobQueue,
                           [id |-> nextId, name |-> 1, procs |-> procs,
                            spool |-> nextId + 1, status |-> st]),
                    nextId + 1)
    BY <1>1 DEF Add
  <2>2. [id |-> nextId, name |-> 1, procs |-> procs, spool |-> nextId + 1,
         status |-> st] \in Job
    BY <1>t, ProcsAssumption DEF Job, PENDING, ERROR
  <2>3. Append(mJobQueue, [id |-> nextId, name |-> 1, procs |-> procs,
                           spool |-> nextId + 1, status |-> st]) \in Seq(Job)
    BY ONLY <1>t, <2>2, AppendProperties
  <2>4. nextId + 1 \in Nat
    BY <1>t
  <2> QED
    BY ONLY FileInv, <2>1, <2>3, <2>4, SaveQueueKeeps
<1>2. CASE Remove
  <2>1. PICK n \in DOMAIN mJobQueue :
          SaveQueue([k \in 1 .. Len(mJobQueue) - 1 |->
                       mJobQueue[IF k < n THEN k ELSE k + 1]], nextId)
    BY <1>2 DEF Remove
  <2>2. [k \in 1 .. Len(mJobQueue) - 1 |->
           mJobQueue[IF k < n THEN k ELSE k + 1]] \in Seq(Job)
    <3>1. \A k \in 1 .. Len(mJobQueue) - 1 :
            (IF k < n THEN k ELSE k + 1) \in 1 .. Len(mJobQueue)
      BY <1>t
    <3>2. Len(mJobQueue) - 1 \in Nat
      BY <1>t
    <3> QED
      BY <1>t, <3>1, <3>2
  <2> QED
    BY <1>t, <2>1, <2>2, SaveQueueKeeps
<1>3. CASE SetName
  <2>1. PICK n \in DOMAIN mJobQueue, name \in Names :
          SaveQueue([mJobQueue EXCEPT ![n].name = name], nextId)
    BY <1>3 DEF SetName
  <2>2. [mJobQueue[n] EXCEPT !.name = name] \in Job
    BY <1>t, NamesAssumption DEF Job
  <2>3. [mJobQueue EXCEPT ![n].name = name] \in Seq(Job)
    BY <1>t, <2>2, ExceptSeq
  <2> QED
    BY <1>t, <2>1, <2>3, SaveQueueKeeps
<1>4. CASE SetStatus
  <2>1. PICK n \in DOMAIN mJobQueue, st \in StatusCodes :
          SaveQueue([mJobQueue EXCEPT ![n].status = st], nextId)
    BY <1>4 DEF SetStatus
  <2>2. [mJobQueue[n] EXCEPT !.status = st] \in Job
    BY <1>t, <1>c DEF Job
  <2>3. [mJobQueue EXCEPT ![n].status = st] \in Seq(Job)
    BY <1>t, <2>2, ExceptSeq
  <2> QED
    BY <1>t, <2>1, <2>3, SaveQueueKeeps
<1>5. CASE OtherCommand
  BY <1>t, <1>5, SaveQueueKeeps DEF OtherCommand
<1> QED
  BY <1>1, <1>2, <1>3, <1>4, <1>5 DEF Command

(* A line, whole or cut, is added to a beginning of what is to be written. *)
LEMMA AppendKeepsPrefix ==
  ASSUME TypeOK, Prefix, ended, Len(file) < Len(ToWrite), UNCHANGED saved,
         NEW l \in Line, file' = Append(file, l),
         \/ ended' = TRUE /\ l = ToWrite[Len(file) + 1]
         \/ ended' = FALSE /\ l \in Cut(ToWrite[Len(file) + 1]) /\ doing' # "saving"
  PROVE  file' \in Seq(Line) /\ Prefix'
<1>t. file \in Seq(Line) /\ Len(file) \in Nat
  BY LenProperties DEF TypeOK
<1>1. /\ file' \in Seq(Line) /\ Len(file') = Len(file) + 1
      /\ file'[Len(file) + 1] = l
      /\ \A n \in 1 .. Len(file) : file'[n] = file[n]
  BY <1>t, AppendProperties
<1>2. ToWrite' = ToWrite /\ Len(ToWrite) \in Nat
  BY ToWriteProperties DEF ToWrite
<1>3. \A n \in 1 .. Len(file) : file[n] = ToWrite[n]
  BY DEF Prefix, WholeLines
<1>4. \A n \in 1 .. WholeLines' : file'[n] = ToWrite'[n]
  <2>1. CASE ended' = TRUE
    <3>1. \A n \in 1 .. WholeLines' : n \in 1 .. Len(file) \/ n = Len(file) + 1
      BY <1>t, <1>1, <2>1 DEF WholeLines
    <3> QED
      BY <1>1, <1>2, <1>3, <2>1, <3>1
  <2>2. CASE ended' = FALSE
    <3>1. WholeLines' = Len(file)
      BY <1>t, <1>1, <2>2 DEF WholeLines
    <3> QED
      BY <1>1, <1>2, <1>3, <3>1
  <2> QED
    BY <2>1, <2>2
<1>5. file' # <<>> /\ Len(file') <= Len(ToWrite')
  BY <1>t, <1>1, <1>2
<1>6. ~ended' => file'[Len(file')] \in Cut(ToWrite'[Len(file')])
  BY <1>1, <1>2
<1>7. doing' = "saving" => ended'
  OBVIOUS
<1> QED
  BY ONLY <1>1, <1>4, <1>5, <1>6, <1>7 DEF Prefix

(* A save that is broken off leaves a beginning.                           *)
LEMMA BreaksOffKeeps ==
  ASSUME TypeOK, Prefix, doing = "saving", BreaksOff, doing' # "saving"
  PROVE  file' \in Seq(Line) /\ ended' \in BOOLEAN /\ Prefix'
<1>1. ended /\ UNCHANGED <<exists, saved>> /\ ToWrite' = ToWrite
  BY DEF Prefix, BreaksOff, ToWrite
<1>2. CASE UNCHANGED <<file, ended>>
  BY <1>1, <1>2 DEF Prefix, WholeLines, TypeOK
<1>3. CASE /\ Len(file) < Len(ToWrite)
           /\ \E l \in Cut(ToWrite[Len(file) + 1]) : file' = Append(file, l)
           /\ ended' = FALSE
  <2>1. PICK l \in Cut(ToWrite[Len(file) + 1]) : file' = Append(file, l)
    BY <1>3
  <2>2. Len(file) + 1 \in 1 .. Len(ToWrite)
    BY <1>3, LenProperties, ToWriteProperties DEF TypeOK
  <2>3. l \in Line
    BY <2>2, ToWriteProperties, ElementOfSeq, CutIsLine
  <2> QED
    BY <1>1, <1>3, <2>1, <2>3, AppendKeepsPrefix
<1> QED
  BY <1>2, <1>3 DEF BreaksOff

(* Writing, closing, and a disk that is full.                              *)
LEMMA SaveKeeps ==
  ASSUME FileInv, Save
  PROVE  FileInv'
<1>t. TypeOK /\ Prefix /\ file \in Seq(Line) /\ Len(file) \in Nat
  BY LenProperties DEF FileInv, TypeOK
<1>1. CASE WriteLine
  <2>1. /\ doing = "saving" /\ Len(file) < Len(ToWrite) /\ ended
        /\ file' = Append(file, ToWrite[Len(file) + 1])
        /\ UNCHANGED <<doing, mJobQueue, nextId, exists, ended, saved, pos, num, tmp,
                       crashes>>
    BY <1>t, <1>1 DEF WriteLine, Prefix, reader
  <2>2. Len(file) + 1 \in 1 .. Len(ToWrite)
    BY <1>t, <2>1, ToWriteProperties
  <2>3. ToWrite[Len(file) + 1] \in Line
    BY <1>t, <2>2, ToWriteProperties, ElementOfSeq
  <2>4. file' \in Seq(Line) /\ Prefix'
    BY <1>t, <2>1, <2>3, AppendKeepsPrefix
  <2>5. TypeOK'
    BY <1>t, <2>1, <2>4 DEF TypeOK
  <2> QED
    BY <2>1, <2>4, <2>5 DEF FileInv, Loading
<1>2. CASE Close
  <2>1. /\ doing' = "idle"
        /\ UNCHANGED <<mJobQueue, nextId, exists, file, ended, saved, pos, num, tmp,
                       crashes>>
    BY <1>2 DEF Close, onDisk, reader
  <2> QED
    BY <1>t, <2>1 DEF FileInv, TypeOK, Prefix, WholeLines, ToWrite, Loading
<1>3. CASE WriteFails
  <2>1. /\ doing = "saving" /\ BreaksOff /\ doing' = "idle"
        /\ UNCHANGED <<mJobQueue, nextId, exists, saved, pos, num, tmp, crashes>>
    BY <1>3 DEF WriteFails, BreaksOff, reader
  <2>2. file' \in Seq(Line) /\ ended' \in BOOLEAN /\ Prefix'
    BY <1>t, <2>1, BreaksOffKeeps
  <2>3. TypeOK'
    BY <1>t, <2>1, <2>2 DEF TypeOK
  <2> QED
    BY <2>1, <2>2, <2>3 DEF FileInv, Loading
<1> QED
  BY <1>1, <1>2, <1>3 DEF Save

(* The daemon ends.                                                        *)
LEMMA CrashKeeps ==
  ASSUME FileInv, Crash
  PROVE  FileInv'
<1>1. /\ doing' = "down" /\ mJobQueue' = <<>> /\ nextId' = 0
      /\ pos' = 0 /\ num' = 0 /\ tmp' = 0 /\ crashes < MaxCrashes
      /\ crashes' = crashes + 1 /\ UNCHANGED <<exists, saved>>
  BY DEF Crash, BreaksOff, onDisk
<1>2. file' \in Seq(Line) /\ ended' \in BOOLEAN /\ Prefix'
  <2>1. CASE doing = "saving"
    BY <1>1, <2>1, BreaksOffKeeps DEF FileInv, Crash
  <2>2. CASE doing # "saving"
    <3>1. UNCHANGED <<file, ended, saved>>
      BY <2>2 DEF Crash, onDisk
    <3> QED
      BY <1>1, <3>1 DEF FileInv, TypeOK, Prefix, WholeLines, ToWrite
  <2> QED
    BY <2>1, <2>2
<1>3. TypeOK'
  <2>1. mJobQueue' \in Seq(Job) /\ crashes' \in 0 .. MaxCrashes
    BY <1>1, BoundsAssumption DEF FileInv, TypeOK
  <2> QED
    BY <1>1, <1>2, <2>1 DEF FileInv, TypeOK
<1> QED
  BY <1>1, <1>2, <1>3 DEF FileInv, Loading

-----------------------------------------------------------------------------
(* Loading keeps the invariant.                                            *)

(* Whatever LoadQueue reads as a number is one.                            *)
LEMMA ReadIsTyped ==
  ASSUME TypeOK, NEW n \in Nat \ {0}, NEW old \in Nat
  PROVE  ReadLine(n) \in Line /\ ReadLine(n).v \in Nat /\ ToLong(ReadLine(n), old) \in Nat
<1>1. ReadLine(n) \in Line
  <2>1. CASE n <= Len(file)
    <3>1. n \in 1 .. Len(file)
      BY <2>1, LenProperties DEF TypeOK
    <3> QED
      BY <2>1, <3>1, ElementOfSeq DEF TypeOK, ReadLine
  <2>2. CASE ~(n <= Len(file))
    BY <2>2 DEF ReadLine, Blank, Text, Line
  <2> QED
    BY <2>1, <2>2
<1> QED
  BY <1>1 DEF ToLong, Line

(* A number that is read is what was written, whatever was read before.    *)
LEMMA NumIsRead == \A n, old : ToLong(Num(n), old) = n
BY DEF ToLong, Num

(* What a load leaves alone, and what is good stays so.                    *)
LEMMA LoadLeavesFile ==
  ASSUME Prefix, UNCHANGED onDisk, doing' # "saving"
  PROVE  /\ ToWrite' = ToWrite /\ Prefix'
         /\ \A n : Good(n)' <=> Good(n)
<1>1. UNCHANGED <<exists, file, ended, saved>> /\ ToWrite' = ToWrite
  BY DEF onDisk, ToWrite
<1> QED
  BY <1>1 DEF Prefix, WholeLines, Good

(* The header: the number of jobs and the next id.                         *)
LEMMA LoadHeaderKeeps ==
  ASSUME FileInv, LoadHeader
  PROVE  FileInv'
<1>1. PICK g \in Garbage :
        /\ num' = ToLong(ReadLine(1), g)
        /\ tmp' = ToLong(ReadLine(2), ToLong(ReadLine(1), g))
        /\ nextId' = ToLong(ReadLine(2), ToLong(ReadLine(1), g))
  BY DEF LoadHeader
<1>2. /\ doing = "down" /\ doing' = "loading" /\ pos' = 2 /\ mJobQueue = <<>>
      /\ UNCHANGED <<mJobQueue, exists, file, ended, saved, crashes>>
      /\ UNCHANGED onDisk
  BY DEF LoadHeader, onDisk, FileInv, Loading
<1>3. num' \in Nat /\ tmp' \in Nat /\ nextId' \in Nat
  <2>1. g \in Nat
    BY GarbageAssumption
  <2>2. ToLong(ReadLine(1), g) \in Nat
    BY <2>1, ReadIsTyped DEF FileInv
  <2> QED
    BY <1>1, <2>2, ReadIsTyped DEF FileInv
<1>4. TypeOK'
  BY <1>2, <1>3 DEF FileInv, TypeOK
<1>5. Prefix' /\ ToWrite' = ToWrite /\ \A n : Good(n)' <=> Good(n)
  BY <1>2, LoadLeavesFile DEF FileInv
<1>6. /\ Good(1) => num' = Len(saved.queue)
      /\ Good(2) => nextId' = HeaderId(saved.queue, saved.nextId)
  BY <1>1, NumIsRead, ToWriteProperties DEF Good, ReadLine, FileInv
<1>7. Loading'
  <2>1. DOMAIN mJobQueue' = {} /\ Len(mJobQueue') = 0
    BY <1>2
  <2>2. pos' = 2 + EntryLines * Len(mJobQueue')
    BY <1>2, <2>1 DEF EntryLines
  <2> QED
    BY <1>2, <1>5, <1>6, <2>1, <2>2 DEF Loading
<1> QED
  BY <1>4, <1>5, <1>7 DEF FileInv

(* The entry LoadEntry finds is the next one: the line after the last entry*)
(* is whole and empty, and the one after that has an id, or what is left of*)
(* one.                                                                    *)
LEMMA NextEntryIsNext ==
  ASSUME FileInv, doing = "loading", MoreEntries, NEW n \in Starts,
         \A k \in Starts : n <= k
  PROVE  /\ n = pos + 2 /\ n <= Len(file)
         /\ Len(mJobQueue) + 1 \in 1 .. Len(saved.queue)
<1> DEFINE q == Len(mJobQueue)
           N == Len(saved.queue)
<1>t. /\ TypeOK /\ file \in Seq(Line) /\ Len(file) \in Nat /\ q \in Nat /\ N \in Nat
      /\ pos = 2 + EntryLines * q /\ Len(file) <= Len(ToWrite)
      /\ Len(ToWrite) = 2 + EntryLines * N
  BY LenProperties, ToWriteProperties DEF FileInv, TypeOK, Prefix, Loading
<1>1. /\ n \in pos + 1 .. Len(file) /\ n >= pos + 2 /\ file[n] # Blank
  <2>1. PICK b \in pos + 1 .. n - 1 : file[b] = Blank
    BY DEF Starts
  <2>2. n \in pos + 1 .. Len(file) /\ file[n] # Blank
    BY DEF Starts
  <2> QED
    BY <1>t, <2>1, <2>2 DEF EntryLines
<1>2. pos + 2 <= Len(file) /\ q + 1 \in 1 .. N
  BY <1>t, <1>1 DEF EntryLines
<1>3. LineOf(q + 1, 1) = pos + 1 /\ LineOf(q + 1, 2) = pos + 2
  BY <1>t DEF LineOf, EntryLines
<1>4. /\ saved.queue[q + 1] \in Job
      /\ ToWrite[pos + 1] = Blank /\ ToWrite[pos + 2] = Num(saved.queue[q + 1].id)
  <2>1. saved.queue[q + 1] \in Job
    BY <1>2, <1>t, ElementOfSeq, ToWriteProperties
  <2>2. /\ ToWrite[pos + 1] = EntryLine(saved.queue[q + 1], 1)
        /\ ToWrite[pos + 2] = EntryLine(saved.queue[q + 1], 2)
    <3>1. 1 \in 1 .. EntryLines /\ 2 \in 1 .. EntryLines
      BY DEF EntryLines
    <3> QED
      BY <1>2, <1>3, <1>t, <3>1, ToWriteProperties
  <2> QED
    BY <2>1, <2>2, EntryLineIs
<1>5. file[pos + 1] = Blank
  <2>1. pos + 1 \in 1 .. WholeLines
    BY <1>t, <1>2 DEF WholeLines, EntryLines
  <2> QED
    BY <1>4, <2>1 DEF FileInv, Prefix
<1>6. file[pos + 2] # Blank
  <2>1. CASE pos + 2 \in 1 .. WholeLines
    <3>1. file[pos + 2] = Num(saved.queue[q + 1].id)
      BY <1>4, <2>1 DEF FileInv, Prefix
    <3> QED
      BY <3>1 DEF Num, Blank, Text
  <2>2. CASE pos + 2 \notin 1 .. WholeLines
    <3>1. ~ended /\ Len(file) = pos + 2
      BY <1>t, <1>2, <2>2 DEF WholeLines, EntryLines
    <3>2. file[pos + 2] \in Cut(Num(saved.queue[q + 1].id))
      BY <1>4, <3>1 DEF FileInv, Prefix
    <3>3. /\ Num(saved.queue[q + 1].id) \in Line
          /\ Num(saved.queue[q + 1].id).kind = "num"
      BY <1>4 DEF Num, Line, Job
    <3>4. file[pos + 2].kind = "num"
      BY <3>2, <3>3, CutIsLine
    <3> QED
      BY <3>4 DEF Blank, Text
  <2> QED
    BY <2>1, <2>2
<1>7. pos + 2 \in Starts
  <2>1. pos + 2 \in pos + 1 .. Len(file) /\ pos + 1 \in pos + 1 .. (pos + 2) - 1
    BY <1>t, <1>2 DEF EntryLines
  <2> QED
    BY <1>5, <1>6, <2>1 DEF Starts
<1>8. n = pos + 2
  BY <1>t, <1>1, <1>7 DEF EntryLines
<1> QED
  BY <1>2, <1>8

(* If its six lines are good, it is the entry of that job.                 *)
LEMMA GoodEntryLoads ==
  ASSUME TypeOK, NEW k \in 1 .. Len(saved.queue), NEW n, n = LineOf(k, 2),
         \A m \in 1 .. EntryLines : Good(LineOf(k, m))
  PROVE  LET id == ToLong(ReadLine(n), tmp)
             procs == ToLong(ReadLine(n + 2), id)
             status == ToLong(ReadLine(n + 4), procs)
         IN  [id |-> id, name |-> ReadLine(n + 1).v, procs |-> procs,
              spool |-> ReadLine(n + 3).v, status |-> Reload(status)]
             = Reloaded(saved.queue)[k]
<1> DEFINE j == saved.queue[k]
<1>1. j \in Job /\ k \in DOMAIN saved.queue
  BY ToWriteProperties, LenProperties, ElementOfSeq
<1>2. /\ n = LineOf(k, 2) /\ n + 1 = LineOf(k, 3) /\ n + 2 = LineOf(k, 4)
      /\ n + 3 = LineOf(k, 5) /\ n + 4 = LineOf(k, 6)
  BY ToWriteProperties DEF LineOf, EntryLines
<1>3. \A m \in 1 .. EntryLines : ReadLine(LineOf(k, m)) = EntryLine(j, m)
  BY ToWriteProperties DEF Good, ReadLine
<1>4. /\ ReadLine(n) = Num(j.id) /\ ReadLine(n + 1) = Text(j.name)
      /\ ReadLine(n + 2) = Num(j.procs) /\ ReadLine(n + 3) = Text(j.spool)
      /\ ReadLine(n + 4) = Num(j.status)
  <2>1. {2, 3, 4, 5, 6} \subseteq 1 .. EntryLines
    BY DEF EntryLines
  <2> QED
    BY <1>1, <1>2, <1>3, <2>1, EntryLineIs
<1>5. Text(j.name).v = j.name /\ Text(j.spool).v = j.spool
  BY DEF Text
<1>6. Reloaded(saved.queue)[k] = [j EXCEPT !.status = Reload(j.status)]
  BY <1>1 DEF Reloaded
<1>7. [j EXCEPT !.status = Reload(j.status)]
      = [id |-> j.id, name |-> j.name, procs |-> j.procs, spool |-> j.spool,
         status |-> Reload(j.status)]
  BY <1>1 DEF Job
<1> QED
  BY <1>4, <1>5, <1>6, <1>7, NumIsRead

(* One round of LoadQueue's loop: the entry it takes is the next one.      *)
LEMMA LoadEntryKeeps ==
  ASSUME FileInv, LoadEntry
  PROVE  FileInv'
<1> DEFINE q == Len(mJobQueue)
           Id(n) == ToLong(ReadLine(n), tmp)
           Np(n) == ToLong(ReadLine(n + 2), Id(n))
           St(n) == ToLong(ReadLine(n + 4), Np(n))
           job(n) == [id |-> Id(n), name |-> ReadLine(n + 1).v, procs |-> Np(n),
                      spool |-> ReadLine(n + 3).v, status |-> Reload(St(n))]
<1>1. PICK n \in Starts : /\ \A k \in Starts : n <= k
                          /\ mJobQueue' = Append(mJobQueue, job(n))
                          /\ tmp' = St(n) /\ pos' = n + 4
  BY DEF LoadEntry
<1>2. /\ doing = "loading" /\ MoreEntries
      /\ UNCHANGED <<doing, nextId, exists, file, ended, saved, num, crashes>>
      /\ UNCHANGED onDisk
  BY DEF LoadEntry, onDisk
<1>3. n = pos + 2 /\ n <= Len(file) /\ q + 1 \in 1 .. Len(saved.queue)
  BY <1>1, <1>2, NextEntryIsNext
<1>t. /\ TypeOK /\ mJobQueue \in Seq(Job) /\ q \in Nat /\ tmp \in Nat /\ pos \in Nat
      /\ pos = 2 + EntryLines * q /\ DOMAIN mJobQueue = 1 .. q
  BY <1>2, LenProperties DEF FileInv, TypeOK, Loading
<1>4. /\ Id(n) \in Nat /\ Np(n) \in Nat /\ St(n) \in Nat
      /\ ReadLine(n + 1).v \in Nat /\ ReadLine(n + 3).v \in Nat
  <2>1. {n, n + 1, n + 2, n + 3, n + 4} \subseteq Nat \ {0}
    BY <1>3, <1>t
  <2>2. Id(n) \in Nat
    BY <1>t, <2>1, ReadIsTyped
  <2> HIDE DEF Id
  <2>3. Np(n) \in Nat
    BY <1>t, <2>1, <2>2, ReadIsTyped
  <2> HIDE DEF Np
  <2>4. St(n) \in Nat
    BY <1>t, <2>1, <2>3, ReadIsTyped
  <2> QED
    BY <1>t, <2>1, <2>2, <2>3, <2>4, ReadIsTyped
<1>5. (\A m \in 1 .. EntryLines : Good(LineOf(q + 1, m)))
      => job(n) = Reloaded(saved.queue)[q + 1]
  <2>1. n = LineOf(q + 1, 2)
    BY <1>3, <1>t DEF LineOf, EntryLines
  <2> QED
    BY <1>3, <1>t, <2>1, GoodEntryLoads
<1> HIDE DEF Id, Np, St
<1>6. job(n) \in Job
  BY <1>4 DEF Job, Reload, PENDING
<1> HIDE DEF job
<1>7. /\ mJobQueue' \in Seq(Job) /\ Len(mJobQueue') = q + 1
      /\ mJobQueue'[q + 1] = job(n)
      /\ \A k \in 1 .. q : mJobQueue'[k] = mJobQueue[k]
  BY ONLY <1>1, <1>6, <1>t, AppendProperties
<1>8. DOMAIN mJobQueue' = 1 .. q + 1
  BY <1>7, LenProperties
<1>9. TypeOK'
  <2>1. n + 4 \in Nat
    BY ONLY <1>3, <1>t
  <2>2. pos' \in Nat /\ tmp' \in Nat /\ mJobQueue' \in Seq(Job)
    BY <1>1, <1>4, <1>7, <2>1
  <2> QED
    BY ONLY <1>2, <1>t, <2>2 DEF TypeOK, onDisk
<1>10. Prefix' /\ ToWrite' = ToWrite /\ \A x : Good(x)' <=> Good(x)
  BY <1>2, LoadLeavesFile DEF FileInv
<1>11. Loading'
  <2>1. pos' = 2 + EntryLines * Len(mJobQueue') /\ pos' - 4 <= Len(file')
    BY <1>1, <1>2, <1>3, <1>7, <1>t DEF EntryLines
  <2>2. ASSUME NEW k \in DOMAIN mJobQueue', \A m \in 1 .. EntryLines : Good(LineOf(k, m))
        PROVE  k \in DOMAIN saved.queue /\ mJobQueue'[k] = Reloaded(saved.queue)[k]
    <3>1. CASE k \in 1 .. q
      BY <1>2, <1>7, <1>t, <2>2, <3>1 DEF FileInv, Loading
    <3>2. CASE k = q + 1
      <4>1. k \in DOMAIN saved.queue
        BY <1>3, <3>2, ToWriteProperties, LenProperties, <1>t
      <4> QED
        BY <1>5, <1>7, <2>2, <3>2, <4>1
    <3> QED
      BY <1>8, <1>t, <3>1, <3>2
  <2>3. /\ Good(1) => num = Len(saved.queue)
        /\ Good(2) => nextId = HeaderId(saved.queue, saved.nextId)
    BY <1>2 DEF FileInv, Loading
  <2> QED
    BY <1>2, <1>10, <2>1, <2>2, <2>3 DEF Loading
<1> QED
  BY <1>9, <1>10, <1>11 DEF FileInv

(* All that LoadQueue does.                                                *)
LEMMA LoadKeeps ==
  ASSUME FileInv, Load
  PROVE  FileInv'
<1>1. CASE LoadNothing
  <2>1. /\ doing' = "idle" /\ UNCHANGED onDisk
        /\ UNCHANGED <<mJobQueue, nextId, exists, file, ended, saved, pos, num, tmp,
                       crashes>>
    BY <1>1 DEF LoadNothing, onDisk, reader
  <2>2. TypeOK'
    BY <2>1 DEF FileInv, TypeOK
  <2> QED
    BY <2>1, <2>2, LoadLeavesFile DEF FileInv, Loading
<1>2. CASE LoadDone
  <2>1. /\ doing' = "idle" /\ pos' = 0 /\ num' = 0 /\ tmp' = 0 /\ UNCHANGED onDisk
        /\ UNCHANGED <<mJobQueue, nextId, exists, file, ended, saved, crashes>>
    BY <1>2 DEF LoadDone, onDisk
  <2>2. TypeOK'
    BY <2>1 DEF FileInv, TypeOK
  <2> QED
    BY <2>1, <2>2, LoadLeavesFile DEF FileInv, Loading
<1>3. CASE SkipForEver
  BY <1>3 DEF SkipForEver, vars, onDisk, reader, FileInv, TypeOK, Prefix, WholeLines,
              ToWrite, Loading, Good
<1> QED
  BY <1>1, <1>2, <1>3, LoadHeaderKeeps, LoadEntryKeeps DEF Load

-----------------------------------------------------------------------------
(* Theorems.                                                               *)

(* The invariant holds in every state, during saves and loads and after    *)
(* any number of ends of the daemon.                                       *)
THEOREM FileInvariant == Spec => []FileInv
<1>1. Init => FileInv
  <2> SUFFICES ASSUME Init PROVE FileInv
    OBVIOUS
  <2>1. TypeOK
    <3>1. <<>> \in Seq(Job) /\ <<>> \in Seq(Line)
      BY EmptySeq
    <3>2. 0 \in Nat /\ 0 \in 0 .. MaxCrashes
      BY BoundsAssumption
    <3> QED
      BY <3>1, <3>2 DEF Init, TypeOK
  <2>2. Len(file) = 0 /\ WholeLines = 0 /\ ended /\ doing = "down" /\ mJobQueue = <<>>
    BY DEF Init, WholeLines
  <2>3. Len(ToWrite) \in Nat
    BY <2>1, ToWriteProperties
  <2> QED
    BY <2>1, <2>2, <2>3 DEF FileInv, Prefix, Loading
<1>2. FileInv /\ [Next]_vars => FileInv'
  <2>1. FileInv /\ UNCHANGED vars => FileInv'
    BY DEF vars, onDisk, reader, FileInv, TypeOK, Prefix, WholeLines, ToWrite, Loading,
           Good
  <2> QED
    BY <2>1, CommandKeeps, SaveKeeps, LoadKeeps, CrashKeeps DEF Next
<1> QED
  BY <1>1, <1>2, PTL DEF Spec

(* From a file that was broken off, LoadQueue takes the jobs whose entries *)
(* are whole as they were saved, and at most one job more (LoadQueue's loop*)
(* against SaveQueue's).                                                   *)
THEOREM BrokenFileLoadsHolds == Spec => []BrokenFileLoads
<1>1. FileInv => BrokenFileLoads
  <2> SUFFICES ASSUME FileInv, doing = "loading", NEW k \in DOMAIN mJobQueue
               PROVE  /\ 2 + EntryLines * (k - 1) < Len(file)
                      /\ 2 + EntryLines * k <= WholeLines =>
                           mJobQueue[k] = Reloaded(saved.queue)[k]
    BY DEF BrokenFileLoads
  <2> DEFINE q == Len(mJobQueue)
  <2>t. /\ q \in Nat /\ k \in 1 .. q /\ Len(file) \in Nat
        /\ pos = 2 + EntryLines * q
    BY LenProperties DEF FileInv, TypeOK, Loading
  <2>1. pos - 4 <= Len(file)
    <3>1. mJobQueue # <<>>
      BY <2>t
    <3> QED
      BY <3>1 DEF FileInv, Loading
  <2>2. 2 + EntryLines * (k - 1) < Len(file)
    BY <2>t, <2>1 DEF EntryLines
  <2>3. ASSUME 2 + EntryLines * k <= WholeLines
        PROVE  mJobQueue[k] = Reloaded(saved.queue)[k]
    <3>1. ASSUME NEW m \in 1 .. EntryLines PROVE Good(LineOf(k, m))
      <4>1. LineOf(k, m) \in Nat \ {0} /\ LineOf(k, m) <= 2 + EntryLines * k
        BY <2>t DEF LineOf, EntryLines
      <4>2. WholeLines \in Int /\ WholeLines <= Len(file)
        BY <2>t DEF WholeLines
      <4>3. 2 + EntryLines * k \in Nat
        BY <2>t DEF EntryLines
      <4>4. LineOf(k, m) \in 1 .. WholeLines /\ LineOf(k, m) <= Len(file)
        BY ONLY <2>t, <2>3, <4>1, <4>2, <4>3
      <4> QED
        BY <4>4 DEF Good, FileInv, Prefix
    <3> QED
      BY <3>1 DEF FileInv, Loading
  <2> QED
    BY <2>2, <2>3
<1> QED
  BY <1>1, FileInvariant, PTL

(* What was saved whole is loaded as it was saved, but that running and    *)
(* paused jobs are pending (SaveQueue, LoadQueue).                         *)
THEOREM WholeFileLoadsHolds == Spec => WholeFileLoads
<1>1. FileInv /\ [Next]_vars
      => [LoadDone /\ file = ToWrite =>
            /\ mJobQueue = Reloaded(saved.queue)
            /\ nextId = IF saved.queue = <<>> THEN 0 ELSE saved.nextId]_vars
  <2> SUFFICES ASSUME FileInv, LoadDone, file = ToWrite
               PROVE  /\ mJobQueue = Reloaded(saved.queue)
                      /\ nextId = IF saved.queue = <<>> THEN 0 ELSE saved.nextId
    OBVIOUS
  <2> DEFINE q == Len(mJobQueue)
             N == Len(saved.queue)
  <2>1. \A n \in 1 .. Len(ToWrite) : Good(n)
    BY DEF Good
  <2>t. /\ q \in Nat /\ N \in Nat /\ Len(file) = 2 + EntryLines * N
        /\ mJobQueue \in Seq(Job) /\ saved.queue \in Seq(Job)
        /\ DOMAIN mJobQueue = 1 .. q /\ DOMAIN saved.queue = 1 .. N
        /\ pos = 2 + EntryLines * q
    BY LenProperties, ToWriteProperties DEF FileInv, TypeOK, Loading, LoadDone
  <2>2. 1 \in 1 .. Len(ToWrite) /\ 2 \in 1 .. Len(ToWrite)
    BY <2>t DEF EntryLines
  <2>3. num = N /\ nextId = HeaderId(saved.queue, saved.nextId)
    BY <2>1, <2>2 DEF FileInv, Loading, LoadDone
  <2>4. \A k \in 1 .. N, m \in 1 .. EntryLines : Good(LineOf(k, m))
    <3>1. \A k \in 1 .. N, m \in 1 .. EntryLines :
            LineOf(k, m) \in 1 .. 2 + EntryLines * N
      <4> SUFFICES ASSUME NEW k \in 1 .. N, NEW m \in 1 .. EntryLines
                   PROVE  LineOf(k, m) \in 1 .. 2 + EntryLines * N
        OBVIOUS
      <4> HIDE DEF N
      <4>1. LineOf(k, m) \in 3 .. 2 + EntryLines * N /\ 2 + EntryLines * N \in Nat
        BY <2>t, LineNumbers
      <4> QED
        BY ONLY <4>1
    <3> QED
      BY <2>1, <2>t, <3>1
  <2>5. q <= N
    <3>1. CASE q = 0
      BY <2>t, <3>1
    <3>2. CASE q # 0
      <4>1. pos - 4 <= Len(file)
        <5>1. mJobQueue # <<>>
          BY <2>t, <3>2
        <5> QED
          BY <5>1 DEF FileInv, Loading, LoadDone
      <4> QED
        BY <2>t, <4>1 DEF EntryLines
    <3> QED
      BY <3>1, <3>2
  <2>6. q >= N
    <3>1. ~(q < num) \/ AtEof(pos)
      BY DEF LoadDone, MoreEntries
    <3>2. AtEof(pos) => pos >= Len(file)
      BY <2>t DEF AtEof, EntryLines
    <3> QED
      BY <2>3, <2>t, <3>1, <3>2 DEF EntryLines
  <2>7. q = N
    BY <2>5, <2>6, <2>t
  <2>8. \A k \in 1 .. N : mJobQueue[k] = Reloaded(saved.queue)[k]
    BY <2>4, <2>7, <2>t DEF FileInv, Loading, LoadDone
  <2>9. mJobQueue = Reloaded(saved.queue)
    <3>1. DOMAIN Reloaded(saved.queue) = 1 .. N
      BY <2>t DEF Reloaded
    <3>2. mJobQueue = [k \in 1 .. N |-> mJobQueue[k]]
      BY <2>7, <2>t
    <3>3. Reloaded(saved.queue) = [k \in 1 .. N |-> Reloaded(saved.queue)[k]]
      BY <2>t DEF Reloaded
    <3> QED
      BY <2>8, <3>2, <3>3
  <2> QED
    BY <2>3, <2>9 DEF HeaderId
<1> QED
  BY <1>1, FileInvariant, PTL DEF Spec, WholeFileLoads

=============================================================================
