-------------------------- MODULE FrontEnds_proofs --------------------------
(***************************************************************************)
(* Proofs about the two front ends.                                        *)
(*                                                                         *)
(* The window (ClientFrame): the rows the user sees are the jobs of the    *)
(* copy, row by row, and a refresh keeps the selection.  The inductive     *)
(* invariant has two halves.  FrameInv says how far RefreshList has walked *)
(* the copy along the answer; Order adds that ids only grow, so that what  *)
(* is new in the queue comes after all that was listed before.             *)
(*                                                                         *)
(* The command line (CommandLine, before the same daemon): a listing is    *)
(* true although it is put together from three requests per job.  ListInv  *)
(* says what is known of its last row after each of them.                  *)
(***************************************************************************)
EXTENDS ClientFrame, CommandLine, SequenceTheorems, FiniteSetTheorems,
        WellFoundedInduction, TLAPS

-----------------------------------------------------------------------------
(* Sequences and sets of ids.                                              *)

Increasing(s) == \A k, l \in DOMAIN s : k < l => s[k] < s[l]

(* RemoveAt takes one element out; those before it stay where they are.    *)
LEMMA RemoveAtProperties ==
  ASSUME NEW S, NEW s \in Seq(S), NEW n \in 1 .. Len(s)
  PROVE  /\ RemoveAt(s, n) \in Seq(S)
         /\ Len(RemoveAt(s, n)) = Len(s) - 1
         /\ \A k \in 1 .. n - 1 : RemoveAt(s, n)[k] = s[k]
<1> DEFINE u == SubSeq(s, 1, n - 1)
           v == SubSeq(s, n + 1, Len(s))
<1>0. Len(s) \in Nat /\ \A k \in 1 .. Len(s) : s[k] \in S
  BY LenProperties, ElementOfSeq
<1>1. /\ u \in Seq(S) /\ Len(u) = n - 1
      /\ \A k \in 1 .. n - 1 : u[k] = s[k]
  BY <1>0, SubSeqProperties
<1>2. v \in Seq(S) /\ Len(v) = Len(s) - n
  BY <1>0, SubSeqProperties
<1> HIDE DEF u, v
<1>3. /\ u \o v \in Seq(S) /\ Len(u \o v) = Len(u) + Len(v)
      /\ \A k \in 1 .. Len(u) + Len(v) :
           (u \o v)[k] = IF k <= Len(u) THEN u[k] ELSE v[k - Len(u)]
  BY ONLY <1>1, <1>2, ConcatProperties
<1>4. RemoveAt(s, n) = u \o v
  BY DEF RemoveAt, u, v
<1>5. Len(u) + Len(v) = Len(s) - 1
  BY <1>0, <1>1, <1>2
<1>6. ASSUME NEW k \in 1 .. n - 1 PROVE RemoveAt(s, n)[k] = s[k]
  <2>1. k \in 1 .. Len(u) + Len(v) /\ k <= Len(u)
    BY <1>0, <1>1, <1>5
  <2> QED
    BY <1>1, <1>3, <1>4, <2>1
<1> QED
  BY <1>3, <1>4, <1>5, <1>6

(* The answer of GetJobIds, and the rows a handler goes through, are a set *)
(* in order: each element once, and all of them.                           *)
LEMMA InOrderProperties ==
  ASSUME NEW S \in SUBSET Nat, IsFiniteSet(S), NEW s \in InOrder(S)
  PROVE  /\ s \in Seq(S) /\ Len(s) = Cardinality(S) /\ Len(s) \in Nat
         /\ Increasing(s)
         /\ ToSet(s) = S
<1> DEFINE n == Cardinality(S)
<1>1. n \in Nat
  BY FS_CardinalityType
<1>2. s \in [1 .. n -> S] /\ \A k, l \in 1 .. n : k < l => s[k] < s[l]
  BY DEF InOrder
<1>3. s \in Seq(S) /\ Len(s) = n
  BY <1>1, <1>2
<1>4. Increasing(s)
  BY <1>2 DEF Increasing
<1>5. ASSUME NEW k \in 1 .. n, NEW l \in 1 .. n, s[k] = s[l] PROVE k = l
  <2>1. s[k] \in Nat
    BY <1>2
  <2>2. ~(k < l) /\ ~(l < k)
    BY <1>2, <1>5, <2>1
  <2> QED
    BY <1>1, <2>2
<1>6. s \in Injection(1 .. n, S)
  BY <1>2, <1>5 DEF Injection, IsInjective
<1>7. IsFiniteSet(1 .. n) /\ Cardinality(1 .. n) = n
  BY <1>1, FS_Interval
<1>8. s \in Surjection(1 .. n, S)
  BY <1>6, <1>7, FS_Injection
<1>9. \A x \in S : \E k \in 1 .. n : s[k] = x
  BY <1>8 DEF Surjection
<1>10. ToSet(s) = S
  BY <1>2, <1>9 DEF ToSet
<1> QED
  BY <1>1, <1>3, <1>4, <1>10

(* The jobs of the queue are finitely many numbers.                        *)
LEMMA IdsFinite ==
  ASSUME NEW S \in SUBSET Id
  PROVE  S \in SUBSET Nat /\ IsFiniteSet(S) /\ Cardinality(S) <= MaxJobs
<1>1. IsFiniteSet(Id) /\ Cardinality(Id) = MaxJobs /\ Id \subseteq Nat
  BY MaxJobsAssumption, FS_Interval DEF Id
<1> QED
  BY <1>1, FS_Subset, FS_CardinalityType

-----------------------------------------------------------------------------
(* The invariant.                                                          *)

Bound == Len(mJobList) <= MaxJobs /\ Len(ids) <= MaxJobs

(* A handler goes through rows there are; and only a handler that runs has *)
(* rows to go through, or a dialog for new jobs above the window, with the *)
(* buttons grey, so that the timer that fires under it starts no refresh.  *)
HandlerRows ==
  /\ pc # "act" => todo = <<>>
  /\ op # "Add" => \A k \in DOMAIN todo : todo[k] \in DOMAIN mJobList
  /\ modal = "add" => pc = "act" /\ op = "Add" /\ ~mConnected

(* But while RefreshList walks the copy, rows and copy are the last answer.*)
Listed ==
  pc # "walk" =>
    /\ jobListCtrl = ids
    /\ [k \in DOMAIN mJobList |-> mJobList[k].id] = ids

(* Meanwhile the copy begins with the part of the answer it has come to.   *)
Walked ==
  pc = "walk" =>
    /\ node = i /\ i <= Len(ids) + 1 /\ node <= Len(mJobList) + 1
    /\ \A k \in 1 .. node - 1 : mJobList[k].id = ids[k]

FrameInv == TypeOK /\ Bound /\ HandlerRows /\ Listed /\ Walked

(* Only an ADD brings a job into the queue, with the next id.              *)
NewAreLater ==
  /\ nextId <= nextId'
  /\ \A j \in queue' : j \in queue \/ (nextId <= j /\ j < nextId')

(* The steps of this front end and of all others leave the queue one.      *)
LEMMA DaemonStep ==
  ASSUME DaemonOK, [Next]_vars
  PROVE  DaemonOK' /\ NewAreLater
<1>t. /\ MaxJobs \in Nat /\ Id = 0 .. MaxJobs - 1
      /\ alive \in BOOLEAN /\ nextId \in 0 .. MaxJobs
      /\ status \in [Id -> Statuses \cup {"absent"}]
  BY MaxJobsAssumption DEF DaemonOK, Id
<1>1. ASSUME UNCHANGED daemon PROVE DaemonOK' /\ NewAreLater
  BY <1>t, <1>1 DEF daemon, DaemonOK, NewAreLater, queue
<1>2. ASSUME nextId < MaxJobs, AddJob, UNCHANGED alive PROVE DaemonOK' /\ NewAreLater
  <2>1. /\ status' = [status EXCEPT ![nextId] = "PENDING"]
        /\ nextId' = nextId + 1 /\ nextId \in Id
    BY <1>t, <1>2 DEF AddJob
  <2>2. status' \in [Id -> Statuses \cup {"absent"}]
    BY <1>t, <2>1 DEF Statuses
  <2>3. \A j \in Id : j # nextId => status'[j] = status[j]
    BY <1>t, <2>1
  <2> QED
    BY <1>t, <1>2, <2>1, <2>2, <2>3 DEF DaemonOK, NewAreLater, queue
<1>3. ASSUME NEW j \in queue, NEW st \in Statuses \cup {"absent"},
             status' = [status EXCEPT ![j] = st], UNCHANGED <<alive, nextId>>
      PROVE  DaemonOK' /\ NewAreLater
  <2>1. \A k \in Id : status[k] = "absent" => status'[k] = "absent"
    BY <1>t, <1>3 DEF queue
  <2> QED
    BY <1>t, <1>3, <2>1 DEF DaemonOK, NewAreLater, queue
<1>4. ASSUME NEW A \in BOOLEAN, alive' = A, UNCHANGED nextId,
             status' \in [Id -> Statuses \cup {"absent"}],
             \A j \in Id : status'[j] \in {status[j], "absent"}
      PROVE  DaemonOK' /\ NewAreLater
  BY <1>t, <1>4 DEF DaemonOK, NewAreLater, queue
<1>5. CASE Elsewhere
  <2>1. ASSUME NEW j \in queue, NEW st \in Follows(status[j]) \cup {"absent"}
        PROVE  st \in Statuses \cup {"absent"}
    BY <2>1 DEF Follows, Statuses
  <2>2. CASE nextId < MaxJobs /\ AddJob /\ UNCHANGED alive
    BY <1>2, <2>2
  <2>3. CASE /\ \E j \in queue : \E st \in Follows(status[j]) \cup {"absent"} :
                  status' = [status EXCEPT ![j] = st]
             /\ UNCHANGED <<alive, nextId>>
    BY <1>3, <2>1, <2>3
  <2>4. CASE /\ alive' = FALSE
             /\ status' = [j \in Id |-> "absent"]
             /\ UNCHANGED nextId
    BY <1>4, <2>4
  <2> QED
    BY <1>5, <2>2, <2>3, <2>4 DEF Elsewhere, Moves
<1>6. CASE AddNext
  <2>1. CASE alive /\ nextId < MaxJobs
    BY <1>2, <1>6, <2>1 DEF AddNext
  <2>2. CASE ~(alive /\ nextId < MaxJobs)
    BY <1>1, <1>6, <2>2 DEF AddNext, daemon
  <2> QED
    BY <2>1, <2>2
<1>7. CASE ActOnRow
  <2> DEFINE j == mJobList[Head(todo)]
  <2>1. CASE Answered(j.id) /\ Can(op, j.status)
    <3>1. j.id \in queue /\ status[j.id] \in Statuses
      BY <1>t, <2>1 DEF Answered, queue
    <3>2. PICK st \in After(op, status[j.id]) : status' = [status EXCEPT ![j.id] = st]
      BY <1>7, <2>1 DEF ActOnRow
    <3>3. st \in Statuses \cup {"absent"}
      BY <3>1, <3>2 DEF After, Statuses
    <3> QED
      BY <1>3, <1>7, <3>1, <3>2, <3>3 DEF ActOnRow
  <2>2. CASE ~(Answered(j.id) /\ Can(op, j.status))
    BY <1>1, <1>7, <2>2 DEF ActOnRow, daemon
  <2> QED
    BY <2>1, <2>2
<1>8. CASE ActOnQueue
  <2>1. CASE op = "Clear" /\ alive
    <3>1. status' = [j \in Id |-> IF status[j] \in Finished THEN "absent"
                                  ELSE status[j]]
      BY <1>8, <2>1 DEF ActOnQueue, ClearQueue
    <3>2. /\ status' \in [Id -> Statuses \cup {"absent"}]
          /\ \A j \in Id : status'[j] \in {status[j], "absent"}
      BY <1>t, <3>1
    <3> QED
      BY <1>t, <1>4, <1>8, <3>2 DEF ActOnQueue
  <2>2. CASE ~(op = "Clear" /\ alive)
    BY <1>1, <1>8, <2>2 DEF ActOnQueue, daemon
  <2> QED
    BY <2>1, <2>2
<1>9. CASE OnTimer \/ GetJobIds \/ Update \/ Drop \/ NewRow \/ EndRefresh
  BY <1>1, <1>9 DEF OnTimer, GetJobIds, Update, Drop, NewRow, EndRefresh
<1>10. CASE User
  BY <1>1, <1>10
     DEF User, Select, PauseAllClick, Click, OnDropFiles, Handle, NewJob,
         SaveAsClick, SaveAsOk, BeginLabelEdit, EndLabelEdit
<1>11. CASE UNCHANGED vars
  BY <1>1, <1>11 DEF vars
<1> QED
  BY <1>5, <1>6, <1>7, <1>8, <1>9, <1>10, <1>11 DEF Next, Handler

-----------------------------------------------------------------------------
(* Each step keeps the invariant.                                          *)

(* Steps that change neither copy nor rows nor answer: those of others and *)
(* what the user does in the window and its dialogs.                       *)
LEMMA QuietKeeps ==
  ASSUME FrameInv, DaemonOK',
         \/ Elsewhere \/ Select \/ PauseAllClick \/ NewJob \/ AddNext \/ ActOnRow
         \/ SaveAsClick \/ SaveAsOk \/ BeginLabelEdit \/ EndLabelEdit
         \/ OnTimer \/ ActOnQueue \/ UNCHANGED vars
  PROVE  FrameInv'
<1>t. /\ todo \in Seq(IF op = "Add" THEN {1} ELSE 1 .. MaxJobs)
      /\ selected \subseteq ToSet(jobListCtrl) /\ alive' \in BOOLEAN
      /\ mActive \in BOOLEAN /\ mConnected \in BOOLEAN /\ timer \in BOOLEAN
      /\ modal \in {"none", "saveas", "edit", "add"}
      /\ pc \in {"idle", "act", "ids", "walk"} /\ op \in Ops
  BY DEF FrameInv, TypeOK, DaemonOK
<1>u. UNCHANGED <<mJobList, jobListCtrl, refresh>>
  BY DEF Elsewhere, Select, PauseAllClick, NewJob, AddNext, ActOnRow, SaveAsClick,
         SaveAsOk, BeginLabelEdit, EndLabelEdit, OnTimer, ActOnQueue, vars, copy
<1>h. HandlerRows
  BY DEF FrameInv
<1> DEFINE Todo == todo \in Seq(IF op = "Add" THEN {1} ELSE 1 .. MaxJobs)
<1>1. Todo' /\ HandlerRows'
  <2>1. CASE NewJob
    <3>1. PICK n \in 0 .. MaxFiles : todo' = [k \in 1 .. n |-> 1]
      BY <2>1 DEF NewJob
    <3>2. n \in Nat /\ todo' \in Seq({1})
      BY <3>1, FilesAssumption
    <3>3. op = "Add" /\ op' = op /\ pc' = "act" /\ modal' = "none"
      BY <1>h, <2>1 DEF NewJob, HandlerRows
    <3> QED
      BY <3>2, <3>3 DEF HandlerRows
  <2>2. CASE AddNext \/ ActOnRow
    <3>1. /\ todo # <<>> /\ todo' = Tail(todo) /\ pc = "act"
          /\ UNCHANGED <<pc, op, modal, mConnected>>
      BY <2>2 DEF AddNext, ActOnRow
    <3>2. /\ Tail(todo) \in Seq(IF op = "Add" THEN {1} ELSE 1 .. MaxJobs)
          /\ Len(Tail(todo)) = Len(todo) - 1
          /\ \A k \in 1 .. Len(Tail(todo)) : Tail(todo)[k] = todo[k + 1]
      BY <1>t, <3>1, HeadTailProperties
    <3>3. \A k \in DOMAIN Tail(todo) : k + 1 \in DOMAIN todo
      BY <1>t, <3>2, LenProperties
    <3>4. \A k \in DOMAIN Tail(todo) : Tail(todo)[k] = todo[k + 1]
      BY <3>2, LenProperties
    <3> QED
      BY <1>h, <1>u, <3>1, <3>2, <3>3, <3>4 DEF HandlerRows
  <2>3. CASE ActOnQueue
    <3>1. todo = <<>> /\ UNCHANGED <<todo, modal>> /\ modal = "none" /\ op' = "Refresh"
      BY <2>3 DEF ActOnQueue
    <3>2. todo' \in Seq(1 .. MaxJobs) /\ DOMAIN todo' = {}
      BY <3>1
    <3> QED
      BY <3>1, <3>2 DEF HandlerRows
  <2>4. CASE OnTimer
    BY <1>t, <1>h, <1>u, <2>4 DEF OnTimer, HandlerRows
  <2>5. CASE \/ Elsewhere \/ Select \/ PauseAllClick \/ SaveAsClick \/ SaveAsOk
             \/ BeginLabelEdit \/ EndLabelEdit \/ UNCHANGED vars
    <3>1. UNCHANGED <<todo, pc, op>>
      BY <2>5 DEF Elsewhere, Select, PauseAllClick, SaveAsClick, SaveAsOk,
                  BeginLabelEdit, EndLabelEdit, vars
    <3>2. modal' = "add" => modal = "add" /\ UNCHANGED mConnected
      BY <2>5 DEF Elsewhere, Select, PauseAllClick, SaveAsClick, SaveAsOk,
                  BeginLabelEdit, EndLabelEdit, UserFree, vars
    <3> QED
      BY <1>t, <1>h, <1>u, <3>1, <3>2 DEF HandlerRows
  <2> QED
    BY <2>1, <2>2, <2>3, <2>4, <2>5
<1>2. /\ selected' \subseteq ToSet(jobListCtrl') /\ mActive' \in BOOLEAN
      /\ mConnected' \in BOOLEAN /\ timer' \in BOOLEAN
      /\ modal' \in {"none", "saveas", "edit", "add"}
      /\ pc' \in {"idle", "act", "ids", "walk"} /\ op' \in Ops
  <2>1. CASE Select
    BY <1>t, <2>1, <1>u DEF Select, daemon, DaemonOK
  <2>2. CASE \/ PauseAllClick \/ SaveAsClick \/ SaveAsOk \/ BeginLabelEdit
             \/ EndLabelEdit \/ OnTimer
    BY <1>t, <2>2, <1>u
       DEF PauseAllClick, SaveAsClick, SaveAsOk, BeginLabelEdit, EndLabelEdit,
           OnTimer, daemon, copy
  <2>3. CASE Elsewhere \/ NewJob \/ AddNext \/ ActOnRow \/ ActOnQueue \/ UNCHANGED vars
    BY <1>t, <2>3, <1>u
       DEF Elsewhere, NewJob, AddNext, ActOnRow, ActOnQueue, vars, copy, Ops
  <2> QED
    BY <2>1, <2>2, <2>3
<1>3. pc' # pc => pc # "walk" /\ pc' # "walk"
  BY <1>h DEF Elsewhere, Select, PauseAllClick, NewJob, AddNext, ActOnRow, SaveAsClick,
              SaveAsOk, BeginLabelEdit, EndLabelEdit, OnTimer, ActOnQueue, vars,
              HandlerRows
<1>4. TypeOK'
  BY <1>1, <1>2, <1>u DEF FrameInv, TypeOK, refresh
<1>5. Bound' /\ Listed' /\ Walked'
  BY <1>3, <1>u DEF FrameInv, Bound, Listed, Walked, refresh
<1> QED
  BY <1>1, <1>4, <1>5 DEF FrameInv

(* A button is clicked, or files are dropped: the rows to go through are   *)
(* those of the selected jobs.                                             *)
LEMMA HandleKeeps ==
  ASSUME FrameInv, DaemonOK', NEW o \in Ops, pc = "idle", Handle(o)
  PROVE  FrameInv'
<1>t. /\ mJobList \in Seq([id : Id, status : Statuses]) /\ MaxJobs \in Nat
      /\ Len(mJobList) <= MaxJobs /\ Len(mJobList) \in Nat
      /\ DOMAIN mJobList = 1 .. Len(mJobList)
  BY MaxJobsAssumption, LenProperties DEF FrameInv, TypeOK, Bound
<1>1. /\ todo' \in Seq(IF o = "Add" THEN {1} ELSE 1 .. MaxJobs)
      /\ o # "Add" => \A k \in DOMAIN todo' : todo'[k] \in DOMAIN mJobList
  <2>1. CASE o \in {"Cancel", "Pause", "Resume", "Remove"}
    <3>1. todo' \in InOrder(Rows)
      BY <2>1 DEF Handle
    <3>2. IsFiniteSet(Rows) /\ Rows \in SUBSET Nat /\ Rows \subseteq 1 .. MaxJobs
      <4>1. Rows \subseteq 1 .. Len(mJobList) /\ IsFiniteSet(1 .. Len(mJobList))
        BY <1>t, FS_Interval DEF Rows
      <4> QED
        <5>1. IsFiniteSet(Rows)
          BY <4>1, FS_Subset
        <5> QED
          BY <1>t, <4>1, <5>1
    <3>3. todo' \in Seq(Rows)
      BY <3>1, <3>2, InOrderProperties
    <3>4. \A k \in DOMAIN todo' : todo'[k] \in Rows
      BY <3>3, LenProperties, ElementOfSeq
    <3>5. todo' \in Seq(1 .. MaxJobs)
      BY <3>2, <3>3, SeqMonotonic
    <3> QED
      BY <2>1, <3>4, <3>5 DEF Rows
  <2>2. CASE o \notin {"Cancel", "Pause", "Resume", "Remove"}
    <3>1. todo' = <<>>
      BY <2>2 DEF Handle
    <3> QED
      BY <3>1
  <2> QED
    BY <2>1, <2>2
<1>2. /\ UNCHANGED <<copy, refresh, mActive, timer>> /\ op' = o /\ pc' = "act"
      /\ mConnected' = FALSE
      /\ modal' \in {"none", "add"} /\ (modal' = "add" => o = "Add")
  BY DEF Handle
<1>3. TypeOK'
  BY <1>1, <1>2 DEF FrameInv, TypeOK, copy, refresh
<1>4. HandlerRows'
  BY <1>1, <1>2 DEF HandlerRows, copy
<1>5. Bound' /\ Listed' /\ Walked'
  BY <1>2 DEF FrameInv, Bound, Listed, Walked, copy, refresh
<1> QED
  BY <1>3, <1>4, <1>5 DEF FrameInv

(* GetJobIds: the walk begins at the first job of copy and answer.         *)
LEMMA GetJobIdsKeeps ==
  ASSUME FrameInv, DaemonOK', GetJobIds
  PROVE  FrameInv'
<1>1. ids' \in Seq(Id) /\ Len(ids') <= MaxJobs /\ Len(ids') \in Nat
  <2>1. CASE alive
    <3>1. ids' \in InOrder(queue) /\ queue \in SUBSET Id
      BY <2>1 DEF GetJobIds, IdsAnswers, queue
    <3>2. ids' \in Seq(queue) /\ Len(ids') <= MaxJobs /\ Len(ids') \in Nat
      BY <3>1, IdsFinite, InOrderProperties
    <3> QED
      BY <3>1, <3>2, SeqMonotonic
  <2>2. CASE ~alive
    <3>1. ids' = <<>>
      BY <2>2 DEF GetJobIds, IdsAnswers
    <3> QED
      BY <3>1, MaxJobsAssumption
  <2> QED
    BY <2>1, <2>2
<1>2. /\ node' = 1 /\ i' = 1 /\ pc = "ids" /\ pc' = "walk"
      /\ UNCHANGED <<daemon, copy, mActive, mConnected, timer, modal, op, todo>>
  BY DEF GetJobIds
<1>3. TypeOK'
  <2>1. 1 \in 1 .. MaxJobs + 1
    BY MaxJobsAssumption
  <2> QED
    BY <1>1, <1>2, <2>1 DEF FrameInv, TypeOK, copy
<1>4. Bound' /\ HandlerRows' /\ Listed'
  BY <1>1, <1>2 DEF FrameInv, Bound, HandlerRows, Listed, copy
<1>5. Walked'
  <2>1. Len(mJobList) \in Nat
    BY LenProperties DEF FrameInv, TypeOK
  <2> QED
    BY <1>1, <1>2, <2>1 DEF Walked, copy
<1> QED
  BY <1>3, <1>4, <1>5 DEF FrameInv

(* One step of the walk: what it needs of copy and indices.                *)
LEMMA WalkKeeps ==
  ASSUME FrameInv, DaemonOK', pc = "walk",
         UNCHANGED <<daemon, jobListCtrl, selected, mActive, mConnected, timer,
                     modal, pc, op, todo, ids>>,
         mJobList' \in Seq([id : Id, status : Statuses]),
         node' = i', node' \in 1 .. Len(ids) + 1, node' <= Len(mJobList') + 1,
         Len(mJobList') <= MaxJobs,
         \A k \in 1 .. node' - 1 : mJobList'[k].id = ids[k]
  PROVE  FrameInv'
<1>1. MaxJobs \in Nat /\ Len(ids) \in Nat /\ Len(ids) <= MaxJobs
  BY MaxJobsAssumption, LenProperties DEF FrameInv, TypeOK, Bound
<1>2. node' \in 1 .. MaxJobs + 1 /\ i' \in 1 .. MaxJobs + 1
  BY <1>1
<1>3. TypeOK'
  BY <1>2 DEF FrameInv, TypeOK
<1>4. HandlerRows'
  <2>1. todo = <<>> /\ DOMAIN todo' = {}
    BY DEF FrameInv, HandlerRows
  <2> QED
    BY <2>1 DEF FrameInv, HandlerRows
<1>5. Bound' /\ Listed' /\ Walked'
  BY <1>1 DEF FrameInv, Bound, Listed, Walked
<1> QED
  BY <1>3, <1>4, <1>5 DEF FrameInv

(* The statuses of jobs of the queue are statuses, and so is the answer    *)
(* that there is none.                                                     *)
LEMMA AnswerIsStatus ==
  ASSUME DaemonOK, NEW j
  PROVE  GetStatus(j) \in Statuses
BY DEF DaemonOK, GetStatus, Answered, queue, Statuses

(* The job at node is that of the answer, and its status is asked for.     *)
LEMMA UpdateKeeps ==
  ASSUME FrameInv, DaemonOK', Update
  PROVE  FrameInv'
<1> DEFINE J == [id : Id, status : Statuses]
           new == [mJobList EXCEPT ![node].status = GetStatus(ids[i])]
<1>t. /\ mJobList \in Seq(J) /\ Len(mJobList) \in Nat /\ Len(mJobList) <= MaxJobs
      /\ DOMAIN mJobList = 1 .. Len(mJobList) /\ Len(ids) \in Nat /\ DaemonOK
      /\ pc = "walk" /\ node = i /\ node \in 1 .. MaxJobs + 1
      /\ node <= Len(mJobList) /\ i <= Len(ids) /\ mJobList[node].id = ids[i]
      /\ \A k \in 1 .. node - 1 : mJobList[k].id = ids[k]
  BY LenProperties DEF FrameInv, TypeOK, Bound, Walked, Update, Matches
<1>1. GetStatus(ids[i]) \in Statuses
  BY <1>t, AnswerIsStatus
<1>2. \A k \in 1 .. Len(mJobList) : mJobList[k] \in J
  BY <1>t, ElementOfSeq
<1>3. new \in Seq(J) /\ Len(new) = Len(mJobList)
  <2>1. [mJobList[node] EXCEPT !.status = GetStatus(ids[i])] \in J
    BY <1>t, <1>1, <1>2
  <2>2. new = [mJobList EXCEPT ![node] =
                 [mJobList[node] EXCEPT !.status = GetStatus(ids[i])]]
    OBVIOUS
  <2> QED
    BY <1>t, <2>1, <2>2, ExceptSeq
<1>4. \A k \in 1 .. Len(mJobList) : new[k].id = mJobList[k].id
  BY <1>t, <1>2
<1>5. /\ mJobList' \in {mJobList, new}
      /\ node' = node + 1 /\ i' = i + 1
      /\ UNCHANGED <<daemon, jobListCtrl, selected, mActive, mConnected, timer,
                     modal, pc, op, todo, ids>>
  BY DEF Update
<1> HIDE DEF new
<1>6. /\ mJobList' \in Seq(J) /\ Len(mJobList') = Len(mJobList)
      /\ \A k \in 1 .. Len(mJobList) : mJobList'[k].id = mJobList[k].id
  BY <1>t, <1>3, <1>4, <1>5
<1>7. \A k \in 1 .. node' - 1 : mJobList'[k].id = ids[k]
  <2>1. \A k \in 1 .. node' - 1 : k \in 1 .. Len(mJobList) /\ (k \in 1 .. node - 1 \/ k = node)
    BY <1>t, <1>5
  <2> QED
    BY <1>t, <1>6, <2>1
<1>8. /\ node' = i' /\ node' \in 1 .. Len(ids) + 1 /\ node' <= Len(mJobList') + 1
      /\ Len(mJobList') <= MaxJobs
  BY <1>t, <1>5, <1>6
<1> QED
  BY ONLY FrameInv, DaemonOK', <1>t, <1>5, <1>6, <1>7, <1>8, WalkKeeps

(* The job at node is not in the answer, and is dropped.                   *)
LEMMA DropKeeps ==
  ASSUME FrameInv, DaemonOK', Drop
  PROVE  FrameInv'
<1> DEFINE J == [id : Id, status : Statuses]
<1>t. /\ mJobList \in Seq(J) /\ Len(mJobList) \in Nat /\ Len(mJobList) <= MaxJobs
      /\ Len(ids) \in Nat /\ MaxJobs \in Nat
      /\ pc = "walk" /\ node = i /\ node \in 1 .. MaxJobs + 1
      /\ node <= Len(mJobList) /\ i <= Len(ids) + 1
      /\ \A k \in 1 .. node - 1 : mJobList[k].id = ids[k]
  BY MaxJobsAssumption, LenProperties DEF FrameInv, TypeOK, Bound, Walked, Drop
<1>1. mJobList' = RemoveAt(mJobList, node)
      /\ UNCHANGED <<daemon, jobListCtrl, selected, mActive, mConnected, timer,
                     modal, pc, op, todo, ids, node, i>>
  BY DEF Drop, refresh
<1>2. node \in 1 .. Len(mJobList)
  BY <1>t
<1>3. /\ mJobList' \in Seq(J) /\ Len(mJobList') = Len(mJobList) - 1
      /\ \A k \in 1 .. node - 1 : mJobList'[k] = mJobList[k]
  BY <1>t, <1>1, <1>2, RemoveAtProperties
<1>4. /\ node' = i' /\ node' \in 1 .. Len(ids) + 1 /\ node' <= Len(mJobList') + 1
      /\ Len(mJobList') <= MaxJobs
  BY <1>t, <1>1, <1>3
<1>5. \A k \in 1 .. node' - 1 : mJobList'[k].id = ids[k]
  BY <1>t, <1>1, <1>3
<1> QED
  BY ONLY FrameInv, DaemonOK', <1>t, <1>1, <1>3, <1>4, <1>5, WalkKeeps

(* The copy is at its end: what is left of the answer is appended.         *)
LEMMA NewRowKeeps ==
  ASSUME FrameInv, DaemonOK', NewRow
  PROVE  FrameInv'
<1> DEFINE J == [id : Id, status : Statuses]
           job == [id |-> ids[i], status |-> GetStatus(ids[i])]
<1>t. /\ mJobList \in Seq(J) /\ Len(mJobList) \in Nat /\ Len(mJobList) <= MaxJobs
      /\ Len(ids) \in Nat /\ Len(ids) <= MaxJobs /\ MaxJobs \in Nat /\ ids \in Seq(Id)
      /\ pc = "walk" /\ node = i /\ node \in 1 .. MaxJobs + 1 /\ DaemonOK
      /\ node = Len(mJobList) + 1 /\ i <= Len(ids)
      /\ \A k \in 1 .. node - 1 : mJobList[k].id = ids[k]
  BY MaxJobsAssumption, LenProperties DEF FrameInv, TypeOK, Bound, Walked, NewRow
<1>1. /\ mJobList' = Append(mJobList, job)
      /\ node' = node + 1 /\ i' = i + 1
      /\ UNCHANGED <<daemon, jobListCtrl, selected, mActive, mConnected, timer,
                     modal, pc, op, todo, ids>>
  BY DEF NewRow
<1>2. job \in J
  <2>1. i \in 1 .. Len(ids)
    BY <1>t
  <2> QED
    BY <1>t, <2>1, AnswerIsStatus, ElementOfSeq
<1>3. job.id = ids[i]
  OBVIOUS
<1> HIDE DEF job, J
<1>4. /\ mJobList' \in Seq(J) /\ Len(mJobList') = Len(mJobList) + 1
      /\ \A k \in 1 .. Len(mJobList) : mJobList'[k] = mJobList[k]
      /\ mJobList'[Len(mJobList) + 1] = job
  BY ONLY <1>t, <1>1, <1>2, AppendProperties
<1>5. /\ node' = i' /\ node' \in 1 .. Len(ids) + 1 /\ node' <= Len(mJobList') + 1
      /\ Len(mJobList') <= MaxJobs
  <2>1. Len(mJobList') = Len(mJobList) + 1 /\ node' = node + 1 /\ i' = i + 1
    BY <1>1, <1>4
  <2>2. /\ Len(mJobList) \in Nat /\ Len(ids) \in Nat /\ MaxJobs \in Nat
        /\ node = Len(mJobList) + 1 /\ node = i
        /\ i <= Len(ids) /\ Len(ids) <= MaxJobs
    BY <1>t
  <2> QED
    BY ONLY <2>1, <2>2
<1>6. \A k \in 1 .. node' - 1 : mJobList'[k].id = ids[k]
  <2>1. \A k \in 1 .. node' - 1 : k \in 1 .. Len(mJobList) \/ k = Len(mJobList) + 1
    BY <1>t, <1>1
  <2> QED
    BY <1>t, <1>3, <1>4, <2>1
<1> QED
  BY ONLY FrameInv, DaemonOK', <1>t, <1>1, <1>4, <1>5, <1>6, WalkKeeps DEF J

(* The smallest element of a set of numbers.                               *)
LEMMA LeastElement ==
  ASSUME NEW S \in SUBSET Nat, S # {}
  PROVE  \E m \in S : \A k \in S : m <= k
<1>1. PICK m \in S : \A k \in S : <<k, m>> \notin OpToRel(<, Nat)
  BY NatLessThanWellFounded, WFMin
<1>2. \A k \in S : ~(k < m)
  BY <1>1 DEF OpToRel
<1> QED
  BY <1>2

(* How many rows were kept when the first r of them have been looked at.   *)
Kept(n, r) ==
  IF n < Len(mJobList) /\ mJobList[n + 1].id = jobListCtrl[r] THEN n + 1 ELSE n

KeptAlong(kept, m) ==
  /\ kept \in [0 .. m -> 0 .. Len(mJobList)] /\ kept[0] = 0
  /\ \A r \in 1 .. m : kept[r] = Kept(kept[r - 1], r)

(* There is such a walk along the rows, by induction on their number ...   *)
LEMMA KeptExists ==
  ASSUME Len(mJobList) \in Nat, NEW m \in Nat
  PROVE  \E kept : KeptAlong(kept, m)
<1> DEFINE S == {r \in Nat : ~ \E kept : KeptAlong(kept, r)}
<1>1. ASSUME S # {} PROVE FALSE
  <2>1. PICK r \in S : \A k \in S : r <= k
    BY <1>1, LeastElement
  <2>2. CASE r = 0
    <3>1. KeptAlong([x \in 0 .. 0 |-> 0], 0)
      BY DEF KeptAlong
    <3> QED
      BY <2>1, <2>2, <3>1
  <2>3. CASE r # 0
    <3>1. r - 1 \in Nat /\ r - 1 \notin S
      BY <2>1, <2>3
    <3>2. PICK kept : KeptAlong(kept, r - 1)
      BY <3>1
    <3> DEFINE more == [x \in 0 .. r |-> IF x = r THEN Kept(kept[r - 1], r) ELSE kept[x]]
    <3>3. kept \in [0 .. r - 1 -> 0 .. Len(mJobList)]
      BY <3>2 DEF KeptAlong
    <3>4. Kept(kept[r - 1], r) \in 0 .. Len(mJobList)
      BY <3>1, <3>3 DEF Kept
    <3>5. more \in [0 .. r -> 0 .. Len(mJobList)]
      BY <3>1, <3>3, <3>4
    <3>6. more[0] = 0
      BY <2>3, <3>2 DEF KeptAlong
    <3>7. \A x \in 1 .. r : more[x] = Kept(more[x - 1], x)
      <4>1. \A x \in 0 .. r - 1 : more[x] = kept[x]
        BY <3>1
      <4>2. more[r] = Kept(kept[r - 1], r)
        BY <3>1
      <4>3. ASSUME NEW x \in 1 .. r PROVE more[x] = Kept(more[x - 1], x)
        <5>1. x - 1 \in 0 .. r - 1 /\ more[x - 1] = kept[x - 1]
          BY <3>1, <4>1
        <5>2. CASE x = r
          BY <4>2, <5>1, <5>2
        <5>3. CASE x # r
          <6>1. x \in 1 .. r - 1
            BY <3>1, <5>3
          <6> QED
            BY <3>2, <4>1, <5>1, <6>1 DEF KeptAlong
        <5> QED
          BY <5>2, <5>3
      <4> QED
        BY <4>3
    <3>8. KeptAlong(more, r)
      BY <3>5, <3>6, <3>7 DEF KeptAlong
    <3> QED
      BY <2>1, <3>8
  <2> QED
    BY <2>2, <2>3
<1> QED
  BY <1>1

(* ... and KeptRows is where it ends.                                      *)
LEMMA KeptRowsIsWalk ==
  ASSUME Len(mJobList) \in Nat, Len(jobListCtrl) \in Nat
  PROVE  /\ KeptRows \in 0 .. Len(mJobList)
         /\ \E kept : /\ KeptAlong(kept, Len(jobListCtrl))
                      /\ KeptRows = kept[Len(jobListCtrl)]
<1> DEFINE m == Len(jobListCtrl)
           Walk(kept) == [r \in 0 .. m |->
             IF r = 0 THEN 0
             ELSE LET n == kept[r - 1] IN
                  IF n < Len(mJobList) /\ mJobList[n + 1].id = jobListCtrl[r]
                  THEN n + 1 ELSE n]
           walk == CHOOSE kept : kept = Walk(kept)
<1>1. PICK f : KeptAlong(f, m)
  BY KeptExists
<1>2. f = Walk(f)
  BY <1>1 DEF KeptAlong, Kept
<1>3. walk = Walk(walk)
  BY <1>2
<1>4. KeptRows = walk[m]
  BY DEF KeptRows
<1> HIDE DEF walk
<1>5. /\ walk[0] = 0
      /\ \A r \in 1 .. m : walk[r] = Kept(walk[r - 1], r)
  BY <1>3 DEF Kept
<1>6. ASSUME NEW r \in 0 .. m, walk[r] # f[r] PROVE FALSE
  <2> DEFINE S == {x \in 0 .. m : walk[x] # f[x]}
  <2>0. S \in SUBSET Nat /\ S # {}
    BY <1>6
  <2> HIDE DEF S
  <2>1. PICK x \in S : \A y \in S : x <= y
    BY <2>0, LeastElement
  <2> USE DEF S
  <2>2. x # 0
    BY <1>1, <1>5, <2>1 DEF KeptAlong
  <2>3. x \in 1 .. m /\ x - 1 \in 0 .. m /\ x - 1 \notin S
    BY <2>1, <2>2
  <2>4. walk[x - 1] = f[x - 1]
    BY <2>3
  <2> QED
    BY <1>1, <1>5, <2>1, <2>3, <2>4 DEF KeptAlong
<1>7. KeptRows = f[m] /\ f[m] \in 0 .. Len(mJobList)
  BY <1>1, <1>4, <1>6 DEF KeptAlong
<1> QED
  BY <1>1, <1>7

(* At the end of both the copy lists the answer, and so do the rows.       *)
LEMMA EndRefreshLists ==
  ASSUME FrameInv, EndRefresh
  PROVE  /\ jobListCtrl' = ids
         /\ [k \in DOMAIN mJobList |-> mJobList[k].id] = ids
         /\ Len(mJobList) = Len(ids)
         /\ \A k \in 1 .. Len(ids) : mJobList[k].id = ids[k]
<1>t. /\ Len(mJobList) \in Nat /\ DOMAIN mJobList = 1 .. Len(mJobList)
      /\ Len(ids) \in Nat /\ ids \in [1 .. Len(ids) -> Id]
      /\ node = i /\ i <= Len(ids) + 1 /\ node <= Len(mJobList) + 1
      /\ node > Len(mJobList) /\ i > Len(ids) /\ node \in 1 .. MaxJobs + 1
      /\ MaxJobs \in Nat
      /\ \A k \in 1 .. node - 1 : mJobList[k].id = ids[k]
  BY MaxJobsAssumption, LenProperties DEF FrameInv, TypeOK, Walked, EndRefresh
<1>1. Len(mJobList) = Len(ids) /\ node - 1 = Len(ids)
  <2>1. /\ Len(mJobList) \in Nat /\ Len(ids) \in Nat /\ node \in Nat /\ node = i
        /\ i <= Len(ids) + 1 /\ node <= Len(mJobList) + 1
        /\ node > Len(mJobList) /\ i > Len(ids)
    BY <1>t
  <2> QED
    BY ONLY <2>1
<1>2. [k \in DOMAIN mJobList |-> mJobList[k].id] = ids
  BY <1>t, <1>1
<1> QED
  BY <1>t, <1>1, <1>2 DEF EndRefresh

(* The end of a refresh, which takes the rows of jobs that are gone from   *)
(* the list.                                                               *)
LEMMA EndRefreshKeeps ==
  ASSUME FrameInv, DaemonOK', EndRefresh
  PROVE  FrameInv'
<1>1. /\ jobListCtrl' = ids /\ mJobList' = mJobList /\ ids' = ids
      /\ [k \in DOMAIN mJobList |-> mJobList[k].id] = ids
      /\ UNCHANGED <<daemon, mActive, modal, op, todo>>
      /\ timer' = TRUE /\ mConnected' = alive /\ pc = "walk" /\ pc' = "idle"
      /\ node' = 1 /\ i' = 1
  BY EndRefreshLists DEF EndRefresh
<1>2. selected' \subseteq ToSet(jobListCtrl')
  <2>1. selected' = selected \cap {mJobList[k].id : k \in 1 .. KeptRows}
    BY DEF EndRefresh
  <2>2. Len(ids) \in Nat /\ DOMAIN ids = 1 .. Len(ids) /\ KeptRows \in 0 .. Len(ids)
    BY EndRefreshLists, KeptRowsIsWalk, LenProperties DEF FrameInv, TypeOK
  <2>3. \A k \in 1 .. KeptRows : k \in DOMAIN ids /\ mJobList[k].id = ids[k]
    BY <2>2, EndRefreshLists
  <2> QED
    BY <1>1, <2>1, <2>3 DEF ToSet
<1>3. TypeOK'
  <2>1. 1 \in 1 .. MaxJobs + 1 /\ alive \in BOOLEAN
    BY MaxJobsAssumption DEF FrameInv, TypeOK, DaemonOK
  <2> QED
    BY <1>1, <1>2, <2>1 DEF FrameInv, TypeOK
<1>4. Bound' /\ HandlerRows' /\ Listed' /\ Walked'
  BY <1>1 DEF FrameInv, Bound, HandlerRows, Listed, Walked
<1> QED
  BY <1>3, <1>4 DEF FrameInv

-----------------------------------------------------------------------------
(* The order of ids.                                                       *)

(* What T has besides the elements of s comes after all of them.           *)
OldFirst(s, T) == \A j \in T : j \in ToSet(s) \/ \A k \in DOMAIN s : s[k] < j

Order ==
  /\ queue \subseteq 0 .. nextId - 1
  /\ Increasing(ids) /\ Increasing(jobListCtrl)
  /\ ToSet(ids) \cup ToSet(jobListCtrl) \subseteq 0 .. nextId - 1
  /\ OldFirst(ids, queue) /\ OldFirst(jobListCtrl, queue)
  /\ OldFirst(jobListCtrl, ToSet(ids))

(* A list of ids that were given out stays old, since ids only grow.       *)
LEMMA StaysOld ==
  ASSUME DaemonOK, NewAreLater, NEW s \in Seq(Id),
         ToSet(s) \subseteq 0 .. nextId - 1, OldFirst(s, queue)
  PROVE  OldFirst(s, queue')
<1> SUFFICES ASSUME NEW j \in queue', j \notin ToSet(s), NEW k \in DOMAIN s
             PROVE  s[k] < j
  BY DEF OldFirst
<1>1. s[k] \in 0 .. nextId - 1 /\ nextId \in Nat
  BY DEF ToSet, DaemonOK
<1>2. CASE j \in queue
  BY <1>2 DEF OldFirst
<1>3. CASE j \notin queue
  <2>1. nextId <= j /\ j \in Nat
    BY <1>3, MaxJobsAssumption DEF NewAreLater, queue, Id
  <2> QED
    BY <1>1, <2>1
<1> QED
  BY <1>2, <1>3

(* GetJobIds brings the lists up to date, EndRefresh makes the answer the  *)
(* rows, and no other step changes them.                                   *)
LEMMA OrderKeeps ==
  ASSUME FrameInv, DaemonOK', NewAreLater, Order, [Next]_vars
  PROVE  Order'
<1>t. /\ DaemonOK /\ ids \in Seq(Id) /\ jobListCtrl \in Seq(Id)
      /\ nextId \in Nat /\ nextId' \in Nat /\ nextId <= nextId'
  BY DEF FrameInv, TypeOK, DaemonOK, NewAreLater
<1>1. queue' \subseteq 0 .. nextId' - 1
  BY <1>t DEF Order, NewAreLater, queue, Id
<1>2. 0 .. nextId - 1 \subseteq 0 .. nextId' - 1
  <2>1. nextId \in Nat /\ nextId' \in Nat /\ nextId <= nextId'
    BY <1>t
  <2>2. \A a, b \in Nat : a <= b => 0 .. a - 1 \subseteq 0 .. b - 1
    OBVIOUS
  <2> QED
    BY <2>1, <2>2
<1>3. OldFirst(ids, queue') /\ OldFirst(jobListCtrl, queue')
  BY <1>t, StaysOld DEF Order
<1>4. CASE GetJobIds
  <2>1. UNCHANGED <<daemon, jobListCtrl>> /\ ids' \in IdsAnswers
    BY <1>4 DEF GetJobIds, copy
  <2>q. queue' = queue
    BY <2>1 DEF daemon, queue
  <2>2. CASE alive
    <3>1. ids' \in InOrder(queue) /\ queue \in SUBSET Id
      BY <2>1, <2>2 DEF IdsAnswers, queue
    <3>2. Increasing(ids') /\ ToSet(ids') = queue
      BY <3>1, IdsFinite, InOrderProperties
    <3> QED
      BY <1>1, <1>2, <1>3, <2>1, <2>q, <3>2 DEF Order, OldFirst
  <2>3. CASE ~alive
    <3>1. ids' = <<>> /\ DOMAIN ids' = {} /\ ToSet(ids') = {}
      BY <2>1, <2>3 DEF IdsAnswers, ToSet
    <3> QED
      BY <1>1, <1>2, <1>3, <2>1, <2>q, <3>1 DEF Order, OldFirst, Increasing
  <2> QED
    BY <2>2, <2>3
<1>5. CASE EndRefresh
  <2>1. jobListCtrl' = ids /\ ids' = ids
    BY <1>5, EndRefreshLists DEF EndRefresh
  <2>2. OldFirst(ids, ToSet(ids))
    BY DEF OldFirst
  <2> QED
    BY <1>1, <1>2, <1>3, <2>1, <2>2 DEF Order
<1>6. CASE ~(GetJobIds \/ EndRefresh)
  <2>1. UNCHANGED <<ids, jobListCtrl>>
    BY <1>6
       DEF Next, Elsewhere, Handler, ActOnRow, AddNext, ActOnQueue, Update, Drop,
           NewRow, OnTimer, User, Select, PauseAllClick, Click, OnDropFiles, Handle,
           NewJob, SaveAsClick, SaveAsOk, BeginLabelEdit, EndLabelEdit, vars, copy,
           refresh
  <2> QED
    BY <1>1, <1>2, <1>3, <2>1 DEF Order
<1> QED
  BY <1>4, <1>5, <1>6

(* The rows that EndRefresh keeps are those of all jobs that had a row and *)
(* still are in the answer.  By induction on the rows: when the next row's *)
(* job is in the answer, it is the first job of the copy without a row, as *)
(* jobs before it would be rows before it, and those have been kept.       *)
LEMMA KeptAreOld ==
  ASSUME FrameInv, Order, EndRefresh
  PROVE  {mJobList[k].id : k \in 1 .. KeptRows} = ToSet(jobListCtrl) \cap ToSet(ids)
<1> DEFINE m == Len(jobListCtrl)
           n == Len(ids)
<1>t. /\ ids \in [1 .. n -> Id] /\ n \in Nat /\ DOMAIN ids = 1 .. n
      /\ jobListCtrl \in [1 .. m -> Id] /\ m \in Nat /\ DOMAIN jobListCtrl = 1 .. m
      /\ Id \subseteq Nat
  BY MaxJobsAssumption, LenProperties DEF FrameInv, TypeOK, Id
<1>v. /\ \A k \in 1 .. n : ids[k] \in Nat
      /\ \A k \in 1 .. m : jobListCtrl[k] \in Nat
  BY <1>t
<1>e. Len(mJobList) = n /\ \A k \in 1 .. n : mJobList[k].id = ids[k]
  BY EndRefreshLists
<1>1. PICK kept : KeptAlong(kept, m) /\ KeptRows = kept[m]
  BY <1>t, <1>e, KeptRowsIsWalk
<1>2. /\ kept \in [0 .. m -> 0 .. n] /\ kept[0] = 0
      /\ \A r \in 1 .. m : kept[r] = Kept(kept[r - 1], r)
  BY <1>1, <1>e DEF KeptAlong
<1>i. /\ \A k, l \in 1 .. n : k < l => ids[k] < ids[l]
      /\ \A k, l \in 1 .. m : k < l => jobListCtrl[k] < jobListCtrl[l]
  BY <1>t DEF Order, Increasing
<1> HIDE DEF m, n
<1> DEFINE Q(r) == \A k \in 1 .. n :
                     k <= kept[r] <=> \E x \in 1 .. r : jobListCtrl[x] = ids[k]
           S == {r \in 0 .. m : ~Q(r)}
<1>3. ASSUME S # {} PROVE FALSE
  <2>0. S \in SUBSET Nat
    OBVIOUS
  <2> HIDE DEF S
  <2>1. PICK r \in S : \A y \in S : r <= y
    BY <1>3, <2>0, LeastElement
  <2> USE DEF S
  <2>2. r # 0
    BY <1>2, <2>1
  <2>a. r \in 1 .. m /\ r - 1 \in 0 .. m /\ m \in Nat /\ n \in Nat
    BY <1>t, <2>1, <2>2
  <2>b. r - 1 \notin S
    BY <2>1, <2>a
  <2>3. /\ Q(r - 1) /\ jobListCtrl[r] \in Nat
        /\ kept[r - 1] \in 0 .. n /\ kept[r] = Kept(kept[r - 1], r)
    BY <1>v, <1>2, <2>a, <2>b
  <2> DEFINE b == kept[r - 1]
  <2>4. CASE b < n /\ ids[b + 1] = jobListCtrl[r]
    <3>1. kept[r] = b + 1 /\ b + 1 \in 1 .. n
      BY <1>e, <2>a, <2>3, <2>4 DEF Kept
    <3>2. ASSUME NEW k \in 1 .. n
          PROVE  k <= b + 1 <=> \E x \in 1 .. r : jobListCtrl[x] = ids[k]
      <4>1. CASE k <= b
        <5>1. PICK x \in 1 .. r - 1 : jobListCtrl[x] = ids[k]
          BY <2>a, <2>3, <4>1
        <5> QED
          BY <2>a, <2>3, <4>1, <5>1
      <4>2. CASE k = b + 1
        BY <2>a, <2>3, <2>4, <4>2
      <4>3. CASE k > b + 1
        <5>1. ASSUME NEW x \in 1 .. r, jobListCtrl[x] = ids[k] PROVE FALSE
          <6>1. ids[b + 1] < ids[k]
            BY <1>i, <2>a, <3>1, <4>3
          <6>2. x # r
            BY <1>v, <2>a, <2>3, <2>4, <5>1, <6>1
          <6>3. x \in 1 .. r - 1
            BY <2>a, <2>3, <6>2
          <6> QED
            BY <2>a, <2>3, <4>3, <5>1, <6>3
        <5> QED
          BY <2>a, <2>3, <4>3, <5>1
      <4> QED
        BY <2>a, <2>3, <4>1, <4>2, <4>3
    <3> QED
      BY <2>1, <3>1, <3>2
  <2>5. CASE ~(b < n /\ ids[b + 1] = jobListCtrl[r])
    <3>1. kept[r] = b
      BY <1>e, <2>a, <2>3, <2>5 DEF Kept
    <3>2. ASSUME NEW k \in 1 .. n, jobListCtrl[r] = ids[k], ~(k <= b) PROVE FALSE
      <4>1. b + 1 \in 1 .. n /\ b + 1 < k /\ b < n
        <5>1. b < k /\ b \in Nat /\ k \in Nat /\ k <= n
          BY <2>a, <2>3, <3>2
        <5>2. b + 1 # k
          BY <2>5, <3>2, <5>1, <2>a
        <5> QED
          BY <2>a, <5>1, <5>2
      <4>2. ids[b + 1] < jobListCtrl[r] /\ ids[b + 1] \in ToSet(ids)
        BY <1>i, <1>t, <3>2, <4>1 DEF ToSet
      <4>3. ids[b + 1] \in ToSet(jobListCtrl)
        <5>1. ASSUME \A x \in 1 .. m : jobListCtrl[x] < ids[b + 1] PROVE FALSE
          <6>1. jobListCtrl[r] < ids[b + 1] /\ ids[b + 1] < jobListCtrl[r]
            BY <2>a, <4>2, <5>1
          <6> QED
            BY <1>v, <2>3, <4>1, <6>1
        <5> QED
          BY <1>t, <4>2, <5>1 DEF Order, OldFirst
      <4>4. PICK x \in 1 .. m : jobListCtrl[x] = ids[b + 1]
        BY <1>t, <4>3 DEF ToSet
      <4>5. x \in 1 .. r - 1
        <5>1. jobListCtrl[x] < jobListCtrl[r] /\ jobListCtrl[x] \in Nat
          BY <1>v, <4>2, <4>4
        <5>2. ~(r < x) /\ x # r
          BY <1>i, <2>a, <2>3, <5>1
        <5> QED
          BY <2>a, <5>2
      <4> QED
        BY <2>a, <2>3, <4>1, <4>4, <4>5
    <3>3. ASSUME NEW k \in 1 .. n
          PROVE  k <= b <=> \E x \in 1 .. r : jobListCtrl[x] = ids[k]
      <4>1. \A x : x \in 1 .. r <=> x \in 1 .. r - 1 \/ x = r
        BY <2>a, <2>3
      <4>2. k <= b <=> \E x \in 1 .. r - 1 : jobListCtrl[x] = ids[k]
        BY <2>a, <2>3
      <4> QED
        BY <3>2, <4>1, <4>2
    <3> QED
      BY <2>1, <3>1, <3>3
  <2> QED
    BY <2>4, <2>5
<1>4. /\ KeptRows \in 0 .. n
      /\ \A k \in 1 .. n : k <= KeptRows <=> \E x \in 1 .. m : jobListCtrl[x] = ids[k]
  <2>1. m \in 0 .. m /\ m \notin S
    BY <1>3, <1>t
  <2>2. Q(m)
    BY <2>1
  <2> QED
    BY <1>1, <1>2, <2>1, <2>2
<1>5. ASSUME NEW k \in 1 .. KeptRows
      PROVE  mJobList[k].id \in ToSet(jobListCtrl) \cap ToSet(ids)
  <2>1. k \in 1 .. n /\ k <= KeptRows /\ mJobList[k].id = ids[k]
    BY <1>4, <1>e, <1>t
  <2> QED
    BY <1>4, <1>t, <2>1 DEF ToSet
<1>6. ASSUME NEW j \in ToSet(jobListCtrl) \cap ToSet(ids)
      PROVE  \E k \in 1 .. KeptRows : mJobList[k].id = j
  <2>1. PICK k \in 1 .. n : ids[k] = j
    BY <1>t DEF ToSet
  <2>2. \E x \in 1 .. m : jobListCtrl[x] = ids[k]
    BY <1>t, <2>1 DEF ToSet
  <2>3. k \in 1 .. KeptRows
    BY <1>4, <2>1, <2>2
  <2> QED
    BY <1>e, <2>1, <2>3
<1> QED
  BY <1>5, <1>6

-----------------------------------------------------------------------------
(* Theorems.                                                               *)

(* The invariant holds in every state, between requests and in the middle  *)
(* of a refresh.                                                           *)
THEOREM FrameInvariant == Spec => [](FrameInv /\ Order)
<1>1. Init => FrameInv /\ Order
  <2> SUFFICES ASSUME Init PROVE FrameInv /\ Order
    OBVIOUS
  <2>1. /\ mJobList = <<>> /\ jobListCtrl = <<>> /\ ids = <<>> /\ todo = <<>>
        /\ DOMAIN mJobList = {} /\ DOMAIN ids = {} /\ DOMAIN todo = {}
        /\ ToSet(ids) = {} /\ ToSet(jobListCtrl) = {} /\ selected = {}
    BY DEF Init, ToSet
  <2>2. MaxJobs \in Nat /\ DaemonOK /\ queue = {}
    BY MaxJobsAssumption DEF Init, DaemonInit, DaemonOK, queue
  <2>3. TypeOK
    BY <2>1, <2>2 DEF Init, TypeOK, Ops
  <2>4. Bound /\ HandlerRows /\ Listed /\ Walked
    BY <2>1, <2>2 DEF Init, Bound, HandlerRows, Listed, Walked
  <2>5. Order
    BY <2>1, <2>2 DEF Order, OldFirst, Increasing
  <2> QED
    BY <2>3, <2>4, <2>5 DEF FrameInv
<1>2. FrameInv /\ Order /\ [Next]_vars => FrameInv' /\ Order'
  <2> SUFFICES ASSUME FrameInv, Order, [Next]_vars PROVE FrameInv' /\ Order'
    OBVIOUS
  <2>1. DaemonOK' /\ NewAreLater
    BY DaemonStep DEF FrameInv, TypeOK
  <2>2. ASSUME NEW o \in Buttons, Click(o) PROVE FrameInv'
    BY <2>1, <2>2, ButtonsAssumption, HandleKeeps DEF Click, UserFree
  <2>3. ASSUME OnDropFiles PROVE FrameInv'
    BY <2>1, <2>3, HandleKeeps DEF OnDropFiles, UserFree, Ops
  <2>4. FrameInv'
    BY <2>1, <2>2, <2>3, QuietKeeps, GetJobIdsKeeps, UpdateKeeps, DropKeeps,
       NewRowKeeps, EndRefreshKeeps DEF Next, Handler, User
  <2> QED
    BY <2>1, <2>4, OrderKeeps
<1> QED
  BY <1>1, <1>2, PTL DEF Spec

(* The window's copy, its rows, the handlers' rows and RefreshList's       *)
(* indices stay in range.                                                  *)
THEOREM FrameTypeOK == Spec => []TypeOK
<1>1. FrameInv => TypeOK
  BY DEF FrameInv
<1> QED
  BY <1>1, FrameInvariant, PTL

(* Between two handlers copy and rows list the jobs of the last answer to  *)
(* GetJobIds, row by row (RefreshList, GetSelected).                       *)
THEOREM RowsAreJobsHolds == Spec => []RowsAreJobs
<1>1. FrameInv => RowsAreJobs
  BY DEF FrameInv, Listed, RowsAreJobs
<1> QED
  BY <1>1, FrameInvariant, PTL

(* A refresh takes a selection away only from a job that has left the      *)
(* queue, and gives it to nobody (RefreshList's pass over the rows).       *)
THEOREM SelectionKeptHolds == Spec => SelectionKept
<1>1. FrameInv /\ Order /\ [Next]_vars
      => [pc = "walk" /\ pc' = "idle" => selected' = selected \cap ToSet(ids)]_vars
  <2> SUFFICES ASSUME FrameInv, Order, Next, pc = "walk", pc' = "idle"
               PROVE  selected' = selected \cap ToSet(ids)
    OBVIOUS
  <2>1. EndRefresh
    BY DEF Next, Elsewhere, Handler, ActOnRow, AddNext, ActOnQueue, GetJobIds, Update,
           Drop, NewRow, OnTimer, User, Select, PauseAllClick, Click, OnDropFiles,
           Handle, NewJob, SaveAsClick, SaveAsOk, BeginLabelEdit, EndLabelEdit,
           UserFree, HandlerRows, FrameInv
  <2>2. selected' = selected \cap ToSet(jobListCtrl) \cap ToSet(ids)
    BY <2>1, KeptAreOld DEF EndRefresh
  <2> QED
    BY <2>2 DEF FrameInv, TypeOK
<1> QED
  BY <1>1, FrameInvariant, PTL DEF Spec, SelectionKept

-----------------------------------------------------------------------------
(* The command line front end.                                             *)

(* Where a process is between the requests of a listing.                   *)
Mid == {"name", "status", "procs"}

Row == [id : Nat, name : BOOLEAN, status : Statuses, procs : BOOLEAN]

Fields == {"pc", "mCommand", "mGui", "mItems", "connected", "ids", "rows"}
IsProcess(a) == DOMAIN a = Fields

(* What ListIsTrue says of one row.                                        *)
IsTrue(r) ==
  /\ r.procs => r.name /\ (r.status = "ERROR" => r.id \in failed)
  /\ r.id \in queue => r.name /\ r.procs

(* What is known of the last row before its status, and before the number  *)
(* of processors, is asked for.  Either the daemon still has the job, or   *)
(* it has lost it for good: ids are not used again.                        *)
Named(r) == ~r.procs /\ (r.id \in queue => r.name)
Told(r) ==
  /\ Named(r)
  /\ r.id \in queue => (r.status = "ERROR" => r.id \in failed)

(* A process, at any point of its listing: all of its rows are true but    *)
(* the last, which may be the row of the job it is asking about.           *)
Listing(a) ==
  /\ a.ids \in Seq(Nat) /\ \A k \in DOMAIN a.ids : a.ids[k] < nextId
  /\ a.rows \in Seq(Row)
  /\ \A k \in DOMAIN a.rows : a.rows[k].id < nextId
  /\ a.pc \in Mid => a.ids # <<>>
  /\ a.pc \in {"status", "procs"} =>
       a.rows # <<>> /\ a.rows[Len(a.rows)].id = Head(a.ids)
  /\ \A k \in 1 .. Len(a.rows) - 1 : IsTrue(a.rows[k])
  /\ a.pc \notin {"status", "procs"} => \A k \in DOMAIN a.rows : IsTrue(a.rows[k])
  /\ a.pc = "status" => Named(a.rows[Len(a.rows)])
  /\ a.pc = "procs" => Told(a.rows[Len(a.rows)])

(* The daemon: its jobs have ids that were given out, and those that have  *)
(* failed are recorded.                                                    *)
QueueOK ==
  /\ DaemonOK
  /\ \A j \in queue : j < nextId
  /\ queue # {} => alive
  /\ \A j \in queue : status[j] = "ERROR" => j \in failed

(* The inductive invariant.                                                *)
ListInv ==
  /\ QueueOK
  /\ app = [p \in Proc |-> app[p]]
  /\ \A p \in Proc : IsProcess(app[p]) /\ Listing(app[p])

(* A later state of the daemon: no job that is gone comes back.            *)
Later ==
  /\ nextId \in Nat /\ nextId' \in Nat /\ nextId <= nextId'
  /\ failed \subseteq failed'
  /\ \A j \in Nat : j < nextId /\ j \in queue' => j \in queue

(* What is known of a listing stays known whatever the daemon does.        *)
LEMMA ListingStays ==
  ASSUME Later, NEW a, Listing(a)
  PROVE  Listing(a)'
<1>1. \A j \in Nat : j < nextId => j < nextId'
  BY DEF Later
<1>2. /\ a.ids \in Seq(Nat)
      /\ Len(a.rows) \in Nat /\ DOMAIN a.rows = 1 .. Len(a.rows)
      /\ \A k \in DOMAIN a.ids : a.ids[k] \in Nat
      /\ \A k \in DOMAIN a.rows : a.rows[k].id \in Nat /\ a.rows[k].id < nextId
      /\ 1 .. Len(a.rows) - 1 \subseteq DOMAIN a.rows
      /\ a.pc \in {"status", "procs"} => Len(a.rows) \in DOMAIN a.rows
  <2>1. /\ a.rows \in Seq(Row) /\ a.ids \in Seq(Nat)
        /\ \A k \in DOMAIN a.rows : a.rows[k].id < nextId
        /\ a.pc \in {"status", "procs"} => a.rows # <<>>
    BY DEF Listing
  <2>2. \A k \in DOMAIN a.rows : a.rows[k] \in Row
    BY <2>1
  <2>3. \A k \in DOMAIN a.rows : a.rows[k].id \in Nat
    BY <2>2 DEF Row
  <2>4. Len(a.rows) \in Nat /\ DOMAIN a.rows = 1 .. Len(a.rows)
    BY <2>1
  <2>5. a.rows # <<>> => Len(a.rows) # 0
    BY <2>1
  <2> QED
    BY <2>1, <2>3, <2>4, <2>5
<1>3. ASSUME NEW k \in DOMAIN a.rows
      PROVE  /\ IsTrue(a.rows[k]) => IsTrue(a.rows[k])'
             /\ Named(a.rows[k]) => Named(a.rows[k])'
             /\ Told(a.rows[k]) => Told(a.rows[k])'
  BY <1>2 DEF Later, IsTrue, Named, Told
<1> QED
  BY <1>1, <1>2, <1>3 DEF Listing

(* Every step keeps the facts about the daemon, and no job comes back:     *)
(* adding a job, a command, a change of status and a kill.                 *)
LEMMA QueueStep ==
  ASSUME QueueOK, [LineNext]_lineVars
  PROVE  QueueOK' /\ Later
<1>t. /\ MaxJobs \in Nat /\ Id = 0 .. MaxJobs - 1
      /\ alive \in BOOLEAN /\ nextId \in 0 .. MaxJobs
      /\ status \in [Id -> Statuses \cup {"absent"}]
      /\ "absent" \notin Statuses
  BY MaxJobsAssumption DEF QueueOK, DaemonOK, Id, Statuses
<1> DEFINE Adds == /\ alive /\ nextId < MaxJobs /\ AddJob
                   /\ UNCHANGED <<alive, failed>>
           Changes == /\ UNCHANGED <<alive, nextId>> /\ failed \subseteq failed'
                      /\ status' \in [Id -> Statuses \cup {"absent"}]
                      /\ \A j \in queue' :
                           /\ j \in queue
                           /\ status'[j] = "ERROR"
                                => status[j] = "ERROR" \/ j \in failed'
<1>1. CASE Adds
  <2>1. /\ status' = [status EXCEPT ![nextId] = "PENDING"] /\ nextId' = nextId + 1
        /\ nextId \in Id
    BY <1>t, <1>1 DEF AddJob
  <2>2. queue' = queue \cup {nextId}
    BY <1>t, <2>1 DEF queue
  <2>3. DaemonOK'
    BY <1>t, <1>1, <2>1 DEF DaemonOK, Statuses
  <2>4. \A j \in queue : j < nextId /\ j \in Nat
    BY <1>t DEF QueueOK, queue
  <2>5. \A j \in queue' : j < nextId'
    BY <1>t, <2>1, <2>2, <2>4
  <2>6. \A j \in queue' : status'[j] = "ERROR" => j \in failed
    <3>1. \A j \in queue : j # nextId
      BY <1>t, <2>4
    <3>2. \A j \in queue : status'[j] = status[j]
      BY <1>t, <2>1, <3>1 DEF queue
    <3>3. status'[nextId] = "PENDING"
      BY <1>t, <2>1
    <3> QED
      BY <2>2, <3>2, <3>3 DEF QueueOK
  <2>7. \A j \in Nat : j < nextId /\ j \in queue' => j \in queue
    BY <1>t, <2>2
  <2>8. Later
    <3>1. nextId \in Nat /\ nextId' \in Nat /\ nextId <= nextId'
      BY <1>t, <2>1
    <3> QED
      BY <1>1, <2>7, <3>1 DEF Later
  <2> QED
    BY <1>1, <2>3, <2>5, <2>6, <2>8 DEF QueueOK
<1>2. CASE Changes
  <2>1. DaemonOK'
    BY <1>t, <1>2 DEF DaemonOK
  <2>2. nextId \in Nat /\ nextId <= nextId
    BY <1>t
  <2>3. Later
    BY <1>2, <2>2 DEF Later
  <2>4. \A j \in queue' : j < nextId'
    BY <1>2 DEF QueueOK
  <2>5. queue' # {} => alive'
    BY <1>2 DEF QueueOK
  <2>6. \A j \in queue' : status'[j] = "ERROR" => j \in failed'
    BY <1>2 DEF QueueOK
  <2> QED
    BY <2>1, <2>3, <2>4, <2>5, <2>6 DEF QueueOK
<1>3. CASE /\ UNCHANGED nextId /\ failed \subseteq failed' /\ alive' = FALSE
           /\ status' = [j \in Id |-> "absent"]
  <2>1. queue' = {}
    BY <1>3 DEF queue
  <2>2. DaemonOK'
    BY <1>t, <1>3 DEF DaemonOK
  <2> QED
    BY <1>t, <1>3, <2>1, <2>2 DEF QueueOK, Later
<1>4. ASSUME NEW j \in queue, NEW st \in Statuses \cup {"absent"},
             status' = [status EXCEPT ![j] = st], UNCHANGED <<alive, nextId>>,
             failed \subseteq failed',
             st = "ERROR" => status[j] = "ERROR" \/ j \in failed'
      PROVE  Changes
  <2>1. status' \in [Id -> Statuses \cup {"absent"}]
    BY <1>t, <1>4
  <2>2. ASSUME NEW k \in queue'
        PROVE  /\ k \in queue
               /\ status'[k] = "ERROR" => status[k] = "ERROR" \/ k \in failed'
    BY <1>t, <1>4, <2>2 DEF queue
  <2> QED
    BY <1>4, <2>1, <2>2
<1>5. CASE Others
  <2>1. /\ alive /\ Moves
        /\ failed' = failed \cup {j \in Id : status'[j] = "ERROR"}
    BY <1>5 DEF Others
  <2>2. CASE nextId < MaxJobs /\ AddJob /\ UNCHANGED alive
    <3>1. status' = [status EXCEPT ![nextId] = "PENDING"]
      BY <2>2 DEF AddJob
    <3>2. \A j \in Id :
            status'[j] = "ERROR" => j \in queue /\ status[j] = "ERROR"
      BY <1>t, <3>1 DEF queue
    <3>3. failed' = failed
      BY <2>1, <3>2 DEF QueueOK
    <3> QED
      BY <1>1, <2>1, <2>2, <3>3
  <2>3. CASE /\ \E j \in queue :
                  \E st \in Follows(status[j]) \cup {"absent"} :
                    status' = [status EXCEPT ![j] = st]
             /\ UNCHANGED <<alive, nextId>>
    <3>0. PICK j \in queue : \E st \in Follows(status[j]) \cup {"absent"} :
            status' = [status EXCEPT ![j] = st]
      BY <2>3
    <3>1. PICK st \in Follows(status[j]) \cup {"absent"} :
            status' = [status EXCEPT ![j] = st]
      BY <3>0
    <3>2. st \in Statuses \cup {"absent"}
      BY DEF Follows, Statuses
    <3>3. j \in Id /\ status'[j] = st
      BY <1>t, <3>1 DEF queue
    <3> QED
      BY <1>2, <1>4, <2>1, <2>3, <3>1, <3>2, <3>3
  <2>4. CASE /\ alive' = FALSE /\ status' = [j \in Id |-> "absent"]
             /\ UNCHANGED nextId
    BY <1>3, <2>1, <2>4
  <2> QED
    BY <2>1, <2>2, <2>3, <2>4 DEF Moves
<1>6. CASE UNCHANGED <<alive, nextId, failed, status>>
  <2>1. Changes
    BY <1>t, <1>6 DEF queue
  <2> QED
    BY <1>2, <2>1
<1>7. ASSUME NEW p \in Proc, Execute(p) PROVE QueueOK' /\ Later
  <2> DEFINE j == Head(app[p].mItems)
  <2>0. UNCHANGED <<alive, active, failed>>
    BY <1>7 DEF Execute
  <2>1. CASE UNCHANGED <<status, nextId>>
    BY <1>6, <2>0, <2>1
  <2>2. CASE Reaches(p) /\ Add
    BY <1>1, <2>0, <2>1, <2>2 DEF Add, Reaches
  <2>3. CASE /\ Present(j) /\ UNCHANGED nextId
             /\ \E o \in {"Remove", "Pause", "Resume"} :
                  \E st \in After(o, status[j]) :
                    status' = [status EXCEPT ![j] = st]
    <3>0. PICK o \in {"Remove", "Pause", "Resume"} :
            \E st \in After(o, status[j]) : status' = [status EXCEPT ![j] = st]
      BY <2>3
    <3>1. PICK st \in After(o, status[j]) : status' = [status EXCEPT ![j] = st]
      BY <3>0
    <3>2. j \in queue /\ j \in Id /\ status[j] \in Statuses
      BY <1>t, <2>3 DEF Present, Answered, queue
    <3>3. /\ st \in Statuses \cup {"absent"}
          /\ st = "ERROR" => status[j] = "ERROR"
      BY <3>2 DEF After, Statuses
    <3> HIDE DEF j
    <3> QED
      BY <1>2, <1>4, <2>0, <2>3, <3>1, <3>2, <3>3
  <2> QED
    BY <1>7, <2>1, <2>2, <2>3 DEF Execute, RemoveJob, PauseOrResume
<1>8. ASSUME NEW p \in Proc, ExecuteOnQueue(p) PROVE QueueOK' /\ Later
  <2>0. UNCHANGED <<alive, nextId, failed>>
    BY <1>8 DEF ExecuteOnQueue
  <2>1. CASE UNCHANGED status
    BY <1>6, <2>0, <2>1
  <2>2. CASE ClearQueue
    <3>1. Changes
      BY <1>t, <2>0, <2>2 DEF ClearQueue, queue
    <3> QED
      BY <1>2, <3>1
  <2>3. ASSUME NEW S \in SUBSET Id, NEW to \in {"RUNNING", "PAUSED"},
               \A j \in S : status[j] # "absent",
               status' = [j \in Id |-> IF j \in S THEN to ELSE status[j]]
        PROVE  QueueOK' /\ Later
    <3>1. status' \in [Id -> Statuses \cup {"absent"}]
      BY <1>t, <2>3 DEF Statuses
    <3>2. Changes
      BY <1>t, <2>0, <2>3, <3>1 DEF queue
    <3> QED
      BY <1>2, <3>2
  <2>4. ASSUME NEW a \in BOOLEAN, SetActive(a) PROVE QueueOK' /\ Later
    BY <2>1, <2>3, <2>4 DEF SetActive
  <2> QED
    BY <1>8, <2>1, <2>2, <2>4 DEF ExecuteOnQueue
<1> QED
  BY <1>5, <1>6, <1>7, <1>8
     DEF LineNext, Run, HandleCmd, RunGui, Connect, ListIds,
         ValidateIds, Done, GetName,
         RowStatus, GetNumProcessors, PrintTable, lineVars, daemon

(* A process that has listed nothing.                                      *)
LEMMA FreshIsListing ==
  ASSUME NEW a, a.rows = <<>>, a.ids = <<>>, a.pc \notin Mid
  PROVE  Listing(a)
  BY DEF Listing, Mid

(* A step that is not one of a listing's requests leaves it as it is.      *)
LEMMA ProcessKeeps ==
  ASSUME NEW a, NEW b, Listing(a), a.pc \notin Mid, b.pc \notin Mid,
         b.rows = a.rows, b.ids = a.ids
  PROVE  Listing(b)
  BY DEF Listing, Mid

(* A process that has ended, or goes on as the GUI.                        *)
LEMMA EndedIsFresh ==
  ASSUME NEW a
  PROVE  /\ Ended(a).rows = <<>> /\ Ended(a).ids = <<>>
         /\ Ended(a).pc \notin Mid
         /\ IsProcess(Ended(a)) /\ Listing(Ended(a))
<1>1. /\ Ended(a).rows = <<>> /\ Ended(a).ids = <<>>
      /\ Ended(a).pc \notin Mid
      /\ IsProcess(Ended(a))
  BY DEF Ended, Fresh, IsProcess, Fields, Mid
<1> QED
  BY <1>1, FreshIsListing

(* GetJobIds: the ids of the answer were given out.                        *)
LEMMA ListIdsKeeps ==
  ASSUME ListInv, NEW p \in Proc, ListIds(p)
  PROVE  \E b : Becomes(p, b) /\ IsProcess(b) /\ Listing(b)
<1> DEFINE a == app[p]
<1>1. PICK answer \in IdsAnswers :
        Becomes(p, [a EXCEPT !.ids = answer,
                      !.pc = IF answer = <<>> THEN "print" ELSE "name"])
  BY DEF ListIds
<1> DEFINE b == [a EXCEPT !.ids = answer,
                   !.pc = IF answer = <<>> THEN "print" ELSE "name"]
<1>2. IsProcess(a) /\ Listing(a) /\ QueueOK /\ a.pc = "ids"
  BY DEF ListInv, ListIds
<1>3. answer \in Seq(Nat) /\ \A k \in DOMAIN answer : answer[k] < nextId
  <2>1. CASE ~alive
    BY <2>1 DEF IdsAnswers
  <2>2. CASE alive
    <3>1. queue \subseteq 0 .. MaxJobs - 1 /\ IsFiniteSet(0 .. MaxJobs - 1)
      BY MaxJobsAssumption, FS_Interval DEF queue, Id
    <3>2. Cardinality(queue) \in Nat
      BY <3>1, FS_Subset, FS_CardinalityType
    <3>4. \A j \in queue : j \in Nat /\ j < nextId
      BY <1>2, <3>1 DEF QueueOK
    <3>3. answer \in [1 .. Cardinality(queue) -> queue]
      BY <2>2 DEF IdsAnswers, InOrder
    <3> QED
      BY <3>2, <3>3, <3>4
  <2> QED
    BY <2>1, <2>2
<1>4. /\ b.rows = a.rows /\ b.ids = answer
      /\ b.pc = (IF answer = <<>> THEN "print" ELSE "name")
      /\ IsProcess(b)
  BY <1>2 DEF IsProcess, Fields
<1>5. Listing(b)
  BY <1>2, <1>3, <1>4 DEF Listing, Mid
<1> QED
  BY <1>1, <1>4, <1>5

(* GetJobName: the new row has its name if the daemon still has the job.   *)
LEMMA GetNameKeeps ==
  ASSUME ListInv, NEW p \in Proc, GetName(p)
  PROVE  \E b : Becomes(p, b) /\ IsProcess(b) /\ Listing(b)
<1> DEFINE a == app[p]
           j == Head(a.ids)
           r == [id |-> j, name |-> HasName(j), status |-> "ERROR",
                 procs |-> FALSE]
           b == [a EXCEPT !.pc = "status", !.rows = Append(@, r)]
<1>1. Becomes(p, b)
  BY DEF GetName
<1>2. IsProcess(a) /\ Listing(a) /\ QueueOK /\ a.pc = "name"
  BY DEF ListInv, GetName
<1>3. /\ a.ids \in Seq(Nat) /\ a.ids # <<>> /\ a.rows \in Seq(Row)
      /\ \A k \in DOMAIN a.ids : a.ids[k] < nextId
      /\ \A k \in DOMAIN a.rows : a.rows[k].id < nextId /\ IsTrue(a.rows[k])
  BY <1>2 DEF Listing, Mid
<1>4. j \in Nat /\ j < nextId
  BY <1>3
<1>5. r \in Row /\ r.id = j /\ Named(r)
  <2>1. r.id = j /\ r.name = HasName(j) /\ r.procs = FALSE
    OBVIOUS
  <2>2. HasName(j) \in BOOLEAN /\ (j \in queue => HasName(j))
    BY <1>2 DEF HasName, Answered, QueueOK, DaemonOK
  <2>3. r \in Row
    BY <1>4, <2>2 DEF Row, Statuses
  <2> QED
    BY <2>1, <2>2, <2>3 DEF Named
<1> HIDE DEF r
<1>6. b.rows = Append(a.rows, r) /\ b.ids = a.ids /\ b.pc = "status" /\ IsProcess(b)
  BY <1>2 DEF IsProcess, Fields
<1> HIDE DEF b, a, j
<1>7. /\ b.rows \in Seq(Row) /\ Len(b.rows) = Len(a.rows) + 1 /\ Len(a.rows) \in Nat
      /\ DOMAIN b.rows = 1 .. Len(a.rows) + 1 /\ DOMAIN a.rows = 1 .. Len(a.rows)
      /\ b.rows[Len(a.rows) + 1] = r
      /\ \A k \in 1 .. Len(a.rows) : b.rows[k] = a.rows[k]
      /\ b.rows # <<>>
  <2> DEFINE s == a.rows
             u == Append(s, r)
  <2>1. s \in Seq(Row) /\ r \in Row
    BY <1>3, <1>5
  <2> HIDE DEF s
  <2>2. u \in Seq(Row) /\ Len(u) = Len(s) + 1 /\ Len(s) \in Nat
    BY <2>1
  <2>3. u[Len(s) + 1] = r /\ \A k \in 1 .. Len(s) : u[k] = s[k]
    BY <2>1
  <2>4. DOMAIN u = 1 .. Len(s) + 1 /\ DOMAIN s = 1 .. Len(s) /\ u # <<>>
    BY <2>1, <2>2
  <2>5. b.rows = u
    BY <1>6 DEF s
  <2> HIDE DEF u
  <2> QED
    BY <2>2, <2>3, <2>4, <2>5 DEF s
<1>8. \A k \in 1 .. Len(a.rows) + 1 : k \in 1 .. Len(a.rows) \/ k = Len(a.rows) + 1
  BY <1>7
<1>9. \A k \in DOMAIN b.rows : b.rows[k].id < nextId
  BY <1>3, <1>4, <1>5, <1>7, <1>8
<1>10. Len(b.rows) - 1 = Len(a.rows)
  BY <1>7
<1>11. b.rows[Len(b.rows)] = r /\ r.id = Head(b.ids)
  BY <1>5, <1>6, <1>7 DEF j
<1>12. Listing(b)
  BY <1>3, <1>5, <1>6, <1>7, <1>9, <1>10, <1>11 DEF Listing
<1> QED
  BY <1>1, <1>6, <1>12

(* Replacing the last row by one of the same job: the answer to a request  *)
(* is written there.                                                       *)
LEMMA LastRowSet ==
  ASSUME NEW s \in Seq(Row), s # <<>>, \A k \in DOMAIN s : s[k].id < nextId,
         \A k \in 1 .. Len(s) - 1 : IsTrue(s[k]),
         NEW r \in Row, r.id = s[Len(s)].id,
         NEW u, u = [s EXCEPT ![Len(s)] = r]
  PROVE  /\ u \in Seq(Row) /\ Len(u) = Len(s) /\ Len(s) \in Nat \ {0}
         /\ DOMAIN u = 1 .. Len(s)
         /\ u[Len(s)] = r /\ u # <<>>
         /\ \A k \in DOMAIN u : u[k].id < nextId
         /\ \A k \in 1 .. Len(s) - 1 : IsTrue(u[k])
<1>1. Len(s) \in Nat \ {0} /\ DOMAIN s = 1 .. Len(s)
  OBVIOUS
<1>2. u \in Seq(Row) /\ DOMAIN u = DOMAIN s /\ Len(u) = Len(s)
  OBVIOUS
<1>3. \A k \in DOMAIN s : u[k] = IF k = Len(s) THEN r ELSE s[k]
  OBVIOUS
<1>4. /\ Len(s) \in DOMAIN s
      /\ \A k \in 1 .. Len(s) - 1 : k \in DOMAIN s /\ k # Len(s)
  <2> DEFINE n == Len(s)
  <2>1. n \in Nat \ {0}
    BY <1>1
  <2> HIDE DEF n
  <2>2. n \in 1 .. n /\ \A k \in 1 .. n - 1 : k \in 1 .. n /\ k # n
    BY ONLY <2>1
  <2> QED
    BY <1>1, <2>2 DEF n
<1>5. u # <<>>
  BY <1>1, <1>2
<1>6. \A k \in DOMAIN u : u[k].id < nextId
  BY <1>2, <1>3
<1>7. \A k \in 1 .. Len(s) - 1 : IsTrue(u[k])
  BY <1>3, <1>4
<1> QED
  BY <1>1, <1>2, <1>3, <1>4, <1>5, <1>6, <1>7

(* GetJobStatus: if the job is still there, its row has its name, and says *)
(* ERROR only if the job has failed.                                       *)
LEMMA RowStatusKeeps ==
  ASSUME ListInv, NEW p \in Proc, RowStatus(p)
  PROVE  \E b : Becomes(p, b) /\ IsProcess(b) /\ Listing(b)
<1> DEFINE a == app[p]
           n == Len(a.rows)
           st == GetStatus(Head(a.ids))
           r == [a.rows[n] EXCEPT !.status = st]
           b == [a EXCEPT !.pc = "procs", !.rows = [a.rows EXCEPT ![n] = r]]
<1>1. Becomes(p, b)
  BY DEF RowStatus, LastRow
<1>2. IsProcess(a) /\ Listing(a) /\ QueueOK /\ a.pc = "status"
  BY DEF ListInv, RowStatus
<1>3. /\ b.rows = [a.rows EXCEPT ![n] = r] /\ b.ids = a.ids
      /\ b.pc = "procs" /\ IsProcess(b)
  BY <1>2 DEF IsProcess, Fields
<1>4. a.rows[n].id = Head(a.ids) /\ Named(a.rows[n]) /\ a.rows[n] \in Row
  <2>1. a.rows # <<>> /\ a.rows \in Seq(Row)
    BY <1>2 DEF Listing
  <2>2. n \in 1 .. Len(a.rows)
    BY <2>1
  <2> QED
    BY <1>2, <2>1, <2>2, ElementOfSeq DEF Listing
<1>5. st \in Statuses /\ (a.rows[n].id \in queue => st = status[a.rows[n].id])
  <2>1. \A j \in queue : status[j] \in Statuses
    BY <1>2 DEF QueueOK, DaemonOK, queue
  <2> QED
    BY <1>2, <1>4, <2>1 DEF GetStatus, Answered, QueueOK, Statuses
<1>6. /\ r \in Row /\ r.id = a.rows[n].id /\ r.status = st
      /\ r.name = a.rows[n].name /\ r.procs = a.rows[n].procs
  BY <1>4, <1>5 DEF Row
<1>7. Told(r)
  BY <1>2, <1>4, <1>5, <1>6 DEF Told, Named, QueueOK
<1> HIDE DEF b, a, r, st
<1>8. /\ b.rows \in Seq(Row) /\ Len(b.rows) = n /\ n \in Nat \ {0}
      /\ DOMAIN b.rows = 1 .. n
      /\ b.rows[n] = r /\ b.rows # <<>>
      /\ \A k \in DOMAIN b.rows : b.rows[k].id < nextId
      /\ \A k \in 1 .. n - 1 : IsTrue(b.rows[k])
  <2> DEFINE s == a.rows
             u == b.rows
  <2>1. /\ s \in Seq(Row) /\ s # <<>> /\ \A k \in DOMAIN s : s[k].id < nextId
        /\ \A k \in 1 .. Len(s) - 1 : IsTrue(s[k])
    BY <1>2 DEF Listing
  <2>2. r \in Row /\ r.id = s[Len(s)].id /\ u = [s EXCEPT ![Len(s)] = r]
    BY <1>3, <1>6
  <2> HIDE DEF s, u, n
  <2>3. /\ u \in Seq(Row) /\ Len(u) = Len(s) /\ Len(s) \in Nat \ {0}
        /\ DOMAIN u = 1 .. Len(s)
        /\ u[Len(s)] = r /\ u # <<>>
        /\ \A k \in DOMAIN u : u[k].id < nextId
        /\ \A k \in 1 .. Len(s) - 1 : IsTrue(u[k])
    BY <2>1, <2>2, LastRowSet
  <2> QED
    BY <2>3 DEF n, s, u
<1>9. Listing(b)
  BY <1>2, <1>3, <1>4, <1>6, <1>7, <1>8 DEF Listing, Mid
<1> QED
  BY <1>1, <1>3, <1>9

(* GetJobNumProcessors: the row is done.  It shows processors only if the  *)
(* job is there, and then what it showed before is true.                   *)
LEMMA GetNumProcessorsKeeps ==
  ASSUME ListInv, NEW p \in Proc, GetNumProcessors(p)
  PROVE  \E b : Becomes(p, b) /\ IsProcess(b) /\ Listing(b)
<1> DEFINE a == app[p]
           n == Len(a.rows)
           has == HasProcs(Head(a.ids))
           r == [a.rows[n] EXCEPT !.procs = has]
           b == [a EXCEPT !.ids = Tail(@),
                   !.pc = IF Len(a.ids) = 1 THEN "print" ELSE "name",
                   !.rows = [a.rows EXCEPT ![n] = r]]
<1>1. Becomes(p, b)
  BY DEF GetNumProcessors, LastRow
<1>2. IsProcess(a) /\ Listing(a) /\ QueueOK /\ a.pc = "procs"
  BY DEF ListInv, GetNumProcessors
<1>3. /\ b.rows = [a.rows EXCEPT ![n] = r] /\ b.ids = Tail(a.ids)
      /\ b.pc = (IF Len(a.ids) = 1 THEN "print" ELSE "name") /\ IsProcess(b)
  BY <1>2 DEF IsProcess, Fields
<1>4. a.rows[n].id = Head(a.ids) /\ Told(a.rows[n]) /\ a.rows[n] \in Row
  <2>1. a.rows # <<>> /\ a.rows \in Seq(Row)
    BY <1>2 DEF Listing
  <2>2. n \in 1 .. Len(a.rows)
    BY <2>1
  <2> QED
    BY <1>2, <2>1, <2>2, ElementOfSeq DEF Listing
<1>5. has \in BOOLEAN /\ (has <=> a.rows[n].id \in queue)
  BY <1>2, <1>4 DEF HasProcs, Answered, QueueOK, DaemonOK
<1>6. /\ r \in Row /\ r.id = a.rows[n].id /\ r.status = a.rows[n].status
      /\ r.name = a.rows[n].name /\ r.procs = has
  BY <1>4, <1>5 DEF Row
<1>7. IsTrue(r)
  BY <1>4, <1>5, <1>6 DEF Told, Named, IsTrue
<1> HIDE DEF b, a, r, has
<1>8. /\ b.rows \in Seq(Row) /\ Len(b.rows) = n /\ n \in Nat \ {0}
      /\ DOMAIN b.rows = 1 .. n
      /\ b.rows[n] = r /\ b.rows # <<>>
      /\ \A k \in DOMAIN b.rows : b.rows[k].id < nextId
      /\ \A k \in 1 .. n - 1 : IsTrue(b.rows[k])
  <2> DEFINE s == a.rows
             u == b.rows
  <2>1. /\ s \in Seq(Row) /\ s # <<>> /\ \A k \in DOMAIN s : s[k].id < nextId
        /\ \A k \in 1 .. Len(s) - 1 : IsTrue(s[k])
    BY <1>2 DEF Listing
  <2>2. r \in Row /\ r.id = s[Len(s)].id /\ u = [s EXCEPT ![Len(s)] = r]
    BY <1>3, <1>6
  <2> HIDE DEF s, u, n
  <2>3. /\ u \in Seq(Row) /\ Len(u) = Len(s) /\ Len(s) \in Nat \ {0}
        /\ DOMAIN u = 1 .. Len(s)
        /\ u[Len(s)] = r /\ u # <<>>
        /\ \A k \in DOMAIN u : u[k].id < nextId
        /\ \A k \in 1 .. Len(s) - 1 : IsTrue(u[k])
    BY <2>1, <2>2, LastRowSet
  <2> QED
    BY <2>3 DEF n, s, u
<1>9. \A k \in DOMAIN b.rows : IsTrue(b.rows[k])
  <2>1. \A k \in 1 .. n : k \in 1 .. n - 1 \/ k = n
    BY <1>8
  <2> QED
    BY <1>7, <1>8, <2>1
<1>10. /\ b.ids \in Seq(Nat) /\ \A k \in DOMAIN b.ids : b.ids[k] < nextId
       /\ Len(a.ids) # 1 => b.ids # <<>>
  <2>1. /\ a.ids \in Seq(Nat) /\ a.ids # <<>>
        /\ \A k \in DOMAIN a.ids : a.ids[k] < nextId
    BY <1>2 DEF Listing, Mid
  <2>2. /\ Tail(a.ids) \in Seq(Nat) /\ Len(Tail(a.ids)) = Len(a.ids) - 1
        /\ \A k \in 1 .. Len(a.ids) - 1 : Tail(a.ids)[k] = a.ids[k + 1]
        /\ Len(a.ids) \in Nat \ {0}
    BY <2>1
  <2>3. \A k \in 1 .. Len(a.ids) - 1 : k + 1 \in DOMAIN a.ids
    BY <2>1, <2>2
  <2>4. DOMAIN Tail(a.ids) = 1 .. Len(a.ids) - 1
    BY <2>2
  <2>5. Len(a.ids) # 1 => Tail(a.ids) # <<>>
    <3>1. Len(a.ids) # 1 => Len(Tail(a.ids)) # 0
      BY <2>2
    <3>2. Len(<<>>) = 0
      OBVIOUS
    <3> QED
      BY <3>1, <3>2
  <2> QED
    BY <1>3, <2>1, <2>2, <2>3, <2>4, <2>5
<1>11. Listing(b)
  BY <1>3, <1>8, <1>9, <1>10 DEF Listing, Mid
<1> QED
  BY <1>1, <1>3, <1>11

(* Every step of a process leaves it well.                                 *)
LEMMA RunKeeps ==
  ASSUME ListInv, NEW p \in Proc, Run(p)
  PROVE  \E b : Becomes(p, b) /\ IsProcess(b) /\ Listing(b)
<1> DEFINE a == app[p]
<1>1. IsProcess(a) /\ Listing(a)
  BY DEF ListInv
<1>2. ASSUME NEW b, Becomes(p, b), IsProcess(b), b.rows = a.rows, b.ids = a.ids,
             a.pc \notin Mid, b.pc \notin Mid
      PROVE  \E c : Becomes(p, c) /\ IsProcess(c) /\ Listing(c)
  BY <1>1, <1>2, ProcessKeeps
<1>3. ASSUME NEW b, Becomes(p, Ended(b))
      PROVE  \E c : Becomes(p, c) /\ IsProcess(c) /\ Listing(c)
  BY <1>3, EndedIsFresh
<1>4. CASE HandleCmd(p)
  <2>1. PICK line \in Lines[p] :
          LET c == [Fresh EXCEPT
                   !.pc = "parsed", !.mCommand = line.cmd,
                   !.mItems = Items(line),
                   !.mGui = (line.gui \/ line.cmd = "none") /\ RetVal(line) = 0]
          IN  Becomes(p, IF line.help THEN Ended(Fresh) ELSE c)
    BY <1>4 DEF HandleCmd
  <2> DEFINE c == [Fresh EXCEPT
                   !.pc = "parsed", !.mCommand = line.cmd,
                   !.mItems = Items(line),
                   !.mGui = (line.gui \/ line.cmd = "none") /\ RetVal(line) = 0]
  <2>2. c.rows = <<>> /\ c.ids = <<>> /\ c.pc = "parsed" /\ IsProcess(c)
    BY DEF Fresh, IsProcess, Fields
  <2>3. Becomes(p, Ended(Fresh)) \/ Becomes(p, c)
    BY <2>1
  <2> HIDE DEF c
  <2>4. Listing(c)
    BY <2>2, FreshIsListing DEF Mid
  <2> QED
    BY <1>3, <2>2, <2>3, <2>4
<1>5. CASE Connect(p)
  <2>1. PICK c \in {FALSE, alive} :
          LET b == [app[p] EXCEPT !.connected = c,
                   !.pc = IF app[p].mCommand \in OnJobs \cup {"list"}
                          THEN "ids" ELSE "act"]
          IN  Becomes(p, IF app[p].mCommand = "list" /\ ~c
                            THEN Ended(b) ELSE b)
    BY <1>5 DEF Connect
  <2> DEFINE b == [app[p] EXCEPT !.connected = c,
                   !.pc = IF app[p].mCommand \in OnJobs \cup {"list"}
                          THEN "ids" ELSE "act"]
  <2>2. b.rows = a.rows /\ b.ids = a.ids /\ b.pc \in {"ids", "act"} /\ IsProcess(b)
    BY <1>1 DEF IsProcess, Fields
  <2>3. Becomes(p, Ended(b)) \/ Becomes(p, b)
    BY <2>1
  <2>4. a.pc = "parsed"
    BY <1>5 DEF Connect
  <2> HIDE DEF b, a
  <2> QED
    BY <1>2, <1>3, <2>2, <2>3, <2>4 DEF Mid
<1>6. CASE ValidateIds(p)
  <2> DEFINE Valid(id) == id \in ToSet(a.mItems)
             b == [a EXCEPT !.mItems = SelectSeq(a.mItems, Valid), !.pc = "act"]
  <2>1. Becomes(p, b) /\ a.pc = "ids"
    BY <1>6 DEF ValidateIds
  <2>2. b.rows = a.rows /\ b.ids = a.ids /\ b.pc = "act" /\ IsProcess(b)
    BY <1>1 DEF IsProcess, Fields
  <2> HIDE DEF b, a
  <2> QED
    BY <1>2, <2>1, <2>2 DEF Mid
<1>7. CASE Execute(p)
  <2> DEFINE b == [a EXCEPT !.mItems = Tail(@)]
  <2>1. Becomes(p, b) /\ a.pc = "act"
    BY <1>7 DEF Execute
  <2>2. b.rows = a.rows /\ b.ids = a.ids /\ b.pc = a.pc /\ IsProcess(b)
    BY <1>1 DEF IsProcess, Fields
  <2> HIDE DEF b, a
  <2> QED
    BY <1>2, <2>1, <2>2 DEF Mid
<1>8. CASE RunGui(p) \/ ExecuteOnQueue(p) \/ Done(p) \/ PrintTable(p)
  BY <1>3, <1>8 DEF RunGui, ExecuteOnQueue, Done, PrintTable
<1> QED
  BY <1>4, <1>5, <1>6, <1>7, <1>8, ListIdsKeeps, GetNameKeeps, RowStatusKeeps,
     GetNumProcessorsKeeps DEF Run

(* The invariant is inductive.                                             *)
LEMMA ListInvStep == ListInv /\ [LineNext]_lineVars => ListInv'
<1> SUFFICES ASSUME ListInv, [LineNext]_lineVars PROVE ListInv'
  OBVIOUS
<1>1. QueueOK' /\ Later
  BY QueueStep DEF ListInv
<1>2. CASE UNCHANGED app
  <2>1. ASSUME NEW p \in Proc PROVE Listing(app[p])'
    <3>1. PICK a : a = app[p]
      OBVIOUS
    <3>2. Listing(a)'
      BY <1>1, <3>1, ListingStays DEF ListInv
    <3>3. a = app'[p]
      BY <1>2, <3>1
    <3> QED
      BY <3>2, <3>3
  <2> QED
    BY <1>1, <1>2, <2>1 DEF ListInv, IsProcess
<1>3. ASSUME NEW p \in Proc, Run(p) PROVE ListInv'
  <2>1. PICK b : Becomes(p, b) /\ IsProcess(b) /\ Listing(b)
    BY <1>3, RunKeeps
  <2>2. app' = [app EXCEPT ![p] = b] /\ app = [q \in Proc |-> app[q]]
    BY <2>1 DEF Becomes, ListInv
  <2>3. app' = [q \in Proc |-> app'[q]]
    BY <2>2
  <2>4. ASSUME NEW q \in Proc PROVE IsProcess(app'[q]) /\ Listing(app[q])'
    <3>1. PICK a : a = app'[q]
      OBVIOUS
    <3>2. IsProcess(a) /\ Listing(a)
      BY <2>1, <2>2, <3>1 DEF ListInv
    <3>3. Listing(a)'
      BY <1>1, <3>2, ListingStays
    <3> QED
      BY <3>1, <3>2, <3>3
  <2> QED
    BY <1>1, <2>3, <2>4 DEF ListInv, IsProcess
<1> QED
  BY <1>2, <1>3 DEF LineNext, Others, lineVars

(* The pause of the queue, and the record of the jobs that failed.         *)
Typed == active \in BOOLEAN /\ failed \subseteq Id

(* No step takes them out of their types.                                  *)
LEMMA TypedStep == Typed /\ [LineNext]_lineVars => Typed'
<1> SUFFICES ASSUME Typed, [LineNext]_lineVars PROVE Typed'
  OBVIOUS
<1>1. CASE Others
  BY <1>1 DEF Others, Id, Typed
<1>2. CASE \E p \in Proc : ExecuteOnQueue(p)
  BY <1>2 DEF ExecuteOnQueue, SetActive, Id, Typed
<1>3. CASE UNCHANGED <<active, failed>>
  BY <1>3 DEF Id, Typed
<1> QED
  BY <1>1, <1>2, <1>3
     DEF LineNext, Run, HandleCmd, RunGui, Connect, ListIds,
         ValidateIds, Execute, Done, GetName, RowStatus,
         GetNumProcessors, PrintTable, lineVars

(* The invariant holds from the start: nothing is listed, and the queue is *)
(* empty.                                                                  *)
LEMMA ListInvInit == LineInit => ListInv /\ Typed
<1> SUFFICES ASSUME LineInit PROVE ListInv /\ Typed
  OBVIOUS
<1>1. QueueOK /\ Typed
  BY MaxJobsAssumption
     DEF LineInit, DaemonInit, QueueOK, DaemonOK, queue, Typed
<1>2. /\ IsProcess(Fresh) /\ Fresh.rows = <<>> /\ Fresh.ids = <<>>
      /\ Fresh.pc = "start"
  BY DEF Fresh, IsProcess, Fields
<1>3. Listing(Fresh)
  BY <1>2, FreshIsListing DEF Mid
<1> QED
  BY <1>1, <1>2, <1>3 DEF LineInit, ListInv

(* Type correctness: a process only ever asks about ids that the daemon    *)
(* gave out.                                                               *)
THEOREM CommandLineTypeOK == LineSpec => []LineTypeOK
<1>1. ListInv /\ Typed => LineTypeOK
  <2> SUFFICES ASSUME ListInv, Typed PROVE LineTypeOK
    OBVIOUS
  <2>1. DaemonOK /\ nextId \in 0 .. MaxJobs
    BY DEF ListInv, QueueOK, DaemonOK
  <2>2. ASSUME NEW p \in Proc PROVE ToSet(app[p].ids) \subseteq Id
    <3>1. /\ app[p].ids \in Seq(Nat)
          /\ \A k \in DOMAIN app[p].ids : app[p].ids[k] < nextId
      BY DEF ListInv, Listing
    <3>2. \A k \in DOMAIN app[p].ids : app[p].ids[k] \in Nat
      BY <3>1
    <3> QED
      BY MaxJobsAssumption, <2>1, <3>1, <3>2 DEF ToSet, Id
  <2> QED
    BY <2>1, <2>2 DEF LineTypeOK, Typed
<1> QED
  BY <1>1, ListInvInit, ListInvStep, TypedStep, PTL DEF LineSpec

(* ListJobs of gamessq.cpp: a row that is printed with its number of       *)
(* processors is true of the job, and a job that is still there is printed *)
(* with all it has, whatever the daemon, the GUI and the other processes   *)
(* do between the requests, for any number of jobs and processes.          *)
THEOREM ListIsTrueHolds == LineSpec => []ListIsTrue
<1>1. ListInv => ListIsTrue
  BY DEF ListInv, Listing, IsTrue, ListIsTrue
<1> QED
  BY <1>1, ListInvInit, ListInvStep, PTL DEF LineSpec
=============================================================================
