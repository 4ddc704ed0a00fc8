----------------------------- MODULE ClientFrame -----------------------------
(***************************************************************************)
(* The window of the GUI front end (gamessq_frame.cpp): its copy of the    *)
(* queue, mJobList, the rows of the list control, the buttons, the refresh *)
(* timer and the handlers, over the requests of JobQueueManager.           *)
(*                                                                         *)
(* Every request is a round trip to the daemon, and the queue goes on      *)
(* between two of them: jobs start and end, and other front ends send      *)
(* commands.  The window's own handlers run one at a time, except that the *)
(* timer also fires while a dialog or a label edit is open.                *)
(***************************************************************************)
EXTENDS QueueView

CONSTANTS
  LabelEdits, \* the user may edit the name of a job in its row
  Buttons,    \* the buttons the user may click
  MaxFiles    \* bound: input files added at once

ASSUME LabelEditsAssumption == LabelEdits \in BOOLEAN
ASSUME FilesAssumption == MaxFiles \in Nat

Ops == {"Cancel", "Pause", "Resume", "Remove", "Clear", "Add", "Refresh"}
ASSUME ButtonsAssumption == Buttons \subseteq Ops

VARIABLES
  mJobList,    \* the window's copy
  jobListCtrl, \* the ids of the rows
  selected,    \* the ids of the selected rows
  mActive, mConnected,
  timer,       \* the one-shot refresh timer is set
  modal,       \* what is open above the window
  pc, op,      \* the handler that is running
  todo,        \* the selected rows it has not come to
  ids, node, i \* RefreshList's answer to GetJobIds, and where it is

copy == <<mJobList, jobListCtrl, selected>>
refresh == <<ids, node, i>>
vars == <<daemon, copy, mActive, mConnected, timer, modal, pc, op, todo, refresh>>

TypeOK ==
  /\ DaemonOK
  /\ mJobList \in Seq([id : Id, status : Statuses])
  /\ jobListCtrl \in Seq(Id) /\ selected \subseteq ToSet(jobListCtrl)
  /\ mActive \in BOOLEAN /\ mConnected \in BOOLEAN /\ timer \in BOOLEAN
  /\ modal \in {"none", "saveas", "edit", "add"}
  /\ pc \in {"idle", "act", "ids", "walk"}
  /\ op \in Ops
  /\ todo \in Seq(IF op = "Add" THEN {1} ELSE 1 .. MaxJobs)
  /\ ids \in Seq(Id) /\ node \in 1 .. MaxJobs + 1 /\ i \in 1 .. MaxJobs + 1

(* The constructor has run its first RefreshList on an empty queue.        *)
Init ==
  /\ DaemonInit
  /\ mJobList = <<>> /\ jobListCtrl = <<>> /\ selected = {}
  /\ mActive = TRUE /\ mConnected = TRUE /\ timer = TRUE
  /\ modal = "none" /\ pc = "idle" /\ op = "Refresh"
  /\ todo = <<>> /\ ids = <<>> /\ node = 1 /\ i = 1

-----------------------------------------------------------------------------
(* The daemon goes on, and other front ends send it commands.              *)
Elsewhere ==
  /\ alive /\ Moves
  /\ UNCHANGED <<copy, mActive, mConnected, timer, modal, pc, op, todo, refresh>>

-----------------------------------------------------------------------------
(* The buttons: what makes sense for a job, by the status the copy shows.  *)

Can(o, st) ==
  CASE o = "Cancel" -> st \in {"PENDING", "RUNNING", "PAUSED"}
    [] o = "Pause" -> st \in {"RUNNING", "PENDING"}
    [] o = "Resume" -> st = "PAUSED"
    [] OTHER -> TRUE

Rows == {k \in DOMAIN mJobList : mJobList[k].id \in selected}
CanSaveAs ==
  Cardinality(selected) = 1 /\ \A k \in Rows : mJobList[k].status = "DONE"

Enabled(o) ==
  /\ mConnected
  /\ o \in {"Cancel", "Pause", "Resume"} =>
       mActive /\ \E k \in Rows : Can(o, mJobList[k].status)
  /\ o = "Remove" => selected # {}

UserFree == pc = "idle" /\ modal = "none"

Select ==
  /\ UserFree
  /\ \E S \in SUBSET ToSet(jobListCtrl) : S # selected /\ selected' = S
  /\ mConnected' = alive                                 \* RefreshButtons
  /\ UNCHANGED <<daemon, mJobList, jobListCtrl, mActive, timer, modal, pc, op,
                 todo, refresh>>

PauseAllClick ==
  /\ UserFree
  /\ mActive' = ~mActive
  /\ mConnected' = alive
  /\ UNCHANGED <<daemon, copy, timer, modal, pc, op, todo, refresh>>

(* A handler greys the buttons, sends its commands, and refreshes.  Before *)
(* files are added, their names and options are asked for.                 *)
Handle(o) ==
  /\ mConnected' = FALSE                                 \* GreyButtons
  /\ op' = o
  /\ modal' = IF o = "Add" THEN "add" ELSE "none"
  /\ todo' \in IF o \in {"Cancel", "Pause", "Resume", "Remove"}
               THEN InOrder(Rows) ELSE {<<>>}
  /\ pc' = "act"
  /\ UNCHANGED <<daemon, copy, mActive, timer, refresh>>

Click(o) == UserFree /\ Enabled(o) /\ Handle(o)

(* Input files are dropped on the window.                                  *)
OnDropFiles == UserFree /\ mConnected /\ Handle("Add")

(* The answer, none if a dialog is cancelled.                              *)
NewJob ==
  /\ modal = "add"
  /\ modal' = "none"
  /\ \E n \in 0 .. MaxFiles : todo' = [k \in 1 .. n |-> 1]
  /\ UNCHANGED <<daemon, copy, mActive, mConnected, timer, pc, op, refresh>>

AddNext ==
  /\ pc = "act" /\ op = "Add" /\ todo # <<>>
  /\ IF alive /\ nextId < MaxJobs THEN AddJob ELSE UNCHANGED <<status, nextId>>
  /\ todo' = Tail(todo)
  /\ UNCHANGED <<alive, copy, mActive, mConnected, timer, modal, pc, op,
                 refresh>>

ActOnRow ==
  /\ pc = "act" /\ op # "Add" /\ todo # <<>>
  /\ LET j == mJobList[Head(todo)] IN
     IF Answered(j.id) /\ Can(op, j.status)
     THEN \E st \in After(op, status[j.id]) :
            status' = [status EXCEPT ![j.id] = st]
     ELSE UNCHANGED status
  /\ todo' = Tail(todo)
  /\ UNCHANGED <<alive, nextId, copy, mActive, mConnected, timer,
                 modal, pc, op, refresh>>

ActOnQueue ==
  /\ pc = "act" /\ modal = "none" /\ todo = <<>>
  /\ IF op = "Clear" /\ alive THEN ClearQueue ELSE UNCHANGED status
  /\ pc' = "ids" /\ op' = "Refresh"
  /\ UNCHANGED <<alive, nextId, copy, mActive, mConnected, timer, modal, todo,
                 refresh>>

-----------------------------------------------------------------------------
(***************************************************************************)
(* RefreshList: GetJobIds; then the copy is walked along the answer, jobs  *)
(* that are gone dropped and the statuses of unfinished ones requested;    *)
(* then new jobs are appended; then the rows are brought in line.          *)
(***************************************************************************)

(* The timer sets off a refresh unless the buttons are grey.  It is a      *)
(* one-shot: only RefreshList sets it again.                               *)
OnTimer ==
  /\ pc = "idle" \/ modal = "add"
  /\ timer
  /\ timer' = FALSE
  /\ IF mConnected THEN pc' = "ids" /\ mConnected' = FALSE
                   ELSE UNCHANGED <<pc, mConnected>>
  /\ UNCHANGED <<daemon, copy, mActive, modal, op, todo, refresh>>

GetJobIds ==
  /\ pc = "ids"
  /\ ids' \in IdsAnswers
  /\ node' = 1 /\ i' = 1
  /\ pc' = "walk"
  /\ UNCHANGED <<daemon, copy, mActive, mConnected, timer, modal, op, todo>>

Matches == node <= Len(mJobList) /\ i <= Len(ids) /\ mJobList[node].id = ids[i]

Update_LiveOnly ==
  /\ pc = "walk" /\ Matches
  /\ mJobList' = IF mJobList[node].status = "RUNNING"
                 THEN [mJobList EXCEPT ![node].status = GetStatus(ids[i])]
                 ELSE mJobList
  /\ node' = node + 1 /\ i' = i + 1
  /\ UNCHANGED <<daemon, jobListCtrl, selected, mActive, mConnected, timer,
                 modal, pc, op, todo, ids>>
Update ==
  /\ pc = "walk" /\ Matches
  /\ mJobList' = IF mJobList[node].status \in Finished THEN mJobList
                 ELSE [mJobList EXCEPT ![node].status = GetStatus(ids[i])]
  /\ node' = node + 1 /\ i' = i + 1
  /\ UNCHANGED <<daemon, jobListCtrl, selected, mActive, mConnected, timer,
                 modal, pc, op, todo, ids>>

Drop_AndAdvance ==
  /\ pc = "walk" /\ node <= Len(mJobList) /\ ~Matches
  /\ mJobList' = RemoveAt(mJobList, node)
  /\ i' = IF i <= Len(ids) THEN i + 1 ELSE i
  /\ UNCHANGED <<daemon, jobListCtrl, selected, mActive, mConnected, timer,
                 modal, pc, op, todo, ids, node>>
Drop ==
  /\ pc = "walk" /\ node <= Len(mJobList) /\ ~Matches
  /\ mJobList' = RemoveAt(mJobList, node)
  /\ UNCHANGED <<daemon, jobListCtrl, selected, mActive, mConnected, timer,
                 modal, pc, op, todo, refresh>>

NewRow ==
  /\ pc = "walk" /\ node > Len(mJobList) /\ i <= Len(ids)
  /\ mJobList' = Append(mJobList, [id |-> ids[i], status |-> GetStatus(ids[i])])
  /\ node' = node + 1 /\ i' = i + 1
  /\ UNCHANGED <<daemon, jobListCtrl, selected, mActive, mConnected, timer,
                 modal, pc, op, todo, ids>>

(* The rows: each is kept if it is that of the next job of the copy, and   *)
(* deleted if not; the rest of the copy is inserted behind them.  Only     *)
(* rows that were kept stay selected.                                      *)
KeptRows_Restarted ==
  IF Len(mJobList) >= Len(jobListCtrl) /\
       \A k \in DOMAIN jobListCtrl : jobListCtrl[k] = mJobList[k].id
  THEN Len(jobListCtrl) ELSE 0
KeptRows ==
  LET kept[r \in 0 .. Len(jobListCtrl)] ==
        IF r = 0 THEN 0
        ELSE LET n == kept[r - 1] IN
             IF n < Len(mJobList) /\ mJobList[n + 1].id = jobListCtrl[r]
             THEN n + 1 ELSE n
  IN  kept[Len(jobListCtrl)]

EndRefresh ==
  /\ pc = "walk" /\ node > Len(mJobList) /\ i > Len(ids)
  /\ jobListCtrl' = [k \in DOMAIN mJobList |-> mJobList[k].id]
  /\ selected' = selected \cap {mJobList[k].id : k \in 1 .. KeptRows}
  /\ timer' = TRUE
  /\ mConnected' = alive                                 \* RefreshButtons
  /\ pc' = "idle"
  /\ node' = 1 /\ i' = 1
  /\ UNCHANGED <<daemon, mJobList, mActive, modal, op, todo, ids>>

-----------------------------------------------------------------------------
(* "Save as": a modal dialog, and then the selected row's job is saved.    *)
(* Other rows' handlers cannot run meanwhile, but the timer's can.         *)

SaveAsClick ==
  /\ UserFree /\ mConnected /\ CanSaveAs
  /\ modal' = "saveas"
  /\ UNCHANGED <<daemon, copy, mActive, mConnected, timer, pc, op, todo,
                 refresh>>

SaveAsOk ==
  /\ pc = "idle" /\ modal = "saveas"
  /\ modal' = "none"
  /\ UNCHANGED <<daemon, copy, mActive, mConnected, timer, pc, op, todo,
                 refresh>>

(* Editing a label greys the buttons and, when it ends, refreshes them.    *)
BeginLabelEdit ==
  /\ LabelEdits /\ UserFree /\ jobListCtrl # <<>>
  /\ modal' = "edit"
  /\ mConnected' = FALSE
  /\ UNCHANGED <<daemon, copy, mActive, timer, pc, op, todo, refresh>>

EndLabelEdit ==
  /\ pc = "idle" /\ modal = "edit"
  /\ modal' = "none"
  /\ mConnected' = alive
  /\ UNCHANGED <<daemon, copy, mActive, timer, pc, op, todo, refresh>>

Handler ==
  \/ ActOnRow \/ AddNext \/ ActOnQueue
  \/ GetJobIds \/ Update \/ Drop \/ NewRow \/ EndRefresh

User ==
  \/ Select \/ PauseAllClick \/ \E o \in Buttons : Click(o)
  \/ OnDropFiles \/ NewJob
  \/ SaveAsClick \/ SaveAsOk \/ BeginLabelEdit \/ EndLabelEdit

Next == Elsewhere \/ Handler \/ OnTimer \/ User

Spec == Init /\ [][Next]_vars

(* The event loop goes on with a handler that has begun and with a timer   *)
(* that is due; the user closes what he opened.                            *)
FairSpec ==
  /\ Spec
  /\ WF_vars(Handler) /\ SF_vars(OnTimer)
  /\ WF_vars(NewJob) /\ WF_vars(SaveAsOk) /\ WF_vars(EndLabelEdit)

-----------------------------------------------------------------------------
(* Between two handlers the copy and the rows list exactly the jobs of the *)
(* last answer to GetJobIds, row by row in the queue's order: a handler    *)
(* that takes mJobList.Item(row) gets the job the user sees in that row.   *)
RowsAreJobs ==
  pc \in {"idle", "act"} =>
    /\ jobListCtrl = ids
    /\ [k \in DOMAIN mJobList |-> mJobList[k].id] = ids

(* A refresh takes a selection away only from a job that has left the      *)
(* queue, and gives it to nobody.                                          *)
SelectionKept ==
  [][pc = "walk" /\ pc' = "idle" => selected' = selected \cap ToSet(ids)]_vars

(* Once the queue stands still, what the window shows as pending, paused   *)
(* or running is so, and it shows all jobs of the queue and no others: the *)
(* one-shot timer is always set again, and every refresh asks for all that *)
(* may have changed.  A timer that is lost during a label edit is not, so  *)
(* it must be running again and again.                                     *)
ShowsQueue ==
  /\ ToSet(jobListCtrl) = queue
  /\ \A k \in DOMAIN mJobList :
       mJobList[k].status \notin Finished => mJobList[k].status = status[mJobList[k].id]
Converges ==
  <>[]alive /\ <>[][FALSE]_daemon /\ []<>timer => <>[](pc = "idle" => ShowsQueue)
=============================================================================
