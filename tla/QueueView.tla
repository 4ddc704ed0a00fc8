----------------------------- MODULE QueueView -----------------------------
(***************************************************************************)
(* The daemon as a front end sees it: the queue, how the status of a job   *)
(* may change between two of its requests, what a command does to it, and  *)
(* what a request is answered.  GamessQServer.tla is the module about the  *)
(* daemon itself.                                                          *)
(***************************************************************************)
EXTENDS Naturals, Sequences, FiniteSets, SequencesExt

CONSTANT MaxJobs   \* bound: jobs ever added

ASSUME MaxJobsAssumption == MaxJobs \in Nat

Id == 0 .. MaxJobs - 1
Statuses == {"ERROR", "PENDING", "PAUSED", "RUNNING", "DONE", "CANCELED"}
Finished == {"ERROR", "DONE", "CANCELED"}

VARIABLES
  alive,   \* the daemon runs
  status,  \* the status of each job of its queue; "absent" if not in it
  nextId

daemon == <<alive, status, nextId>>

DaemonOK ==
  /\ alive \in BOOLEAN
  /\ status \in [Id -> Statuses \cup {"absent"}]
  /\ nextId \in 0 .. MaxJobs

DaemonInit ==
  /\ alive = TRUE
  /\ status = [j \in Id |-> "absent"] /\ nextId = 0

(* The queue is in the order of the ids.                                   *)
queue == {j \in Id : status[j] # "absent"}

(* The sequence that lists a set of numbers in order, in a set of its own. *)
InOrder(S) == {s \in [1 .. Cardinality(S) -> S] :
                 \A k, l \in DOMAIN s : k < l => s[k] < s[l]}

-----------------------------------------------------------------------------
(* How the status of a job may change, by itself and by the commands of    *)
(* any front end.                                                          *)
Follows(st) ==
  CASE st = "PENDING" -> {"RUNNING", "ERROR", "PAUSED", "CANCELED"}
    [] st = "RUNNING" -> {"DONE", "ERROR", "PAUSED", "CANCELED"}
    [] st = "PAUSED" -> {"PENDING", "RUNNING", "DONE", "ERROR", "CANCELED"}
    [] st = "CANCELED" -> {"PENDING", "RUNNING", "DONE"}
    [] OTHER -> {"CANCELED"}

(* What a command leaves a job's status as.  Pause and Resume do nothing   *)
(* when the queue is paused, or may not when the process has ended.        *)
After(o, st) ==
  CASE o = "Remove" -> {"absent"}
    [] o = "Cancel" -> {"CANCELED"}
    [] o = "Pause" /\ st \in {"RUNNING", "PENDING"} -> {st, "PAUSED"}
    [] o = "Resume" /\ st = "PAUSED" -> {st, "PENDING", "RUNNING"}
    [] OTHER -> {st}

AddJob ==
  /\ status' = [status EXCEPT ![nextId] = "PENDING"]
  /\ nextId' = nextId + 1

ClearQueue ==
  status' = [j \in Id |-> IF status[j] \in Finished THEN "absent" ELSE status[j]]

Moves ==
  \/ /\ nextId < MaxJobs /\ AddJob
     /\ UNCHANGED alive
  \/ /\ \E j \in queue : \E st \in Follows(status[j]) \cup {"absent"} :
          status' = [status EXCEPT ![j] = st]
     /\ UNCHANGED <<alive, nextId>>
  \/ /\ alive' = FALSE
     /\ status' = [j \in Id |-> "absent"]
     /\ UNCHANGED nextId

-----------------------------------------------------------------------------
(* Requests.  Without a daemon, or without the job, the answer is empty:   *)
(* GetStatus then says 0, which is STATUS_ERROR.                           *)
Answered(j) == alive /\ j \in queue

IdsAnswers == IF alive THEN InOrder(queue) ELSE {<<>>}
GetStatus(j) == IF Answered(j) THEN status[j] ELSE "ERROR"
=============================================================================
