----------------------------- MODULE SaveFolder -----------------------------
(***************************************************************************)
(* "Save to folder" of the GUI (gamessq_frame.cpp, OnSavefolderClick and   *)
(* FindOverwrites) and the daemon's SAVE command (gamessqd.cpp): the names *)
(* the selected jobs are saved under, the files the user is asked about,   *)
(* and the files that are copied.                                          *)
(*                                                                         *)
(* A name is a stem, an extension (what follows its last dot) and the      *)
(* numbers appended to it; of the optional output files "dat" stands for   *)
(* all, each of them is treated alike.                                     *)
(***************************************************************************)
EXTENDS Naturals, Sequences, FiniteSets

CONSTANTS
  MaxRows, \* bound: selected rows
  Names,   \* the names jobs may have
  MaxOld,  \* bound: files that are in the folder before
  MaxFailing \* bound: jobs of which SAVE does not copy all

ASSUME BoundsAssumption ==
  MaxRows \in Nat /\ MaxOld \in Nat /\ MaxFailing \in Nat

Name == [stem : STRING, ext : STRING, numbers : Seq(Nat)]

ASSUME NamesAssumption == Names \subseteq Name

Row == 1 .. MaxRows
Exts == {"inp", "log", "dat"}

(* "_%03d" is appended to the whole name, an extension included.           *)
Suffixed(name, k) == [name EXCEPT !.numbers = Append(@, k)]

(* SetExt replaces what follows the last dot, and so drops the numbers     *)
(* that were appended to an extension.                                     *)
Base(name) == IF name.ext = "" THEN <<name.stem, name.numbers>>
                               ELSE <<name.stem, <<>>>>

VARIABLES
  pc,
  job,       \* the selected rows: the name and the optional file of each
  done,      \* the selected rows whose job is done
  gone,      \* jobs that have left the queue
  savenames, \* the rows to save, in order, with their names
  overwrites,
  folder,    \* what each file has in it
  todo,      \* the next of savenames to save
  failed     \* history: the rows of which SAVE has not copied all: it has
             \* returned false, or never

vars == <<pc, job, done, gone, savenames, overwrites, folder, todo, failed>>

Files == {Base(n) : n \in Names} \cup
         {Base(Suffixed(n, k)) : n \in Names, k \in Row}
File == Files \X Exts

(* What a file of the folder may have in it: what was there before, a      *)
(* file of a job's, or the part of it that was copied.                     *)
Old == <<0, TRUE>>
Whole(r) == <<r, TRUE>>
Part(r) == <<r, FALSE>>

TypeOK ==
  /\ pc \in {"chosen", "viewing", "named", "asked", "saving", "end"}
  /\ job \in [Row -> [name : Names, dat : BOOLEAN]]
  /\ done \subseteq Row /\ gone \subseteq Row
  /\ savenames \in Seq([row : done, name : Name])
  /\ \A f \in DOMAIN folder : folder[f] \in (Row \X BOOLEAN) \cup {Old}
  /\ todo \in 0 .. Len(savenames) + 1
  /\ failed \subseteq done

Init ==
  /\ pc = "chosen"
  /\ job \in [Row -> [name : Names, dat : BOOLEAN]]
  /\ done \in SUBSET Row
  /\ gone = {}
  /\ savenames = <<>> /\ overwrites = {} /\ todo = 0 /\ failed = {}
  /\ \E old \in [1 .. MaxOld -> File] :
       folder = [f \in {old[x] : x \in 1 .. MaxOld} |-> Old]

-----------------------------------------------------------------------------
(* The names: a job with the name of an earlier one gets a number.         *)

(* The sequence that lists a set of rows in order, in a set of its own.    *)
InOrder(S) == {s \in [1 .. Cardinality(S) -> S] :
                 \A k, l \in DOMAIN s : k < l => s[k] < s[l]}

(* Those after i that have its name are numbered.                          *)
NumberedAfter(names, i) ==
  LET Same(j) == j > i /\ names[j] = names[i]
  IN  [j \in DOMAIN names |->
         IF Same(j) THEN Suffixed(names[j], Cardinality({l \in 1 .. j : Same(l)}))
                    ELSE names[j]]

Renamed(names) ==
  LET after[i \in 0 .. Len(names)] ==
        IF i = 0 THEN names ELSE NumberedAfter(after[i - 1], i)
  IN  after[Len(names)]

NameAll ==
  /\ pc = "chosen"
  /\ \E rows \in InOrder(done) :
       LET names == Renamed([k \in DOMAIN rows |-> job[rows[k]].name])
       IN  savenames' = [k \in DOMAIN rows |-> [row |-> rows[k], name |-> names[k]]]
  /\ pc' = "named"
  /\ UNCHANGED <<job, done, gone, overwrites, folder, todo, failed>>

-----------------------------------------------------------------------------
(* The files of a job, which leave the spool directory with it.            *)
FilesOf(r) == {"inp", "log"} \cup (IF job[r].dat THEN {"dat"} ELSE {})
Spooled(r) == IF r \in gone THEN {} ELSE FilesOf(r)

Target(k, x) == <<Base(savenames[k].name), x>>

(* FindOverwrites, for every job: not the input file.                      *)
FindOverwrites_LogOnly ==
  {Target(k, x) : k \in DOMAIN savenames, x \in {"log"}}
FindOverwrites ==
  UNION {{Target(k, x) : x \in Spooled(savenames[k].row) \ {"inp"}} :
           k \in DOMAIN savenames}

Ask ==
  /\ pc = "named"
  /\ overwrites' = FindOverwrites \cap DOMAIN folder
  /\ pc' = IF overwrites' = {} THEN "saving" ELSE "asked"
  /\ todo' = 1
  /\ UNCHANGED <<job, done, gone, savenames, folder, failed>>

Confirm ==
  /\ pc = "asked"
  /\ pc' \in {"saving", "end"}
  /\ UNCHANGED <<job, done, gone, savenames, overwrites, folder, todo, failed>>

(* What SAVE copies of a job that is still there: every file it has, over  *)
(* whatever is there.                                                      *)
Save_KeepsOld(k) ==
  {Target(k, x) : x \in Spooled(savenames[k].row)} \ DOMAIN folder
Save(k) == {Target(k, x) : x \in Spooled(savenames[k].row)}

(* SAVE.  A copy may fail, before it has made the file or in the middle of *)
(* it, and the others are tried all the same; nothing is copied if the log *)
(* is missing, or the daemon is gone, and not all if it dies meanwhile.    *)
(* Nobody looks at the result: the loop goes on with the next row.         *)
SaveNext ==
  /\ pc = "saving" /\ todo <= Len(savenames)
  /\ \E copied \in SUBSET Save(todo) : \E cut \in SUBSET (Save(todo) \ copied) :
       LET r == savenames[todo].row
           all == copied = Save(todo)
       IN  /\ all \/ Cardinality(failed) < MaxFailing
           /\ folder' = [f \in copied \cup cut \cup DOMAIN folder |->
                           CASE f \in copied -> Whole(r)
                             [] f \in cut -> Part(r)
                             [] OTHER -> folder[f]]
           /\ failed' = failed \cup IF all /\ r \notin gone THEN {} ELSE {r}
  /\ todo' = todo + 1
  /\ UNCHANGED <<pc, job, done, gone, savenames, overwrites>>

End ==
  /\ pc = "saving" /\ todo > Len(savenames)
  /\ pc' = "end"
  /\ UNCHANGED <<job, done, gone, savenames, overwrites, folder, todo, failed>>

(* Another front end removes a job, or clears the queue.                   *)
Removed ==
  /\ pc # "end"
  /\ \E r \in done \ gone : gone' = gone \cup {r}
  /\ UNCHANGED <<pc, job, done, savenames, overwrites, folder, todo, failed>>

Next == NameAll \/ Ask \/ Confirm \/ SaveNext \/ End \/ Removed

Spec == Init /\ [][Next]_vars

-----------------------------------------------------------------------------
(* Whatever the user was not asked about survives, but for input files     *)
(* (FindOverwrites before all the copies).                                 *)
OverwritesAnnounced ==
  [][\A f \in DOMAIN folder :
       folder[f] = Old /\ folder'[f] # Old /\ f[2] # "inp" => f \in overwrites]_vars

(* If no name has a dot or ends in a number: when the loop over the rows   *)
(* is through, every selected job that was done has a name of its own in   *)
(* the folder.  All its files are there under it, whole, unless its own    *)
(* SAVE failed (which nobody is told); and what there is under it is the   *)
(* job's, whole or in part, or was there before: a SAVE that failed takes  *)
(* nothing from the other jobs, nor leaves theirs as the job's.            *)
SavedWhole ==
  pc = "end" /\ todo > Len(savenames) =>
    \A r \in done :
      \E k \in DOMAIN savenames :
        /\ savenames[k].row = r
        /\ \A x \in IF r \in failed THEN {} ELSE FilesOf(r) :
             Target(k, x) \in DOMAIN folder /\ folder[Target(k, x)] = Whole(r)
        /\ \A x \in Exts : Target(k, x) \in DOMAIN folder =>
             folder[Target(k, x)] \in {Whole(r), Part(r), Old}
=============================================================================
