----------------------------- MODULE LogViewer -----------------------------
(***************************************************************************)
(* The log viewer of the GUI (log_viewer.cpp), which "View Logs" opens on  *)
(* the selected rows (gamessq_frame.cpp, OnViewlogsClick): an array of     *)
(* pages that Refresh walks, taking out those whose file is gone, and a    *)
(* notebook around them that goes when one page is left.  Meanwhile the    *)
(* daemon, the processes of jobs and other front ends make and delete      *)
(* logs.                                                                   *)
(*                                                                         *)
(* The user has selected the same rows as in SaveFolder, and does either.  *)
(***************************************************************************)
EXTENDS SaveFolder, SequencesExt

VARIABLES
  viewer,    \* "none"; "blank", without pages; "refreshing", "idle",
             \* "closed" or "crashed"
  mLogPages, \* the rows of the pages
  mNotebook, \* not NULL
  i,         \* Refresh: i
  found,     \* history: pages whose file was loaded in this Refresh
  logs       \* rows whose log file there is

window == <<viewer, mLogPages, mNotebook, i, found>>
viewVars == <<vars, window, logs>>

ViewInit ==
  /\ Init
  /\ viewer = "none" /\ mLogPages = <<>> /\ mNotebook = FALSE
  /\ i = 1 /\ found = {}
  /\ logs = done

(* OnViewlogsClick: the jobs that are not pending, of which those that are *)
(* not done may have no log; and the constructor, which leaves its members *)
(* alone if there is no job, and calls Refresh.                            *)
OnViewlogsClick ==
  /\ pc = "chosen"
  /\ pc' = "viewing"
  /\ \E viewable \in SUBSET Row :
       /\ done \subseteq viewable
       /\ mLogPages' \in InOrder(viewable)
       /\ \E started \in SUBSET (viewable \ done) :
            logs' = (done \ gone) \cup started
       /\ viewer' = IF viewable = {} THEN "blank" ELSE "refreshing"
       /\ mNotebook' = (viewable # {})
  /\ UNCHANGED <<job, done, gone, savenames, overwrites, folder, todo, failed,
                 i, found>>

(* Refresh, page by page.                                                  *)
KeepPage ==
  /\ viewer = "refreshing" /\ i <= Len(mLogPages)
  /\ mLogPages[i] \in logs
  /\ i' = i + 1
  /\ found' = found \cup {mLogPages[i]}
  /\ UNCHANGED <<vars, viewer, mLogPages, mNotebook, logs>>

(* mNotebook->DeletePage: there may be no notebook any more.               *)
DeletePage_Advances ==
  /\ viewer = "refreshing" /\ i <= Len(mLogPages)
  /\ mLogPages[i] \notin logs
  /\ IF mNotebook
     THEN mLogPages' = RemoveAt(mLogPages, i) /\ i' = i + 1 /\ UNCHANGED viewer
     ELSE viewer' = "crashed" /\ UNCHANGED <<mLogPages, i>>
  /\ UNCHANGED <<vars, mNotebook, found, logs>>
DeletePage ==
  /\ viewer = "refreshing" /\ i <= Len(mLogPages)
  /\ mLogPages[i] \notin logs
  /\ IF mNotebook
     THEN mLogPages' = RemoveAt(mLogPages, i) /\ UNCHANGED viewer
     ELSE viewer' = "crashed" /\ UNCHANGED mLogPages
  /\ UNCHANGED <<vars, mNotebook, i, found, logs>>

EndRefresh ==
  /\ viewer = "refreshing" /\ i > Len(mLogPages)
  /\ viewer' = "idle"
  /\ mNotebook' = (mNotebook /\ Len(mLogPages) # 1)
  /\ UNCHANGED <<vars, mLogPages, i, found, logs>>

OnRefreshClick ==
  /\ viewer = "idle"
  /\ viewer' = "refreshing"
  /\ i' = 1 /\ found' = {}
  /\ UNCHANGED <<vars, mLogPages, mNotebook, logs>>

(* OnOkClick and OnClose.  The destructor of a viewer without pages walks  *)
(* an array that was never set.                                            *)
OnClose ==
  /\ \/ viewer = "idle" /\ viewer' = "closed"
     \/ viewer = "blank" /\ viewer' \in {"closed", "crashed"}
  /\ mLogPages' = <<>> /\ mNotebook' = FALSE /\ found' = {}
  /\ UNCHANGED <<vars, i, logs>>

(* Jobs are removed with their logs, and those that are not done start,    *)
(* or start again.                                                         *)
LogsChange ==
  /\ viewer \notin {"none", "closed", "crashed"}
  /\ \/ Removed /\ logs' = logs \ gone'
     \/ /\ \E r \in Row \ done :
             logs' = IF r \in logs THEN logs \ {r} ELSE logs \cup {r}
        /\ UNCHANGED vars
  /\ UNCHANGED window

View == KeepPage \/ DeletePage \/ EndRefresh \/ OnRefreshClick \/ OnClose

ViewNext ==
  \/ OnViewlogsClick \/ View \/ LogsChange
  \/ viewer = "none" /\ Next /\ UNCHANGED <<window, logs>>

ViewSpec == ViewInit /\ [][ViewNext]_viewVars

(* Refresh visits every page although pages are taken out of the array it  *)
(* walks and files come and go: what is left are the pages whose file was  *)
(* loaded, in their order; and the notebook is there unless one page is    *)
(* left alone, as the next Refresh relies on (log_viewer.cpp:95-119).      *)
RefreshKeepsOrder ==
  viewer = "idle" =>
    /\ mLogPages \in InOrder(found)
    /\ mNotebook = (Len(mLogPages) # 1)
=============================================================================
