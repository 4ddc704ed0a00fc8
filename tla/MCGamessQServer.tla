-------------------------- MODULE MCGamessQServer --------------------------
(***************************************************************************)
(* Model checking GamessQServer: what a comment of the program claims and  *)
(* the daemon does not do.                                                 *)
(***************************************************************************)
EXTENDS GamessQServer

(* gamessqd.h:74-80: mPausedList "allows us to get back the original state *)
(* of the queue when the whole thing is resumed": its entries are jobs of  *)
(* the queue, not jobs that REMOVE or CLEAR freed.                         *)
PausedListIsLive == mPausedList.jobs \subseteq queue
=============================================================================
