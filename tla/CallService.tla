---------------------------- MODULE CallService ----------------------------
(***************************************************************************)
(* What the connection between a front end and the daemon promises         *)
(* (gamessq_client.h): a call of Execute or Request is carried out exactly *)
(* once, between its beginning and its return, unless the session ends     *)
(* first; and nothing is carried out that was not called.                  *)
(***************************************************************************)
CONSTANT Session

VARIABLE phase

Phases == {"idle", "called", "done", "ended"}

Init == phase = [s \in Session |-> "idle"]

Step(s, from, to) == phase[s] \in from /\ phase' = [phase EXCEPT ![s] = to]

Call(s) == Step(s, {"idle"}, "called")
Serve(s) == Step(s, {"called"}, "done")
Return(s) == Step(s, {"done"}, "idle")
End(s) == Step(s, {"idle", "called", "done"}, "ended")

Next == \E s \in Session : Call(s) \/ Serve(s) \/ Return(s) \/ End(s)

Safety == Init /\ [][Next]_phase

(* Under the daemon's scheduling a call that is not broken off returns.    *)
Spec == /\ Safety
        /\ \A s \in Session : WF_phase(Serve(s)) /\ WF_phase(Return(s))
=============================================================================
