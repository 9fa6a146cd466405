---------------------------- MODULE LineOutcome -----------------------------
(***************************************************************************)
(* What the rest of the worker relies on in the handling of one request    *)
(* line: WorkerNode's ReadFromClient makes one of these outcomes in one    *)
(* step, and Requests is shown to reach no other.                          *)
(***************************************************************************)
VARIABLE outcome

(* After the line: how many lines the client was sent, and whether run()   *)
(* was told.                                                               *)
Returned(lines, told) == <<"returned", lines, told>>

(* Answered and run() told, answered only, or run() told only. *)
Outcomes == {Returned(1, TRUE), Returned(1, FALSE), Returned(0, TRUE)}

Init == outcome = <<"pending">>
Next == outcome = <<"pending">> /\ outcome' \in Outcomes \cup {<<"terminated">>}
Spec == Init /\ [][Next]_outcome
(* A line is done with: the main thread does not wait in a handler. *)
FairSpec == Spec /\ WF_outcome(Next)
=============================================================================
