------------------------------ MODULE MCOutbox ------------------------------
(* Bounds for model checking Outbox. *)
EXTENDS Outbox

MCUndoWindows == {-1, 1}
MCDelays      == {0, 2}
MCTimeSteps   == {1}
=============================================================================
