----------------------- MODULE MCFederateCoordination -----------------------
(* Small instances of FederateCoordination for TLC.                       *)
EXTENDS FederateCoordination

(* Times 0..3: enough for a partial grant below a request, a preempting   *)
(* event below it, and a second request below the first.                 *)
MCMaxTime == 3
MCMaxPhysical == 1
MCMaxMessages == 1
(* Runs that isolate one way into a hazard.                                *)
MCNoMessages == 0
MCTwoPhysical == 2
=============================================================================
