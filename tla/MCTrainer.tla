----------------------------- MODULE MCTrainer ------------------------------
(***************************************************************************)
(* Trainer with four [training] sections: two failures in a row and a      *)
(* tolerance, with and without chance; one that validates rarely, and one  *)
(* that only ctrl-c or the MSE threshold can end.                          *)
(***************************************************************************)
EXTENDS Trainer

Certain == [maxEpochs |-> 1, epochCountBeforeValidating |-> 2,
            consecutiveFailuresForReset |-> 2, tolerance |-> 1, mseThreshold |-> 0,
            backpropagateIfCorrect |-> {FALSE}, resetProbability |-> {TRUE}]

MCConfigs ==
  {Certain,
   [Certain EXCEPT !.resetProbability = BOOLEAN, !.backpropagateIfCorrect = BOOLEAN],
   [Certain EXCEPT !.epochCountBeforeValidating = 4, !.tolerance = 0, !.mseThreshold = 1],
   [Certain EXCEPT !.maxEpochs = 0, !.epochCountBeforeValidating = 1,
                   !.consecutiveFailuresForReset = 1]}

MCErrors == {0, 1, 4}
MCScores == {0, 1, 2}
=============================================================================
