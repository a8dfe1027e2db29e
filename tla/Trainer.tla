------------------------------ MODULE Trainer -------------------------------
(***************************************************************************)
(* `lara train`: the loop of Trainer::Trainer over the epochs and the      *)
(* validations of LstmTrainer, interrupted by SIGINT.                      *)
(*                                                                         *)
(* An epoch presents one training sequence, update by update; after each   *)
(* the network may be trained, and the sequence may be abandoned.  Some    *)
(* epochs are followed by a validation, whose mean squared error (MSE)     *)
(* tells whether these are the best weights so far.                        *)
(*                                                                         *)
(* The sequences are random and so is what a network predicts: an update   *)
(* may have any error and a validation any MSE.  Weights are numbered by   *)
(* the calls of backpropagate that made them.  A probability p of the      *)
(* configuration stands for the outcomes that prob_bool( p ) can have.     *)
(***************************************************************************)
EXTENDS Naturals, Sequences, SequencesExt, FiniteSetsExt

CONSTANTS
  Configs,     \* the [training] sections considered
  Errors,      \* sums of squared errors of an update
  Scores,      \* MSEs of a validation
  NoResult,    \* the LstmResult of no validation
  MaxUpdates,  \* bound: updates of a training sequence
  MaxEpochs    \* bound: epochs of a training without max_epoch_count

\* The ranges are those TrainingConfig accepts; a maxEpochs of 0 is none.
Config == [maxEpochs : Nat, epochCountBeforeValidating : Nat \ {0},
           consecutiveFailuresForReset : Nat \ {0}, tolerance : Nat, mseThreshold : Nat,
           backpropagateIfCorrect : SUBSET BOOLEAN, resetProbability : SUBSET BOOLEAN]
Result == [epoch : Nat, mse : Nat, weights : Nat]

ASSUME TrainerAssumption ==
  /\ Configs \subseteq Config
  /\ Errors \subseteq Nat /\ Scores \subseteq Nat /\ NoResult \notin Result
  /\ MaxUpdates \in Nat \ {0} /\ MaxEpochs \in Nat

VARIABLES
  config,                  \* the TrainingConfig
  pc,                      \* the next step of the program
  epoch,                   \* _epoch
  streak, failures,        \* streak, consecutive_failure_count
  maxStreak, newBestStreak,  \* _max_streak, _new_best_streak
  weights,                 \* those of the network
  best,                    \* best_result, with best_mse and best_weights
  saved,                   \* the results file
  shutdown,                \* *_shutdown_flag
  errors,                  \* history: the errors of the updates, epoch by epoch
  abandoned,               \* history: the epochs whose sequence was abandoned
  validated                \* history: the results of the validations

epochVars == <<streak, failures, maxStreak, newBestStreak>>
histories == <<errors, abandoned, validated>>
vars == <<config, pc, epoch, epochVars, weights, best, saved, shutdown, histories>>

Init ==
  /\ config \in Configs
  /\ pc = "head" /\ epoch = 0 /\ weights = 0
  /\ streak = 0 /\ failures = 0 /\ maxStreak = 0 /\ newBestStreak = FALSE
  /\ best = NoResult /\ saved = NoResult
  /\ shutdown = FALSE
  /\ errors = <<>> /\ abandoned = {} /\ validated = <<>>

-----------------------------------------------------------------------------
(* The loop over the epochs.                                               *)

\* trainer.get_epoch() <= max_epoch_count
EpochsLeft == config.maxEpochs = 0 \/ epoch <= config.maxEpochs

\* Slip: the counters of the last epoch are kept.
StartEpochUnreset ==
  /\ pc = "head" /\ EpochsLeft /\ ~shutdown
  /\ epoch < MaxEpochs
  /\ pc' = "epoch" /\ epoch' = epoch + 1
  /\ errors' = Append(errors, <<>>)
  /\ UNCHANGED <<config, epochVars, weights, best, saved, shutdown, abandoned, validated>>

StartEpoch ==
  /\ pc = "head" /\ EpochsLeft /\ ~shutdown
  /\ epoch < MaxEpochs
  /\ pc' = "epoch" /\ epoch' = epoch + 1
  /\ streak' = 0 /\ failures' = 0 /\ newBestStreak' = FALSE
  /\ errors' = Append(errors, <<>>)
  /\ UNCHANGED <<config, maxStreak, weights, best, saved, shutdown, abandoned, validated>>

\* Slip: only the number of epochs ends the loop.
LeaveLoopUninterrupted ==
  /\ pc = "head" /\ ~EpochsLeft
  /\ pc' = "finish"
  /\ UNCHANGED <<config, epoch, epochVars, weights, best, saved, shutdown, histories>>

LeaveLoop ==
  /\ pc = "head" /\ (~EpochsLeft \/ shutdown)
  /\ pc' = "finish"
  /\ UNCHANGED <<config, epoch, epochVars, weights, best, saved, shutdown, histories>>

-----------------------------------------------------------------------------
(* run_training_epoch                                                      *)

\* Slip: a prediction within the tolerance does not end a row of failures.
FailuresAfterTolerant(error) ==
  IF error > config.tolerance THEN failures + 1 ELSE IF error = 0 THEN 0 ELSE failures

FailuresAfter(error) == IF error > config.tolerance THEN failures + 1 ELSE 0

\* should_backpropagate( correct )
Backpropagates(error) == IF error = 0 THEN config.backpropagateIfCorrect ELSE {TRUE}

\* should_reset( correct, consecutive_failure_count )
Resets(error) ==
  IF error = 0 \/ failures' < config.consecutiveFailuresForReset
  THEN {FALSE} ELSE config.resetProbability

\* One update: advance, predict, count, train, and see whether to go on.  The
\* sequence is never empty, but may end after any update.
Update(error) ==
  /\ pc = "epoch"
  /\ errors' = [errors EXCEPT ![epoch] = Append(@, error)]
  /\ streak' = IF error = 0 THEN streak + 1 ELSE 0
  /\ failures' = FailuresAfter(error)
  /\ maxStreak' = IF streak' > maxStreak THEN streak' ELSE maxStreak
  /\ newBestStreak' = (newBestStreak \/ streak' > maxStreak)
  /\ \E trains \in Backpropagates(error) : weights' = IF trains THEN weights + 1 ELSE weights
  /\ \E reset \in Resets(error), hasNext \in BOOLEAN :
       /\ hasNext => Len(errors'[epoch]) < MaxUpdates
       /\ pc' = IF hasNext /\ ~reset THEN "epoch" ELSE "epochEnd"
       /\ abandoned' = IF reset THEN abandoned \cup {epoch} ELSE abandoned
  /\ UNCHANGED <<config, epoch, best, saved, shutdown, validated>>

-----------------------------------------------------------------------------
(* Validation.                                                             *)

\* Slip: a new best streak does not call for a validation.
ShouldValidatePeriodically == epoch % config.epochCountBeforeValidating = 0

ShouldValidate == epoch % config.epochCountBeforeValidating = 0 \/ newBestStreak

IsBetter(mse) == best = NoResult \/ mse < best.mse

\* Slip: the threshold has to be beaten.
GoodEnoughStrictly(mse) == mse < config.mseThreshold

GoodEnough(mse) == mse <= config.mseThreshold

Validate(mse) ==
  /\ pc = "epochEnd" /\ ShouldValidate
  /\ LET result == [epoch |-> epoch, mse |-> mse, weights |-> weights]
     IN  /\ validated' = Append(validated, result)
         /\ best' = IF IsBetter(mse) THEN result ELSE best
  /\ pc' = IF GoodEnough(mse) THEN "finish" ELSE "head"
  /\ UNCHANGED <<config, epoch, epochVars, weights, saved, shutdown, errors, abandoned>>

SkipValidation ==
  /\ pc = "epochEnd" /\ ~ShouldValidate
  /\ pc' = "head"
  /\ UNCHANGED <<config, epoch, epochVars, weights, best, saved, shutdown, histories>>

-----------------------------------------------------------------------------
(* The results.                                                            *)

\* Slip: the network is saved as it is at the end of the training.
SaveLastWeights ==
  /\ pc = "finish" /\ best # NoResult
  /\ \/ saved' = [best EXCEPT !.weights = weights] /\ pc' = "done"
     \/ UNCHANGED saved /\ pc' = "refused"
  /\ UNCHANGED <<config, epoch, epochVars, weights, best, shutdown, histories>>

\* The network gets the best weights and is written with the best result;
\* write refuses to if a file of that name has appeared since the training began.
Save ==
  /\ pc = "finish" /\ best # NoResult
  /\ weights' = best.weights
  /\ \/ saved' = [best EXCEPT !.weights = weights'] /\ pc' = "done"
     \/ UNCHANGED saved /\ pc' = "refused"
  /\ UNCHANGED <<config, epoch, epochVars, best, shutdown, histories>>

\* With no validation, set_weights( {} ) changes no weight, but add_result reads
\* cell_states[0] of an empty vector: the program dies of it, with nothing written.
SaveNothing ==
  /\ pc = "finish" /\ best = NoResult
  /\ pc' = "crashed"
  /\ UNCHANGED <<config, epoch, epochVars, weights, best, saved, shutdown, histories>>

Main ==
  \/ StartEpoch \/ LeaveLoop
  \/ \E error \in Errors : Update(error)
  \/ \E mse \in Scores : Validate(mse)
  \/ SkipValidation \/ Save \/ SaveNothing

\* signal_handler
Interrupt ==
  /\ ~shutdown /\ shutdown' = TRUE
  /\ UNCHANGED <<config, pc, epoch, epochVars, weights, best, saved, histories>>

HasEnded == pc \in {"done", "refused", "crashed"}

Ended == HasEnded /\ UNCHANGED vars

Next == Main \/ Interrupt \/ Ended

\* The program runs until it ends; nobody has to press ctrl-c.
Spec == Init /\ [][Next]_vars /\ WF_vars(Main)

-----------------------------------------------------------------------------
(* Properties.                                                             *)

Current == IF epoch = 0 THEN <<>> ELSE errors[epoch]

\* The variables have their types; the counters count within the current epoch.
TypeOK ==
  /\ config \in Configs
  /\ pc \in {"head", "epoch", "epochEnd", "finish", "done", "refused", "crashed"}
  /\ epoch \in Nat /\ weights \in Nat /\ maxStreak \in Nat
  /\ streak \in 0 .. maxStreak /\ failures \in 0 .. Len(Current)
  /\ newBestStreak \in BOOLEAN /\ shutdown \in BOOLEAN
  /\ best \in Result \cup {NoResult} /\ saved \in Result \cup {NoResult}
  /\ errors \in Seq(Seq(Errors)) /\ Len(errors) = epoch
  /\ abandoned \subseteq 1 .. epoch
  /\ validated \in Seq(Result)

\* The results file has the MSE, the epoch and the very weights of the first of
\* the validations with the lowest MSE, however many epochs came after it.
SavedIsBest ==
  saved # NoResult =>
    \E i \in DOMAIN validated :
      /\ saved = validated[i]
      /\ \A j \in DOMAIN validated \ {i} :
           IF j < i THEN validated[j].mse > saved.mse ELSE validated[j].mse >= saved.mse

\* The lengths of the runs of correct predictions, and the longest.
Runs(s) == {n \in 0 .. Len(s) : \E i \in 0 .. Len(s) - n : \A k \in i + 1 .. i + n : s[k] = 0}
LongestRun(s) == Max(Runs(s))

\* An epoch is followed by a validation exactly when its turn has come or it had
\* more correct predictions in a row than any before it (docs/topics.md:367-370),
\* the predictions of abandoned sequences counting too.
ValidatedWhenDue ==
  \A e \in 1 .. (IF pc \in {"epoch", "epochEnd"} THEN epoch - 1 ELSE epoch) :
    (\E i \in DOMAIN validated : validated[i].epoch = e) <=>
      \/ e % config.epochCountBeforeValidating = 0
      \/ /\ LongestRun(errors[e]) > 0
         /\ \A d \in 1 .. e - 1 : LongestRun(errors[e]) > LongestRun(errors[d])

\* The network was wrong outside of the tolerance that many times in a row, up to
\* the n-th prediction of epoch e (docs/topics.md:352-354).
Hopeless(e, n) ==
  /\ n >= config.consecutiveFailuresForReset
  /\ \A k \in n - config.consecutiveFailuresForReset + 1 .. n : errors[e][k] > config.tolerance

\* A sequence is abandoned only when it is hopeless, and at once if the reset
\* probability is 1.
AbandonedWhenHopeless ==
  \A e \in 1 .. epoch :
    /\ e \in abandoned => Hopeless(e, Len(errors[e]))
    /\ config.resetProbability = {TRUE} =>
         \A n \in 1 .. Len(errors[e]) :
           Hopeless(e, n) => n = Len(errors[e]) /\ e \in abandoned

\* Training stops for one of the three reasons of docs/topics.md:392-396, and goes
\* on for none once a validation was good enough.
StopsForAReason ==
  LET goodEnough == {i \in DOMAIN validated : validated[i].mse <= config.mseThreshold}
  IN  /\ goodEnough \subseteq {Len(validated)}
      /\ pc \in {"head", "epoch", "epochEnd"} => goodEnough = {}
      /\ pc = "finish" \/ HasEnded =>
           goodEnough # {} \/ shutdown \/ (config.maxEpochs > 0 /\ epoch >= config.maxEpochs)

\* With ctrl-c, or with a maximum number of epochs, the program ends.
TrainingEnds == (shutdown \/ config.maxEpochs > 0) ~> HasEnded

\* docs/topics.md:380-381: max_epoch_count is the maximum number of epochs.
MaxEpochsRespected == config.maxEpochs > 0 => epoch <= config.maxEpochs

\* docs/topics.md:415: "Each time you train, the best result will be saved", when
\* at least an epoch was trained.
BestResultSaved == pc \in {"done", "crashed"} /\ epoch > 0 => saved # NoResult
=============================================================================
