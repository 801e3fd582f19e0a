------------------------------ MODULE Optimizer -----------------------------
(***************************************************************************)
(* ParameterOptimizer.optimize: the best of a number of random trials.     *)
(* The outcome of a trial is that it "raises", "none" (too few candles or  *)
(* trades, or no fold of the walk-forward validation) or "measured".       *)
(* Sharpe ratios are counted in tenths of the third decimal, to which they *)
(* are rounded; none of the values lies halfway.                           *)
(***************************************************************************)
EXTENDS Integers, SequencesExt

CONSTANTS MinConsistency, MaxOverfit

NoSharpe == -9990000
NothingFound == [best_trial |-> 0, best_sharpe |-> NoSharpe, valid_trials |-> {}]

RoundTo3(sharpe) == ((sharpe + 5) \div 10) * 10

Measured(trial) == trial.outcome = "measured"
PassesFilters(trial) ==
    /\ trial.consistency >= MinConsistency
    /\ trial.overfit \in -MaxOverfit..MaxOverfit

\* Variant with a bug: the filters are applied after the best was noted.
TryUnfiltered(result, trial, number) ==
    IF ~Measured(trial) THEN result
    ELSE LET better == IF trial.sharpe > result.best_sharpe
                       THEN [result EXCEPT !.best_trial = number,
                                           !.best_sharpe = RoundTo3(trial.sharpe)]
                       ELSE result
         IN IF PassesFilters(trial)
            THEN [better EXCEPT !.valid_trials = @ \cup {number}] ELSE better

(* An exact Sharpe ratio is compared with the rounded best one.            *)
Try(result, trial, number) ==
    IF ~Measured(trial) \/ (Measured(trial) /\ ~PassesFilters(trial)) THEN result
    ELSE LET valid == [result EXCEPT !.valid_trials = @ \cup {number}]
         IN IF trial.sharpe > result.best_sharpe
            THEN [valid EXCEPT !.best_trial = number,
                               !.best_sharpe = RoundTo3(trial.sharpe)]
            ELSE valid

Optimize(trials) ==
    FoldLeftDomain(LAMBDA result, i : Try(result, trials[i], i),
                   NothingFound, trials)

-----------------------------------------------------------------------------
(* The trial that is chosen is valid and nearly the best: a later, worse   *)
(* one may replace it because it still exceeds the rounded value, but      *)
(* however often that happens no valid trial is better than the chosen one *)
(* by a whole step of the rounding, and what is reported of the best is    *)
(* the rounded value of the chosen one.                                    *)
ChosenTrial(trials) ==
    LET result == Optimize(trials)
        chosen == trials[result.best_trial]
        valid == {i \in DOMAIN trials :
                    Measured(trials[i]) /\ PassesFilters(trials[i])}
    IN IF valid = {} THEN result.best_trial = 0
       ELSE /\ result.best_trial \in valid
            /\ result.best_sharpe = RoundTo3(chosen.sharpe)
            /\ \A i \in valid : trials[i].sharpe - chosen.sharpe < 10
=============================================================================
