-------------------------- MODULE SelfImprovement --------------------------
(***************************************************************************)
(* The self-improvement of runtime/improvement.py and                      *)
(* evaluation/controller.py: a weekly review that may switch the active    *)
(* strategy, and a job that tunes its parameters.  They run in two threads *)
(* of the scheduler and share two globals of main.py, the name of the      *)
(* active strategy and its tuned parameters, which every strategy cycle    *)
(* reads.  The database keeps the switches, the adjustments and the tuned  *)
(* parameters of every strategy.  A restart ends both jobs, forgets the    *)
(* switch and reloads the parameters.  A read of the database may fail     *)
(* wherever it can leave the two globals apart; that a write fails is in   *)
(* PaperBroker and LiveOrder, not here.                                    *)
(*                                                                         *)
(* What the arena, the optimizer and the evaluator answer is left open     *)
(* here: Evaluation and Optimizer have what they compute.                  *)
(***************************************************************************)
EXTENDS Integers, Functions

CONSTANTS
    Strategies,
    Default,          \* settings.strategy_name
    Tunable,          \* the strategies of PARAM_RANGES
    ParametersOf,     \* the keyword arguments the constructor of each takes
    Values,           \* of a parameter
    Factory,          \* the value a parameter has when it is not given
    Day,              \* ticks of the clock in a day
    SwitchCooldown,   \* settings.switch_cooldown_days
    RollbackDays,     \* 3 in check_rollback
    TuningCooldown,   \* settings.parameter_tuning_cooldown_hours, in ticks
    MaxEvents         \* bound on ticks, restarts and messages

Parameters == UNION {ParametersOf[s] : s \in Strategies}

ASSUME SelfImprovementAssumption ==
    /\ Default \in Strategies /\ Tunable \subseteq Strategies
    /\ ParametersOf \in [Strategies -> SUBSET Parameters]
    /\ Factory \in Values
    /\ Day \in Nat \ {0} /\ MaxEvents \in Nat
    /\ SwitchCooldown \in Nat /\ RollbackDays \in Nat /\ TuningCooldown \in Nat

VARIABLES
    name,       \* _active_strategy_name, or the setting when that is empty
    params,     \* _active_strategy_params
    stored,     \* strategy_parameter_state, by strategy
    adjusted,   \* applied_at of the latest parameter_adjustments row
    switched,   \* the latest row of strategy_switches
    now,        \* datetime.now()
    running,    \* the scheduler starts jobs
    review,     \* where self_improvement_job is, and what it holds
    tuning,     \* where parameter_tuning_job is, and what it holds
    events,     \* ticks, restarts and messages so far
    forgot,     \* history: a restart came after the latest switch was recorded
    raced,      \* history: both jobs were about to write params
    missed      \* history: the parameters to assign could not be read

memory == <<name, params>>
database == <<stored, adjusted, switched>>
clock == <<now, running, events>>
history == <<forgot, raced, missed>>
improvementVars == <<memory, database, clock, review, tuning, history>>

(* A dict of parameters: a function on some of the parameters' names.      *)
Dicts(P) == UNION {[D -> Values] : D \in SUBSET P}
Empty == [p \in {} |-> Factory]
Update(d, e) ==
    [p \in DOMAIN d \cup DOMAIN e |-> IF p \in DOMAIN e THEN e[p] ELSE d[p]]

Never == -1
NoSwitch == [from |-> Default, to |-> Default, at |-> Never]
Resting == [at |-> "idle"]

Init ==
    /\ name = Default /\ params = Empty
    /\ stored = [s \in Strategies |-> Empty]
    /\ adjusted = [s \in Strategies |-> Never]
    /\ switched = NoSwitch
    /\ now = 0 /\ running = TRUE
    /\ review = Resting /\ tuning = Resting
    /\ events = 0 /\ forgot = FALSE /\ raced = FALSE /\ missed = FALSE

-----------------------------------------------------------------------------
(* Building a strategy, as every cycle, command and tuning job does        *)

(* The tuned parameters if the strategy is the active one, else none.      *)
ParametersFor(s) == IF s = name THEN params ELSE Empty

(* A constructor refuses a keyword argument it does not know: TypeError.   *)
Builds(s) == DOMAIN ParametersFor(s) \subseteq ParametersOf[s]

(* What a strategy built with the dict d runs with: get_tunable_params.    *)
Instance(s, d) == Update([p \in ParametersOf[s] |-> Factory], d)

-----------------------------------------------------------------------------
(* The weekly review                                                       *)

DaysSince(t) == (now - t) \div Day
\* Variant with a bug: the cooldown, in days, is compared with ticks.
CoolingForTicks == switched # NoSwitch /\ now - switched.at < SwitchCooldown

CoolingDown == switched # NoSwitch /\ DaysSince(switched.at) < SwitchCooldown

(* The parameters in memory ought to be those of the table: no race and no *)
(* failed read came before, and no switch is half done.                    *)
Settled == ~raced /\ ~missed /\ review.at \notin {"load", "assign"}

(* Both jobs are between a decision about params and its assignment.       *)
Overlap == /\ review.at \in {"recorded", "load", "assign"}
           /\ tuning.at \in {"applied", "adopt"}
NoteOverlap == raced' = (raced \/ Overlap')

StartReview ==
    /\ running /\ review.at = "idle"
    /\ review' = [at |-> "arena", from |-> name]
    /\ UNCHANGED <<memory, database, clock, history, tuning>>

(* get_candles or the evaluation raises: the job logs it and ends.         *)
ReviewFails ==
    /\ review.at = "arena"
    /\ review' = Resting
    /\ UNCHANGED <<memory, database, clock, history, tuning>>

KeepStrategy ==
    /\ review.at = "arena"
    /\ review' = [at |-> "judge"]
    /\ UNCHANGED <<memory, database, clock, history, tuning>>

\* Variant with a bug: the arena's first may be the current strategy itself.
SwitchToFirst(to) ==
    /\ review.at = "arena"
    /\ ~CoolingDown
    /\ switched' = [from |-> review.from, to |-> to, at |-> now]
    /\ review' = [at |-> "recorded", to |-> to]
    /\ forgot' = FALSE
    /\ UNCHANGED <<memory, clock, stored, adjusted, tuning, missed>>
    /\ NoteOverlap

(* should_switch found the current strategy poor and another one better,   *)
(* and the switch is recorded.                                             *)
Switch(to) ==
    /\ review.at = "arena" /\ to # review.from
    /\ ~CoolingDown
    /\ switched' = [from |-> review.from, to |-> to, at |-> now]
    /\ review' = [at |-> "recorded", to |-> to]
    /\ forgot' = FALSE
    /\ UNCHANGED <<memory, clock, stored, adjusted, tuning, missed>>
    /\ NoteOverlap

SetName ==
    /\ review.at = "recorded"
    /\ name' = review.to
    /\ review' = [at |-> "load"]
    /\ UNCHANGED <<database, clock, params, tuning, forgot, missed>>
    /\ NoteOverlap

(* _load_active_strategy_parameters reads the table, then assigns.         *)
LoadParameters ==
    /\ review.at = "load"
    /\ review' = [at |-> "assign", loaded |-> stored[name]]
    /\ UNCHANGED <<memory, database, clock, tuning, forgot, missed>>
    /\ NoteOverlap

(* The read raises: the job ends with the new name and the old parameters. *)
LoadFails ==
    /\ review.at = "load"
    /\ review' = Resting
    /\ missed' = TRUE
    /\ UNCHANGED <<memory, database, clock, tuning, forgot, raced>>

AssignParameters ==
    /\ review.at = "assign"
    /\ params' = review.loaded
    /\ review' = [at |-> "judge"]
    /\ missed' = FALSE
    /\ UNCHANGED <<database, clock, name, tuning, forgot, raced>>

(* check_rollback: when the latest switch is recent and the strategy in    *)
(* force has lost since, going back is proposed to the user; nothing is    *)
(* rolled back.                                                            *)
Proposal == [from |-> name, to |-> switched.from]
ProposalIsDue == switched # NoSwitch /\ DaysSince(switched.at) <= RollbackDays

EndReview ==
    /\ review.at = "judge"
    /\ review' = Resting
    /\ UNCHANGED <<memory, database, clock, history, tuning>>

-----------------------------------------------------------------------------
(* The tuning job                                                          *)

(* It builds the active strategy to know how many candles it needs.        *)
StartTuning ==
    /\ running /\ tuning.at = "idle"
    /\ Builds(name)
    /\ tuning' = [at |-> "candles", of |-> name]
    /\ UNCHANGED <<memory, database, clock, history, review>>

(* No candles, the build failed, or the optimizer found nothing better.    *)
TuningEnds ==
    /\ tuning.at \in {"candles", "optimize"}
    /\ tuning' = Resting
    /\ UNCHANGED <<memory, database, clock, history, review>>

\* Variant with a bug: off by one at the end of the cooldown.
RestedUpTo(s) == adjusted[s] = Never \/ now - adjusted[s] >= TuningCooldown - 1

Rested(s) == adjusted[s] = Never \/ now - adjusted[s] >= TuningCooldown

(* run_parameter_tuning: the second build, whose parameters are the base   *)
(* that candidates are compared with (current: for the properties only).   *)
Baseline ==
    /\ tuning.at = "candles"
    /\ tuning.of \in Tunable /\ Rested(tuning.of) /\ Builds(tuning.of)
    /\ tuning' = [at |-> "optimize", of |-> tuning.of,
                  current |-> tuning.of = name /\ Settled,
                  base |-> Instance(tuning.of, ParametersFor(tuning.of))]
    /\ UNCHANGED <<memory, database, clock, history, review>>

\* Variant with a bug: compared with the defaults, not with the base.
ChangedFromFactory(base, best) == RestrictDomain(best, LAMBDA p : best[p] # Factory)

(* apply_parameter_adjustments: one transaction stores the parameters that *)
(* differ from the base.                                                   *)
Changed(base, best) == RestrictDomain(best, LAMBDA p : base[p] # best[p])

Apply(best) ==
    /\ tuning.at = "optimize" /\ DOMAIN best = ParametersOf[tuning.of]
    /\ LET changed == Changed(tuning.base, best)
       IN  IF DOMAIN changed = {}
           THEN tuning' = Resting /\ UNCHANGED <<stored, adjusted>>
           ELSE /\ stored' = [stored EXCEPT ![tuning.of] = Update(@, changed)]
                /\ adjusted' = [adjusted EXCEPT ![tuning.of] = now]
                /\ tuning' = [at |-> "applied", of |-> tuning.of]
    /\ UNCHANGED <<memory, clock, switched, review, forgot, missed>>
    /\ NoteOverlap

\* Variant with a bug: adopted without asking whether it is still active.
StillActiveUnchecked ==
    /\ tuning.at = "applied"
    /\ tuning' = [tuning EXCEPT !.at = "adopt"]
    /\ UNCHANGED <<memory, database, clock, review, forgot, missed>>
    /\ NoteOverlap

(* The test whether the tuned strategy is still the active one ...         *)
StillActive ==
    /\ tuning.at = "applied"
    /\ tuning' = IF tuning.of = name THEN [tuning EXCEPT !.at = "adopt"] ELSE Resting
    /\ UNCHANGED <<memory, database, clock, review, forgot, missed>>
    /\ NoteOverlap

(* ... and the assignment, a query later ...                               *)
Adopt ==
    /\ tuning.at = "adopt"
    /\ params' = stored[tuning.of]
    /\ tuning' = Resting
    /\ missed' = FALSE
    /\ UNCHANGED <<database, clock, name, review, forgot, raced>>

(* ... which may raise: the new parameters are stored and not adopted.     *)
AdoptFails ==
    /\ tuning.at = "adopt"
    /\ tuning' = Resting
    /\ missed' = TRUE
    /\ UNCHANGED <<memory, database, clock, review, forgot, raced>>

-----------------------------------------------------------------------------
(* Time and restarts                                                       *)

Tick ==
    /\ events < MaxEvents
    /\ now' = now + 1 /\ events' = events + 1
    /\ UNCHANGED <<memory, database, history, running, review, tuning>>

(* The process ends and is started again: initialize_storage_and_clients   *)
(* loads the parameters of the strategy named in the settings.             *)
Restart ==
    /\ events < MaxEvents
    /\ name' = Default /\ params' = stored[Default]
    /\ running' = TRUE /\ review' = Resting /\ tuning' = Resting
    /\ forgot' = (switched # NoSwitch)
    /\ raced' = FALSE /\ missed' = FALSE
    /\ events' = events + 1
    /\ UNCHANGED <<database, now>>

ReviewStep ==
    \/ StartReview \/ ReviewFails \/ KeepStrategy \/ SetName
    \/ LoadParameters \/ LoadFails \/ AssignParameters \/ EndReview
    \/ \E to \in Strategies : Switch(to)

TuningStep ==
    \/ StartTuning \/ TuningEnds \/ Baseline \/ StillActive \/ Adopt \/ AdoptFails
    \/ \E best \in Dicts(Parameters) : Apply(best)

-----------------------------------------------------------------------------
(* Properties                                                              *)

Jobs == {"idle", "arena", "recorded", "load", "assign", "judge",
         "candles", "optimize", "applied", "adopt"}

ImprovementTypeOK ==
    /\ name \in Strategies /\ params \in Dicts(Parameters)
    /\ \A s \in Strategies : stored[s] \in Dicts(ParametersOf[s])
    /\ adjusted \in [Strategies -> Int]
    /\ switched \in [from : Strategies, to : Strategies, at : Int]
    /\ now \in 0 .. MaxEvents /\ events \in 0 .. MaxEvents
    /\ review.at \in Jobs /\ tuning.at \in Jobs
    /\ {running, forgot, raced, missed} \subseteq BOOLEAN

(* settings.py, switch_cooldown_days and parameter_tuning_cooldown_hours:  *)
(* two switches, and two adjustments of one strategy, are at least their   *)
(* cooldown apart, through restarts and whatever the other job does.       *)
CooldownsHold ==
    [][/\ switched' # switched /\ switched # NoSwitch =>
              switched'.at - switched.at >= SwitchCooldown * Day
       /\ \A s \in Strategies :
              adjusted'[s] # adjusted[s] /\ adjusted[s] # Never =>
                  adjusted'[s] - adjusted[s] >= TuningCooldown]_improvementVars

(* controller.py: the latest recorded switch is the one in force, unless a *)
(* restart came after it, and a proposal to roll back leads from the       *)
(* strategy in force to another one, the one it replaced.                  *)
SwitchIsInForce ==
    switched # NoSwitch /\ ~forgot =>
        /\ review.at # "recorded" => name = switched.to
        /\ review.at = "recorded" => name = switched.from
        /\ review.at = "judge" /\ ProposalIsDue =>
               Proposal.from = switched.to /\ Proposal.to # Proposal.from

(* main.py:96, "auto-tuned parameters of the active strategy": outside of  *)
(* the few steps of a switch or an adoption, the parameters in memory are  *)
(* those stored for the active strategy, and it can be built -- unless the *)
(* two jobs raced since the last restart, or the latest read of what was   *)
(* to be assigned failed.                                                  *)
ParametersAreCurrent ==
    Settled =>
        /\ Builds(name)
        /\ tuning.at \notin {"applied", "adopt"} => params = stored[name]

(* improvement.py:180: what is stored by a tuning job is, with the         *)
(* defaults, the candidate that passed the evaluation, although only the   *)
(* differences to the base are written.  A job that built its base when    *)
(* its strategy had been switched away, or with parameters that were not   *)
(* the table's, compares with the wrong base.                              *)
StoredIsWhatWasEvaluated ==
    [][\A best \in Dicts(Parameters) :
          /\ tuning.at = "optimize" /\ DOMAIN best = ParametersOf[tuning.of]
          /\ tuning.current
          /\ Apply(best)
          => Instance(tuning.of, stored'[tuning.of]) = best]_improvementVars
=============================================================================
