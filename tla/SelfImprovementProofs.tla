------------------------ MODULE SelfImprovementProofs ------------------------
(***************************************************************************)
(* The two improvement jobs keep the strategy and its parameters in order, *)
(* whatever the requests, the clock and restarts do.  The command loop     *)
(* changes nothing the jobs look at, so its steps count as Elsewhere; its  *)
(* own types are proved at the end.                                        *)
(***************************************************************************)
EXTENDS Commands, FiniteSetTheorems, TLAPS

-----------------------------------------------------------------------------
(* Dicts of parameters                                                     *)

LEMMA DictIsFunction ==
    ASSUME NEW P, NEW d
    PROVE  d \in Dicts(P) <=> DOMAIN d \subseteq P /\ d \in [DOMAIN d -> Values]
  BY DEF Dicts

LEMMA EmptyIsDict ==
    ASSUME NEW P
    PROVE  Empty \in Dicts(P) /\ DOMAIN Empty = {}
  BY DEF Empty, Dicts

LEMMA LargerDicts ==
    ASSUME NEW s \in Strategies, NEW d \in Dicts(ParametersOf[s])
    PROVE  d \in Dicts(Parameters)
  BY DictIsFunction DEF Parameters

LEMMA UpdateAt ==
    ASSUME NEW d, NEW e
    PROVE  /\ \A p : p \in DOMAIN Update(d, e) <=> p \in DOMAIN d \/ p \in DOMAIN e
           /\ \A p \in DOMAIN e : Update(d, e)[p] = e[p]
           /\ \A p \in DOMAIN d : p \notin DOMAIN e => Update(d, e)[p] = d[p]
  BY DEF Update

LEMMA UpdateIsDict ==
    ASSUME NEW P, NEW d \in Dicts(P), NEW e \in Dicts(P)
    PROVE  Update(d, e) \in Dicts(P)
  <1>1. /\ DOMAIN d \subseteq P /\ d \in [DOMAIN d -> Values]
        /\ DOMAIN e \subseteq P /\ e \in [DOMAIN e -> Values]
    BY DictIsFunction
  <1>2. Update(d, e) \in [DOMAIN d \cup DOMAIN e -> Values]
    BY <1>1 DEF Update
  <1> QED  BY <1>1, <1>2, DictIsFunction

(* What a strategy runs with has a value for each of its parameters.       *)
LEMMA InstanceAt ==
    ASSUME SelfImprovementAssumption, NEW s \in Strategies,
           NEW d \in Dicts(ParametersOf[s])
    PROVE  /\ Instance(s, d) \in [ParametersOf[s] -> Values]
           /\ \A p \in DOMAIN d : Instance(s, d)[p] = d[p]
           /\ \A p \in ParametersOf[s] :
                  p \notin DOMAIN d => Instance(s, d)[p] = Factory
  <1> DEFINE F == [p \in ParametersOf[s] |-> Factory]
  <1>1. F \in Dicts(ParametersOf[s]) /\ DOMAIN F = ParametersOf[s]
    BY DictIsFunction DEF SelfImprovementAssumption
  <1>2. Instance(s, d) = Update(F, d)
    BY DEF Instance
  <1>3. \A p \in ParametersOf[s] : F[p] = Factory
    OBVIOUS
  <1> HIDE DEF F
  <1>4. DOMAIN d \subseteq ParametersOf[s]
    BY DictIsFunction
  <1>5. Update(F, d) \in [ParametersOf[s] -> Values]
    <2>1. Update(F, d) \in Dicts(ParametersOf[s])
      BY <1>1, UpdateIsDict
    <2>2. DOMAIN Update(F, d) = ParametersOf[s]
      BY <1>1, <1>4, UpdateAt
    <2> QED  BY <2>1, <2>2, DictIsFunction
  <1>6. \A p \in DOMAIN d : Update(F, d)[p] = d[p]
    BY UpdateAt
  <1>7. \A p \in ParametersOf[s] : p \notin DOMAIN d => Update(F, d)[p] = Factory
    BY <1>1, <1>3, UpdateAt
  <1> QED  BY <1>2, <1>5, <1>6, <1>7

LEMMA ChangedAt ==
    ASSUME NEW P, NEW base, NEW best \in [P -> Values]
    PROVE  /\ \A p : p \in DOMAIN Changed(base, best) <=> p \in P /\ base[p] # best[p]
           /\ \A p \in DOMAIN Changed(base, best) : Changed(base, best)[p] = best[p]
  <1>1. Changed(base, best) = [p \in {q \in P : base[q] # best[q]} |-> best[p]]
    BY DEF Changed, RestrictDomain, Restrict
  <1> QED  BY <1>1

LEMMA ChangedIsDict ==
    ASSUME NEW P, NEW base, NEW best \in [P -> Values]
    PROVE  Changed(base, best) \in Dicts(P)
  <1>1. Changed(base, best) \in [DOMAIN Changed(base, best) -> Values]
    <2>1. Changed(base, best) = [p \in {q \in P : base[q] # best[q]} |-> best[p]]
      BY DEF Changed, RestrictDomain, Restrict
    <2> QED  BY <2>1
  <1>2. DOMAIN Changed(base, best) \subseteq P
    BY ChangedAt
  <1> QED  BY <1>1, <1>2, DictIsFunction

(* Writing the differences to what a strategy runs with makes it run with  *)
(* the new parameters; without a difference it does so already.            *)
LEMMA DifferencesSuffice ==
    ASSUME SelfImprovementAssumption, NEW s \in Strategies,
           NEW d \in Dicts(ParametersOf[s]),
           NEW best \in [ParametersOf[s] -> Values]
    PROVE  LET changed == Changed(Instance(s, d), best)
           IN  /\ Instance(s, Update(d, changed)) = best
               /\ DOMAIN changed = {} => Instance(s, d) = best
  <1> DEFINE base == Instance(s, d)
             changed == Changed(base, best)
             new == Update(d, changed)
  <1>1. /\ base \in [ParametersOf[s] -> Values]
        /\ \A p \in DOMAIN d : base[p] = d[p]
        /\ \A p \in ParametersOf[s] : p \notin DOMAIN d => base[p] = Factory
    BY InstanceAt
  <1> HIDE DEF base
  <1>2. /\ \A p : p \in DOMAIN changed <=> p \in ParametersOf[s] /\ base[p] # best[p]
        /\ \A p \in DOMAIN changed : changed[p] = best[p]
    BY ChangedAt
  <1>3. changed \in Dicts(ParametersOf[s])
    BY ChangedIsDict
  <1> HIDE DEF changed
  <1>4. /\ \A p : p \in DOMAIN new <=> p \in DOMAIN d \/ p \in DOMAIN changed
        /\ \A p \in DOMAIN changed : new[p] = changed[p]
        /\ \A p \in DOMAIN d : p \notin DOMAIN changed => new[p] = d[p]
    BY UpdateAt
  <1>5. new \in Dicts(ParametersOf[s])
    BY <1>3, UpdateIsDict
  <1> HIDE DEF new
  <1>6. /\ Instance(s, new) \in [ParametersOf[s] -> Values]
        /\ \A p \in DOMAIN new : Instance(s, new)[p] = new[p]
        /\ \A p \in ParametersOf[s] : p \notin DOMAIN new => Instance(s, new)[p] = Factory
    BY <1>5, InstanceAt
  <1>7. ASSUME NEW p \in ParametersOf[s] PROVE Instance(s, new)[p] = best[p]
    <2>1. CASE p \in DOMAIN changed
      BY <2>1, <1>2, <1>4, <1>6
    <2>2. CASE p \notin DOMAIN changed /\ p \in DOMAIN d
      BY <2>2, <1>1, <1>2, <1>4, <1>6
    <2>3. CASE p \notin DOMAIN changed /\ p \notin DOMAIN d
      BY <2>3, <1>1, <1>2, <1>4, <1>6
    <2> QED  BY <2>1, <2>2, <2>3
  <1>8. Instance(s, new) = best
    BY <1>6, <1>7
  <1>9. DOMAIN changed = {} => base = best
    BY <1>1, <1>2
  <1> QED  BY <1>8, <1>9 DEF new, changed, base
-----------------------------------------------------------------------------
(* The invariant                                                           *)

(* A step of the command loop or of the user, or none at all.              *)
Elsewhere ==
    /\ UNCHANGED <<memory, database, now, history, review, tuning>>
    /\ running' \in BOOLEAN
    /\ events' \in 0 .. MaxEvents /\ events <= events'

ImprovementNext == ReviewStep \/ TuningStep \/ Tick \/ Restart \/ Elsewhere

TypesOK ==
    /\ ImprovementTypeOK
    /\ DOMAIN stored = Strategies
    /\ now <= events
    /\ review.at = "assign" => review.loaded \in Dicts(Parameters)
    /\ review.at = "arena" => review.from \in Strategies
    /\ review.at = "recorded" => review.to \in Strategies
    /\ tuning.at \in {"candles", "optimize", "applied", "adopt"} =>
           tuning.of \in Strategies
    /\ tuning.at = "applied" => tuning = [at |-> "applied", of |-> tuning.of]

(* The review acts on the strategy that is active.                         *)
SwitchLeadsOn ==
    /\ review.at = "arena" => review.from = name
    /\ review.at = "recorded" => review.to = switched.to /\ ~forgot
    /\ switched # NoSwitch => switched.from # switched.to

LatestInForce ==
    switched # NoSwitch /\ ~forgot =>
        name = IF review.at = "recorded" THEN switched.from ELSE switched.to

(* The cooldown was tested steps before the parameters are stored.         *)
StillRested == tuning.at = "optimize" => Rested(tuning.of)

RacesAreNoted == Overlap => raced

(* The strategy in params is the active one, except while the table        *)
(* already has the newer parameters of a tuning, or after a failed read:   *)
(* what a job is about to assign is right even then.                       *)
ParametersFollow ==
    ~raced =>
        /\ review.at = "assign" => review.loaded = stored[name]
        /\ tuning.at = "adopt" => tuning.of = name
        /\ ~missed /\ review.at \notin {"load", "assign"} =>
               /\ DOMAIN params \subseteq ParametersOf[name]
               /\ tuning.at \notin {"applied", "adopt"} \/ tuning.of # name =>
                      params = stored[name]

BaseIsStored ==
    tuning.at = "optimize" /\ tuning.current =>
        tuning.base = Instance(tuning.of, stored[tuning.of])

IInv == /\ TypesOK
        /\ SwitchLeadsOn
        /\ LatestInForce
        /\ StillRested
        /\ RacesAreNoted
        /\ ParametersFollow
        /\ BaseIsStored

LEMMA StoredIsDict ==
    ASSUME TypesOK, NEW s \in Strategies
    PROVE  /\ stored[s] \in Dicts(ParametersOf[s])
           /\ stored[s] \in Dicts(Parameters)
           /\ DOMAIN stored[s] \subseteq ParametersOf[s]
  <1>1. stored[s] \in Dicts(ParametersOf[s])
    BY DEF TypesOK, ImprovementTypeOK
  <1>2. DOMAIN stored[s] \subseteq ParametersOf[s]
    BY <1>1, DictIsFunction
  <1> QED  BY <1>1, <1>2, LargerDicts

LEMMA InitInvariant ==
    ASSUME SelfImprovementAssumption, Init
    PROVE  IInv
  <1>1. TypesOK
    <2>1. \A P : Empty \in Dicts(P)
      BY EmptyIsDict
    <2> USE DEF Init, SelfImprovementAssumption
    <2>2. \A s \in Strategies : stored[s] \in Dicts(ParametersOf[s])
      BY <2>1
    <2>3. name \in Strategies /\ params \in Dicts(Parameters)
      BY <2>1
    <2>4. adjusted \in [Strategies -> Int]
      BY DEF Never
    <2>5. switched \in [from : Strategies, to : Strategies, at : Int]
      BY DEF NoSwitch, Never
    <2>6. {running, forgot, raced, missed} \subseteq BOOLEAN
      OBVIOUS
    <2>7. now \in 0 .. MaxEvents /\ events \in 0 .. MaxEvents /\ now <= events
      OBVIOUS
    <2>8. review.at = "idle" /\ tuning.at = "idle" /\ DOMAIN stored = Strategies
      BY DEF Resting
    <2> QED  BY <2>2, <2>3, <2>4, <2>5, <2>6, <2>7, <2>8
             DEF TypesOK, ImprovementTypeOK, Jobs
  <1>2. SwitchLeadsOn /\ StillRested /\ RacesAreNoted /\ BaseIsStored
    BY DEF Init, SwitchLeadsOn, StillRested, RacesAreNoted, BaseIsStored, Overlap, Resting
  <1>3. LatestInForce
    BY DEF Init, LatestInForce
  <1>4. ParametersFollow
    BY EmptyIsDict DEF Init, ParametersFollow, Resting, SelfImprovementAssumption
  <1> QED  BY <1>1, <1>2, <1>3, <1>4 DEF IInv

LEMMA CommandsAreElsewhere ==
    ASSUME SelfImprovementAssumption, TypesOK, [Next]_vars
    PROVE  ImprovementNext
  <1> USE DEF ImprovementNext, Elsewhere, TypesOK, ImprovementTypeOK,
              SelfImprovementAssumption, memory, database, clock, history
  <1>1. CASE ReviewStep \/ TuningStep \/ Tick \/ RestartAll
    BY <1>1 DEF RestartAll
  <1>2. ASSUME NEW c \in Sent, Send(c) PROVE ImprovementNext
    BY <1>2 DEF Send
  <1>3. CASE UNCHANGED improvementVars
    BY <1>3 DEF improvementVars
  <1>4. CASE PollAll \/ PollFails
    BY <1>3, <1>4 DEF PollAll, PollFails, Poll
  <1>5. CASE LoopStep
    <2>1. CASE Stop
      <3>1. running' \in BOOLEAN
        BY <2>1, Zenon DEF Stop
      <3> QED  BY <2>1, <3>1 DEF Stop
    <2>2. CASE Serve \/ Served \/ \E n \in 0 .. MaxEvents : Answer(n)
      BY <1>3, <2>2 DEF Serve, Served, Answer
    <2> QED  BY <1>5, <2>1, <2>2 DEF LoopStep
  <1>6. CASE UNCHANGED vars
    BY <1>3, <1>6 DEF vars
  <1> QED  BY <1>1, <1>2, <1>4, <1>5, <1>6 DEF Next

LEMMA TypesKept ==
    ASSUME SelfImprovementAssumption, TypesOK, ImprovementNext
    PROVE  TypesOK'
  <1> USE DEF TypesOK, ImprovementTypeOK, Jobs, Resting, memory, database, clock, history
  <1>1. CASE StartReview \/ ReviewFails \/ KeepStrategy \/ EndReview
    BY <1>1 DEF StartReview, ReviewFails, KeepStrategy, EndReview
  <1>2. ASSUME NEW to \in Strategies, Switch(to) PROVE TypesOK'
    <2>1. switched' \in [from : Strategies, to : Strategies, at : Int]
      BY <1>2 DEF Switch
    <2>2. {running', forgot', raced', missed'} \subseteq BOOLEAN
      <3>1. running' \in BOOLEAN /\ forgot' \in BOOLEAN /\ missed' \in BOOLEAN
        BY <1>2, Zenon DEF Switch
      <3>2. raced' \in BOOLEAN
        BY <1>2, Zenon DEF Switch, NoteOverlap
      <3> QED  BY <3>1, <3>2
    <2> QED  BY <1>2, <2>1, <2>2 DEF Switch
  <1>3. CASE SetName
    BY <1>3 DEF SetName, NoteOverlap
  <1>4. CASE LoadParameters
    <2>1. stored[name] \in Dicts(Parameters)
      BY StoredIsDict
    <2> QED  BY <1>4, <2>1 DEF LoadParameters, NoteOverlap
  <1>5. CASE AssignParameters
    BY <1>5 DEF AssignParameters
  <1>6. CASE StartTuning \/ TuningEnds
    BY <1>6 DEF StartTuning, TuningEnds
  <1>7. CASE Baseline
    BY <1>7 DEF Baseline
  <1>8. ASSUME NEW best \in Dicts(Parameters), Apply(best) PROVE TypesOK'
    <2> DEFINE changed == Changed(tuning.base, best)
    <2>1. tuning.of \in Strategies
      BY <1>8 DEF Apply
    <2>2. best \in [ParametersOf[tuning.of] -> Values]
      BY <1>8, DictIsFunction DEF Apply
    <2>3. Update(stored[tuning.of], changed) \in Dicts(ParametersOf[tuning.of])
      <3>1. changed \in Dicts(ParametersOf[tuning.of])
        BY <2>2, ChangedIsDict
      <3>2. stored[tuning.of] \in Dicts(ParametersOf[tuning.of])
        BY <2>1, StoredIsDict
      <3> QED  BY <3>1, <3>2, UpdateIsDict
    <2> HIDE DEF changed
    <2>4. CASE DOMAIN changed = {}
      BY <1>8, <2>4 DEF Apply, NoteOverlap, changed
    <2>5. CASE DOMAIN changed # {}
      <3>1. /\ stored' = [stored EXCEPT ![tuning.of] = Update(@, changed)]
            /\ adjusted' = [adjusted EXCEPT ![tuning.of] = now]
            /\ tuning' = [at |-> "applied", of |-> tuning.of]
        BY <1>8, <2>5 DEF Apply, changed
      <3>2. \A s \in Strategies : stored'[s] \in Dicts(ParametersOf[s])
        BY <2>1, <2>3, <3>1
      <3>3. adjusted' \in [Strategies -> Int]
        <4>1. now \in Int
          BY DEF SelfImprovementAssumption
        <4> QED  BY <3>1, <4>1
      <3>4. DOMAIN stored' = Strategies
        BY <3>1
      <3> QED  BY <1>8, <2>1, <3>1, <3>2, <3>3, <3>4 DEF Apply, NoteOverlap
    <2> QED  BY <2>4, <2>5
  <1>9. CASE StillActive
    BY <1>9 DEF StillActive, NoteOverlap
  <1>10. CASE Adopt
    <2>1. stored[tuning.of] \in Dicts(Parameters)
      BY <1>10, StoredIsDict DEF Adopt
    <2> QED  BY <1>10, <2>1 DEF Adopt
  <1>11. CASE Tick
    BY <1>11 DEF Tick, SelfImprovementAssumption
  <1>12. CASE Restart
    <2>1. stored[Default] \in Dicts(Parameters)
      BY StoredIsDict DEF SelfImprovementAssumption
    <2>2. {running', forgot', raced', missed'} \subseteq BOOLEAN
      <3>1. running' \in BOOLEAN /\ raced' \in BOOLEAN /\ missed' \in BOOLEAN
        BY <1>12, Zenon DEF Restart
      <3>2. forgot' \in BOOLEAN
        BY <1>12, Zenon DEF Restart
      <3> QED  BY <3>1, <3>2
    <2> QED  BY <1>12, <2>1, <2>2 DEF Restart, SelfImprovementAssumption
  <1>13. CASE Elsewhere
    BY <1>13 DEF Elsewhere
  <1>14. CASE LoadFails
    <2>1. {running', forgot', raced', missed'} \subseteq BOOLEAN
      <3>1. /\ running' \in BOOLEAN /\ forgot' \in BOOLEAN
            /\ raced' \in BOOLEAN /\ missed' \in BOOLEAN
        BY <1>14, Zenon DEF LoadFails
      <3> QED  BY <3>1
    <2> QED  BY <1>14, <2>1 DEF LoadFails
  <1>15. CASE AdoptFails
    <2>1. {running', forgot', raced', missed'} \subseteq BOOLEAN
      <3>1. /\ running' \in BOOLEAN /\ forgot' \in BOOLEAN
            /\ raced' \in BOOLEAN /\ missed' \in BOOLEAN
        BY <1>15, Zenon DEF AdoptFails
      <3> QED  BY <3>1
    <2> QED  BY <1>15, <2>1 DEF AdoptFails
  <1> QED  BY <1>1, <1>2, <1>3, <1>4, <1>5, <1>6, <1>7, <1>8, <1>9, <1>10, <1>11, <1>12,
              <1>13, <1>14, <1>15
           DEF ImprovementNext, ReviewStep, TuningStep

LEMMA SwitchKept ==
    ASSUME TypesOK, SwitchLeadsOn, LatestInForce, ImprovementNext
    PROVE  SwitchLeadsOn' /\ LatestInForce'
  <1> USE DEF SwitchLeadsOn, LatestInForce, memory, database, clock, history
  <1>1. CASE StartReview \/ ReviewFails \/ KeepStrategy \/ EndReview
    BY <1>1 DEF StartReview, ReviewFails, KeepStrategy, EndReview, Resting
  <1>2. ASSUME NEW to \in Strategies, Switch(to) PROVE SwitchLeadsOn' /\ LatestInForce'
    <2>1. /\ switched' = [from |-> name, to |-> to, at |-> now]
          /\ review' = [at |-> "recorded", to |-> to]
          /\ forgot' = FALSE /\ to # name /\ UNCHANGED name
      BY <1>2 DEF Switch
    <2> QED  BY <2>1
  <1>3. CASE SetName
    BY <1>3 DEF SetName
  <1>4. CASE LoadParameters \/ LoadFails \/ AssignParameters
    BY <1>4 DEF LoadParameters, LoadFails, AssignParameters, Resting
  <1>5. CASE TuningStep
    BY <1>5 DEF TuningStep, StartTuning, TuningEnds, Baseline, Apply, StillActive, Adopt,
                AdoptFails
  <1>6. CASE Tick \/ Elsewhere
    BY <1>6 DEF Tick, Elsewhere
  <1>7. CASE Restart
    <2>1. review'.at = "idle" /\ UNCHANGED switched
      BY <1>7 DEF Restart, Resting
    <2>2. switched # NoSwitch => forgot'
      BY <1>7 DEF Restart
    <2> QED  BY <2>1, <2>2
  <1> QED  BY <1>1, <1>2, <1>3, <1>4, <1>5, <1>6, <1>7 DEF ImprovementNext, ReviewStep

LEMMA RestKept ==
    ASSUME SelfImprovementAssumption, TypesOK, StillRested, ImprovementNext
    PROVE  StillRested'
  <1> USE DEF StillRested, Rested, memory, database, clock, history
  <1>1. CASE ReviewStep
    BY <1>1 DEF ReviewStep, StartReview, ReviewFails, KeepStrategy, Switch, SetName,
                LoadParameters, LoadFails, AssignParameters, EndReview
  <1>2. CASE Baseline
    BY <1>2 DEF Baseline
  <1>3. CASE StartTuning \/ TuningEnds \/ StillActive \/ Adopt \/ AdoptFails
    BY <1>3 DEF StartTuning, TuningEnds, StillActive, Adopt, AdoptFails, Resting, TypesOK
  <1>4. ASSUME NEW best \in Dicts(Parameters), Apply(best) PROVE StillRested'
    BY <1>4 DEF Apply, Resting
  <1>5. CASE Tick
    <2>1. now \in Int /\ TuningCooldown \in Int
      BY DEF TypesOK, ImprovementTypeOK, SelfImprovementAssumption
    <2>2. tuning.at = "optimize" => adjusted[tuning.of] \in Int
      BY DEF TypesOK, ImprovementTypeOK
    <2> QED  BY <1>5, <2>1, <2>2 DEF Tick
  <1>6. CASE Restart \/ Elsewhere
    BY <1>6 DEF Restart, Elsewhere, Resting
  <1> QED  BY <1>1, <1>2, <1>3, <1>4, <1>5, <1>6 DEF ImprovementNext, TuningStep

LEMMA RacesKept ==
    ASSUME RacesAreNoted, ImprovementNext
    PROVE  RacesAreNoted'
  <1> USE DEF RacesAreNoted, Overlap, Resting, memory, database, clock, history
  <1>1. CASE \/ StartReview \/ ReviewFails \/ KeepStrategy \/ EndReview
             \/ LoadFails \/ AssignParameters
    BY <1>1 DEF StartReview, ReviewFails, KeepStrategy, EndReview, LoadFails,
                AssignParameters
  <1>2. CASE SetName \/ LoadParameters \/ StillActive \/ \E to \in Strategies : Switch(to)
    BY <1>2 DEF SetName, LoadParameters, StillActive, Switch, NoteOverlap
  <1>3. ASSUME NEW best \in Dicts(Parameters), Apply(best) PROVE RacesAreNoted'
    BY <1>3 DEF Apply, NoteOverlap
  <1>4. CASE StartTuning \/ TuningEnds \/ Baseline \/ Adopt \/ AdoptFails
    BY <1>4 DEF StartTuning, TuningEnds, Baseline, Adopt, AdoptFails
  <1>5. CASE Tick \/ Restart \/ Elsewhere
    BY <1>5 DEF Tick, Restart, Elsewhere
  <1> QED  BY <1>1, <1>2, <1>3, <1>4, <1>5 DEF ImprovementNext, ReviewStep, TuningStep

(* Without a race a job that is about to set the parameters is alone.      *)
LEMMA ParametersKept ==
    ASSUME SelfImprovementAssumption, TypesOK, RacesAreNoted, ParametersFollow,
           ImprovementNext
    PROVE  ParametersFollow'
  <1>1. SUFFICES ASSUME ~raced' PROVE ParametersFollow'
    BY DEF ParametersFollow
  <1> USE DEF ParametersFollow, RacesAreNoted, Overlap, Resting, memory, database, clock,
              history
  <1>2. CASE StartReview \/ ReviewFails \/ KeepStrategy \/ EndReview
    BY <1>1, <1>2 DEF StartReview, ReviewFails, KeepStrategy, EndReview
  <1>3. ASSUME NEW to \in Strategies, Switch(to) PROVE ParametersFollow'
    <2>1. /\ review.at = "arena" /\ review' = [at |-> "recorded", to |-> to]
          /\ UNCHANGED <<name, params, stored, tuning, missed>>
      BY <1>3 DEF Switch
    <2>2. ~raced
      BY <1>1, <1>3 DEF Switch, NoteOverlap
    <2> QED  BY <2>1, <2>2
  <1>4. CASE SetName
    BY <1>1, <1>4 DEF SetName, NoteOverlap
  <1>5. CASE LoadParameters
    BY <1>1, <1>5 DEF LoadParameters, NoteOverlap
  <1>6. CASE AssignParameters
    <2>1. name \in Strategies
      BY DEF TypesOK, ImprovementTypeOK
    <2>2. params' = stored[name] /\ UNCHANGED <<name, stored, tuning>>
          /\ review' = [at |-> "judge"]
      BY <1>1, <1>6 DEF AssignParameters
    <2>3. DOMAIN stored[name] \subseteq ParametersOf[name]
      BY <2>1, StoredIsDict
    <2>4. tuning.at \notin {"applied", "adopt"}
      BY <1>1, <1>6 DEF AssignParameters
    <2> QED  BY <2>2, <2>3, <2>4
  <1>7. CASE StartTuning \/ TuningEnds \/ LoadFails \/ AdoptFails
    BY <1>1, <1>7 DEF StartTuning, TuningEnds, LoadFails, AdoptFails
  <1>8. CASE Baseline
    BY <1>1, <1>8 DEF Baseline
  <1>9. ASSUME NEW best \in Dicts(Parameters), Apply(best) PROVE ParametersFollow'
    <2>1. /\ tuning.at = "optimize" /\ tuning.of \in Strategies
          /\ UNCHANGED <<name, params, review, missed>> /\ ~raced
      BY <1>1, <1>9 DEF Apply, NoteOverlap, TypesOK
    <2>2. CASE tuning' = [at |-> "idle"] /\ UNCHANGED stored
      BY <2>1, <2>2
    <2>3. CASE /\ stored' = [stored EXCEPT ![tuning.of] =
                                 Update(@, Changed(tuning.base, best))]
               /\ tuning' = [at |-> "applied", of |-> tuning.of]
      <3>1. review.at \notin {"recorded", "load", "assign"}
        BY <1>1, <1>9, <2>1, <2>3 DEF Apply, NoteOverlap
      <3>2. name # tuning.of => stored'[name] = stored[name]
        BY <2>3, <2>1 DEF TypesOK, ImprovementTypeOK
      <3> QED  BY <2>1, <2>3, <3>1, <3>2
    <2> QED  BY <1>9, <2>2, <2>3 DEF Apply
  <1>10. CASE StillActive
    <2>1. tuning = [at |-> "applied", of |-> tuning.of] /\ ~raced
      BY <1>1, <1>10 DEF StillActive, NoteOverlap, TypesOK
    <2>2. CASE tuning.of = name
      <3>1. tuning' = [at |-> "adopt", of |-> tuning.of]
        BY <1>10, <2>1, <2>2 DEF StillActive
      <3> QED  BY <1>1, <1>10, <2>1, <2>2, <3>1 DEF StillActive, NoteOverlap
    <2>3. CASE tuning.of # name
      BY <1>1, <1>10, <2>1, <2>3 DEF StillActive, NoteOverlap
    <2> QED  BY <2>2, <2>3
  <1>11. CASE Adopt
    <2>1. tuning.of = name /\ ~raced /\ name \in Strategies
      BY <1>1, <1>11 DEF Adopt, TypesOK, ImprovementTypeOK
    <2>2. params' = stored[name] /\ UNCHANGED <<name, stored, review>>
          /\ tuning' = [at |-> "idle"]
      BY <1>11, <2>1 DEF Adopt
    <2>3. DOMAIN stored[name] \subseteq ParametersOf[name]
      BY <2>1, StoredIsDict
    <2>4. review.at # "assign"
      BY <1>11, <2>1 DEF Adopt
    <2> QED  BY <2>2, <2>3, <2>4
  <1>12. CASE Tick \/ Elsewhere
    BY <1>1, <1>12 DEF Tick, Elsewhere
  <1>13. CASE Restart
    <2>1. DOMAIN stored[Default] \subseteq ParametersOf[Default]
      BY StoredIsDict DEF SelfImprovementAssumption
    <2> QED  BY <1>13, <2>1 DEF Restart
  <1> QED  BY <1>2, <1>3, <1>4, <1>5, <1>6, <1>7, <1>8, <1>9, <1>10, <1>11, <1>12, <1>13
           DEF ImprovementNext, ReviewStep, TuningStep

LEMMA BaseKept ==
    ASSUME TypesOK, ParametersFollow, BaseIsStored, ImprovementNext
    PROVE  BaseIsStored'
  <1> USE DEF BaseIsStored, Resting, memory, database, clock, history
  <1>1. CASE \/ StartReview \/ ReviewFails \/ KeepStrategy \/ EndReview
             \/ LoadFails \/ AssignParameters
    BY <1>1 DEF StartReview, ReviewFails, KeepStrategy, EndReview, LoadFails,
                AssignParameters
  <1>2. CASE SetName \/ LoadParameters \/ \E to \in Strategies : Switch(to)
    BY <1>2 DEF SetName, LoadParameters, Switch, NoteOverlap
  <1>3. CASE Baseline
    <2>1. SUFFICES ASSUME tuning'.current PROVE BaseIsStored'
      BY DEF BaseIsStored
    <2>2. tuning.of = name /\ Settled
      BY <1>3, <2>1 DEF Baseline
    <2>3. params = stored[name]
      BY <1>3, <2>2 DEF Baseline, Settled, ParametersFollow
    <2>4. tuning'.base = Instance(name, stored[name]) /\ tuning'.of = name
      BY <1>3, <2>2, <2>3 DEF Baseline, ParametersFor
    <2> QED  BY <1>3, <2>4 DEF Baseline
  <1>4. CASE StartTuning \/ TuningEnds \/ StillActive \/ Adopt \/ AdoptFails
    BY <1>4 DEF StartTuning, TuningEnds, StillActive, Adopt, AdoptFails, TypesOK
  <1>5. ASSUME NEW best \in Dicts(Parameters), Apply(best) PROVE BaseIsStored'
    BY <1>5 DEF Apply
  <1>6. CASE Tick \/ Restart \/ Elsewhere
    BY <1>6 DEF Tick, Restart, Elsewhere
  <1> QED  BY <1>1, <1>2, <1>3, <1>4, <1>5, <1>6 DEF ImprovementNext, ReviewStep, TuningStep

LEMMA StepInvariant ==
    ASSUME SelfImprovementAssumption, IInv, [Next]_vars
    PROVE  IInv'
  <1>1. ImprovementNext
    BY CommandsAreElsewhere DEF IInv
  <1>2. TypesOK'
    BY <1>1, TypesKept DEF IInv
  <1>3. SwitchLeadsOn' /\ LatestInForce'
    BY <1>1, SwitchKept DEF IInv
  <1>4. StillRested'
    BY <1>1, RestKept DEF IInv
  <1>5. RacesAreNoted'
    BY <1>1, RacesKept DEF IInv
  <1>6. ParametersFollow'
    BY <1>1, ParametersKept DEF IInv
  <1>7. BaseIsStored'
    BY <1>1, BaseKept DEF IInv
  <1> QED  BY <1>2, <1>3, <1>4, <1>5, <1>6, <1>7 DEF IInv

-----------------------------------------------------------------------------
(* The steps                                                               *)

LEMMA WholeDays ==
    ASSUME NEW x \in Int, NEW d \in Nat \ {0}, NEW n \in Nat, x \div d >= n
    PROVE  x >= n * d
  OBVIOUS

LEMMA SwitchWaits ==
    ASSUME SelfImprovementAssumption, TypesOK, NEW to \in Strategies, Switch(to),
           switched # NoSwitch
    PROVE  switched'.at - switched.at >= SwitchCooldown * Day
  <1>1. now - switched.at \in Int /\ Day \in Nat \ {0} /\ SwitchCooldown \in Nat
    BY DEF TypesOK, ImprovementTypeOK, SelfImprovementAssumption
  <1>2. switched'.at = now
    BY DEF Switch
  <1>3. (now - switched.at) \div Day >= SwitchCooldown
    BY <1>1 DEF Switch, CoolingDown, DaysSince
  <1>4. now - switched.at >= SwitchCooldown * Day
    BY <1>1, <1>3, WholeDays
  <1> QED  BY <1>2, <1>4

LEMMA AdjustmentWaits ==
    ASSUME TypesOK, StillRested, NEW best \in Dicts(Parameters), Apply(best),
           NEW s \in Strategies, adjusted'[s] # adjusted[s], adjusted[s] # Never
    PROVE  adjusted'[s] - adjusted[s] >= TuningCooldown
  <1>1. tuning.at = "optimize" /\ tuning.of \in Strategies
    BY DEF Apply, TypesOK
  <1>2. adjusted' = [adjusted EXCEPT ![tuning.of] = now]
    BY DEF Apply
  <1>3. DOMAIN adjusted = Strategies
    BY DEF TypesOK, ImprovementTypeOK
  <1>4. s = tuning.of /\ adjusted'[s] = now
    BY <1>1, <1>2, <1>3
  <1>5. Rested(s)
    BY <1>1, <1>4 DEF StillRested
  <1> QED  BY <1>4, <1>5 DEF Rested

Waits ==
    /\ switched' # switched /\ switched # NoSwitch =>
           switched'.at - switched.at >= SwitchCooldown * Day
    /\ \A s \in Strategies :
           adjusted'[s] # adjusted[s] /\ adjusted[s] # Never =>
               adjusted'[s] - adjusted[s] >= TuningCooldown

LEMMA StepsWait ==
    ASSUME SelfImprovementAssumption, IInv, [Next]_vars
    PROVE  Waits
  <1>1. ImprovementNext
    BY CommandsAreElsewhere DEF IInv
  <1>2. CASE \E to \in Strategies : Switch(to)
    <2>1. UNCHANGED adjusted
      BY <1>2 DEF Switch
    <2> QED  BY <1>2, <2>1, SwitchWaits DEF Waits, IInv
  <1>3. CASE \E best \in Dicts(Parameters) : Apply(best)
    <2>1. UNCHANGED switched
      BY <1>3 DEF Apply
    <2> QED  BY <1>3, <2>1, AdjustmentWaits DEF Waits, IInv
  <1>4. ASSUME ~\E to \in Strategies : Switch(to),
               ~\E best \in Dicts(Parameters) : Apply(best)
        PROVE  UNCHANGED <<switched, adjusted>>
    <2> USE DEF database
    <2>1. CASE ReviewStep
      BY <1>4, <2>1 DEF ReviewStep, StartReview, ReviewFails, KeepStrategy, SetName,
                        LoadParameters, LoadFails, AssignParameters, EndReview
    <2>2. CASE TuningStep
      BY <1>4, <2>2 DEF TuningStep, StartTuning, TuningEnds, Baseline, StillActive, Adopt,
                        AdoptFails
    <2>3. CASE Tick \/ Restart \/ Elsewhere
      BY <2>3 DEF Tick, Restart, Elsewhere
    <2> QED  BY <1>1, <2>1, <2>2, <2>3 DEF ImprovementNext
  <1>5. CASE UNCHANGED <<switched, adjusted>>
    BY <1>5 DEF Waits
  <1> QED  BY <1>2, <1>3, <1>4, <1>5

LEMMA ApplyStoresTheBest ==
    ASSUME SelfImprovementAssumption, TypesOK, BaseIsStored,
           NEW best \in Dicts(Parameters), tuning.at = "optimize",
           DOMAIN best = ParametersOf[tuning.of], tuning.current, Apply(best)
    PROVE  Instance(tuning.of, stored'[tuning.of]) = best
  <1> DEFINE s == tuning.of
             changed == Changed(tuning.base, best)
  <1>1. s \in Strategies /\ DOMAIN stored = Strategies
    BY DEF TypesOK
  <1>2. best \in [ParametersOf[s] -> Values]
    BY DictIsFunction
  <1>3. stored[s] \in Dicts(ParametersOf[s])
    BY <1>1, StoredIsDict
  <1>4. tuning.base = Instance(s, stored[s])
    BY DEF BaseIsStored
  <1>5. /\ Instance(s, Update(stored[s], changed)) = best
        /\ DOMAIN changed = {} => Instance(s, stored[s]) = best
    BY <1>1, <1>2, <1>3, <1>4, DifferencesSuffice
  <1>6. CASE DOMAIN changed = {}
    BY <1>5, <1>6 DEF Apply
  <1>7. CASE DOMAIN changed # {}
    <2>1. stored' = [stored EXCEPT ![s] = Update(@, changed)]
      BY <1>7 DEF Apply
    <2> QED  BY <1>1, <1>5, <2>1
  <1> QED  BY <1>6, <1>7

-----------------------------------------------------------------------------
(* The theorems                                                            *)

LEMMA InvariantHolds == Spec => []IInv
  <1>1. SpecInit => IInv
    BY SelfImprovementAssumption, InitInvariant DEF SpecInit
  <1>2. IInv /\ [Next]_vars => IInv'
    BY SelfImprovementAssumption, StepInvariant
  <1> QED  BY <1>1, <1>2, PTL DEF Spec

(* The globals, the tables, the clock and the jobs keep their types,       *)
(* whatever dicts of parameters the strategies take.                       *)
THEOREM TypeCorrect == Spec => []ImprovementTypeOK
  <1>1. IInv => ImprovementTypeOK
    BY DEF IInv, TypesOK
  <1> QED  BY <1>1, InvariantHolds, PTL

(* The latest switch recorded is in force and a rollback would undo it,    *)
(* for any strategies, cooldowns and restarts.                             *)
THEOREM SwitchStaysInForce == Spec => []SwitchIsInForce
  <1>1. IInv => SwitchIsInForce
    <2> SUFFICES ASSUME IInv PROVE SwitchIsInForce
      OBVIOUS
    <2> QED  BY DEF IInv, SwitchLeadsOn, LatestInForce, SwitchIsInForce, Proposal
  <1> QED  BY <1>1, InvariantHolds, PTL

(* The parameters in memory are the table's for the active strategy, and   *)
(* it can be built, unless the jobs raced since the last restart or the    *)
(* latest read of what was to be assigned failed.                          *)
THEOREM ParametersStayCurrent == Spec => []ParametersAreCurrent
  <1>1. IInv => ParametersAreCurrent
    <2> SUFFICES ASSUME IInv PROVE ParametersAreCurrent
      OBVIOUS
    <2> QED  BY DEF IInv, ParametersFollow, ParametersAreCurrent, Settled, Builds,
                ParametersFor
  <1> QED  BY <1>1, InvariantHolds, PTL

(* Switches and adjustments keep their cooldowns, although the tuning job  *)
(* tests its own long before it writes, and whatever restarts forget.      *)
THEOREM CooldownsAreKept == Spec => CooldownsHold
  <1>1. IInv /\ [Next]_vars => [Waits]_improvementVars
    BY SelfImprovementAssumption, StepsWait
  <1>2. Spec => [][Waits]_improvementVars
    BY <1>1, InvariantHolds, PTL DEF Spec
  <1> QED  BY <1>2, PTL DEF CooldownsHold, Waits

(* The table has what was evaluated, for dicts of any size.                *)
THEOREM EvaluatedIsStored == Spec => StoredIsWhatWasEvaluated
  <1> DEFINE Stores == \A best \in Dicts(Parameters) :
                 /\ tuning.at = "optimize" /\ DOMAIN best = ParametersOf[tuning.of]
                 /\ tuning.current
                 /\ Apply(best)
                 => Instance(tuning.of, stored'[tuning.of]) = best
  <1>1. IInv => Stores
    BY SelfImprovementAssumption, ApplyStoresTheBest DEF IInv
  <1> HIDE DEF Stores
  <1>2. Spec => [][Stores]_improvementVars
    BY <1>1, InvariantHolds, PTL
  <1> QED  BY <1>2, PTL DEF StoredIsWhatWasEvaluated, Stores

-----------------------------------------------------------------------------
(* The command loop                                                        *)

(* Every question that waits, in the inbox or in the queue, was sent as an *)
(* event of its own.                                                       *)
LoopTypes ==
    /\ inbox \in Seq(Sent) /\ asked \in Nat
    /\ asked + Len(inbox) <= events
    /\ flags \subseteq ToSet(Requests)
    /\ muted \in BOOLEAN /\ killed \in BOOLEAN
    /\ loop \in {"poll", "serve", "ended"}
    /\ usage.day \in Int /\ usage.count \in 0 .. DailyLimit

LEMMA AsksCounted ==
    ASSUME NEW s \in Seq(Sent), NEW n \in 0 .. Len(s)
    PROVE  LET asks == {i \in DOMAIN SubSeq(s, 1, n) : SubSeq(s, 1, n)[i] = "ask"}
           IN  Cardinality(asks) \in 0 .. n
  <1> DEFINE asks == {i \in DOMAIN SubSeq(s, 1, n) : SubSeq(s, 1, n)[i] = "ask"}
  <1>1. asks \subseteq 1 .. n
    OBVIOUS
  <1> HIDE DEF asks
  <1>2. IsFiniteSet(1 .. n) /\ Cardinality(1 .. n) = n
    BY FS_Interval
  <1>3. IsFiniteSet(asks) /\ Cardinality(asks) <= n
    BY <1>1, <1>2, FS_Subset
  <1>4. Cardinality(asks) \in 0 .. n
    BY <1>3, FS_CardinalityType
  <1> QED  BY <1>4 DEF asks

LEMMA PollTypes ==
    ASSUME LoopTypes, ImprovementTypeOK, NEW n \in 0 .. Len(inbox), Poll(n),
           loop' \in {"poll", "serve", "ended"}
    PROVE  LoopTypes'
  <1> DEFINE read == SubSeq(inbox, 1, n)
             asks == {i \in DOMAIN read : read[i] = "ask"}
             mutes == SelectSeq(read, LAMBDA c : c \in {"mute", "unmute"})
             last == Last(mutes) = "mute"
  <1>1. Cardinality(asks) \in 0 .. n
    BY AsksCounted DEF LoopTypes
  <1>2. /\ flags' = flags \cup (ToSet(read) \cap ToSet(Requests))
        /\ asked' = asked + Cardinality(asks)
        /\ killed' = (killed \/ "stop" \in ToSet(read))
        /\ muted' = IF mutes = <<>> THEN muted ELSE last
        /\ inbox' = SubSeq(inbox, n + 1, Len(inbox))
    BY DEF Poll, Handle
  <1>3. muted' \in BOOLEAN /\ killed' \in BOOLEAN
    <2>1. last \in BOOLEAN /\ ("stop" \in ToSet(read)) \in BOOLEAN
      OBVIOUS
    <2> HIDE DEF read, mutes, last
    <2>2. killed' \in BOOLEAN
      BY <1>2, Zenon DEF LoopTypes
    <2>3. muted' \in BOOLEAN
      BY <1>2, <2>1, Zenon DEF LoopTypes
    <2> QED  BY <2>2, <2>3
  <1> HIDE DEF mutes, last, asks
  <1>4. flags' \subseteq ToSet(Requests)
    BY <1>2 DEF LoopTypes
  <1> HIDE DEF read
  <1>5. inbox' \in Seq(Sent) /\ Len(inbox') = Len(inbox) - n
    BY <1>2 DEF LoopTypes
  <1>6. events' = events /\ events \in Nat
    BY DEF Poll, improvementVars, clock, ImprovementTypeOK
  <1>7. asked' \in Nat /\ asked' + Len(inbox') <= events'
    BY <1>1, <1>2, <1>5, <1>6 DEF LoopTypes
  <1> QED  BY <1>3, <1>4, <1>5, <1>7 DEF LoopTypes, Poll

LEMMA AnswerTypes ==
    ASSUME SelfImprovementAssumption, CommandsAssumption, LoopTypes, ImprovementTypeOK,
           NEW n \in 0 .. MaxEvents, Answer(n)
    PROVE  LoopTypes'
  <1>1. UsedToday \in Nat /\ UsedToday + n <= DailyLimit
    BY DEF Answer, WithinLimit, UsedToday, LoopTypes
  <1>2. now \div Day \in Int
    <2>1. now \in Int /\ Day \in Nat \ {0}
      BY DEF ImprovementTypeOK, SelfImprovementAssumption
    <2> QED  BY <2>1
  <1>3. usage'.day \in Int /\ usage'.count \in 0 .. DailyLimit
    BY <1>1, <1>2 DEF Answer, CommandsAssumption
  <1>4. asked' = 0 /\ UNCHANGED <<events, inbox, flags, muted, killed>> /\ loop' = "poll"
    BY DEF Answer, improvementVars, clock
  <1>5. asked' + Len(inbox') <= events'
    <2>1. Len(inbox) \in Nat /\ events \in Int /\ asked \in Nat
      BY DEF LoopTypes, ImprovementTypeOK
    <2> QED  BY <1>4, <2>1 DEF LoopTypes
  <1> QED  BY <1>3, <1>4, <1>5 DEF LoopTypes

LEMMA LoopTypesKept ==
    ASSUME SelfImprovementAssumption, CommandsAssumption, LoopTypes, ImprovementTypeOK,
           [Next]_vars
    PROVE  LoopTypes'
  <1>1. events \in Nat
    BY DEF ImprovementTypeOK
  <1>2. CASE UNCHANGED commandVars /\ (ReviewStep \/ TuningStep \/ Tick)
    <2>1. events' \in Nat /\ events' >= events
      <3>1. CASE ReviewStep
        BY <1>1, <3>1 DEF ReviewStep, StartReview, ReviewFails, KeepStrategy, SetName,
                          LoadParameters, LoadFails, AssignParameters, EndReview,
                          Switch, clock
      <3>2. CASE TuningStep
        BY <1>1, <3>2 DEF TuningStep, StartTuning, TuningEnds, Baseline, StillActive,
                          Adopt, AdoptFails, Apply, clock
      <3> QED  BY <1>1, <1>2, <3>1, <3>2 DEF Tick
    <2> QED  BY <1>1, <1>2, <2>1 DEF LoopTypes, commandVars
  <1>3. CASE RestartAll
    <2>1. events' = events + 1
      BY <1>3 DEF RestartAll, Restart
    <2>2. inbox' \in Seq(Sent) /\ Len(inbox') <= Len(inbox)
      <3>1. <<>> \in Seq(Sent) /\ Len(<<>>) = 0
        OBVIOUS
      <3>2. inbox \in Seq(Sent) /\ Len(inbox) \in Nat
        BY DEF LoopTypes
      <3>3. PICK i : i = inbox'
        OBVIOUS
      <3>4. i = <<>> \/ i = inbox
        BY <1>3, <3>3 DEF RestartAll
      <3>5. i \in Seq(Sent) /\ Len(i) <= Len(inbox)
        <4>1. CASE i = <<>>
          <5>1. i \in Seq(Sent) /\ Len(i) = 0
            BY <3>1, <4>1, Zenon
          <5> QED  BY <3>2, <5>1
        <4>2. CASE i = inbox
          BY <3>2, <4>2
        <4> QED  BY <3>4, <4>1, <4>2
      <3> QED  BY <3>3, <3>5
    <2>3. Len(inbox) \in Nat /\ Len(inbox') \in Nat /\ asked \in Nat
      BY <2>2 DEF LoopTypes
    <2>4. asked' \in Nat /\ asked' + Len(inbox') <= events'
      <3>1. asked + Len(inbox) <= events /\ asked' = 0
        BY <1>3 DEF RestartAll, LoopTypes
      <3> QED  BY <1>1, <2>1, <2>2, <2>3, <3>1
    <2>5. usage'.day \in Int /\ usage'.count \in 0 .. DailyLimit
      BY <1>3, CommandsAssumption DEF RestartAll, Never
    <2> QED  BY <1>3, <2>2, <2>4, <2>5 DEF RestartAll, LoopTypes
  <1>4. ASSUME NEW c \in Sent, Send(c) PROVE LoopTypes'
    <2>1. inbox' \in Seq(Sent) /\ Len(inbox') = Len(inbox) + 1 /\ Len(inbox) \in Nat
      BY <1>4 DEF Send, LoopTypes
    <2> QED  BY <1>1, <1>4, <2>1 DEF Send, LoopTypes
  <1>5. CASE PollAll \/ PollFails
    <2>1. PICK n \in 0 .. Len(inbox) : Poll(n)
      BY <1>5 DEF PollAll, PollFails, LoopTypes
    <2>2. loop' \in {"poll", "serve", "ended"}
      BY <1>5 DEF PollAll, PollFails, LoopTypes
    <2> QED  BY <2>1, <2>2, PollTypes
  <1>6. CASE LoopStep
    <2>1. CASE Stop
      BY <2>1 DEF Stop, LoopTypes
    <2>2. CASE Serve
      <3>1. flags' \subseteq flags /\ loop' \in {loop, "poll"}
        BY <2>2 DEF Serve
      <3> QED  BY <2>2, <3>1 DEF Serve, LoopTypes, improvementVars, clock
    <2>3. CASE Served
      BY <2>3 DEF Served, LoopTypes, improvementVars, clock
    <2> QED  BY <1>6, <2>1, <2>2, <2>3, AnswerTypes DEF LoopStep
  <1>7. CASE UNCHANGED vars
    BY <1>7 DEF vars, commandVars, improvementVars, clock, LoopTypes
  <1> QED  BY <1>2, <1>3, <1>4, <1>5, <1>6, <1>7 DEF Next

(* The command loop keeps its types too: what waits to be answered is      *)
(* bounded by what was sent, and the answers of a day by the daily limit.  *)
THEOREM LoopTypeCorrect == Spec => []TypeOK
  <1>1. SpecInit => LoopTypes
    <2> SUFFICES ASSUME SpecInit PROVE LoopTypes
      OBVIOUS
    <2>1. <<>> \in Seq(Sent) /\ Len(<<>>) = 0
      OBVIOUS
    <2>2. usage.day \in Int /\ usage.count \in 0 .. DailyLimit
      BY CommandsAssumption DEF SpecInit, InitCommands, Never
    <2>3. inbox \in Seq(Sent) /\ asked \in Nat /\ asked + Len(inbox) <= events
      BY <2>1 DEF SpecInit, Init, InitCommands
    <2> QED  BY <2>2, <2>3 DEF SpecInit, InitCommands, LoopTypes
  <1>2. IInv /\ LoopTypes /\ [Next]_vars => LoopTypes'
    BY SelfImprovementAssumption, CommandsAssumption, LoopTypesKept DEF IInv, TypesOK
  <1>3. IInv /\ LoopTypes => TypeOK
    <2> SUFFICES ASSUME IInv, LoopTypes PROVE TypeOK
      OBVIOUS
    <2>1. ImprovementTypeOK /\ events \in 0 .. MaxEvents /\ MaxEvents \in Nat
      BY SelfImprovementAssumption DEF IInv, TypesOK, ImprovementTypeOK
    <2>2. Len(inbox) \in Nat
      BY DEF LoopTypes
    <2>3. asked \in 0 .. MaxEvents
      BY <2>1, <2>2 DEF LoopTypes
    <2> QED  BY <2>1, <2>3 DEF LoopTypes, TypeOK
  <1> QED  BY <1>1, <1>2, <1>3, InvariantHolds, PTL DEF Spec
=============================================================================
