------------------------------ MODULE Commands ------------------------------
(***************************************************************************)
(* The thread that polls Telegram and serves the user's requests:          *)
(* runtime/commanding.py, bot/command_handler.py, bot/ai_assistant.py.     *)
(* One loop polls and then serves what is pending, in a fixed order; three *)
(* of the requests build the active strategy, which raises when its        *)
(* parameters do not fit (SelfImprovement): the loop then polls again and  *)
(* starts with the same request.                                           *)
(***************************************************************************)
EXTENDS SelfImprovement, Sequences, FiniteSets, SequencesExt

CONSTANTS
    Sent,            \* the commands the user sends
    DailyLimit       \* settings.ask_daily_limit

ASSUME CommandsAssumption == DailyLimit \in Nat

(* In the order command_loop serves them.                                  *)
Requests == <<"report", "status", "info", "criteria", "tuning">>
Builders == {"info", "criteria", "tuning"}

VARIABLES
    inbox,     \* updates Telegram holds for the bot
    flags,     \* the requests whose flag is set
    asked,     \* the length of _ask_queue
    muted,
    killed,    \* _kill_switch
    loop,      \* where command_loop is
    usage      \* AIAssistant: _usage_date, as a day, and _usage_count

commandVars == <<inbox, flags, asked, muted, killed, loop, usage>>
vars == <<improvementVars, commandVars>>

InitCommands ==
    /\ inbox = <<>> /\ flags = {} /\ asked = 0
    /\ muted = FALSE /\ killed = FALSE
    /\ loop = "poll"
    /\ usage = [day |-> Never, count |-> 0]

Send(c) ==
    /\ events < MaxEvents
    /\ inbox' = Append(inbox, c)
    /\ events' = events + 1
    /\ UNCHANGED <<memory, database, history, now, running, review, tuning, flags,
                   asked, muted, killed, loop, usage>>

(* _handle_command, for every update that was read.                        *)
Handle(read) ==
    /\ flags' = flags \cup (ToSet(read) \cap ToSet(Requests))
    /\ asked' = asked + Cardinality({i \in DOMAIN read : read[i] = "ask"})
    /\ killed' = (killed \/ "stop" \in ToSet(read))
    /\ LET mutes == SelectSeq(read, LAMBDA c : c \in {"mute", "unmute"})
       IN  muted' = IF mutes = <<>> THEN muted ELSE Last(mutes) = "mute"

(* poll_commands reads all updates, or fails with some of them read: those *)
(* are not delivered again, and what they asked for stays pending.         *)
Poll(n) ==
    /\ loop = "poll" /\ n \in 0 .. Len(inbox)
    /\ Handle(SubSeq(inbox, 1, n))
    /\ inbox' = SubSeq(inbox, n + 1, Len(inbox))
    /\ UNCHANGED <<improvementVars, usage>>

(* When nothing is pending then, the loop polls again.                     *)
PollAll ==
    /\ Poll(Len(inbox))
    /\ loop' = IF flags' = {} /\ asked' = 0 /\ ~killed' THEN "poll" ELSE "serve"

PollFails ==
    /\ \E n \in 0 .. Len(inbox) : Poll(n)
    /\ UNCHANGED loop

Pending == SelectSeq(Requests, LAMBDA r : r \in flags)

\* Variant with a bug: /stop waits for its turn behind the requests.
StopsWhenServed == killed /\ Pending = <<>>

Stops == killed

(* The kill switch comes first: the scheduler is shut down and the process *)
(* ends.  (Runtime has the shutdown that raises.)                          *)
Stop ==
    /\ loop = "serve" /\ Stops
    /\ running' = FALSE
    /\ loop' = "ended"
    /\ UNCHANGED <<memory, database, history, now, review, tuning, events, inbox,
                   flags, asked, muted, killed, usage>>

Raises(r) == r \in Builders /\ ~Builds(name)

\* Variant with a bug: the flag is not reset.
ServeWithoutReset ==
    /\ loop = "serve" /\ ~Stops /\ Pending # <<>>
    /\ loop' = "poll"
    /\ UNCHANGED <<improvementVars, inbox, flags, asked, muted, killed, usage>>

(* A flag is reset after its request was served.                           *)
Serve ==
    /\ loop = "serve" /\ ~Stops /\ Pending # <<>>
    /\ IF Raises(Head(Pending))
       THEN loop' = "poll" /\ UNCHANGED flags
       ELSE flags' = flags \ {Head(Pending)} /\ UNCHANGED loop
    /\ UNCHANGED <<improvementVars, inbox, asked, muted, killed, usage>>

(* The usage counts, per day, the questions that were answered; those that *)
(* fail are told so and not counted.                                       *)
UsedToday == IF usage.day = now \div Day THEN usage.count ELSE 0

\* Variant with a bug: the limit is applied to each batch of questions.
PerMessage(n) == n <= DailyLimit

WithinLimit(n) == UsedToday + n <= DailyLimit

Answer(successes) ==
    /\ loop = "serve" /\ ~Stops /\ Pending = <<>> /\ asked > 0
    /\ successes <= asked /\ WithinLimit(successes)
    /\ usage' = [day |-> now \div Day, count |-> UsedToday + successes]
    /\ asked' = 0
    /\ loop' = "poll"
    /\ UNCHANGED <<improvementVars, inbox, flags, muted, killed>>

Served ==
    /\ loop = "serve" /\ ~Stops /\ Pending = <<>> /\ asked = 0
    /\ loop' = "poll"
    /\ UNCHANGED <<improvementVars, inbox, flags, asked, muted, killed, usage>>

(* A restart: everything in memory is lost, and the updates that wait are  *)
(* skipped, or delivered when that request fails.                          *)
RestartAll ==
    /\ Restart
    /\ inbox' \in {<<>>, inbox}
    /\ flags' = {} /\ asked' = 0
    /\ muted' = FALSE /\ killed' = FALSE
    /\ loop' = "poll"
    /\ usage' = [day |-> Never, count |-> 0]

LoopStep ==
    \/ Stop \/ Serve \/ Served
    \/ \E n \in 0 .. MaxEvents : Answer(n)

(* Bound: the clock stands while the user waits.                           *)
Quiet == inbox = <<>> /\ flags = {} /\ asked = 0 /\ ~killed

SpecInit == Init /\ InitCommands

Next ==
    \/ ReviewStep /\ UNCHANGED commandVars
    \/ TuningStep /\ UNCHANGED commandVars
    \/ Tick /\ Quiet /\ UNCHANGED commandVars
    \/ RestartAll
    \/ \E c \in Sent : Send(c)
    \/ PollAll \/ PollFails
    \/ LoopStep

Spec == SpecInit /\ [][Next]_vars

(* The loop runs, Telegram does not fail for ever, and a review that has   *)
(* begun a switch completes it: plain statements on two threads.           *)
FairSpec ==
    /\ Spec
    /\ WF_vars(LoopStep)
    /\ SF_vars(PollAll)
    /\ WF_vars((SetName \/ LoadParameters \/ LoadFails \/ AssignParameters)
                   /\ UNCHANGED commandVars)

-----------------------------------------------------------------------------
(* Properties                                                              *)

TypeOK ==
    /\ ImprovementTypeOK
    /\ inbox \in Seq(Sent)
    /\ flags \subseteq ToSet(Requests) /\ asked \in 0 .. MaxEvents
    /\ {muted, killed} \subseteq BOOLEAN
    /\ loop \in {"poll", "serve", "ended"}
    /\ usage.day \in Int /\ usage.count \in 0 .. DailyLimit

(* README.md, the table of commands: a report or a status is served        *)
(* whatever else is asked and however often polls fail, unless /stop ends  *)
(* the process.  A request that needs the strategy, and a question, which  *)
(* comes after all of them, waits for good only if from some point on the  *)
(* strategy cannot be built.                                               *)
RequestsAreServed ==
    /\ \A r \in Sent \cap (ToSet(Requests) \ Builders) :
           r \in flags ~> r \notin flags \/ killed
    /\ \A r \in Sent \cap Builders :
           <>[](r \in flags /\ ~killed) => <>[]~Builds(name)
    /\ <>[](asked > 0 /\ ~killed) => <>[]~Builds(name)

(* README.md:276, /stop is the emergency stop: it is obeyed even when a    *)
(* request before it raises every time it is tried.                        *)
StopIsObeyed == killed ~> ~running \/ ~killed
=============================================================================
