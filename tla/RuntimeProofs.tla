--------------------------- MODULE RuntimeProofs ---------------------------
(***************************************************************************)
(* What the scheduler, the WebSocket thread and the signals keep true,     *)
(* however often the process starts.                                       *)
(***************************************************************************)
EXTENDS Runtime, TLAPS

(* Until start, nothing of the scheduler's runs.                           *)
Early == {"down", "flush", "killswitch", "setup", "services", "first", "start"}

NothingBeforeStart == main \in Early => scheduler = "new" /\ jobs = {}

RunsInItsLoop == scheduler = "running" => main = "running"

NoStreamBeforeSetUp == main \in {"down", "flush", "killswitch", "setup"} => stream = "off"

(* A pause outlives its connection only when there is nothing to resume,   *)
(* or the flag has been taken away.                                        *)
PausedByStream ==
    main \notin {"closing", "exiting"} /\ scheduler # "stopped" /\ paused
        => stream \in {"open", "tick", "resuming"}

(* Only stop() takes the flag away from a thread that is connected.        *)
FlagFollowsStream ==
    main \notin {"closing", "exiting"} /\ stream \in {"pausing", "open", "tick"} => connected

IInv == /\ TypeOK
        /\ NothingBeforeStart
        /\ RunsInItsLoop
        /\ NoStreamBeforeSetUp
        /\ PausedByStream
        /\ FlagFollowsStream

LEMMA InitInvariant == Init => IInv
  <1> SUFFICES ASSUME Init PROVE IInv
    OBVIOUS
  <1> USE DEF Init
  <1>1. TypeOK
    BY DEF TypeOK, JobNames
  <1>2. NothingBeforeStart /\ RunsInItsLoop /\ NoStreamBeforeSetUp /\ PausedByStream
    BY DEF NothingBeforeStart, RunsInItsLoop, NoStreamBeforeSetUp, PausedByStream
  <1>3. FlagFollowsStream
    BY DEF FlagFollowsStream
  <1> QED  BY <1>1, <1>2, <1>3 DEF IInv

LEMMA EndInvariant == ProcessEnds /\ IInv => IInv'
  <1> SUFFICES ASSUME ProcessEnds, IInv PROVE IInv'
    OBVIOUS
  <1> USE DEF ProcessEnds
  <1>1. TypeOK'
    BY DEF IInv, TypeOK, JobNames
  <1>2. NothingBeforeStart' /\ RunsInItsLoop' /\ NoStreamBeforeSetUp' /\ PausedByStream'
    BY DEF NothingBeforeStart, RunsInItsLoop, NoStreamBeforeSetUp, PausedByStream
  <1>3. FlagFollowsStream'
    BY DEF FlagFollowsStream
  <1> QED  BY <1>1, <1>2, <1>3 DEF IInv

LEMMA PollTypes ==
    ASSUME TypeOK, Poll
    PROVE  confirmed' \in Nat /\ kill' \in BOOLEAN /\ last' \in Nat
  <1>1. confirmed' \in Nat
    BY DEF TypeOK, Poll, Later
  <1>2. kill' \in BOOLEAN
    BY DEF TypeOK, Poll
  <1>3. last' \in Nat
    BY DEF TypeOK, Poll
  <1> QED  BY <1>1, <1>2, <1>3

(* The steps of the main thread.                                           *)
LEMMA MainInvariant == IInv /\ (Boot \/ MainStep) => IInv'
  <1> SUFFICES ASSUME IInv, Boot \/ MainStep PROVE IInv'
    OBVIOUS
  <1> USE DEF IInv, TypeOK, NothingBeforeStart, RunsInItsLoop, NoStreamBeforeSetUp,
              PausedByStream, FlagFollowsStream, Early, JobNames, feed, telegram, systemd
  <1>1. CASE Boot
    BY <1>1 DEF Boot
  <1>2. ASSUME NEW ok \in BOOLEAN, Flush(ok) PROVE IInv'
    <2>1. CASE ok /\ sent > confirmed
      BY <1>2, <2>1 DEF Flush
    <2>2. CASE ~(ok /\ sent > confirmed)
      BY <1>2, <2>2 DEF Flush
    <2> QED  BY <2>1, <2>2
  <1>3. ASSUME NEW ok \in BOOLEAN, InitialPoll(ok) PROVE IInv'
    <2>1. confirmed' \in Nat /\ kill' \in BOOLEAN /\ last' \in Nat
      <3>1. CASE ok
        <4>1. Poll
          BY <1>3, <3>1 DEF InitialPoll
        <4> QED  BY <4>1, PollTypes
      <3>2. CASE ~ok
        BY <1>3, <3>2 DEF InitialPoll
      <3> QED  BY <3>1, <3>2
    <2>2. main' \in {"exiting", "setup"} /\ main = "killswitch"
      BY <1>3 DEF InitialPoll
    <2>3. UNCHANGED <<scheduler, paused, jobs, stream, connected, stopEvent, cmd, sent,
                      signals, ignored, starts>>
      BY <1>3 DEF InitialPoll
    <2> QED  BY <2>1, <2>2, <2>3
  <1>4. CASE SetUp
    <2>1. TypeOK'
      BY <1>4 DEF SetUp
    <2>2. NothingBeforeStart' /\ RunsInItsLoop' /\ NoStreamBeforeSetUp'
      BY <1>4 DEF SetUp
    <2>3. PausedByStream'
      BY <1>4 DEF SetUp
    <2>4. FlagFollowsStream'
      BY <1>4 DEF SetUp
    <2> QED  BY <2>1, <2>2, <2>3, <2>4
  <1>5. CASE InstallHandlers
    BY <1>5 DEF InstallHandlers
  <1>6. CASE FirstDone
    BY <1>6 DEF FirstDone
  <1>7. CASE StartScheduler
    BY <1>7 DEF StartScheduler
  <1>8. CASE LeaveLoop
    BY <1>8 DEF LeaveLoop
  <1>9. CASE StopStream
    BY <1>9 DEF StopStream
  <1>10. CASE Joined
    BY <1>10 DEF Joined
  <1>11. CASE CloseResources
    BY <1>11 DEF CloseResources
  <1>12. CASE Exit
    BY <1>12, EndInvariant DEF Exit
  <1> QED
    BY <1>1, <1>2, <1>3, <1>4, <1>5, <1>6, <1>7, <1>8, <1>9, <1>10, <1>11, <1>12
       DEF MainStep

(* The steps of the WebSocket thread.                                      *)
LEMMA StreamInvariant == IInv /\ StreamStep => IInv'
  <1> SUFFICES ASSUME IInv, StreamStep PROVE IInv'
    OBVIOUS
  <1> USE DEF IInv, TypeOK, NothingBeforeStart, RunsInItsLoop, NoStreamBeforeSetUp,
              PausedByStream, FlagFollowsStream, Early, telegram, systemd
  <1>1. CASE Loop
    BY <1>1 DEF Loop
  <1>2. CASE Connects
    BY <1>2 DEF Connects
  <1>3. CASE SubscribeFails
    BY <1>3 DEF SubscribeFails
  <1>4. CASE PauseMonitor
    BY <1>4 DEF PauseMonitor
  <1>5. CASE Tick
    BY <1>5 DEF Tick
  <1>6. CASE TickDone
    BY <1>6 DEF TickDone
  <1>7. CASE Closes
    <2>1. TypeOK'
      BY <1>7 DEF Closes
    <2>2. NothingBeforeStart' /\ RunsInItsLoop' /\ NoStreamBeforeSetUp'
      BY <1>7 DEF Closes
    <2>3. PausedByStream'
      BY <1>7 DEF Closes, WasConnected
    <2>4. FlagFollowsStream'
      BY <1>7 DEF Closes
    <2> QED  BY <2>1, <2>2, <2>3, <2>4
  <1>8. CASE ResumeMonitor
    BY <1>8 DEF ResumeMonitor
  <1>9. CASE Retry
    BY <1>9 DEF Retry
  <1> QED
    BY <1>1, <1>2, <1>3, <1>4, <1>5, <1>6, <1>7, <1>8, <1>9 DEF StreamStep

(* Jobs, commands, signals and crashes.                                    *)
LEMMA OtherInvariant ==
    ASSUME IInv,
           \/ \E j \in JobNames : StartJob(j) \/ EndJob(j)
           \/ PollCommands \/ Act \/ SendStop \/ SignalKills \/ Signal \/ Crash \/ Finished
    PROVE  IInv'
  <1> USE DEF IInv, TypeOK, NothingBeforeStart, RunsInItsLoop, NoStreamBeforeSetUp,
              PausedByStream, FlagFollowsStream, Early, JobNames, feed, telegram, systemd
  <1>1. ASSUME NEW j \in JobNames, StartJob(j) PROVE IInv'
    BY <1>1 DEF StartJob
  <1>2. ASSUME NEW j \in JobNames, EndJob(j) PROVE IInv'
    BY <1>2 DEF EndJob
  <1>3. CASE PollCommands
    <2>1. confirmed' \in Nat /\ kill' \in BOOLEAN /\ last' \in Nat
      BY <1>3, PollTypes DEF PollCommands
    <2> QED  BY <1>3, <2>1 DEF PollCommands
  <1>4. CASE Act
    BY <1>4 DEF Act
  <1>5. CASE SendStop
    BY <1>5 DEF SendStop
  <1>6. CASE SignalKills
    BY <1>6, EndInvariant DEF SignalKills
  <1>7. CASE Signal
    <2>1. CASE scheduler = "running"
      BY <1>7, <2>1 DEF Signal, Unhandled
    <2>2. CASE scheduler # "running"
      BY <1>7, <2>2 DEF Signal, Unhandled
    <2> QED  BY <2>1, <2>2
  <1>8. CASE Crash
    BY <1>8, EndInvariant DEF Crash
  <1>9. CASE Finished
    BY <1>9 DEF Finished, vars
  <1> QED  BY <1>1, <1>2, <1>3, <1>4, <1>5, <1>6, <1>7, <1>8, <1>9

LEMMA NextInvariant == IInv /\ [Next]_vars => IInv'
  <1> SUFFICES ASSUME IInv, [Next]_vars PROVE IInv'
    OBVIOUS
  <1>1. CASE Boot \/ MainStep
    BY <1>1, MainInvariant
  <1>2. CASE StreamStep
    BY <1>2, StreamInvariant
  <1>3. CASE \/ \E j \in JobNames : StartJob(j) \/ EndJob(j)
             \/ PollCommands \/ Act \/ SendStop \/ SignalKills \/ Signal \/ Crash \/ Finished
    BY <1>3, OtherInvariant
  <1>4. CASE UNCHANGED vars
    BY <1>4 DEF vars, feed, telegram, systemd, IInv, TypeOK, NothingBeforeStart,
                RunsInItsLoop, NoStreamBeforeSetUp, PausedByStream, FlagFollowsStream
  <1> QED  BY <1>1, <1>2, <1>3, <1>4 DEF Next

LEMMA Invariant == Spec => []IInv
  BY InitInvariant, NextInvariant, PTL DEF Spec

----------------------------------------------------------------------------
(* Every variable keeps its type.                                          *)
THEOREM TypeCorrect == Spec => []TypeOK
  <1>1. IInv => TypeOK
    BY DEF IInv
  <1> QED  BY <1>1, Invariant, PTL

(* While the scheduler runs, the monitor job is paused only while the      *)
(* stream is connected or about to resume it.                              *)
THEOREM PositionsAreGuarded == Spec => []Guarded
  <1>1. IInv => Guarded
    BY DEF IInv, TypeOK, RunsInItsLoop, PausedByStream, FlagFollowsStream, Guarded
  <1> QED  BY <1>1, Invariant, PTL

(* The first strategy cycle never overlaps one of the scheduler's.         *)
THEOREM CyclesDoNotOverlap == Spec => []OneCycleAtATime
  <1>1. IInv => OneCycleAtATime
    BY DEF IInv, NothingBeforeStart, Early, OneCycleAtATime
  <1> QED  BY <1>1, Invariant, PTL

=============================================================================
