------------------------------ MODULE Runtime ------------------------------
(***************************************************************************)
(* One life of the process after the other: start-up (bootstrap.py,        *)
(* orchestrator.py, main.py), the scheduler's jobs, the WebSocket thread   *)
(* (market/price_stream.py), the thread that polls for commands            *)
(* (commanding.py, command_handler.py), signals, shutdown, and systemd,    *)
(* which starts the process again whatever it ended by (Restart=always).   *)
(*                                                                         *)
(* Who may trade is decided by who runs: the monitor job is paused while   *)
(* the WebSocket is connected, and the first strategy cycle runs in the    *)
(* main thread, before the scheduler.                                      *)
(*                                                                         *)
(* Left out: what the jobs do (TradingEngine), back-off times, commands    *)
(* other than /stop, and the jobs that do not trade.  BlockingScheduler,   *)
(* WebSocketApp and Telegram's getUpdates are modelled as they are used.   *)
(***************************************************************************)
EXTENDS Naturals

CONSTANTS
    MaxStops,      \* bound: /stop commands sent
    MaxStarts,     \* bound: starts of the process
    MaxSignals     \* bound: signals per life of the process

ASSUME RuntimeAssumption ==
    /\ MaxStops \in Nat
    /\ MaxStarts \in Nat
    /\ MaxSignals \in Nat

VARIABLES
    main,         \* where the main thread is
    scheduler,    \* APScheduler's state
    paused,       \* the monitor job has no next run time
    jobs,         \* jobs running in the scheduler's pool
    stream,       \* where the WebSocket thread is
    connected,    \* PriceStream._connected
    stopEvent,    \* PriceStream._stop_event
    cmd,          \* where the command thread is
    kill,         \* CommandHandler._kill_switch
    last,         \* CommandHandler._last_update_id
    sent,         \* /stop commands sent, numbered from 1
    confirmed,    \* Telegram: updates up to this one are not delivered again
    signals,      \* signals this life has got
    ignored,      \* history: a signal was handled and the process goes on
    starts

feed == <<stream, connected, stopEvent>>
telegram == <<cmd, kill, last, sent, confirmed>>
systemd == <<signals, ignored, starts>>
vars == <<main, scheduler, paused, jobs, feed, telegram, systemd>>

Init ==
    /\ main = "down"
    /\ scheduler = "new"
    /\ paused = FALSE
    /\ jobs = {}
    /\ stream = "off"
    /\ connected = FALSE
    /\ stopEvent = FALSE
    /\ cmd = "off"
    /\ kill = FALSE
    /\ last = 0
    /\ sent = 0
    /\ confirmed = 0
    /\ signals = 0
    /\ ignored = FALSE
    /\ starts = 0

(* Everything but what Telegram keeps is gone.                             *)
ProcessEnds ==
    /\ main' = "down"
    /\ scheduler' = "new"
    /\ paused' = FALSE
    /\ jobs' = {}
    /\ stream' = "off"
    /\ connected' = FALSE
    /\ stopEvent' = FALSE
    /\ cmd' = "off"
    /\ kill' = FALSE
    /\ last' = 0
    /\ signals' = 0
    /\ ignored' = FALSE
    /\ UNCHANGED <<sent, confirmed, starts>>

Later(a, b) == IF a > b THEN a ELSE b

----------------------------------------------------------------------------
(* Start-up: the main thread until the scheduler runs                      *)

Boot ==
    /\ main = "down"
    /\ starts < MaxStarts
    /\ starts' = starts + 1
    /\ main' = "flush"
    /\ UNCHANGED <<scheduler, paused, jobs, feed, telegram, signals, ignored>>

\* Variant with a bug: the last update is taken though there is none.
FlushUnchecked(ok) ==
    /\ main = "flush"
    /\ main' = "killswitch"
    /\ IF ok
       THEN /\ confirmed' = sent - 1
            /\ last' = sent
       ELSE UNCHANGED <<confirmed, last>>
    /\ UNCHANGED <<scheduler, paused, jobs, feed, cmd, kill, sent, systemd>>

(* _flush_old_updates: offset -1 makes Telegram forget all but the last    *)
(* update, which is skipped here; a failure is ignored.                    *)
Flush(ok) ==
    /\ main = "flush"
    /\ main' = "killswitch"
    /\ IF ok /\ sent > confirmed
       THEN /\ confirmed' = sent - 1
            /\ last' = sent
       ELSE UNCHANGED <<confirmed, last>>
    /\ UNCHANGED <<scheduler, paused, jobs, feed, cmd, kill, sent, systemd>>

Unseen == {i \in 1 .. sent : i > Later(last, confirmed)}

(* poll_commands: the offset confirms what was seen before.                *)
Poll ==
    /\ confirmed' = Later(confirmed, last)
    /\ kill' = (kill \/ Unseen # {})
    /\ last' = IF Unseen # {} THEN sent ELSE last

(* handle_initial_killswitch; a failed poll finds nothing.                 *)
InitialPoll(ok) ==
    /\ main = "killswitch"
    /\ IF ok THEN Poll ELSE UNCHANGED <<confirmed, kill, last>>
    /\ main' = IF kill' THEN "exiting" ELSE "setup"
    /\ UNCHANGED <<scheduler, paused, jobs, feed, cmd, sent, systemd>>

(* setup_runtime_services: jobs are added, the two threads started.        *)
SetUp ==
    /\ main = "setup"
    /\ main' = "services"
    /\ stream' = "loop"
    /\ cmd' = "poll"
    /\ UNCHANGED <<scheduler, paused, jobs, connected, stopEvent, kill, last, sent,
                   confirmed, systemd>>

\* Variant with a bug: the scheduler runs in the background from the start.
InstallHandlersScheduling ==
    /\ main = "services"
    /\ main' = "first"
    /\ scheduler' = "running"
    /\ UNCHANGED <<paused, jobs, feed, telegram, systemd>>

InstallHandlers ==
    /\ main = "services"
    /\ main' = "first"
    /\ UNCHANGED <<scheduler, paused, jobs, feed, telegram, systemd>>

(* The first strategy_job returns, by whatever exception.                  *)
FirstDone ==
    /\ main = "first"
    /\ main' = "start"
    /\ UNCHANGED <<scheduler, paused, jobs, feed, telegram, systemd>>

StartScheduler ==
    /\ main = "start"
    /\ main' = "running"
    /\ scheduler' = "running"
    /\ UNCHANGED <<paused, jobs, feed, telegram, systemd>>

----------------------------------------------------------------------------
(* Shutdown: the main thread once the scheduler has stopped                *)

LeaveLoop ==
    /\ main = "running"
    /\ scheduler = "stopped"
    /\ main' = "stopping"
    /\ UNCHANGED <<scheduler, paused, jobs, feed, telegram, systemd>>

(* PriceStream.stop.  It closes the connection there is, as the peer may   *)
(* do at any time; one that is just being made is not closed.              *)
StopStream ==
    /\ main = "stopping"
    /\ main' = "joining"
    /\ stopEvent' = TRUE
    /\ UNCHANGED <<scheduler, paused, jobs, stream, connected, telegram, systemd>>

(* The thread has ended, or five seconds have passed.                      *)
Joined ==
    /\ main = "joining"
    /\ main' = "closing"
    /\ connected' = FALSE
    /\ UNCHANGED <<scheduler, paused, jobs, stream, stopEvent, telegram, systemd>>

CloseResources ==
    /\ main = "closing"
    /\ main' = "exiting"
    /\ UNCHANGED <<scheduler, paused, jobs, feed, telegram, systemd>>

(* The interpreter waits for the pool's threads, not for daemon threads.   *)
Exit ==
    /\ main = "exiting"
    /\ jobs = {}
    /\ ProcessEnds

----------------------------------------------------------------------------
(* The scheduler's pool                                                    *)

(* max_instances=1; the strategy job got its trigger before start.         *)
StartJob(j) ==
    /\ scheduler = "running"
    /\ j \notin jobs
    /\ j = "price_monitor" => ~paused
    /\ jobs' = jobs \cup {j}
    /\ UNCHANGED <<main, scheduler, paused, feed, telegram, systemd>>

EndJob(j) ==
    /\ j \in jobs
    /\ jobs' = jobs \ {j}
    /\ UNCHANGED <<main, scheduler, paused, feed, telegram, systemd>>

----------------------------------------------------------------------------
(* The WebSocket thread                                                    *)

(* The test at the head of _run_loop.                                      *)
Loop ==
    /\ stream = "loop"
    /\ stream' = IF stopEvent THEN "ended" ELSE "connecting"
    /\ UNCHANGED <<main, scheduler, paused, jobs, connected, stopEvent, telegram, systemd>>

(* _on_open, until on_connect is called.                                   *)
Connects ==
    /\ stream = "connecting"
    /\ stream' = "pausing"
    /\ connected' = TRUE
    /\ UNCHANGED <<main, scheduler, paused, jobs, stopEvent, telegram, systemd>>

(* ... when the subscription cannot be sent.                               *)
SubscribeFails ==
    /\ stream = "connecting"
    /\ stream' = "deaf"
    /\ UNCHANGED <<main, scheduler, paused, jobs, connected, stopEvent, telegram, systemd>>

(* pause_job finds the job also before start, and none after shutdown.     *)
PauseMonitor ==
    /\ stream = "pausing"
    /\ stream' = "open"
    /\ paused' = (paused \/ scheduler # "stopped")
    /\ UNCHANGED <<main, scheduler, jobs, connected, stopEvent, telegram, systemd>>

Tick ==
    /\ stream = "open"
    /\ stream' = "tick"
    /\ UNCHANGED <<main, scheduler, paused, jobs, connected, stopEvent, telegram, systemd>>

TickDone ==
    /\ stream = "tick"
    /\ stream' = "open"
    /\ UNCHANGED <<main, scheduler, paused, jobs, connected, stopEvent, telegram, systemd>>

\* Variant with a bug: the flag is looked at after it was reset.
WasConnectedAfterReset == FALSE

WasConnected == connected

(* _on_close, of a connection that was refused, too, until on_disconnect   *)
(* is called.                                                              *)
Closes ==
    /\ stream \in {"connecting", "deaf", "open"}
    /\ stream' = IF WasConnected THEN "resuming" ELSE "waiting"
    /\ connected' = FALSE
    /\ UNCHANGED <<main, scheduler, paused, jobs, stopEvent, telegram, systemd>>

ResumeMonitor ==
    /\ stream = "resuming"
    /\ stream' = "waiting"
    /\ paused' = (paused /\ scheduler = "stopped")
    /\ UNCHANGED <<main, scheduler, jobs, connected, stopEvent, telegram, systemd>>

\* Variant with a bug: the thread ends with its first connection.
GivesUp ==
    /\ stream = "waiting"
    /\ stream' = "ended"
    /\ UNCHANGED <<main, scheduler, paused, jobs, connected, stopEvent, telegram, systemd>>

(* After the back-off, which the stop event cuts short.                    *)
Retry ==
    /\ stream = "waiting"
    /\ stream' = IF stopEvent THEN "ended" ELSE "loop"
    /\ UNCHANGED <<main, scheduler, paused, jobs, connected, stopEvent, telegram, systemd>>

----------------------------------------------------------------------------
(* The command thread                                                      *)

(* A poll that succeeds; one that fails changes nothing.  After the close  *)
(* of the handler's client none succeeds.                                  *)
PollCommands ==
    /\ cmd = "poll"
    /\ main # "exiting"
    /\ Poll
    /\ cmd' = "act"
    /\ UNCHANGED <<main, scheduler, paused, jobs, feed, sent, systemd>>

\* Variant with a bug: the loop is left although shutdown raised.
ActOnce ==
    /\ cmd = "act"
    /\ scheduler' = IF kill /\ scheduler = "running" THEN "stopped" ELSE scheduler
    /\ cmd' = IF kill THEN "ended" ELSE "poll"
    /\ UNCHANGED <<main, paused, jobs, feed, kill, last, sent, confirmed, systemd>>

(* shutdown raises unless the scheduler runs.  The loop then goes on, and  *)
(* tries again after the next poll that succeeds.                          *)
Act ==
    /\ cmd = "act"
    /\ IF kill /\ scheduler = "running"
       THEN scheduler' = "stopped" /\ cmd' = "ended"
       ELSE cmd' = "poll" /\ UNCHANGED scheduler
    /\ UNCHANGED <<main, paused, jobs, feed, kill, last, sent, confirmed, systemd>>

----------------------------------------------------------------------------
(* Operator and operating system                                           *)

SendStop ==
    /\ sent < MaxStops
    /\ sent' = sent + 1
    /\ UNCHANGED <<main, scheduler, paused, jobs, feed, cmd, kill, last, confirmed, systemd>>

Unhandled == {"flush", "killswitch", "setup", "services"}

(* Before _shutdown is installed, a signal ends the process.               *)
SignalKills ==
    /\ main \in Unhandled
    /\ signals < MaxSignals
    /\ ProcessEnds

(* _shutdown runs in the main thread.  While the scheduler does not run it *)
(* raises there: strategy_job, or a handler below it, swallows that; start *)
(* and the scheduler's loop are left by it; the rest of the cleanup may    *)
(* be skipped.                                                             *)
Signal ==
    /\ main \notin Unhandled \cup {"down"}
    /\ signals < MaxSignals
    /\ signals' = signals + 1
    /\ IF scheduler = "running"
       THEN scheduler' = "stopped" /\ UNCHANGED main
       ELSE /\ UNCHANGED scheduler
            /\ main' \in CASE main = "first" -> {"first", "start"}
                           [] main \in {"start", "running"} -> {"stopping"}
                           [] OTHER -> {main, "exiting"}
    /\ ignored' = (ignored \/ main = "first")
    /\ UNCHANGED <<paused, jobs, feed, telegram, starts>>

(* The process dies, or systemd loses patience with it.                    *)
Crash ==
    /\ main # "down"
    /\ ProcessEnds

MainStep ==
    \/ \E ok \in BOOLEAN : Flush(ok) \/ InitialPoll(ok)
    \/ SetUp
    \/ InstallHandlers
    \/ FirstDone
    \/ StartScheduler
    \/ LeaveLoop
    \/ StopStream
    \/ Joined
    \/ CloseResources
    \/ Exit

StreamStep ==
    \/ Loop
    \/ Connects
    \/ SubscribeFails
    \/ PauseMonitor
    \/ Tick
    \/ TickDone
    \/ Closes
    \/ ResumeMonitor
    \/ Retry

JobNames == {"strategy", "price_monitor"}

(* Once the starts are used up: the bound of the model.                    *)
Finished ==
    /\ main = "down"
    /\ starts = MaxStarts
    /\ UNCHANGED vars

Next ==
    \/ Boot
    \/ MainStep
    \/ StreamStep
    \/ \E j \in JobNames : StartJob(j) \/ EndJob(j)
    \/ PollCommands
    \/ Act
    \/ SendStop
    \/ SignalKills
    \/ Signal
    \/ Crash
    \/ Finished

Spec == Init /\ [][Next]_vars

(* The threads go on, and jobs end: every wait in them has a time-out.     *)
(* Polls, and handshakes with the exchange, do not fail for ever.          *)
FairSpec ==
    /\ Spec
    /\ WF_vars(MainStep)
    /\ WF_vars(StreamStep)
    /\ \A j \in JobNames : WF_vars(EndJob(j))
    /\ SF_vars(PollCommands)
    /\ WF_vars(Act)
    /\ SF_vars(Connects)

----------------------------------------------------------------------------
(* Properties                                                              *)

TypeOK ==
    /\ main \in {"down", "flush", "killswitch", "setup", "services", "first", "start",
                 "running", "stopping", "joining", "closing", "exiting"}
    /\ scheduler \in {"new", "running", "stopped"}
    /\ paused \in BOOLEAN
    /\ jobs \in SUBSET JobNames
    /\ stream \in {"off", "loop", "connecting", "deaf", "pausing", "open", "tick",
                   "resuming", "waiting", "ended"}
    /\ connected \in BOOLEAN
    /\ stopEvent \in BOOLEAN
    /\ cmd \in {"off", "poll", "act", "ended"}
    /\ kill \in BOOLEAN
    /\ last \in Nat
    /\ sent \in Nat
    /\ confirmed \in Nat
    /\ signals \in Nat
    /\ ignored \in BOOLEAN
    /\ starts \in Nat

(* While the scheduler runs, positions are guarded by the monitor job or   *)
(* by the WebSocket: the job is paused only while the stream is connected, *)
(* or is just being told that it no longer is, whatever connects, closes   *)
(* and reconnects before, during and after start-up.                       *)
Guarded ==
    scheduler = "running" /\ paused => connected \/ stream = "resuming"

(* There is one strategy cycle at a time, in the main thread or in the     *)
(* pool.  (TradingEngine has a single thread that buys.)                   *)
OneCycleAtATime == main = "first" => "strategy" \notin jobs

(* A /stop that is sent while the bot works ends the process, although the *)
(* scheduler that is to be shut down may not have been started yet, polls  *)
(* may fail, and signals arrive meanwhile.                                 *)
StopEndsTheProcess ==
    main \in {"services", "first", "start", "running"} /\ Unseen # {} ~> main = "down"

(* A stream that is not connected connects again, unless it is stopped.    *)
StreamComesBack ==
    stream # "off" /\ ~connected ~> connected \/ stopEvent \/ main = "down"

(* tasks/todo.md:33: SIGTERM and SIGINT shut the bot down.  No scheduler   *)
(* is started after the handler of a signal has run.                       *)
SignalIsNotForgotten == ~(ignored /\ scheduler = "running")

=============================================================================
