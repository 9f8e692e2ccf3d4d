--------------------------- MODULE ProxyShutdown ---------------------------
(***************************************************************************)
(* proxy/main.go and the end of a request in proxy/server/server.go: the   *)
(* request goroutines feed both collectors; on a signal the main goroutine *)
(* stops the listeners, closes the quit channel, waits for the collectors  *)
(* and disconnects from the database.                                      *)
(***************************************************************************)
EXTENDS QueryLogsCollector, StatisticsCollector

VARIABLES answered,      \* queries whose request is done
          timedOut,      \* the wait for the collectors gave up
          queuedAtQuit   \* history: statistics queued when quit was closed

vars == <<hostVars, logVars, statVars, answered, timedOut, queuedAtQuit>>

Init ==
    /\ mainPc = "serving"
    /\ elapsed = 0
    /\ faults = 0
    /\ answered = {}
    /\ timedOut = FALSE
    /\ queuedAtQuit = {}
    /\ LogInit
    /\ StatInit

-----------------------------------------------------------------------------
\* postResolve answers and starts a goroutine per collector.
PostResolve(q) ==
    /\ mainPc = "serving"
    /\ q \notin answered
    /\ answered' = answered \cup {q}
    /\ logSenders' = logSenders \cup ({q} \cap Logged)
    /\ statSenders' = statSenders \cup {q}
    /\ UNCHANGED <<hostVars, timedOut, queuedAtQuit, logChan, logBuffer,
                   logCollector, logTimer, logRows, quarterNow, statChan,
                   countVars, todo, emitVars, stopVars>>

\* A signal: doShutdown stops the listeners.  The goroutines of requests
\* already answered are not waited for.
StopListeners ==
    /\ mainPc = "serving"
    /\ mainPc' = "stopping"
    /\ UNCHANGED <<elapsed, faults, answered, timedOut, queuedAtQuit, logVars, statVars>>

\* stopCollectors closes the quit channel and starts to wait.
CloseQuit ==
    /\ mainPc = "stopping"
    /\ mainPc' = "waiting"
    /\ queuedAtQuit' = statChan
    /\ UNCHANGED <<elapsed, faults, answered, timedOut, logVars, statVars>>

\* trackRun has marked both collectors done.
WaitDone ==
    /\ mainPc = "waiting"
    /\ logCollector = "returned"
    /\ statReturned
    /\ mainPc' = "disconnecting"
    /\ UNCHANGED <<elapsed, faults, answered, timedOut, queuedAtQuit, logVars, statVars>>

WaitTimeout ==
    /\ mainPc = "waiting"
    /\ elapsed = CollectorFlushTimeout
    /\ mainPc' = "disconnecting"
    /\ timedOut' = TRUE
    /\ UNCHANGED <<elapsed, faults, answered, queuedAtQuit, logVars, statVars>>

Disconnect ==
    /\ mainPc = "disconnecting"
    /\ mainPc' = "exited"
    /\ UNCHANGED <<elapsed, faults, answered, timedOut, queuedAtQuit, logVars, statVars>>

\* Five seconds of the wait pass.  No emitter call outlives its timeout, and
\* time only passes when neither collector has anything else to do.  Before
\* the wait nothing is measured: a call under way at its start may have its
\* whole timeout left.
TimePasses ==
    /\ mainPc = "waiting"
    /\ elapsed < CollectorFlushTimeout
    /\ LogBusy \/ StatBusy
    /\ IF LogBusy THEN logTimer > 0 ELSE logCollector = "returned"
    /\ IF StatBusy THEN statTimer > 0 ELSE statReturned
    /\ elapsed' = elapsed + 1
    /\ logTimer' = IF LogBusy THEN logTimer - 1 ELSE logTimer
    /\ statTimer' = IF StatBusy THEN statTimer - 1 ELSE statTimer
    /\ UNCHANGED <<mainPc, faults, answered, timedOut, queuedAtQuit, logSenders,
                   logChan, logBuffer, logCollector, logRows, envVars, statChan,
                   countVars, todo, fleetOut, outbox, statRows, statFailed, stopVars>>

\* The process has ended.
Exited == mainPc = "exited" /\ UNCHANGED vars

\* A step of the logs' goroutines or of the statistics' goroutines only.
InLogs(A) == Alive /\ A /\ UNCHANGED <<statVars, answered, timedOut, queuedAtQuit>>
InStats(A) == Alive /\ A /\ UNCHANGED <<logVars, answered, timedOut, queuedAtQuit>>

LogStep ==
    \/ InLogs(\/ \E q \in Logged : LogSend(q) \/ LogReceive(q)
              \/ LogTick
              \/ LogEmitted
              \/ LogStop) /\ UNCHANGED hostVars
    \/ InLogs(LogFailed) /\ UNCHANGED <<mainPc, elapsed>>

StatStep ==
    \/ InStats(\/ \E q \in Queries : StatSend(q) \/ StatReceive(q)
               \/ NextQuarter
               \/ StatTick
               \/ StatStop
               \/ Drain
               \/ Flush
               \/ FlushClosed
               \/ FlushAll
               \/ Return
               \/ FleetEmitted
               \/ ChunkEmitted) /\ UNCHANGED hostVars
    \/ InStats(FleetFailed \/ ChunkFailed \/ StatPanic) /\ UNCHANGED <<mainPc, elapsed>>

Next ==
    \/ \E q \in Queries : PostResolve(q)
    \/ StopListeners
    \/ CloseQuit
    \/ WaitDone
    \/ WaitTimeout
    \/ Disconnect
    \/ TimePasses
    \/ Exited
    \/ LogStep
    \/ StatStep

Spec == Init /\ [][Next]_vars

-----------------------------------------------------------------------------
\* Type correctness of the collectors and of the main goroutine.
TypeOK ==
    /\ mainPc \in MainSteps
    /\ elapsed \in 0..CollectorFlushTimeout
    /\ faults \in 0..MaxFaults
    /\ answered \subseteq Queries
    /\ timedOut \in BOOLEAN
    /\ queuedAtQuit \subseteq Queries
    /\ LogTypeOK
    /\ StatTypeOK

Open(tier) == UNION {acc[tier].entries[k] : k \in DOMAIN acc[tier].entries}

Outgoing(tier) == UNION {d.queries : d \in {x \in outbox : x.tier = tier}}

OneIf(b) == IF b THEN 1 ELSE 0

\* No query is counted twice, whatever fails, panics or is cut short: what
\* the database has of it, what is being emitted and what is still open add
\* up to at most one in every tier (statistics.go:155-221).
CountedOnce ==
    \A q \in Queries :
        /\ statRows["fleet"][q]
              + Cardinality({p \in fleet : p[2] = q})
              + Cardinality({p \in fleetOut : p[2] = q}) <= 1
        /\ \A tier \in Tiers :
              statRows[tier][q] + OneIf(q \in Outgoing(tier))
                                + OneIf(q \in Open(tier)) <= 1
        /\ statRows["day"][q] + OneIf(q \in Outgoing("day")) <= 1

\* No query is logged twice: a batch that failed, and may have been written
\* in part, is not emitted again (query_logs.go:44-68).
LoggedOnce == \A q \in Logged : logRows[q] + OneIf(q \in logBuffer) <= 1

\* A coarser resolution is never behind a finer one: between two handlers no
\* query is still open in its hour that has left its quarter, and as long as
\* no write failed, the hours and days in the database count the same queries
\* and every query that the quarters count (statistics.go:171-197).
CoarserNotBehind ==
    StatIdle =>
        /\ Open("hour") \subseteq Open("quarter")
        /\ ~statFailed => \A q \in Consented :
              /\ statRows["quarter"][q] <= statRows["hour"][q]
              /\ statRows["hour"][q] = statRows["day"][q]

\* The main goroutine disconnected without having given up its wait.
CleanExit == mainPc = "exited" /\ ~timedOut

\* On a clean exit the statistics collector holds nothing back, and it has
\* taken every event that was queued when it was told to stop
\* (statistics.go:82-125).
StatisticsFlushed ==
    CleanExit =>
        /\ fleet = {} /\ fleetOut = {} /\ outbox = {}
        /\ \A tier \in Tiers : Open(tier) = {}
        /\ queuedAtQuit \cap statChan = {}

\* A stop that begins less than five seconds after the signal has returned
\* before the main goroutine gives up, however slow the emitter is: the final
\* flush takes two emit timeouts at most (main.go:138-140,
\* statistics.go:82-89,199-221).
WaitCoversFlush ==
    (/\ mainPc = "waiting"
     /\ elapsed = CollectorFlushTimeout
     /\ stopBegan + 2 * EmitTimeout < CollectorFlushTimeout) => statReturned

=============================================================================
