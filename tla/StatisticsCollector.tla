------------------------ MODULE StatisticsCollector ------------------------
(***************************************************************************)
(* proxy/collector/statistics.go and statistics_accumulators.go: one       *)
(* goroutine counts every query in the service-wide documents of the hour  *)
(* and, for profiles that consented, in per-device entries of the quarter  *)
(* and of the hour, which also go out as day entries.                      *)
(*                                                                         *)
(* A counter is the set of the queries counted in it, so a query that is   *)
(* lost or counted twice shows.  The clock is counted in quarters.         *)
(***************************************************************************)
EXTENDS CollectorHost, Sequences, FiniteSetsExt

CONSTANTS Consented,        \* the queries of profiles that enabled statistics
          ProfileOf(_),     \* the profile of a query
          DeviceOf(_),      \* the device of a query
          OtherDevice,      \* OtherDeviceID
          StatBatch,        \* BatchSize, which is also the channel's capacity
          MaxOpenEntries,   \* open entries that force a flush
          MaxDevices,       \* MaxDevicesPerProfileBucket
          ChunkSize,        \* StatisticsEmitChunkSize
          QuartersPerHour, HoursPerDay,
          MaxQuarter        \* bound: the last quarter of a behaviour

ASSUME StatAssumption ==
    /\ Consented \subseteq Queries
    /\ OtherDevice \notin {DeviceOf(q) : q \in Queries}
    /\ {StatBatch, MaxOpenEntries, MaxDevices, ChunkSize} \subseteq Nat \ {0}
    /\ {QuartersPerHour, HoursPerDay} \subseteq Nat \ {0}
    /\ MaxQuarter \in Nat

VARIABLES quarterNow,   \* the quarter the wall clock is in
          statSenders,  \* EmitStatistics goroutines that have not sent yet
          statChan,     \* StatsChan, a bounded set like the logs' channel
          fleet,        \* <<hour, query>> pairs counted since the last take
          acc,          \* the consented accumulators of the two tiers
          todo,         \* the calls left of the handler that is running
          fleetOut,     \* the service documents being emitted
          outbox,       \* the consented documents still to be emitted
          statTimer,    \* units left to the emitter call under way
          flushDeadline,\* when the shutdown budget is spent, or NoDeadline
          statReturned, \* Collect has returned
          statRows,     \* how often the database counts a query, per tier
          statFailed,   \* history: something taken was not (surely) written
          stopBegan     \* history: when stop was last called, or NoDeadline

envVars   == <<quarterNow, statSenders>>
countVars == <<fleet, acc>>
emitVars  == <<fleetOut, outbox, statTimer, statRows, statFailed>>
stopVars  == <<flushDeadline, statReturned, stopBegan>>
statVars  == <<envVars, statChan, countVars, todo, emitVars, stopVars>>

Tiers    == {"quarter", "hour"}
AllTiers == Tiers \cup {"day", "fleet"}
Buckets  == 0..MaxQuarter
Profiles == {ProfileOf(q) : q \in Queries}
Devices  == {DeviceOf(q) : q \in Queries} \cup {OtherDevice}
Keys     == [profile : Profiles, device : Devices, bucket : Buckets]
NoDeadline == CollectorFlushTimeout + EmitTimeout + 1

Calls == {"drain", "flush", "flushClosed", "flushAll", "final", "return"}

StatTypeOK ==
    /\ quarterNow \in Buckets
    /\ statSenders \subseteq Queries
    /\ statChan \subseteq Queries
    /\ Cardinality(statChan) <= StatBatch
    /\ fleet \subseteq Buckets \X Queries
    /\ \A tier \in Tiers :
          /\ DOMAIN acc[tier].entries \subseteq Keys
          /\ \A k \in DOMAIN acc[tier].entries :
                acc[tier].entries[k] \subseteq Consented
          /\ acc[tier].devices \in [Profiles \X Buckets -> 0..MaxDevices]
          /\ acc[tier].admitted \subseteq Keys
    /\ \A i \in DOMAIN todo : todo[i] \in Calls
    /\ fleetOut \subseteq Buckets \X Queries
    /\ \A d \in outbox :
          /\ d.tier \in Tiers \cup {"day"}
          /\ d.key \in Keys
          /\ d.queries \subseteq Consented
    /\ statTimer \in 0..EmitTimeout
    /\ flushDeadline \in 0..NoDeadline
    /\ statReturned \in BOOLEAN
    /\ statFailed \in BOOLEAN
    /\ statRows \in [AllTiers -> [Queries -> Nat]]
    /\ stopBegan \in 0..NoDeadline

EmptyAcc == [entries  |-> << >>,
             devices  |-> [pb \in Profiles \X Buckets |-> 0],
             admitted |-> {}]

StatInit ==
    /\ quarterNow = 0
    /\ statSenders = {}
    /\ statChan = {}
    /\ fleet = {}
    /\ acc = [tier \in Tiers |-> EmptyAcc]
    /\ todo = << >>
    /\ fleetOut = {}
    /\ outbox = {}
    /\ statTimer = 0
    /\ flushDeadline = NoDeadline
    /\ statReturned = FALSE
    /\ statRows = [tier \in AllTiers |-> [q \in Queries |-> 0]]
    /\ statFailed = FALSE
    /\ stopBegan = NoDeadline

StatBusy == fleetOut # {} \/ outbox # {}

\* The goroutine is in its select statement.
StatIdle == ~statReturned /\ ~StatBusy /\ todo = << >>

-----------------------------------------------------------------------------
(* The accumulators.                                                       *)

\* The width of a tier's buckets, in quarters.
Width(tier) == IF tier = "hour" THEN QuartersPerHour ELSE 1

BucketOf(tier, t) == t \div Width(tier)

ClosedBuckets(tier, t) == {b \in Buckets : (b + 1) * Width(tier) <= t}

\* The key a query is counted under: its own when it has an entry or was
\* admitted before, or while there is room; the shared one otherwise.
OwnKey(tier, q, t) == [profile |-> ProfileOf(q),
                       device  |-> DeviceOf(q),
                       bucket  |-> BucketOf(tier, t)]

Known(a, k) == k \in DOMAIN a.entries \/ k \in a.admitted

HasRoom(a, k) == a.devices[<<k.profile, k.bucket>>] < MaxDevices

Slot(a, k) ==
    IF Known(a, k) \/ HasRoom(a, k) THEN k ELSE [k EXCEPT !.device = OtherDevice]

\* consentedAccumulator.add
AccAdd(a, tier, q, t) ==
    LET own  == OwnKey(tier, q, t)
        slot == Slot(a, own)
        old  == IF slot \in DOMAIN a.entries THEN a.entries[slot] ELSE {}
        new  == ~Known(a, own) /\ HasRoom(a, own)
    IN  [entries  |-> [k \in DOMAIN a.entries \cup {slot} |->
                          IF k = slot THEN old \cup {q} ELSE a.entries[k]],
         devices  |-> IF new
                      THEN [a.devices EXCEPT ![<<own.profile, own.bucket>>] = @ + 1]
                      ELSE a.devices,
         admitted |-> IF new THEN a.admitted \cup {own} ELSE a.admitted]

\* Mutant: the entries stay in the accumulator after they were taken.
AccTakeKept(a, entryBuckets, deviceBuckets) ==
    [entries  |-> a.entries,
     devices  |-> [pb \in DOMAIN a.devices |->
                      IF pb[2] \in deviceBuckets THEN 0 ELSE a.devices[pb]],
     admitted |-> {k \in a.admitted : k.bucket \notin deviceBuckets}]

\* consentedAccumulator.take: what is left after the entries of some buckets
\* and the device bookkeeping of some buckets are removed.
AccTake(a, entryBuckets, deviceBuckets) ==
    [entries  |-> [k \in {j \in DOMAIN a.entries : j.bucket \notin entryBuckets}
                      |-> a.entries[k]],
     devices  |-> [pb \in DOMAIN a.devices |->
                      IF pb[2] \in deviceBuckets THEN 0 ELSE a.devices[pb]],
     admitted |-> {k \in a.admitted : k.bucket \notin deviceBuckets}]

\* The documents that take returns.
Taken(tier, a, entryBuckets) ==
    {[tier |-> tier, key |-> k, queries |-> a.entries[k]] :
        k \in {j \in DOMAIN a.entries : j.bucket \in entryBuckets}}

ForDay(d) == [tier    |-> "day",
              key     |-> [d.key EXCEPT !.bucket = @ \div HoursPerDay],
              queries |-> d.queries]

OpenEntries == Cardinality(DOMAIN acc["quarter"].entries)
               + Cardinality(DOMAIN acc["hour"].entries)

-----------------------------------------------------------------------------
(* The request goroutines and the clock.                                   *)

StatSend(q) ==
    /\ q \in statSenders
    /\ Cardinality(statChan) < StatBatch
    /\ statSenders' = statSenders \ {q}
    /\ statChan' = statChan \cup {q}
    /\ UNCHANGED <<quarterNow, countVars, todo, emitVars, stopVars>>

NextQuarter ==
    /\ quarterNow < MaxQuarter
    /\ quarterNow' = quarterNow + 1
    /\ UNCHANGED <<statSenders, statChan, countVars, todo, emitVars, stopVars>>

-----------------------------------------------------------------------------
(* The Collect goroutine.                                                  *)

\* record: count one event of the channel.
Record(q) ==
    /\ q \in statChan
    /\ statChan' = statChan \ {q}
    /\ fleet' = fleet \cup {<<BucketOf("hour", quarterNow), q>>}
    /\ IF q \in Consented
          THEN acc' = [tier \in Tiers |-> AccAdd(acc[tier], tier, q, quarterNow)]
          ELSE UNCHANGED acc
    /\ UNCHANGED <<envVars, emitVars, stopVars>>

\* add, and the batch check that follows it.  The cap flush does not touch
\* the service documents, so both conditions are known after record.
StatReceive(q) ==
    /\ StatIdle
    /\ Record(q)
    /\ todo' = (IF q \in Consented /\ OpenEntries' >= MaxOpenEntries
                   THEN <<"flushAll">> ELSE << >>)
               \o (IF Cardinality(fleet') >= StatBatch THEN <<"flush">> ELSE << >>)

\* A case of the select statement that makes some calls.
Handle(calls) ==
    /\ StatIdle
    /\ todo' = calls
    /\ UNCHANGED <<envVars, statChan, countVars, emitVars, flushDeadline, statReturned>>

StatTick ==
    /\ Handle((IF fleet = {} THEN << >> ELSE <<"flush">>) \o <<"flushClosed">>)
    /\ UNCHANGED stopBegan

\* Mutant: what is queued when the collector stops stays in the channel.
StatStopUndrained ==
    /\ Quit
    /\ Handle(<<"flush", "final", "return">>)
    /\ stopBegan' = elapsed

\* Mutant: the final flush has no deadline of its own.
StatStopUnbounded ==
    /\ Quit
    /\ Handle(<<"drain", "flush", "flushAll", "return">>)
    /\ stopBegan' = elapsed

StatStop ==
    /\ Quit
    /\ Handle(<<"drain", "flush", "final", "return">>)
    /\ stopBegan' = elapsed

\* The handler makes its next call once the emitter is done with the last one.
Calling(call) ==
    /\ ~StatBusy
    /\ todo # << >>
    /\ Head(todo) = call

\* drain: one queued event, or the end of the loop.
Drain ==
    /\ Calling("drain")
    /\ \/ /\ \E q \in statChan : Record(q)
          /\ UNCHANGED todo
       \/ /\ statChan = {}
          /\ todo' = Tail(todo)
          /\ UNCHANGED <<envVars, statChan, countVars, emitVars, stopVars>>

\* flush: take the service documents and hand them to the emitter.
Flush ==
    /\ Calling("flush")
    /\ todo' = Tail(todo)
    /\ fleetOut' = fleet
    /\ fleet' = {}
    /\ statTimer' = IF fleet = {} THEN 0 ELSE EmitTimeout
    /\ UNCHANGED <<envVars, statChan, acc, outbox, statRows,
                   statFailed, stopVars>>

\* The time the next chunk gets: the shutdown budget may leave less.
ChunkTime(deadline) ==
    CASE deadline = NoDeadline -> EmitTimeout
      [] deadline <= elapsed   -> 0
      [] OTHER                 -> Min({EmitTimeout, deadline - elapsed})

\* emitConsented: what is still to be emitted of a batch.  Past the deadline
\* that is nothing.
HandOut(batch, deadline) ==
    /\ outbox' = IF ChunkTime(deadline) = 0 THEN {} ELSE batch
    /\ statTimer' = IF batch = {} THEN 0 ELSE ChunkTime(deadline)

\* flushConsented takes some buckets of each tier, the device bookkeeping of
\* some, and sends the hours as days too.
TakeConsented(quarterBuckets, hourBuckets, quarterDevices, hourDevices) ==
    LET quarters == Taken("quarter", acc["quarter"], quarterBuckets)
        hours    == Taken("hour", acc["hour"], hourBuckets)
        batch    == quarters \cup hours \cup {ForDay(d) : d \in hours}
    IN  /\ todo' = Tail(todo)
        /\ acc' = [quarter |-> AccTake(acc["quarter"], quarterBuckets, quarterDevices),
                   hour    |-> AccTake(acc["hour"], hourBuckets, hourDevices)]
        /\ HandOut(batch, flushDeadline')
        /\ statFailed' = (statFailed \/ outbox' # batch)
        /\ UNCHANGED <<envVars, statChan, fleet, fleetOut, statRows,
                       statReturned, stopBegan>>

\* Mutant: the open hour waits for its end.
FlushClosedHours ==
    LET closedQ == ClosedBuckets("quarter", quarterNow)
        closedH == ClosedBuckets("hour", quarterNow)
    IN  /\ Calling("flushClosed")
        /\ UNCHANGED flushDeadline
        /\ TakeConsented(closedQ, closedH, closedQ, closedH)

\* flushConsented(false): the closed quarters and, when there are any, all
\* that the hours have so far; the open hours keep their device bookkeeping.
FlushClosed ==
    LET closedQ == ClosedBuckets("quarter", quarterNow)
        closedH == ClosedBuckets("hour", quarterNow)
        anyQ    == Taken("quarter", acc["quarter"], closedQ) # {}
    IN  /\ Calling("flushClosed")
        /\ UNCHANGED flushDeadline
        /\ TakeConsented(closedQ, IF anyQ THEN Buckets ELSE closedH, closedQ, closedH)

\* flushConsented(true), which starts the device caps over; at shutdown it
\* runs under its own deadline.
FlushAll ==
    /\ \/ Calling("flushAll") /\ UNCHANGED flushDeadline
       \/ Calling("final") /\ flushDeadline' = elapsed + EmitTimeout
    /\ TakeConsented(Buckets, Buckets, Buckets, Buckets)

Return ==
    /\ Calling("return")
    /\ todo' = << >>
    /\ statReturned' = TRUE
    /\ UNCHANGED <<envVars, statChan, countVars, emitVars, flushDeadline, stopBegan>>

-----------------------------------------------------------------------------
(* The emitter.                                                            *)

FleetHours == {p[1] : p \in fleetOut}

\* AddBatch: an unordered bulk write of increments, one per hour.  When it
\* fails, any of the documents may have been written.
AddBatch(hours) ==
    statRows' = [statRows EXCEPT !["fleet"] = [q \in Queries |->
                    @[q] + Cardinality({p \in fleetOut : p[1] \in hours /\ p[2] = q})]]

\* InsertStatistics: unordered inserts, collection by collection; a missing
\* collection drops the batch without an error.
InsertStatistics(docs) ==
    statRows' = [tier \in AllTiers |-> [q \in Queries |->
                    statRows[tier][q]
                    + Cardinality({d \in docs : d.tier = tier /\ q \in d.queries})]]

FleetEmitted ==
    /\ fleetOut # {}
    /\ AddBatch(FleetHours)
    /\ fleetOut' = {}
    /\ statTimer' = 0
    /\ UNCHANGED <<envVars, statChan, countVars, todo, outbox, statFailed, stopVars>>

\* The error is logged and the counters are dropped.
FleetFailed ==
    /\ fleetOut # {}
    /\ Fault
    /\ \E hours \in SUBSET FleetHours : AddBatch(hours)
    /\ fleetOut' = {}
    /\ statTimer' = 0
    /\ statFailed' = TRUE
    /\ UNCHANGED <<envVars, statChan, countVars, todo, outbox, stopVars>>

\* The next chunk of a batch: the quarters come first, otherwise the order of
\* the documents is that of a map.
Chunks ==
    {chunk \in kSubset(Min({ChunkSize, Cardinality(outbox)}), outbox) :
        (\E d \in outbox \ chunk : d.tier = "quarter")
            => \A d \in chunk : d.tier = "quarter"}

\* A chunk is written; the next one follows unless the budget is spent.
ChunkEmitted ==
    /\ outbox # {}
    /\ \E chunk \in Chunks :
          /\ InsertStatistics(chunk)
          /\ HandOut(outbox \ chunk, flushDeadline)
          /\ statFailed' = (statFailed \/ outbox' # outbox \ chunk)
    /\ UNCHANGED <<envVars, statChan, countVars, todo, fleetOut, stopVars>>

\* A chunk fails and is dropped; the others still go out.
ChunkFailed ==
    /\ outbox # {}
    /\ Fault
    /\ \E chunk \in Chunks :
          /\ \E docs \in SUBSET chunk : InsertStatistics(docs)
          /\ HandOut(outbox \ chunk, flushDeadline)
    /\ statFailed' = TRUE
    /\ UNCHANGED <<envVars, statChan, countVars, todo, fleetOut, stopVars>>

\* A panic in the emitter ends the handler; what it had taken is gone, the
\* accumulators survive in the collector.
StatPanic ==
    /\ Fault
    /\ \/ fleetOut # {} /\ \E hours \in SUBSET FleetHours : AddBatch(hours)
       \/ outbox # {} /\ \E chunk \in Chunks : \E docs \in SUBSET chunk :
                            InsertStatistics(docs)
    /\ statFailed' = TRUE
    /\ fleetOut' = {}
    /\ outbox' = {}
    /\ todo' = << >>
    /\ statTimer' = 0
    /\ stopBegan' = NoDeadline
    /\ UNCHANGED <<envVars, statChan, countVars, flushDeadline, statReturned>>

=============================================================================
