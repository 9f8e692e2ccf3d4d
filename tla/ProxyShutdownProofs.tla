------------------------ MODULE ProxyShutdownProofs ------------------------
(***************************************************************************)
(* For any queries, batch sizes, caps, chunk sizes, hours and faults: what *)
(* the two collectors write counts every query at most once, the coarser   *)
(* statistics keep up with the finer, and a stop that is not cut short has *)
(* written all it took, in the time that the main goroutine waits.         *)
(*                                                                         *)
(* The inductive invariant has one part per reason:                        *)
(*   LogInv      a logged query is in one place until it is written        *)
(*   HostShape, StatShape   types                                          *)
(*   UnseenInv   a query still on its way is counted nowhere               *)
(*   FleetInv    a service-wide count is held once and not written yet     *)
(*   TierInv     a tier holds a query under one key, in its accumulator or *)
(*               in one document, until it is written                      *)
(*   CoarseInv   what has left a quarter has left its hour and is a day's  *)
(*   StopInv     what each call of a stopping collector has done           *)
(*   BudgetInv   how late it can be at each of those calls                 *)
(*                                                                         *)
(* The actions are first reduced to the seven kinds of step that the       *)
(* queries can see (StatKinds).                                            *)
(***************************************************************************)
EXTENDS ProxyShutdown, TLAPS, FiniteSetTheorems, SequenceTheorems

(* The logs: a query is in one place, and written once it has left them all. *)

LogInv ==
    /\ logSenders \subseteq answered /\ logChan \subseteq answered
    /\ logBuffer \subseteq answered
    /\ logSenders \cap logChan = {} /\ logBuffer \cap (logSenders \cup logChan) = {}
    /\ logRows \in [Logged -> {0, 1}]
    /\ \A q \in Logged : logRows[q] = 1 =>
        q \in answered /\ q \notin logSenders \cup logChan \cup logBuffer

(* The statistics: types, as far as the proofs need them. *)

DocTiers == Tiers \cup {"day"}

HostShape ==
    /\ mainPc \in MainSteps /\ elapsed \in 0 .. CollectorFlushTimeout
    /\ quarterNow \in 0 .. MaxQuarter
    /\ statTimer \in 0 .. EmitTimeout

StatShape ==
    /\ answered \subseteq Queries
    /\ statSenders \subseteq answered /\ statChan \subseteq answered
    /\ statSenders \cap statChan = {}
    /\ \A tier \in Tiers :
        /\ DOMAIN acc[tier].entries \subseteq Keys
        /\ \A k \in DOMAIN acc[tier].entries : acc[tier].entries[k] \subseteq Consented
    /\ \A d \in outbox : d.tier \in DocTiers /\ d.queries \subseteq Consented
    /\ statRows \in [AllTiers -> [Queries -> {0, 1}]]

\* A query the collector has not received yet is not counted anywhere.
Unseen(q) == q \notin answered \/ q \in statSenders \/ q \in statChan

UnseenInv ==
    \A q \in Queries : Unseen(q) =>
        /\ \A p \in fleet \cup fleetOut : p[2] # q
        /\ \A tier \in Tiers : q \notin Open(tier)
        /\ \A d \in outbox : q \notin d.queries
        /\ \A tier \in AllTiers : statRows[tier][q] = 0

FleetInv ==
    /\ \A p, r \in fleet \cup fleetOut : p[2] = r[2] => p = r
    /\ fleet \cap fleetOut = {}
    /\ \A p \in fleet \cup fleetOut : p[2] \in Queries /\ statRows["fleet"][p[2]] = 0

TierInv ==
    /\ \A tier \in Tiers : \A j, k \in DOMAIN acc[tier].entries :
        acc[tier].entries[j] \cap acc[tier].entries[k] # {} => j = k
    /\ \A d, e \in outbox : d.tier = e.tier /\ d.queries \cap e.queries # {} => d = e
    /\ \A tier \in Tiers : \A q \in Open(tier) :
        statRows[tier][q] = 0 /\ q \notin Outgoing(tier)
    /\ \A q \in Open("hour") : statRows["day"][q] = 0 /\ q \notin Outgoing("day")
    /\ \A d \in outbox : \A q \in d.queries : statRows[d.tier][q] = 0

\* A query has left a tier's accumulator for the database.
Went(tier, q) == statRows[tier][q] = 1 \/ q \in Outgoing(tier)

CoarseInv ==
    /\ Open("hour") \subseteq Open("quarter")
    /\ ~statFailed => \A q \in Consented :
        /\ Went("hour", q) <=> Went("day", q)
        /\ Went("quarter", q) => Went("hour", q)
        /\ q \in Open("quarter") => q \in Open("hour") \/ Went("hour", q)

\* The handler calls that are left, and what a stopping collector has done.
StopCalls == <<"drain", "flush", "final", "return">>
FromFlush == <<"flush", "final", "return">>
FromFinal == <<"final", "return">>
FromReturn == <<"return">>
Stopping == {StopCalls, FromFlush, FromFinal, FromReturn}
Handlers == {<< >>, <<"flushAll">>, <<"flush">>, <<"flushAll", "flush">>,
             <<"flushClosed">>, <<"flush", "flushClosed">>}

StopInv ==
    /\ todo \in Handlers \cup Stopping
    /\ todo \in Stopping \/ statReturned => Quit
    /\ queuedAtQuit \subseteq answered /\ queuedAtQuit \cap statSenders = {}
    /\ ~Quit => queuedAtQuit = {}
    /\ todo \in {FromFlush, FromFinal, FromReturn} \/ statReturned =>
        queuedAtQuit \cap statChan = {}
    /\ todo \in {FromFinal, FromReturn} \/ statReturned => fleet = {}
    /\ todo = FromReturn \/ statReturned => \A tier \in Tiers : Open(tier) = {}
    /\ statReturned => ~StatBusy /\ todo = << >>
    /\ mainPc \in {"disconnecting", "exited"} /\ ~timedOut => statReturned

\* How long a stop that began at stopBegan can have taken.
BudgetInv ==
    /\ stopBegan \in 0 .. NoDeadline /\ flushDeadline \in 0 .. NoDeadline
    /\ todo \in Stopping => stopBegan # NoDeadline
    /\ statReturned \/ stopBegan = NoDeadline \/ todo \in Stopping
    /\ todo \in {StopCalls, FromFlush} => elapsed = stopBegan /\ ~StatBusy
    /\ todo = FromFinal => outbox = {} /\ elapsed + statTimer <= stopBegan + EmitTimeout
    /\ todo = FromReturn => elapsed + statTimer <= stopBegan + 2 * EmitTimeout
    /\ todo = FromReturn => /\ flushDeadline # NoDeadline
                            /\ flushDeadline <= stopBegan + 2 * EmitTimeout

-----------------------------------------------------------------------------
(* The accumulators: a query is open under one key, and taken once. *)

OpenIn(a) == UNION {a.entries[k] : k \in DOMAIN a.entries}

AccType(a) ==
    /\ DOMAIN a.entries \subseteq Keys
    /\ \A k \in DOMAIN a.entries : a.entries[k] \subseteq Consented

OneKey(a) ==
    \A j, k \in DOMAIN a.entries : a.entries[j] \cap a.entries[k] # {} => j = k

LEMMA AtMostOne ==
    ASSUME NEW S, \A x, y \in S : x = y
    PROVE  /\ Cardinality(S) \in {0, 1}
           /\ S = {} => Cardinality(S) = 0
           /\ S # {} => Cardinality(S) = 1
<1>1. CASE S = {}
  BY <1>1, FS_EmptySet
<1>2. CASE S # {}
  <2>1. PICK x : S = {x}
    BY <1>2
  <2> QED BY <2>1, FS_Singleton
<1> QED BY <1>1, <1>2

LEMMA BucketInRange ==
    ASSUME NEW tier \in Tiers, NEW t \in 0 .. MaxQuarter
    PROVE  BucketOf(tier, t) \in Buckets
<1>1. Width(tier) \in Nat \ {0} /\ t \in Nat /\ MaxQuarter \in Nat /\ t <= MaxQuarter
  BY StatAssumption DEF Width
<1>2. \A w \in Nat \ {0}, n \in Nat : n \div w \in 0 .. n
  OBVIOUS
<1>3. t \div Width(tier) \in 0 .. t
  BY <1>1, <1>2
<1> QED BY <1>1, <1>3 DEF BucketOf, Buckets

LEMMA AccAddEffect ==
    ASSUME NEW a, AccType(a), OneKey(a), NEW tier \in Tiers, NEW t \in 0 .. MaxQuarter,
           NEW q \in Consented, q \notin OpenIn(a)
    PROVE  LET b == AccAdd(a, tier, q, t)
           IN  AccType(b) /\ OneKey(b) /\ OpenIn(b) = OpenIn(a) \cup {q}
<1> DEFINE own == OwnKey(tier, q, t)
           slot == Slot(a, own)
           old == IF slot \in DOMAIN a.entries THEN a.entries[slot] ELSE {}
           b == AccAdd(a, tier, q, t)
<1>1. own \in Keys
  BY BucketInRange, StatAssumption DEF OwnKey, Keys, Profiles, Devices
<1>2. slot \in Keys
  <2>1. [own EXCEPT !.device = OtherDevice] \in Keys
    BY <1>1 DEF Keys, Devices
  <2> QED BY <1>1, <2>1 DEF Slot
<1>3. b.entries = [k \in DOMAIN a.entries \cup {slot} |->
                      IF k = slot THEN old \cup {q} ELSE a.entries[k]]
  BY DEF AccAdd
<1> HIDE DEF own, slot, b
<1>4. /\ DOMAIN b.entries = DOMAIN a.entries \cup {slot}
      /\ b.entries[slot] = old \cup {q}
      /\ \A k \in DOMAIN a.entries \ {slot} : b.entries[k] = a.entries[k]
  BY <1>3
<1>5. \A k \in DOMAIN a.entries : q \notin a.entries[k]
  BY DEF OpenIn
<1>6. AccType(b)
  BY <1>2, <1>4 DEF AccType
<1>7. OneKey(b)
  BY <1>4, <1>5 DEF OneKey
<1>8. OpenIn(b) = OpenIn(a) \cup {q}
  BY <1>4 DEF OpenIn
<1> QED BY <1>6, <1>7, <1>8 DEF b

LEMMA AccTakeEffect ==
    ASSUME NEW a, AccType(a), OneKey(a), NEW E, NEW D, NEW tier
    PROVE  LET b == AccTake(a, E, D)
               docs == Taken(tier, a, E)
           IN  /\ AccType(b) /\ OneKey(b) /\ OpenIn(b) \subseteq OpenIn(a)
               /\ \A d \in docs : /\ d.tier = tier
                                  /\ d.queries \subseteq OpenIn(a) \ OpenIn(b)
               /\ \A d, e \in docs : d.queries \cap e.queries # {} => d = e
               /\ \A q \in OpenIn(a) : q \in OpenIn(b) \/ \E d \in docs : q \in d.queries
               /\ Buckets \subseteq E => OpenIn(b) = {}
               /\ docs = {} => OpenIn(b) = OpenIn(a)
<1> DEFINE b == AccTake(a, E, D)
           docs == Taken(tier, a, E)
           kept == {j \in DOMAIN a.entries : j.bucket \notin E}
           gone == {j \in DOMAIN a.entries : j.bucket \in E}
<1>1. b.entries = [k \in kept |-> a.entries[k]]
  BY DEF AccTake
<1>2. DOMAIN b.entries = kept /\ \A k \in kept : b.entries[k] = a.entries[k]
  BY <1>1
<1>3. docs = {[tier |-> tier, key |-> k, queries |-> a.entries[k]] : k \in gone}
  BY DEF Taken
<1>4. \A d \in docs : \E k \in gone : d.tier = tier /\ d.key = k /\ d.queries = a.entries[k]
                                  /\ d = [tier |-> tier, key |-> k, queries |-> a.entries[k]]
  <2> SUFFICES ASSUME NEW d \in docs
               PROVE  \E k \in gone : d.tier = tier /\ d.key = k /\ d.queries = a.entries[k]
                        /\ d = [tier |-> tier, key |-> k, queries |-> a.entries[k]]
    OBVIOUS
  <2> HIDE DEF docs, gone
  <2>1. PICK k \in gone : d = [tier |-> tier, key |-> k, queries |-> a.entries[k]]
    BY <1>3
  <2>2. d.tier = tier /\ d.key = k /\ d.queries = a.entries[k]
    BY <2>1
  <2> QED BY <2>1, <2>2
<1>5. \A k \in gone : \E d \in docs : d.queries = a.entries[k]
  <2> SUFFICES ASSUME NEW k \in gone PROVE \E d \in docs : d.queries = a.entries[k]
    OBVIOUS
  <2> DEFINE d == [tier |-> tier, key |-> k, queries |-> a.entries[k]]
  <2>1. d.queries = a.entries[k]
    OBVIOUS
  <2> HIDE DEF docs, gone
  <2>2. d \in docs
    BY <1>3
  <2> QED BY <2>1, <2>2
<1> HIDE DEF b, docs
<1>6. AccType(b) /\ OneKey(b) /\ OpenIn(b) \subseteq OpenIn(a)
  BY <1>2 DEF AccType, OneKey, OpenIn
<1>7. ASSUME NEW d \in docs PROVE d.tier = tier /\ d.queries \subseteq OpenIn(a) \ OpenIn(b)
  <2>1. PICK k \in gone : d.tier = tier /\ d.queries = a.entries[k]
    BY <1>4
  <2>2. \A j \in kept : a.entries[j] \cap a.entries[k] = {}
    BY DEF OneKey
  <2> QED BY <1>2, <2>1, <2>2 DEF OpenIn
<1>8. ASSUME NEW d \in docs, NEW e \in docs, d.queries \cap e.queries # {} PROVE d = e
  BY <1>4, <1>8 DEF OneKey
<1>9. ASSUME NEW q \in OpenIn(a) PROVE q \in OpenIn(b) \/ \E d \in docs : q \in d.queries
  <2>1. PICK k \in DOMAIN a.entries : q \in a.entries[k]
    BY DEF OpenIn
  <2>2. CASE k \in kept
    BY <1>2, <2>1, <2>2 DEF OpenIn
  <2>3. CASE k \in gone
    BY <1>5, <2>1, <2>3
  <2> QED BY <2>2, <2>3
<1>10. ASSUME Buckets \subseteq E PROVE OpenIn(b) = {}
  <2>1. kept = {}
    BY <1>10 DEF AccType, Keys
  <2> QED BY <1>2, <2>1 DEF OpenIn
<1>11. ASSUME docs = {} PROVE OpenIn(b) = OpenIn(a)
  BY <1>6, <1>9, <1>11
<1> QED BY <1>6, <1>7, <1>8, <1>9, <1>10, <1>11 DEF b, docs

-----------------------------------------------------------------------------
(* What the emitter does to the database.                                  *)

CountShape == StatShape /\ UnseenInv /\ FleetInv /\ TierInv

LEMMA OpenIsOpenIn == \A tier \in Tiers : Open(tier) = OpenIn(acc[tier])
BY DEF Open, OpenIn

LEMMA FleetWritten ==
    ASSUME StatShape, FleetInv, NEW hours, AddBatch(hours)
    PROVE  /\ statRows' \in [AllTiers -> [Queries -> {0, 1}]]
           /\ \A tier \in AllTiers \ {"fleet"} : statRows'[tier] = statRows[tier]
           /\ \A q \in Queries : (\A p \in fleetOut : p[2] # q)
                => statRows'["fleet"][q] = statRows["fleet"][q]
<1> DEFINE Hits(q) == {p \in fleetOut : p[1] \in hours /\ p[2] = q}
           row == [q \in Queries |-> statRows["fleet"][q] + Cardinality(Hits(q))]
<1>1. statRows' = [statRows EXCEPT !["fleet"] = row]
  BY DEF AddBatch
<1>2. ASSUME NEW q \in Queries
      PROVE  /\ row[q] \in {0, 1}
             /\ (\A p \in fleetOut : p[2] # q) => row[q] = statRows["fleet"][q]
  <2>1. row[q] = statRows["fleet"][q] + Cardinality(Hits(q))
    OBVIOUS
  <2>2. statRows["fleet"][q] \in {0, 1}
    BY DEF StatShape, AllTiers
  <2>3. \A x, y \in Hits(q) : x = y
    BY DEF FleetInv
  <2>4. \A p \in Hits(q) : p \in fleetOut /\ p[2] = q
    OBVIOUS
  <2> HIDE DEF Hits, row
  <2>5. CASE Hits(q) = {}
    <3>1. Cardinality(Hits(q)) = 0
      BY <2>5, FS_EmptySet
    <3> QED BY <2>1, <2>2, <3>1
  <2>6. CASE Hits(q) # {}
    <3>1. Cardinality(Hits(q)) = 1
      BY <2>3, <2>6, AtMostOne
    <3>2. statRows["fleet"][q] = 0
      BY <2>4, <2>6 DEF FleetInv
    <3> QED BY <2>1, <2>4, <2>6, <3>1, <3>2
  <2> QED BY <2>5, <2>6
<1>3. row \in [Queries -> {0, 1}]
  BY <1>2
<1> HIDE DEF row
<1>4. /\ statRows'["fleet"] = row
      /\ \A tier \in AllTiers \ {"fleet"} : statRows'[tier] = statRows[tier]
      /\ statRows' \in [AllTiers -> [Queries -> {0, 1}]]
  BY <1>1, <1>3 DEF StatShape, AllTiers
<1> QED BY <1>2, <1>4

LEMMA DocsWritten ==
    ASSUME StatShape, TierInv, NEW docs \in SUBSET outbox, InsertStatistics(docs)
    PROVE  /\ statRows' \in [AllTiers -> [Queries -> {0, 1}]]
           /\ \A tier \in AllTiers, q \in Queries :
                statRows'[tier][q] =
                    IF \E d \in docs : d.tier = tier /\ q \in d.queries
                    THEN 1 ELSE statRows[tier][q]
<1> DEFINE Hits(tier, q) == {d \in docs : d.tier = tier /\ q \in d.queries}
<1>1. statRows' = [tier \in AllTiers |-> [q \in Queries |->
                        statRows[tier][q] + Cardinality(Hits(tier, q))]]
  BY DEF InsertStatistics
<1>2. ASSUME NEW tier \in AllTiers, NEW q \in Queries
      PROVE  /\ statRows'[tier][q] \in {0, 1}
             /\ statRows'[tier][q] =
                    IF \E d \in docs : d.tier = tier /\ q \in d.queries
                    THEN 1 ELSE statRows[tier][q]
  <2>1. statRows'[tier][q] = statRows[tier][q] + Cardinality(Hits(tier, q))
    BY <1>1
  <2>2. statRows[tier][q] \in {0, 1}
    BY DEF StatShape
  <2>3. \A x, y \in Hits(tier, q) : x = y
    BY DEF TierInv
  <2>4. \A d \in Hits(tier, q) : d \in outbox /\ d.tier = tier /\ q \in d.queries
    OBVIOUS
  <2>5. Hits(tier, q) # {} <=> \E d \in docs : d.tier = tier /\ q \in d.queries
    OBVIOUS
  <2> HIDE DEF Hits
  <2>6. CASE Hits(tier, q) = {}
    <3>1. Cardinality(Hits(tier, q)) = 0
      BY <2>6, FS_EmptySet
    <3> QED BY <2>1, <2>2, <2>5, <2>6, <3>1
  <2>7. CASE Hits(tier, q) # {}
    <3>1. Cardinality(Hits(tier, q)) = 1
      BY <2>3, <2>7, AtMostOne
    <3>2. statRows[tier][q] = 0
      BY <2>4, <2>7 DEF TierInv
    <3> QED BY <2>1, <2>5, <2>7, <3>1, <3>2
  <2> QED BY <2>6, <2>7
<1>3. statRows' \in [AllTiers -> [Queries -> {0, 1}]]
  <2>1. \A tier \in AllTiers : statRows'[tier] \in [Queries -> {0, 1}]
    BY <1>1, <1>2
  <2> QED BY <1>1, <2>1
<1> QED BY <1>2, <1>3

LEMMA MinOfTwo ==
    ASSUME NEW i \in Int, NEW j \in Int
    PROVE  Min({i, j}) \in {i, j} /\ Min({i, j}) <= i /\ Min({i, j}) <= j
<1>1. \E x \in {i, j} : \A y \in {i, j} : x <= y
  BY SMT
<1>2. Min({i, j}) \in {i, j} /\ \A y \in {i, j} : Min({i, j}) <= y
  BY <1>1 DEF Min
<1> QED BY <1>2

LEMMA ChunkTimeBound ==
    ASSUME HostShape, NEW deadline \in 0 .. NoDeadline
    PROVE  /\ ChunkTime(deadline) \in 0 .. EmitTimeout
           /\ deadline # NoDeadline /\ elapsed < deadline
                => elapsed + ChunkTime(deadline) <= deadline
           /\ deadline <= elapsed => ChunkTime(deadline) = 0
<1>1. /\ EmitTimeout \in Nat /\ elapsed \in Nat
      /\ elapsed < NoDeadline /\ deadline \in Nat /\ NoDeadline \in Nat
  BY HostAssumption DEF HostShape, NoDeadline, CollectorFlushTimeout
<1>2. CASE deadline = NoDeadline
  BY <1>1, <1>2 DEF ChunkTime
<1>3. CASE deadline # NoDeadline /\ deadline <= elapsed
  BY <1>1, <1>3 DEF ChunkTime
<1>4. CASE deadline # NoDeadline /\ ~(deadline <= elapsed)
  <2>1. ChunkTime(deadline) = Min({EmitTimeout, deadline - elapsed})
    BY <1>4 DEF ChunkTime
  <2>2. /\ Min({EmitTimeout, deadline - elapsed}) \in {EmitTimeout, deadline - elapsed}
        /\ Min({EmitTimeout, deadline - elapsed}) <= EmitTimeout
        /\ Min({EmitTimeout, deadline - elapsed}) <= deadline - elapsed
    <3>1. EmitTimeout \in Int /\ deadline - elapsed \in Int
      BY <1>1
    <3> QED BY ONLY <3>1, MinOfTwo
  <2> QED BY <1>1, <1>4, <2>1, <2>2
<1> QED BY <1>2, <1>3, <1>4

-----------------------------------------------------------------------------
(* What the steps do to the queries.                                       *)

\* An answered query, and one that reached the channel.
Answers(q) ==
    /\ q \notin answered
    /\ answered' = answered \cup {q}
    /\ statSenders' = statSenders \cup {q}
    /\ UNCHANGED <<statChan, fleet, acc, fleetOut, outbox, statRows, statFailed>>

Sends(q) ==
    /\ q \in statSenders
    /\ statSenders' = statSenders \ {q}
    /\ statChan' = statChan \cup {q}
    /\ UNCHANGED <<answered, fleet, acc, fleetOut, outbox, statRows, statFailed>>

Counts(q) == Record(q) /\ UNCHANGED answered

\* The service documents go to the emitter.
TakesFleet ==
    /\ ~StatBusy
    /\ fleetOut' = fleet /\ fleet' = {}
    /\ UNCHANGED <<answered, statSenders, statChan, acc, outbox, statRows, statFailed>>

\* Some buckets go to the emitter, or are dropped because time is up; with a
\* quarter go all the hours.
Batch(qb, hb) ==
    LET hours == Taken("hour", acc["hour"], hb)
    IN  Taken("quarter", acc["quarter"], qb) \cup hours \cup {ForDay(d) : d \in hours}

Takes(qb, hb) ==
    /\ ~StatBusy
    /\ Taken("quarter", acc["quarter"], qb) # {} => Buckets \subseteq hb
    /\ \E qd, hd : acc' = [quarter |-> AccTake(acc["quarter"], qb, qd),
                           hour    |-> AccTake(acc["hour"], hb, hd)]
    /\ outbox' \in {{}, Batch(qb, hb)}
    /\ ~statFailed' => ~statFailed /\ outbox' = Batch(qb, hb)
    /\ UNCHANGED <<answered, statSenders, statChan, fleet, fleetOut, statRows>>

\* The service documents leave the emitter, some of them for the database.
FleetGone ==
    /\ \E hours : AddBatch(hours)
    /\ fleetOut' = {}
    /\ outbox' \in {{}, outbox}
    /\ ~statFailed' => ~statFailed /\ outbox' = outbox
    /\ UNCHANGED <<answered, statSenders, statChan, fleet, acc>>

\* So do documents of the outbox, and after a panic what else there was.
DocsGone ==
    /\ \E docs \in SUBSET outbox :
        /\ InsertStatistics(docs)
        /\ outbox' \subseteq outbox \ docs
        /\ ~statFailed' => ~statFailed /\ outbox' = outbox \ docs
    /\ fleetOut' \subseteq fleetOut
    /\ UNCHANGED <<answered, statSenders, statChan, fleet, acc>>

Rests == UNCHANGED <<answered, statSenders, statChan, fleet, acc, fleetOut, outbox,
                     statRows, statFailed>>

\* A call that the running handler has left is made when the emitter rests.
LEMMA StatKinds ==
    ASSUME StatShape, [Next]_vars
    PROVE  \/ Rests
           \/ \E q \in Queries : Answers(q) \/ Sends(q) \/ Counts(q)
           \/ TakesFleet
           \/ \E qb, hb : Takes(qb, hb)
           \/ FleetGone
           \/ DocsGone
<1>1. CASE UNCHANGED vars
  BY <1>1 DEF Rests, vars, statVars, envVars, countVars, emitVars
<1>2. ASSUME NEW q \in Queries, PostResolve(q) PROVE Answers(q)
  BY <1>2 DEF PostResolve, Answers, countVars, emitVars
<1>3. CASE StopListeners \/ CloseQuit \/ WaitDone \/ WaitTimeout \/ Disconnect \/ Exited
  BY <1>3 DEF StopListeners, CloseQuit, WaitDone, WaitTimeout, Disconnect, Exited, Rests,
       vars, statVars, envVars, countVars, emitVars
<1>4. CASE TimePasses
  BY <1>4 DEF TimePasses, Rests, envVars, countVars
<1>5. CASE LogStep
  BY <1>5 DEF LogStep, InLogs, Rests, statVars, envVars, countVars, emitVars
<1>6. CASE StatStep
  <2>1. ASSUME NEW q \in Queries, StatSend(q), UNCHANGED answered PROVE Sends(q)
    BY <2>1 DEF StatSend, Sends, countVars, emitVars
  <2>2. ASSUME NEW q \in Queries, StatReceive(q), UNCHANGED answered PROVE Counts(q)
    BY <2>2 DEF StatReceive, Counts
  <2>3. CASE NextQuarter /\ UNCHANGED answered
    BY <2>3 DEF NextQuarter, Rests, countVars, emitVars
  <2>4. CASE (StatTick \/ StatStop) /\ UNCHANGED answered
    BY <2>4 DEF StatTick, StatStop, Handle, Rests, envVars, countVars, emitVars
  <2>5. CASE Drain /\ UNCHANGED answered
    <3>1. ASSUME NEW q \in statChan, Record(q) PROVE q \in Queries /\ Counts(q)
      BY <2>5, <3>1 DEF Counts, StatShape
    <3>2. CASE todo' = Tail(todo) /\ UNCHANGED <<envVars, statChan, countVars, emitVars, stopVars>>
      BY <2>5, <3>2 DEF Rests, envVars, countVars, emitVars
    <3> QED BY <2>5, <3>1, <3>2 DEF Drain
  <2>6. CASE Flush /\ UNCHANGED answered
    BY <2>6 DEF Flush, Calling, TakesFleet, envVars, stopVars
  <2>7. ASSUME NEW qb, NEW hb, NEW qd, NEW hd, TakeConsented(qb, hb, qd, hd), ~StatBusy,
               UNCHANGED answered,
               Taken("quarter", acc["quarter"], qb) # {} => Buckets \subseteq hb
        PROVE  Takes(qb, hb)
    BY <2>7 DEF TakeConsented, HandOut, Takes, Batch, envVars
  <2>8. CASE FlushClosed /\ UNCHANGED answered
    <3> DEFINE closedQ == ClosedBuckets("quarter", quarterNow)
               closedH == ClosedBuckets("hour", quarterNow)
               anyQ == Taken("quarter", acc["quarter"], closedQ) # {}
    <3>1. CASE anyQ
      <4>1. ~StatBusy /\ TakeConsented(closedQ, Buckets, closedQ, closedH)
        BY <2>8, <3>1 DEF FlushClosed, Calling
      <4> QED BY <2>7, <2>8, <4>1
    <3>2. CASE ~anyQ
      <4>1. ~StatBusy /\ TakeConsented(closedQ, closedH, closedQ, closedH)
        BY <2>8, <3>2 DEF FlushClosed, Calling
      <4> QED BY <2>7, <2>8, <3>2, <4>1
    <3> QED BY <3>1, <3>2
  <2>9. CASE FlushAll /\ UNCHANGED answered
    <3>1. ~StatBusy /\ TakeConsented(Buckets, Buckets, Buckets, Buckets)
      BY <2>9 DEF FlushAll, Calling
    <3> QED BY <2>7, <2>9, <3>1
  <2>10. CASE Return /\ UNCHANGED answered
    BY <2>10 DEF Return, Rests, envVars, countVars, emitVars
  <2>11. CASE (FleetEmitted \/ FleetFailed) /\ UNCHANGED answered
    BY <2>11 DEF FleetEmitted, FleetFailed, FleetGone, envVars, countVars
  <2>12. ASSUME NEW chunk \in Chunks PROVE chunk \in SUBSET outbox
    BY DEF Chunks, kSubset
  <2>13. CASE ChunkEmitted /\ UNCHANGED answered
    <3>1. PICK chunk \in Chunks :
            /\ InsertStatistics(chunk)
            /\ outbox' \in {{}, outbox \ chunk}
            /\ statFailed' = (statFailed \/ outbox' # outbox \ chunk)
      BY <2>13 DEF ChunkEmitted, HandOut
    <3> QED BY <2>12, <2>13, <3>1 DEF ChunkEmitted, DocsGone, envVars, countVars
  <2>14. CASE ChunkFailed /\ UNCHANGED answered
    <3>1. PICK chunk \in Chunks : /\ \E docs \in SUBSET chunk : InsertStatistics(docs)
                                  /\ outbox' \in {{}, outbox \ chunk}
      BY <2>14 DEF ChunkFailed, HandOut
    <3>2. PICK docs \in SUBSET chunk : InsertStatistics(docs)
      BY <3>1
    <3>3. docs \in SUBSET outbox /\ outbox' \subseteq outbox \ docs
      BY <2>12, <3>1
    <3> QED BY <2>14, <3>2, <3>3 DEF ChunkFailed, DocsGone, envVars, countVars
  <2>15. CASE StatPanic /\ UNCHANGED answered
    <3>1. CASE \E hours : AddBatch(hours)
      BY <2>15, <3>1 DEF StatPanic, FleetGone, envVars, countVars
    <3>2. CASE \E chunk \in Chunks : \E docs \in SUBSET chunk : InsertStatistics(docs)
      <4>1. PICK docs \in SUBSET outbox : InsertStatistics(docs)
        BY <2>12, <3>2
      <4> QED BY <2>15, <4>1 DEF StatPanic, DocsGone, envVars, countVars
    <3> QED BY <2>15, <3>1, <3>2 DEF StatPanic
  <2> QED
    BY <1>6, <2>1, <2>2, <2>3, <2>4, <2>5, <2>6, <2>8, <2>9, <2>10, <2>11, <2>13, <2>14, <2>15
    DEF StatStep, InStats
<1> QED BY <1>1, <1>2, <1>3, <1>4, <1>5, <1>6 DEF Next

LEMMA AccOfShape ==
    ASSUME StatShape, TierInv
    PROVE  \A tier \in Tiers : AccType(acc[tier]) /\ OneKey(acc[tier])
BY DEF StatShape, TierInv, AccType, OneKey

LEMMA CountsEffect ==
    ASSUME HostShape, CountShape, NEW q \in Queries, Counts(q)
    PROVE  /\ q \in statChan
           /\ \E h : fleet' = fleet \cup {<<h, q>>}
           /\ \A tier \in Tiers : /\ AccType(acc'[tier]) /\ OneKey(acc'[tier])
                                  /\ Open(tier)' = Open(tier) \cup ({q} \cap Consented)
<1>1. q \in statChan /\ fleet' = fleet \cup {<<BucketOf("hour", quarterNow), q>>}
  BY DEF Counts, Record
<1>2. ASSUME NEW tier \in Tiers
      PROVE  /\ AccType(acc'[tier]) /\ OneKey(acc'[tier])
             /\ OpenIn(acc'[tier]) = OpenIn(acc[tier]) \cup ({q} \cap Consented)
  <2>1. AccType(acc[tier]) /\ OneKey(acc[tier])
    BY AccOfShape DEF CountShape
  <2>2. CASE q \in Consented
    <3>1. acc'[tier] = AccAdd(acc[tier], tier, q, quarterNow)
      BY <2>2 DEF Counts, Record
    <3>2. q \notin OpenIn(acc[tier])
      BY <1>1, OpenIsOpenIn DEF CountShape, UnseenInv, Unseen
    <3>3. quarterNow \in 0 .. MaxQuarter
      BY DEF HostShape
    <3> DEFINE b == AccAdd(acc[tier], tier, q, quarterNow)
    <3>4. AccType(b) /\ OneKey(b) /\ OpenIn(b) = OpenIn(acc[tier]) \cup {q}
      BY <2>1, <2>2, <3>2, <3>3, AccAddEffect
    <3> QED BY <2>2, <3>1, <3>4
  <2>3. CASE q \notin Consented
    <3>1. acc' = acc
      BY <2>3 DEF Counts, Record
    <3> QED BY <2>1, <2>3, <3>1
  <2> QED BY <2>2, <2>3
<1>3. \A tier \in Tiers : Open(tier)' = OpenIn(acc'[tier])
  BY DEF Open, OpenIn
<1> QED BY <1>1, <1>2, <1>3, OpenIsOpenIn

LEMMA TakesEffect ==
    ASSUME CountShape, NEW qb, NEW hb, Takes(qb, hb)
    PROVE  /\ outbox = {} /\ fleetOut = {}
           /\ \A tier \in Tiers : /\ AccType(acc'[tier]) /\ OneKey(acc'[tier])
                                  /\ Open(tier)' \subseteq Open(tier)
           /\ \A d \in outbox' :
                /\ d.tier \in DocTiers
                /\ \A tier \in Tiers : d.tier = tier
                    => d.queries \subseteq Open(tier) \ Open(tier)'
                /\ d.tier = "day" => d.queries \subseteq Open("hour") \ Open("hour")'
           /\ \A d, e \in outbox' :
                d.tier = e.tier /\ d.queries \cap e.queries # {} => d = e
           /\ ~statFailed' =>
                /\ \A tier \in Tiers : \A q \in Open(tier) :
                    q \in Open(tier)' \/ \E d \in outbox' : d.tier = tier /\ q \in d.queries
                /\ \A q \in Open("hour") : q \in Open("hour")'
                    \/ \E d \in outbox' : d.tier = "day" /\ q \in d.queries
           /\ Open("quarter")' = Open("quarter") \/ Open("hour")' = {}
<1> DEFINE Q == Taken("quarter", acc["quarter"], qb)
           H == Taken("hour", acc["hour"], hb)
<1>1. PICK qd, hd : acc' = [quarter |-> AccTake(acc["quarter"], qb, qd),
                            hour    |-> AccTake(acc["hour"], hb, hd)]
  BY DEF Takes
<1> DEFINE aq == AccTake(acc["quarter"], qb, qd)
           ah == AccTake(acc["hour"], hb, hd)
<1>2. acc'["quarter"] = aq /\ acc'["hour"] = ah
  BY <1>1
<1>3. /\ AccType(acc["quarter"]) /\ OneKey(acc["quarter"])
      /\ AccType(acc["hour"]) /\ OneKey(acc["hour"])
  BY AccOfShape DEF CountShape, Tiers
<1>4. /\ AccType(aq) /\ OneKey(aq) /\ OpenIn(aq) \subseteq OpenIn(acc["quarter"])
      /\ \A d \in Q : /\ d.tier = "quarter"
                      /\ d.queries \subseteq OpenIn(acc["quarter"]) \ OpenIn(aq)
      /\ \A d, e \in Q : d.queries \cap e.queries # {} => d = e
      /\ \A q \in OpenIn(acc["quarter"]) : q \in OpenIn(aq) \/ \E d \in Q : q \in d.queries
      /\ Q = {} => OpenIn(aq) = OpenIn(acc["quarter"])
  BY ONLY <1>3, AccTakeEffect
<1>5. /\ AccType(ah) /\ OneKey(ah) /\ OpenIn(ah) \subseteq OpenIn(acc["hour"])
      /\ \A d \in H : /\ d.tier = "hour"
                      /\ d.queries \subseteq OpenIn(acc["hour"]) \ OpenIn(ah)
      /\ \A d, e \in H : d.queries \cap e.queries # {} => d = e
      /\ \A q \in OpenIn(acc["hour"]) : q \in OpenIn(ah) \/ \E d \in H : q \in d.queries
      /\ Buckets \subseteq hb => OpenIn(ah) = {}
  BY ONLY <1>3, AccTakeEffect
<1>6. /\ Open("quarter") = OpenIn(acc["quarter"]) /\ Open("hour") = OpenIn(acc["hour"])
      /\ Open("quarter")' = OpenIn(aq) /\ Open("hour")' = OpenIn(ah)
  BY <1>2 DEF Open, OpenIn
<1>7. \A d : ForDay(d).tier = "day" /\ ForDay(d).queries = d.queries
  BY DEF ForDay
<1>8. Batch(qb, hb) = Q \cup H \cup {ForDay(d) : d \in H}
  BY DEF Batch
<1>9. /\ outbox' \subseteq Batch(qb, hb)
      /\ ~statFailed' => outbox' = Batch(qb, hb)
      /\ outbox = {} /\ fleetOut = {}
      /\ Q # {} => Buckets \subseteq hb
  BY DEF Takes, StatBusy
<1> HIDE DEF aq, ah, Q, H
<1>10. ASSUME NEW d \in outbox'
       PROVE  \/ d \in Q
              \/ d \in H
              \/ \E e \in H : d = ForDay(e) /\ d.tier = "day" /\ d.queries = e.queries
  BY <1>7, <1>8, <1>9
<1>11. ASSUME NEW d \in outbox'
       PROVE  /\ d.tier \in DocTiers
              /\ \A tier \in Tiers : d.tier = tier
                    => d.queries \subseteq Open(tier) \ Open(tier)'
              /\ d.tier = "day" => d.queries \subseteq Open("hour") \ Open("hour")'
  <2>1. CASE d \in Q
    BY <1>4, <1>6, <2>1 DEF DocTiers, Tiers
  <2>2. CASE d \in H
    BY <1>5, <1>6, <2>2 DEF DocTiers, Tiers
  <2>3. CASE \E e \in H : d.tier = "day" /\ d.queries = e.queries
    BY <1>5, <1>6, <2>3 DEF DocTiers, Tiers
  <2> QED BY <1>10, <2>1, <2>2, <2>3
<1>12. ASSUME NEW d \in outbox', NEW e \in outbox', d.tier = e.tier,
              d.queries \cap e.queries # {}
       PROVE  d = e
  <2>1. \A x \in outbox' :
          /\ x.tier = "quarter" => x \in Q
          /\ x.tier = "hour" => x \in H
          /\ x.tier = "day" => \E y \in H : x = ForDay(y) /\ x.queries = y.queries
    BY <1>4, <1>5, <1>10
  <2>2. d.tier \in {"quarter", "hour", "day"}
    BY <1>11 DEF DocTiers, Tiers
  <2>3. CASE d.tier = "quarter"
    BY <1>4, <1>12, <2>1, <2>3
  <2>4. CASE d.tier = "hour"
    BY <1>5, <1>12, <2>1, <2>4
  <2>5. CASE d.tier = "day"
    <3>1. PICK x \in H, y \in H : /\ d = ForDay(x) /\ d.queries = x.queries
                                  /\ e = ForDay(y) /\ e.queries = y.queries
      BY <1>12, <2>1, <2>5
    <3>2. x = y
      BY <1>5, <1>12, <3>1
    <3> QED BY <3>1, <3>2
  <2> QED BY <2>2, <2>3, <2>4, <2>5
<1>13. ASSUME ~statFailed'
       PROVE  /\ \A tier \in Tiers : \A q \in Open(tier) :
                    q \in Open(tier)' \/ \E d \in outbox' : d.tier = tier /\ q \in d.queries
              /\ \A q \in Open("hour") : q \in Open("hour")'
                    \/ \E d \in outbox' : d.tier = "day" /\ q \in d.queries
  <2>1. Q \subseteq outbox' /\ H \subseteq outbox' /\ \A e \in H : ForDay(e) \in outbox'
    BY <1>8, <1>9, <1>13
  <2>2. ASSUME NEW q \in Open("quarter")
        PROVE  q \in Open("quarter")' \/ \E d \in outbox' : d.tier = "quarter" /\ q \in d.queries
    BY <1>4, <1>6, <2>1
  <2>3. ASSUME NEW q \in Open("hour")
        PROVE  /\ q \in Open("hour")' \/ \E d \in outbox' : d.tier = "hour" /\ q \in d.queries
               /\ q \in Open("hour")' \/ \E d \in outbox' : d.tier = "day" /\ q \in d.queries
    BY <1>5, <1>6, <1>7, <2>1
  <2> QED BY <2>2, <2>3 DEF Tiers
<1>14. /\ \A tier \in Tiers : /\ AccType(acc'[tier]) /\ OneKey(acc'[tier])
                              /\ Open(tier)' \subseteq Open(tier)
       /\ Open("quarter")' = Open("quarter") \/ Open("hour")' = {}
  BY <1>2, <1>4, <1>5, <1>6, <1>9 DEF Tiers
<1> QED BY <1>9, <1>11, <1>12, <1>13, <1>14

-----------------------------------------------------------------------------
(* Each kind of step keeps what is known of the queries.                   *)

\* No query is counted or taken, and none becomes unseen.
LEMMA QuietKeeps ==
    ASSUME CountShape, CoarseInv, StatShape',
           UNCHANGED <<fleet, acc, fleetOut, outbox, statRows, statFailed>>,
           \A q \in Queries : Unseen(q)' => Unseen(q)
    PROVE  CountShape' /\ CoarseInv'
<1>1. \A tier : Open(tier)' = Open(tier) /\ Outgoing(tier)' = Outgoing(tier)
  BY DEF Open, Outgoing
<1>2. UnseenInv'
  BY <1>1 DEF CountShape, UnseenInv
<1>3. FleetInv'
  BY DEF CountShape, FleetInv
<1>4. TierInv'
  BY <1>1 DEF CountShape, TierInv
<1>5. CoarseInv'
  BY <1>1 DEF CoarseInv, Went
<1> QED BY <1>2, <1>3, <1>4, <1>5 DEF CountShape

LEMMA QuietKinds ==
    ASSUME CountShape, CoarseInv,
           Rests \/ \E q \in Queries : Answers(q) \/ Sends(q)
    PROVE  CountShape' /\ CoarseInv'
<1>1. UNCHANGED <<fleet, acc, fleetOut, outbox, statRows, statFailed>>
  BY DEF Rests, Answers, Sends
<1>2. StatShape'
  BY DEF Rests, Answers, Sends, CountShape, StatShape
<1>3. \A q \in Queries : Unseen(q)' => Unseen(q)
  BY DEF Rests, Answers, Sends, Unseen
<1> HIDE DEF CountShape
<1> QED BY <1>1, <1>2, <1>3, QuietKeeps

LEMMA CountsKeep ==
    ASSUME HostShape, CountShape, CoarseInv, NEW q \in Queries, Counts(q)
    PROVE  CountShape' /\ CoarseInv'
<1>1. /\ q \in statChan
      /\ \A tier \in Tiers : /\ AccType(acc'[tier]) /\ OneKey(acc'[tier])
                             /\ Open(tier)' = Open(tier) \cup ({q} \cap Consented)
  BY CountsEffect
<1>2. PICK h : fleet' = fleet \cup {<<h, q>>}
  BY CountsEffect
<1>3. /\ statChan' = statChan \ {q}
      /\ UNCHANGED <<answered, statSenders, fleetOut, outbox, statRows, statFailed>>
  BY DEF Counts, Record, envVars, emitVars
<1>4. \A tier : Outgoing(tier)' = Outgoing(tier)
  BY <1>3 DEF Outgoing
<1>5. /\ \A p \in fleet \cup fleetOut : p[2] # q
      /\ \A tier \in Tiers : q \notin Open(tier)
      /\ \A d \in outbox : q \notin d.queries
      /\ \A tier \in AllTiers : statRows[tier][q] = 0
  BY <1>1 DEF CountShape, UnseenInv, Unseen
<1>6. \A tier : q \notin Outgoing(tier)
  BY <1>5 DEF Outgoing
<1>7. StatShape'
  BY <1>1, <1>3 DEF CountShape, StatShape, AccType
<1>8. UnseenInv'
  <2>1. \A p \in Queries : Unseen(p)' => Unseen(p) /\ p # q
    BY <1>1, <1>3 DEF Unseen, CountShape, StatShape
  <2> QED BY <1>1, <1>2, <1>3, <2>1 DEF CountShape, UnseenInv
<1>9. FleetInv'
  <2>1. <<h, q>>[2] = q
    OBVIOUS
  <2>2. statRows["fleet"][q] = 0
    BY <1>5 DEF AllTiers
  <2> QED BY <1>2, <1>3, <1>5, <2>1, <2>2 DEF CountShape, FleetInv
<1>10. TierInv'
  <2>1. \A tier \in Tiers : OneKey(acc'[tier])
    BY <1>1
  <2>2. \A tier \in Tiers : statRows[tier][q] = 0 /\ statRows["day"][q] = 0
    BY <1>5 DEF AllTiers
  <2>3. "hour" \in Tiers
    BY DEF Tiers
  <2> QED BY <1>1, <1>3, <1>4, <1>6, <2>1, <2>2, <2>3 DEF CountShape, TierInv, OneKey
<1>11. CoarseInv'
  <2>1. "hour" \in Tiers /\ "quarter" \in Tiers
    BY DEF Tiers
  <2> QED BY <1>1, <1>3, <1>4, <2>1 DEF CoarseInv, Went
<1> QED BY <1>7, <1>8, <1>9, <1>10, <1>11 DEF CountShape

LEMMA TakesFleetKeeps ==
    CountShape /\ CoarseInv /\ TakesFleet => CountShape' /\ CoarseInv'
<1> SUFFICES ASSUME CountShape, CoarseInv, TakesFleet PROVE CountShape' /\ CoarseInv'
  OBVIOUS
<1> USE DEF TakesFleet
<1>1. \A tier : Open(tier)' = Open(tier) /\ Outgoing(tier)' = Outgoing(tier)
  BY DEF Open, Outgoing
<1>2. StatShape'
  BY DEF CountShape, StatShape
<1>3. UnseenInv'
  BY <1>1 DEF CountShape, UnseenInv, Unseen
<1>4. FleetInv'
  BY DEF CountShape, FleetInv
<1>5. TierInv'
  BY <1>1 DEF CountShape, TierInv
<1>6. CoarseInv'
  BY <1>1 DEF CoarseInv, Went
<1> QED BY <1>2, <1>3, <1>4, <1>5, <1>6 DEF CountShape

LEMMA TakesKeeps ==
    ASSUME CountShape, CoarseInv, NEW qb, NEW hb, Takes(qb, hb)
    PROVE  CountShape' /\ CoarseInv'
<1> DEFINE Out(tier, q) == \E d \in outbox' : d.tier = tier /\ q \in d.queries
<1>1. /\ outbox = {} /\ fleetOut = {}
      /\ \A tier \in Tiers : /\ AccType(acc'[tier]) /\ OneKey(acc'[tier])
                             /\ Open(tier)' \subseteq Open(tier)
      /\ \A d \in outbox' :
            /\ d.tier \in DocTiers
            /\ \A tier \in Tiers : d.tier = tier
                => d.queries \subseteq Open(tier) \ Open(tier)'
            /\ d.tier = "day" => d.queries \subseteq Open("hour") \ Open("hour")'
      /\ \A d, e \in outbox' : d.tier = e.tier /\ d.queries \cap e.queries # {} => d = e
      /\ Open("quarter")' = Open("quarter") \/ Open("hour")' = {}
  BY TakesEffect
<1>2. ~statFailed' =>
        /\ \A tier \in Tiers : \A q \in Open(tier) : q \in Open(tier)' \/ Out(tier, q)
        /\ \A q \in Open("hour") : q \in Open("hour")' \/ Out("day", q)
  BY TakesEffect
<1>3. /\ UNCHANGED <<answered, statSenders, statChan, fleet, fleetOut, statRows>>
      /\ ~statFailed' => ~statFailed
  BY DEF Takes
<1>4. \A tier, q : /\ q \in Outgoing(tier)' <=> Out(tier, q)
                   /\ q \notin Outgoing(tier)
  BY <1>1 DEF Outgoing
<1>5. /\ "hour" \in Tiers /\ "quarter" \in Tiers
      /\ \A tier \in DocTiers : tier \in Tiers \/ tier = "day"
      /\ Tiers \subseteq AllTiers /\ "day" \in AllTiers /\ "day" \notin Tiers
  BY DEF Tiers, DocTiers, AllTiers
<1>6. \A q : /\ \A tier \in Tiers : Out(tier, q) => q \in Open(tier) /\ q \notin Open(tier)'
             /\ Out("day", q) => q \in Open("hour") /\ q \notin Open("hour")'
  BY <1>1
<1>7. \A tier \in Tiers : Open(tier) \subseteq Consented
  BY DEF CountShape, StatShape, Open
<1>8. \A d \in outbox' : d.queries \subseteq Consented
  BY <1>1, <1>5, <1>7
<1>9. StatShape'
  BY <1>1, <1>3, <1>8 DEF CountShape, StatShape, AccType
<1>10. UnseenInv'
  <2>1. \A q \in Queries : Unseen(q)' => Unseen(q)
    BY <1>3 DEF Unseen
  <2>2. \A q \in Queries : Unseen(q) => \A d \in outbox' : q \notin d.queries
    BY <1>1, <1>5 DEF CountShape, UnseenInv
  <2> QED BY <1>1, <1>3, <2>1, <2>2 DEF CountShape, UnseenInv
<1>11. FleetInv'
  BY <1>3 DEF CountShape, FleetInv
<1> HIDE DEF Out
<1>12. TierInv'
  <2>1. \A tier \in Tiers : \A j, k \in DOMAIN acc'[tier].entries :
            acc'[tier].entries[j] \cap acc'[tier].entries[k] # {} => j = k
    BY <1>1 DEF OneKey
  <2>2. \A tier \in Tiers : \A q \in Open(tier)' :
            statRows'[tier][q] = 0 /\ q \notin Outgoing(tier)'
    BY <1>1, <1>3, <1>4, <1>6 DEF CountShape, TierInv
  <2>3. \A q \in Open("hour")' : statRows'["day"][q] = 0 /\ q \notin Outgoing("day")'
    BY <1>1, <1>3, <1>4, <1>5, <1>6 DEF CountShape, TierInv
  <2>4. \A d \in outbox' : \A q \in d.queries : statRows'[d.tier][q] = 0
    <3> SUFFICES ASSUME NEW d \in outbox', NEW q \in d.queries PROVE statRows[d.tier][q] = 0
      BY <1>3
    <3>1. CASE d.tier \in Tiers
      BY <1>1, <3>1 DEF CountShape, TierInv
    <3>2. CASE d.tier = "day"
      BY <1>1, <3>2 DEF CountShape, TierInv
    <3> QED BY <1>1, <1>5, <3>1, <3>2
  <2> QED BY <1>1, <2>1, <2>2, <2>3, <2>4 DEF TierInv
<1>13. CoarseInv'
  <2>1. Open("hour")' \subseteq Open("quarter")'
    BY <1>1, <1>5 DEF CoarseInv
  <2>2. ASSUME ~statFailed', NEW q \in Consented
        PROVE  /\ Went("hour", q)' <=> Went("day", q)'
               /\ Went("quarter", q)' => Went("hour", q)'
               /\ q \in Open("quarter")' => q \in Open("hour")' \/ Went("hour", q)'
    <3>1. \A tier : /\ Went(tier, q) <=> statRows[tier][q] = 1
                    /\ Went(tier, q)' <=> statRows[tier][q] = 1 \/ Out(tier, q)
      BY <1>3, <1>4 DEF Went
    <3>2. /\ Went("hour", q) <=> Went("day", q)
          /\ Went("quarter", q) => Went("hour", q)
          /\ q \in Open("quarter") => q \in Open("hour") \/ Went("hour", q)
      BY <1>3, <2>2 DEF CoarseInv
    <3>3. Out("hour", q) <=> Out("day", q)
      BY <1>2, <1>5, <1>6, <2>2
    <3>4. Went("hour", q) => Went("hour", q)'
      BY <3>1
    <3>5. q \in Open("hour") => q \in Open("hour")' \/ Went("hour", q)'
      BY <1>2, <1>5, <2>2, <3>1
    <3>6. Out("quarter", q) => Went("hour", q)'
      <4>1. Out("quarter", q) => q \in Open("quarter") /\ q \notin Open("quarter")'
        BY <1>5, <1>6
      <4>2. Out("quarter", q) => Open("hour")' = {}
        BY <1>1, <4>1
      <4> QED BY <3>2, <3>4, <3>5, <4>1, <4>2
    <3> QED BY <1>1, <1>5, <3>1, <3>2, <3>3, <3>4, <3>5, <3>6
  <2> QED BY <2>1, <2>2 DEF CoarseInv
<1> QED BY <1>9, <1>10, <1>11, <1>12, <1>13 DEF CountShape

LEMMA FleetGoneKeeps ==
    CountShape /\ CoarseInv /\ FleetGone => CountShape' /\ CoarseInv'
<1> SUFFICES ASSUME CountShape, CoarseInv, FleetGone PROVE CountShape' /\ CoarseInv'
  OBVIOUS
<1>1. /\ statRows' \in [AllTiers -> [Queries -> {0, 1}]]
      /\ \A tier \in AllTiers \ {"fleet"} : statRows'[tier] = statRows[tier]
      /\ \A q \in Queries : (\A p \in fleetOut : p[2] # q)
            => statRows'["fleet"][q] = statRows["fleet"][q]
  BY FleetWritten DEF CountShape, FleetGone
<1>2. /\ fleetOut' = {} /\ outbox' \subseteq outbox
      /\ ~statFailed' => ~statFailed /\ outbox' = outbox
      /\ UNCHANGED <<answered, statSenders, statChan, fleet, acc>>
  BY DEF FleetGone
<1>3. /\ \A tier : Open(tier)' = Open(tier) /\ Outgoing(tier)' \subseteq Outgoing(tier)
      /\ ~statFailed' => \A tier : Outgoing(tier)' = Outgoing(tier)
  BY <1>2 DEF Open, Outgoing
<1>4. /\ Tiers \subseteq AllTiers \ {"fleet"} /\ DocTiers \subseteq AllTiers \ {"fleet"}
      /\ "hour" \in Tiers /\ "quarter" \in Tiers /\ "day" \in DocTiers
  BY DEF Tiers, DocTiers, AllTiers
<1>5. StatShape'
  BY <1>1, <1>2 DEF CountShape, StatShape
<1>6. UnseenInv'
  <2>1. \A q \in Queries : Unseen(q)' => Unseen(q)
    BY <1>2 DEF Unseen
  <2>2. ASSUME NEW q \in Queries, Unseen(q), NEW tier \in AllTiers PROVE statRows'[tier][q] = 0
    BY <1>1, <2>2 DEF CountShape, UnseenInv
  <2> QED BY <1>2, <1>3, <2>1, <2>2 DEF CountShape, UnseenInv
<1>7. FleetInv'
  <2>1. \A p \in fleet, r \in fleetOut : p[2] # r[2]
    BY DEF CountShape, FleetInv
  <2>2. \A p \in fleet : statRows'["fleet"][p[2]] = 0
    BY <1>1, <2>1 DEF CountShape, FleetInv
  <2> QED BY <1>2, <2>2 DEF CountShape, FleetInv
<1>8. TierInv'
  <2>1. \A d \in outbox' : d \in outbox /\ d.tier \in DocTiers
    BY <1>2 DEF CountShape, StatShape
  <2> QED BY <1>1, <1>2, <1>3, <1>4, <2>1 DEF CountShape, TierInv
<1>9. CoarseInv'
  <2>1. ~statFailed' => \A tier \in Tiers \cup {"day"} : \A q : Went(tier, q)' <=> Went(tier, q)
    BY <1>1, <1>3, <1>4 DEF Went
  <2> QED BY <1>2, <1>3, <1>4, <2>1 DEF CoarseInv
<1> QED BY <1>5, <1>6, <1>7, <1>8, <1>9 DEF CountShape

LEMMA DocsGoneKeeps ==
    CountShape /\ CoarseInv /\ DocsGone => CountShape' /\ CoarseInv'
<1> SUFFICES ASSUME CountShape, CoarseInv, DocsGone PROVE CountShape' /\ CoarseInv'
  OBVIOUS
<1>1. PICK docs \in SUBSET outbox :
        /\ InsertStatistics(docs)
        /\ outbox' \subseteq outbox \ docs
        /\ ~statFailed' => ~statFailed /\ outbox' = outbox \ docs
  BY DEF DocsGone
<1> DEFINE Written(tier, q) == \E d \in docs : d.tier = tier /\ q \in d.queries
<1>2. /\ statRows' \in [AllTiers -> [Queries -> {0, 1}]]
      /\ \A tier \in AllTiers, q \in Queries :
            statRows'[tier][q] = IF Written(tier, q) THEN 1 ELSE statRows[tier][q]
  BY <1>1, DocsWritten DEF CountShape
<1>3. /\ fleetOut' \subseteq fleetOut
      /\ UNCHANGED <<answered, statSenders, statChan, fleet, acc>>
  BY DEF DocsGone
<1>4. /\ \A tier : Open(tier)' = Open(tier)
      /\ \A tier : Outgoing(tier)' \subseteq Outgoing(tier)
      /\ \A tier, q : Written(tier, q) => q \in Outgoing(tier)
  BY <1>1, <1>3 DEF Open, Outgoing
<1>5. ~statFailed' => \A tier, q : q \in Outgoing(tier) <=> q \in Outgoing(tier)' \/ Written(tier, q)
  BY <1>1 DEF Outgoing
<1>6. /\ Tiers \subseteq AllTiers /\ DocTiers \subseteq AllTiers
      /\ "hour" \in Tiers /\ "quarter" \in Tiers /\ "day" \in DocTiers
      /\ "fleet" \notin DocTiers /\ "fleet" \in AllTiers
  BY DEF Tiers, DocTiers, AllTiers
<1>7. \A d \in docs : d \in outbox /\ d \notin outbox'
  BY <1>1
<1>8. \A q \in Queries : statRows'["fleet"][q] = statRows["fleet"][q]
  BY <1>2, <1>6, <1>7 DEF CountShape, StatShape
<1>9. StatShape'
  BY <1>1, <1>2, <1>3 DEF CountShape, StatShape
<1>10. UnseenInv'
  <2>1. \A q \in Queries : Unseen(q)' => Unseen(q)
    BY <1>3 DEF Unseen
  <2>2. ASSUME NEW q \in Queries, Unseen(q), NEW tier \in AllTiers PROVE statRows'[tier][q] = 0
    BY <1>2, <1>7, <2>2 DEF CountShape, UnseenInv
  <2> QED BY <1>1, <1>3, <1>4, <2>1, <2>2 DEF CountShape, UnseenInv
<1>11. FleetInv'
  BY <1>3, <1>8 DEF CountShape, FleetInv
<1> HIDE DEF Written
<1>12. TierInv'
  <2>1. \A tier \in Tiers : \A q \in Open(tier) : q \in Queries
    BY StatAssumption DEF CountShape, StatShape, Open
  <2>2. \A tier \in Tiers : \A q \in Open(tier) : statRows'[tier][q] = 0
    BY <1>2, <1>4, <1>6, <2>1 DEF CountShape, TierInv
  <2>3. \A q \in Open("hour") : statRows'["day"][q] = 0
    BY <1>2, <1>4, <1>6, <2>1 DEF CountShape, TierInv
  <2>4. ASSUME NEW d \in outbox', NEW q \in d.queries PROVE statRows'[d.tier][q] = 0
    <3>1. d \in outbox /\ d.tier \in AllTiers /\ q \in Queries /\ statRows[d.tier][q] = 0
      BY <1>1, <1>6, StatAssumption DEF CountShape, StatShape, TierInv
    <3>2. ~Written(d.tier, q)
      BY <1>7, <3>1 DEF Written, CountShape, TierInv
    <3> QED BY <1>2, <3>1, <3>2
  <2> QED BY <1>1, <1>3, <1>4, <2>2, <2>3, <2>4 DEF CountShape, TierInv
<1>13. CoarseInv'
  <2>1. ASSUME ~statFailed', NEW q \in Consented, NEW tier \in DocTiers
        PROVE  Went(tier, q)' <=> Went(tier, q)
    <3>1. q \in Queries /\ tier \in AllTiers
      BY <1>6, StatAssumption
    <3>2. Written(tier, q) => statRows'[tier][q] = 1
      BY <1>2, <3>1
    <3>3. ~Written(tier, q) => statRows'[tier][q] = statRows[tier][q]
      BY <1>2, <3>1
    <3>4. Written(tier, q) => q \in Outgoing(tier)
      BY <1>4
    <3>5. q \in Outgoing(tier) <=> q \in Outgoing(tier)' \/ Written(tier, q)
      BY <1>5, <2>1
    <3> QED BY <3>2, <3>3, <3>4, <3>5 DEF Went
  <2>2. {"quarter", "hour", "day"} \subseteq DocTiers
    BY DEF DocTiers, Tiers
  <2> QED BY <1>1, <1>4, <2>1, <2>2 DEF CoarseInv
<1> QED BY <1>9, <1>10, <1>11, <1>12, <1>13 DEF CountShape

LEMMA CountStep ==
    ASSUME HostShape, CountShape, CoarseInv, [Next]_vars
    PROVE  CountShape' /\ CoarseInv'
<1>1. StatShape
  BY DEF CountShape
<1> QED BY <1>1, StatKinds, QuietKinds, CountsKeep, TakesFleetKeeps,
           TakesKeeps, FleetGoneKeeps, DocsGoneKeeps

-----------------------------------------------------------------------------
(* The logs.                                                               *)

LEMMA LogStepKeeps ==
    ASSUME LogInv, [Next]_vars
    PROVE  LogInv'
<1> USE DEF LogInv
<1>1. CASE UNCHANGED <<logSenders, logChan, logBuffer, logRows, answered>>
  BY <1>1
<1>2. ASSUME NEW q \in Queries, PostResolve(q) PROVE LogInv'
  BY <1>2 DEF PostResolve
<1>3. ASSUME NEW q \in Logged, LogSend(q), answered' = answered PROVE LogInv'
  BY <1>3 DEF LogSend
<1>4. ASSUME NEW q \in Logged, LogReceive(q), answered' = answered PROVE LogInv'
  BY <1>4 DEF LogReceive
<1>5. ASSUME NEW S \in SUBSET logBuffer, LogInsert(S), logBuffer' = {},
             UNCHANGED <<logSenders, logChan, answered>>
      PROVE  LogInv'
  <2>1. ASSUME NEW q \in Logged
        PROVE  /\ logRows'[q] \in {0, 1}
               /\ logRows'[q] = 1 => logRows[q] = 1 \/ q \in logBuffer
    <3>1. logRows'[q] = IF q \in S THEN logRows[q] + 1 ELSE logRows[q]
      BY <1>5 DEF LogInsert
    <3>2. logRows[q] \in {0, 1} /\ (q \in S => logRows[q] # 1)
      BY <1>5
    <3> QED BY <1>5, <3>1, <3>2
  <2>2. logRows' \in [Logged -> {0, 1}]
    BY <1>5, <2>1 DEF LogInsert
  <2> QED BY <1>5, <2>1, <2>2
<1>6. CASE StopListeners \/ CloseQuit \/ WaitDone \/ WaitTimeout \/ Disconnect \/ Exited
  BY <1>1, <1>6 DEF StopListeners, CloseQuit, WaitDone, WaitTimeout, Disconnect, Exited,
       vars, logVars
<1>7. CASE TimePasses
  BY <1>1, <1>7 DEF TimePasses
<1>8. CASE StatStep
  BY <1>1, <1>8 DEF StatStep, InStats, logVars
<1>9. CASE LogStep
  <2>1. CASE (LogTick \/ LogStop) /\ answered' = answered
    BY <1>1, <2>1 DEF LogTick, LogStop
  <2>2. CASE LogEmitted /\ answered' = answered
    BY <1>5, <2>2 DEF LogEmitted
  <2>3. CASE LogFailed /\ answered' = answered
    BY <1>5, <2>3 DEF LogFailed
  <2> QED BY <1>3, <1>4, <1>9, <2>1, <2>2, <2>3 DEF LogStep, InLogs
<1>10. CASE UNCHANGED vars
  BY <1>1, <1>10 DEF vars, logVars
<1> QED BY <1>2, <1>6, <1>7, <1>8, <1>9, <1>10 DEF Next

-----------------------------------------------------------------------------
(* The handlers of the statistics collector.                               *)

LEMMA TwoCalls == \A c, d : <<c>> \o <<d>> = <<c, d>>
<1> TAKE c, d
<1> DEFINE s == <<c>> \o <<d>>
<1>1. <<c>> \in Seq({c, d}) /\ <<d>> \in Seq({c, d}) /\ <<c, d>> \in Seq({c, d})
  OBVIOUS
<1>2. Len(<<c>>) = 1 /\ Len(<<d>>) = 1 /\ <<c>>[1] = c /\ <<d>>[1] = d
  OBVIOUS
<1>3. s \in Seq({c, d}) /\ Len(s) = 2 /\ s[1] = c /\ s[2] = d
  BY <1>1, <1>2, ConcatProperties
<1>4. Len(<<c, d>>) = 2 /\ <<c, d>>[1] = c /\ <<c, d>>[2] = d
  OBVIOUS
<1> HIDE DEF s
<1>5. s = <<c, d>>
  BY <1>1, <1>3, <1>4, SeqEqual
<1> QED BY <1>5 DEF s

LEMMA TodoShapes ==
    /\ Handlers \cap Stopping = {}
    /\ StopCalls # FromFlush /\ StopCalls # FromFinal /\ StopCalls # FromReturn
    /\ FromFlush # FromFinal /\ FromFlush # FromReturn /\ FromFinal # FromReturn
    /\ << >> \notin Stopping /\ << >> \in Handlers
<1>1. /\ Len(StopCalls) = 4 /\ StopCalls[1] = "drain"
      /\ Len(FromFlush) = 3 /\ FromFlush[2] = "final"
      /\ Len(FromFinal) = 2 /\ FromFinal[1] = "final"
      /\ Len(FromReturn) = 1 /\ FromReturn[1] = "return"
  BY DEF StopCalls, FromFlush, FromFinal, FromReturn
<1>2. Len(<< >>) = 0
  OBVIOUS
<1>3. \A c \in {"flushAll", "flush", "flushClosed"} : Len(<<c>>) = 1 /\ <<c>>[1] = c
  OBVIOUS
<1>4. \A c, d : Len(<<c, d>>) = 2 /\ <<c, d>>[1] = c
  OBVIOUS
<1> HIDE DEF StopCalls, FromFlush, FromFinal, FromReturn
<1>5. ASSUME NEW s \in Handlers
      PROVE  s # StopCalls /\ s # FromFlush /\ s # FromFinal /\ s # FromReturn
  <2>1. CASE s = << >>
    BY <1>1, <1>2, <2>1
  <2>2. ASSUME NEW c \in {"flushAll", "flush", "flushClosed"}, s = <<c>>
        PROVE  s # StopCalls /\ s # FromFlush /\ s # FromFinal /\ s # FromReturn
    <3>1. Len(s) = 1 /\ s[1] = c
      BY <1>3, <2>2
    <3> QED BY <1>1, <3>1
  <2>3. ASSUME NEW c \in {"flushAll", "flush"}, NEW d, s = <<c, d>>
        PROVE  s # StopCalls /\ s # FromFlush /\ s # FromFinal /\ s # FromReturn
    <3>1. Len(s) = 2 /\ s[1] = c
      BY <1>4, <2>3
    <3> QED BY <1>1, <3>1
  <2> QED BY <2>1, <2>2, <2>3 DEF Handlers
<1>6. << >> \in Handlers /\ Handlers \cap Stopping = {}
  BY <1>5 DEF Handlers, Stopping
<1>7. /\ StopCalls # FromFlush /\ StopCalls # FromFinal /\ StopCalls # FromReturn
      /\ FromFlush # FromFinal /\ FromFlush # FromReturn /\ FromFinal # FromReturn
  BY <1>1
<1> QED BY <1>6, <1>7

\* The call that comes next tells which handler is running.
LEMMA TodoNext ==
    ASSUME todo \in Handlers \cup Stopping, todo # << >>
    PROVE  /\ Head(todo) = "drain" => todo = StopCalls /\ Tail(todo) = FromFlush
           /\ Head(todo) = "flush" => \/ todo = FromFlush /\ Tail(todo) = FromFinal
                                      \/ todo \in Handlers /\ Tail(todo) \in Handlers
           /\ Head(todo) \in {"flushAll", "flushClosed"} =>
                todo \in Handlers /\ Tail(todo) \in Handlers
           /\ Head(todo) = "final" => todo = FromFinal /\ Tail(todo) = FromReturn
           /\ Head(todo) = "return" => todo = FromReturn
<1>1. CASE todo = StopCalls
  <2>1. Head(todo) = "drain" /\ Tail(todo) = FromFlush
    BY <1>1 DEF StopCalls, FromFlush
  <2> QED BY <1>1, <2>1
<1>2. CASE todo = FromFlush
  <2>1. Head(todo) = "flush" /\ Tail(todo) = FromFinal
    BY <1>2 DEF FromFlush, FromFinal
  <2> QED BY <1>2, <2>1
<1>3. CASE todo = FromFinal
  <2>1. Head(todo) = "final" /\ Tail(todo) = FromReturn
    BY <1>3 DEF FromFinal, FromReturn
  <2> QED BY <1>3, <2>1
<1>4. CASE todo = FromReturn
  <2>1. Head(todo) = "return"
    BY <1>4 DEF FromReturn
  <2> QED BY <1>4, <2>1
<1>5. CASE todo \in Handlers
  <2>1. CASE todo \in {<<"flushAll">>, <<"flush">>, <<"flushClosed">>}
    <3> PICK c \in {"flushAll", "flush", "flushClosed"} : todo = <<c>>
      BY <2>1
    <3>1. Head(todo) = c /\ Tail(todo) = << >>
      OBVIOUS
    <3> QED BY <1>5, <3>1, TodoShapes
  <2>2. CASE todo = <<"flushAll", "flush">>
    <3>1. Head(todo) = "flushAll" /\ Tail(todo) = <<"flush">>
      BY <2>2
    <3> QED BY <1>5, <3>1 DEF Handlers
  <2>3. CASE todo = <<"flush", "flushClosed">>
    <3>1. Head(todo) = "flush" /\ Tail(todo) = <<"flushClosed">>
      BY <2>3
    <3> QED BY <1>5, <3>1 DEF Handlers
  <2> QED BY <1>5, <2>1, <2>2, <2>3 DEF Handlers
<1> QED BY <1>1, <1>2, <1>3, <1>4, <1>5 DEF Stopping

LEMMA OpenAfterTake ==
    ASSUME StatShape, NEW qd, NEW hd, TakeConsented(Buckets, Buckets, qd, hd)
    PROVE  \A tier \in Tiers : Open(tier)' = {}
<1>1. /\ acc'["quarter"] = AccTake(acc["quarter"], Buckets, qd)
      /\ acc'["hour"] = AccTake(acc["hour"], Buckets, hd)
  BY DEF TakeConsented
<1>2. ASSUME NEW a, NEW D, DOMAIN a.entries \subseteq Keys
      PROVE  OpenIn(AccTake(a, Buckets, D)) = {}
  <2>1. {j \in DOMAIN a.entries : j.bucket \notin Buckets} = {}
    BY <1>2 DEF Keys
  <2>2. DOMAIN AccTake(a, Buckets, D).entries = {}
    BY <2>1 DEF AccTake
  <2> QED BY <2>2 DEF OpenIn
<1>3. \A tier \in Tiers : OpenIn(acc'[tier]) = {}
  BY <1>1, <1>2 DEF StatShape, Tiers
<1> QED BY <1>3 DEF Open, OpenIn

\* A case of the select statement starts a handler, and no stop.
LEMMA HandlersStart ==
    ASSUME StatTick \/ \E q \in Queries : StatReceive(q)
    PROVE  todo' \in Handlers /\ todo' \notin Stopping
<1>1. todo' \in Handlers
  <2>1. CASE StatTick
    <3>1. /\ << >> \o <<"flushClosed">> = <<"flushClosed">>
          /\ <<"flush">> \o <<"flushClosed">> = <<"flush", "flushClosed">>
      BY TwoCalls
    <3> QED BY <2>1, <3>1 DEF StatTick, Handle, Handlers
  <2>2. ASSUME NEW q \in Queries, StatReceive(q) PROVE todo' \in Handlers
    <3> DEFINE first == IF q \in Consented /\ OpenEntries' >= MaxOpenEntries
                        THEN <<"flushAll">> ELSE << >>
               second == IF Cardinality(fleet') >= StatBatch THEN <<"flush">> ELSE << >>
    <3>1. todo' = first \o second
      BY <2>2 DEF StatReceive
    <3>2. first \in {<< >>, <<"flushAll">>} /\ second \in {<< >>, <<"flush">>}
      OBVIOUS
    <3>3. /\ << >> \o << >> = << >> /\ <<"flushAll">> \o << >> = <<"flushAll">>
          /\ << >> \o <<"flush">> = <<"flush">>
          /\ <<"flushAll">> \o <<"flush">> = <<"flushAll", "flush">>
      BY TwoCalls
    <3> HIDE DEF first, second
    <3> QED BY <3>1, <3>2, <3>3 DEF Handlers
  <2> QED BY <2>1, <2>2
<1> QED BY <1>1, TodoShapes

LEMMA StopStep ==
    ASSUME HostShape, StatShape, StopInv, [Next]_vars
    PROVE  StopInv'
<1> DEFINE stopState == <<mainPc, timedOut, queuedAtQuit, answered, statSenders, statChan,
                          fleet, acc, todo, fleetOut, outbox, statReturned>>
<1>1. CASE UNCHANGED stopState
  BY <1>1 DEF StopInv, Quit, Open, StatBusy
<1>2. CASE UNCHANGED vars \/ LogStep \/ Exited
  BY <1>1, <1>2 DEF vars, hostVars, statVars, envVars, countVars, emitVars, stopVars, LogStep,
       InLogs, Exited
<1>3. CASE TimePasses
  BY <1>1, <1>3 DEF TimePasses, envVars, countVars, stopVars
<1>4. ASSUME NEW q \in Queries, PostResolve(q) PROVE StopInv'
  BY <1>4 DEF PostResolve, StopInv, Quit, Open, StatBusy, hostVars, countVars, emitVars, stopVars
<1>5. CASE StopListeners
  BY <1>5 DEF StopListeners, StopInv, Quit, Open, StatBusy, statVars, envVars, countVars,
       emitVars, stopVars
<1>6. CASE CloseQuit
  <2>1. ~Quit /\ todo \notin Stopping /\ ~statReturned
    BY <1>6 DEF CloseQuit, StopInv, Quit
  <2>2. todo \in Handlers
    BY <2>1 DEF StopInv
  <2>3. todo \notin {FromFlush, FromFinal, FromReturn}
    BY <2>1 DEF Stopping
  <2> QED BY <1>6, <2>1, <2>2, <2>3 DEF CloseQuit, StatShape, StopInv, Quit, statVars, envVars,
            countVars, emitVars, stopVars
<1>7. CASE WaitDone \/ WaitTimeout \/ Disconnect
  BY <1>7 DEF WaitDone, WaitTimeout, Disconnect, StopInv, Quit, Open, StatBusy, statVars,
       envVars, countVars, emitVars, stopVars
<1>8. CASE StatStep
  <2> DEFINE hostState == <<mainPc, timedOut, queuedAtQuit, answered>>
  <2>1. UNCHANGED hostState
    BY <1>8 DEF StatStep, InStats, hostVars
  <2>2. Quit' = Quit
    BY <2>1 DEF Quit
  <2>3. ASSUME NEW q \in Queries, StatSend(q) PROVE StopInv'
    BY <2>1, <2>2, <2>3 DEF StatSend, StopInv, Open, StatBusy, countVars, emitVars, stopVars
  <2>4. ASSUME NEW q \in Queries, StatReceive(q) PROVE StopInv'
    <3>1. todo = << >> /\ ~statReturned /\ todo \notin Stopping
      BY <2>4, TodoShapes DEF StatReceive, StatIdle
    <3>2. todo' \in Handlers /\ todo' \notin Stopping
      BY <2>4, HandlersStart
    <3> QED BY <2>1, <2>2, <2>4, <3>1, <3>2 DEF StatReceive, Record, StopInv, Stopping,
              envVars, stopVars
  <2>5. CASE NextQuarter
    BY <1>1, <2>1, <2>5 DEF NextQuarter, countVars, emitVars, stopVars
  <2>6. CASE StatTick
    <3>1. todo = << >> /\ ~statReturned
      BY <2>6 DEF StatTick, Handle, StatIdle
    <3>2. todo' \in Handlers /\ todo' \notin Stopping
      BY <2>6, HandlersStart
    <3> QED BY <2>1, <2>2, <2>6, <3>1, <3>2 DEF StatTick, Handle, StopInv, Stopping,
              envVars, countVars, emitVars
  <2>7. CASE StatStop
    <3>1. Quit /\ ~statReturned /\ todo' = StopCalls
      BY <2>7 DEF StatStop, Handle, StatIdle, StopCalls
    <3> QED BY <2>1, <2>2, <2>7, <3>1, TodoShapes DEF StatStop, Handle, StopInv, Stopping,
              envVars, countVars, emitVars
  <2>8. CASE Drain
    <3>1. todo = StopCalls /\ Tail(todo) = FromFlush /\ ~statReturned
      BY <2>8, TodoNext DEF Drain, Calling, StopInv
    <3>2. ASSUME NEW q \in statChan, Record(q), todo' = todo PROVE StopInv'
      BY <2>1, <2>2, <3>1, <3>2, TodoShapes DEF Record, StopInv, Stopping, envVars, stopVars
    <3>3. CASE /\ statChan = {} /\ todo' = Tail(todo)
               /\ UNCHANGED <<envVars, statChan, countVars, emitVars, stopVars>>
      BY <2>1, <2>2, <3>1, <3>3, TodoShapes DEF StopInv, Stopping, envVars, countVars,
         emitVars, stopVars
    <3> QED BY <2>8, <3>2, <3>3 DEF Drain
  <2>9. CASE Flush
    <3>1. ~statReturned /\ fleet' = {} /\ todo' = Tail(todo)
          /\ UNCHANGED <<statSenders, statChan, acc, statReturned>>
      BY <2>9 DEF Flush, Calling, StopInv, envVars, stopVars
    <3>2. CASE todo = FromFlush /\ Tail(todo) = FromFinal
      BY <2>1, <2>2, <3>1, <3>2, TodoShapes DEF StopInv, Stopping
    <3>3. CASE Tail(todo) \in Handlers
      BY <2>1, <2>2, <3>1, <3>3, TodoShapes DEF StopInv, Stopping
    <3> QED BY <2>9, <3>2, <3>3, TodoNext DEF Flush, Calling, StopInv
  <2>10. ASSUME NEW qb, NEW hb, NEW qd, NEW hd, TakeConsented(qb, hb, qd, hd),
                todo # << >>, Tail(todo) \in Handlers
         PROVE  StopInv'
    BY <2>1, <2>2, <2>10, TodoShapes DEF TakeConsented, StopInv, Stopping, envVars
  <2>11. CASE FlushClosed
    <3>1. todo # << >> /\ Tail(todo) \in Handlers
      BY <2>11, TodoNext DEF FlushClosed, Calling, StopInv
    <3> HIDE DEF stopState
    <3> QED BY <2>10, <2>11, <3>1 DEF FlushClosed
  <2>12. CASE FlushAll
    <3>1. CASE Calling("flushAll")
      <4>1. todo # << >> /\ Tail(todo) \in Handlers
        BY <3>1, TodoNext DEF Calling, StopInv
      <4> QED BY <2>10, <2>12, <4>1 DEF FlushAll
    <3>2. CASE Calling("final")
      <4>1. todo = FromFinal /\ Tail(todo) = FromReturn /\ ~statReturned
        BY <3>2, TodoNext DEF Calling, StopInv
      <4>2. \A tier \in Tiers : Open(tier)' = {}
        BY <2>12, OpenAfterTake DEF FlushAll
      <4>3. /\ todo' = FromReturn
            /\ UNCHANGED <<statSenders, statChan, fleet, statReturned>>
        BY <2>12, <4>1 DEF FlushAll, TakeConsented, envVars
      <4> QED BY <2>1, <2>2, <4>1, <4>2, <4>3, TodoShapes DEF StopInv, Stopping
    <3> QED BY <2>12, <3>1, <3>2 DEF FlushAll
  <2>13. CASE Return
    <3>1. todo = FromReturn /\ ~StatBusy
      BY <2>13, TodoNext DEF Return, Calling, StopInv
    <3> QED BY <2>1, <2>2, <2>13, <3>1, TodoShapes DEF Return, StopInv, Stopping, Open, StatBusy,
              envVars, countVars, emitVars
  <2>14. ASSUME ~statReturned, todo' \in {todo, << >>},
                UNCHANGED <<statSenders, statChan, fleet, acc, statReturned>>
         PROVE  StopInv'
    BY <2>1, <2>2, <2>14, TodoShapes DEF StopInv, Stopping, Open
  <2>15. CASE FleetEmitted \/ FleetFailed \/ ChunkEmitted \/ ChunkFailed \/ StatPanic
    <3>1. StatBusy
      BY <2>15 DEF FleetEmitted, FleetFailed, ChunkEmitted, ChunkFailed, StatPanic, StatBusy
    <3>2. ~statReturned
      BY <3>1 DEF StopInv
    <3>3. todo' \in {todo, << >>} /\ UNCHANGED <<statSenders, statChan, fleet, acc, statReturned>>
      BY <2>15 DEF FleetEmitted, FleetFailed, ChunkEmitted, ChunkFailed, StatPanic, envVars,
         countVars, stopVars
    <3> QED BY <2>14, <3>2, <3>3
  <2> QED BY <1>8, <2>3, <2>4, <2>5, <2>6, <2>7, <2>8, <2>9, <2>11, <2>12, <2>13, <2>15
          DEF StatStep, InStats
<1> QED BY <1>2, <1>3, <1>4, <1>5, <1>6, <1>7, <1>8 DEF Next

-----------------------------------------------------------------------------
(* The time a stop takes.                                                  *)

LEMMA Times ==
    /\ EmitTimeout \in Nat /\ EmitTimeout > 0
    /\ CollectorFlushTimeout = 2 * EmitTimeout + 1
    /\ NoDeadline = 3 * EmitTimeout + 2
BY HostAssumption DEF CollectorFlushTimeout, NoDeadline

\* A chunk's time ends with its deadline.
LEMMA HandOutTime ==
    ASSUME HostShape, NEW batch, NEW deadline \in 0 .. NoDeadline, HandOut(batch, deadline)
    PROVE  /\ statTimer' \in 0 .. EmitTimeout
           /\ deadline # NoDeadline => elapsed + statTimer' <= deadline \/ statTimer' = 0
<1>1. statTimer' = 0 \/ statTimer' = ChunkTime(deadline)
  BY DEF HandOut
<1>2. EmitTimeout \in Nat /\ elapsed \in Nat
  BY Times DEF HostShape, CollectorFlushTimeout
<1>3. /\ ChunkTime(deadline) \in 0 .. EmitTimeout
      /\ deadline # NoDeadline /\ elapsed < deadline
           => elapsed + ChunkTime(deadline) <= deadline
      /\ deadline <= elapsed => ChunkTime(deadline) = 0
  BY ChunkTimeBound
<1>4. deadline \in Nat
  BY Times
<1> HIDE DEF HostShape
<1>5. elapsed < deadline \/ deadline <= elapsed
  BY <1>2, <1>4
<1> QED BY <1>1, <1>2, <1>3, <1>4, <1>5

LEMMA TimeStep ==
    ASSUME HostShape, StopInv, BudgetInv, [Next]_vars
    PROVE  HostShape' /\ BudgetInv'
<1> USE Times
<1> DEFINE timeState == <<mainPc, elapsed, quarterNow, statTimer, todo, fleetOut, outbox,
                          flushDeadline, statReturned, stopBegan>>
<1>1. CASE UNCHANGED timeState
  BY <1>1 DEF HostShape, BudgetInv, StatBusy
<1>2. CASE UNCHANGED vars \/ LogStep \/ Exited \/ \E q \in Queries : PostResolve(q)
  BY <1>1, <1>2 DEF vars, hostVars, statVars, envVars, countVars, emitVars, stopVars, LogStep,
       InLogs, Exited, PostResolve
<1>3. CASE StopListeners \/ CloseQuit \/ WaitDone \/ WaitTimeout \/ Disconnect
  <2>1. mainPc' \in MainSteps /\ UNCHANGED <<elapsed, statVars>>
    BY <1>3 DEF StopListeners, CloseQuit, WaitDone, WaitTimeout, Disconnect, MainSteps
  <2> QED BY <2>1 DEF HostShape, BudgetInv, StatBusy, statVars, envVars, countVars, emitVars,
              stopVars
<1>4. CASE TimePasses
  <2>1. /\ elapsed < CollectorFlushTimeout /\ elapsed' = elapsed + 1
        /\ StatBusy => statTimer > 0 /\ statTimer' = statTimer - 1
        /\ ~StatBusy => statReturned /\ statTimer' = statTimer
        /\ UNCHANGED <<mainPc, quarterNow, todo, fleetOut, outbox, flushDeadline,
                       statReturned, stopBegan>>
    BY <1>4 DEF TimePasses, envVars, stopVars
  <2>2. HostShape'
    BY <2>1 DEF HostShape
  <2>3. CASE ~StatBusy
    <3>1. todo \notin Stopping
      BY <2>1, <2>3, TodoShapes DEF StopInv
    <3> QED BY <2>1, <2>2, <3>1 DEF BudgetInv, Stopping
  <2>4. CASE StatBusy
    BY <2>1, <2>2, <2>4, TodoShapes DEF BudgetInv, HostShape, Stopping
  <2> QED BY <2>3, <2>4
<1>5. CASE StatStep
  <2>1. UNCHANGED <<mainPc, elapsed>>
    BY <1>5 DEF StatStep, InStats, hostVars
  <2>2. ASSUME NEW q \in Queries, StatSend(q) PROVE HostShape' /\ BudgetInv'
    BY <1>1, <2>1, <2>2 DEF StatSend, countVars, emitVars, stopVars
  <2>3. ASSUME todo = << >>, ~statReturned, todo' \notin Stopping,
               UNCHANGED <<quarterNow, statTimer, flushDeadline, stopBegan>>
        PROVE  HostShape' /\ BudgetInv'
    BY <2>1, <2>3, TodoShapes DEF HostShape, BudgetInv, Stopping
  <2>4. CASE StatTick \/ \E q \in Queries : StatReceive(q)
    <3>1. todo = << >> /\ ~statReturned
      BY <2>4 DEF StatTick, Handle, StatReceive, StatIdle
    <3>2. UNCHANGED <<quarterNow, statTimer, flushDeadline, stopBegan>>
      BY <2>4 DEF StatTick, Handle, StatReceive, Record, envVars, emitVars, stopVars
    <3>3. todo' \notin Stopping
      BY <2>4, HandlersStart
    <3> QED BY <2>3, <3>1, <3>2, <3>3
  <2>5. CASE NextQuarter
    <3>1. quarterNow' \in 0 .. MaxQuarter
      BY <2>5, StatAssumption DEF NextQuarter, HostShape
    <3> QED BY <2>1, <2>5, <3>1 DEF NextQuarter, HostShape, BudgetInv, StatBusy, countVars, emitVars,
              stopVars
  <2>6. CASE StatStop
    <3>1. todo' = StopCalls /\ stopBegan' = elapsed /\ ~StatBusy
          /\ UNCHANGED <<quarterNow, statTimer, fleetOut, outbox, flushDeadline>>
      BY <2>6 DEF StatStop, Handle, StatIdle, StopCalls, envVars, emitVars
    <3> QED BY <2>1, <3>1, TodoShapes DEF HostShape, BudgetInv, StatBusy, Stopping
  <2>7. CASE Drain
    <3>1. todo = StopCalls /\ Tail(todo) = FromFlush
      BY <2>7, TodoNext DEF Drain, Calling, StopInv
    <3>2. /\ todo' \in {StopCalls, FromFlush}
          /\ UNCHANGED <<quarterNow, statTimer, fleetOut, outbox, flushDeadline, stopBegan>>
      BY <2>7, <3>1 DEF Drain, Record, envVars, emitVars, stopVars
    <3> QED BY <2>1, <3>1, <3>2, TodoShapes DEF HostShape, BudgetInv, StatBusy, Stopping
  <2>8. CASE Flush
    <3>1. /\ statTimer' \in {0, EmitTimeout} /\ todo' = Tail(todo)
          /\ UNCHANGED <<quarterNow, flushDeadline, statReturned, stopBegan>>
      BY <2>8 DEF Flush, envVars, stopVars
    <3>2. HostShape'
      BY <2>1, <3>1 DEF HostShape
    <3>3. CASE todo = FromFlush /\ Tail(todo) = FromFinal
      <4>1. outbox' = {}
        BY <2>8 DEF Flush, Calling, StatBusy
      <4>2. /\ elapsed = stopBegan /\ stopBegan \in 0 .. NoDeadline /\ stopBegan # NoDeadline
            /\ flushDeadline \in 0 .. NoDeadline
        BY <3>3 DEF BudgetInv, Stopping
      <4>3. elapsed' + statTimer' <= stopBegan' + EmitTimeout
        <5>1. stopBegan \in Nat
          BY <4>2
        <5>2. PICK t \in 0 .. EmitTimeout : statTimer' = t
          BY <3>1
        <5>3. stopBegan + t <= stopBegan + EmitTimeout
          BY <5>1
        <5> QED BY <2>1, <3>1, <4>2, <5>2, <5>3
      <4>4. todo' = FromFinal
        BY <3>1, <3>3
      <4> QED BY <3>1, <3>2, <4>1, <4>2, <4>3, <4>4, TodoShapes DEF BudgetInv, Stopping
    <3>4. CASE todo \in Handlers /\ Tail(todo) \in Handlers
      BY <2>1, <3>1, <3>2, <3>4, TodoShapes DEF BudgetInv, Stopping
    <3> QED BY <2>8, <3>3, <3>4, TodoNext DEF Flush, Calling, StopInv
  <2>9. ASSUME NEW qb, NEW hb, NEW qd, NEW hd, TakeConsented(qb, hb, qd, hd),
               flushDeadline' = flushDeadline, todo \in Handlers, Tail(todo) \in Handlers
        PROVE  HostShape' /\ BudgetInv'
    <3>1. /\ UNCHANGED <<quarterNow, statReturned, stopBegan>>
          /\ \E batch : HandOut(batch, flushDeadline)
          /\ todo' = Tail(todo)
      BY <2>9 DEF TakeConsented, envVars
    <3>2. statTimer' \in 0 .. EmitTimeout
      BY <3>1, HandOutTime DEF BudgetInv
    <3> QED BY <2>1, <2>9, <3>1, <3>2, TodoShapes DEF HostShape, BudgetInv, Stopping
  <2>10. CASE FlushClosed \/ (FlushAll /\ Calling("flushAll"))
    <3>1. Calling("flushClosed") \/ Calling("flushAll")
      BY <2>10 DEF FlushClosed
    <3>2. todo \in Handlers /\ Tail(todo) \in Handlers
      BY <3>1, TodoNext DEF Calling, StopInv
    <3>3. ~Calling("final")
      BY <3>1 DEF Calling
    <3> HIDE DEF timeState
    <3> QED BY <2>9, <2>10, <3>2, <3>3 DEF FlushClosed, FlushAll
  <2>11. CASE FlushAll /\ Calling("final")
    <3>1. todo = FromFinal /\ Tail(todo) = FromReturn
      BY <2>11, TodoNext DEF Calling, StopInv
    <3>2. flushDeadline' = elapsed + EmitTimeout
      BY <2>11 DEF FlushAll, Calling
    <3>3. /\ UNCHANGED <<quarterNow, statReturned, stopBegan>>
          /\ \E batch : HandOut(batch, flushDeadline')
          /\ todo' = FromReturn
      BY <2>11, <3>1 DEF FlushAll, TakeConsented, envVars
    <3>4. flushDeadline' \in 0 .. NoDeadline /\ flushDeadline' # NoDeadline
      BY <3>2 DEF HostShape
    <3>5. /\ statTimer' \in 0 .. EmitTimeout
          /\ elapsed + statTimer' <= flushDeadline' \/ statTimer' = 0
      BY <3>3, <3>4, HandOutTime
    <3>6. HostShape'
      BY <2>1, <3>3, <3>5 DEF HostShape
    <3>7. /\ stopBegan \in 0 .. NoDeadline /\ stopBegan # NoDeadline
          /\ elapsed + statTimer <= stopBegan + EmitTimeout
      BY <3>1 DEF BudgetInv, Stopping
    <3>8. elapsed \in Nat /\ statTimer \in Nat /\ statTimer' \in Nat /\ stopBegan \in Nat
      BY <3>5, <3>7 DEF HostShape
    <3>9. /\ elapsed' + statTimer' <= stopBegan' + 2 * EmitTimeout
          /\ flushDeadline' <= stopBegan' + 2 * EmitTimeout
      <4>1. elapsed' = elapsed /\ stopBegan' = stopBegan
        BY <2>1, <3>3
      <4>2. PICK t \in 0 .. EmitTimeout : statTimer' = t
        BY <3>5
      <4>3. elapsed <= stopBegan + EmitTimeout
        BY <3>7, <3>8
      <4>4. /\ elapsed + t <= stopBegan + 2 * EmitTimeout
            /\ elapsed + EmitTimeout <= stopBegan + 2 * EmitTimeout
        BY <3>8, <4>3
      <4> QED BY <3>2, <4>1, <4>2, <4>4
    <3> QED BY <3>3, <3>4, <3>6, <3>7, <3>9, TodoShapes DEF BudgetInv, Stopping
  <2>12. CASE Return
    <3>1. UNCHANGED <<quarterNow, statTimer, flushDeadline, stopBegan>>
          /\ todo' = << >> /\ statReturned'
      BY <2>12 DEF Return, envVars, emitVars
    <3> QED BY <2>1, <3>1, TodoShapes DEF HostShape, BudgetInv, Stopping
  <2>13. ASSUME StatBusy, statTimer' \in 0 .. EmitTimeout,
                \/ statTimer' = 0
                \/ /\ elapsed + statTimer' <= flushDeadline /\ flushDeadline # NoDeadline
                   /\ todo # FromFinal
                \/ todo \notin {FromFinal, FromReturn},
                outbox' \subseteq outbox,
                UNCHANGED <<quarterNow, todo, flushDeadline, statReturned, stopBegan>>
         PROVE  HostShape' /\ BudgetInv'
    <3>1. HostShape'
      BY <2>1, <2>13 DEF HostShape
    <3>2. todo \notin {StopCalls, FromFlush}
      BY <2>13 DEF BudgetInv
    <3>3. /\ elapsed \in Nat /\ statTimer \in Nat /\ statTimer' \in Nat /\ stopBegan \in Nat
          /\ flushDeadline \in Nat
      BY <2>13 DEF HostShape, BudgetInv
    <3>4. CASE todo = FromFinal
      <4>1. statTimer' = 0 /\ outbox' = {} /\ elapsed + statTimer <= stopBegan + EmitTimeout
        BY <2>13, <3>4 DEF BudgetInv
      <4>2. elapsed' + statTimer' <= stopBegan' + EmitTimeout
        BY <2>1, <2>13, <3>3, <4>1
      <4> QED BY <2>13, <3>1, <3>2, <3>4, <4>1, <4>2, TodoShapes DEF BudgetInv
    <3>5. CASE todo = FromReturn
      <4>1. /\ flushDeadline <= stopBegan + 2 * EmitTimeout
            /\ elapsed + statTimer <= stopBegan + 2 * EmitTimeout
            /\ statTimer' = 0 \/ elapsed + statTimer' <= flushDeadline
        BY <2>13, <3>5 DEF BudgetInv
      <4>2. elapsed' + statTimer' <= stopBegan' + 2 * EmitTimeout
        <5>1. elapsed' = elapsed /\ stopBegan' = stopBegan
          BY <2>1, <2>13
        <5>2. PICK t \in 0 .. EmitTimeout : statTimer' = t
          BY <2>13
        <5>3. elapsed + t <= stopBegan + 2 * EmitTimeout
          BY <3>3, <4>1, <5>2
        <5> QED BY <5>1, <5>2, <5>3
      <4> QED BY <2>13, <3>1, <3>2, <3>5, <4>2, TodoShapes DEF BudgetInv
    <3>6. CASE todo \notin Stopping
      BY <2>13, <3>1, <3>6 DEF BudgetInv, Stopping
    <3> QED BY <3>2, <3>4, <3>5, <3>6 DEF Stopping
  <2>14. CASE FleetEmitted \/ FleetFailed
    <3>1. /\ StatBusy /\ statTimer' = 0 /\ outbox' = outbox
          /\ UNCHANGED <<quarterNow, todo, flushDeadline, statReturned, stopBegan>>
      BY <2>14 DEF FleetEmitted, FleetFailed, StatBusy, envVars, stopVars
    <3> QED BY <2>13, <3>1
  <2>15. CASE ChunkEmitted \/ ChunkFailed
    <3>1. /\ outbox # {}
          /\ UNCHANGED <<quarterNow, todo, flushDeadline, statReturned, stopBegan>>
          /\ \E batch \in SUBSET outbox : HandOut(batch, flushDeadline)
      BY <2>15 DEF ChunkEmitted, ChunkFailed, envVars, stopVars
    <3>2. outbox' \subseteq outbox
      BY <3>1 DEF HandOut
    <3>3. /\ statTimer' \in 0 .. EmitTimeout
          /\ flushDeadline # NoDeadline
                => elapsed + statTimer' <= flushDeadline \/ statTimer' = 0
      BY <3>1, HandOutTime DEF BudgetInv
    <3>4. todo # FromFinal /\ (todo = FromReturn => flushDeadline # NoDeadline)
      BY <3>1 DEF BudgetInv
    <3>5. StatBusy
      BY <3>1 DEF StatBusy
    <3> QED BY <2>13, <3>1, <3>2, <3>3, <3>4, <3>5
  <2>16. CASE StatPanic
    <3>1. /\ todo' = << >> /\ statTimer' = 0 /\ stopBegan' = NoDeadline
          /\ UNCHANGED <<quarterNow, flushDeadline>>
      BY <2>16 DEF StatPanic, envVars
    <3> QED BY <2>1, <3>1, TodoShapes DEF HostShape, BudgetInv, Stopping
  <2> QED BY <1>5, <2>2, <2>4, <2>5, <2>6, <2>7, <2>8, <2>10, <2>11, <2>12, <2>14, <2>15, <2>16
          DEF StatStep, InStats, FlushAll
<1> QED BY <1>2, <1>3, <1>4, <1>5 DEF Next

-----------------------------------------------------------------------------
(* The inductive invariant and what it says.                               *)

CollectorsInv ==
    LogInv /\ HostShape /\ CountShape /\ CoarseInv /\ StopInv /\ BudgetInv

LEMMA CollectorsInit == Init => CollectorsInv
<1> SUFFICES ASSUME Init PROVE CollectorsInv
  OBVIOUS
<1> USE DEF Init, LogInit, StatInit
<1>1. \A tier \in Tiers : acc[tier].entries = << >> /\ DOMAIN acc[tier].entries = {}
  BY DEF EmptyAcc
<1>2. (\A tier \in Tiers : Open(tier) = {}) /\ \A tier : Outgoing(tier) = {}
  BY <1>1 DEF Open, Outgoing
<1>3. \A tier \in AllTiers, q \in Queries : statRows[tier][q] = 0
  OBVIOUS
<1>4. "hour" \in Tiers /\ "quarter" \in Tiers /\ Tiers \subseteq AllTiers /\ "day" \in AllTiers
  BY DEF Tiers, AllTiers
<1>5. LogInv
  BY DEF LogInv
<1>6. HostShape
  BY Times, StatAssumption DEF HostShape, MainSteps
<1>7. StatShape
  BY <1>1 DEF StatShape
<1>8. UnseenInv /\ FleetInv
  BY <1>2, <1>3 DEF UnseenInv, FleetInv
<1>9. TierInv
  BY <1>1, <1>2, <1>4 DEF TierInv
<1>10. CoarseInv
  <2>1. \A q \in Consented : \A tier \in {"quarter", "hour", "day"} : ~Went(tier, q)
    BY <1>2, <1>3, <1>4, StatAssumption DEF Went
  <2> QED BY <1>2, <1>4, <2>1 DEF CoarseInv
<1>11. StopInv
  BY <1>2, TodoShapes DEF StopInv, Quit, StatBusy, Stopping
<1>12. BudgetInv
  BY Times, TodoShapes DEF BudgetInv, Stopping
<1> QED BY <1>5, <1>6, <1>7, <1>8, <1>9, <1>10, <1>11, <1>12 DEF CollectorsInv, CountShape

LEMMA CollectorsStep == CollectorsInv /\ [Next]_vars => CollectorsInv'
<1> SUFFICES ASSUME CollectorsInv, [Next]_vars PROVE CollectorsInv'
  OBVIOUS
<1>1. LogInv /\ HostShape /\ CountShape /\ CoarseInv /\ StopInv /\ BudgetInv /\ StatShape
  BY DEF CollectorsInv, CountShape
<1>2. LogInv'
  BY <1>1, LogStepKeeps
<1>3. HostShape' /\ BudgetInv'
  BY <1>1, TimeStep
<1>4. CountShape' /\ CoarseInv'
  BY <1>1, CountStep
<1>5. StopInv'
  BY <1>1, StopStep
<1> QED BY <1>2, <1>3, <1>4, <1>5 DEF CollectorsInv

\* The strengthening holds in every behaviour of the proxy.
THEOREM CollectorsInvariant == Spec => []CollectorsInv
BY CollectorsInit, CollectorsStep, PTL DEF Spec

\* No query is logged twice: a batch that failed is not emitted again, and
\* one that was emitted has left the buffer (query_logs.go:44-68).
THEOREM LogsOnce == Spec => []LoggedOnce
<1>1. CollectorsInv => LoggedOnce
  <2> SUFFICES ASSUME LogInv, NEW q \in Logged
               PROVE  logRows[q] + OneIf(q \in logBuffer) <= 1
    BY DEF CollectorsInv, LoggedOnce
  <2>1. logRows[q] \in {0, 1} /\ (q \in logBuffer => logRows[q] # 1)
    BY DEF LogInv
  <2> QED BY <2>1 DEF OneIf
<1> QED BY <1>1, CollectorsInvariant, PTL

\* In every tier a query is open, going out or in the database, in one of
\* them and once, whatever fails, panics or is cut short
\* (statistics.go:155-221).
THEOREM QueriesCountedOnce == Spec => []CountedOnce
<1>1. CollectorsInv => CountedOnce
  <2> SUFFICES ASSUME CountShape PROVE CountedOnce
    BY DEF CollectorsInv
  <2>1. /\ \A tier \in AllTiers, q \in Queries : statRows[tier][q] \in {0, 1}
        /\ Tiers \subseteq AllTiers /\ "day" \in AllTiers /\ "fleet" \in AllTiers
        /\ "hour" \in Tiers
    BY DEF CountShape, StatShape, AllTiers, Tiers
  <2>2. ASSUME NEW q \in Queries
        PROVE  statRows["fleet"][q] + Cardinality({p \in fleet : p[2] = q})
                  + Cardinality({p \in fleetOut : p[2] = q}) <= 1
    <3> DEFINE In == {p \in fleet : p[2] = q}
               Out == {p \in fleetOut : p[2] = q}
    <3>1. /\ \A x, y \in In : x = y
          /\ \A x, y \in Out : x = y
          /\ In = {} \/ Out = {}
          /\ In # {} \/ Out # {} => statRows["fleet"][q] = 0
      BY DEF CountShape, FleetInv
    <3>2. statRows["fleet"][q] \in {0, 1}
      BY <2>1
    <3> HIDE DEF In, Out
    <3>3. /\ Cardinality(In) \in {0, 1} /\ (In = {} => Cardinality(In) = 0)
      BY <3>1, AtMostOne
    <3>4. /\ Cardinality(Out) \in {0, 1} /\ (Out = {} => Cardinality(Out) = 0)
      BY <3>1, AtMostOne
    <3>5. statRows["fleet"][q] + Cardinality(In) + Cardinality(Out) <= 1
      BY <3>1, <3>2, <3>3, <3>4
    <3> QED BY <3>5 DEF In, Out
  <2>3. ASSUME NEW q \in Queries, NEW tier \in Tiers
        PROVE  statRows[tier][q] + OneIf(q \in Outgoing(tier)) + OneIf(q \in Open(tier)) <= 1
    <3>1. q \in Open(tier) => statRows[tier][q] = 0 /\ q \notin Outgoing(tier)
      BY DEF CountShape, TierInv
    <3>2. q \in Outgoing(tier) => statRows[tier][q] = 0
      BY DEF CountShape, TierInv, Outgoing
    <3>3. statRows[tier][q] \in {0, 1}
      BY <2>1
    <3> QED BY <3>1, <3>2, <3>3 DEF OneIf
  <2>4. ASSUME NEW q \in Queries
        PROVE  statRows["day"][q] + OneIf(q \in Outgoing("day")) <= 1
    <3>1. q \in Outgoing("day") => statRows["day"][q] = 0
      BY DEF CountShape, TierInv, Outgoing
    <3>2. statRows["day"][q] \in {0, 1}
      BY <2>1
    <3> QED BY <3>1, <3>2 DEF OneIf
  <2> QED BY <2>2, <2>3, <2>4 DEF CountedOnce
<1> QED BY <1>1, CollectorsInvariant, PTL

\* The hours and the days are never behind the quarters: a quarter takes the
\* hours with it, and an hour goes out as a day too (statistics.go:171-197).
THEOREM HoursKeepUp == Spec => []CoarserNotBehind
<1>1. CollectorsInv => CoarserNotBehind
  <2> SUFFICES ASSUME CountShape, CoarseInv, StatIdle PROVE CoarserNotBehind
    BY DEF CollectorsInv, CoarserNotBehind
  <2>1. \A tier : Outgoing(tier) = {}
    BY DEF StatIdle, StatBusy, Outgoing
  <2>2. ASSUME ~statFailed, NEW q \in Consented
        PROVE  /\ statRows["quarter"][q] <= statRows["hour"][q]
               /\ statRows["hour"][q] = statRows["day"][q]
    <3>1. \A tier \in {"quarter", "hour", "day"} : statRows[tier][q] \in {0, 1}
      BY StatAssumption DEF CountShape, StatShape, AllTiers, Tiers
    <3>2. /\ statRows["hour"][q] = 1 <=> statRows["day"][q] = 1
          /\ statRows["quarter"][q] = 1 => statRows["hour"][q] = 1
      BY <2>1, <2>2 DEF CoarseInv, Went
    <3> QED BY <3>1, <3>2
  <2> QED BY <2>2 DEF CoarserNotBehind, CoarseInv
<1> QED BY <1>1, CollectorsInvariant, PTL

\* A clean exit loses nothing that was queued for the statistics when the
\* collector was told to stop (statistics.go:82-125).
THEOREM CleanExitFlushes == Spec => []StatisticsFlushed
<1>1. CollectorsInv => StatisticsFlushed
  <2> SUFFICES ASSUME StopInv, mainPc = "exited", ~timedOut
               PROVE  /\ fleet = {} /\ fleetOut = {} /\ outbox = {}
                      /\ \A tier \in Tiers : Open(tier) = {}
                      /\ queuedAtQuit \cap statChan = {}
    BY DEF CollectorsInv, StatisticsFlushed, CleanExit
  <2>1. statReturned
    BY DEF StopInv
  <2> QED BY <2>1 DEF StopInv, StatBusy
<1> QED BY <1>1, CollectorsInvariant, PTL

\* The wait of the main goroutine is long enough for a flush that starts at
\* once: two emit timeouts (main.go:138-140, statistics.go:199-221).
THEOREM WaitLongEnough == Spec => []WaitCoversFlush
<1>1. CollectorsInv => WaitCoversFlush
  <2> SUFFICES ASSUME HostShape, BudgetInv, elapsed = CollectorFlushTimeout,
                      stopBegan + 2 * EmitTimeout < CollectorFlushTimeout
               PROVE  statReturned
    BY DEF CollectorsInv, WaitCoversFlush
  <2> USE Times
  <2>1. stopBegan = 0 /\ statTimer \in Nat /\ elapsed = 2 * EmitTimeout + 1
    BY DEF BudgetInv, HostShape
  <2>2. todo \notin {StopCalls, FromFlush}
    BY <2>1 DEF BudgetInv
  <2>3. todo # FromFinal /\ todo # FromReturn
    BY <2>1 DEF BudgetInv
  <2> QED BY <2>1, <2>2, <2>3 DEF BudgetInv, Stopping
<1> QED BY <1>1, CollectorsInvariant, PTL

=============================================================================
