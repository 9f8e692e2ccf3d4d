------------------------ MODULE QueryLogsCollector ------------------------
(***************************************************************************)
(* proxy/collector/query_logs.go: one goroutine gathers the query logs     *)
(* sent by the request goroutines and writes them in batches, when the     *)
(* batch is full or at a tick.                                             *)
(*                                                                         *)
(* The senders are concurrent goroutines and nothing depends on the order  *)
(* in which they reach the channel, so the channel is a bounded set.       *)
(***************************************************************************)
EXTENDS CollectorHost

CONSTANTS Logged,    \* the queries of profiles that have logs enabled
          LogBatch   \* BatchSize, which is also the channel's capacity

ASSUME LogAssumption ==
    /\ Logged \subseteq Queries
    /\ LogBatch \in Nat \ {0}

VARIABLES logSenders,   \* EmitQueryLog goroutines that have not sent yet
          logChan,      \* QueryChan
          logBuffer,    \* queryLogsToEmit; counter is its size
          logCollector, \* where the Collect goroutine is
          logTimer,     \* units left to the emitter call under way
          logRows       \* how many documents the database holds of a query

logVars == <<logSenders, logChan, logBuffer, logCollector, logTimer, logRows>>

LogTypeOK ==
    /\ logSenders \subseteq Logged
    /\ logChan \subseteq Logged
    /\ Cardinality(logChan) <= LogBatch
    /\ logBuffer \subseteq Logged
    /\ logCollector \in {"select", "emit", "returned"}
    /\ logTimer \in 0..EmitTimeout
    /\ logRows \in [Logged -> Nat]

LogInit ==
    /\ logSenders = {}
    /\ logChan = {}
    /\ logBuffer = {}
    /\ logCollector = "select"
    /\ logTimer = 0
    /\ logRows = [q \in Logged |-> 0]

LogBusy == logCollector = "emit"

-----------------------------------------------------------------------------
\* Send blocks while the channel is full.
LogSend(q) ==
    /\ q \in logSenders
    /\ Cardinality(logChan) < LogBatch
    /\ logSenders' = logSenders \ {q}
    /\ logChan' = logChan \cup {q}
    /\ UNCHANGED <<logBuffer, logCollector, logTimer, logRows>>

LogReceive(q) ==
    /\ logCollector = "select"
    /\ q \in logChan
    /\ logChan' = logChan \ {q}
    /\ logBuffer' = logBuffer \cup {q}
    /\ IF Cardinality(logBuffer') = LogBatch
          THEN logCollector' = "emit" /\ logTimer' = EmitTimeout
          ELSE UNCHANGED <<logCollector, logTimer>>
    /\ UNCHANGED <<logSenders, logRows>>

LogTick ==
    /\ logCollector = "select"
    /\ logBuffer # {}
    /\ logCollector' = "emit"
    /\ logTimer' = EmitTimeout
    /\ UNCHANGED <<logSenders, logChan, logBuffer, logRows>>

LogInsert(S) ==
    logRows' = [q \in Logged |-> IF q \in S THEN logRows[q] + 1 ELSE logRows[q]]

\* EmitQueryLogs has written the batch.
LogEmitted ==
    /\ LogBusy
    /\ LogInsert(logBuffer)
    /\ logBuffer' = {}
    /\ logCollector' = "select"
    /\ logTimer' = 0
    /\ UNCHANGED <<logSenders, logChan>>

\* Mutant: a batch that failed is kept and emitted again.
LogFailedRetry ==
    /\ LogBusy
    /\ Fault
    /\ \E S \in SUBSET logBuffer : LogInsert(S)
    /\ logCollector' = "select"
    /\ logTimer' = 0
    /\ UNCHANGED <<logSenders, logChan, logBuffer>>

\* EmitQueryLogs fails or panics.  InsertBatch writes one collection after the
\* other and stops at the first error, and InsertMany is unordered: any part
\* of the batch may have been written.  After an error the batch is dropped;
\* after a panic Collect starts over with a new, empty batch.
LogFailed ==
    /\ LogBusy
    /\ Fault
    /\ \E S \in SUBSET logBuffer : LogInsert(S)
    /\ logBuffer' = {}
    /\ logCollector' = "select"
    /\ logTimer' = 0
    /\ UNCHANGED <<logSenders, logChan>>

\* The goroutine returns; the channel and the batch stay as they are.
LogStop ==
    /\ logCollector = "select"
    /\ Quit
    /\ logCollector' = "returned"
    /\ UNCHANGED <<logSenders, logChan, logBuffer, logTimer, logRows>>

=============================================================================
