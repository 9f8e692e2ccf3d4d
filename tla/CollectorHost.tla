--------------------------- MODULE CollectorHost ---------------------------
(***************************************************************************)
(* What the two collectors of the proxy share: the main goroutine that     *)
(* tells them to stop, the wall clock that its wait and their emit calls   *)
(* are measured against, and the panic recovery that restarts them.        *)
(*                                                                         *)
(* Time is counted in units of five seconds.  Within the model only a call *)
(* of the emitter takes time: whatever a goroutine does between two calls  *)
(* is instantaneous.                                                       *)
(***************************************************************************)
EXTENDS Naturals, FiniteSets

CONSTANTS Queries,      \* the queries answered in a behaviour
          EmitTimeout,  \* units one emitter call may take
          MaxFaults     \* bound: failed emitter calls and panics

ASSUME HostAssumption ==
    /\ IsFiniteSet(Queries)
    /\ EmitTimeout \in Nat \ {0}
    /\ MaxFaults \in Nat

VARIABLES mainPc,    \* how far the main goroutine is
          elapsed,   \* units since the quit channel was closed
          faults     \* failed emitter calls and panics so far

hostVars == <<mainPc, elapsed, faults>>

MainSteps == {"serving", "stopping", "waiting", "disconnecting", "exited"}

\* The quit channel is closed.
Quit == mainPc \in {"waiting", "disconnecting", "exited"}

Alive == mainPc # "exited"

\* collectorFlushTimeout: two emit timeouts and five seconds.
CollectorFlushTimeout == 2 * EmitTimeout + 1

\* An emitter call fails or panics.  A panic is recovered by safelyRun, which
\* runs the collector again; trackRun leaves it counted, so nothing but the
\* collector itself changes.
Fault ==
    /\ faults < MaxFaults
    /\ faults' = faults + 1
=============================================================================
