-------------------------- MODULE ConnectionStatus --------------------------
(***************************************************************************)
(* The bar that tells whether this browser resolves names through modDNS,  *)
(* and with which profile (app/src/hooks/useDnsConnectionStatus.ts and the *)
(* header that shows it): probes every few seconds, answered late, in any  *)
(* order or not at all, while the user switches profiles, changes the DNS  *)
(* setup of the device, hides the bar or loses access.                     *)
(***************************************************************************)
EXTENDS AppStore

CONSTANTS ProfileIds,
          MaxProbes,      \* bound: probes in flight
          MaxFailures,    \* bound: probes that fail
          MaxAlterations  \* bound: profile switches, new DNS setups, hiding, cut-offs

ASSUME ConnectionAssumption == MaxProbes \in Nat \ {0} /\ {MaxFailures, MaxAlterations} \subseteq Nat

VARIABLES
    current,    \* the active profile
    cutOff,     \* the account has no DNS service
    resolver,   \* what the device resolves with: a profile or "other"
    visible,    \* the store's connectionStatusVisible
    hiding,     \* "Hide" was clicked and its 300 ms have not passed
    conn,       \* the state of the mounted hook, or Null
    probes,     \* the requests of this mount, by slot
    failures, alterations

connVars == <<current, cutOff, resolver, visible, hiding, conn, probes, failures, alterations>>

Slots == 1 .. MaxProbes
NoProbes == [s \in Slots |-> Null]
Free(pr) == {s \in Slots : pr[s] = Null}

Altered == alterations > 0 /\ alterations' = alterations - 1
-----------------------------------------------------------------------------
(* useDnsConnectionStatus *)

NewHook == [answer |-> Null, loading |-> TRUE, error |-> FALSE, polling |-> FALSE]

\* executeDnsCheck up to the request; one beyond MaxProbes in flight is not followed.
Asking(pr) == IF Free(pr) = {} THEN pr ELSE [pr EXCEPT ![Min(Free(pr))] = "asked"]

\* Mutant: the interval is cleared and not set again.
EffectRunOnce(hook) == [hook EXCEPT !.error = FALSE, !.polling = FALSE]

\* The effect of a new profile id or of the mount: a check at once and an interval.
EffectRun(hook) == [hook EXCEPT !.error = FALSE, !.polling = TRUE]

\* A tick of the interval.
Poll ==
    /\ conn # Null /\ conn.polling /\ Free(probes) # {}
    /\ probes' = Asking(probes)
    /\ conn' = [conn EXCEPT !.error = FALSE]
    /\ UNCHANGED <<current, cutOff, resolver, visible, hiding, failures, alterations>>

\* The check service tells through which profile the probe's name was resolved.
Answered(s) ==
    /\ probes[s] = "asked"
    /\ \/ probes' = [probes EXCEPT ![s] = resolver] /\ UNCHANGED failures
       \/ failures > 0 /\ failures' = failures - 1 /\ probes' = [probes EXCEPT ![s] = "failed"]
    /\ UNCHANGED <<current, cutOff, resolver, visible, hiding, conn, alterations>>

\* The rest of executeDnsCheck: "ok" leaves the error of another probe, "disconnected"
\* clears it.
Arrives(s) ==
    /\ probes[s] \notin {Null, "asked"}
    /\ probes' = [probes EXCEPT ![s] = Null]
    /\ conn' = IF probes[s] = "failed" THEN [conn EXCEPT !.error = TRUE, !.loading = FALSE]
               ELSE [conn EXCEPT !.answer = probes[s], !.loading = FALSE,
                                 !.error = @ /\ probes[s] # "other"]
    /\ UNCHANGED <<current, cutOff, resolver, visible, hiding, failures, alterations>>

\* getStatusInfo.
Status ==
    IF conn.loading THEN "Checking"
    ELSE IF conn.error THEN "Error"
    ELSE IF conn.answer = Null THEN "Checking"
    ELSE IF conn.answer = "other" THEN "Disconnected"
    ELSE IF conn.answer = current THEN "Connected"
    ELSE "Different Profile"
-----------------------------------------------------------------------------
(* The header bar *)

\* shouldRenderConnectionHeader: a new mount starts anew, an unmounted hook's interval
\* is cleared and its answers go nowhere.
Mounted == conn' = EffectRun(NewHook) /\ probes' = Asking(NoProbes)
Unmounted == conn' = Null /\ probes' = NoProbes

HandleHide ==
    /\ conn # Null /\ ~hiding /\ Altered
    /\ hiding' = TRUE
    /\ UNCHANGED <<current, cutOff, resolver, visible, conn, probes, failures>>

\* Its timer also runs out when the bar is gone.
HideEnds ==
    /\ hiding /\ hiding' = FALSE
    /\ visible' = FALSE /\ Unmounted
    /\ UNCHANGED <<current, cutOff, resolver, failures, alterations>>

\* "DNS Status" in the header.
Restore ==
    /\ ~visible /\ ~cutOff /\ Altered
    /\ visible' = TRUE /\ Mounted
    /\ UNCHANGED <<current, cutOff, resolver, hiding, failures>>
-----------------------------------------------------------------------------
(* The rest of the application and the device *)

SwitchProfile ==
    /\ Altered
    /\ \E p \in ProfileIds \ {current} : current' = p
    /\ IF conn = Null THEN UNCHANGED <<conn, probes>>
       ELSE conn' = EffectRun(conn) /\ probes' = Asking(probes)
    /\ UNCHANGED <<cutOff, resolver, visible, hiding, failures>>

ChangeAccess ==
    /\ Altered
    /\ cutOff' = ~cutOff
    /\ IF ~visible THEN UNCHANGED <<conn, probes>> ELSE IF cutOff THEN Mounted ELSE Unmounted
    /\ UNCHANGED <<current, resolver, visible, hiding, failures>>

ChangeDns ==
    /\ Altered
    /\ \E r \in (ProfileIds \cup {"other"}) \ {resolver} : resolver' = r
    /\ UNCHANGED <<current, cutOff, visible, hiding, conn, probes, failures>>
-----------------------------------------------------------------------------
ConnInit ==
    /\ current \in ProfileIds /\ resolver \in ProfileIds \cup {"other"}
    /\ cutOff \in BOOLEAN /\ visible = TRUE /\ hiding = FALSE
    /\ conn = IF cutOff THEN Null ELSE EffectRun(NewHook)
    /\ probes = IF cutOff THEN NoProbes ELSE Asking(NoProbes)
    /\ failures = MaxFailures /\ alterations = MaxAlterations

ConnNext ==
    \/ Poll \/ \E s \in Slots : Answered(s) \/ Arrives(s)
    \/ HandleHide \/ HideEnds \/ Restore
    \/ SwitchProfile \/ ChangeAccess \/ ChangeDns

\* Intervals and timers run, and every probe ends.
ConnFairness ==
    /\ WF_connVars(Poll) /\ WF_connVars(HideEnds)
    /\ \A s \in Slots : WF_connVars(Answered(s)) /\ WF_connVars(Arrives(s))

ConnSpec == ConnInit /\ [][ConnNext]_connVars /\ ConnFairness
-----------------------------------------------------------------------------
Truth ==
    IF resolver = "other" THEN "Disconnected"
    ELSE IF resolver = current THEN "Connected"
    ELSE "Different Profile"

\* Once nothing changes any more the bar, if there is one, comes to tell how the device
\* resolves names and keeps telling it, whatever old answers were still under way and
\* whichever probes failed.
StatusConverges == <>[](conn = Null \/ Status = Truth)
=============================================================================
