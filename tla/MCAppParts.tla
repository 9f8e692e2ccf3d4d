----------------------------- MODULE MCAppParts -----------------------------
(* Parts of the application that share no state, on small instances: the backup and
   restore dialogs, the update of the application in its open tabs, the setup of a
   device, and the connection status.  A behaviour is of one of them; the others stand
   still in an initial state. *)
EXTENDS BackupRestore, SwUpdate, SetupPage, ConnectionStatus

VARIABLE part

\* One initial state of each part that stands still.
Still(p) ==
    /\ p = "dialogs" \/ (~passkeys /\ acct = CHOOSE a \in Accounts : ~a.restricted)
    /\ p = "tabs" \/ worker.active = 1
    /\ p = "setup" \/ (where = "/setup" /\ chosen = Null)
    /\ p = "status" \/ (current = (CHOOSE q \in ProfileIds : TRUE) /\ resolver = "other" /\ cutOff)

Init ==
    /\ BackupRestoreInit /\ SwInit /\ SetupInit /\ ConnInit
    /\ part \in {"dialogs", "tabs", "setup", "status"} /\ Still(part)

Next ==
    \/ part = "dialogs" /\ BackupRestoreNext /\ UNCHANGED <<swVars, setupVars, connVars, part>>
    \/ part = "tabs" /\ SwNext /\ UNCHANGED <<brVars, setupVars, connVars, part>>
    \/ part = "setup" /\ SetupNext /\ UNCHANGED <<brVars, swVars, connVars, part>>
    \/ part = "status" /\ ConnNext /\ UNCHANGED <<brVars, swVars, setupVars, part>>

Moves(p, A) == part = p /\ A

\* The fairness of SwSpec and of ConnSpec, each for the behaviours of its part.
Spec ==
    /\ Init /\ [][Next]_<<brVars, swVars, setupVars, connVars, part>>
    /\ \A t \in Tabs : WF_swVars(Moves("tabs", Progress(t))) /\ WF_swVars(Moves("tabs", Check(t)))
    /\ WF_swVars(Moves("tabs", InstallEnds)) /\ WF_swVars(Moves("tabs", Activate(TRUE)))
    /\ WF_connVars(Moves("status", Poll)) /\ WF_connVars(Moves("status", HideEnds))
    /\ \A s \in Slots : WF_connVars(Moves("status", Answered(s))) /\ WF_connVars(Moves("status", Arrives(s)))
=============================================================================
