---------------------------- MODULE MCCollection ----------------------------
(* The data collection control and the statistics page, on small instances.  Each has
   its own server and store here: one behaviour is of one of them. *)
EXTENDS DataCollection, StatisticsPage

VARIABLE opened

\* The one that is not opened stands still in one of its initial states.
Init ==
    /\ DataCollectionInit /\ StatisticsInit
    /\ \/ opened = "control" /\ view.url # Min(Views)
       \/ opened = "statistics" /\ \A f \in {"stats", "logs"} : ~dcServer.set[f]
                                /\ dcServer.set.statsRetention = 1 /\ dcServer.set.retention = 1

Next ==
    \/ opened = "control" /\ DataCollectionNext /\ UNCHANGED <<statVars, opened>>
    \/ opened = "statistics" /\ StatisticsNext /\ UNCHANGED <<dcVars, opened>>

Spec == Init /\ [][Next]_<<dcVars, statVars, opened>>
=============================================================================
