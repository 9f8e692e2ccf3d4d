------------------------ MODULE MCBlocklistRefresh -------------------------
EXTENDS BlocklistRefresh, TLC

CONSTANTS l1, l2, w1, w2

\* Both instances carry the list; or, during a rollout, w1 still carries l1
\* while w2 carries another list only.
AllDeployments == {(w1 :> {l1}) @@ (w2 :> {l1}), (w1 :> {l1}) @@ (w2 :> {l2})}

\* Version 2 doubles the list; version 3 shrinks it sharply. The source of l2
\* serves an empty list, which the gate refuses.
Sizes == <<4, 8, 3, 0>>
AllVersions == (l1 :> {1, 2, 3}) @@ (l2 :> {4})
LastVersions == (l1 :> {1}) @@ (l2 :> {4})
=============================================================================
