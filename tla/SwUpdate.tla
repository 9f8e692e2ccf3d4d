------------------------------ MODULE SwUpdate ------------------------------
(***************************************************************************)
(* How an open tab comes to run a newly deployed build                     *)
(* (app/src/lib/swUpdate.ts): the checks of the service worker and of      *)
(* version.json, the toast, and the reloads.  The service worker's         *)
(* registration is shared by the tabs; the build a page runs is the one    *)
(* its document was served from.  A tab has one version check under way at *)
(* a time.                                                                 *)
(***************************************************************************)
EXTENDS AppStore

CONSTANTS Tabs,
          MaxBuild,    \* bound: builds deployed
          MaxMishaps,  \* bound: checks and installs that fail, reloads that get a stale page
          MaxGlances   \* bound: times a tab is hidden or shown

ASSUME SwUpdateAssumption == {MaxBuild, MaxMishaps, MaxGlances} \subseteq Nat

VARIABLES
    deployed,  \* the build the server has
    worker,    \* the registration: the builds of its workers, 0 for none
    tabs,      \* the page of each tab
    mishaps, glances

swVars == <<deployed, worker, tabs, mishaps, glances>>

\* The build, the hidden flag and the session storage of a tab survive a reload as
\* given; last is how it got here.
LoadedPage(build, hidden, guard, last) ==
    [build |-> build, hidden |-> hidden, guard |-> guard, last |-> last,
     registered |-> FALSE, startup |-> TRUE, event |-> FALSE, check |-> Null,
     handled |-> FALSE, offer |-> Null, tabAway |-> FALSE, pending |-> Null]

Mishap == mishaps > 0 /\ mishaps' = mishaps - 1
-----------------------------------------------------------------------------
(* setupSWUpdate *)

\* autoReload: one automatic reload per deployed build.
AutoReload(p, offer) ==
    IF p.guard = offer.buildId THEN p
    ELSE [p EXCEPT !.guard = offer.buildId,
                   !.pending = [plain |-> TRUE, sure |-> offer.sure]]

\* apply: a waiting worker is told to take over and the reload follows; without one the
\* page is reloaded.
Apply(p, manual, offer) ==
    IF offer.hasWaiting \/ (p.registered /\ worker.waiting # 0)
    THEN [p EXCEPT !.pending = [plain |-> FALSE, sure |-> offer.sure]]
    ELSE IF manual THEN [p EXCEPT !.pending = [plain |-> TRUE, sure |-> offer.sure]]
    ELSE AutoReload(p, offer)

\* Mutant: a hidden tab leaves the update to the moment it is shown.
OnUpdateAvailableShown(p, offer) ==
    IF p.handled \/ p.hidden THEN p
    ELSE [p EXCEPT !.handled = TRUE, !.offer = offer, !.tabAway = TRUE]

\* onUpdateAvailable.
OnUpdateAvailable(p, offer) ==
    IF p.handled THEN p
    ELSE IF p.hidden
    THEN LET q == Apply(p, FALSE, offer) IN [q EXCEPT !.handled = q.pending # Null]
    ELSE [p EXCEPT !.handled = TRUE, !.offer = offer, !.tabAway = TRUE]

\* An offer is sure if a reload will get a newer build.
Waiting(p, w) == [hasWaiting |-> TRUE, buildId |-> 0, sure |-> w.waiting > p.build]
Reloadable(id, sure) == [hasWaiting |-> FALSE, buildId |-> id, sure |-> sure]

\* A handler of tab t leaves the page q and the worker w; applyWaiting's message goes to
\* the waiting worker, if there is one.
Handled(t, q, w) ==
    /\ tabs' = [tabs EXCEPT ![t] = q]
    /\ worker' = IF tabs[t].pending = Null /\ q.pending # Null /\ ~q.pending.plain
                 THEN [w EXCEPT !.skip = @ \/ w.waiting # 0] ELSE w

Running(t) == tabs[t].pending = Null
-----------------------------------------------------------------------------
(* The checks *)

\* registration.update: another build than the newest is installed.
Update(w) ==
    IF deployed > Max({w.active, w.waiting, w.installing}) THEN [w EXCEPT !.installing = deployed]
    ELSE w

\* Registering looks for an update as well; a worker that waits is announced.
OnRegisteredSW(t) ==
    /\ Running(t) /\ ~tabs[t].registered
    /\ worker' = Update(worker)
    /\ tabs' = [tabs EXCEPT ![t].registered = TRUE, ![t].event = worker.waiting # 0]
    /\ UNCHANGED <<deployed, mishaps, glances>>

OnNeedRefresh(t) ==
    /\ Running(t) /\ tabs[t].event
    /\ LET p == [tabs[t] EXCEPT !.event = FALSE]
       IN Handled(t, OnUpdateAvailable(p, Waiting(p, worker)), worker)
    /\ UNCHANGED <<deployed, mishaps, glances>>

Fetching(p) == IF p.check = Null THEN [p EXCEPT !.check = [id |-> 0]] ELSE p

\* check: every 15 minutes, and on navigation; offline it does nothing.
Check(t) ==
    /\ Running(t) /\ tabs[t].registered /\ tabs[t].check = Null
    /\ tabs' = [tabs EXCEPT ![t] = Fetching(@)]
    /\ \/ worker' = Update(worker) /\ UNCHANGED mishaps
       \/ Mishap /\ UNCHANGED worker
    /\ UNCHANGED <<deployed, glances>>

\* The one after the start, which does not look for a worker.
StartupCheck(t) ==
    /\ Running(t) /\ tabs[t].startup
    /\ tabs' = [tabs EXCEPT ![t] = [Fetching(@) EXCEPT !.startup = FALSE]]
    /\ UNCHANGED <<deployed, worker, mishaps, glances>>

\* versionCheck: version.json has arrived.
VersionFetched(t) ==
    LET p == tabs[t]
        q == [p EXCEPT !.check = Null] IN
    /\ Running(t) /\ p.check # Null /\ p.check.id = 0
    /\ \/ /\ UNCHANGED mishaps
          /\ Handled(t, IF deployed = p.build THEN q
                        ELSE IF p.registered THEN [p EXCEPT !.check.id = deployed]
                        ELSE OnUpdateAvailable(q, Reloadable(deployed, FALSE)), worker)
       \/ Mishap /\ Handled(t, q, worker)
    /\ UNCHANGED <<deployed, glances>>

\* Mutant: an install in flight is not waited for.
SettledSoon(p, id, w, sure) ==
    OnUpdateAvailable(p, IF w.waiting # 0 THEN Waiting(p, w) ELSE Reloadable(id, sure))

\* After the update of the registration: an install in flight stays quiet.
Settled(p, id, w, sure) ==
    IF w.waiting # 0 THEN OnUpdateAvailable(p, Waiting(p, w))
    ELSE IF w.installing # 0 THEN p
    ELSE OnUpdateAvailable(p, Reloadable(id, sure))

UpdateEnded(t) ==
    LET p == [tabs[t] EXCEPT !.check = Null] IN
    /\ Running(t) /\ tabs[t].check # Null /\ tabs[t].check.id # 0
    /\ \/ /\ UNCHANGED mishaps
          /\ Handled(t, Settled(p, tabs[t].check.id, Update(worker), TRUE), Update(worker))
       \/ Mishap /\ Handled(t, Settled(p, tabs[t].check.id, worker, FALSE), worker)
    /\ UNCHANGED <<deployed, glances>>
-----------------------------------------------------------------------------
(* The user *)

\* "Refresh".
ApplyOnce(t) ==
    /\ Running(t) /\ tabs[t].offer # Null /\ ~tabs[t].hidden
    /\ Handled(t, Apply([tabs[t] EXCEPT !.tabAway = FALSE], TRUE, tabs[t].offer), worker)
    /\ UNCHANGED <<deployed, mishaps, glances>>

\* onHidden: the update is applied when the user tabs away, once.
Hide(t) ==
    LET p == [tabs[t] EXCEPT !.hidden = TRUE, !.tabAway = FALSE] IN
    /\ glances > 0 /\ glances' = glances - 1 /\ ~tabs[t].hidden
    /\ Handled(t, IF tabs[t].tabAway /\ Running(t) THEN Apply(p, FALSE, tabs[t].offer) ELSE p, worker)
    /\ UNCHANGED <<deployed, mishaps>>

\* A tab that becomes visible checks.
Show(t) ==
    /\ glances > 0 /\ glances' = glances - 1 /\ tabs[t].hidden
    /\ LET p == [tabs[t] EXCEPT !.hidden = FALSE]
           checks == p.registered /\ Running(t)
       IN /\ tabs' = [tabs EXCEPT ![t] = IF checks THEN Fetching(p) ELSE p]
          /\ worker' = IF checks THEN Update(worker) ELSE worker
    /\ UNCHANGED <<deployed, mishaps>>
-----------------------------------------------------------------------------
(* The browser and the server *)

Deploy ==
    /\ deployed < MaxBuild /\ deployed' = deployed + 1
    /\ UNCHANGED <<worker, tabs, mishaps, glances>>

\* An installed worker waits if there is an active one, and the tabs are told.  One that
\* was told to take over does so first.
InstallEnds ==
    /\ worker.installing # 0 /\ ~worker.skip
    /\ \/ /\ UNCHANGED mishaps
          /\ IF worker.active = 0
             THEN worker' = [worker EXCEPT !.active = worker.installing, !.installing = 0]
                  /\ UNCHANGED tabs
             ELSE worker' = [worker EXCEPT !.waiting = worker.installing, !.installing = 0]
                  /\ tabs' = [t \in Tabs |-> [tabs[t] EXCEPT !.event = @ \/ tabs[t].registered]]
       \/ Mishap /\ worker' = [worker EXCEPT !.installing = 0] /\ UNCHANGED tabs
    /\ UNCHANGED <<deployed, glances>>

\* A tab outside Tabs applies the update.
OtherTabApplies ==
    /\ worker.waiting # 0 /\ ~worker.skip
    /\ worker' = [worker EXCEPT !.skip = TRUE]
    /\ UNCHANGED <<deployed, tabs, mishaps, glances>>

\* The waiting worker takes over.  The register module reloads some of the tabs by
\* itself; without having been told to, the browser says nothing to any of them.
Activate(told) ==
    /\ worker.waiting # 0 /\ worker.skip = told
    /\ worker' = [worker EXCEPT !.active = worker.waiting, !.waiting = 0, !.skip = FALSE]
    /\ \E others \in IF told THEN SUBSET {t \in Tabs : Running(t)} ELSE {{}} :
          tabs' = [t \in Tabs |-> IF t \in others
                                  THEN [tabs[t] EXCEPT !.pending = [plain |-> TRUE, sure |-> FALSE]]
                                  ELSE tabs[t]]
    /\ UNCHANGED <<deployed, mishaps, glances>>

\* reload, at once or when the waiting worker controls the page; the timer that stands
\* in for a lost controllerchange runs longer than the worker needs.  A controlled page
\* comes from the cache of the active worker, unless a stale one survives.
Reload(t) ==
    LET p == tabs[t]
        Page(build, sure) == LoadedPage(build, p.hidden, p.guard, [from |-> p.build, sure |-> sure]) IN
    /\ p.pending # Null /\ (p.pending.plain \/ ~worker.skip)
    /\ \/ /\ tabs' = [tabs EXCEPT ![t] = Page(IF worker.active = 0 THEN deployed ELSE worker.active, p.pending.sure)]
          /\ UNCHANGED mishaps
       \/ Mishap /\ tabs' = [tabs EXCEPT ![t] = Page(p.build, FALSE)]
    /\ UNCHANGED <<deployed, worker, glances>>
-----------------------------------------------------------------------------
\* Tabs of a first visit, or of one under a worker.
SwInit ==
    /\ deployed = 1
    /\ worker \in {[active |-> a, waiting |-> 0, installing |-> 0, skip |-> FALSE] : a \in 0 .. 1}
    /\ tabs = [t \in Tabs |-> LoadedPage(1, FALSE, 0, Null)]
    /\ mishaps = MaxMishaps /\ glances = MaxGlances

\* What happens without the user and the server's operator.
Progress(t) ==
    \/ OnRegisteredSW(t) \/ OnNeedRefresh(t) \/ StartupCheck(t)
    \/ VersionFetched(t) \/ UpdateEnded(t) \/ Reload(t)

SwNext ==
    \/ \E t \in Tabs : Progress(t) \/ Check(t) \/ ApplyOnce(t) \/ Hide(t) \/ Show(t)
    \/ Deploy \/ InstallEnds \/ OtherTabApplies \/ \E told \in BOOLEAN : Activate(told)

\* Requests, installs and reloads end, the interval's timer keeps checking, and a worker
\* that was told to take over does.
SwFairness ==
    /\ \A t \in Tabs : WF_swVars(Progress(t)) /\ WF_swVars(Check(t))
    /\ WF_swVars(InstallEnds) /\ WF_swVars(Activate(TRUE))

SwSpec == SwInit /\ [][SwNext]_swVars /\ SwFairness
-----------------------------------------------------------------------------
\* "prompting mid-install offers a reload the old worker answers with the old page, i.e.
\* a second toast after reloading": the reload that a toast or a hidden tab asked for
\* after a check that succeeded always gets a newer build, whatever was deployed,
\* installed or taken over by another tab in the meantime.
ReloadAdvances ==
    \A t \in Tabs : tabs[t].last # Null /\ tabs[t].last.sure => tabs[t].build > tabs[t].last.from

\* A tab does not stay on an old build in silence: it gets to the deployed one or offers
\* it, unless it is hidden and its one automatic reload got a stale page.
FreshOrTold ==
    \A t \in Tabs :
        []<>(\/ tabs[t].build = deployed
             \/ tabs[t].offer # Null
             \/ tabs[t].hidden /\ tabs[t].guard = deployed)
=============================================================================
