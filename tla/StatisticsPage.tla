--------------------------- MODULE StatisticsPage ---------------------------
(***************************************************************************)
(* The statistics page (app/src/pages/statistics): the view named by the   *)
(* URL, the counts and the top lists it asks the server for, what answers  *)
(* it accepts while the user changes the view, the profile and what is     *)
(* collected, the refetches that run by themselves, and the quick rules    *)
(* of its lists.  The data collection dialog is DataCollection's; here it  *)
(* only saves.  A clock step is the distance of two moments the page tells *)
(* apart, and longer than a request takes.                                 *)
(***************************************************************************)
EXTENDS AppStore

CONSTANTS StatProfiles, \* profiles, numbered in the order of the list
          Busy,         \* the profiles whose devices send queries
          MaxClock,     \* bound: clock steps
          MaxStatClicks,\* bound: actions of the user
          MaxStatFaults \* bound: requests that fail and changes in another tab

ASSUME StatisticsAssumption ==
    /\ StatProfiles \subseteq Nat /\ StatProfiles # {} /\ Busy \subseteq StatProfiles
    /\ Null \notin Nat \cup {"error"}
    /\ {MaxClock, MaxStatClicks, MaxStatFaults} \subseteq Nat

VARIABLES
    counts,   \* the server: per profile its settings and what it has counted
    stCopy,   \* the store's copies of the settings
    shown,    \* the active profile
    view,     \* the page: URL, remembered view, reloads, dialogs, timer, tags
    res,      \* the page's resources
    asks,     \* requests in flight
    clock,
    stClicks, stFaults

statVars == <<counts, stCopy, shown, view, res, asks, clock, stClicks, stFaults>>
-----------------------------------------------------------------------------
(* ranges.ts.  Four views stand for the seven: one of quarter hours, the default,
   and the longest ones that each of two retentions covers. *)

Views == 1 .. 4
DefaultView == 2
Width == [v \in Views |-> 4 * v * v]

OfferedRanges(retention) == {v \in Views : v <= retention + 2}

\* A missing value reads as the default, a hidden view as the longest one offered.
ResolveRange(asked, retention) ==
    LET v == IF asked = Null THEN DefaultView ELSE asked
    IN IF v \in OfferedRanges(retention) THEN v ELSE Max(OfferedRanges(retention))

NextLongerRange(v) == {v + 1} \cap Views
-----------------------------------------------------------------------------
(* derive.ts.  Times are in clock steps; hourly and daily buckets are one tier. *)

Quarter == 2
Coarse == 4
RefetchDelay == 2    \* 90 s after the boundary, one step after the flush
CollectingGrace == 3

Latest(a, b) == IF a = Null THEN b ELSE IF b = Null THEN a ELSE Max({a, b})

\* normalizeStats: counting starts with the later of the two times.
EnabledAt(d) == Latest(d.onAt, d.deletedAt)

CountsState(d) ==
    IF d.total THEN "data"
    ELSE IF EnabledAt(d) # Null /\ EnabledAt(d) + Width[d.range] >= d.at
    THEN "no-queries-yet" ELSE "empty-range"

\* Mutant: every view waits for the next quarter of an hour only.
ExpectedQuarter(v, onAt, deletedAt) ==
    IF Latest(onAt, deletedAt) = Null THEN Null
    ELSE (Latest(onAt, deletedAt) \div Quarter) * Quarter + Quarter

\* When the first bucket of a view closes: the next quarter of an hour, in the coarser
\* tiers also the first quarter after the bucket the history was deleted in.
ExpectedFirstCounts(v, onAt, deletedAt) ==
    LET start == Latest(onAt, deletedAt)
        boundary == (start \div Quarter) * Quarter + Quarter
    IN IF start = Null THEN Null
       ELSE IF deletedAt = Null \/ v = 1 THEN boundary
       ELSE Max({boundary, (deletedAt \div Coarse) * Coarse + Coarse + Quarter})

\* The view the start of counting suggests: the shortest one that still holds it, if it
\* is in the last quarter of the current one.
ShorterViewForStart(d, retention) ==
    LET counted == d.at - EnabledAt(d)
        fit == {v \in OfferedRanges(retention) : Width[v] >= counted}
    IN IF EnabledAt(d) = Null \/ 4 * counted >= Width[d.range] \/ fit = {} THEN {}
       ELSE {Min(fit)} \cap {v \in Views : Width[v] < Width[d.range]}
-----------------------------------------------------------------------------
(* The server, from how the page uses it *)

NewCounts(logs) == [stats |-> TRUE, logs |-> logs, retention |-> 1,
                    onAt |-> 0, deletedAt |-> Null, epoch |-> 0]

\* What the profile's document says of it.
SettingsIn(c) == [stats |-> c.stats, logs |-> c.logs, retention |-> c.retention]

\* The quarters that count in a view end in these steps; the proxy's flush follows one
\* step later.
CountedQuarters(c, v) ==
    {e \in 1 .. MaxClock :
        /\ e % Quarter = 0
        /\ e > Latest(c.onAt, c.deletedAt)
        /\ v # 1 /\ c.deletedAt # Null => (e - Quarter) \div Coarse > c.deletedAt \div Coarse}

Answer(cs, kind, p, v) ==
    LET c == cs[p] IN
    IF kind = "stats"
    THEN [pid |-> p, range |-> v, enabled |-> c.stats, epoch |-> c.epoch, at |-> clock,
          onAt |-> IF c.stats THEN c.onAt ELSE Null, deletedAt |-> IF c.stats THEN c.deletedAt ELSE Null,
          total |-> c.stats /\ p \in Busy /\ \E e \in CountedQuarters(c, v) : e < clock]
    ELSE [pid |-> p, range |-> v]

\* New settings: turning statistics off or on starts the counts over.
Recounted(c, s) ==
    [c EXCEPT !.stats = s.stats, !.logs = s.logs, !.retention = s.retention,
              !.epoch = IF s.stats = c.stats THEN @ ELSE @ + 1,
              !.onAt = IF s.stats /\ ~c.stats THEN clock ELSE @]
-----------------------------------------------------------------------------
(* useApiResource *)

Idle == [key |-> Null, scope |-> Null, status |-> "idle", data |-> Null, refreshing |-> FALSE]
NewLoad(r) == [r EXCEPT !.status = "loading", !.data = Null, !.refreshing = FALSE]
Resources == {"stats", "lists"}

\* A request for a key; of two equal ones n tells them apart.
Fresh(pending, q) == [q EXCEPT !.n = Min({n \in 1 .. 9 : [q EXCEPT !.n = n] \notin pending})]

Ask(cs, pending, kind, key, p, v, silent) ==
    pending \cup {Fresh(pending, [kind |-> kind, key |-> key, pid |-> p, range |-> v, silent |-> silent,
                                  old |-> Answer(cs, kind, p, v), n |-> 1])}

\* The effect of a changed key: data of the same scope stay and are marked, others go.
Effect(r, key, scope) ==
    IF key = Null THEN Idle
    ELSE IF r.scope = scope /\ r.data # Null
    THEN [r EXCEPT !.key = key, !.refreshing = TRUE]
    ELSE [NewLoad(r) EXCEPT !.key = key, !.scope = scope]

\* Mutant: any answer is taken.
CurrentAny(r, q) == r.key # Null

\* Answers for a key that is no longer current are ignored.
Current(r, q) == r.key = q.key

Succeeded(r, q, data) ==
    IF Current(r, q) THEN [r EXCEPT !.status = "ready", !.data = data, !.refreshing = FALSE]
    ELSE r

\* Mutant: a failure leaves the data that are shown alone.
FailedQuietly(r, q) ==
    IF Current(r, q) /\ ~q.silent /\ r.data = Null THEN [NewLoad(r) EXCEPT !.status = "error"] ELSE r

\* So are the failures of a silent request.
Failed(r, q) ==
    IF Current(r, q) /\ ~q.silent THEN [NewLoad(r) EXCEPT !.status = "error"] ELSE r
-----------------------------------------------------------------------------
(* A render of the page: what it derives from its state, and its effects *)

Settings == stCopy[shown]

RangeOf(w, set) == ResolveRange(IF w.url = Null THEN w.remembered ELSE w.url, set.retention)

\* setRange: the default is not named.
SetRange(w, v) == [w EXCEPT !.url = IF v = DefaultView THEN Null ELSE v]

\* The URL always names the view shown.
Corrected(w, set) ==
    LET v == RangeOf(w, set)
    IN IF IF w.url # Null THEN w.url # v ELSE v # DefaultView THEN SetRange(w, v) ELSE w

StatsKey(w, p, set) ==
    IF set.stats THEN <<p, RangeOf(w, set), set.retention, w.reload>> ELSE Null

ListsKey(w, p, set) == IF set.logs THEN <<p, RangeOf(w, set)>> ELSE Null

KeyOf(kind, w, p, set) == IF kind = "stats" THEN StatsKey(w, p, set) ELSE ListsKey(w, p, set)

\* The store says on but the API says off.
ServerOff(rs, set) ==
    /\ set.stats /\ rs["stats"].status = "ready" /\ ~rs["stats"].data.enabled

\* While nothing is collected the page is one card.
Collected(rs, set) == (set.stats /\ ~ServerOff(rs, set)) \/ set.logs

\* While nothing is counted yet: when the page asks again, and until when it says so.
FirstCountsDue(rs, w, set) ==
    LET d == rs["stats"].data
        b == ExpectedFirstCounts(RangeOf(w, set), d.onAt, d.deletedAt)
    IN IF rs["stats"].status # "ready" \/ CountsState(d) # "no-queries-yet" \/ b = Null THEN Null
       ELSE [refetch |-> b + RefetchDelay, until |-> b + CollectingGrace]

\* Its effect runs anew for another moment, profile or view.
TimerOf(w, rs, p, set) ==
    LET c == FirstCountsDue(rs, w, set)
        deps == <<c, p, RangeOf(w, set)>>
    IN IF deps = w.deps THEN w
       ELSE [w EXCEPT !.deps = deps,
                      !.timer = IF c # Null /\ clock < c.until /\ c.refetch > clock THEN c.refetch ELSE Null]

\* The effects of one commit, on what its render saw: the changed keys are asked for
\* and a profile that is off on the server is read again, once.
Round(cs, s, p, set) ==
    LET v == RangeOf(s.w, set)
        key == [k \in Resources |-> KeyOf(k, s.w, p, set)]
        changed == {k \in Resources : key[k] # s.rs[k].key}
        off == ServerOff(s.rs, set) /\ s.w.revalidated # p
        sent == {k \in changed : key[k] # Null}
    IN [w |-> TimerOf([s.w EXCEPT !.revalidated = IF off THEN p ELSE @, !.sheet = @ /\ Collected(s.rs, set)],
                      s.rs, p, set),
        rs |-> [k \in Resources |-> IF k \in changed THEN Effect(s.rs[k], key[k], p) ELSE s.rs[k]],
        asks |-> s.asks
                 \cup (UNION {Ask(cs, s.asks, k, key[k], p, v, FALSE) : k \in sent})
                 \cup (IF off THEN Ask(cs, s.asks, "profile", Null, p, 1, FALSE) ELSE {})]

\* The page after a change: the URL is corrected, and what the first effects set is
\* rendered again.
AfterRender(cs, w, rs, pending, p, set) ==
    Round(cs, Round(cs, [w |-> Corrected(w, set), rs |-> rs, asks |-> pending], p, set), p, set)

\* A switch of the profile closes the quick rule sheet.
Rendered(cs, w, rs, pending, p, copies) ==
    LET s == AfterRender(cs, [w EXCEPT !.sheet = @ /\ p = shown], rs, pending, p, copies[p])
    IN /\ view' = s.w /\ res' = s.rs /\ asks' = s.asks
       /\ shown' = p /\ stCopy' = copies

CountsOn == Settings.stats /\ ~ServerOff(res, Settings)
AnyCollection == Collected(res, Settings)
ShownRange == RangeOf(view, Settings)

\* What is rendered for the counts and for the lists.
CountsCard ==
    IF ~CountsOn THEN "gate"
    ELSE IF res["stats"].status = "error" THEN "error"
    ELSE IF res["stats"].status # "ready" THEN "skeleton"
    ELSE CountsState(res["stats"].data)

ListSlot(r) == IF r.status = "error" THEN "error" ELSE IF r.status # "ready" THEN "skeleton" ELSE "list"
ListsCard == IF ~Settings.logs THEN "gate" ELSE ListSlot(res["lists"])

Card(k) == IF ~AnyCollection THEN Null ELSE IF k = "stats" THEN CountsCard ELSE ListsCard
SheetShown == view.sheet /\ Card("lists") \notin {Null, "gate"}
-----------------------------------------------------------------------------
(* The user *)

\* The dialogs are modal.
StatClick == stClicks > 0 /\ stClicks' = stClicks - 1 /\ view.gate = Null /\ ~SheetShown
OnPage == UNCHANGED <<counts, clock, stFaults>>

\* chooseRange: the view is remembered for the session.
Choose(v) == Rendered(counts, SetRange([view EXCEPT !.remembered = v], v), res, asks, shown, stCopy)

\* The picker of the toolbar.
PickRange(v) ==
    /\ StatClick /\ AnyCollection
    /\ v \in OfferedRanges(Settings.retention) \ {ShownRange}
    /\ Choose(v) /\ OnPage

\* The card of an empty view offers the next longer one, whether or not it is hidden.
ShowLonger ==
    /\ StatClick /\ Card("stats") = "empty-range"
    /\ \E v \in NextLongerRange(ShownRange) : Choose(v)
    /\ OnPage

\* The chart of a view that is mostly before the start of counting offers a shorter one.
ShowShorter ==
    /\ StatClick /\ Card("stats") = "data"
    /\ \E v \in ShorterViewForStart(res["stats"].data, Settings.retention) : Choose(v)
    /\ OnPage

\* The profile menu.
SwitchShown(p) ==
    /\ StatClick /\ p # shown
    /\ Rendered(counts, view, res, asks, p, stCopy) /\ OnPage

\* LoadError: "Try again".
Retry(k) ==
    /\ StatClick /\ Card(k) = "error"
    /\ Rendered(counts, view, [res EXCEPT ![k] = NewLoad(@)],
                Ask(counts, asks, k, res[k].key, shown, ShownRange, FALSE), shown, stCopy)
    /\ OnPage

\* A gate or "Change" opens the data collection dialog.
GateOffered(id) ==
    IF id \in Resources THEN Card(id) = "gate"
    ELSE \/ Card("stats") \in {"data", "no-queries-yet", "empty-range"}
         \/ AnyCollection /\ OfferedRanges(Settings.retention) # Views

OpenGate(id) ==
    /\ StatClick /\ GateOffered(id)
    /\ view' = [view EXCEPT !.gate = id]
    /\ OnPage /\ UNCHANGED <<stCopy, shown, res, asks>>

\* The dialog, or the control that is the whole page while nothing is collected, saves;
\* settings that were changed elsewhere are only shown.  The list and the active copy
\* are written.
SaveCollection(s) ==
    /\ \/ view.gate # Null /\ UNCHANGED stClicks
       \/ ~AnyCollection /\ StatClick
    /\ LET same == SettingsIn(counts[shown]) = Settings IN
       /\ counts' = IF same THEN [counts EXCEPT ![shown] = Recounted(@, s)] ELSE counts
       /\ Rendered(counts', [view EXCEPT !.gate = IF same THEN Null ELSE @], res, asks, shown,
                   [stCopy EXCEPT ![shown] = IF same THEN s ELSE SettingsIn(counts[shown])])
    /\ UNCHANGED <<clock, stFaults>>

CloseGate ==
    /\ view.gate # Null
    /\ view' = [view EXCEPT !.gate = Null]
    /\ OnPage /\ UNCHANGED <<stCopy, shown, res, asks, stClicks>>

\* "Delete statistics history", confirmed.
DeleteHistory ==
    /\ StatClick /\ CountsOn /\ ~\E q \in asks : q.kind = "delete"
    /\ asks' = Ask(counts, asks, "delete", Null, shown, 1, FALSE)
    /\ OnPage /\ UNCHANGED <<stCopy, shown, view, res>>

\* The counts are asked for again, whichever profile is shown by then.  The copies are
\* written before.
HistoryGone(q) ==
    /\ q.kind = "delete"
    /\ counts' = [counts EXCEPT ![q.pid].deletedAt = clock, ![q.pid].epoch = @ + 1]
    /\ Rendered(counts', [view EXCEPT !.reload = @ + 1, !.gone = [@ EXCEPT ![q.pid] = counts[q.pid].epoch + 1]],
                res, asks \ {q}, shown, [stCopy EXCEPT ![q.pid] = SettingsIn(counts[q.pid])])
    /\ UNCHANGED <<clock, stClicks, stFaults>>
-----------------------------------------------------------------------------
(* The answers *)

\* The server answers from what it had when it was asked, or has now.
Answered(q) ==
    /\ q.kind \in Resources
    /\ \E d \in {q.old, Answer(counts, q.kind, q.pid, q.range)} :
          Rendered(counts, view, [res EXCEPT ![q.kind] = Succeeded(@, q, d)], asks \ {q}, shown, stCopy)
    /\ OnPage /\ UNCHANGED stClicks

NotAnswered(q) ==
    /\ stFaults > 0 /\ stFaults' = stFaults - 1
    /\ Rendered(counts, view,
                IF q.kind \in Resources THEN [res EXCEPT ![q.kind] = Failed(@, q)] ELSE res,
                asks \ {q}, shown, stCopy)
    /\ UNCHANGED <<counts, clock, stClicks>>

\* The profile that was read again becomes the active one, also if the user has
\* switched to another one by then.
Revalidated(q) ==
    /\ q.kind = "profile"
    /\ Rendered(counts, view, res, asks \ {q}, q.pid, [stCopy EXCEPT ![q.pid] = SettingsIn(counts[q.pid])])
    /\ OnPage /\ UNCHANGED stClicks
-----------------------------------------------------------------------------
(* Quick rules, for one domain of the lists *)

OpenSheet ==
    /\ StatClick /\ Card("lists") = "list"
    /\ view' = [view EXCEPT !.sheet = TRUE]
    /\ OnPage /\ UNCHANGED <<stCopy, shown, res, asks>>

\* The sheet can be closed while its rule is being created.
CloseSheet ==
    /\ SheetShown
    /\ view' = [view EXCEPT !.sheet = FALSE]
    /\ OnPage /\ UNCHANGED <<stCopy, shown, res, asks, stClicks>>

SubmitRule ==
    /\ SheetShown /\ ~\E q \in asks : q.kind = "rule"
    /\ asks' = Ask(counts, asks, "rule", Null, shown, 1, FALSE)
    /\ OnPage /\ UNCHANGED <<stCopy, shown, view, res, stClicks>>

\* onCreated closes over the profile of its render.
AddedRule(q) == q.pid

\* A rule that exists already is not created again, and the sheet stays to say so.
RuleAnswered(q) ==
    /\ q.kind = "rule"
    /\ IF q.pid \in view.rules
       THEN Rendered(counts, view, res, asks \ {q}, shown, stCopy)
       ELSE Rendered(counts, [view EXCEPT !.rules = @ \cup {q.pid}, !.sheet = FALSE,
                                          !.tags = @ \cup {AddedRule(q)}],
                     res, asks \ {q}, q.pid, [stCopy EXCEPT ![q.pid] = SettingsIn(counts[q.pid])])
    /\ OnPage /\ UNCHANGED stClicks
-----------------------------------------------------------------------------
(* What happens by itself *)

\* The tab becomes visible again after more than five minutes: everything is asked for
\* silently.
BecomesVisible ==
    /\ stClicks > 0 /\ stClicks' = stClicks - 1
    /\ LET old == {k \in Resources : res[k].key # Null}
       IN /\ old # {}
          /\ asks' = asks \cup UNION {Ask(counts, asks, k, res[k].key, shown, ShownRange, TRUE) : k \in old}
    /\ OnPage /\ UNCHANGED <<stCopy, shown, view, res>>

\* The moment of the first counts has come: one silent refetch.
TimerFires ==
    /\ view.timer # Null /\ clock >= view.timer
    /\ view' = [view EXCEPT !.timer = Null]
    /\ asks' = IF res["stats"].key = Null THEN asks
               ELSE Ask(counts, asks, "stats", res["stats"].key, shown, ShownRange, TRUE)
    /\ OnPage /\ UNCHANGED <<stCopy, shown, res, stClicks>>

\* Timers run when they are due, and requests end between two moments of the clock.
Tick ==
    /\ asks = {} /\ (view.timer # Null => clock < view.timer)
    /\ clock < MaxClock /\ clock' = clock + 1
    /\ UNCHANGED <<counts, stCopy, shown, view, res, asks, stClicks, stFaults>>

OtherTabSets(p, s) ==
    /\ stFaults > 0 /\ stFaults' = stFaults - 1
    /\ counts' = [counts EXCEPT ![p] = Recounted(@, s)]
    /\ UNCHANGED <<stCopy, shown, view, res, asks, clock, stClicks>>

\* A page that is opened, with the view of a link or none; the module remembers the last
\* view and the domains with a rule.
PageOf(url, remembered, tags, rules, gone) ==
    [url |-> url, remembered |-> remembered, reload |-> 0, revalidated |-> Null,
     timer |-> Null, deps |-> Null, gate |-> Null, sheet |-> FALSE,
     tags |-> tags, rules |-> rules, gone |-> gone]

\* The page is left and opened again: its own answers are lost, the others are not.
Reopen ==
    /\ StatClick
    /\ Rendered(counts, PageOf(Null, view.remembered, view.tags, view.rules, view.gone),
                [k \in Resources |-> Idle],
                {q \in asks : q.kind \in {"profile", "rule"}}, shown, stCopy)
    /\ OnPage
-----------------------------------------------------------------------------
\* Settings with one change.
OneChange(s) ==
    {[s EXCEPT !.stats = ~@], [s EXCEPT !.logs = ~@], [s EXCEPT !.retention = 3 - @]}

StatisticsInit ==
    /\ counts = [p \in StatProfiles |-> NewCounts(p \in Busy)]
    /\ stCopy = [p \in StatProfiles |-> SettingsIn(counts[p])]
    /\ shown = Min(StatProfiles)
    /\ clock = 0
    /\ \E url \in {Min(Views), Max(Views)} :
          LET s == AfterRender(counts, PageOf(url, Null, {}, {}, [p \in StatProfiles |-> 0]),
                               [k \in Resources |-> Idle], {}, shown, stCopy[shown])
          IN view = s.w /\ res = s.rs /\ asks = s.asks
    /\ stClicks = MaxStatClicks /\ stFaults = MaxStatFaults

StatisticsNext ==
    \/ \E v \in Views : PickRange(v)
    \/ ShowLonger \/ ShowShorter \/ DeleteHistory \/ CloseGate
    \/ \E p \in StatProfiles : SwitchShown(p)
    \/ \E k \in Resources : Retry(k)
    \/ \E id \in Resources \cup {"retention"} : OpenGate(id)
    \/ \E s \in OneChange(Settings) : SaveCollection(s)
    \/ \E q \in asks : \/ Answered(q) \/ NotAnswered(q) \/ Revalidated(q)
                       \/ HistoryGone(q) \/ RuleAnswered(q)
    \/ OpenSheet \/ CloseSheet \/ SubmitRule
    \/ BecomesVisible \/ TimerFires \/ Tick \/ Reopen
    \/ \E p \in StatProfiles : \E s \in OneChange(SettingsIn(counts[p])) : OtherTabSets(p, s)

StatisticsSpec == StatisticsInit /\ [][StatisticsNext]_statVars
-----------------------------------------------------------------------------
Showing(k) == res[k].status = "ready" /\ ~res[k].refreshing

\* "Answers for a key that is no longer current are ignored": counts and lists that are
\* not marked as being refreshed are the shown profile's, of the view the picker names,
\* whatever was answered late.
ViewExact ==
    /\ \A k \in {"stats", "lists"} :
          Showing(k) => res[k].data.pid = shown /\ res[k].data.range = ShownRange
    /\ res["stats"].status = "ready" => res["stats"].data.pid = shown

\* A skeleton or a refresh mark never stays: the request it waits for is in flight, and
\* its failure would be shown.
NeverStuck ==
    \A k \in Resources :
        res[k].status = "loading" \/ res[k].refreshing =>
            \E q \in asks : q.kind = k /\ q.key = res[k].key /\ ~q.silent

\* "one silent refetch just after the first bucket flushes": once its moment has passed,
\* the page does not still say that nothing is counted while the server has counts, unless
\* a request failed or the counting was started over elsewhere.
FirstCountsShown ==
    LET due == FirstCountsDue(res, view, Settings) IN
    /\ Showing("stats") /\ stFaults = MaxStatFaults /\ asks = {}
    /\ res["stats"].data.epoch = counts[shown].epoch
    /\ due # Null /\ clock > due.refetch
    => ~Answer(counts, "stats", shown, ShownRange).total

=============================================================================
