--------------------------- MODULE QueryLogsPage ----------------------------
(***************************************************************************)
(* The query logs page (app/src/pages/logs/Logs.tsx) with its filters, its *)
(* device list and the quick rule sheet.  The list is read page by page as *)
(* the user scrolls; a new request of the list supersedes the one in       *)
(* flight, whose answer is dropped, so at most one counts: fetch.  The     *)
(* background tick of auto-refresh is a request of its own which nothing   *)
(* supersedes.  An effect runs in the step whose change it depends on.     *)
(*                                                                         *)
(* loading is fetch # Null.  What the page only displays (ages, spinners,  *)
(* the names of blocklists and services, which cards are open) is left     *)
(* out.                                                                    *)
(***************************************************************************)
EXTENDS QueryLogCards

CONSTANTS Mounted,     \* the profile that is active when the page is opened
          Off,         \* profiles whose query logs are off
          Restricted,  \* the subscription allows no new rules
          First,       \* FIRST_PAGE_LIMIT
          Limit,       \* QUERY_LIMIT
          MaxRows,     \* QUERY_MAX_ROWS
          Queries,     \* the filters the user can choose: a set of records
          MaxEvents,   \* bound: actions of the user that ask for rows or open the sheet,
                       \* and requests that fail
          MaxTicks,    \* bound: ticks of the auto-refresh interval
          MaxArrivals  \* bound: rows logged while the page is open

ASSUME PageLimits ==
    /\ {Limit, First, Window} \subseteq Nat \ {0}
    /\ First % Limit = 0 /\ First <= MaxRows
    /\ {MaxEvents, MaxTicks, MaxArrivals} \subseteq Nat

\* A profile's rows are numbered from 1.
ASSUME RowsNumbered ==
    Mounted \in DOMAIN Logged /\ \A p \in DOMAIN Logged : Len(Logged[p]) \in Nat

VARIABLES
    activePid,  \* the store's active profile
    listing,    \* the list and what belongs to it
    query,      \* the committed filters
    typed,      \* the search text that is not committed yet
    fetch,      \* the request of the list: [page, profile, query]
    tick,       \* the tick's request: [profile, query, rows, late]
    auto,       \* auto-refresh is on
    tabHidden,  \* the tab is hidden
    devices,    \* [server, observed, asked]: the device filter's sources
    sheet,      \* the quick rule sheet: [open, domain, action, error]
    submit,     \* the quick rule being sent: [profile, domain, action]
    quickRules, \* the server's quick rules
    arrived,    \* [profile |-> how many of its rows are logged]
    mixed,      \* the list or the staged rows do not all stem from one reading
    left        \* what is left of the bounds

listVars == <<listing, query, typed, fetch, mixed>>
sheetVars == <<sheet, submit, quickRules>>
vars == <<activePid, listing, query, typed, fetch, tick, auto, tabHidden, devices, sheet,
          submit, quickRules, arrived, mixed, left>>

ProfilesOf == DOMAIN Logged
LogsEnabled(p) == p \notin Off
Loading == fetch # Null

Use(bound) == left[bound] > 0 /\ left' = [left EXCEPT ![bound] = @ - 1]
-----------------------------------------------------------------------------
(* The server *)

Matches(q, r) ==
    /\ q.status = "all" \/ q.status = Entry(r).status
    /\ q.device = Null \/ q.device = Entry(r).device
    /\ q.timespan = "all" \/ ~Entry(r).old
    /\ q.search = Null \/ q.search = NormalizeDomain(Entry(r).domain)

\* Row m of a profile comes before row n: newest first, and so among equals when another
\* order than that of time is asked for.
Precedes(p, q, m, n) ==
    LET key(k) == IF q.sort = "created" THEN 0 ELSE Entry(<<p, k>>).order
    IN key(m) < key(n) \/ (key(m) = key(n) /\ m > n)

\* The rows the server has for a query, and the place of one in its answer.
Found(p, q) == {n \in 1 .. arrived[p] : Matches(q, <<p, n>>)}
PlaceOf(p, q, n) == Cardinality({m \in Found(p, q) : m = n \/ Precedes(p, q, m, n)})

Served(p, q) ==
    [k \in 1 .. Cardinality(Found(p, q)) |-> <<p, CHOOSE n \in Found(p, q) : PlaceOf(p, q, n) = k>>]

DevicesOf(p) == {Logged[p][n].device : n \in 1 .. arrived[p]}
-----------------------------------------------------------------------------
(* Requests of the list *)

LimitOf(page) == IF page = 1 THEN First ELSE Limit
\* Mutant: the second page is counted as if the first had been skipped already.
OffsetPast(page) == IF page = 1 THEN 0 ELSE First + (page - 1) * Limit

Offset(page) == IF page = 1 THEN 0 ELSE First + (page - 2) * Limit
ServerPage(page) == Offset(page) \div LimitOf(page) + 1
NextPageEnd(page) == Offset(page) + LimitOf(page) + Limit

Request(page, p, q) == [page |-> page, profile |-> p, query |-> q]

\* The server skips (page - 1) * limit rows.
PageRows(f) ==
    LET rows == Served(f.profile, f.query)
        skip == (ServerPage(f.page) - 1) * LimitOf(f.page)
    IN SubSeq(rows, skip + 1, Min({skip + LimitOf(f.page), Len(rows)}))

NewView == [logs |-> <<>>, page |-> 1, hasMore |-> TRUE, capped |-> FALSE, error |-> FALSE,
            pending |-> <<>>, overflow |-> FALSE]

NoDevices == [server |-> {}, observed |-> {}, asked |-> Null]

\* The effect that loads the list, run again: a request for the page the view is at.
Fetch(v, p, q) == listing' = [v EXCEPT !.error = FALSE] /\ fetch' = Request(v.page, p, q)
-----------------------------------------------------------------------------
(* Paging *)

\* The observer of the last card is disconnected while the list is loading.
SentinelSees == ~Loading /\ listing.hasMore

NextPage ==
    /\ LogsEnabled(activePid) /\ listing.logs # <<>> /\ SentinelSees
    /\ Fetch([listing EXCEPT !.page = @ + 1], activePid, query)
    /\ UNCHANGED <<activePid, query, typed, tick, auto, tabHidden, devices, sheetVars,
                   arrived, mixed, left>>

More(full, page) == full /\ NextPageEnd(page) <= MaxRows

\* The first page replaces the list, the others are appended to it.
Loaded(v, page, rows) ==
    LET full == Len(rows) = LimitOf(page)
    IN [v EXCEPT !.logs = IF page = 1 THEN rows ELSE @ \o rows,
                 !.hasMore = More(full, page),
                 !.capped = full /\ NextPageEnd(page) > MaxRows]

\* Row devices join the device filter.
Observed(rows) == {Entry(rows[i]).device : i \in DOMAIN rows}

\* So many queries were logged since the list was read that a later page is newer than
\* it: pages are counted from the newest row.
Overtaken(rows) ==
    \E r \in RowsOf(rows) : \A s \in RowsOf(listing.logs) : s[1] = r[1] => r[2] > s[2]

ListAnswered ==
    /\ Loading
    /\ LET rows == PageRows(fetch)
       IN /\ listing' = Loaded(listing, fetch.page, rows)
          /\ devices' = [devices EXCEPT !.observed = @ \cup Observed(rows)]
          /\ mixed' = IF fetch.page = 1 THEN listing.pending # <<>> ELSE mixed \/ Overtaken(rows)
    /\ fetch' = Null
    /\ tick' = IF tick # Null /\ fetch.page = 1 THEN [tick EXCEPT !.late = TRUE] ELSE tick
    /\ UNCHANGED <<activePid, query, typed, auto, tabHidden, sheetVars, arrived, left>>

\* A 403 (the account is cut off) and an answer that is not 200 leave no error.
ListFailed ==
    /\ Loading /\ Use("events")
    /\ \E told \in BOOLEAN : listing' = [listing EXCEPT !.hasMore = FALSE, !.error = told]
    /\ fetch' = Null
    /\ UNCHANGED <<activePid, query, typed, tick, auto, tabHidden, devices, sheetVars,
                   arrived, mixed>>
-----------------------------------------------------------------------------
(* Filters *)

\* The effect of a change of the committed filters; the effect that loads the list
\* runs with it, and again when the page is back to 1.
CommitFilters(q) ==
    \/ q = query /\ UNCHANGED <<listing, query, fetch, mixed>>
    \/ /\ q # query /\ query' = q
       /\ Fetch(NewView, activePid, q)
       /\ mixed' = FALSE

Filtered(q) ==
    /\ q # query /\ q \in Queries /\ Use("events") /\ CommitFilters(q)
    /\ UNCHANGED <<activePid, tick, auto, tabHidden, devices, sheetVars, arrived>>

AvailableDevices == devices.server \cup devices.observed \cup ({query.device} \ {Null})

OnFilterChange(status) == Filtered([query EXCEPT !.status = status]) /\ UNCHANGED typed

OnDeviceIdChange(dev) ==
    /\ dev = Null \/ dev \in AvailableDevices
    /\ Filtered([query EXCEPT !.device = dev])
    /\ UNCHANGED typed

OnSortChange(sort) == Filtered([query EXCEPT !.sort = sort]) /\ UNCHANGED typed

OnTimespanChange(span) == Filtered([query EXCEPT !.timespan = span]) /\ UNCHANGED typed

OnSearchInputChange(text) ==
    /\ typed # text /\ Use("events") /\ typed' = text
    /\ UNCHANGED <<activePid, listing, query, fetch, tick, auto, tabHidden, devices,
                   sheetVars, arrived, mixed>>

\* Enter, or half a second without typing.
CommitSearch ==
    /\ typed # query.search /\ [query EXCEPT !.search = typed] \in Queries
    /\ CommitFilters([query EXCEPT !.search = typed])
    /\ UNCHANGED <<activePid, typed, tick, auto, tabHidden, devices, sheetVars, arrived,
                   left>>

SearchClearShown == typed # Null

\* The button in the search field.
HandleSearchClear ==
    /\ SearchClearShown
    /\ typed' = Null /\ Use("events") /\ CommitFilters([query EXCEPT !.search = Null])
    /\ UNCHANGED <<activePid, tick, auto, tabHidden, devices, sheetVars, arrived>>

DefaultQuery == [status |-> "all", device |-> Null, sort |-> "created", timespan |-> "all",
                 search |-> Null]

AnyActive == query # DefaultQuery

HandleClearFilters == AnyActive /\ typed' = Null /\ Filtered(DefaultQuery)

\* What the bar above the list offers.
FilterBar ==
    \/ \E value \in {q.status : q \in Queries} : OnFilterChange(value)
    \/ \E value \in {q.device : q \in Queries} : OnDeviceIdChange(value)
    \/ \E value \in {q.sort : q \in Queries} : OnSortChange(value)
    \/ \E value \in {q.timespan : q \in Queries} : OnTimespanChange(value)
    \/ \E value \in {q.search : q \in Queries} : OnSearchInputChange(value)
    \/ HandleSearchClear \/ HandleClearFilters
-----------------------------------------------------------------------------
(* Refresh and auto-refresh *)

Refreshed(v) == [v EXCEPT !.page = 1, !.pending = <<>>, !.overflow = FALSE]

AskDevices(d, p) == [d EXCEPT !.asked = p]

HandleRefresh ==
    /\ Fetch(Refreshed(listing), activePid, query)
    /\ devices' = AskDevices(devices, activePid)
    /\ UNCHANGED <<activePid, query, typed, tick, sheetVars, arrived, mixed>>

\* The refresh button, also while the list is loading, and the error card's "Try again".
HandleManualRefresh == Use("events") /\ UNCHANGED <<auto, tabHidden>> /\ HandleRefresh

\* Pulling the list down on a small screen.
HandleTouchEnd == ~Loading /\ HandleManualRefresh

\* Only the order of time has a place for new rows.
RunBackgroundTick ==
    IF tabHidden' \/ ~LogsEnabled(activePid) \/ Loading \/ tick # Null
    THEN UNCHANGED <<activePid, listVars, tick, devices, sheetVars, arrived>>
    ELSE IF query.sort # "created" THEN HandleRefresh
    ELSE /\ tick' = [profile |-> activePid, query |-> query, rows |-> Null, late |-> FALSE]
         /\ UNCHANGED <<activePid, listVars, devices, sheetVars, arrived>>

IntervalTick == auto /\ Use("ticks") /\ UNCHANGED <<auto, tabHidden>> /\ RunBackgroundTick

OnVisibilityChange ==
    /\ Use("events") /\ tabHidden' = ~tabHidden /\ UNCHANGED auto
    /\ IF auto /\ ~tabHidden' THEN RunBackgroundTick
       ELSE UNCHANGED <<activePid, listVars, tick, devices, sheetVars, arrived>>

HandleRefreshIntervalChange ==
    /\ Use("events") /\ auto' = ~auto /\ UNCHANGED tabHidden
    /\ IF auto'
       THEN RunBackgroundTick
       ELSE /\ listing' = [listing EXCEPT !.pending = <<>>, !.overflow = FALSE]
            /\ UNCHANGED <<activePid, query, typed, fetch, tick, devices, sheetVars,
                           arrived, mixed>>

ServeTick ==
    /\ tick # Null /\ tick.rows = Null
    /\ tick' = [tick EXCEPT !.rows = PageRows(Request(1, tick.profile, tick.query))]
    /\ UNCHANGED <<activePid, listVars, auto, tabHidden, devices, sheetVars, arrived, left>>

\* Mutant: a page that shares nothing with the list is staged like any other.
StagedRowsWithoutGap(v, fetched) ==
    LET diff == ComputeNewQueryLogs(fetched, v.logs)
    IN [v EXCEPT !.pending = diff.rows, !.overflow = FALSE]

\* Nothing on screen: the rows are shown at once.  Otherwise they wait behind the
\* pill; a full page that shares nothing with the list would leave a gap.
StagedRows(v, fetched) ==
    LET diff == ComputeNewQueryLogs(fetched, v.logs)
    IN IF v.logs = <<>>
       THEN [v EXCEPT !.logs = fetched, !.hasMore = Len(fetched) = First, !.capped = FALSE,
                      !.pending = <<>>, !.overflow = FALSE]
       ELSE [v EXCEPT !.pending = diff.rows,
                      !.overflow = ~diff.overlap /\ Len(fetched) = First]

TickAnswered ==
    /\ tick # Null /\ tick.rows # Null
    /\ listing' = StagedRows(listing, tick.rows)
    /\ tick' = Null
    /\ mixed' = (mixed \/ tick.late \/ tick.query # query \/ tick.profile # activePid)
    /\ UNCHANGED <<activePid, query, typed, fetch, auto, tabHidden, devices, sheetVars,
                   arrived, left>>

\* A tick fails silently.
TickFailed ==
    /\ tick # Null /\ Use("events") /\ tick' = Null
    /\ UNCHANGED <<activePid, listVars, auto, tabHidden, devices, sheetVars, arrived>>

\* The refresh button and the menu of intervals beside it.
RefreshControls == HandleManualRefresh \/ HandleRefreshIntervalChange

PillShown == listing.pending # <<>>

HandleShowPending ==
    /\ PillShown /\ Use("events") /\ UNCHANGED <<auto, tabHidden>>
    /\ IF listing.overflow THEN HandleRefresh
       ELSE /\ listing' = [listing EXCEPT !.logs = listing.pending \o @, !.pending = <<>>]
            /\ UNCHANGED <<activePid, query, typed, fetch, tick, devices, sheetVars, arrived,
                           mixed>>
-----------------------------------------------------------------------------
(* The active profile and the device list *)

\* The effect of another profile; the list and its page stay.
ProfileReset(v) == [v EXCEPT !.pending = <<>>, !.overflow = FALSE]

\* The old profile's devices are dropped with the request for them.
DevicesReset(d, p) == [server |-> {}, observed |-> {}, asked |-> p]

\* setActiveProfile with another profile, or with a new copy of the active one: the
\* list is loaded again, at the page it is at.
ActivateProfile(p) ==
    /\ activePid' = p
    /\ Fetch(IF p = activePid THEN listing ELSE ProfileReset(listing), p, query)
    /\ devices' = IF p = activePid THEN devices ELSE DevicesReset(devices, p)
    /\ mixed' = (mixed \/ p # activePid)
    /\ UNCHANGED <<query, typed, tick, auto, tabHidden, arrived>>

ClosedSheet == [open |-> FALSE, domain |-> Null, action |-> "denylist", error |-> FALSE]

\* From the menu of the header.
SwitchProfile(p) ==
    /\ p # activePid /\ Use("events") /\ ActivateProfile(p)
    /\ sheet' = ClosedSheet
    /\ UNCHANGED <<submit, quickRules>>

\* A failure keeps the list; the devices seen in rows remain.
DevicesAnswered ==
    /\ devices.asked # Null
    /\ \/ /\ devices' = [devices EXCEPT !.server = DevicesOf(devices.asked), !.asked = Null]
          /\ UNCHANGED left
       \/ devices' = [devices EXCEPT !.asked = Null] /\ Use("events")
    /\ UNCHANGED <<activePid, listVars, tick, auto, tabHidden, sheetVars, arrived>>
-----------------------------------------------------------------------------
(* Cards and the quick rule sheet *)

DisplayGroups == IF query.sort = "created" THEN ConsolidateLogs(listing.logs)
                 ELSE ToSingletonGroups(listing.logs)

Cards == IF LogsEnabled(activePid) THEN RowsOf(DisplayGroups) ELSE {}

\* What the sheet's effect sets when it opens.
OpenedSheet(domain, action) ==
    [open |-> TRUE, domain |-> domain, action |-> action, error |-> FALSE]

HandleOpenQuickRule ==
    /\ ~sheet.open /\ ~Restricted /\ Use("events")
    /\ \E g \in Cards :
          /\ QuickRuleAvailable(g)
          /\ sheet' = OpenedSheet(NormalizeDomain(Entry(Head(g)).domain), DefaultAction(g))
    /\ UNCHANGED <<activePid, listVars, tick, auto, tabHidden, devices, submit, quickRules,
                   arrived>>

\* The request goes on when the sheet is closed.
HandleQuickRuleSheetChange ==
    /\ sheet.open /\ sheet' = ClosedSheet
    /\ UNCHANGED <<activePid, listVars, tick, auto, tabHidden, devices, submit, quickRules,
                   arrived, left>>

\* The buttons of the sheet, the arrows and the letters b, d and a.
HandleActionKeyDown ==
    /\ sheet.open
    /\ \E action \in {"denylist", "allowlist"} \ {sheet.action} :
          sheet' = [sheet EXCEPT !.action = action]
    /\ UNCHANGED <<activePid, listVars, tick, auto, tabHidden, devices, submit, quickRules,
                   arrived, left>>

Disabled == sheet.domain = Null \/ submit # Null

HandleSubmitRule ==
    /\ sheet.open /\ ~Disabled
    /\ submit' = [profile |-> activePid, domain |-> sheet.domain, action |-> sheet.action]
    /\ sheet' = [sheet EXCEPT !.error = FALSE]
    /\ UNCHANGED <<activePid, listVars, tick, auto, tabHidden, devices, quickRules, arrived,
                   left>>

\* The rule was created and the profile read back: it becomes the active one.
RuleCreated ==
    /\ submit # Null
    /\ <<submit.profile, submit.domain>> \notin quickRules
    /\ quickRules' = quickRules \cup {<<submit.profile, submit.domain>>}
    /\ ActivateProfile(submit.profile)
    /\ sheet' = ClosedSheet /\ submit' = Null
    /\ UNCHANGED left

\* The server skips a value that has a rule.
RuleSkipped ==
    /\ submit # Null /\ <<submit.profile, submit.domain>> \in quickRules
    /\ sheet' = [sheet EXCEPT !.error = TRUE] /\ submit' = Null
    /\ UNCHANGED <<activePid, listVars, tick, auto, tabHidden, devices, quickRules, arrived,
                   left>>

\* The request, or the reading back after it, fails.
RuleFailed ==
    /\ submit # Null /\ Use("events")
    /\ quickRules' \in {quickRules, quickRules \cup {<<submit.profile, submit.domain>>}}
    /\ submit' = Null
    /\ UNCHANGED <<activePid, listVars, tick, auto, tabHidden, devices, sheet, arrived>>
-----------------------------------------------------------------------------
\* A query of the active profile is logged.
Arrive ==
    /\ arrived[activePid] < Len(Logged[activePid]) /\ Use("arrivals")
    /\ arrived' = [arrived EXCEPT ![activePid] = @ + 1]
    /\ UNCHANGED <<activePid, listVars, tick, auto, tabHidden, devices, sheetVars>>

\* The page is opened, and auto-refresh turned on while the first page is loading.
Init ==
    /\ activePid = Mounted
    /\ query = DefaultQuery /\ typed = Null
    /\ listing = NewView /\ fetch = Request(1, activePid, DefaultQuery)
    /\ tick = Null /\ auto = TRUE /\ tabHidden = FALSE
    /\ devices = AskDevices(NoDevices, activePid)
    /\ sheet = ClosedSheet /\ submit = Null /\ quickRules = {}
    /\ arrived = [p \in ProfilesOf |-> Len(Logged[p]) - MaxArrivals]
    /\ mixed = FALSE
    /\ left = [events |-> MaxEvents, ticks |-> MaxTicks, arrivals |-> MaxArrivals]

Next ==
    \/ NextPage \/ ListAnswered \/ ListFailed
    \/ FilterBar \/ CommitSearch
    \/ RefreshControls \/ HandleTouchEnd \/ IntervalTick \/ OnVisibilityChange
    \/ ServeTick \/ TickAnswered \/ TickFailed
    \/ HandleShowPending
    \/ \E p \in ProfilesOf : SwitchProfile(p)
    \/ Arrive
    \/ DevicesAnswered
    \/ HandleOpenQuickRule \/ HandleQuickRuleSheetChange \/ HandleActionKeyDown \/ HandleSubmitRule
    \/ RuleCreated \/ RuleSkipped \/ RuleFailed

Spec == Init /\ [][Next]_vars
-----------------------------------------------------------------------------
(* Properties *)

\* The rows between the oldest and the newest of S that the server has for the query.
Whole(S) ==
    /\ \A r \in S : r[1] = activePid /\ Matches(query, r)
    /\ \A n \in 1 .. arrived[activePid] :
          (/\ Matches(query, <<activePid, n>>)
           /\ \E r \in S : r[2] <= n
           /\ \E r \in S : n <= r[2]) => <<activePid, n>> \in S

\* In the order of time the list has no hole: paging while queries are being logged,
\* refreshing, merging staged rows and adding rules (which load the page again) never
\* skip a row.
NoGap == (~mixed /\ query.sort = "created") => Whole(RowsOf(listing.logs))

\* The staged rows are exactly what the pill says: rows newer than the list that
\* continue it without a hole, none of them shown already.
PillExact ==
    (~mixed /\ listing.pending # <<>> /\ ~listing.overflow) =>
        /\ RowsOf(listing.pending) \cap RowsOf(listing.logs) = {}
        /\ \A r \in RowsOf(listing.pending), s \in RowsOf(listing.logs) : r[2] > s[2]
        /\ Whole(RowsOf(listing.pending) \cup RowsOf(listing.logs))

\* Nothing is in flight and the sheet is closed.
AtRest == ~Loading /\ tick = Null /\ submit = Null /\ devices.asked = Null /\ ~sheet.open

RunsExact(logs) ==
    LET groups == ConsolidateLogs(logs)
    IN /\ FlattenSeq(groups) = logs
       /\ \A i \in DOMAIN groups : \A a \in RowsOf(groups[i]) :
             /\ Entry(a).status = Entry(groups[i][1]).status
             /\ Entry(a).device = Entry(groups[i][1]).device
             /\ Entry(a).domain.name = Entry(groups[i][1]).domain.name
             /\ a # groups[i][1] => WithinSpan(Entry(groups[i][1]).time, Entry(a).time)
       /\ \A i \in 2 .. Len(groups) : ~Extends(groups[i - 1], groups[i][1])

\* At rest the cards are the list cut into runs: nothing lost or
\* reordered, every run of one signature and no longer than the span, and no two
\* neighbours that belong together, also across the pages the rows came from.
GroupsExact == AtRest => RunsExact(listing.logs)

CardHolds(g) ==
    LET chips == FormatReasons(Reasons(g))
        marked == {chips[i].kind : i \in {j \in DOMAIN chips : "cname" \in chips[j].qualifiers}}
    IN /\ \A r \in RowsOf(g) : (Entry(r).status = "blocked") <=> IsBlocked(g)
       /\ (\E r \in RowsOf(g) : Entry(r).outcome \in UnansweredOutcomes)
          => IsBlocked(g) \/ IsUnanswered(g)
       /\ \A i, j \in DOMAIN chips : chips[i] = chips[j] => i = j
       /\ (marked # {}) <=> \E r \in RowsOf(g) : Given(Entry(r).reasons, "cname")
       /\ Cardinality(marked) <= 1
       /\ \A r \in RowsOf(g) : Entry(r).outcome \in FailureOutcomes =>
             [type |-> Entry(r).type, label |-> Entry(r).outcome, failure |-> TRUE]
                 \in RowsOf(OutcomePairs(g))
       /\ \A r \in RowsOf(g) : \A i \in DOMAIN Entry(r).reasons :
             Entry(r).reasons[i].id # Null =>
                 \E j \in DOMAIN chips : /\ chips[j].kind = Entry(r).reasons[i].kind
                                         /\ chips[j].id = Entry(r).reasons[i].id

\* At rest what each card says holds of all its members: "Blocked" of
\* every one, "No answer" if one went unanswered, every failed query and
\* every named reason on a chip, and a followed CNAME on exactly one kind of chip.
CardTruth == AtRest => \A g \in Cards : CardHolds(g)

=============================================================================
