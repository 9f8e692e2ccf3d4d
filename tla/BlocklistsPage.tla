--------------------------- MODULE BlocklistsPage ---------------------------
(***************************************************************************)
(* The blocklists page (app/src/pages/blocklists): its four tabs, the      *)
(* switches of single lists and services, the bulk toggles, the range card *)
(* of the newly registered domains lists and the rebinding protection.     *)
(* Services are entries of the catalog of kind "service".                  *)
(***************************************************************************)
EXTENDS AppPages

CONSTANTS Catalog,   \* [id, kind, group]: every list and service
          NrdGroup   \* the ids of the newly registered domains lists, shortest first

\* Each list has one place in the range.
ASSUME RangeAssumption ==
    /\ Len(NrdGroup) \in Nat /\ DOMAIN NrdGroup = 1 .. Len(NrdGroup)
    /\ \A i, j \in DOMAIN NrdGroup : NrdGroup[i] = NrdGroup[j] => i = j

BlocklistsInit(st) ==
    [name |-> "blocklists", profile |-> st.activeProfile.id,
     prefs |-> [open |-> FALSE, fetch |-> FALSE, value |-> FALSE], tab |-> "blocklists", filter |-> "all", loading |-> TRUE,
     lists |-> {}, services |-> {}, updating |-> Null, serviceUpdating |-> Null,
     rebindingUpdating |-> FALSE, servicesLoading |-> FALSE,
     expanded |-> Null, nativeExpanded |-> FALSE, serviceFilter |-> "all"]

\* Lists tagged native are grouped into a card of their own; a status filter shows it
\* when one of them has the status, a filter by tag never.
NativeIn(p) == {b \in p.lists : b.kind = "general" /\ b.group = "native"}
NativeCardVisible(p, enabled) ==
    \E b \in NativeIn(p) :
        CASE p.filter = "all" -> TRUE
          [] p.filter = "enabled" -> b.id \in enabled
          [] p.filter = "disabled" -> b.id \notin enabled
          [] OTHER -> FALSE

\* The preferences dialog reads the profile again when another one is active; the native
\* card collapses when it disappears.
BlocklistsEffects(p, st) ==
    IF st.activeProfile = Null THEN p
    ELSE LET q == [p EXCEPT !.nativeExpanded = @ /\ NativeCardVisible(p, st.activeProfile.lists)]
         IN IF st.activeProfile.id = p.profile THEN q
            ELSE [q EXCEPT !.profile = st.activeProfile.id, !.prefs.fetch = @ \/ p.prefs.open]

Enabled == Active.lists

\* What a tab shows.
Regular == {b \in page.lists : b.kind = "general" /\ b.group # "native"}
NativeItems ==
    IF ~page.loading /\ NativeCardVisible(page, Enabled) THEN NativeIn(page) ELSE {}
CategoryItems(g) == {b \in page.lists : b.kind = "category" /\ b.group = g}
SecurityItems == {b \in page.lists : b.kind = "security" /\ b.id \notin ToSet(NrdGroup)}
Ids(items) == {b.id : b \in items}

\* filteredBlocklists; "basic" stands for the filters that compare a tag.
Listed ==
    {b \in Regular :
        CASE page.filter = "all" -> TRUE
          [] page.filter = "enabled" -> b.id \in Enabled
          [] page.filter = "disabled" -> b.id \notin Enabled
          [] OTHER -> b.group = page.filter}

\* The cards of categories, skeletons while the catalog is being fetched.
CategoryCards ==
    IF page.loading \/ page.tab # "categories" THEN {}
    ELSE {b.group : b \in {x \in page.lists : x.kind = "category"}}

\* The switches in the panel of the expanded card.
ExpandedItems ==
    IF page.expanded \in CategoryCards THEN CategoryItems(page.expanded) ELSE {}

\* The switches a tab shows.
Switches ==
    IF page.loading THEN {}
    ELSE CASE page.tab = "blocklists" -> Ids(Listed \cup IF page.nativeExpanded THEN NativeItems ELSE {})
           [] page.tab = "security" -> Ids(SecurityItems)
           [] page.tab = "categories" -> Ids(ExpandedItems)
           [] OTHER -> {}

\* filteredServices.
FilteredServices ==
    {b \in page.services :
        CASE page.serviceFilter = "all" -> TRUE
          [] page.serviceFilter = "blocked" -> b.id \in Enabled
          [] OTHER -> b.id \notin Enabled}

\* The cards of the services tab; a card that no longer matches the filter goes.
ServiceCards == IF page.servicesLoading THEN {} ELSE Ids(FilteredServices)

Toggle(ids, enable) ==
    [do |-> IF enable THEN "enable" ELSE "disable", arg |-> ids]
-----------------------------------------------------------------------------
(* The catalog.  A fetch that a newer one replaced is ignored. *)

AllLists == {b \in Catalog : b.kind # "service"}

CatalogArrives ==
    /\ page.name = "blocklists" /\ page.loading
    /\ \/ page' = BlocklistsEffects([page EXCEPT !.loading = FALSE,
                                                !.lists = AllLists], store)
          /\ UNCHANGED faults
       \/ faults > 0 /\ faults' = faults - 1
          /\ page' = BlocklistsEffects([page EXCEPT !.loading = FALSE, !.lists = {}], store)
    /\ UNCHANGED <<store, calls, answers, db, behind, clicks>>

\* fetchCatalog of the services section.
ServicesArrive ==
    /\ page.name = "blocklists" /\ page.servicesLoading
    /\ \/ page' = [page EXCEPT !.servicesLoading = FALSE,
                               !.services = {b \in Catalog : b.kind = "service"}]
          /\ UNCHANGED faults
       \/ faults > 0 /\ faults' = faults - 1
          /\ page' = [page EXCEPT !.servicesLoading = FALSE]
    /\ UNCHANGED <<store, calls, answers, db, behind, clicks>>

SortBy ==
    /\ Click("blocklists") /\ page.tab = "blocklists" /\ ~page.loading
    /\ Local([page EXCEPT !.loading = TRUE])

FilterBy(f) ==
    /\ Click("blocklists") /\ page.tab = "blocklists" /\ f # page.filter
    /\ Local(BlocklistsEffects([page EXCEPT !.filter = f], store))

\* The buttons of the services tab.
FilterServices(f) ==
    /\ Click("blocklists") /\ page.tab = "services"
    /\ ~page.servicesLoading /\ page.services # {} /\ f # page.serviceFilter
    /\ Local([page EXCEPT !.serviceFilter = f])

\* One category is expanded at a time.
ExpandCategory(g) ==
    /\ Click("blocklists") /\ g \in CategoryCards
    /\ Local([page EXCEPT !.expanded = IF @ = g THEN Null ELSE g])

ExpandNative ==
    /\ Click("blocklists") /\ page.tab = "blocklists" /\ NativeItems # {}
    /\ Local([page EXCEPT !.nativeExpanded = ~@])

\* A handler of the services section when that is gone.
ServiceGone(c) == IF c.kind = "service" THEN [c EXCEPT !.mine = FALSE] ELSE c

\* The tabs of services and categories mount a section of their own, with its own fetch
\* and flag or its own expanded card.
OpenTab(t) ==
    /\ Click("blocklists") /\ t # page.tab
    /\ page' = [page EXCEPT !.tab = t, !.serviceUpdating = Null,
                            !.services = {}, !.servicesLoading = (t = "services"),
                            !.serviceFilter = "all", !.expanded = Null]
    /\ calls' = {ServiceGone(c) : c \in calls}
    /\ answers' = [i \in DOMAIN answers |-> [answers[i] EXCEPT !.call = ServiceGone(@)]]
    /\ UNCHANGED <<store, db, behind, faults>>
-----------------------------------------------------------------------------
(* The handlers *)

Free == ~IsRestricted(store) /\ ~page.prefs.open

\* The tiers among these lists, shortest window first: at place k the one that has k of
\* them up to itself.
TiersAt(items) == {i \in DOMAIN NrdGroup : NrdGroup[i] \in Ids(items)}
UpTo(items, i) == {j \in TiersAt(items) : j <= i}
Tiers(items) ==
    [k \in 1 .. Cardinality(TiersAt(items)) |->
        NrdGroup[CHOOSE i \in TiersAt(items) : Cardinality(UpTo(items, i)) = k]]

OrderedNrdItems == Tiers(page.lists)

\* What disables the cards of lists, categories, services and the range.
CardFree(l) == page.updating # l /\ Free
CategoryFree == page.updating = Null /\ Free
ServiceFree(s) == page.serviceUpdating # s /\ Free
RangeFree == OrderedNrdItems # <<>> /\ ~page.loading /\ page.updating = Null /\ Free

\* The steps of the range: off, and one per tier.
RangeSteps == 0 .. Len(OrderedNrdItems)

\* handleBlocklistSwitch: the flag names one list, so a second switch takes it over
\* from the first.
BlocklistSwitch(l) ==
    /\ Click("blocklists") /\ l \in Switches
    /\ CardFree(l)
    /\ Start(Handler("switch", <<Toggle({l}, l \notin Enabled)>>, FALSE, Null),
             [page EXCEPT !.updating = l])

\* handleCategoryToggle: a category, or the native group, is enabled when none of
\* it is, otherwise disabled; only the lists that change are sent.
CategoryToggle(items) ==
    LET enable == Ids(items) \cap Enabled = {}
        ids == IF enable THEN Ids(items) ELSE Ids(items) \cap Enabled
    IN /\ Click("blocklists") /\ items # {} /\ ~page.loading /\ CategoryFree
       /\ Start(Handler("category", <<Toggle(ids, enable)>>, FALSE, Null),
                [page EXCEPT !.updating = "category"])

\* The native card counts the enabled lists of its group, a category its own.
ToggleNative ==
    page.name = "blocklists" /\ page.tab = "blocklists" /\ CategoryToggle(NativeItems)
ToggleCategory(g) ==
    page.name = "blocklists" /\ g \in CategoryCards /\ CategoryToggle(CategoryItems(g))

\* handleToggleListed.
ToggleListed ==
    /\ Click("blocklists") /\ page.tab = "blocklists"
    /\ page.filter # "all" /\ Listed # {}
    /\ page.updating # "all" /\ Free
    /\ Start(Handler("all",
                     <<IF Ids(Listed) \subseteq Enabled THEN Toggle(Ids(Listed), FALSE)
                       ELSE Toggle(Ids(Listed) \ Enabled, TRUE)>>, FALSE, Null),
             [page EXCEPT !.updating = "all"])

\* The highest enabled tier, 0 for off.
NrdDepthFromEnabled(ordered, enabled) ==
    Max({0} \cup {i \in DOMAIN ordered : ordered[i] \in enabled})

\* Mutant: only the tier above the chosen depth is disabled.
NrdDepthTargetsNext(ordered, depth) ==
    [enable |-> {ordered[i] : i \in 1 .. depth},
     disable |-> {ordered[i] : i \in {depth + 1} \cap DOMAIN ordered}]

NrdDepthTargets(ordered, depth) ==
    [enable |-> {ordered[i] : i \in 1 .. depth},
     disable |-> {ordered[i] : i \in (depth + 1) .. Len(ordered)}]

\* handleApplyBlocklistSet: two requests, each only if it has something to change.
ApplyBlocklistSet(depth) ==
    LET ordered == OrderedNrdItems
        target == NrdDepthTargets(ordered, depth)
        toEnable == target.enable \ Enabled
        toDisable == target.disable \cap Enabled
    IN /\ Click("blocklists") /\ page.tab = "security"
       /\ RangeFree /\ depth \in RangeSteps
       /\ depth # NrdDepthFromEnabled(ordered, Enabled)
       /\ toEnable \cup toDisable # {}
       /\ Start(Handler("nrd",
                        (IF toEnable = {} THEN <<>> ELSE <<Toggle(toEnable, TRUE)>>)
                        \o (IF toDisable = {} THEN <<>> ELSE <<Toggle(toDisable, FALSE)>>),
                        FALSE, depth),
                [page EXCEPT !.updating = "nrd"])

\* handleRebindingToggle.
RebindingToggle ==
    /\ Click("blocklists") /\ page.tab = "security" /\ ~page.loading
    /\ ~page.rebindingUpdating /\ Free
    /\ Start(Handler("rebinding",
                     <<[do |-> "patch", field |-> "rebinding",
                        arg |-> ~Active.settings.rebinding]>>, FALSE, Null),
             [page EXCEPT !.rebindingUpdating = TRUE])

\* handleServiceSwitch.
ServiceSwitch(s) ==
    /\ Click("blocklists") /\ page.tab = "services" /\ s \in ServiceCards
    /\ ServiceFree(s)
    /\ Start(Handler("service", <<Toggle({s}, s \notin Enabled)>>, FALSE, Null),
             [page EXCEPT !.serviceUpdating = s])

\* The preferences dialog: its effect reads the profile, its switch shows what was read.
OpenPrefs(open) ==
    /\ Click("blocklists") /\ ~IsRestricted(store) /\ page.prefs.open # open
    /\ Local([page EXCEPT !.prefs.open = open, !.prefs.fetch = open])

FetchPrefs ==
    /\ page.name = "blocklists" /\ page.prefs.fetch /\ Active # Null
    /\ Start(Handler("readPrefs", <<>>, FALSE, Null), [page EXCEPT !.prefs.fetch = FALSE])
    /\ UNCHANGED clicks

PrefsArrive(i) ==
    /\ answers[i].call.kind = "readPrefs"
    /\ answers' = RemoveAt(answers, i)
    /\ page' = IF answers[i].call.mine
               THEN [page EXCEPT !.prefs.value = answers[i].list[1].settings["defaultRule"]] ELSE page
    /\ UNCHANGED <<store, calls, db, behind, clicks, faults>>

\* handleProfileSettingChange.
ChangePrefs(v) ==
    /\ Click("blocklists") /\ page.prefs.open /\ v # page.prefs.value
    /\ Start(Handler("prefs", <<[do |-> "patch", field |-> "defaultRule", arg |-> v]>>, FALSE, Null), page)

PrefsSaved(c) ==
    /\ c.kind = "prefs"
    /\ Saved(c, IF c.mine THEN [page EXCEPT !.prefs.value = Head(c.ops).arg] ELSE page)

\* What the finally of each handler leaves.
AfterBlocklists(c, p) ==
    CASE c.kind \in {"switch", "category", "all", "nrd"} -> [p EXCEPT !.updating = Null]
      [] c.kind = "rebinding" -> [p EXCEPT !.rebindingUpdating = FALSE]
      [] c.kind = "service" -> [p EXCEPT !.serviceUpdating = Null]
      [] OTHER -> p

BlocklistsNext ==
    \/ CatalogArrives \/ ServicesArrive \/ SortBy \/ ToggleListed \/ RebindingToggle
    \/ \E f \in {"all", "enabled", "disabled", "basic"} : FilterBy(f)
    \/ \E t \in {"blocklists", "security", "categories", "services"} : OpenTab(t)
    \/ \E b \in Catalog : BlocklistSwitch(b.id) \/ ServiceSwitch(b.id)
    \/ ToggleNative
    \/ \E g \in {b.group : b \in Catalog} : ToggleCategory(g) \/ ExpandCategory(g)
    \/ \E f \in {"all", "blocked", "unblocked"} : FilterServices(f)
    \/ ExpandNative
    \/ \E depth \in 0 .. Len(NrdGroup) : ApplyBlocklistSet(depth)
    \/ page.name = "blocklists" /\ \E b \in BOOLEAN : OpenPrefs(b) \/ ChangePrefs(b)
    \/ FetchPrefs
    \/ \E i \in DOMAIN answers : PrefsArrive(i)
    \/ \E c \in calls : PrefsSaved(c)
-----------------------------------------------------------------------------
\* Of the tiers the catalog has, the range card leaves exactly the first up to the depth
\* the user chose enabled, also when it started from a selection with gaps: once its
\* requests are through the server has them and no other tier, unless another change ran
\* beside it or it worked from an outdated copy.
RangeExact ==
    LET tiers == Tiers(AllLists)
    IN \A c \in calls :
          c.kind = "nrd" /\ c.alone /\ c.ops = <<>> /\ ~c.failed /\ c.id \in DOMAIN db =>
              db[c.id].lists \cap {tiers[i] : i \in DOMAIN tiers} = {tiers[i] : i \in 1 .. c.extra}
=============================================================================
