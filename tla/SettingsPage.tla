---------------------------- MODULE SettingsPage ----------------------------
(***************************************************************************)
(* The settings page (app/src/pages/settings).  Its switches are local     *)
(* state; they are set from the list of profiles the route's loader        *)
(* returned when the page was opened, each time another object becomes the *)
(* active profile.                                                         *)
(***************************************************************************)
EXTENDS AppPages

\* The settings of the page's sections.
BlocklistsSection == {"defaultRule", "subdomainsRule"}
CustomRulesSection == {"customRulesRule"}
AdvancedSection == {"dnssec", "doBit"}

\* The switches as the effect sets them: from the loader's copy of the active profile.
SettingsEffects(p, st) ==
    IF st.activeProfile # Null /\ st.activeProfile.id \in IdsOf(p.list)
    THEN LET i == CHOOSE j \in DOMAIN p.list : p.list[j].id = st.activeProfile.id
         IN [p EXCEPT !.values = [f \in Fields |-> p.list[i].settings[f]]]
    ELSE p

SettingsInit(st) ==
    SettingsEffects([name |-> "settings", list |-> st.profiles, values |-> [f \in Fields |-> FALSE],
                     advancedLoading |-> FALSE, deleting |-> FALSE, deleteBusy |-> FALSE], st)

\* The sections that change something are inert for a restricted account.
Unlocked == Click("settings") /\ ~page.deleting /\ ~IsRestricted(store)

\* A toggle group reports a value other than the one it shows; there is nothing to
\* send for that one.
Offers(f, v) == f \in Fields /\ v # page.values[f]

Change(f, v, loading) ==
    Start(Handler("setting", <<[do |-> "patch", field |-> f, arg |-> v]>>, FALSE, loading),
          [page EXCEPT !.advancedLoading = @ \/ loading])

HandleBlocklistChange(f, v) ==
    Unlocked /\ f \in BlocklistsSection /\ Offers(f, v) /\ Change(f, v, FALSE)

HandleCustomRulesSettingsChange(f, v) ==
    Unlocked /\ f \in CustomRulesSection /\ Offers(f, v) /\ Change(f, v, FALSE)

HandleAdvancedChange(f, v) ==
    Unlocked /\ f \in AdvancedSection /\ Offers(f, v) /\ Change(f, v, TRUE)

\* The recursor's select is disabled while an advanced setting is being saved.
RecursorEnabled == ~page.advancedLoading

HandleRecursorChange(v) ==
    Unlocked /\ RecursorEnabled /\ Offers("recursor", v) /\ Change("recursor", v, TRUE)

\* What each leaves on the page it was changed on.
AfterSetting(c, p, ok) ==
    LET op == Head(c.ops)
    IN [p EXCEPT !.values[op.field] = IF ok THEN op.arg ELSE @,
                 !.advancedLoading = @ /\ ~c.extra]

\* The change is made; the answer does not go into the store.
SettingSaved(c) ==
    /\ c.kind = "setting"
    /\ Saved(c, IF c.mine THEN AfterSetting(c, page, TRUE) ELSE page)

\* The delete dialog of the page.
DeleteDialog(open) ==
    /\ Click("settings") /\ page.deleting # open /\ ~IsRestricted(store)
    /\ Local([page EXCEPT !.deleting = open])

\* handleDeleteProfile: what comes next is the first other profile of the loader's list.
DeleteProfile ==
    LET remaining == SelectSeq(page.list, LAMBDA q : q.id # ActiveId) IN
    /\ Click("settings") /\ page.deleting /\ ~page.deleteBusy
    /\ Start(Handler("remove", <<[do |-> "remove"]>>, FALSE,
                     IF remaining = <<>> THEN Null ELSE remaining[1]),
             [page EXCEPT !.deleteBusy = TRUE])

\* What a handler of the page leaves when it fails.
AfterSettings(c, p) ==
    CASE c.kind = "setting" -> AfterSetting(c, p, FALSE)
      [] c.kind = "remove" -> [p EXCEPT !.deleteBusy = FALSE]
      [] OTHER -> p

SettingsNext ==
    \/ /\ page.name = "settings"
       /\ \/ \E f \in Fields, v \in BOOLEAN :
                \/ HandleBlocklistChange(f, v) \/ HandleCustomRulesSettingsChange(f, v)
                \/ HandleAdvancedChange(f, v)
          \/ \E b \in BOOLEAN : HandleRecursorChange(b) \/ DeleteDialog(b)
          \/ DeleteProfile
    \/ \E c \in calls : SettingSaved(c)
-----------------------------------------------------------------------------
=============================================================================
