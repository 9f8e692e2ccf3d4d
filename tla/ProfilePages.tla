---------------------------- MODULE ProfilePages ----------------------------
(***************************************************************************)
(* The pages that edit profiles in one application: the blocklists, custom *)
(* rules and settings pages, the profile menu of the header with its       *)
(* dialogs, and the navigation between them (app/src/pages/header,         *)
(* app/src/App.tsx).                                                       *)
(***************************************************************************)
EXTENDS BlocklistsPage, CustomRulesPage, SettingsPage

CONSTANTS Profiles,   \* the server's profiles at the start
          Status      \* the subscription statuses the account may have

\* Ids are unique, and the account always has a profile.
ASSUME ProfilesAssumption ==
    /\ Profiles # {} /\ IsFiniteSet({p.id : p \in Profiles})
    /\ \A p \in Profiles : {"id", "lists"} \subseteq DOMAIN p
    /\ ProfileIds \subseteq Nat

PageInit(name, st) ==
    CASE name = "blocklists" -> BlocklistsInit(st)
      [] name = "custom-rules" -> CustomRulesInit(st)
      [] name = "settings" -> SettingsInit(st)
      [] OTHER -> [name |-> name]

\* What a page makes of a new store.
Effects(p, st) ==
    CASE p.name = "blocklists" -> BlocklistsEffects(p, st)
      [] p.name = "custom-rules" -> CustomRulesEffects(p, st)
      [] p.name = "settings" -> SettingsEffects(p, st)
      [] OTHER -> p

\* What a finished handler leaves on its page.
After(c, p, ok) ==
    IF ~c.mine THEN p
    ELSE CASE p.name = "blocklists" -> AfterBlocklists(c, p)
           [] p.name = "custom-rules" -> AfterCustomRules(c, p, ok)
           [] p.name = "settings" -> AfterSettings(c, p)
           [] OTHER -> p

\* A link of the navigation menu: the loader serves the store and asks for the list
\* in the background.
Navigate(name) ==
    /\ clicks > 0 /\ clicks' = clicks - 1
    /\ name \in Pages \ {page.name} /\ Active # Null /\ menu.dialog = "none"
    /\ Mount(PageInit(name, store), calls, answers)
    /\ UNCHANGED <<store, db, behind, faults, menu>>

\* The dialogs that handleProfileCreated, or the other two callbacks, close.
MenuDialogsOf(c) == IF c.kind = "selectListed" /\ c.extra = "create" THEN {"create"} ELSE {"edit", "delete"}

\* A handler's answer: the store, then the page, then the dialogs that waited for it.
Deliver(i) ==
    LET a == answers[i] IN
    /\ a.call.kind # "readPrefs"
    /\ Delivered(i, Effects(After(a.call, page, TRUE), AfterAnswer(store, a)))
    /\ menu' = IF a.call.kind \in {"selectListed", "afterDelete"}
               THEN [menu EXCEPT !.dialog = IF @ \in MenuDialogsOf(a.call) THEN "none" ELSE @,
                                 !.creating = FALSE]
               ELSE menu

Fail(c) ==
    /\ Fails(c, After(c, page, FALSE))
    /\ menu' = [menu EXCEPT !.creating = @ /\ c.kind # "create",
                            !.busy = @ /\ c.kind \notin {"rename", "menuRemove"}]
-----------------------------------------------------------------------------
(* The profile menu *)

MenuClick == clicks > 0 /\ clicks' = clicks - 1 /\ Active # Null

Modal(p) ==
    CASE p.name = "custom-rules" -> p.editing # Null \/ p.dragging # Null
      [] p.name = "settings" -> p.deleting
      [] p.name = "blocklists" -> p.prefs.open
      [] OTHER -> FALSE

MenuLocal(m) ==
    /\ MenuClick
    /\ menu' = m
    /\ UNCHANGED <<store, page, calls, answers, db, behind, faults>>

MenuStart(c) ==
    /\ MenuClick
    /\ menu' = [menu EXCEPT !.creating = @ \/ c.kind = "create", !.busy = @ \/ c.kind # "create"]
    /\ Start([c EXCEPT !.mine = FALSE], page)

\* handleProfileSwitch; the menu lists the store's profiles.
SwitchProfile(i) ==
    /\ MenuClick /\ menu.dialog = "none" /\ ~Modal(page)
    /\ i \in DOMAIN store.profiles /\ store.profiles[i].id # ActiveId
    /\ store' = SetActiveProfile(store, store.profiles[i])
    /\ page' = Effects(page, store')
    /\ UNCHANGED <<calls, answers, db, behind, faults, menu>>

\* The edit dialog keeps the profile it was opened for.
OpenMenuDialog(d) ==
    /\ Active # Null /\ menu.dialog = "none" /\ ~Modal(page) /\ ~IsRestricted(store)
    /\ d = "edit" => ActiveId \in IdsOf(store.profiles)
    /\ MenuLocal([menu EXCEPT !.dialog = d, !.id = ActiveId, !.busy = FALSE])

\* The delete dialog lies over the edit dialog; closing it leaves that one.
OpenMenuDelete == menu.dialog = "edit" /\ MenuLocal([menu EXCEPT !.dialog = "delete", !.busy = FALSE])

CloseMenuDialog ==
    /\ menu.dialog # "none"
    /\ MenuLocal([menu EXCEPT !.dialog = IF @ = "delete" THEN "edit" ELSE "none"])

\* handleCreate.
CreateSubmit ==
    /\ menu.dialog = "create" /\ ~menu.creating
    /\ MenuStart(Handler("create", <<[do |-> "create"]>>, FALSE, Null))

\* handleSave of the edit dialog.
RenameSubmit ==
    /\ menu.dialog = "edit" /\ ~menu.busy
    /\ MenuStart([Handler("rename", <<[do |-> "patch", field |-> "name", arg |-> TRUE]>>, FALSE, Null)
                  EXCEPT !.id = menu.id])

\* handleDeleteProfile from the menu, which closes over the list it was rendered with.
MenuDeleteSubmit ==
    /\ menu.dialog = "delete" /\ ~menu.busy
    /\ MenuStart([Handler("menuRemove", <<[do |-> "remove"]>>, FALSE,
                          IF store.profiles = <<>> THEN Null ELSE store.profiles[1])
                  EXCEPT !.id = menu.id])

\* The new profile becomes active, the list is asked for, and the setup page opened.
Created(c) ==
    /\ c.kind = "create" /\ Accepts(Head(c.ops), c)
    /\ LET i == Min(Unused) IN
       /\ db' = [j \in DOMAIN db \cup {i} |-> IF j = i THEN NewProfile(i) ELSE db[j]]
       /\ store' = SetActiveProfile(store, NewProfile(i))
       /\ Mount(PageInit("setup", store),
                (calls \ {c}) \cup {Refetch("selectListed", i, "create")}, answers)
    /\ menu' = [menu EXCEPT !.dialog = IF @ = "create" THEN "none" ELSE @, !.creating = FALSE]
    /\ UNCHANGED <<behind, clicks, faults>>

\* The dialog stays open until the list has come.
Renamed(c) ==
    /\ c.kind = "rename" /\ Accepts(Head(c.ops), c)
    /\ db' = [db EXCEPT ![c.id] = Serve(Head(c.ops), @)]
    /\ calls' = (calls \ {c}) \cup {Refetch("selectListed", c.id, Null)}
    /\ menu' = [menu EXCEPT !.busy = FALSE]
    /\ Missed(c.id)
    /\ UNCHANGED <<store, page, clicks, faults>>

\* A deleted profile: the settings page selects its successor at once, the menu only
\* with the list.  The setup page is opened.
Removed(c) ==
    /\ c.kind \in {"remove", "menuRemove"} /\ Accepts(Head(c.ops), c)
    /\ db' = [i \in DOMAIN db \ {c.id} |-> db[i]]
    /\ IF c.kind = "remove"
       THEN /\ store' = SetActiveProfile(store, c.extra)
            /\ behind' = behind \cup {c.id} \cup (IF c.extra = Null THEN {} ELSE {c.extra.id})
            /\ Mount(PageInit("setup", store), calls \ {c}, Late(answers, c.id))
            /\ UNCHANGED menu
       ELSE /\ Mount(PageInit("setup", store),
                     (calls \ {c}) \cup {Refetch("afterDelete", c.id, c.extra)},
                     Late(answers, c.id))
            /\ menu' = [menu EXCEPT !.dialog = IF @ = "delete" THEN "edit" ELSE @, !.busy = FALSE]
            /\ behind' = behind \cup {c.id}
            /\ UNCHANGED store
    /\ UNCHANGED <<clicks, faults>>
-----------------------------------------------------------------------------
ByOrder == LET ids == SetToSeq({p.id : p \in Profiles})
           IN [i \in DOMAIN ids |-> CHOOSE p \in Profiles : p.id = ids[i]]

Init ==
    /\ db = [i \in {p.id : p \in Profiles} |-> CHOOSE p \in Profiles : p.id = i]
    /\ \E s \in Status :
          store = [FreshStore(ByOrder[1]) EXCEPT !.profiles = ByOrder, !.subscriptionStatus = s]
    /\ \E name \in Pages : page = PageInit(name, store)
    /\ calls = {} /\ answers = <<>> /\ behind = {}
    /\ clicks = MaxClicks /\ faults = MaxFaults
    /\ menu = [dialog |-> "none", id |-> 0, creating |-> FALSE, busy |-> FALSE]

PageSteps ==
    \/ "blocklists" \in Pages /\ BlocklistsNext
    \/ "custom-rules" \in Pages /\ CustomRulesNext
    \/ "settings" \in Pages /\ SettingsNext
    \/ \E c \in calls : Served(c) \/ Read(c)

MenuSteps ==
    \/ \E i \in DOMAIN store.profiles : SwitchProfile(i)
    \/ \E d \in {"create", "edit"} : OpenMenuDialog(d)
    \/ OpenMenuDelete \/ CloseMenuDialog \/ CreateSubmit \/ RenameSubmit \/ MenuDeleteSubmit
    \/ \E c \in calls : Created(c) \/ Renamed(c) \/ Removed(c)

Next ==
    \/ PageSteps /\ UNCHANGED menu
    \/ MenuSteps
    \/ \E name \in Pages : Navigate(name)
    \/ \E i \in DOMAIN answers : Deliver(i)
    \/ \E c \in calls : Fail(c)

Spec == Init /\ [][Next]_pageVars
-----------------------------------------------------------------------------

\* When nothing is in flight the store's copies are the server's profiles, except
\* where an answer overtook a newer one or a change was never read back.
Converges ==
    Quiet => \A p \in {store.profiles[i] : i \in DOMAIN store.profiles} \cup ({Active} \ {Null}) :
                p.id \in DOMAIN db \ behind => p = db[p.id]

=============================================================================
