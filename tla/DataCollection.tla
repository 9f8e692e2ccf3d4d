--------------------------- MODULE DataCollection ---------------------------
(***************************************************************************)
(* The data collection control (app/src/components/data-collection): two   *)
(* sources, statistics and query logs, with staged changes, one save that  *)
(* first reads the profile again, a confirmation for what a change         *)
(* deletes, and the two delete dialogs beside it.  Another tab changes the *)
(* same profile and the loader replaces the store's copy at any time.      *)
(***************************************************************************)
EXTENDS AppStore

CONSTANTS MaxDay,      \* bound: days that pass
          MaxStages,   \* bound: changes the user stages or asks for
          MaxOthers,   \* bound: changes by another tab
          MaxErrors    \* bound: requests that fail

ASSUME DataCollectionBounds == {MaxDay, MaxStages, MaxOthers, MaxErrors} \subseteq Nat

VARIABLES
    dcServer,   \* [set, start]: the profile's settings and the day counting started
    dcCopy,     \* the store's copy of it
    today,
    limited,    \* the subscription allows only turning off
    ctl,        \* the control: place, staged, auto, saving, confirm
    history,    \* the statistics history dialog: "none", "checking", "open", "deleting"
    clear,      \* the clear query logs dialog: [open, busy]
    saves,      \* handlers in flight
    stages, others, failures

dcVars == <<dcServer, dcCopy, today, limited, ctl, history, clear, saves, stages, others, failures>>

\* Two values stand for each scale of retentions; log_domains and log_clients_ips
\* are one field.
Retentions == 1 .. 2
States == [stats : BOOLEAN, logs : BOOLEAN, statsRetention : Retentions,
           fields : BOOLEAN, retention : Retentions]
-----------------------------------------------------------------------------
(* model.ts *)

\* How many days of counts the server holds; Null while statistics are off.
StatsHeld(profile) ==
    IF profile.set.stats THEN Min({today - profile.start, profile.set.statsRetention}) ELSE Null

RetentionChange(saved, pending) ==
    IF ~saved.stats \/ ~pending.stats THEN 0 ELSE pending.statsRetention - saved.statsRetention

LogsRetentionChange(saved, pending) ==
    IF ~saved.logs \/ ~pending.logs THEN 0 ELSE pending.retention - saved.retention

LogsFieldsChanged(saved, pending) == pending.logs /\ pending.fields # saved.fields

\* What the dialog of a change of state says is deleted.
StateTransition(saved, pending) ==
    (IF saved.stats /\ ~pending.stats THEN {"statistics"} ELSE {})
    \cup (IF saved.logs /\ ~pending.logs THEN {"logs"} ELSE {})

\* A lowered retention deletes counts only if some are older than it.
NothingOlder(pending, held) == held # Null /\ held <= pending.statsRetention

\* Mutant: a lowered log retention is only named together with another dialog.
TransitionForAlone(saved, pending, held) ==
    LET state == StateTransition(saved, pending)
        counts == IF RetentionChange(saved, pending) < 0 /\ ~NothingOlder(pending, held)
                  THEN {"older counts"} ELSE {}
    IN [none |-> saved = pending,
        dialog |-> IF state \cup counts = {} \/ LogsRetentionChange(saved, pending) >= 0
                   THEN state \cup counts ELSE state \cup counts \cup {"older logs"}]

\* transitionFor: whether there is anything to save, and what its dialog announces;
\* there is no dialog if it announces nothing.
TransitionFor(saved, pending, held) ==
    [none |-> /\ saved.stats = pending.stats /\ saved.logs = pending.logs
              /\ RetentionChange(saved, pending) = 0 /\ LogsRetentionChange(saved, pending) = 0
              /\ ~LogsFieldsChanged(saved, pending),
     dialog |-> StateTransition(saved, pending)
                \cup (IF RetentionChange(saved, pending) < 0 /\ ~NothingOlder(pending, held)
                      THEN {"older counts"} ELSE {})
                \cup (IF LogsRetentionChange(saved, pending) < 0 THEN {"older logs"} ELSE {})]

\* buildUpdates: the paths that are sent: the sources that change, and the changed
\* options of the sources that are checked.
BuildUpdates(saved, pending) ==
    {f \in {"stats", "logs", "statsRetention", "fields", "retention"} :
        /\ saved[f] # pending[f]
        /\ f = "statsRetention" => pending.stats
        /\ f \in {"fields", "retention"} => pending.logs}
-----------------------------------------------------------------------------
(* The server, from how the control uses it *)

Patched(set, paths, value) == [f \in DOMAIN set |-> IF f \in paths THEN value[f] ELSE set[f]]

\* A restricted account may only turn sources off.
Allowed(paths, value) == limited => \A f \in paths : f \in {"stats", "logs"} /\ ~value[f]

\* What a change of settings deletes.
Deleted(from, set) ==
    (IF from.set.stats /\ ~set.stats THEN {"statistics"} ELSE {})
    \cup (IF from.set.logs /\ ~set.logs THEN {"logs"} ELSE {})
    \cup (IF from.set.stats /\ set.stats
             /\ Min({today - from.start, from.set.statsRetention}) > set.statsRetention
          THEN {"older counts"} ELSE {})
    \cup (IF from.set.logs /\ set.logs /\ set.retention < from.set.retention
          THEN {"older logs"} ELSE {})

Stored(set) ==
    [set |-> set,
     start |-> IF set.stats /\ ~dcServer.set.stats THEN today ELSE dcServer.start]
-----------------------------------------------------------------------------
(* The control *)

SavedState == dcCopy.set

\* Derived on every render: a restricted account can only turn sources off.
Pending(c) ==
    IF limited
    THEN [SavedState EXCEPT !.stats = @ /\ c.staged.stats, !.logs = @ /\ c.staged.logs]
    ELSE c.staged

\* The control on the settings page, in the dialog a gate of the statistics page opens
\* with a source staged, or in the account page of an account that is cut off.
Inner(place, saved, initial) ==
    [place |-> place,
     staged |-> [saved EXCEPT !.stats = @ \/ initial # Null, !.logs = @ \/ initial = "logs"],
     auto |-> ~saved.stats /\ ~saved.logs /\ initial = "logs",
     saving |-> FALSE, confirm |-> Null]

\* The account page lists the profiles that collect something.
Collecting(set) == set.stats \/ set.logs

\* The dialog closes after a save, the account page drops a profile that collects
\* nothing any more.
DialogSaved(c) == IF c.place = "dialog" THEN [c EXCEPT !.place = "none"] ELSE c

KeepListed(c, copy) ==
    IF c.place = "account" /\ ~Collecting(copy.set) THEN [c EXCEPT !.place = "none", !.confirm = Null] ELSE c

\* The user is at the control; a dialog is modal.
AtControl ==
    /\ ctl.place # "none"
    /\ stages > 0 /\ stages' = stages - 1
    /\ ctl.confirm = Null /\ history \in {"none", "checking"} /\ ~clear.open

\* The control takes no changes while it saves; a restricted account can only uncheck
\* what is on.
BoxFree(source) == ~ctl.saving /\ (limited => SavedState[source])

PillsFree == ~ctl.saving /\ ~limited

StatsCard == Pending(ctl).stats /\ PillsFree

LogsCard == Pending(ctl).logs /\ PillsFree

Quietly == UNCHANGED <<dcServer, dcCopy, today, limited, history, clear, saves, others, failures>>

Stage(p) == ctl' = [ctl EXCEPT !.staged = p]

\* toggleStats.
ToggleStats ==
    /\ AtControl /\ BoxFree("stats")
    /\ ctl' = [ctl EXCEPT !.staged.stats = ~Pending(ctl).stats, !.auto = FALSE]
    /\ Quietly

\* toggleLogs: from off, statistics are checked along with the logs and unchecked
\* along with them as long as the user has not touched them.
ToggleLogs ==
    LET checked == ~Pending(ctl).logs IN
    /\ AtControl /\ BoxFree("logs")
    /\ ctl' = IF checked /\ ~SavedState.stats /\ ~SavedState.logs /\ ~Pending(ctl).stats
              THEN [ctl EXCEPT !.auto = TRUE, !.staged.logs = TRUE, !.staged.stats = TRUE]
              ELSE IF ~checked /\ ctl.auto
              THEN [ctl EXCEPT !.auto = FALSE, !.staged.logs = FALSE, !.staged.stats = SavedState.stats]
              ELSE [ctl EXCEPT !.staged.logs = checked]
    /\ Quietly

\* The pills of a checked source.
StageStatsRetention(r) ==
    /\ AtControl /\ StatsCard /\ r # ctl.staged.statsRetention
    /\ Stage([ctl.staged EXCEPT !.statsRetention = r]) /\ Quietly

StageLogsOptions(fields, r) ==
    /\ AtControl /\ LogsCard
    /\ (fields # ctl.staged.fields) # (r # ctl.staged.retention)
    /\ Stage([ctl.staged EXCEPT !.fields = fields, !.retention = r]) /\ Quietly

Transition(held) == TransitionFor(SavedState, Pending(ctl), held)

ButtonsFree == ~ctl.saving /\ ~Transition(StatsHeld(dcCopy)).none

Discard ==
    /\ AtControl /\ ButtonsFree
    /\ ctl' = [ctl EXCEPT !.staged = SavedState, !.auto = FALSE]
    /\ Quietly

\* A handler closes over the state and the copy of the render it was started in;
\* off: the account was restricted then.
Save(kind, dialog) ==
    [kind |-> kind, saved |-> SavedState, pending |-> Pending(ctl), dialog |-> dialog,
     seen |-> dcCopy, day |-> today, mine |-> TRUE]

\* onSave: the profile is read again first.
OnSave ==
    /\ AtControl /\ ButtonsFree
    /\ ctl' = [ctl EXCEPT !.saving = TRUE]
    /\ saves' = saves \cup {Save("check", {})}
    /\ UNCHANGED <<dcServer, dcCopy, today, limited, history, clear, others, failures>>

\* What a handler does to the control it belongs to.
Own(c, next) == IF c.mine THEN next ELSE ctl

Reset(profile) ==
    [ctl EXCEPT !.staged = profile.set, !.auto = FALSE, !.saving = FALSE, !.confirm = Null]

\* The profile was changed elsewhere: nothing is saved.
CheckStale(c) ==
    /\ c.kind = "check" /\ dcServer.set # c.saved
    /\ dcCopy' = dcServer
    /\ ctl' = KeepListed(Own(c, Reset(dcServer)), dcServer)
    /\ saves' = saves \ {c}
    /\ UNCHANGED <<dcServer, today, limited, history, clear, stages, others, failures>>

\* Otherwise, or if the read fails, the change is saved, after a dialog if it deletes
\* something.
CheckDone(c, fresh) ==
    LET t == TransitionFor(c.saved, c.pending, StatsHeld(fresh)) IN
    IF t.dialog # {}
    THEN /\ ctl' = Own(c, [ctl EXCEPT !.saving = FALSE,
                                      !.confirm = [dialog |-> t.dialog, seen |-> fresh, day |-> today]])
         /\ saves' = saves \ {c}
    ELSE saves' = (saves \ {c}) \cup {[c EXCEPT !.kind = "patch", !.seen = fresh, !.day = today]} /\ UNCHANGED ctl

CheckAnswered(c) ==
    /\ c.kind = "check"
    /\ \/ dcServer.set = c.saved /\ CheckDone(c, dcServer) /\ UNCHANGED failures
       \/ failures > 0 /\ failures' = failures - 1 /\ CheckDone(c, c.seen)
    /\ UNCHANGED <<dcServer, dcCopy, today, limited, history, clear, stages, others>>

\* The dialog: what is sent comes from the current render.
ConfirmFree == ctl.place # "none" /\ ctl.confirm # Null /\ ~ctl.saving

CancelConfirm ==
    /\ ConfirmFree
    /\ ctl' = Reset(dcCopy)
    /\ Quietly /\ UNCHANGED stages

Confirm ==
    /\ ConfirmFree
    /\ ctl' = [ctl EXCEPT !.saving = TRUE]
    /\ saves' = saves \cup {[Save("patch", ctl.confirm.dialog)
                               EXCEPT !.seen = ctl.confirm.seen, !.day = ctl.confirm.day]}
    /\ UNCHANGED <<dcServer, dcCopy, today, limited, history, clear, stages, others, failures>>

\* commit: the change is made and answered.
Commit(c) ==
    LET paths == BuildUpdates(c.saved, c.pending) IN
    /\ c.kind = "patch" /\ Allowed(paths, c.pending)
    /\ dcServer' = Stored(Patched(dcServer.set, paths, c.pending))
    /\ \/ /\ dcCopy' = dcServer'
          /\ ctl' = KeepListed(Own(c, DialogSaved(Reset(dcServer'))), dcServer')
          /\ saves' = saves \ {c}
          /\ UNCHANGED failures
       \/ /\ failures > 0 /\ failures' = failures - 1   \* a 5xx can follow a committed write
          /\ saves' = (saves \ {c}) \cup {[c EXCEPT !.kind = "recover"]}
          /\ UNCHANGED <<dcCopy, ctl>>
    /\ UNCHANGED <<today, limited, history, clear, stages, others>>

CommitFails(c) ==
    /\ c.kind = "patch"
    /\ \/ ~Allowed(BuildUpdates(c.saved, c.pending), c.pending) /\ UNCHANGED failures
       \/ failures > 0 /\ failures' = failures - 1
    /\ saves' = (saves \ {c}) \cup {[c EXCEPT !.kind = "recover"]}
    /\ UNCHANGED <<dcServer, dcCopy, today, limited, ctl, history, clear, stages, others>>

\* After an error the control shows what the server holds now, or what it had.
Recover(c) ==
    /\ c.kind = "recover"
    /\ saves' = saves \ {c}
    /\ \/ dcCopy' = dcServer /\ ctl' = KeepListed(Own(c, Reset(dcServer)), dcServer) /\ UNCHANGED failures
       \/ /\ failures > 0 /\ failures' = failures - 1
          /\ ctl' = Own(c, [Reset(dcCopy) EXCEPT !.staged = c.saved])
          /\ UNCHANGED dcCopy
    /\ UNCHANGED <<dcServer, today, limited, history, clear, stages, others>>
-----------------------------------------------------------------------------
(* Delete statistics history, and clear query logs *)

HistoryRequest ==
    /\ AtControl /\ ctl.place # "dialog" /\ history = "none" /\ SavedState.stats
    /\ history' = "checking"
    /\ saves' = saves \cup {Save("historyCheck", {})}
    /\ UNCHANGED <<dcServer, dcCopy, today, limited, ctl, clear, others, failures>>

\* The dialog opens unless statistics were switched elsewhere.
HistoryChecked(c) ==
    /\ c.kind = "historyCheck"
    /\ saves' = saves \ {c}
    /\ \/ /\ dcServer.set.stats # c.saved.stats
          /\ dcCopy' = dcServer
          /\ history' = IF c.mine THEN "none" ELSE history
          /\ UNCHANGED failures
       \/ /\ \/ dcServer.set.stats = c.saved.stats /\ UNCHANGED failures
             \/ failures > 0 /\ failures' = failures - 1
          /\ history' = IF c.mine THEN "open" ELSE history
          /\ UNCHANGED dcCopy
    /\ ctl' = KeepListed(ctl, dcCopy')
    /\ UNCHANGED <<dcServer, today, limited, clear, stages, others>>

HistoryClose(confirmed) ==
    /\ history = "open"
    /\ history' = IF confirmed THEN "deleting" ELSE "none"
    /\ saves' = IF confirmed THEN saves \cup {Save("historyDelete", {})} ELSE saves
    /\ UNCHANGED <<dcServer, dcCopy, today, limited, ctl, clear, stages, others, failures>>

\* The counts are gone and the profile is read back; either may fail.
HistoryDeleted(c) ==
    /\ c.kind = "historyDelete"
    /\ saves' = saves \ {c}
    /\ history' = IF c.mine THEN "none" ELSE history
    /\ \/ /\ dcServer' = [dcServer EXCEPT !.start = IF dcServer.set.stats THEN today ELSE @]
          /\ dcCopy' = dcServer'
          /\ UNCHANGED failures
       \/ /\ failures > 0 /\ failures' = failures - 1
          /\ dcServer' \in {dcServer, [dcServer EXCEPT !.start = today]}
          /\ UNCHANGED dcCopy
    /\ ctl' = KeepListed(ctl, dcCopy')
    /\ UNCHANGED <<today, limited, clear, stages, others>>
\* useClearQueryLogs: the dialog can be closed while its request is under way; it
\* closes by itself when the logs are gone, and stays after a failure.
ClearRequest ==
    /\ AtControl /\ ctl.place # "dialog" /\ (ctl.place = "account" => SavedState.logs)
    /\ clear' = [clear EXCEPT !.open = TRUE]
    /\ UNCHANGED <<dcServer, dcCopy, today, limited, ctl, history, saves, others, failures>>

ClearDialog ==
    /\ \/ clear.open /\ clear' = [clear EXCEPT !.open = FALSE] /\ UNCHANGED failures
       \/ clear.open /\ ~clear.busy /\ clear' = [clear EXCEPT !.busy = TRUE] /\ UNCHANGED failures
       \/ clear.busy /\ clear' = [open |-> FALSE, busy |-> FALSE] /\ UNCHANGED failures
       \/ /\ clear.busy /\ clear' = [clear EXCEPT !.busy = FALSE]
          /\ failures > 0 /\ failures' = failures - 1
    /\ UNCHANGED <<dcServer, dcCopy, today, limited, ctl, history, saves, stages, others>>
-----------------------------------------------------------------------------
(* What happens around the control *)

\* The loader, or another page, replaces the store's copy.
LoaderRevalidates ==
    /\ dcCopy # dcServer /\ dcCopy' = dcServer
    /\ ctl' = KeepListed(ctl, dcServer)
    /\ UNCHANGED <<dcServer, today, limited, history, saves, clear, stages, others, failures>>

\* The page is left and opened again, or another profile shown in between.
Remount(place, initial) ==
    /\ stages > 0 /\ stages' = stages - 1
    /\ (place = "dialog") = (initial # Null)
    /\ place = "account" => limited /\ Collecting(SavedState)
    /\ ctl' = Inner(place, SavedState, initial) /\ history' = "none"
    /\ clear' = [open |-> FALSE, busy |-> FALSE]
    /\ saves' = {[c EXCEPT !.mine = FALSE] : c \in saves}
    /\ UNCHANGED <<dcServer, dcCopy, today, limited, others, failures>>

OtherTab(set) ==
    /\ others > 0 /\ others' = others - 1
    /\ \E f \in DOMAIN set : set # dcServer.set /\ set = [dcServer.set EXCEPT ![f] = set[f]]
    /\ dcServer' = Stored(set)
    /\ UNCHANGED <<dcCopy, today, limited, ctl, history, saves, clear, stages, failures>>

\* The status of the subscription arrives, or lapses.
LoseAccess ==
    /\ ~limited /\ limited' = TRUE
    /\ UNCHANGED <<dcServer, dcCopy, today, ctl, history, saves, clear, stages, others, failures>>

NextDay ==
    /\ today < MaxDay /\ today' = today + 1
    /\ UNCHANGED <<dcServer, dcCopy, limited, ctl, history, saves, clear, stages, others, failures>>

DataCollectionInit ==
    /\ \E set \in {s \in States : ~s.fields /\ s.retention = s.statsRetention} :
          dcServer = [set |-> set, start |-> 0]
    /\ dcCopy = dcServer /\ today = MaxDay - 1 /\ limited = FALSE
    /\ ctl = Inner("settings", dcCopy.set, Null) /\ history = "none" /\ saves = {}
    /\ clear = [open |-> FALSE, busy |-> FALSE]
    /\ stages = MaxStages /\ others = MaxOthers /\ failures = MaxErrors

DataCollectionNext ==
    \/ ToggleStats \/ ToggleLogs \/ Discard \/ OnSave \/ CancelConfirm \/ Confirm
    \/ \E r \in Retentions : StageStatsRetention(r)
    \/ \E fields \in BOOLEAN, r \in Retentions : StageLogsOptions(fields, r)
    \/ \E c \in saves : \/ CheckStale(c) \/ CheckAnswered(c) \/ Commit(c) \/ CommitFails(c)
                        \/ Recover(c) \/ HistoryChecked(c) \/ HistoryDeleted(c)
    \/ HistoryRequest \/ \E confirmed \in BOOLEAN : HistoryClose(confirmed)
    \/ ClearRequest \/ ClearDialog
    \/ LoaderRevalidates \/ LoseAccess \/ NextDay
    \/ \E place \in {"settings", "dialog", "account"}, initial \in {Null, "stats", "logs"} :
          Remount(place, initial)
    \/ \E set \in States : OtherTab(set)

DataCollectionSpec == DataCollectionInit /\ [][DataCollectionNext]_dcVars
-----------------------------------------------------------------------------
\* The change that was looked at is the one that is made: the server still has the
\* settings the handler closed over.
Undisturbed(c) == c.kind = "patch" /\ dcServer.set = c.saved

\* Nothing is deleted that the dialog did not announce ("opens a confirmation dialog
\* for a deleting change"): unless another tab changed the profile or a day passed
\* since it was read, what the change deletes is what the user was told.
DeletionConfirmed ==
    \A c \in saves :
        Undisturbed(c) /\ c.seen = dcServer /\ c.day = today =>
            Deleted(dcServer, Patched(dcServer.set, BuildUpdates(c.saved, c.pending), c.pending))
                \subseteq c.dialog

=============================================================================
