---------------------------- MODULE BackupRestore ----------------------------
(***************************************************************************)
(* Export and import of profiles (ExportProfilesDialog.tsx,                *)
(* ImportProfilesDialog.tsx and their hooks).  The dialogs stay mounted    *)
(* when they are closed, and can be closed while a file is being read, a   *)
(* passkey ceremony runs or a request is under way: its answer then finds  *)
(* whatever the dialog has become.                                         *)
(***************************************************************************)
EXTENDS VerifyIdentity, FiniteSets

CONSTANTS MaxProfiles,   \* the profiles an account can have
          Clicks,        \* bound: what the user does, typing and opening apart
          Errors,        \* bound: requests that fail
          Changes        \* bound: changes of the account from outside

ASSUME BackupRestoreBounds == {MaxProfiles, Clicks, Errors, Changes} \subseteq Nat

Dialogs == {"import", "export"}

VARIABLES
    acct,      \* the store's account: methods, totp, restricted
    passkeys,  \* the store's list of passkeys is not empty
    owned,     \* the profiles the server has
    listed,    \* the store's copy of them
    opened,    \* the dialog that is open, or Null
    ver,       \* the verification state of each dialog
    imp,       \* the import dialog: step, file, selected, importing, result
    exp,       \* the export dialog: scope, selected, exporting
    calls,     \* file reads, ceremonies and requests under way
    issued,    \* reauth tokens issued so far
    spent,     \* the tokens the server has consumed
    clicks, errors, changes

brVars == <<acct, passkeys, owned, listed, opened, ver, imp, exp, calls, issued, spent,
            clicks, errors, changes>>

Accounts == {a \in [methods : SUBSET Methods, totp : BOOLEAN, restricted : BOOLEAN] :
                a.methods # {} /\ (a.totp => "password" \in a.methods)}

\* File 0 is not an export; any other file holds as many profiles as its number, the
\* even ones of which collect data.
Files == 0 .. 2

Rows(file) == IF file = Null THEN {} ELSE 1 .. file

\* importedCollection.
CollectsData(row) == row % 2 = 0

NewImport == [step |-> "pick", file |-> Null, selected |-> {}, importing |-> FALSE, result |-> Null]
NewExport == [scope |-> "all", selected |-> {}, exporting |-> FALSE]

Click == clicks > 0 /\ clicks' = clicks - 1
Fail == errors > 0 /\ errors' = errors - 1

Store == <<acct, passkeys, owned, listed>>
Server == <<issued, spent>>

\* A call is told from another by the number of clicks that were left.
Call(kind) == [kind |-> kind, at |-> clicks, dialog |-> Null, file |-> Null, sent |-> {}, ticked |-> {}, noted |-> {},
               cred |-> [password |-> FALSE, token |-> Null, otp |-> FALSE]]

Start(c) == calls' = calls \cup {c}
End(c) == calls' = calls \ {c}

InitBounds == clicks = Clicks /\ errors = Errors /\ changes = Changes
-----------------------------------------------------------------------------
(* Opening and closing *)

\* resetAllState: isImporting belongs to the request and stays.
ResetImport(i) == [NewImport EXCEPT !.importing = i.importing]

ResetExport(e) == [NewExport EXCEPT !.exporting = e.exporting]

OpenDialog(d) ==
    /\ opened = Null /\ UNCHANGED clicks
    /\ d = "import" => ~acct.restricted
    /\ opened' = d
    /\ UNCHANGED <<Store, ver, imp, exp, calls, Server, errors, changes>>

\* The dialog d is closed: everything in it but the requests is forgotten.
Closed(d) ==
    /\ opened' = IF opened = d THEN Null ELSE opened
    /\ ver' = [ver EXCEPT ![d] = NewVerification(PreferredMethod(acct, passkeys))]
    /\ imp' = IF d = "import" THEN ResetImport(imp) ELSE imp
    /\ exp' = IF d = "export" THEN ResetExport(exp) ELSE exp

\* Cancel waits for the request; Escape and the cross do not.
CloseDialog ==
    /\ Click /\ opened # Null
    /\ Closed(opened)
    /\ UNCHANGED <<Store, calls, Server, errors, changes>>
-----------------------------------------------------------------------------
(* Verification, in either dialog *)

\* The fields are shown from the start when exporting, with the profiles when importing.
Verifying(d) == opened = d /\ (d = "import" => imp.step = "confirm" /\ imp.file # Null)

Verify(d, v) ==
    /\ Verifying(d) /\ v # ver[d]
    /\ ver' = [ver EXCEPT ![d] = v]
    /\ UNCHANGED <<Store, opened, imp, exp, Server, errors, changes>>

SwitchMethod(d, method) ==
    /\ Available(method, acct, passkeys)
    /\ Click /\ Verify(d, WithMethod(ver[d], method)) /\ UNCHANGED calls

TypePassword(d) ==
    /\ ver[d].method = "password"
    /\ Verify(d, [ver[d] EXCEPT !.password = TRUE]) /\ UNCHANGED <<calls, clicks>>

TypeOtp(d) ==
    /\ ShowOtp(ver[d], acct)
    /\ Verify(d, [ver[d] EXCEPT !.otp = TRUE]) /\ UNCHANGED <<calls, clicks>>

BeginPasskeyReauth(d) ==
    /\ ReauthFree(ver[d])
    /\ Click /\ Verify(d, BeginReauth(ver[d]))
    /\ Start([Call("reauth") EXCEPT !.dialog = d])

PasskeyReauthDone(c) ==
    /\ c.kind = "reauth" /\ End(c)
    /\ issued' = issued + 1
    /\ ver' = [ver EXCEPT ![c.dialog] = ReauthDone(@, issued')]
    /\ UNCHANGED <<Store, opened, imp, exp, spent, clicks, errors, changes>>

PasskeyReauthFailed(c) ==
    /\ c.kind = "reauth" /\ End(c) /\ Fail
    /\ ver' = [ver EXCEPT ![c.dialog] = ReauthFailed(@)]
    /\ UNCHANGED <<Store, opened, imp, exp, Server, clicks, changes>>

\* The server takes a token once, whether or not it then accepts the request.
Consume(cred) == spent' = spent \cup ({cred.token} \ {Null})
-----------------------------------------------------------------------------
(* Import *)

ImportStep(step) == opened = "import" /\ imp.step = step

ImportOnly(i) == imp' = i /\ UNCHANGED <<Store, opened, ver, exp, Server, errors, changes>>

\* processFile and handleFileAccepted: the file is read in the background; one with a
\* wrong name or size never is.
HandleFileAccepted(file) ==
    /\ Click /\ ImportStep("pick")
    /\ Start([Call("read") EXCEPT !.file = file])
    /\ ImportOnly(imp)

\* Mutant: what was selected in an earlier file stays selected.
FileLoadedKeeping(i, file) ==
    [i EXCEPT !.file = file, !.step = "confirm",
              !.selected = IF @ = {} THEN Rows(file) ELSE @]

\* The file becomes the one to import, all of its profiles selected.
FileLoaded(i, file) == [i EXCEPT !.file = file, !.step = "confirm", !.selected = Rows(file)]

FileRead(c) ==
    /\ c.kind = "read" /\ End(c)
    /\ ImportOnly(IF c.file = 0 THEN imp ELSE FileLoaded(imp, c.file))
    /\ UNCHANGED clicks

\* Back.
BackToPick ==
    /\ Click /\ ImportStep("confirm") /\ ~imp.importing
    /\ ImportOnly([imp EXCEPT !.file = Null, !.selected = {}, !.step = "pick"])
    /\ UNCHANGED calls

\* MultiSelectProfileList.
HandleSelectAll(rows, selected) ==
    IF rows # {} /\ Cardinality(selected) = Cardinality(rows) THEN {} ELSE rows

HandleToggle(row, selected) == IF row \in selected THEN selected \ {row} ELSE selected \cup {row}

SelectImport ==
    /\ Click /\ ImportStep("confirm")
    /\ \E chosen \in {HandleSelectAll(Rows(imp.file), imp.selected)}
                     \cup {HandleToggle(r, imp.selected) : r \in Rows(imp.file)} :
          ImportOnly([imp EXCEPT !.selected = chosen])
    /\ UNCHANGED calls

WouldExceedCap == Cardinality(listed) + Cardinality(imp.selected) > MaxProfiles

\* isSubmitDisabled.
ImportFree ==
    /\ ImportStep("confirm") /\ imp.file # Null /\ imp.selected # {}
    /\ ~WouldExceedCap /\ ~imp.importing /\ IsReauthComplete(ver["import"], acct)

\* The note beside the selection: the profiles that collect data as soon as they exist.
CollectingNote == {r \in imp.selected \cap Rows(imp.file) : CollectsData(r)}

HandleImport ==
    /\ Click /\ ImportFree
    /\ ImportOnly([imp EXCEPT !.importing = TRUE, !.result = Null])
    /\ Start([Call("import") EXCEPT
                !.file = imp.file, !.sent = imp.selected \cap Rows(imp.file),
                !.ticked = imp.selected, !.noted = CollectingNote,
                !.cred = Credential(ver["import"], acct)])

\* The profiles the server makes of a request.
Created(c) == {100 + c.at * 10 + r : r \in c.sent}

\* The results are shown in whatever the dialog has become.
ImportAnswered(c) ==
    /\ c.kind = "import" /\ End(c)
    /\ Consume(c.cred)
    /\ owned' = owned \cup Created(c)
    /\ imp' = [imp EXCEPT !.importing = FALSE, !.result = Created(c), !.step = "results"]
    /\ UNCHANGED <<acct, passkeys, listed, opened, ver, exp, issued, clicks, errors, changes>>

\* A failure keeps the step; the request may have been lost, refused, or have taken too
\* long after it did its work.
ImportFailed(c) ==
    /\ c.kind = "import" /\ End(c) /\ Fail
    /\ \/ UNCHANGED <<spent, owned>>
       \/ Consume(c.cred) /\ owned' \in {owned, owned \cup Created(c)}
    /\ imp' = [imp EXCEPT !.importing = FALSE]
    /\ UNCHANGED <<acct, passkeys, listed, opened, ver, exp, issued, clicks, changes>>

\* handleDone: the profiles are read again, then the dialog is closed.
HandleDone ==
    /\ Click /\ ImportStep("results") /\ imp.result # Null
    /\ Start(Call("done")) /\ ImportOnly(imp)

DoneAnswered(c) ==
    /\ c.kind = "done" /\ End(c)
    /\ \/ listed' = owned /\ UNCHANGED errors
       \/ Fail /\ UNCHANGED listed
    /\ Closed("import")
    /\ UNCHANGED <<acct, passkeys, owned, Server, clicks, changes>>
-----------------------------------------------------------------------------
(* Export *)

ExportOnly(e) == exp' = e /\ UNCHANGED <<Store, opened, ver, imp, Server, errors, changes>>

ChooseScope ==
    /\ Click /\ opened = "export"
    /\ \E scope \in {"all", "selected"} \ {exp.scope} : ExportOnly([exp EXCEPT !.scope = scope])
    /\ UNCHANGED calls

SelectExport ==
    /\ Click /\ opened = "export" /\ exp.scope = "selected"
    /\ \E chosen \in {HandleSelectAll(listed, exp.selected)}
                     \cup {HandleToggle(r, exp.selected) : r \in listed} :
          ExportOnly([exp EXCEPT !.selected = chosen])
    /\ UNCHANGED calls

IsScopeValid == exp.scope = "all" \/ exp.selected # {}

ExportFree == IsReauthComplete(ver["export"], acct) /\ IsScopeValid /\ ~exp.exporting

HandleSubmit ==
    /\ Click /\ opened = "export" /\ ExportFree
    /\ ExportOnly([exp EXCEPT !.exporting = TRUE])
    /\ Start([Call("export") EXCEPT
                !.sent = IF exp.scope = "selected" THEN exp.selected ELSE {},
                !.cred = Credential(ver["export"], acct)])

\* The file is saved and the dialog closed, also one that was opened again meanwhile.
ExportAnswered(c) ==
    /\ c.kind = "export" /\ End(c) /\ Consume(c.cred)
    /\ opened' = IF opened = "export" THEN Null ELSE opened
    /\ ver' = [ver EXCEPT !["export"] = NewVerification(PreferredMethod(acct, passkeys))]
    /\ exp' = NewExport
    /\ UNCHANGED <<Store, imp, issued, clicks, errors, changes>>

\* A failure keeps the dialog open.
ExportFailed(c) ==
    /\ c.kind = "export" /\ End(c) /\ Fail
    /\ \/ Consume(c.cred)
       \/ UNCHANGED spent
    /\ exp' = [exp EXCEPT !.exporting = FALSE]
    /\ UNCHANGED <<Store, opened, ver, imp, issued, clicks, changes>>
-----------------------------------------------------------------------------
(* Around the dialogs *)

\* The effects of the hook, in both dialogs, when the account or the passkeys change.
MethodEffects(account, keys) ==
    ver' = [d \in Dialogs |-> MethodEffect(ver[d], opened = d, account, keys)]

Change == changes > 0 /\ changes' = changes - 1

\* The page loads the passkeys after it is shown, and again after one was added or
\* removed.
LoadPasskeys(keys) ==
    /\ Change /\ keys # passkeys
    /\ "passkey" \in acct.methods /\ (~keys => "password" \in acct.methods)
    /\ passkeys' = keys /\ MethodEffects(acct, keys)
    /\ UNCHANGED <<acct, owned, listed, opened, imp, exp, calls, Server, clicks, errors>>

\* The loader replaces the store's account and profiles after a change elsewhere.
Revalidate(account) ==
    /\ Change /\ account # acct /\ acct.methods \subseteq account.methods
    /\ acct' = account /\ listed' = owned
    /\ MethodEffects(account, passkeys)
    /\ UNCHANGED <<passkeys, owned, opened, imp, exp, calls, Server, clicks, errors>>

BackupRestoreInit ==
    /\ acct \in {a \in Accounts : ~a.restricted} /\ passkeys \in {FALSE, "passkey" \in acct.methods}
    /\ owned = {1} /\ listed = owned /\ opened = Null
    /\ ver = [d \in Dialogs |-> NewVerification(PreferredMethod(acct, passkeys))]
    /\ imp = NewImport /\ exp = NewExport /\ calls = {} /\ issued = 0 /\ spent = {}
    /\ InitBounds

BackupRestoreNext ==
    \/ CloseDialog \/ BackToPick \/ SelectImport \/ HandleImport \/ HandleDone
    \/ ChooseScope \/ SelectExport \/ HandleSubmit
    \/ \E keys \in BOOLEAN : LoadPasskeys(keys)
    \/ \E d \in Dialogs : \/ OpenDialog(d) \/ TypePassword(d) \/ TypeOtp(d) \/ BeginPasskeyReauth(d)
                          \/ \E method \in Methods : SwitchMethod(d, method)
    \/ \E file \in Files : HandleFileAccepted(file)
    \/ \E c \in calls : \/ FileRead(c) \/ PasskeyReauthDone(c) \/ PasskeyReauthFailed(c)
                        \/ ImportAnswered(c) \/ ImportFailed(c) \/ DoneAnswered(c)
                        \/ ExportAnswered(c) \/ ExportFailed(c)
    \/ \E account \in Accounts : Revalidate(account)

BackupRestoreSpec == BackupRestoreInit /\ [][BackupRestoreNext]_brVars
-----------------------------------------------------------------------------
Requests(kinds) == {c \in calls : c.kind \in kinds}

\* What is sent is what is ticked, all of it in the file that is shown, and the note
\* names every profile that will collect data; also when two files are read at once or
\* one is read into a closed dialog.
ImportExact ==
    \A c \in Requests({"import"}) :
        /\ c.sent = c.ticked /\ c.sent \subseteq Rows(c.file)
        /\ {r \in c.sent : CollectsData(r)} = c.noted

=============================================================================
