----------------------------- MODULE AccountPage -----------------------------
(***************************************************************************)
(* The account page (app/src/pages/account_preferences): 2FA, email,       *)
(* password, passkeys, sessions, consent and the deletion of the account.  *)
(* The page keeps its own copy of the account beside the store's; one      *)
(* dialog is open at a time, Escape closes it while a request is under     *)
(* way, and the page can be left and opened again.                         *)
(***************************************************************************)
EXTENDS VerifyIdentity, FiniteSets

CONSTANTS Clicks,   \* bound: what the user does, typing and opening apart
          Errors,   \* bound: requests that fail
          MaxKeys   \* bound: passkeys of the account

ASSUME AccountPageBounds == {Clicks, Errors, MaxKeys} \subseteq Nat

\* The dialogs that hold their verification themselves stay mounted; the fields of the
\* others are gone when they are closed.
OwnFields == {"deleteAccount", "changeEmail"}
SharedFields == {"addPasskey", "deletePasskey", "setPassword"}
Verifying == OwnFields \cup SharedFields

VARIABLES
    srv,      \* the server: email, verified, totp, password, consent, keys, code
    acct,     \* the store's account
    keys,     \* the store's passkeys
    status,   \* the store's subscription status
    page,     \* what the page's components hold
    calls,    \* requests and ceremonies under way
    issued,   \* deletion codes so far
    left,     \* the page was left
    gone,     \* the account was deleted and the user signed out
    clicks, errors

apVars == <<srv, acct, keys, status, page, calls, issued, left, gone, clicks, errors>>

\* apiV1AccountsCurrentGet.
Current(s) ==
    [email |-> s.email, verified |-> s.verified, totp |-> s.totp, consent |-> s.consent,
     methods |-> (IF s.password THEN {"password"} ELSE {}) \cup (IF s.keys # {} THEN {"passkey"} ELSE {})]

NewDeletion == [code |-> Null, typed |-> Null, generating |-> FALSE, attempted |-> FALSE]
NewEmail == [step |-> "details", new |-> Null, confirm |-> Null]
NewSetup == [secret |-> FALSE, loading |-> FALSE, otp |-> FALSE, codes |-> FALSE, confirmed |-> FALSE]

\* The page as it is mounted with the store's account.
NewPage(account, hasKeys) ==
    [opened |-> Null, busy |-> {}, target |-> Null, deleting |-> Null, sent |-> FALSE, cooldown |-> FALSE,
     account |-> account, totp |-> account.totp, consent |-> account.consent,
     del |-> NewDeletion, mail |-> NewEmail, setup |-> NewSetup,
     ver |-> [d \in Verifying |-> NewVerification(PreferredMethod(account, hasKeys))]]

NoCredential == [password |-> FALSE, token |-> Null, otp |-> FALSE]

\* mine: the page it was started from is still there; at tells calls apart.
Call(kind) == [kind |-> kind, at |-> clicks, dialog |-> Null, arg |-> Null, on |-> FALSE, cred |-> NoCredential,
               mine |-> TRUE]

Click == clicks > 0 /\ clicks' = clicks - 1 /\ ~gone
Fail == errors > 0 /\ errors' = errors - 1

Rest == <<srv, acct, keys, status, issued, left, gone, errors>>

\* What an answer does to the page: nothing once it was left.
Page(c, p) == page' = IF c.mine THEN p ELSE page

Busy(kind) == kind \in page.busy
Free(p, kind) == [p EXCEPT !.busy = @ \ {kind}]
-----------------------------------------------------------------------------
(* Dialogs *)

\* Closing forgets the requests of two dialogs: one resets its flags, one is unmounted.
StillBusy(busy, d) ==
    busy \ (CASE d = "verifyEmail" -> {"sending", "verifying"}
              [] d = "setPassword" -> {"password"}
              [] OTHER -> {})

\* The dialog is gone: each one forgets what it holds.
Shut(p, d) ==
    LET fresh == NewVerification(PreferredMethod(acct, keys # {}))
        q == [p EXCEPT !.opened = IF @ = d THEN Null ELSE @,
                       !.busy = StillBusy(@, d),
                       !.ver = [x \in Verifying |-> IF x = d THEN fresh ELSE @[x]]]
    IN CASE d = "deleteAccount" -> [q EXCEPT !.del = NewDeletion]
         [] d = "changeEmail" -> [q EXCEPT !.mail = NewEmail]
         [] d = "enable2FA" -> [q EXCEPT !.setup.otp = FALSE]
         [] d = "verifyEmail" -> [q EXCEPT !.sent = FALSE, !.cooldown = FALSE]
         [] OTHER -> q

\* A ceremony of fields that are gone is answered to nobody.
Orphaned(d) ==
    {IF c.kind = "reauth" /\ c.dialog = d /\ d \in SharedFields THEN [c EXCEPT !.mine = FALSE] ELSE c : c \in calls}

\* The last passkey of an account without a password cannot be deleted.
IsOnlySignInMethod == ~PasswordAvailable(acct) /\ Cardinality(keys) <= 1

\* Which dialogs the page offers; one that is cut off keeps only the deletion.
Offered(d) ==
    /\ ~IsCutOff([subscriptionStatus |-> status]) \/ d = "deleteAccount"
    /\ d = "enable2FA" => ~page.totp
    /\ d = "disable2FA" => page.totp
    /\ d = "verifyEmail" => ~page.account.verified
    /\ d = "addPasskey" => ~Busy("adding")
    /\ d = "deletePasskey" => keys # {} /\ ~IsOnlySignInMethod

OpenDialog(d) ==
    /\ page.opened = Null /\ ~gone /\ Offered(d) /\ UNCHANGED clicks
    /\ \E k \in (IF d = "deletePasskey" THEN keys \ {page.deleting} ELSE {page.target}) :
          page' = [page EXCEPT
                     !.opened = d, !.target = k,
                     !.setup = IF d = "enable2FA" THEN [NewSetup EXCEPT !.loading = TRUE, !.secret = page.setup.secret]
                               ELSE @]
    /\ calls' = IF d = "enable2FA" THEN calls \cup {Call("setup")} ELSE calls
    /\ UNCHANGED Rest

\* Enable2FA holds on to backup codes that were not confirmed.
MayClose == page.opened = "enable2FA" => ~page.setup.codes \/ page.setup.confirmed

CloseDialog ==
    /\ Click /\ page.opened # Null /\ MayClose
    /\ page' = Shut(page, page.opened)
    /\ calls' = Orphaned(page.opened)
    /\ UNCHANGED Rest

\* A dialog that is not about verification submits a request and shows it is busy.
Submit(c, busy) ==
    /\ Click
    /\ page' = [page EXCEPT !.busy = @ \cup {busy}]
    /\ calls' = calls \cup {c}
    /\ UNCHANGED Rest

\* Typing, or choosing, inside a dialog.
Type(d, p) == page.opened = d /\ ~gone /\ p # page /\ page' = p /\ UNCHANGED <<calls, clicks, Rest>>
-----------------------------------------------------------------------------
(* Requests *)

\* The hook's effects in every dialog when the account or the passkeys change; a change
\* of method restarts the deletion.
MethodEffects(p, account, hasKeys) ==
    LET next == [d \in Verifying |->
                    MethodEffect(p.ver[d], p.opened = d,
                                 IF d = "changeEmail" THEN p.account ELSE account, hasKeys)]
    IN [p EXCEPT !.ver = next,
                 !.del = IF next["deleteAccount"].method # p.ver["deleteAccount"].method
                         THEN NewDeletion ELSE @]

\* A request failed, before or after the server did its work.
Failed(c, done, p) ==
    /\ Fail /\ srv' \in {srv, done}
    /\ Page(c, p) /\ calls' = calls \ {c}
    /\ UNCHANGED <<acct, keys, status, issued, left, gone, clicks>>

\* It was done, and the handler goes on with another request.
Done(c, done, p, next) ==
    /\ srv' = done /\ Page(c, p)
    /\ calls' = (calls \ {c}) \cup {[c EXCEPT !.kind = next, !.cred = NoCredential]}
    /\ UNCHANGED <<acct, keys, status, issued, left, gone, clicks, errors>>

\* It was done and the handler ends.
Ended(c, done, p) ==
    /\ srv' = done /\ Page(c, p) /\ calls' = calls \ {c}
    /\ UNCHANGED <<acct, keys, status, issued, left, gone, clicks, errors>>

\* The account is read and put into the store, then p of the page; ends or goes on.
Refreshed(c, p, next) ==
    /\ acct' = Current(srv)
    /\ Page(c, MethodEffects(p, acct', keys # {}))
    /\ calls' = (calls \ {c}) \cup {[c EXCEPT !.kind = k] : k \in next}
    /\ UNCHANGED <<srv, keys, status, issued, left, gone, clicks, errors>>

NotRefreshed(c, p, next) ==
    /\ Fail /\ Page(c, p)
    /\ calls' = (calls \ {c}) \cup {[c EXCEPT !.kind = k] : k \in next}
    /\ UNCHANGED <<srv, acct, keys, status, issued, left, gone, clicks>>
-----------------------------------------------------------------------------
(* Verification *)

\* ChangeEmail is given the page's copy of the account.
AccountOf(d) == IF d = "changeEmail" THEN page.account ELSE acct

\* Setting a first password always takes a passkey.
Method(d) ==
    IF d = "setPassword" THEN [page.ver[d] EXCEPT !.method = "passkey"] ELSE page.ver[d]

\* An account with a password changes it with the old one, without the shared fields.
FieldsShown(d) ==
    /\ page.opened = d
    /\ d = "setPassword" => ~PasswordAvailable(acct)
    /\ d = "changeEmail" => page.mail.step = "details"

SwitchMethod(d, method) ==
    /\ Click /\ FieldsShown(d) /\ d # "setPassword" /\ method # page.ver[d].method
    /\ Available(method, AccountOf(d), keys # {})
    /\ page' = [page EXCEPT !.ver[d] = WithMethod(@, method),
                            !.del = IF d = "deleteAccount" THEN NewDeletion ELSE @]
    /\ UNCHANGED <<calls, Rest>>

TypeCredential(d) ==
    /\ FieldsShown(d) /\ Method(d).method = "password"
    /\ \/ Type(d, [page EXCEPT !.ver[d].password = TRUE])
       \/ ShowOtp(Method(d), AccountOf(d)) /\ Type(d, [page EXCEPT !.ver[d].otp = TRUE])

BeginPasskeyReauth(d) ==
    /\ Click /\ FieldsShown(d) /\ ReauthFree(Method(d))
    /\ d \in SharedFields => ~Busy("adding") /\ ~Busy("password") /\ page.deleting = Null
    /\ page' = [page EXCEPT !.ver[d] = BeginReauth(@)]
    /\ calls' = calls \cup {[Call("reauth") EXCEPT !.dialog = d]}
    /\ UNCHANGED Rest

PasskeyReauthDone(c) ==
    /\ c.kind = "reauth"
    /\ Ended(c, srv, [page EXCEPT !.ver[c.dialog] =
                        IF c.dialog = "changeEmail" THEN ReauthDone(@, 1) ELSE FieldsDone(@, 1)])

PasskeyReauthFailed(c) ==
    /\ c.kind = "reauth"
    /\ Failed(c, srv, [page EXCEPT !.ver[c.dialog] = ReauthFailed(@)])

-----------------------------------------------------------------------------
(* 2FA *)

\* The secret of an opening arrives; a failure closes the dialog, whatever it shows.
SetupAnswered(c) ==
    /\ c.kind = "setup"
    /\ \/ Ended(c, srv, [page EXCEPT !.setup.secret = TRUE, !.setup.loading = FALSE])
       \/ Failed(c, srv, [page EXCEPT !.setup.loading = FALSE,
                                      !.opened = IF @ = "enable2FA" THEN Null ELSE @])

EnableFree ==
    /\ page.opened = "enable2FA" /\ ~page.setup.loading /\ page.setup.secret /\ page.setup.otp
    /\ ~Busy("enabling") /\ ~page.setup.codes

TypeOtp(d) ==
    /\ d = "enable2FA" => ~page.setup.loading
    /\ Type(d, [page EXCEPT !.setup.otp = TRUE])

HandleEnable2FA == EnableFree /\ Submit(Call("enable"), "enabling")

EnableAnswered(c) ==
    /\ c.kind = "enable"
    /\ \/ Ended(c, [srv EXCEPT !.totp = TRUE],
                Free([page EXCEPT !.setup.codes = TRUE, !.setup.otp = FALSE], "enabling"))
       \/ Failed(c, [srv EXCEPT !.totp = TRUE], Free(page, "enabling"))

HandleBackupCodesConfirmed ==
    /\ Click /\ page.opened = "enable2FA" /\ page.setup.codes
    /\ page' = [page EXCEPT !.setup.confirmed = TRUE]
    /\ calls' = calls \cup {[Call("codesDone") EXCEPT !.on = TRUE]}
    /\ UNCHANGED Rest

\* onEnabled is called and the dialog closed, also when the account could not be read.
CodesDone(c) ==
    /\ c.kind = "codesDone"
    /\ \/ Refreshed(c, Shut(page, "enable2FA"), {"changed2FA"})
       \/ NotRefreshed(c, Shut(page, "enable2FA"), {"changed2FA"})

HandleDisable2FA ==
    /\ page.opened = "disable2FA" /\ page.setup.otp /\ ~Busy("disabling")
    /\ Submit(Call("disable"), "disabling")

DisableAnswered(c) ==
    \/ /\ c.kind = "disable"
       /\ \/ Done(c, [srv EXCEPT !.totp = FALSE], page, "disabled")
          \/ Failed(c, [srv EXCEPT !.totp = FALSE], Free(page, "disabling"))
    \/ /\ c.kind = "disabled"
       /\ \/ Refreshed(c, Shut(Free(page, "disabling"), "disable2FA"), {"changed2FA"})
          \/ NotRefreshed(c, Shut(Free(page, "disabling"), "disable2FA"), {"changed2FA"})

\* handle2FAChanged.
Handle2FAChanged(c) ==
    LET closed == [page EXCEPT !.opened = IF @ \in {"enable2FA", "disable2FA"} THEN Null ELSE @] IN
    /\ c.kind = "changed2FA"
    /\ \/ Refreshed(c, [closed EXCEPT !.account = Current(srv), !.totp = srv.totp], {})
       \/ NotRefreshed(c, [closed EXCEPT !.totp = c.on], {})
-----------------------------------------------------------------------------
(* Email *)

\* A new address, which makes the user repeat it.
TypeEmail(new) ==
    /\ page.mail.step = "details"
    /\ Type("changeEmail", [page EXCEPT !.mail.new = new, !.mail.confirm = Null])

HandleContinue ==
    LET v == page.ver["changeEmail"] IN
    /\ page.mail.step = "details" /\ page.mail.new # Null /\ ~Busy("submitting")
    /\ IF v.method = "passkey" THEN v.status = "verified" /\ v.token # Null
       ELSE v.password /\ (ShowOtp(v, page.account) => v.otp)
    /\ Type("changeEmail", [page EXCEPT !.mail.step = "confirm"])

BackToDetails ==
    /\ page.mail.step = "confirm" /\ ~Busy("submitting")
    /\ Click /\ page.opened = "changeEmail"
    /\ page' = [page EXCEPT !.mail.step = "details"]
    /\ UNCHANGED <<calls, Rest>>

TypeConfirm(again) ==
    /\ page.mail.step = "confirm"
    /\ Type("changeEmail", [page EXCEPT !.mail.confirm = again])

EmailsMatch == page.mail.confirm # Null /\ page.mail.confirm = page.mail.new

SubmitEmail ==
    /\ page.opened = "changeEmail" /\ page.mail.step = "confirm"
    /\ EmailsMatch /\ ~Busy("submitting")
    /\ Submit([Call("email") EXCEPT !.arg = page.mail.new,
                                    !.cred = Credential(page.ver["changeEmail"], page.account)],
              "submitting")

\* Mutant: the page's own copy is left to the next visit.
EmailAnsweredQuietly(c) ==
    \/ /\ c.kind = "email"
       /\ \/ Done(c, [srv EXCEPT !.email = c.arg, !.verified = FALSE], page, "emailChanged")
          \/ Failed(c, [srv EXCEPT !.email = c.arg, !.verified = FALSE], Free(page, "submitting"))
    \/ /\ c.kind = "emailChanged"
       /\ Refreshed(c, Shut(Free(page, "submitting"), "changeEmail"), {})

\* The account is read into the store, the dialog closed, and the page reads it again.
EmailAnswered(c) ==
    \/ /\ c.kind = "email"
       /\ \/ Done(c, [srv EXCEPT !.email = c.arg, !.verified = FALSE], page, "emailChanged")
          \/ Failed(c, [srv EXCEPT !.email = c.arg, !.verified = FALSE], Free(page, "submitting"))
    \/ /\ c.kind = "emailChanged"
       /\ \/ Refreshed(c, Shut(Free(page, "submitting"), "changeEmail"), {"onChanged"})
          \/ NotRefreshed(c, Free(page, "submitting"), {})

\* onChanged and onVerified: the page's copy, then the dialogs are closed.
PageRefreshed(c) ==
    LET closed(p) == IF c.kind = "onChanged" THEN Shut(Shut(p, "changeEmail"), "verifyEmail")
                     ELSE Shut(p, "verifyEmail")
    IN /\ c.kind \in {"onChanged", "onVerified"}
       /\ \/ Refreshed(c, closed([page EXCEPT !.account = Current(srv)]), {})
          \/ NotRefreshed(c, closed(page), {})

\* A code is sent, again only after the cooldown.
RequestCode ==
    /\ page.opened = "verifyEmail" /\ ~Busy("sending") /\ ~page.cooldown
    /\ Submit(Call("requestCode"), "sending")

RequestCodeAnswered(c) ==
    /\ c.kind = "requestCode"
    /\ \/ Ended(c, srv, Free([page EXCEPT !.sent = TRUE, !.cooldown = TRUE], "sending"))
       \/ Failed(c, srv, Free(page, "sending"))

CooldownOver ==
    /\ page.cooldown /\ page' = [page EXCEPT !.cooldown = FALSE]
    /\ UNCHANGED <<calls, clicks, Rest>>

VerifyCode ==
    /\ page.opened = "verifyEmail" /\ page.sent /\ ~Busy("verifying")
    /\ Submit(Call("verify"), "verifying")

VerifyAnswered(c) ==
    /\ c.kind = "verify"
    /\ \/ Done(c, [srv EXCEPT !.verified = TRUE], Free(page, "verifying"), "onVerified")
       \/ Failed(c, srv, Free(page, "verifying"))
-----------------------------------------------------------------------------
(* Password, sessions, consent *)

\* With the old password and a 2FA code, or with a passkey's token.
PasswordCredential ==
    IF PasswordAvailable(acct) THEN [password |-> TRUE, token |-> Null, otp |-> acct.totp]
    ELSE Credential(Method("setPassword"), acct)

SubmitPassword ==
    /\ page.opened = "setPassword" /\ ~Busy("password")
    /\ PasswordAvailable(acct) \/ page.ver["setPassword"].token # Null
    /\ Submit([Call("password") EXCEPT !.cred = PasswordCredential], "password")

PasswordAnswered(c) ==
    \/ /\ c.kind = "password"
       /\ \/ Done(c, [srv EXCEPT !.password = TRUE], page, "passwordChanged")
          \/ Failed(c, [srv EXCEPT !.password = TRUE], Free(page, "password"))
    \/ /\ c.kind = "passwordChanged"
       /\ \/ Refreshed(c, Shut(Free(page, "password"), "setPassword"), {})
          \/ NotRefreshed(c, Free(page, "password"), {})

DeleteSessions ==
    /\ Click /\ page.opened = "deleteSessions"
    /\ calls' = calls \cup {Call("sessions")}
    /\ UNCHANGED <<page, Rest>>

SessionsAnswered(c) ==
    /\ c.kind = "sessions"
    /\ Ended(c, srv, Shut(page, "deleteSessions")) \/ Failed(c, srv, page)

HandleErrorReportsConsentChange(value) ==
    /\ page.opened = Null /\ ~IsCutOff([subscriptionStatus |-> status])
    /\ value # page.consent /\ ~Busy("consent")
    /\ Submit([Call("consent") EXCEPT !.on = value], "consent")

ConsentAnswered(c) ==
    /\ c.kind = "consent"
    /\ \/ Ended(c, [srv EXCEPT !.consent = c.on], Free([page EXCEPT !.consent = c.on], "consent"))
       \/ Failed(c, [srv EXCEPT !.consent = c.on], Free(page, "consent"))
-----------------------------------------------------------------------------
(* Passkeys *)

AddPasskey ==
    /\ page.opened = "addPasskey" /\ ~Busy("adding") /\ Verified(Method("addPasskey"), acct)
    /\ Submit([Call("addKey") EXCEPT !.dialog = "addPasskey", !.cred = Credential(Method("addPasskey"), acct)], "adding")

AddPasskeyAnswered(c) ==
    /\ c.kind = "addKey"
    /\ \/ Done(c, [srv EXCEPT !.keys = @ \cup {Min(1 .. MaxKeys \ @)}], Shut(page, "addPasskey"), "loadKeys")
       \/ Failed(c, srv, Free(page, "adding"))

ConfirmDeletePasskey ==
    /\ Click /\ page.opened = "deletePasskey" /\ page.target \notin {Null, page.deleting}
    /\ Verified(Method("deletePasskey"), acct)
    /\ page' = [page EXCEPT !.deleting = page.target]
    /\ calls' = calls \cup {[Call("deleteKey") EXCEPT !.dialog = "deletePasskey", !.arg = page.target,
                                !.cred = Credential(Method("deletePasskey"), acct)]}
    /\ UNCHANGED Rest

\* The server keeps the last passkey of an account without a password.
Removable(k) == srv.password \/ srv.keys \ {k} # {}

DeletedPage(p) == [Shut(p, "deletePasskey") EXCEPT !.deleting = Null, !.target = Null]

DeletePasskeyAnswered(c) ==
    /\ c.kind = "deleteKey"
    /\ \/ Removable(c.arg) /\ Done(c, [srv EXCEPT !.keys = @ \ {c.arg}], page, "loadKeys")
       \/ Failed(c, srv, DeletedPage(page))   \* or it was refused

\* loadPasskeys: on failure the list is emptied; whoever reloaded it then ends.
LoadPasskeys(c) ==
    /\ c.kind = "loadKeys"
    /\ \/ keys' = srv.keys /\ UNCHANGED errors
       \/ keys' = {} /\ Fail
    /\ LET p == CASE c.dialog = "addPasskey" -> Free(page, "adding")
              [] c.dialog = "deletePasskey" -> DeletedPage(page)
              [] OTHER -> page
       IN Page(c, MethodEffects(p, acct, keys' # {}))
    /\ calls' = calls \ {c}
    /\ UNCHANGED <<srv, acct, status, issued, left, gone, clicks>>
-----------------------------------------------------------------------------
(* Deleting the account *)

\* The effect, and the button after a failure.
GenerateDeletionCode ==
    /\ page.opened = "deleteAccount" /\ ~gone
    /\ page.del.code = Null /\ ~page.del.generating
    /\ IF page.del.attempted THEN Click ELSE UNCHANGED clicks
    /\ page' = [page EXCEPT !.del.generating = TRUE, !.del.attempted = TRUE]
    /\ calls' = calls \cup {[Call("code") EXCEPT !.arg = Cardinality({c \in calls : c.kind = "code"})]}
    /\ UNCHANGED Rest

\* The server knows only the last code it issued.
GenerateAnswered(c) ==
    /\ c.kind = "code"
    /\ \/ /\ issued' = issued + 1 /\ srv' = [srv EXCEPT !.code = issued']
          /\ Page(c, [page EXCEPT !.del.code = issued', !.del.generating = FALSE])
          /\ calls' = calls \ {c}
          /\ UNCHANGED <<acct, keys, status, left, gone, clicks, errors>>
       \/ Failed(c, srv, [page EXCEPT !.del.generating = FALSE])

TypeCode ==
    /\ page.del.code # Null /\ ~page.del.generating
    /\ Type("deleteAccount", [page EXCEPT !.del.typed = page.del.code])

HandleConfirm ==
    LET v == page.ver["deleteAccount"] IN
    /\ page.opened = "deleteAccount" /\ ~Busy("deleting") /\ ~page.del.generating
    /\ page.del.code # Null /\ page.del.typed # Null
    /\ IF v.method = "passkey" THEN keys # {} /\ v.status = "verified" /\ v.token # Null
       ELSE PasswordAvailable(acct) /\ v.password /\ (ShowOtp(v, acct) => v.otp)
    /\ Submit([Call("delete") EXCEPT !.arg = page.del.typed, !.cred = Credential(v, acct)], "deleting")

DeleteAnswered(c) ==
    /\ c.kind = "delete"
    /\ \/ /\ c.arg = srv.code /\ gone' = TRUE   \* the user is signed out
          /\ calls' = {} /\ page' = NewPage(acct, keys # {})
          /\ UNCHANGED <<srv, acct, keys, status, issued, left, clicks, errors>>
       \/ Failed(c, srv, Free(page, "deleting"))
       \/ c.arg # srv.code /\ Ended(c, srv, Free(page, "deleting"))
-----------------------------------------------------------------------------
(* Around the dialogs *)

\* The page is left and opened again, with the store's account; the passkeys are loaded.
Remount ==
    /\ Click /\ page.opened = Null
    /\ page' = NewPage(acct, keys # {}) /\ left' = TRUE
    /\ calls' = {[c EXCEPT !.mine = FALSE] : c \in calls} \cup {Call("loadKeys")}
    /\ UNCHANGED <<srv, acct, keys, status, issued, gone, errors>>

\* Bound: accounts with a password, a password and 2FA and passkeys, or passkeys alone,
\* the last with a subscription that has lapsed.
Firsts ==
    {[password |-> TRUE, keys |-> {}, totp |-> FALSE, status |-> "active"],
     [password |-> TRUE, keys |-> {1}, totp |-> TRUE, status |-> "active"],
     [password |-> FALSE, keys |-> {1, 2}, totp |-> FALSE, status |-> "active"],
     [password |-> FALSE, keys |-> {1}, totp |-> FALSE, status |-> "inactive"]}

AccountPageInit ==
    /\ \E first \in Firsts :
          /\ srv = [email |-> 0, verified |-> FALSE, totp |-> first.totp, password |-> first.password,
                    consent |-> FALSE, keys |-> first.keys, code |-> 0]
          /\ status = first.status
    /\ acct = Current(srv) /\ keys = {}
    /\ page = NewPage(acct, FALSE) /\ issued = 0 /\ left = FALSE /\ gone = FALSE
    /\ clicks = Clicks /\ errors = Errors
    /\ calls = {Call("loadKeys")}

AccountPageNext ==
    \/ \E d \in Verifying \cup {"enable2FA", "disable2FA", "verifyEmail", "deleteSessions"} : OpenDialog(d)
    \/ CloseDialog \/ HandleEnable2FA \/ HandleBackupCodesConfirmed \/ HandleDisable2FA
    \/ HandleContinue \/ BackToDetails \/ SubmitEmail \/ RequestCode \/ CooldownOver \/ VerifyCode
    \/ SubmitPassword \/ DeleteSessions \/ AddPasskey \/ ConfirmDeletePasskey
    \/ GenerateDeletionCode \/ TypeCode \/ HandleConfirm \/ Remount
    \/ \E d \in Verifying : \/ TypeCredential(d) \/ BeginPasskeyReauth(d)
                            \/ \E method \in Methods : SwitchMethod(d, method)
    \/ \E d \in {"enable2FA", "disable2FA"} : TypeOtp(d)
    \/ TypeEmail(1) \/ \E again \in 0 .. 1 : TypeConfirm(again)   \* bound: one new address
    \/ \E on \in BOOLEAN : HandleErrorReportsConsentChange(on)
    \/ \E c \in calls :
          \/ PasskeyReauthDone(c) \/ PasskeyReauthFailed(c) \/ SetupAnswered(c) \/ EnableAnswered(c)
          \/ CodesDone(c) \/ DisableAnswered(c) \/ Handle2FAChanged(c) \/ EmailAnswered(c)
          \/ PageRefreshed(c) \/ RequestCodeAnswered(c) \/ VerifyAnswered(c) \/ PasswordAnswered(c)
          \/ SessionsAnswered(c) \/ ConsentAnswered(c) \/ AddPasskeyAnswered(c)
          \/ DeletePasskeyAnswered(c) \/ LoadPasskeys(c) \/ GenerateAnswered(c) \/ DeleteAnswered(c)

AccountPageSpec == AccountPageInit /\ [][AccountPageNext]_apVars
-----------------------------------------------------------------------------
Requests(kinds) == {c \in calls : c.kind \in kinds}

\* However late passkeys are loaded and ceremonies answered, a request to add or delete
\* a passkey, to change the password or to delete the account carries exactly one
\* credential, a password or a token.
RequestVerified ==
    \A c \in Requests({"addKey", "deleteKey", "password", "delete"}) : ExactlyOne(c.cred)

\* When nothing is under way and nothing failed, the store has the email address and its
\* status as the server has them, and a page that was not left shows them, and the
\* consent, whatever was closed and reopened meanwhile.
AccountShown ==
    calls = {} /\ errors = Errors /\ ~gone =>
        /\ acct.email = srv.email /\ acct.verified = srv.verified
        /\ ~left => /\ page.account.email = srv.email /\ page.account.verified = srv.verified
                    /\ page.consent = srv.consent

=============================================================================
