------------------------------- MODULE SignIn -------------------------------
(***************************************************************************)
(* The public forms of the web application: the login page with its two    *)
(* factor step, its passkey login and its session limit dialog, the signup *)
(* page, and the two password reset pages (app/src/pages/auth and          *)
(* app/src/lib/webauthn.ts), over the session of AppSession.  A form lives *)
(* as long as its page; an exchange with the server may outlive it.        *)
(***************************************************************************)
EXTENDS AppSession

CONSTANTS TotpAccounts, \* accounts with two factor authentication
          BusyAccounts, \* accounts at their session limit on other devices
          SessionLimit, \* sessions the server allows per account
          MaxCalls      \* bound: exchanges of the forms in flight

ASSUME SignInAssumption ==
    /\ TotpAccounts \subseteq Accounts /\ BusyAccounts \subseteq Accounts
    /\ InactiveAccounts \subseteq Accounts /\ SessionLimit \in Nat \ {0}

VARIABLES
    form,     \* the state of the form of the mounted public page
    exchanges, \* exchanges of the forms with the server
    others    \* sessions of each account on other devices

vars == <<sessionVars, form, exchanges, others>>

\* The forms as their pages mount them.  On the signup page shown is what the last
\* render saw of loading, which is what disables its buttons.
Form(page) ==
    CASE page = "login" ->
           [page |-> page, loading |-> FALSE, showOtp |-> FALSE, pendingEmail |-> Null,
            pendingPassword |-> "", limitDialog |-> FALSE]
      [] page = "signup" ->
           [page |-> page, loading |-> FALSE, shown |-> FALSE, submitting |-> FALSE]
      [] page = "reset-password" -> [page |-> page, loading |-> FALSE, sent |-> FALSE]
      [] page = "reset-password/token" ->
           [page |-> page, loading |-> FALSE, showOtp |-> FALSE]
      [] OTHER -> [page |-> "none", loading |-> FALSE]

\* The page is mounted and the user may act on it.
On(page) == Settled /\ path = page
            /\ Cardinality(exchanges) < MaxCalls /\ Cardinality(reqs) <= MaxRequests

\* An exchange: what it sends, and whether the form that started it is still the
\* mounted one.
Exchange(kind, email, password, otp, remove) ==
    [kind |-> kind, email |-> email, password |-> password, otp |-> otp,
     remove |-> remove, mine |-> TRUE]

Signups == {"signup", "passkeySignup", "passkeyRegister"}

Begin(c, f) == exchanges' = exchanges \cup {c} /\ form' = f

Untouched == UNCHANGED <<sessionVars, others>>
-----------------------------------------------------------------------------
(* The login page *)

\* handlePasswordSubmit, one of the card's two forms (its toggle swaps them while
\* nothing is loading).  Once a code was asked for, the credentials are those
\* kept from the first attempt, not the ones in the fields.
PasswordSubmit(email) ==
    /\ On("login") /\ ~form.loading /\ ~form.limitDialog
    /\ Begin(IF form.showOtp
             THEN Exchange("login", form.pendingEmail, form.pendingPassword, TRUE, FALSE)
             ELSE Exchange("login", email, "pw", FALSE, FALSE),
             [form EXCEPT !.loading = TRUE])
    /\ Untouched

\* handlePasskeyLogin up to the begin request.
PasskeySubmit(email) ==
    /\ On("login") /\ ~form.loading /\ ~form.limitDialog
    /\ Begin(Exchange("passkey", email, "", FALSE, FALSE), [form EXCEPT !.loading = TRUE])
    /\ Untouched

\* handleRemoveAllSessions: an empty password stands for a passkey login.  The
\* retry carries no one-time code.
RemoveAllSessions ==
    /\ On("login") /\ form.limitDialog
    /\ form.pendingEmail # Null
    /\ ~\E c \in exchanges : c.mine /\ c.remove
    /\ Begin(Exchange(IF form.pendingPassword = "" THEN "passkey" ELSE "login",
                  form.pendingEmail, form.pendingPassword, FALSE, TRUE), form)
    /\ Untouched

Forget(f) == [f EXCEPT !.limitDialog = FALSE, !.pendingEmail = Null, !.pendingPassword = ""]

\* handleCancelSessionLimit; the dialog's buttons are disabled during the retry.
CancelSessionLimit ==
    /\ On("login") /\ form.limitDialog
    /\ ~\E c \in exchanges : c.mine /\ c.remove
    /\ form' = Forget(form)
    /\ Untouched /\ UNCHANGED exchanges
-----------------------------------------------------------------------------
(* The signup and reset pages *)

\* handleSignup and handlePasskeySignup: the ref refuses a second submit before
\* the first one has rendered the button disabled.
SignupSubmit(kind) ==
    /\ Settled /\ path = "signup" /\ ~form.shown /\ Cardinality(exchanges) <= MaxCalls
    /\ ~form.submitting
    /\ kind \in {"signup", "passkeySignup"}
    /\ Begin(Exchange(kind, Null, "pw", FALSE, FALSE),
             [form EXCEPT !.submitting = TRUE, !.loading = TRUE])
    /\ Untouched

\* handleReset of the request page, and its resend once sent.
ResetSubmit ==
    /\ On("reset-password") /\ ~form.loading
    /\ Begin(Exchange("reset", Null, "", FALSE, FALSE), [form EXCEPT !.loading = TRUE])
    /\ Untouched

\* handleReset of the page the mailed link opens; the code is sent once asked for.
ResetConfirmSubmit ==
    /\ On("reset-password/token") /\ ~form.loading
    /\ Begin(Exchange("resetConfirm", Null, "pw", form.showOtp, FALSE),
             [form EXCEPT !.loading = TRUE])
    /\ Untouched

\* The signup page's next render.
FormRender ==
    /\ form.page = "signup" /\ form.shown # form.loading
    /\ form' = [form EXCEPT !.shown = form.loading]
    /\ Untouched /\ UNCHANGED exchanges
-----------------------------------------------------------------------------
(* The server and the authenticator *)

Owned(a) == {s \in live : owner[s] = a}
FreeSessions == {s \in Sessions : owner[s] = Null}
AtLimit(a) == others[a] + Cardinality(Owned(a)) >= SessionLimit

\* What an exchange may come back with.  The login endpoint checks the credentials,
\* the code, then the limit; the finish of a passkey login only the limit; a wrong
\* credential, or a cancelled ceremony, is refused.
Outcome(c) ==
    CASE c.kind \in {"login", "passkeyFinish"} ->
           {"refused"} \cup
           (IF c.email = Null THEN {}
            ELSE IF c.kind = "login" /\ c.email \in TotpAccounts /\ ~c.otp THEN {"totp"}
            ELSE IF ~c.remove /\ AtLimit(c.email) THEN {"limit"}
            ELSE {"session"})
      [] c.kind \in {"passkey", "passkeySignup"} -> {"refused"}
      [] c.kind = "resetConfirm" -> {"refused", "ok"} \cup IF c.otp THEN {} ELSE {"totp"}
      [] OTHER -> {"refused", "ok"}

\* authenticateWithPasskey between its two requests: the options arrive and the
\* user completes the ceremony.
Ceremony(c) ==
    /\ c.kind = "passkey"
    /\ exchanges' = (exchanges \ {c}) \cup {[c EXCEPT !.kind = "passkeyFinish"]}
    /\ Untouched /\ UNCHANGED form

\* registerPasskey between its two requests.
RegisterCeremony(c) ==
    /\ c.kind = "passkeySignup"
    /\ exchanges' = (exchanges \ {c}) \cup {[c EXCEPT !.kind = "passkeyRegister"]}
    /\ Untouched /\ UNCHANGED form
-----------------------------------------------------------------------------
(* The continuations *)

\* Entering a page mounts its form, and what is in flight no longer has the form
\* that sent it; f and rest are the form and the exchanges of a page that stays.
MountForm(f, rest) ==
    IF path' = path THEN form' = f /\ exchanges' = rest
    ELSE form' = Form(path') /\ exchanges' = {[c EXCEPT !.mine = FALSE] : c \in rest}

\* The continuation of c: it leaves the exchanges, and changes the form it belongs
\* to if that is still mounted.
Continue(c, f) == MountForm(IF c.mine THEN f ELSE form, exchanges \ {c})

\* auth.login() and the navigation home; the cookie came with the answer.  A login
\* that overtakes another one finds its data in the store.
Login(s) ==
    /\ mixed' = (mixed \/ authed)
    /\ authed' = TRUE /\ authKey' = TRUE
    /\ cookie' = s
    /\ NavigateWith("home", TRUE, s)

\* handleLogin, handlePasskeyLogin and handleRemoveAllSessions on success: the
\* server opened a session, after ending the account's others if asked to.
LoginSucceeds(c) ==
    /\ "session" \in Outcome(c) /\ FreeSessions # {}
    /\ LET s == Min(FreeSessions) IN
         /\ owner' = [owner EXCEPT ![s] = c.email]
         /\ live' = (IF c.remove THEN live \ Owned(c.email) ELSE live) \cup {s}
         /\ Login(s)
    /\ others' = IF c.remove THEN [others EXCEPT ![c.email] = 0] ELSE others
    /\ Continue(c, IF c.remove THEN Forget(form) ELSE [form EXCEPT !.loading = FALSE])
    /\ UNCHANGED <<store, seen, mounted, pending, standing, budget>>

\* The passkey login at the session limit: the callback opens the dialog and
\* authenticateWithPasskey returns normally, so the handler goes on to log in.
PasskeyAtLimit(c) ==
    /\ c.kind = "passkeyFinish" /\ "limit" \in Outcome(c)
    /\ Login(cookie)
    /\ Continue(c, [form EXCEPT !.limitDialog = TRUE, !.pendingEmail = c.email,
                                !.pendingPassword = "", !.loading = FALSE])
    /\ UNCHANGED <<store, seen, mounted, pending, owner, live, standing, budget, others>>

\* What the form keeps of a refused exchange: the code step keeps the credentials
\* and asks for the code, the session limit opens its dialog, any failure of the
\* retry closes it, the signup page allows another attempt.
AfterRefusal(c, code, f) ==
    IF c.kind \in {"login", "passkey", "passkeyFinish"} /\ c.remove THEN Forget(f)
    ELSE CASE c.kind = "login" /\ code = "totp" ->
                [f EXCEPT !.loading = FALSE, !.showOtp = TRUE,
                          !.pendingEmail = c.email, !.pendingPassword = c.password]
           [] c.kind = "login" /\ code = "limit" ->
                [f EXCEPT !.loading = FALSE, !.limitDialog = TRUE,
                          !.pendingEmail = c.email, !.pendingPassword = c.password]
           [] c.kind = "resetConfirm" /\ code = "totp" ->
                [f EXCEPT !.loading = FALSE, !.showOtp = TRUE]
           [] c.kind \in Signups ->
                [f EXCEPT !.loading = FALSE, !.submitting = FALSE]
           [] OTHER -> [f EXCEPT !.loading = FALSE]

CallRefused(c) ==
    /\ Untouched
    /\ \E code \in Outcome(c) \cap {"refused", "totp", "limit"} :
         /\ ~(c.kind = "passkeyFinish" /\ code = "limit")
         /\ Continue(c, AfterRefusal(c, code, form))

\* A created account, or a reset password, leads to the login page, wherever the
\* user is by then; a sent reset mail stays on its page.
CallSucceeds(c) ==
    /\ "ok" \in Outcome(c)
    /\ IF c.kind = "reset" THEN UNCHANGED <<path, nav>> ELSE Commit("login")
    /\ Continue(c, IF c.kind = "reset" THEN [form EXCEPT !.sent = TRUE, !.loading = FALSE]
                   ELSE [form EXCEPT !.loading = FALSE])
    /\ UNCHANGED <<store, authKey, authed, seen, mounted, pending, reqs, cookie, owner,
                   live, standing, mixed, budget, others>>
-----------------------------------------------------------------------------
Init ==
    /\ SessionInit
    /\ form = Form("login") /\ exchanges = {}
    /\ others = [a \in Accounts |-> IF a \in BusyAccounts THEN SessionLimit ELSE 0]

SignInNext ==
    \/ RemoveAllSessions \/ CancelSessionLimit \/ FormRender
    \/ \E email \in Accounts : PasswordSubmit(email) \/ PasskeySubmit(email)
    \/ SignupSubmit("signup") \/ SignupSubmit("passkeySignup")
    \/ ResetSubmit \/ ResetConfirmSubmit
    \/ \E c \in exchanges :
         \/ Ceremony(c) \/ RegisterCeremony(c) \/ LoginSucceeds(c) \/ PasskeyAtLimit(c)
         \/ CallRefused(c) \/ CallSucceeds(c)

Session(A) == A /\ MountForm(form, exchanges) /\ UNCHANGED others

\* A reload drops the exchanges of the forms too.
Restart(to) == Reload(to) /\ form' = Form(path') /\ exchanges' = {} /\ UNCHANGED others

Next ==
    \/ SignInNext
    \/ \E to \in Protected \cup Public : Session(FollowLink(to)) \/ Restart(to)
    \/ Session(Render) \/ Session(LoginRedirect)
    \/ Session(LayoutRedirect) \/ Session(CutoffRedirect)
    \/ \E r \in reqs : Session(Deliver(r)) \/ Session(DeliverLogout(r))
    \/ Session(MenuLogout) \/ Session(HeaderLogout)
    \/ Session(OtherTabLogout) \/ Session(SessionEnds)

\* React renders and runs its effects, and the loader the first page waits for
\* gets an answer.  The user, the network's failures and other devices owe nothing.
Fairness ==
    /\ WF_vars(Session(Render))
    /\ WF_vars(Session(\E r \in reqs : r.to = nav /\ Deliver(r)))

Spec == Init /\ [][Next]_vars /\ Fairness
-----------------------------------------------------------------------------
\* No account's data is on the screen of another: while signed in, the store holds
\* nothing of an account other than the session's, unless an answer to a request of
\* another session, or another tab's logout, came in between (logout, the loaders'
\* cache and login together have to make sure of it).
OwnDataUnlessMixed ==
    authed /\ cookie # 0 /\ ~mixed =>
        /\ store.account \in {Null, owner[cookie]}
        /\ \A i \in DOMAIN store.profiles : store.profiles[i] = Profile(owner[cookie])

\* A dead session signs the user out also on a cold start: an expiry the first
\* loader reports before the tree, and so the bus subscriber, is mounted is kept
\* until there is one, and the application ends signed out on the login page.
ExpirySignsOut == pending /\ authed ~> ~authed /\ path = "login"

=============================================================================
