----------------------------- MODULE AppSession -----------------------------
(***************************************************************************)
(* The session of the web application (app/src/App.tsx): the AuthProvider, *)
(* the loaders of the protected routes, the guards that move the user      *)
(* between routes, the response interceptor and the event bus between      *)
(* them.  Requests stay in flight across navigations, logouts and logins.  *)
(***************************************************************************)
EXTENDS AppStore, FiniteSets

CONSTANTS Accounts,    \* accounts that sign in on this browser, one after another
          InactiveAccounts, \* accounts whose subscription is cut off
          MaxSessions, \* bound: sessions opened on this browser
          MaxMishaps,  \* bound: reloads, other tabs' logouts, sessions ended elsewhere
                       \* and calls that fail for a transient reason
          MaxRequests  \* bound: requests in flight when the user acts

\* "home" stands for every route that loads account and profiles, "blocklists"
\* for the one that loads profiles only.
Protected == {"home", "blocklists", "account-preferences"}
Public == {"/", "login", "signup", "reset-password", "reset-password/token"}
NoNav == "none"

VARIABLES
    store,    \* the global store
    authKey,  \* localStorage's AUTH_KEY is "true"
    authed,   \* AuthProvider's isAuthenticated
    seen,     \* isAuthenticated at the last commit: what effects closed over
    mounted,  \* the tree is mounted, so the event bus has its subscriber
    pending,  \* an expiry was dispatched before anyone subscribed
    path,     \* the committed location
    nav,      \* the route a loader is blocking on
    reqs,     \* requests in flight
    cookie,   \* the session the browser's cookie names, 0 for none
    owner,    \* the account of each session opened here
    live,     \* sessions the server still knows
    standing, \* the subscription status of each account
    mixed,    \* an answer of another session or another tab's logout touched the store
    budget    \* mishaps left

sessionVars == <<store, authKey, authed, seen, mounted, pending, path, nav, reqs,
                 cookie, owner, live, standing, mixed, budget>>

Sessions == 1 .. MaxSessions

Profile(a) == [id |-> a]
ProfilesOf(a) == <<Profile(a)>>

\* A request of the session layer: the calls it makes, the session it was sent
\* with and whether the server knew it then.
Request(kind, to, calls, s) ==
    [kind |-> kind, to |-> to, calls |-> calls, sess |-> s, valid |-> s \in live]

AccountCalls == {"account", "profiles"}
Expired == {"401", "404"}   \* isAuthExpiryError
-----------------------------------------------------------------------------
(* Navigation and the loaders.  Each operator gives the next values of path,
   nav and reqs; key and s are the AUTH_KEY and the session they find. *)

\* ProtectedLayout mounts AccountCutoffGuard, which asks for the subscription
\* when the store has no status.
Entering(to, s) ==
    IF to \in Protected /\ path \notin Protected /\ store.subscriptionStatus = Null
    THEN {Request("subscription", NoNav, {"subscription"}, s)} ELSE {}

Commit(to) == path' = to /\ nav' = NoNav

\* A loader up to its await: no key sends the user to the login page, a hydrated
\* store is served at once and refreshed behind the page, otherwise the route
\* waits for the answer.
Loader(to, key, s, hydrated, blocking, background, calls) ==
    IF ~key THEN Commit("login") /\ UNCHANGED reqs
    ELSE IF hydrated
    THEN /\ Commit(to)
         /\ reqs' = reqs \cup Entering(to, s) \cup {Request(background, NoNav, calls, s)}
    ELSE /\ nav' = to
         /\ reqs' = reqs \cup {Request(blocking, to, calls, s)}
         /\ UNCHANGED path

RootLoader(to, key, s) ==
    Loader(to, key, s, store.account # Null /\ store.profiles # <<>>,
           "root", "revalidate", AccountCalls)

ProfilesOnlyLoader(to, key, s) ==
    Loader(to, key, s, store.profiles # <<>>, "profiles", "refetch", {"profiles"})

\* The route table.
NavigateWith(to, key, s) ==
    CASE to \in Public -> Commit(to) /\ UNCHANGED reqs
      [] to = "blocklists" -> ProfilesOnlyLoader(to, key, s)
      [] OTHER -> RootLoader(to, key, s)

Navigate(to) == NavigateWith(to, authKey, cookie)

\* The effects of the last commit have run; React runs them before it handles the
\* next event of the user.
Settled ==
    /\ mounted /\ seen = authed
    /\ ~(path \in {"login", "signup"} /\ seen /\ authKey /\ nav = NoNav)
    /\ path \in Protected => seen /\ authKey
    /\ path \in Protected \ {"account-preferences"} /\ IsCutOff(store)
          => nav = "account-preferences"

\* What the pages link to: the menu leads to every protected route and, through
\* the pages that need no session ("/" stands for all of them), out; the landing
\* page to the dashboard or to the login.
Links(p) ==
    CASE p \in Protected -> Protected \cup {"/"}
      [] p = "/" -> IF seen /\ authKey THEN {"home"} ELSE {"login"}
      [] p = "login" -> {"/", "reset-password"}
      [] OTHER -> {"login"}

\* The user follows a link or a menu entry.
FollowLink(to) ==
    /\ Settled /\ to \in Links(path) \ {path, nav}
    /\ Cardinality(reqs) < MaxRequests
    /\ Navigate(to)
    /\ UNCHANGED <<store, authKey, authed, seen, mounted, pending, cookie, owner,
                   live, standing, mixed, budget>>
-----------------------------------------------------------------------------
(* AuthProvider *)

\* setIsAuthenticated(false) with performLogoutSideEffects.
SignedOut ==
    /\ authed' = FALSE
    /\ authKey' = FALSE
    /\ store' = PerformLogoutSideEffects(store)
    /\ mixed' = FALSE

\* Mutant: the bus drops what was dispatched before it had a subscriber.
RenderNoFlush ==
    /\ nav = NoNav \/ mounted
    /\ ~mounted \/ seen # authed
    /\ mounted' = TRUE
    /\ pending' = FALSE
    /\ seen' = authed
    /\ authKey' = authed
    /\ IF ~authed /\ path \in Protected THEN Commit("login") ELSE UNCHANGED <<path, nav>>
    /\ UNCHANGED <<authed, store, mixed, reqs, cookie, owner, live, standing, budget>>

\* A commit: the effects that depend on isAuthenticated run again.  The key is
\* written, the bus is subscribed anew with the current value (flushing what was
\* dispatched before the first subscription) and a signed out user is moved off
\* a protected route.
Render ==
    /\ nav = NoNav \/ mounted
    /\ ~mounted \/ seen # authed
    /\ mounted' = TRUE
    /\ pending' = FALSE
    /\ IF pending /\ authed
       THEN SignedOut /\ Commit("login") /\ seen' = TRUE
       ELSE /\ seen' = authed
            /\ authKey' = authed
            /\ IF ~authed /\ path \in Protected THEN Commit("login")
               ELSE UNCHANGED <<path, nav>>
            /\ UNCHANGED <<authed, store, mixed>>
    /\ UNCHANGED <<reqs, cookie, owner, live, standing, budget>>

\* LoginWrapper and Signup: a signed in user leaves these pages.
LoginRedirect ==
    /\ mounted /\ path \in {"login", "signup"} /\ seen /\ authed /\ nav = NoNav
    /\ authKey   \* without the key the loader sends the user back: no change
    /\ Navigate("home")
    /\ UNCHANGED <<store, authKey, authed, seen, mounted, pending, cookie, owner,
                   live, standing, mixed, budget>>

\* ProtectedLayout renders a redirect when the key or the state says signed out.
LayoutRedirect ==
    /\ mounted /\ path \in Protected /\ ~(seen /\ authKey)
    /\ Commit("login")
    /\ UNCHANGED <<store, authKey, authed, seen, mounted, pending, reqs, cookie,
                   owner, live, standing, mixed, budget>>

\* AccountCutoffGuard: a cut off account sees its preferences only.
CutoffRedirect ==
    /\ mounted /\ seen /\ path \in Protected \ {"account-preferences"}
    /\ nav # "account-preferences"
    /\ IsCutOff(store)
    /\ Navigate("account-preferences")
    /\ UNCHANGED <<store, authKey, authed, seen, mounted, pending, cookie, owner,
                   live, standing, mixed, budget>>
-----------------------------------------------------------------------------
(* The answers *)

\* What a call may come back with.  The server answers some time between the
\* request and the delivery: from the session while it lives, with an expiry once
\* it is gone, or not at all (429, 5xx, no network).
Answers(r, call) ==
    (IF r.valid
     THEN {IF call = "profiles" /\ standing[owner[r.sess]] \in CutOff THEN "403" ELSE "ok"}
     ELSE {})
    \cup (IF r.sess \in live THEN {} ELSE IF call = "logout" THEN {"401"} ELSE Expired)

\* The answers to a request: one per call, the transient failures counted.
Outcomes(r) ==
    {ans \in [r.calls -> {"ok", "401", "404", "403", "error"}] :
        /\ \A c \in r.calls : ans[c] # "error" => ans[c] \in Answers(r, c)
        /\ Cardinality({c \in r.calls : ans[c] = "error"}) <= budget}

Spend(ans) ==
    budget' = budget - Cardinality({c \in DOMAIN ans : ans[c] = "error"})

\* The interceptor: a 401 on a page that is not an authentication page asks for a
\* logout (a 404 does so only when the page's own address names an account or a
\* profile, which no route does); the listener is mounted with the tree.
InterceptorLogsOut(ans) ==
    /\ mounted
    /\ \E c \in DOMAIN ans : ans[c] = "401"
    /\ path \notin {"login", "reset-password", "reset-password/token"}

\* What the loader's catch, or the revalidation, treats as a dead session.  A
\* subscription call swallows its error, a logout call reports it.
LoaderExpires(r, ans) ==
    CASE r.kind = "root" -> ans["account"] \in Expired
      [] r.kind = "revalidate" -> \E c \in AccountCalls : ans[c] \in Expired
      [] r.kind \in {"profiles", "refetch"} -> ans["profiles"] \in Expired
      [] OTHER -> FALSE

\* What a delivered answer writes into the store st: each call that succeeded;
\* the blocking loader writes an empty list when only the profiles failed and
\* nothing when the account did.
Written(r, ans, st) ==
    LET ok(c) == c \in r.calls /\ ans[c] = "ok"
        mine == owner[r.sess]
        account == IF ok("account") THEN [st EXCEPT !.account = mine] ELSE st
    IN CASE r.kind = "subscription" ->
               IF ok("subscription") THEN [st EXCEPT !.subscriptionStatus = standing[mine]] ELSE st
         [] r.kind = "root" /\ ~ok("account") -> st
         [] OTHER -> IF ok("profiles") THEN LoadProfiles(account, ProfilesOf(mine))
                     ELSE IF r.kind = "root" THEN LoadProfiles(account, <<>>) ELSE account

Holds(st) == st.account # Null \/ st.profiles # <<>> \/ st.subscriptionStatus # Null

\* The answer's data did not belong to the session the user is in.
Mixes(r, ans) == Written(r, ans, store) # store /\ (~authed \/ r.sess # cookie)

\* The subscriber signs the user out, if the render it closed over was signed in.
\* What a continuation writes after the interceptor's logout stays in the store;
\* a second expiry, dispatched by the revalidation, clears it again if the tree
\* has not rendered in between.
DeliverExpiry(r, ans) ==
    /\ mounted /\ seen
    /\ InterceptorLogsOut(ans) \/ LoaderExpires(r, ans)
    /\ authed' = FALSE /\ authKey' = FALSE
    /\ \/ LoaderExpires(r, ans) /\ store' = PerformLogoutSideEffects(store)
       \/ InterceptorLogsOut(ans) /\ store' = Written(r, ans, PerformLogoutSideEffects(store))
    /\ mixed' = Holds(store')
    /\ IF path = "login" /\ nav # r.to THEN UNCHANGED <<path, nav>> ELSE Commit("login")
    /\ reqs' = reqs \ {r}
    /\ UNCHANGED pending

\* The continuation writes the store whether or not anyone is still waiting; a
\* blocking loader that is still wanted moves to its route, or to the login page,
\* and before the tree is mounted its expiry waits on the bus.
DeliverData(r, ans) ==
    /\ ~(mounted /\ seen /\ (InterceptorLogsOut(ans) \/ LoaderExpires(r, ans)))
    /\ store' = Written(r, ans, store)
    /\ mixed' = (mixed \/ Mixes(r, ans))
    /\ pending' = (pending \/ (LoaderExpires(r, ans) /\ ~mounted))
    /\ IF r.to = NoNav \/ nav # r.to
       THEN reqs' = reqs \ {r} /\ UNCHANGED <<path, nav>>
       ELSE IF LoaderExpires(r, ans) THEN reqs' = reqs \ {r} /\ Commit("login")
       ELSE reqs' = (reqs \ {r}) \cup Entering(r.to, cookie) /\ Commit(r.to)
    /\ UNCHANGED <<authed, authKey>>

Deliver(r) ==
    /\ r.calls # {"logout"}
    /\ \E ans \in Outcomes(r) :
         Spend(ans) /\ (DeliverExpiry(r, ans) \/ DeliverData(r, ans))
    /\ UNCHANGED <<seen, mounted, cookie, owner, live, standing>>
-----------------------------------------------------------------------------
(* Logging out *)

\* The menu signs out at once and tells the server afterwards.
MenuLogout ==
    /\ Settled /\ path \in Protected /\ Cardinality(reqs) <= MaxRequests
    /\ SignedOut
    /\ reqs' = reqs \cup {Request("menuLogout", NoNav, {"logout"}, cookie)}
    /\ UNCHANGED <<seen, mounted, pending, path, nav, cookie, owner, live, standing, budget>>

\* The account page's header asks the server first; its dialog stays disabled
\* until the answer.
HeaderLogout ==
    /\ Settled /\ path = "account-preferences"
    /\ ~\E r \in reqs : r.kind = "headerLogout"
    /\ Cardinality(reqs) <= MaxRequests
    /\ reqs' = reqs \cup {Request("headerLogout", NoNav, {"logout"}, cookie)}
    /\ UNCHANGED <<store, authKey, authed, seen, mounted, pending, path, nav, cookie,
                   owner, live, standing, mixed, budget>>

\* The answer of a logout.  Its success also takes the cookie, whichever session
\* the cookie names by then; a 401 reaches the interceptor.
DeliverLogout(r) ==
    /\ r.calls = {"logout"}
    /\ reqs' = reqs \ {r}
    /\ \E ans \in Outcomes(r) :
         LET ok == ans["logout"] = "ok"
             out == InterceptorLogsOut(ans) /\ seen
         IN /\ Spend(ans)
            /\ cookie' = IF ok THEN 0 ELSE cookie
            /\ live' = IF ok THEN live \ {r.sess} ELSE live
            /\ IF out \/ (ok /\ r.kind = "headerLogout") THEN SignedOut
               ELSE UNCHANGED <<authed, authKey, store, mixed>>
            /\ IF out THEN Commit("login") ELSE UNCHANGED <<path, nav>>
    /\ UNCHANGED <<seen, mounted, pending, owner, standing>>
-----------------------------------------------------------------------------
(* The environment *)

\* A reload, or an address opened by hand or from a mail, starts the application
\* over: what is in flight is dropped, only the active profile is persisted, the
\* state is read from localStorage and the route's loader runs before the tree is
\* mounted.
Reload(to) ==
    /\ mounted /\ budget > 0
    /\ to \in {path, "signup", "reset-password/token"}
    /\ budget' = budget - 1
    /\ store' = FreshStore(store.activeProfile)
    /\ authed' = authKey /\ seen' = authKey /\ mounted' = FALSE /\ pending' = FALSE
    /\ mixed' = FALSE
    /\ IF to \in Public THEN path' = to /\ nav' = NoNav /\ reqs' = {}
       ELSE IF ~authKey THEN path' = "login" /\ nav' = NoNav /\ reqs' = {}
       ELSE /\ path' = "/" /\ nav' = to
            /\ reqs' = {IF to = "blocklists"
                        THEN Request("profiles", to, {"profiles"}, cookie)
                        ELSE Request("root", to, AccountCalls, cookie)}
    /\ UNCHANGED <<authKey, cookie, owner, live, standing>>

\* Another tab of the browser logs out: the key and the cookie go, this tab's
\* state does not change.
OtherTabLogout ==
    /\ cookie # 0 /\ budget > 0
    /\ budget' = budget - 1
    /\ authKey' = FALSE /\ cookie' = 0 /\ live' = live \ {cookie}
    /\ mixed' = TRUE
    /\ UNCHANGED <<store, authed, seen, mounted, pending, path, nav, reqs, owner,
                   standing>>

\* A session expires or is removed from another device.
SessionEnds ==
    /\ budget > 0 /\ budget' = budget - 1
    /\ \E s \in live : live' = live \ {s}
    /\ UNCHANGED <<store, authKey, authed, seen, mounted, pending, path, nav, reqs,
                   cookie, owner, standing, mixed>>

SessionInit ==
    /\ store = FreshStore(Null)
    /\ authKey = FALSE /\ authed = FALSE /\ seen = FALSE /\ mounted = FALSE
    /\ pending = FALSE /\ path = "login" /\ nav = NoNav /\ reqs = {}
    /\ cookie = 0 /\ owner = [s \in Sessions |-> Null] /\ live = {}
    /\ standing = [a \in Accounts |-> IF a \in InactiveAccounts THEN "inactive" ELSE "active"]
    /\ mixed = FALSE
    /\ budget = MaxMishaps
=============================================================================
