---------------------------- MODULE AccountProofs ---------------------------
(***************************************************************************)
(* The account, signing in and managed.  For any accounts, sessions,       *)
(* requests in flight and mishaps: while signed in, the store holds        *)
(* nothing of an account other than the one of the session the browser     *)
(* names.  For any number of clicks, failures and passkeys: the account    *)
(* page sends no sensitive request without exactly one credential, and     *)
(* when nothing is under way and nothing failed it shows what the server   *)
(* has.                                                                    *)
(***************************************************************************)
EXTENDS SignIn, AccountPage, TLAPS

(* Signing in *)

StoreFields == {"account", "profiles", "activeProfile", "subscriptionStatus"}

\* The store holds no account and no profiles, or those of an account.
Empty(st) == st.account = Null /\ st.profiles = <<>>
Of(st, a) ==
    /\ st.account \in {Null, a}
    /\ \A i \in DOMAIN st.profiles : st.profiles[i] = Profile(a)

\* Who is signed out leaves nothing behind for the next login, which may be another
\* account's; whoever is signed in sees their own.
OwnInv ==
    /\ DOMAIN store = StoreFields
    /\ ~authed /\ ~mixed => Empty(store)
    /\ authed /\ cookie # 0 /\ ~mixed => Of(store, owner[cookie])
-----------------------------------------------------------------------------
(* The store *)

\* A fresh store is empty, also the one a logout leaves.
LEMMA FreshIsEmpty ==
    \A active : /\ DOMAIN FreshStore(active) = StoreFields /\ Empty(FreshStore(active))
                /\ PerformLogoutSideEffects(active) = FreshStore(Null)
BY DEF FreshStore, PerformLogoutSideEffects, StoreFields, Empty

\* An empty store may be anyone's.
LEMMA EmptyIsOf == \A st, a : Empty(st) => Of(st, a)
<1> SUFFICES ASSUME NEW st, NEW a, Empty(st) PROVE Of(st, a)
  OBVIOUS
<1>1. DOMAIN << >> = {}
  OBVIOUS
<1> QED
  BY <1>1 DEF Empty, Of

\* Loading profiles replaces the list and leaves the account alone.
LEMMA LoadsList ==
    ASSUME NEW st, DOMAIN st = StoreFields, NEW list
    PROVE  /\ DOMAIN LoadProfiles(st, list) = StoreFields
           /\ LoadProfiles(st, list).account = st.account
           /\ LoadProfiles(st, list).profiles = list
<1> DEFINE loaded == [st EXCEPT !.profiles = list]
<1>1. DOMAIN loaded = StoreFields /\ loaded.account = st.account /\ loaded.profiles = list
  BY DEF StoreFields
<1> HIDE DEF loaded
<1>2. \E x : RestoreActiveProfile(loaded, list) = [loaded EXCEPT !.activeProfile = x]
  BY DEF RestoreActiveProfile
<1>3. PICK x : RestoreActiveProfile(loaded, list) = [loaded EXCEPT !.activeProfile = x]
  BY <1>2
<1>4. LoadProfiles(st, list) = [loaded EXCEPT !.activeProfile = x]
  BY <1>3 DEF LoadProfiles, loaded
<1> QED
  BY <1>1, <1>4 DEF StoreFields

\* An answer writes what is its session's account's.
LEMMA WritesOwn ==
    ASSUME NEW st, DOMAIN st = StoreFields, NEW r, NEW ans
    PROVE  /\ DOMAIN Written(r, ans, st) = StoreFields
           /\ Of(st, owner[r.sess]) => Of(Written(r, ans, st), owner[r.sess])
<1> DEFINE mine == owner[r.sess]
           ok(c) == c \in r.calls /\ ans[c] = "ok"
           account == IF ok("account") THEN [st EXCEPT !.account = mine] ELSE st
           subscribed == [st EXCEPT !.subscriptionStatus = standing[mine]]
<1>1. /\ DOMAIN account = StoreFields /\ account.profiles = st.profiles
      /\ account.account \in {mine, st.account}
  BY DEF StoreFields
<1>2. /\ DOMAIN subscribed = StoreFields /\ subscribed.profiles = st.profiles
      /\ subscribed.account = st.account
  BY DEF StoreFields
<1>3. Written(r, ans, st) \in {st, account, subscribed, LoadProfiles(account, ProfilesOf(mine)),
                               LoadProfiles(account, <<>>)}
  BY DEF Written
<1> HIDE DEF account, subscribed, ok
<1>4. CASE Written(r, ans, st) \in {st, account, subscribed}
  BY <1>1, <1>2, <1>4 DEF Of
<1>5. CASE Written(r, ans, st) = LoadProfiles(account, ProfilesOf(mine))
  <2>1. /\ DOMAIN Written(r, ans, st) = StoreFields
        /\ Written(r, ans, st).account = account.account
        /\ Written(r, ans, st).profiles = <<Profile(mine)>>
    BY <1>1, <1>5, LoadsList DEF ProfilesOf
  <2>2. \A i \in DOMAIN <<Profile(mine)>> : <<Profile(mine)>>[i] = Profile(mine)
    OBVIOUS
  <2> QED
    BY <1>1, <2>1, <2>2 DEF Of
<1>6. CASE Written(r, ans, st) = LoadProfiles(account, <<>>)
  <2>1. /\ DOMAIN Written(r, ans, st) = StoreFields
        /\ Written(r, ans, st).account = account.account
        /\ Written(r, ans, st).profiles = <<>>
    BY <1>1, <1>6, LoadsList
  <2>2. DOMAIN << >> = {}
    OBVIOUS
  <2> QED
    BY <1>1, <2>1, <2>2 DEF Of
<1> QED
  BY <1>3, <1>4, <1>5, <1>6

-----------------------------------------------------------------------------
(* Kinds of steps *)

\* Nothing of the session changes, but the browser may lose its cookie.
Quiet == UNCHANGED <<store, authed, mixed, owner>> /\ cookie' \in {cookie, 0}

LEMMA QuietKeeps == OwnInv /\ Quiet => OwnInv'
BY DEF OwnInv, Quiet, Empty, Of

\* Signing out empties the store.
LEMMA SignedOutKeeps == OwnInv /\ SignedOut => OwnInv'
<1> SUFFICES ASSUME SignedOut PROVE OwnInv'
  OBVIOUS
<1>1. store' = FreshStore(Null) /\ authed' = FALSE
  BY FreshIsEmpty DEF SignedOut
<1>2. DOMAIN store' = StoreFields /\ Empty(store')
  BY <1>1, FreshIsEmpty
<1>3. Empty(store)'
  BY <1>2 DEF Empty
<1> QED
  BY <1>1, <1>2, <1>3 DEF OwnInv

\* Signing in finds an empty store, or is marked.
LEMMA LoginKeeps ==
    ASSUME OwnInv, NEW s, Login(s), UNCHANGED store
    PROVE  OwnInv'
<1>1. ~mixed' => ~mixed /\ ~authed
  BY DEF Login
<1>2. ~mixed' => Empty(store)
  BY <1>1 DEF OwnInv
<1>3. ~mixed' => Of(store, owner'[cookie'])
  BY <1>2, EmptyIsOf
<1>4. authed' = TRUE /\ store' = store
  BY DEF Login
<1> QED
  BY <1>3, <1>4 DEF OwnInv, Of

\* A reload starts from an empty store.
LEMMA ReloadKeeps ==
    ASSUME OwnInv, NEW to, Reload(to)
    PROVE  OwnInv'
<1>1. store' = FreshStore(store.activeProfile)
  BY DEF Reload
<1>2. DOMAIN store' = StoreFields /\ Empty(store')
  BY <1>1, FreshIsEmpty
<1>3. Of(store', owner'[cookie'])
  BY <1>2, EmptyIsOf
<1> QED
  BY <1>2, <1>3 DEF OwnInv, Empty, Of

-----------------------------------------------------------------------------
(* The answers *)

LEMMA DeliverKeeps ==
    ASSUME OwnInv, NEW r, Deliver(r)
    PROVE  OwnInv'
<1>1. PICK ans : DeliverExpiry(r, ans) \/ DeliverData(r, ans)
  BY DEF Deliver
<1>2. cookie' = cookie /\ owner' = owner /\ DOMAIN store = StoreFields
  BY DEF Deliver, OwnInv
<1>3. CASE DeliverExpiry(r, ans)
  <2> DEFINE cleared == PerformLogoutSideEffects(store)
  <2>1. /\ authed' = FALSE /\ mixed' = Holds(store')
        /\ store' = cleared \/ store' = Written(r, ans, cleared)
    BY <1>3 DEF DeliverExpiry
  <2>2. DOMAIN cleared = StoreFields
    BY FreshIsEmpty
  <2>3. DOMAIN store' = StoreFields
    BY <2>1, <2>2, WritesOwn
  <2>4. ~mixed' => Empty(store')
    BY <2>1 DEF Holds, Empty
  <2> QED
    BY <2>1, <2>3, <2>4 DEF OwnInv, Empty
<1>4. CASE DeliverData(r, ans)
  <2>1. /\ store' = Written(r, ans, store) /\ authed' = authed
        /\ mixed' = (mixed \/ Mixes(r, ans))
    BY <1>4 DEF DeliverData
  <2>2. /\ DOMAIN store' = StoreFields
        /\ Of(store, owner[r.sess]) => Of(store', owner[r.sess])
    BY <1>2, <2>1, WritesOwn
  <2>3. ~mixed' => ~mixed /\ (store' = store \/ (authed /\ r.sess = cookie))
    BY <2>1 DEF Mixes
  <2>4. ASSUME ~authed', ~mixed' PROVE Empty(store)'
    BY <2>1, <2>3, <2>4 DEF OwnInv, Empty
  <2>5. ASSUME authed', cookie' # 0, ~mixed' PROVE Of(store', owner[cookie])
    <3>1. Of(store, owner[cookie])
      BY <1>2, <2>1, <2>3, <2>5 DEF OwnInv
    <3> QED
      BY <2>2, <2>3, <2>5, <3>1
  <2> QED
    BY <1>2, <2>2, <2>4, <2>5 DEF OwnInv, Of
<1> QED
  BY <1>1, <1>3, <1>4

LEMMA DeliverLogoutKeeps ==
    ASSUME OwnInv, NEW r, DeliverLogout(r)
    PROVE  OwnInv'
<1>1. /\ UNCHANGED owner /\ cookie' \in {cookie, 0}
      /\ SignedOut \/ UNCHANGED <<authed, store, mixed>>
  BY DEF DeliverLogout
<1>2. CASE SignedOut
  BY <1>2, SignedOutKeeps
<1>3. CASE UNCHANGED <<authed, store, mixed>>
  BY <1>1, <1>3, QuietKeeps DEF Quiet
<1> QED
  BY <1>1, <1>2, <1>3

-----------------------------------------------------------------------------
(* The specification *)

LEMMA FormsKeep == OwnInv /\ SignInNext => OwnInv'
<1> SUFFICES ASSUME OwnInv, SignInNext PROVE OwnInv'
  OBVIOUS
<1>1. ASSUME Untouched PROVE OwnInv'
  BY <1>1, QuietKeeps DEF Untouched, sessionVars, Quiet
<1>2. ASSUME \/ RemoveAllSessions \/ CancelSessionLimit \/ FormRender
             \/ \E email : PasswordSubmit(email) \/ PasskeySubmit(email)
             \/ \E kind : SignupSubmit(kind)
             \/ ResetSubmit \/ ResetConfirmSubmit
             \/ \E c : Ceremony(c) \/ RegisterCeremony(c) \/ CallRefused(c)
      PROVE  OwnInv'
  BY <1>1, <1>2 DEF RemoveAllSessions, CancelSessionLimit, FormRender, PasswordSubmit, PasskeySubmit,
     SignupSubmit, ResetSubmit, ResetConfirmSubmit, Ceremony, RegisterCeremony, CallRefused
<1>3. ASSUME NEW c, LoginSucceeds(c) PROVE OwnInv'
  <2>1. Login(Min(FreeSessions)) /\ UNCHANGED store
    BY <1>3 DEF LoginSucceeds
  <2> QED
    BY <2>1, LoginKeeps
<1>4. ASSUME NEW c, PasskeyAtLimit(c) PROVE OwnInv'
  <2>1. Login(cookie) /\ UNCHANGED store
    BY <1>4 DEF PasskeyAtLimit
  <2> QED
    BY <2>1, LoginKeeps
<1>5. ASSUME NEW c, CallSucceeds(c) PROVE OwnInv'
  BY <1>5, QuietKeeps DEF CallSucceeds, Quiet
<1> QED
  BY <1>2, <1>3, <1>4, <1>5, Zenon DEF SignInNext

LEMMA SessionKeeps ==
    ASSUME OwnInv,
           \/ \E to : FollowLink(to) \/ Reload(to)
           \/ Render \/ LoginRedirect \/ LayoutRedirect \/ CutoffRedirect
           \/ \E r : Deliver(r) \/ DeliverLogout(r)
           \/ MenuLogout \/ HeaderLogout \/ OtherTabLogout \/ SessionEnds
    PROVE  OwnInv'
<1>1. ASSUME NEW to, FollowLink(to) PROVE OwnInv'
  BY <1>1, QuietKeeps DEF FollowLink, Quiet
<1>2. ASSUME LoginRedirect \/ LayoutRedirect \/ CutoffRedirect \/ HeaderLogout \/ SessionEnds
      PROVE  OwnInv'
  BY <1>2, QuietKeeps DEF LoginRedirect, LayoutRedirect, CutoffRedirect, HeaderLogout, SessionEnds, Quiet
<1>3. ASSUME Render PROVE OwnInv'
  <2>1. SignedOut \/ Quiet
    BY <1>3 DEF Render, Quiet
  <2> QED
    BY <2>1, SignedOutKeeps, QuietKeeps
<1>4. ASSUME MenuLogout PROVE OwnInv'
  BY <1>4, SignedOutKeeps DEF MenuLogout
<1>5. ASSUME OtherTabLogout PROVE OwnInv'
  BY <1>5 DEF OtherTabLogout, OwnInv
<1> QED
  BY <1>1, <1>2, <1>3, <1>4, <1>5, ReloadKeeps, DeliverKeeps, DeliverLogoutKeeps

\* The store is shaped, and holds nothing of another account.
THEOREM OwnInvariant == Spec => []OwnInv
<1>1. Init => OwnInv
  BY FreshIsEmpty DEF Init, SessionInit, OwnInv
<1>2. OwnInv /\ [Next]_vars => OwnInv'
  <2> SUFFICES ASSUME OwnInv, [Next]_vars PROVE OwnInv'
    OBVIOUS
  <2>1. CASE UNCHANGED vars
    BY <2>1, QuietKeeps DEF vars, sessionVars, Quiet
  <2>2. CASE Next
    BY <2>2, FormsKeep, SessionKeeps DEF Next, Session, Restart
  <2> QED
    BY <2>1, <2>2
<1> QED
  BY <1>1, <1>2, PTL DEF Spec

\* While signed in, the store holds the account and the profiles of the session's
\* account and of no other, for any number of accounts, sessions and requests in flight,
\* unless an answer to another session's request or another tab's logout came in between
\* (performLogoutSideEffects, the loaders and login).
THEOREM OwnData == Spec => []OwnDataUnlessMixed
<1>1. OwnInv => OwnDataUnlessMixed
  BY DEF OwnInv, Of, OwnDataUnlessMixed
<1> QED
  BY <1>1, OwnInvariant, PTL

-----------------------------------------------------------------------------
(* The account page *)

Verifications ==
    [method : Methods, password : BOOLEAN, otp : BOOLEAN, token : {Null, 1},
     status : {"idle", "in-progress", "verified", "error"}]

PageFields == {"opened", "busy", "target", "deleting", "sent", "cooldown", "account", "totp",
               "consent", "del", "mail", "setup", "ver"}
FormsOK(p) == PageFields \subseteq DOMAIN p /\ p.ver \in [Verifying -> Verifications]

CallFields == {"kind", "at", "dialog", "arg", "on", "cred", "mine"}
Sensitive == {"addKey", "deleteKey", "password", "delete"}
CallOK(c) == CallFields \subseteq DOMAIN c /\ (c.kind \in Sensitive => ExactlyOne(c.cred))

ServerFields == {"email", "verified", "totp", "password", "consent", "keys", "code"}

Fresh(account) == account.email = srv.email /\ account.verified = srv.verified

\* As long as nothing failed: what is out of date is being read, by a handler that
\* will tell the store, and the page unless it was left
ToldStore == Fresh(acct) \/ \E c \in calls : c.kind \in {"emailChanged", "onVerified"}
ToldPage ==
    /\ \A c \in calls : c.mine \/ c.kind = "reauth"
    /\ Fresh(page.account) \/ \E c \in calls : c.kind \in {"emailChanged", "onChanged", "onVerified"}
    /\ page.consent = srv.consent

AccountInv ==
    /\ FormsOK(page) /\ \A c \in calls : CallOK(c)
    /\ ServerFields \subseteq DOMAIN srv
    /\ errors \in Nat /\ errors <= Errors
    /\ errors = Errors /\ ~gone => ToldStore /\ (~left => ToldPage)

-----------------------------------------------------------------------------

\* A dialog's verification stays one, whatever happens to it.
LEMMA VerificationKept ==
    /\ \A account, hasKeys : PreferredMethod(account, hasKeys) \in Methods
    /\ \A m \in Methods : NewVerification(m) \in Verifications
    /\ \A v \in Verifications :
         /\ \A m \in Methods : WithMethod(v, m) \in Verifications
         /\ BeginReauth(v) \in Verifications /\ ReauthFailed(v) \in Verifications
         /\ ReauthDone(v, 1) \in Verifications /\ FieldsDone(v, 1) \in Verifications
         /\ [v EXCEPT !.password = TRUE] \in Verifications
         /\ [v EXCEPT !.otp = TRUE] \in Verifications
<1>1. \A account, hasKeys : PreferredMethod(account, hasKeys) \in Methods
  BY DEF PreferredMethod, Methods
<1>2. \A m \in Methods : NewVerification(m) \in Verifications
  BY DEF NewVerification, Verifications
<1>3. ASSUME NEW v \in Verifications
      PROVE  /\ \A m \in Methods : WithMethod(v, m) \in Verifications
             /\ BeginReauth(v) \in Verifications /\ ReauthFailed(v) \in Verifications
             /\ ReauthDone(v, 1) \in Verifications /\ FieldsDone(v, 1) \in Verifications
             /\ [v EXCEPT !.password = TRUE] \in Verifications
             /\ [v EXCEPT !.otp = TRUE] \in Verifications
  <2>1. ASSUME NEW m \in Methods PROVE WithMethod(v, m) \in Verifications
    <3>1. [v EXCEPT !.method = m].method = m
      BY DEF Verifications
    <3> QED
      BY <1>2, <3>1 DEF WithMethod, ResetCredentials
  <2>2. BeginReauth(v) \in Verifications /\ ReauthFailed(v) \in Verifications
    BY DEF BeginReauth, ReauthFailed, Verifications
  <2>3. ReauthDone(v, 1) \in Verifications /\ FieldsDone(v, 1) \in Verifications
    BY DEF ReauthDone, FieldsDone, Verifications
  <2>4. [v EXCEPT !.password = TRUE] \in Verifications /\ [v EXCEPT !.otp = TRUE] \in Verifications
    BY DEF Verifications
  <2> QED
    BY <2>1, <2>2, <2>3, <2>4
<1> QED
  BY <1>1, <1>2, <1>3

\* What a change of the page keeps: its shape, and the account and consent it shows.
Keeps(p, r) == FormsOK(r) /\ r.account = p.account /\ r.consent = p.consent

\* Closing a dialog does.
LEMMA ShutKeeps ==
    ASSUME NEW p, FormsOK(p), NEW d
    PROVE  Keeps(p, Shut(p, d))
<1> DEFINE fresh == NewVerification(PreferredMethod(acct, keys # {}))
           q == [p EXCEPT !.opened = IF @ = d THEN Null ELSE @,
                          !.busy = StillBusy(@, d),
                          !.ver = [x \in Verifying |-> IF x = d THEN fresh ELSE @[x]]]
<1>1. fresh \in Verifications
  BY VerificationKept
<1> HIDE DEF fresh
<1>2. DOMAIN q = DOMAIN p /\ q.account = p.account /\ q.consent = p.consent
      /\ q.ver = [x \in Verifying |-> IF x = d THEN fresh ELSE p.ver[x]]
  BY DEF FormsOK, PageFields
<1>3. Keeps(p, q)
  BY <1>1, <1>2 DEF Keeps, FormsOK
<1>4. Shut(p, d) = CASE d = "deleteAccount" -> [q EXCEPT !.del = NewDeletion]
                     [] d = "changeEmail" -> [q EXCEPT !.mail = NewEmail]
                     [] d = "enable2FA" -> [q EXCEPT !.setup.otp = FALSE]
                     [] d = "verifyEmail" -> [q EXCEPT !.sent = FALSE, !.cooldown = FALSE]
                     [] OTHER -> q
  BY DEF Shut, fresh
<1> HIDE DEF q
<1> QED
  BY <1>3, <1>4 DEF Keeps, FormsOK, PageFields

\* So do the effects of the hook.
LEMMA EffectsKeep ==
    ASSUME NEW p, FormsOK(p), NEW account, NEW hasKeys
    PROVE  Keeps(p, MethodEffects(p, account, hasKeys))
<1> DEFINE Advanced(d) == MethodEffect(p.ver[d], p.opened = d,
                                   IF d = "changeEmail" THEN p.account ELSE account, hasKeys)
           next == [d \in Verifying |-> Advanced(d)]
<1>1. \A d \in Verifying : Advanced(d) \in Verifications
  <2> SUFFICES ASSUME NEW d \in Verifying PROVE Advanced(d) \in Verifications
    OBVIOUS
  <2>1. p.ver[d] \in Verifications
    BY DEF FormsOK
  <2> QED
    BY <2>1, VerificationKept DEF MethodEffect
<1> HIDE DEF Advanced
<1>2. next \in [Verifying -> Verifications]
  BY <1>1
<1> HIDE DEF next
<1>3. MethodEffects(p, account, hasKeys)
        = [p EXCEPT !.ver = next,
                    !.del = IF next["deleteAccount"].method # p.ver["deleteAccount"].method
                            THEN NewDeletion ELSE @]
  BY DEF MethodEffects, next, Advanced
<1> QED
  BY <1>2, <1>3 DEF Keeps, FormsOK, PageFields

\* A page as it is mounted has its shape.
LEMMA NewPageOK ==
    \A account, hasKeys : /\ FormsOK(NewPage(account, hasKeys))
                          /\ NewPage(account, hasKeys).account = account
                          /\ NewPage(account, hasKeys).consent = account.consent
<1> SUFFICES ASSUME NEW account, NEW hasKeys
    PROVE  /\ FormsOK(NewPage(account, hasKeys))
           /\ NewPage(account, hasKeys).account = account
           /\ NewPage(account, hasKeys).consent = account.consent
  OBVIOUS
<1> DEFINE v == NewVerification(PreferredMethod(account, hasKeys))
<1>1. v \in Verifications
  BY VerificationKept
<1> HIDE DEF v
<1>2. NewPage(account, hasKeys) =
        [opened |-> Null, busy |-> {}, target |-> Null, deleting |-> Null, sent |-> FALSE, cooldown |-> FALSE,
         account |-> account, totp |-> account.totp, consent |-> account.consent,
         del |-> NewDeletion, mail |-> NewEmail, setup |-> NewSetup,
         ver |-> [d \in Verifying |-> v]]
  BY DEF NewPage, v
<1> QED
  BY <1>1, <1>2 DEF FormsOK, PageFields

\* Two keepings in a row keep.
LEMMA KeepsTwice == \A p, q, r : Keeps(p, q) /\ Keeps(q, r) => Keeps(p, r)
BY DEF Keeps

\* A credential that was verified is exactly one.
LEMMA CredentialExact ==
    /\ \A v \in Verifications : \A account :
         (IF v.method = "passkey" THEN v.token # Null ELSE v.password)
            => ExactlyOne(Credential(v, account))
    /\ \A otp : ExactlyOne([password |-> TRUE, token |-> Null, otp |-> otp])
BY DEF Verifications, Methods, Credential, ExactlyOne, ShowOtp

\* A new call has its fields, and carries nothing.
LEMMA NewCall ==
    \A kind : /\ CallFields \subseteq DOMAIN Call(kind)
              /\ Call(kind).kind = kind /\ Call(kind).mine = TRUE
BY DEF Call, CallFields

-----------------------------------------------------------------------------
(* Kinds of steps *)

Telling == {"emailChanged", "onChanged", "onVerified"}

\* The user does something: calls under way stay, those of fields that are gone are
\* answered to nobody.
UserStep ==
    /\ UNCHANGED <<srv, acct, left, gone, errors>>
    /\ Keeps(page, page')
    /\ \A c \in calls' : CallOK(c)
    /\ \A c \in calls : c.kind \in Telling => c \in calls'
    /\ \A c \in calls' : c \in calls \/ c.mine \/ c.kind = "reauth"

LEMMA UserStepKeeps == AccountInv /\ UserStep => AccountInv'
BY DEF AccountInv, UserStep, Keeps, ToldStore, ToldPage, Fresh, Telling

\* A request fails.
FailStep ==
    /\ Fail /\ FormsOK(page') /\ UNCHANGED <<left, gone>>
    /\ DOMAIN srv' = DOMAIN srv
    /\ \A c \in calls' : CallOK(c)

LEMMA FailStepKeeps == AccountInv /\ FailStep => AccountInv'
<1> SUFFICES ASSUME AccountInv, FailStep PROVE AccountInv'
  OBVIOUS
<1>1. errors' \in Nat /\ errors' <= Errors /\ errors' # Errors
  BY AccountPageBounds DEF AccountInv, FailStep, Fail
<1> QED
  BY <1>1 DEF AccountInv, FailStep

\* A request that changed neither email nor consent is answered, and the handler may go on.
AnswerStep(c) ==
    /\ UNCHANGED <<acct, left, gone, errors>>
    /\ c \in calls /\ c.kind \notin Telling
    /\ Keeps(page, page')
    /\ DOMAIN srv' = DOMAIN srv
    /\ srv'.email = srv.email /\ srv'.verified = srv.verified /\ srv'.consent = srv.consent
    /\ \A x \in calls' : CallOK(x)
    /\ \A x \in calls' : x \in calls \/ (x.mine = c.mine /\ x.kind # "reauth")
    /\ c.kind # "reauth"
    /\ calls \ {c} \subseteq calls'

LEMMA AnswerStepKeeps ==
    ASSUME AccountInv, NEW c, AnswerStep(c)
    PROVE  AccountInv'
BY DEF AccountInv, AnswerStep, Keeps, ToldStore, ToldPage, Fresh, Telling

\* A call that is answered, and the one the handler goes on with.
LEMMA NextCall ==
    ASSUME NEW c, CallOK(c), NEW kind, kind \notin Sensitive
    PROVE  /\ CallOK([c EXCEPT !.kind = kind]) /\ CallOK([c EXCEPT !.kind = kind, !.cred = NoCredential])
           /\ [c EXCEPT !.kind = kind].kind = kind /\ [c EXCEPT !.kind = kind].mine = c.mine
           /\ [c EXCEPT !.kind = kind, !.cred = NoCredential].kind = kind
           /\ [c EXCEPT !.kind = kind, !.cred = NoCredential].mine = c.mine
BY DEF CallOK, CallFields

\* A handler that fails.
LEMMA FailedKeeps ==
    ASSUME AccountInv, NEW c \in calls, NEW done, DOMAIN done = DOMAIN srv,
           NEW p, FormsOK(p), Failed(c, done, p)
    PROVE  AccountInv'
<1>1. FailStep
  BY DEF AccountInv, Failed, FailStep, Page
<1> QED
  BY <1>1, FailStepKeeps

\* A handler that ends, with the email, its status and the consent as they were.
LEMMA EndedKeeps ==
    ASSUME AccountInv, NEW c \in calls, c.kind \notin Telling \cup {"reauth"},
           NEW done, DOMAIN done = DOMAIN srv, done.email = srv.email,
           done.verified = srv.verified, done.consent = srv.consent,
           NEW p, Keeps(page, p), Ended(c, done, p)
    PROVE  AccountInv'
<1>1. Keeps(page, page')
  BY DEF Ended, Page, AccountInv, Keeps
<1>2. AnswerStep(c)
  BY <1>1 DEF AccountInv, Ended, AnswerStep
<1> QED
  BY <1>2, AnswerStepKeeps

\* One that goes on with another request.
LEMMA DoneKeeps ==
    ASSUME AccountInv, NEW c \in calls, c.kind \notin Telling \cup {"reauth"},
           NEW done, DOMAIN done = DOMAIN srv, done.email = srv.email,
           done.verified = srv.verified, done.consent = srv.consent,
           NEW p, Keeps(page, p), NEW next, next \notin Sensitive \cup {"reauth"}, Done(c, done, p, next)
    PROVE  AccountInv'
<1>1. Keeps(page, page')
  BY DEF Done, Page, AccountInv, Keeps
<1>2. CallOK(c)
  BY DEF AccountInv
<1>3. calls' = (calls \ {c}) \cup {[c EXCEPT !.kind = next, !.cred = NoCredential]}
  BY DEF Done
<1>4. \A x \in calls' : x \in calls \/ (CallOK(x) /\ x.mine = c.mine /\ x.kind = next)
  <2>1. LET x == [c EXCEPT !.kind = next, !.cred = NoCredential]
        IN CallOK(x) /\ x.mine = c.mine /\ x.kind = next
    BY <1>2, NextCall
  <2> QED
    BY <1>3, <2>1
<1>5. AnswerStep(c)
  BY <1>1, <1>3, <1>4 DEF AccountInv, Done, AnswerStep
<1> QED
  BY <1>5, AnswerStepKeeps

\* One that reads the account into the store, from a page p that keeps the account shown
\* or takes it from the server.
LEMMA RefreshedKeeps ==
    ASSUME AccountInv, NEW c \in calls, NEW p, FormsOK(p), p.consent = page.consent,
           NEW next, \A k \in next : k \notin Sensitive \cup {"reauth"},
           p.account = page.account \/ p.account = Current(srv),
           p.account = Current(srv) \/ c.kind \notin Telling \/ "onChanged" \in next,
           c.kind # "reauth",
           Refreshed(c, p, next)
    PROVE  AccountInv'
<1> DEFINE r == MethodEffects(p, acct', keys # {})
<1>1. Keeps(p, r)
  BY EffectsKeep
<1> HIDE DEF r
<1>2. /\ acct' = Current(srv) /\ page' = IF c.mine THEN r ELSE page
      /\ calls' = (calls \ {c}) \cup {[c EXCEPT !.kind = k] : k \in next}
      /\ srv' = srv /\ left' = left /\ gone' = gone /\ errors' = errors
  BY DEF Refreshed, Page, r
<1>3. CallOK(c) /\ \A x \in calls : CallOK(x)
  BY DEF AccountInv
<1>4. \A x \in calls' : CallOK(x) /\ (x \in calls \/ (x.mine = c.mine /\ x.kind \in next))
  <2> SUFFICES ASSUME NEW x \in calls', x \notin calls
      PROVE  CallOK(x) /\ x.mine = c.mine /\ x.kind \in next
    BY <1>3
  <2>1. PICK k \in next : x = [c EXCEPT !.kind = k]
    BY <1>2
  <2>2. k \notin Sensitive
    OBVIOUS
  <2>3. /\ CallOK([c EXCEPT !.kind = k]) /\ [c EXCEPT !.kind = k].kind = k
        /\ [c EXCEPT !.kind = k].mine = c.mine
    BY <1>3, <2>2, NextCall
  <2> QED
    BY <2>1, <2>3
<1>5. "onChanged" \in next => \E x \in calls' : x.kind = "onChanged"
  <2>1. "onChanged" \in next => [c EXCEPT !.kind = "onChanged"] \in calls'
    BY <1>2
  <2>2. [c EXCEPT !.kind = "onChanged"].kind = "onChanged"
    BY <1>3 DEF CallOK, CallFields
  <2> QED
    BY <2>1, <2>2
<1>6. FormsOK(page') /\ (c.mine => page'.account = p.account) /\ page'.consent = page.consent
  BY <1>1, <1>2 DEF Keeps, AccountInv
<1>7. Current(srv).email = srv.email /\ Current(srv).verified = srv.verified
  BY DEF Current
<1>8. ToldStore'
  BY <1>2, <1>7 DEF ToldStore, Fresh
<1>9. ASSUME errors = Errors, ~gone, ~left PROVE ToldPage'
  <2>1. ToldPage /\ c.mine
    BY <1>9 DEF AccountInv, ToldPage
  <2>2. \A x \in calls' : x.mine \/ x.kind = "reauth"
    BY <1>4, <2>1 DEF ToldPage
  <2>3. CASE p.account = Current(srv)
    <3>1. page'.account.email = srv'.email /\ page'.account.verified = srv'.verified
      BY <1>2, <1>6, <1>7, <2>1, <2>3
    <3> QED
      BY <1>2, <1>6, <2>1, <2>2, <3>1 DEF ToldPage, Fresh
  <2>4. CASE p.account = page.account /\ "onChanged" \in next
    BY <1>2, <1>5, <1>6, <2>1, <2>2, <2>4 DEF ToldPage
  <2>5. CASE p.account = page.account /\ c.kind \notin Telling
    BY <1>2, <1>6, <2>1, <2>2, <2>5 DEF ToldPage, Fresh, Telling
  <2> QED
    BY <2>3, <2>4, <2>5
<1> QED
  BY <1>2, <1>4, <1>6, <1>8, <1>9 DEF AccountInv

LEMMA NotRefreshedKeeps ==
    ASSUME AccountInv, NEW c \in calls, NEW p, FormsOK(p),
           NEW next, \A k \in next : k \notin Sensitive,
           NotRefreshed(c, p, next)
    PROVE  AccountInv'
<1>1. CallOK(c) /\ \A x \in calls : CallOK(x)
  BY DEF AccountInv
<1>2. \A x \in calls' : CallOK(x)
  <2> SUFFICES ASSUME NEW x \in calls', x \notin calls PROVE CallOK(x)
    BY <1>1
  <2>1. PICK k \in next : x = [c EXCEPT !.kind = k]
    BY DEF NotRefreshed
  <2> QED
    BY <1>1, <2>1, NextCall
<1>3. FailStep
  BY <1>2 DEF AccountInv, NotRefreshed, FailStep, Page
<1> QED
  BY <1>3, FailStepKeeps

\* One that changed the email or its status, and goes on to read the account.
LEMMA TellingKeeps ==
    ASSUME AccountInv, NEW c \in calls, c.kind \notin Telling \cup {"reauth"},
           NEW done, DOMAIN done = DOMAIN srv, done.consent = srv.consent,
           NEW p, Keeps(page, p), NEW next \in {"emailChanged", "onVerified"}, Done(c, done, p, next)
    PROVE  AccountInv'
<1> DEFINE n == [c EXCEPT !.kind = next, !.cred = NoCredential]
<1>1. Keeps(page, page')
  BY DEF Done, Page, AccountInv, Keeps
<1>2. CallOK(n) /\ n.mine = c.mine /\ n.kind = next
  <2>1. CallOK(c) /\ next \notin Sensitive
    BY DEF AccountInv, Sensitive
  <2> QED
    BY <2>1, NextCall
<1>3. /\ srv' = done /\ calls' = (calls \ {c}) \cup {n}
      /\ acct' = acct /\ left' = left /\ gone' = gone /\ errors' = errors
  BY DEF Done
<1> HIDE DEF n
<1>4. ToldStore'
  BY <1>2, <1>3 DEF ToldStore
<1>5. errors = Errors /\ ~gone /\ ~left => ToldPage'
  BY <1>1, <1>2, <1>3 DEF AccountInv, ToldPage, Keeps
<1> QED
  BY <1>1, <1>2, <1>3, <1>4, <1>5 DEF AccountInv, Keeps

-----------------------------------------------------------------------------
(* What the user does *)

\* A new call that carries nothing sensitive, or a verified credential.
LEMMA NewCallOK ==
    /\ \A kind : kind \notin Sensitive => CallOK(Call(kind))
    /\ \A kind, x, y, z : /\ kind \notin Sensitive => CallOK([Call(kind) EXCEPT !.arg = x])
                          /\ kind \notin Sensitive => CallOK([Call(kind) EXCEPT !.on = x])
                          /\ kind \notin Sensitive => CallOK([Call(kind) EXCEPT !.dialog = x])
                          /\ kind \notin Sensitive => CallOK([Call(kind) EXCEPT !.arg = x, !.cred = y])
                          /\ ExactlyOne(y) => CallOK([Call(kind) EXCEPT !.cred = y])
                          /\ ExactlyOne(y) => CallOK([Call(kind) EXCEPT !.arg = x, !.cred = y])
                          /\ ExactlyOne(y) => CallOK([Call(kind) EXCEPT !.dialog = x, !.cred = y])
                          /\ ExactlyOne(y) =>
                                CallOK([Call(kind) EXCEPT !.dialog = x, !.arg = z, !.cred = y])
BY DEF Call, CallOK, CallFields

LEMMA NewCallMine ==
    \A kind, x, y, z : /\ Call(kind).mine
                       /\ [Call(kind) EXCEPT !.arg = x].mine /\ [Call(kind) EXCEPT !.on = x].mine
                       /\ [Call(kind) EXCEPT !.dialog = x].mine /\ [Call(kind) EXCEPT !.cred = y].mine
                       /\ [Call(kind) EXCEPT !.arg = x, !.cred = y].mine
                       /\ [Call(kind) EXCEPT !.dialog = x, !.cred = y].mine
                       /\ [Call(kind) EXCEPT !.dialog = x, !.arg = z, !.cred = y].mine
BY DEF Call

\* A new request from a page that keeps what it shows.
LEMMA AsksKeeps ==
    ASSUME AccountInv, UNCHANGED Rest, Keeps(page, page'), NEW c, CallOK(c), c.mine,
           calls' = calls \cup {c} \/ calls' = calls
    PROVE  AccountInv'
<1>1. UserStep
  BY DEF AccountInv, UserStep, Rest
<1> QED
  BY <1>1, UserStepKeeps

LEMMA SubmitKeeps ==
    ASSUME AccountInv, NEW c, CallOK(c), c.mine, NEW busy, Submit(c, busy)
    PROVE  AccountInv'
<1>1. Keeps(page, page')
  BY DEF AccountInv, Submit, Keeps, FormsOK, PageFields
<1> QED
  BY <1>1, AsksKeeps DEF Submit

LEMMA TypeKeeps ==
    ASSUME AccountInv, NEW d, NEW p, Keeps(page, p), Type(d, p)
    PROVE  AccountInv'
<1>1. UserStep
  BY DEF AccountInv, UserStep, Type, Rest
<1> QED
  BY <1>1, UserStepKeeps

\* The fields of the page other than the verifications, the account and the consent.
LEMMA FieldKeeps ==
    ASSUME NEW p, FormsOK(p), NEW x, NEW y, NEW z
    PROVE  /\ Keeps(p, [p EXCEPT !.opened = x]) /\ Keeps(p, [p EXCEPT !.busy = x])
           /\ Keeps(p, [p EXCEPT !.opened = x, !.target = y, !.setup = z])
           /\ Keeps(p, [p EXCEPT !.setup = x]) /\ Keeps(p, [p EXCEPT !.setup = x, !.opened = y])
           /\ Keeps(p, [p EXCEPT !.mail = x]) /\ Keeps(p, [p EXCEPT !.del = x])
           /\ Keeps(p, [p EXCEPT !.totp = x]) /\ Keeps(p, [p EXCEPT !.opened = x, !.totp = y])
           /\ Keeps(p, [p EXCEPT !.sent = x, !.cooldown = y]) /\ Keeps(p, [p EXCEPT !.cooldown = x])
           /\ Keeps(p, [p EXCEPT !.deleting = x]) /\ Keeps(p, [p EXCEPT !.deleting = x, !.target = y])
           /\ Keeps(p, p)
BY DEF Keeps, FormsOK, PageFields

\* A verification of the page.
LEMMA VerKeeps ==
    ASSUME NEW p, FormsOK(p), NEW d, NEW v, d \in Verifying => v \in Verifications, NEW x
    PROVE  /\ Keeps(p, [p EXCEPT !.ver[d] = v])
           /\ Keeps(p, [p EXCEPT !.ver[d] = v, !.del = x])
BY DEF Keeps, FormsOK, PageFields

LEMMA VerOfPage ==
    ASSUME AccountInv, NEW d \in Verifying
    PROVE  page.ver[d] \in Verifications /\ Method(d) \in Verifications
           /\ (d # "setPassword" => Method(d) = page.ver[d])
           /\ (d = "setPassword" => Method(d).method = "passkey" /\ Method(d).token = page.ver[d].token)
<1>1. page.ver[d] \in Verifications
  BY DEF AccountInv, FormsOK
<1> QED
  BY <1>1 DEF Method, Verifications, Methods

-----------------------------------------------------------------------------
(* The actions *)

\* Opening and closing dialogs.
LEMMA DialogsKeep ==
    ASSUME AccountInv,
           \/ \E d \in Verifying \cup {"enable2FA", "disable2FA", "verifyEmail", "deleteSessions"} : OpenDialog(d)
           \/ CloseDialog
    PROVE  AccountInv'
<1>1. ASSUME NEW d, OpenDialog(d) PROVE AccountInv'
  <2>1. PICK k : page' = [page EXCEPT
                     !.opened = d, !.target = k,
                     !.setup = IF d = "enable2FA" THEN [NewSetup EXCEPT !.loading = TRUE, !.secret = page.setup.secret]
                               ELSE @]
    BY <1>1 DEF OpenDialog
  <2>2. Keeps(page, page')
    BY <2>1 DEF AccountInv, Keeps, FormsOK, PageFields
  <2>3. CallOK(Call("setup")) /\ Call("setup").mine
    BY NewCallOK, NewCallMine DEF Sensitive
  <2>4. UNCHANGED Rest /\ (calls' = calls \cup {Call("setup")} \/ calls' = calls)
    BY <1>1 DEF OpenDialog
  <2> QED
    BY <2>2, <2>3, <2>4, AsksKeeps
<1>2. ASSUME CloseDialog PROVE AccountInv'
  <2> DEFINE d == page.opened
  <2>1. page' = Shut(page, d) /\ calls' = Orphaned(d) /\ UNCHANGED Rest
    BY <1>2 DEF CloseDialog
  <2>2. Keeps(page, page')
    BY <2>1, ShutKeeps DEF AccountInv
  <2> HIDE DEF d
  <2>3. \A c \in calls' : CallOK(c) /\ (c \in calls \/ c.kind = "reauth")
    <3> SUFFICES ASSUME NEW c \in calls', c \notin calls PROVE CallOK(c) /\ c.kind = "reauth"
      BY DEF AccountInv
    <3>1. PICK x \in calls : x.kind = "reauth" /\ c = [x EXCEPT !.mine = FALSE]
      BY <2>1 DEF Orphaned
    <3>2. CallOK(x)
      BY DEF AccountInv
    <3> QED
      BY <3>1, <3>2 DEF CallOK, CallFields, Sensitive
  <2>4. ASSUME NEW c \in calls, c.kind \in Telling PROVE c \in calls'
    <3>1. c.kind # "reauth"
      BY <2>4 DEF Telling
    <3> QED
      BY <2>1, <3>1 DEF Orphaned
  <2>5. UserStep
    BY <2>1, <2>2, <2>3, <2>4 DEF UserStep, Rest
  <2> QED
    BY <2>5, UserStepKeeps
<1> QED
  BY <1>1, <1>2

\* Verifying: another method, what is typed, and the passkey ceremony.
LEMMA VerifyingKeeps ==
    ASSUME AccountInv, NEW d \in Verifying,
           \/ TypeCredential(d) \/ BeginPasskeyReauth(d)
           \/ \E method \in Methods : SwitchMethod(d, method)
    PROVE  AccountInv'
<1>1. FormsOK(page) /\ page.ver[d] \in Verifications
  BY DEF AccountInv, FormsOK
<1>2. ASSUME TypeCredential(d) PROVE AccountInv'
  <2>1. Keeps(page, [page EXCEPT !.ver[d].password = TRUE])
    BY <1>1 DEF Keeps, FormsOK, PageFields, Verifications
  <2>2. Keeps(page, [page EXCEPT !.ver[d].otp = TRUE])
    BY <1>1 DEF Keeps, FormsOK, PageFields, Verifications
  <2> QED
    BY <1>2, <2>1, <2>2, TypeKeeps DEF TypeCredential
<1>3. ASSUME BeginPasskeyReauth(d) PROVE AccountInv'
  <2>1. Keeps(page, page')
    <3>1. BeginReauth(page.ver[d]) \in Verifications
      BY <1>1, VerificationKept
    <3> QED
      BY <1>1, <1>3, <3>1 DEF BeginPasskeyReauth, Keeps, FormsOK, PageFields
  <2>2. CallOK([Call("reauth") EXCEPT !.dialog = d]) /\ [Call("reauth") EXCEPT !.dialog = d].mine
    BY NewCallOK, NewCallMine DEF Sensitive
  <2>3. UNCHANGED Rest /\ calls' = calls \cup {[Call("reauth") EXCEPT !.dialog = d]}
    BY <1>3 DEF BeginPasskeyReauth
  <2> QED
    BY <2>1, <2>2, <2>3, AsksKeeps
<1>4. ASSUME NEW method \in Methods, SwitchMethod(d, method) PROVE AccountInv'
  <2>1. Keeps(page, page')
    <3>1. WithMethod(page.ver[d], method) \in Verifications
      BY <1>1, VerificationKept
    <3> QED
      BY <1>1, <1>4, <3>1 DEF SwitchMethod, Keeps, FormsOK, PageFields
  <2>2. UserStep
    BY <1>4, <2>1 DEF AccountInv, SwitchMethod, UserStep, Rest
  <2> QED
    BY <2>2, UserStepKeeps
<1> QED
  BY <1>2, <1>3, <1>4

\* A ceremony is answered, to fields that are there or gone.
LEMMA CeremoniesKeep ==
    ASSUME AccountInv, NEW c \in calls, PasskeyReauthDone(c) \/ PasskeyReauthFailed(c)
    PROVE  AccountInv'
<1> DEFINE v == IF c.dialog = "changeEmail" THEN ReauthDone(page.ver[c.dialog], 1)
                ELSE FieldsDone(page.ver[c.dialog], 1)
<1>1. FormsOK(page)
  BY DEF AccountInv
<1>2. ASSUME PasskeyReauthDone(c) PROVE AccountInv'
  <2>1. c.dialog \in Verifying => v \in Verifications
    BY <1>1, VerificationKept DEF FormsOK
  <2>2. Ended(c, srv, [page EXCEPT !.ver[c.dialog] = v]) /\ c.kind = "reauth"
    BY <1>2 DEF PasskeyReauthDone
  <2> HIDE DEF v
  <2>3. Keeps(page, [page EXCEPT !.ver[c.dialog] = v])
    BY <1>1, <2>1, VerKeeps
  <2>4. Keeps(page, page')
    BY <1>1, <2>2, <2>3 DEF Ended, Page, Keeps
  <2>5. UserStep
    BY <2>2, <2>4 DEF AccountInv, Ended, UserStep, Telling
  <2> QED
    BY <2>5, UserStepKeeps
<1>3. ASSUME PasskeyReauthFailed(c) PROVE AccountInv'
  <2>1. c.dialog \in Verifying => ReauthFailed(page.ver[c.dialog]) \in Verifications
    BY <1>1, VerificationKept DEF FormsOK
  <2>2. FormsOK([page EXCEPT !.ver[c.dialog] = ReauthFailed(@)])
    BY <1>1, <2>1 DEF FormsOK, PageFields
  <2> QED
    BY <1>3, <2>2, FailedKeeps DEF PasskeyReauthFailed
<1> QED
  BY <1>2, <1>3

\* Setting 2FA up and turning it off.
LEMMA TwoFactorKeeps ==
    ASSUME AccountInv,
           \/ HandleEnable2FA \/ HandleBackupCodesConfirmed \/ HandleDisable2FA
           \/ \E d \in {"enable2FA", "disable2FA"} : TypeOtp(d)
           \/ \E c \in calls : \/ SetupAnswered(c) \/ EnableAnswered(c) \/ CodesDone(c)
                               \/ DisableAnswered(c) \/ Handle2FAChanged(c)
    PROVE  AccountInv'
<1> DEFINE on == [srv EXCEPT !.totp = TRUE]
           off == [srv EXCEPT !.totp = FALSE]
<1>1. FormsOK(page) /\ Keeps(page, page)
  BY DEF AccountInv, Keeps
<1>2. /\ DOMAIN on = DOMAIN srv /\ on.email = srv.email /\ on.verified = srv.verified /\ on.consent = srv.consent
      /\ DOMAIN off = DOMAIN srv /\ off.email = srv.email /\ off.verified = srv.verified /\ off.consent = srv.consent
  BY DEF AccountInv, ServerFields
<1>3. \A b : Keeps(page, Free(page, b))
  BY <1>1 DEF Free, Keeps, FormsOK, PageFields
<1>4. ASSUME HandleEnable2FA \/ HandleDisable2FA PROVE AccountInv'
  <2>1. /\ CallOK(Call("enable")) /\ Call("enable").mine
        /\ CallOK(Call("disable")) /\ Call("disable").mine
    BY NewCallOK, NewCallMine DEF Sensitive
  <2>2. Submit(Call("enable"), "enabling") \/ Submit(Call("disable"), "disabling")
    BY <1>4 DEF HandleEnable2FA, HandleDisable2FA
  <2> QED
    BY <2>1, <2>2, SubmitKeeps
<1>5. ASSUME HandleBackupCodesConfirmed PROVE AccountInv'
  <2>1. Keeps(page, page')
    BY <1>1, <1>5 DEF HandleBackupCodesConfirmed, Keeps, FormsOK, PageFields
  <2>2. CallOK([Call("codesDone") EXCEPT !.on = TRUE]) /\ [Call("codesDone") EXCEPT !.on = TRUE].mine
    BY NewCallOK, NewCallMine DEF Sensitive
  <2>3. UNCHANGED Rest /\ calls' = calls \cup {[Call("codesDone") EXCEPT !.on = TRUE]}
    BY <1>5 DEF HandleBackupCodesConfirmed
  <2> QED
    BY <2>1, <2>2, <2>3, AsksKeeps
<1>6. ASSUME NEW d, TypeOtp(d) PROVE AccountInv'
  <2>1. Keeps(page, [page EXCEPT !.setup.otp = TRUE])
    BY <1>1 DEF Keeps, FormsOK, PageFields
  <2> QED
    BY <1>6, <2>1, TypeKeeps DEF TypeOtp
<1>7. ASSUME NEW c \in calls, SetupAnswered(c) PROVE AccountInv'
  <2>1. Keeps(page, [page EXCEPT !.setup.secret = TRUE, !.setup.loading = FALSE])
    BY <1>1 DEF Keeps, FormsOK, PageFields
  <2>2. FormsOK([page EXCEPT !.setup.loading = FALSE, !.opened = IF @ = "enable2FA" THEN Null ELSE @])
    BY <1>1 DEF FormsOK, PageFields
  <2>3. c.kind \notin Telling \cup {"reauth"}
    BY <1>7 DEF SetupAnswered, Telling
  <2>4. CASE Ended(c, srv, [page EXCEPT !.setup.secret = TRUE, !.setup.loading = FALSE])
    BY <2>1, <2>3, <2>4, EndedKeeps
  <2>5. CASE Failed(c, srv, [page EXCEPT !.setup.loading = FALSE, !.opened = IF @ = "enable2FA" THEN Null ELSE @])
    BY <2>2, <2>5, FailedKeeps
  <2> QED
    BY <1>7, <2>4, <2>5 DEF SetupAnswered
<1>8. ASSUME NEW c \in calls, EnableAnswered(c) PROVE AccountInv'
  <2> DEFINE p == Free([page EXCEPT !.setup.codes = TRUE, !.setup.otp = FALSE], "enabling")
  <2>1. Keeps(page, p)
    BY <1>1 DEF Free, Keeps, FormsOK, PageFields
  <2>2. c.kind \notin Telling \cup {"reauth"} /\ (Ended(c, on, p) \/ Failed(c, on, Free(page, "enabling")))
    BY <1>8 DEF EnableAnswered, Telling
  <2>3. FormsOK(Free(page, "enabling"))
    BY <1>3 DEF Keeps
  <2> HIDE DEF p, on
  <2>4. CASE Ended(c, on, p)
    BY <1>2, <2>1, <2>2, <2>4, EndedKeeps
  <2>5. CASE Failed(c, on, Free(page, "enabling"))
    BY <1>2, <2>3, <2>5, FailedKeeps
  <2> QED
    BY <2>2, <2>4, <2>5
<1>9. \A k \in {"changed2FA"} : k \notin Sensitive \cup {"reauth"}
  BY DEF Sensitive
<1>10. ASSUME NEW c \in calls, c.kind \notin Telling \cup {"reauth"}, NEW p, Keeps(page, p),
              Refreshed(c, p, {"changed2FA"}) \/ NotRefreshed(c, p, {"changed2FA"})
       PROVE AccountInv'
  <2>1. FormsOK(p) /\ p.account = page.account /\ p.consent = page.consent
    BY <1>10 DEF Keeps
  <2>2. c.kind \notin Telling /\ c.kind # "reauth"
    BY <1>10
  <2>3. CASE Refreshed(c, p, {"changed2FA"})
    BY <1>9, <2>1, <2>2, <2>3, RefreshedKeeps
  <2>4. CASE NotRefreshed(c, p, {"changed2FA"})
    BY <1>9, <2>1, <2>4, NotRefreshedKeeps
  <2> QED
    BY <1>10, <2>3, <2>4
<1>11. ASSUME NEW c \in calls, CodesDone(c) PROVE AccountInv'
  <2>1. Keeps(page, Shut(page, "enable2FA"))
    BY <1>1, ShutKeeps
  <2>2. c.kind \notin Telling \cup {"reauth"}
    BY <1>11 DEF CodesDone, Telling
  <2> QED
    BY <1>10, <1>11, <2>1, <2>2 DEF CodesDone
<1>12. ASSUME NEW c \in calls, DisableAnswered(c) PROVE AccountInv'
  <2> DEFINE p == Shut(Free(page, "disabling"), "disable2FA")
  <2>1. Keeps(page, p) /\ FormsOK(Free(page, "disabling"))
    <3>1. FormsOK(Free(page, "disabling"))
      BY <1>3 DEF Keeps
    <3>2. Keeps(Free(page, "disabling"), p)
      BY <3>1, ShutKeeps
    <3> QED
      BY <1>3, <3>1, <3>2, KeepsTwice
  <2>2. c.kind \notin Telling \cup {"reauth"}
    BY <1>12 DEF DisableAnswered, Telling
  <2>3. \/ Done(c, off, page, "disabled") \/ Failed(c, off, Free(page, "disabling"))
        \/ Refreshed(c, p, {"changed2FA"}) \/ NotRefreshed(c, p, {"changed2FA"})
    BY <1>12 DEF DisableAnswered
  <2> HIDE DEF p, off
  <2>4. CASE Done(c, off, page, "disabled")
    <3>1. "disabled" \notin Sensitive \cup {"reauth"}
      BY DEF Sensitive
    <3> QED
      BY <1>1, <1>2, <2>2, <2>4, <3>1, DoneKeeps
  <2>5. CASE Failed(c, off, Free(page, "disabling"))
    BY <1>2, <2>1, <2>5, FailedKeeps
  <2> QED
    BY <1>10, <2>1, <2>2, <2>3, <2>4, <2>5
<1>13. ASSUME NEW c \in calls, Handle2FAChanged(c) PROVE AccountInv'
  <2> DEFINE closed == [page EXCEPT !.opened = IF @ \in {"enable2FA", "disable2FA"} THEN Null ELSE @]
             p == [closed EXCEPT !.account = Current(srv), !.totp = srv.totp]
             q == [closed EXCEPT !.totp = c.on]
  <2>1. Keeps(page, closed)
    BY <1>1 DEF Keeps, FormsOK, PageFields
  <2>2. c.kind \notin Telling \cup {"reauth"} /\ (Refreshed(c, p, {}) \/ NotRefreshed(c, q, {}))
    BY <1>13 DEF Handle2FAChanged, Telling
  <2> HIDE DEF closed
  <2>3. FormsOK(p) /\ p.account = Current(srv) /\ p.consent = page.consent
    BY <2>1 DEF Keeps, FormsOK, PageFields
  <2>4. FormsOK(q)
    BY <2>1 DEF Keeps, FormsOK, PageFields
  <2>5. \A k \in {} : k \notin Sensitive \cup {"reauth"}
    OBVIOUS
  <2> HIDE DEF p, q
  <2>6. CASE Refreshed(c, p, {})
    BY <2>2, <2>3, <2>5, <2>6, RefreshedKeeps
  <2>7. CASE NotRefreshed(c, q, {})
    BY <2>4, <2>5, <2>7, NotRefreshedKeeps
  <2> QED
    BY <2>2, <2>6, <2>7
<1> QED
  BY <1>4, <1>5, <1>6, <1>7, <1>8, <1>11, <1>12, <1>13

\* Changing the email address and verifying it.
LEMMA EmailKeeps ==
    ASSUME AccountInv,
           \/ \E x : TypeEmail(x) \/ TypeConfirm(x)
           \/ HandleContinue \/ BackToDetails \/ SubmitEmail
           \/ RequestCode \/ CooldownOver \/ VerifyCode
           \/ \E c \in calls : \/ EmailAnswered(c) \/ PageRefreshed(c)
                               \/ RequestCodeAnswered(c) \/ VerifyAnswered(c)
    PROVE  AccountInv'
<1>1. FormsOK(page) /\ Keeps(page, page)
  BY DEF AccountInv, Keeps
<1>2. \A b : Keeps(page, Free(page, b)) /\ FormsOK(Free(page, b))
  BY <1>1 DEF Free, Keeps, FormsOK, PageFields
<1>3. \A k \in {} : k \notin Sensitive \cup {"reauth"}
  OBVIOUS
<1>4. ASSUME NEW x, TypeEmail(x) \/ TypeConfirm(x) PROVE AccountInv'
  <2>1. /\ Keeps(page, [page EXCEPT !.mail.new = x, !.mail.confirm = Null])
        /\ Keeps(page, [page EXCEPT !.mail.confirm = x])
    BY <1>1 DEF Keeps, FormsOK, PageFields
  <2> QED
    BY <1>4, <2>1, TypeKeeps DEF TypeEmail, TypeConfirm
<1>5. ASSUME HandleContinue PROVE AccountInv'
  <2>1. Keeps(page, [page EXCEPT !.mail.step = "confirm"])
    BY <1>1 DEF Keeps, FormsOK, PageFields
  <2> QED
    BY <1>5, <2>1, TypeKeeps DEF HandleContinue
<1>6. ASSUME BackToDetails \/ CooldownOver PROVE AccountInv'
  <2>1. Keeps(page, page')
    BY <1>1, <1>6 DEF BackToDetails, CooldownOver, Keeps, FormsOK, PageFields
  <2>2. UserStep
    BY <1>6, <2>1 DEF AccountInv, BackToDetails, CooldownOver, UserStep, Rest
  <2> QED
    BY <2>2, UserStepKeeps
<1>7. ASSUME SubmitEmail PROVE AccountInv'
  <2> DEFINE cred == Credential(page.ver["changeEmail"], page.account)
             c == [Call("email") EXCEPT !.arg = page.mail.new, !.cred = cred]
  <2>1. Submit(c, "submitting")
    BY <1>7 DEF SubmitEmail
  <2> HIDE DEF cred
  <2>2. CallOK(c) /\ c.mine
    BY NewCallOK, NewCallMine DEF Sensitive
  <2> QED
    BY <2>1, <2>2, SubmitKeeps
<1>8. ASSUME RequestCode \/ VerifyCode PROVE AccountInv'
  <2>1. /\ CallOK(Call("requestCode")) /\ Call("requestCode").mine
        /\ CallOK(Call("verify")) /\ Call("verify").mine
    BY NewCallOK, NewCallMine DEF Sensitive
  <2>2. Submit(Call("requestCode"), "sending") \/ Submit(Call("verify"), "verifying")
    BY <1>8 DEF RequestCode, VerifyCode
  <2> QED
    BY <2>1, <2>2, SubmitKeeps
<1>9. ASSUME NEW c \in calls, EmailAnswered(c) PROVE AccountInv'
  <2> DEFINE changed == [srv EXCEPT !.email = c.arg, !.verified = FALSE]
             p == Shut(Free(page, "submitting"), "changeEmail")
  <2>1. DOMAIN changed = DOMAIN srv /\ changed.consent = srv.consent
    BY DEF AccountInv, ServerFields
  <2>2. Keeps(page, p)
    <3>1. Keeps(Free(page, "submitting"), p)
      BY <1>2, ShutKeeps
    <3> QED
      BY <1>2, <3>1, KeepsTwice
  <2>3. \/ /\ c.kind = "email"
           /\ Done(c, changed, page, "emailChanged") \/ Failed(c, changed, Free(page, "submitting"))
        \/ /\ c.kind = "emailChanged"
           /\ Refreshed(c, p, {"onChanged"}) \/ NotRefreshed(c, Free(page, "submitting"), {})
    BY <1>9 DEF EmailAnswered
  <2> HIDE DEF changed, p
  <2>4. CASE c.kind = "email" /\ Done(c, changed, page, "emailChanged")
    <3>1. c.kind \notin Telling \cup {"reauth"}
      BY <2>4 DEF Telling
    <3> QED
      BY <1>1, <2>1, <2>4, <3>1, TellingKeeps
  <2>5. CASE Failed(c, changed, Free(page, "submitting"))
    BY <1>2, <2>1, <2>5, FailedKeeps
  <2>6. CASE c.kind = "emailChanged" /\ Refreshed(c, p, {"onChanged"})
    <3>1. \A k \in {"onChanged"} : k \notin Sensitive \cup {"reauth"}
      BY DEF Sensitive
    <3>2. FormsOK(p) /\ p.account = page.account /\ p.consent = page.consent
      BY <2>2 DEF Keeps
    <3>3. "onChanged" \in {"onChanged"} /\ c.kind # "reauth"
      BY <2>6
    <3> QED
      BY <2>6, <3>1, <3>2, <3>3, RefreshedKeeps
  <2>7. CASE NotRefreshed(c, Free(page, "submitting"), {})
    BY <1>2, <1>3, <2>7, NotRefreshedKeeps
  <2> QED
    BY <2>3, <2>4, <2>5, <2>6, <2>7
<1>10. ASSUME NEW c \in calls, PageRefreshed(c) PROVE AccountInv'
  <2> DEFINE closed(p) == IF c.kind = "onChanged" THEN Shut(Shut(p, "changeEmail"), "verifyEmail")
                          ELSE Shut(p, "verifyEmail")
             shown == [page EXCEPT !.account = Current(srv)]
  <2>1. ASSUME NEW p, FormsOK(p) PROVE Keeps(p, closed(p))
    <3>1. Keeps(p, Shut(p, "changeEmail")) /\ Keeps(p, Shut(p, "verifyEmail"))
      BY <2>1, ShutKeeps
    <3>2. FormsOK(Shut(p, "changeEmail"))
      BY <3>1 DEF Keeps
    <3>3. Keeps(Shut(p, "changeEmail"), Shut(Shut(p, "changeEmail"), "verifyEmail"))
      BY <3>2, ShutKeeps
    <3>4. Keeps(p, Shut(Shut(p, "changeEmail"), "verifyEmail"))
      BY <3>1, <3>3, KeepsTwice
    <3> QED
      BY <3>1, <3>4
  <2>2. FormsOK(shown) /\ shown.account = Current(srv) /\ shown.consent = page.consent
    BY <1>1 DEF FormsOK, PageFields
  <2>3. c.kind # "reauth" /\ (Refreshed(c, closed(shown), {}) \/ NotRefreshed(c, closed(page), {}))
    BY <1>10 DEF PageRefreshed
  <2> HIDE DEF closed, shown
  <2>4. /\ FormsOK(closed(shown)) /\ closed(shown).account = Current(srv)
        /\ closed(shown).consent = page.consent
    BY <2>1, <2>2 DEF Keeps
  <2>5. FormsOK(closed(page))
    BY <1>1, <2>1 DEF Keeps
  <2>6. CASE Refreshed(c, closed(shown), {})
    BY <1>3, <2>3, <2>4, <2>6, RefreshedKeeps
  <2>7. CASE NotRefreshed(c, closed(page), {})
    BY <1>3, <2>5, <2>7, NotRefreshedKeeps
  <2> QED
    BY <2>3, <2>6, <2>7
<1>11. ASSUME NEW c \in calls, RequestCodeAnswered(c) PROVE AccountInv'
  <2> DEFINE p == Free([page EXCEPT !.sent = TRUE, !.cooldown = TRUE], "sending")
  <2>1. Keeps(page, p)
    BY <1>1 DEF Free, Keeps, FormsOK, PageFields
  <2>2. c.kind \notin Telling \cup {"reauth"} /\ (Ended(c, srv, p) \/ Failed(c, srv, Free(page, "sending")))
    BY <1>11 DEF RequestCodeAnswered, Telling
  <2> HIDE DEF p
  <2>3. CASE Ended(c, srv, p)
    BY <2>1, <2>2, <2>3, EndedKeeps
  <2>4. CASE Failed(c, srv, Free(page, "sending"))
    BY <1>2, <2>4, FailedKeeps
  <2> QED
    BY <2>2, <2>3, <2>4
<1>12. ASSUME NEW c \in calls, VerifyAnswered(c) PROVE AccountInv'
  <2> DEFINE verified == [srv EXCEPT !.verified = TRUE]
             p == Free(page, "verifying")
  <2>1. DOMAIN verified = DOMAIN srv /\ verified.consent = srv.consent
    BY DEF AccountInv, ServerFields
  <2>2. c.kind \notin Telling \cup {"reauth"} /\ (Done(c, verified, p, "onVerified") \/ Failed(c, srv, p))
    BY <1>12 DEF VerifyAnswered, Telling
  <2>3. Keeps(page, p) /\ FormsOK(p)
    BY <1>2
  <2> HIDE DEF verified, p
  <2>4. CASE Done(c, verified, p, "onVerified")
    BY <2>1, <2>2, <2>3, <2>4, TellingKeeps
  <2>5. CASE Failed(c, srv, p)
    BY <2>3, <2>5, FailedKeeps
  <2> QED
    BY <2>2, <2>4, <2>5
<1> QED
  BY <1>4, <1>5, <1>6, <1>7, <1>8, <1>9, <1>10, <1>11, <1>12

\* The password, the sessions and the consent.
LEMMA PasswordKeeps ==
    ASSUME AccountInv,
           \/ SubmitPassword \/ DeleteSessions
           \/ \E value : HandleErrorReportsConsentChange(value)
           \/ \E c \in calls : PasswordAnswered(c) \/ SessionsAnswered(c) \/ ConsentAnswered(c)
    PROVE  AccountInv'
<1>1. FormsOK(page) /\ Keeps(page, page)
  BY DEF AccountInv, Keeps
<1>2. \A b : Keeps(page, Free(page, b)) /\ FormsOK(Free(page, b))
  BY <1>1 DEF Free, Keeps, FormsOK, PageFields
<1>3. \A k \in {} : k \notin Sensitive \cup {"reauth"}
  OBVIOUS
<1>4. ASSUME SubmitPassword PROVE AccountInv'
  <2> DEFINE c == [Call("password") EXCEPT !.cred = PasswordCredential]
  <2>1. ExactlyOne(PasswordCredential)
    <3>1. CASE PasswordAvailable(acct)
      BY <3>1, CredentialExact DEF PasswordCredential
    <3>2. CASE ~PasswordAvailable(acct)
      <4>1. "setPassword" \in Verifying
        BY DEF Verifying, SharedFields
      <4>2. /\ Method("setPassword") \in Verifications /\ Method("setPassword").method = "passkey"
            /\ Method("setPassword").token = page.ver["setPassword"].token
        BY <4>1, VerOfPage
      <4>3. Method("setPassword").token # Null
        BY <1>4, <3>2, <4>2 DEF SubmitPassword
      <4>4. ExactlyOne(Credential(Method("setPassword"), acct))
        BY <4>2, <4>3, CredentialExact
      <4> QED
        BY <3>2, <4>4 DEF PasswordCredential
    <3> QED
      BY <3>1, <3>2
  <2>2. CallOK(c) /\ c.mine
    BY <2>1, NewCallOK, NewCallMine
  <2>3. Submit(c, "password")
    BY <1>4 DEF SubmitPassword
  <2> QED
    BY <2>2, <2>3, SubmitKeeps
<1>5. ASSUME DeleteSessions PROVE AccountInv'
  <2>1. CallOK(Call("sessions")) /\ Call("sessions").mine
    BY NewCallOK, NewCallMine DEF Sensitive
  <2>2. UNCHANGED Rest /\ calls' = calls \cup {Call("sessions")} /\ page' = page
    BY <1>5 DEF DeleteSessions
  <2>3. Keeps(page, page')
    BY <1>1, <2>2
  <2> QED
    BY <2>1, <2>2, <2>3, AsksKeeps
<1>6. ASSUME NEW value, HandleErrorReportsConsentChange(value) PROVE AccountInv'
  <2>1. CallOK([Call("consent") EXCEPT !.on = value]) /\ [Call("consent") EXCEPT !.on = value].mine
    BY NewCallOK, NewCallMine DEF Sensitive
  <2> QED
    BY <1>6, <2>1, SubmitKeeps DEF HandleErrorReportsConsentChange
<1>7. ASSUME NEW c \in calls, PasswordAnswered(c) PROVE AccountInv'
  <2> DEFINE set == [srv EXCEPT !.password = TRUE]
             free == Free(page, "password")
             p == Shut(free, "setPassword")
  <2>1. /\ DOMAIN set = DOMAIN srv /\ set.email = srv.email /\ set.verified = srv.verified
        /\ set.consent = srv.consent
    BY DEF AccountInv, ServerFields
  <2>2. Keeps(page, free) /\ FormsOK(free)
    BY <1>2
  <2>3. Keeps(page, p)
    <3>1. Keeps(free, p)
      BY <2>2, ShutKeeps
    <3> QED
      BY <2>2, <3>1, KeepsTwice
  <2>4. /\ c.kind \notin Telling \cup {"reauth"}
        /\ \/ Done(c, set, page, "passwordChanged") \/ Failed(c, set, free)
           \/ Refreshed(c, p, {}) \/ NotRefreshed(c, free, {})
    BY <1>7 DEF PasswordAnswered, Telling
  <2> HIDE DEF set, free, p
  <2>5. CASE Done(c, set, page, "passwordChanged")
    <3>1. "passwordChanged" \notin Sensitive \cup {"reauth"}
      BY DEF Sensitive
    <3> QED
      BY <1>1, <2>1, <2>4, <2>5, <3>1, DoneKeeps
  <2>6. CASE Failed(c, set, free)
    BY <2>1, <2>2, <2>6, FailedKeeps
  <2>7. CASE Refreshed(c, p, {})
    <3>1. FormsOK(p) /\ p.account = page.account /\ p.consent = page.consent
      BY <2>3 DEF Keeps
    <3>2. c.kind \notin Telling /\ c.kind # "reauth"
      BY <2>4
    <3> QED
      BY <1>3, <2>7, <3>1, <3>2, RefreshedKeeps
  <2>8. CASE NotRefreshed(c, free, {})
    BY <1>3, <2>2, <2>8, NotRefreshedKeeps
  <2> QED
    BY <2>4, <2>5, <2>6, <2>7, <2>8
<1>8. ASSUME NEW c \in calls, SessionsAnswered(c) PROVE AccountInv'
  <2>1. Keeps(page, Shut(page, "deleteSessions"))
    BY <1>1, ShutKeeps
  <2>2. /\ c.kind \notin Telling \cup {"reauth"}
        /\ Ended(c, srv, Shut(page, "deleteSessions")) \/ Failed(c, srv, page)
    BY <1>8 DEF SessionsAnswered, Telling
  <2>3. CASE Ended(c, srv, Shut(page, "deleteSessions"))
    BY <2>1, <2>2, <2>3, EndedKeeps
  <2>4. CASE Failed(c, srv, page)
    BY <1>1, <2>4, FailedKeeps
  <2> QED
    BY <2>2, <2>3, <2>4
<1>9. ASSUME NEW c \in calls, ConsentAnswered(c) PROVE AccountInv'
  <2> DEFINE done == [srv EXCEPT !.consent = c.on]
             p == Free([page EXCEPT !.consent = c.on], "consent")
  <2>1. /\ DOMAIN done = DOMAIN srv /\ done.email = srv.email /\ done.verified = srv.verified
        /\ done.consent = c.on
    BY DEF AccountInv, ServerFields
  <2>2. FormsOK(p) /\ p.account = page.account /\ p.consent = c.on
    BY <1>1 DEF Free, FormsOK, PageFields
  <2>3. c.kind = "consent" /\ (Ended(c, done, p) \/ Failed(c, done, Free(page, "consent")))
    BY <1>9 DEF ConsentAnswered
  <2> HIDE DEF done, p
  <2>4. CASE Ended(c, done, p)
    <3>1. /\ srv' = done /\ page' = (IF c.mine THEN p ELSE page) /\ calls' = calls \ {c}
          /\ acct' = acct /\ left' = left /\ gone' = gone /\ errors' = errors
      BY <2>4 DEF Ended, Page
    <3>2. FormsOK(page') /\ page'.account = page.account
      BY <1>1, <2>2, <3>1
    <3>3. \A x \in calls : x.kind \in Telling => x \in calls'
      BY <2>3, <3>1 DEF Telling
    <3>4. ToldStore => ToldStore'
      BY <2>1, <3>1, <3>3 DEF ToldStore, Fresh, Telling
    <3>5. ToldPage => ToldPage'
      <4> SUFFICES ASSUME ToldPage PROVE ToldPage'
        OBVIOUS
      <4>1. page'.consent = srv'.consent
        BY <2>1, <2>2, <2>3, <3>1 DEF ToldPage
      <4>2. \/ page'.account.email = srv'.email /\ page'.account.verified = srv'.verified
            \/ \E x \in calls' : x.kind \in Telling
        BY <2>1, <3>1, <3>2, <3>3 DEF ToldPage, Fresh, Telling
      <4> QED
        BY <3>1, <4>1, <4>2 DEF ToldPage, Fresh, Telling
    <3> QED
      BY <2>1, <3>1, <3>2, <3>4, <3>5 DEF AccountInv
  <2>5. CASE Failed(c, done, Free(page, "consent"))
    <3>1. DOMAIN done = DOMAIN srv /\ FormsOK(Free(page, "consent"))
      BY <1>2, <2>1
    <3> QED
      BY <2>5, <3>1, FailedKeeps
  <2> QED
    BY <2>3, <2>4, <2>5
<1> QED
  BY <1>4, <1>5, <1>6, <1>7, <1>8, <1>9

\* Adding, deleting and loading passkeys.
LEMMA PasskeysKeep ==
    ASSUME AccountInv,
           \/ AddPasskey \/ ConfirmDeletePasskey
           \/ \E c \in calls : AddPasskeyAnswered(c) \/ DeletePasskeyAnswered(c) \/ LoadPasskeys(c)
    PROVE  AccountInv'
<1>1. FormsOK(page) /\ Keeps(page, page)
  BY DEF AccountInv, Keeps
<1>2. \A b : Keeps(page, Free(page, b)) /\ FormsOK(Free(page, b))
  BY <1>1 DEF Free, Keeps, FormsOK, PageFields
<1>3. Keeps(page, DeletedPage(page)) /\ FormsOK(DeletedPage(page))
  <2>1. Keeps(page, Shut(page, "deletePasskey"))
    BY <1>1, ShutKeeps
  <2>2. FormsOK(Shut(page, "deletePasskey"))
    BY <2>1 DEF Keeps
  <2>3. Keeps(Shut(page, "deletePasskey"), DeletedPage(page))
    BY <2>2, FieldKeeps DEF DeletedPage
  <2> QED
    BY <2>1, <2>3, KeepsTwice DEF Keeps
<1>4. ASSUME NEW d \in {"addPasskey", "deletePasskey"}, Verified(Method(d), acct)
      PROVE  ExactlyOne(Credential(Method(d), acct))
  <2>1. d \in Verifying
    BY DEF Verifying, SharedFields
  <2>2. Method(d) \in Verifications
    BY <2>1, VerOfPage
  <2> QED
    BY <1>4, <2>2, CredentialExact DEF Verified
<1>5. "loadKeys" \notin Sensitive \cup {"reauth"}
  BY DEF Sensitive
<1>6. ASSUME AddPasskey PROVE AccountInv'
  <2> DEFINE cred == Credential(Method("addPasskey"), acct)
             c == [Call("addKey") EXCEPT !.dialog = "addPasskey", !.cred = cred]
  <2>1. ExactlyOne(cred)
    BY <1>4, <1>6 DEF AddPasskey
  <2>2. Submit(c, "adding")
    BY <1>6 DEF AddPasskey
  <2> HIDE DEF cred
  <2>3. CallOK(c) /\ c.mine
    BY <2>1, NewCallOK, NewCallMine
  <2> QED
    BY <2>2, <2>3, SubmitKeeps
<1>7. ASSUME ConfirmDeletePasskey PROVE AccountInv'
  <2> DEFINE cred == Credential(Method("deletePasskey"), acct)
             c == [Call("deleteKey") EXCEPT !.dialog = "deletePasskey", !.arg = page.target, !.cred = cred]
  <2>1. ExactlyOne(cred)
    BY <1>4, <1>7 DEF ConfirmDeletePasskey
  <2>2. /\ UNCHANGED Rest /\ calls' = calls \cup {c}
        /\ page' = [page EXCEPT !.deleting = page.target]
    BY <1>7 DEF ConfirmDeletePasskey
  <2> HIDE DEF cred
  <2>3. CallOK(c) /\ c.mine
    BY <2>1, NewCallOK, NewCallMine
  <2>4. Keeps(page, page')
    BY <1>1, <2>2, FieldKeeps
  <2> QED
    BY <2>2, <2>3, <2>4, AsksKeeps
<1>8. \A x : LET done == [srv EXCEPT !.keys = x]
             IN  /\ DOMAIN done = DOMAIN srv /\ done.email = srv.email
                 /\ done.verified = srv.verified /\ done.consent = srv.consent
  BY DEF AccountInv, ServerFields
<1>9. ASSUME NEW c \in calls, AddPasskeyAnswered(c) PROVE AccountInv'
  <2> DEFINE done == [srv EXCEPT !.keys = @ \cup {Min(1 .. MaxKeys \ @)}]
  <2>1. /\ c.kind \notin Telling \cup {"reauth"}
        /\ Done(c, done, Shut(page, "addPasskey"), "loadKeys") \/ Failed(c, srv, Free(page, "adding"))
    BY <1>9 DEF AddPasskeyAnswered, Telling
  <2>2. /\ DOMAIN done = DOMAIN srv /\ done.email = srv.email
        /\ done.verified = srv.verified /\ done.consent = srv.consent
    BY <1>8
  <2>3. Keeps(page, Shut(page, "addPasskey"))
    BY <1>1, ShutKeeps
  <2> HIDE DEF done
  <2>4. CASE Done(c, done, Shut(page, "addPasskey"), "loadKeys")
    BY <1>5, <2>1, <2>2, <2>3, <2>4, DoneKeeps
  <2>5. CASE Failed(c, srv, Free(page, "adding"))
    BY <1>2, <2>5, FailedKeeps
  <2> QED
    BY <2>1, <2>4, <2>5
<1>10. ASSUME NEW c \in calls, DeletePasskeyAnswered(c) PROVE AccountInv'
  <2> DEFINE done == [srv EXCEPT !.keys = @ \ {c.arg}]
  <2>1. /\ c.kind \notin Telling \cup {"reauth"}
        /\ Done(c, done, page, "loadKeys") \/ Failed(c, srv, DeletedPage(page))
    BY <1>10 DEF DeletePasskeyAnswered, Telling
  <2>2. /\ DOMAIN done = DOMAIN srv /\ done.email = srv.email
        /\ done.verified = srv.verified /\ done.consent = srv.consent
    BY <1>8
  <2> HIDE DEF done
  <2>3. CASE Done(c, done, page, "loadKeys")
    BY <1>1, <1>5, <2>1, <2>2, <2>3, DoneKeeps
  <2>4. CASE Failed(c, srv, DeletedPage(page))
    BY <1>3, <2>4, FailedKeeps
  <2> QED
    BY <2>1, <2>3, <2>4
<1>11. ASSUME NEW c \in calls, LoadPasskeys(c) PROVE AccountInv'
  <2> DEFINE p == CASE c.dialog = "addPasskey" -> Free(page, "adding")
                    [] c.dialog = "deletePasskey" -> DeletedPage(page)
                    [] OTHER -> page
             r == MethodEffects(p, acct, keys' # {})
  <2>1. Keeps(page, p) /\ FormsOK(p)
    BY <1>1, <1>2, <1>3
  <2>2. /\ page' = (IF c.mine THEN r ELSE page) /\ calls' = calls \ {c}
        /\ c.kind = "loadKeys" /\ (UNCHANGED errors \/ Fail)
        /\ UNCHANGED <<srv, acct, left, gone>>
    BY <1>11 DEF LoadPasskeys, Page
  <2> HIDE DEF p
  <2>3. Keeps(page, r)
    <3>1. Keeps(p, r)
      BY <2>1, EffectsKeep
    <3> QED
      BY <2>1, <3>1, KeepsTwice
  <2>4. Keeps(page, page')
    BY <1>1, <2>2, <2>3
  <2> HIDE DEF r
  <2>5. CASE Fail
    <3>1. FailStep
      BY <2>2, <2>4, <2>5 DEF AccountInv, FailStep, Keeps
    <3> QED
      BY <3>1, FailStepKeeps
  <2>6. CASE UNCHANGED errors
    <3>1. AnswerStep(c)
      BY <2>2, <2>4, <2>6 DEF AccountInv, AnswerStep, Telling
    <3> QED
      BY <3>1, AnswerStepKeeps
  <2> QED
    BY <2>2, <2>5, <2>6
<1> QED
  BY <1>6, <1>7, <1>9, <1>10, <1>11

\* Deleting the account.
LEMMA DeletionKeeps ==
    ASSUME AccountInv,
           \/ GenerateDeletionCode \/ TypeCode \/ HandleConfirm
           \/ \E c \in calls : GenerateAnswered(c) \/ DeleteAnswered(c)
    PROVE  AccountInv'
<1>1. FormsOK(page) /\ Keeps(page, page)
  BY DEF AccountInv, Keeps
<1>2. ASSUME GenerateDeletionCode PROVE AccountInv'
  <2> DEFINE c == [Call("code") EXCEPT !.arg = Cardinality({x \in calls : x.kind = "code"})]
  <2>1. UNCHANGED Rest /\ calls' = calls \cup {c}
    BY <1>2 DEF GenerateDeletionCode
  <2>2. CallOK(c) /\ c.mine
    BY NewCallOK, NewCallMine DEF Sensitive
  <2>3. Keeps(page, page')
    BY <1>1, <1>2 DEF GenerateDeletionCode, Keeps, FormsOK, PageFields
  <2> QED
    BY <2>1, <2>2, <2>3, AsksKeeps
<1>3. ASSUME TypeCode PROVE AccountInv'
  <2>1. Keeps(page, [page EXCEPT !.del.typed = page.del.code])
    BY <1>1 DEF Keeps, FormsOK, PageFields
  <2> QED
    BY <1>3, <2>1, TypeKeeps DEF TypeCode
<1>4. ASSUME HandleConfirm PROVE AccountInv'
  <2> DEFINE v == page.ver["deleteAccount"]
             cred == Credential(v, acct)
             c == [Call("delete") EXCEPT !.arg = page.del.typed, !.cred = cred]
  <2>1. v \in Verifications
    BY VerOfPage DEF Verifying, OwnFields
  <2>2. IF v.method = "passkey" THEN v.token # Null ELSE v.password
    BY <1>4 DEF HandleConfirm
  <2>3. Submit(c, "deleting")
    BY <1>4 DEF HandleConfirm
  <2> HIDE DEF v
  <2>4. ExactlyOne(cred)
    BY <2>1, <2>2, CredentialExact
  <2> HIDE DEF cred
  <2>5. CallOK(c) /\ c.mine
    BY <2>4, NewCallOK, NewCallMine
  <2> QED
    BY <2>3, <2>5, SubmitKeeps
<1>5. ASSUME NEW c \in calls, GenerateAnswered(c) PROVE AccountInv'
  <2> DEFINE p == [page EXCEPT !.del.code = issued', !.del.generating = FALSE]
             q == [page EXCEPT !.del.generating = FALSE]
  <2>1. Keeps(page, p) /\ FormsOK(q)
    BY <1>1 DEF Keeps, FormsOK, PageFields
  <2>2. CASE Failed(c, srv, q)
    BY <2>1, <2>2, FailedKeeps
  <2>3. CASE ~Failed(c, srv, q)
    <3>1. /\ srv' = [srv EXCEPT !.code = issued'] /\ page' = (IF c.mine THEN p ELSE page)
          /\ calls' = calls \ {c} /\ c.kind = "code"
          /\ UNCHANGED <<acct, left, gone, errors>>
      BY <1>5, <2>3 DEF GenerateAnswered, Page
    <3> HIDE DEF p
    <3>2. Keeps(page, page')
      BY <1>1, <2>1, <3>1
    <3>3. /\ DOMAIN srv' = DOMAIN srv /\ srv'.email = srv.email
          /\ srv'.verified = srv.verified /\ srv'.consent = srv.consent
      BY <3>1 DEF AccountInv, ServerFields
    <3>4. AnswerStep(c)
      BY <3>1, <3>2, <3>3 DEF AccountInv, AnswerStep, Telling
    <3> QED
      BY <3>4, AnswerStepKeeps
  <2> QED
    BY <2>2, <2>3
<1>6. ASSUME NEW c \in calls, DeleteAnswered(c) PROVE AccountInv'
  <2> DEFINE p == Free(page, "deleting")
  <2>1. Keeps(page, p) /\ FormsOK(p)
    BY <1>1 DEF Free, Keeps, FormsOK, PageFields
  <2> HIDE DEF p
  <2>2. CASE gone' = TRUE /\ calls' = {} /\ page' = NewPage(acct, keys # {}) /\ UNCHANGED <<srv, errors>>
    BY <2>2, NewPageOK DEF AccountInv
  <2>3. CASE Failed(c, srv, p)
    BY <2>1, <2>3, FailedKeeps
  <2>4. CASE c.kind = "delete" /\ Ended(c, srv, p)
    <3>1. c.kind \notin Telling \cup {"reauth"}
      BY <2>4 DEF Telling
    <3> QED
      BY <2>1, <2>4, <3>1, EndedKeeps
  <2> QED
    BY <1>6, <2>2, <2>3, <2>4 DEF DeleteAnswered, p
<1> QED
  BY <1>2, <1>3, <1>4, <1>5, <1>6

\* The page is left, with what is under way, and opened again.
LEMMA RemountKeeps ==
    ASSUME AccountInv, Remount
    PROVE  AccountInv'
<1>1. /\ FormsOK(page') /\ left' = TRUE
      /\ calls' = {[c EXCEPT !.mine = FALSE] : c \in calls} \cup {Call("loadKeys")}
      /\ UNCHANGED <<srv, acct, gone, errors>>
  BY NewPageOK DEF Remount
<1>2. \A c \in calls : /\ CallOK([c EXCEPT !.mine = FALSE])
                       /\ [c EXCEPT !.mine = FALSE].kind = c.kind
  BY DEF AccountInv, CallOK, CallFields, Sensitive
<1>3. CallOK(Call("loadKeys"))
  BY NewCallOK DEF Sensitive
<1>4. \A c \in calls' : CallOK(c)
  BY <1>1, <1>2, <1>3
<1>5. ToldStore => ToldStore'
  <2>1. ASSUME NEW c \in calls PROVE \E x \in calls' : x.kind = c.kind
    BY <1>1, <1>2
  <2> QED
    BY <1>1, <2>1 DEF ToldStore, Fresh
<1> QED
  BY <1>1, <1>4, <1>5 DEF AccountInv

-----------------------------------------------------------------------------
(* The specification *)

\* However the page is used: its parts keep their shape, every sensitive request under
\* way carries one credential, and what is out of date is being read.
THEOREM AccountInvariant == AccountPageSpec => []AccountInv
<1>1. AccountPageInit => AccountInv
  <2> SUFFICES ASSUME AccountPageInit PROVE AccountInv
    OBVIOUS
  <2>1. /\ FormsOK(page) /\ page.account = acct /\ page.consent = acct.consent
    BY NewPageOK DEF AccountPageInit
  <2>2. /\ ServerFields \subseteq DOMAIN srv /\ acct = Current(srv)
        /\ calls = {Call("loadKeys")} /\ errors = Errors
    BY DEF AccountPageInit, ServerFields
  <2>3. CallOK(Call("loadKeys")) /\ Call("loadKeys").mine
    BY NewCallOK, NewCallMine DEF Sensitive
  <2>4. Fresh(acct) /\ acct.consent = srv.consent
    BY <2>2 DEF Fresh, Current
  <2>5. Errors \in Nat /\ Errors <= Errors
    BY AccountPageBounds
  <2> QED
    BY <2>1, <2>2, <2>3, <2>4, <2>5 DEF AccountInv, ToldStore, ToldPage
<1>2. AccountInv /\ [AccountPageNext]_apVars => AccountInv'
  <2> SUFFICES ASSUME AccountInv, [AccountPageNext]_apVars PROVE AccountInv'
    OBVIOUS
  <2>1. CASE UNCHANGED apVars
    BY <2>1 DEF apVars, AccountInv, FormsOK, ToldStore, ToldPage, Fresh
  <2>2. CASE AccountPageNext
    BY <2>2, DialogsKeep, VerifyingKeeps, CeremoniesKeep, TwoFactorKeeps, EmailKeeps,
       PasswordKeeps, PasskeysKeep, DeletionKeeps, RemountKeeps, Zenon DEF AccountPageNext
  <2> QED
    BY <2>1, <2>2
<1> QED
  BY <1>1, <1>2, PTL DEF AccountPageSpec

\* A request to add or delete a passkey, to set the password or to delete the account
\* carries a password or a token and never both, for any number of passkeys, clicks and
\* failures (VerifyIdentityFields, useVerification and the dialogs' submit handlers).
THEOREM OneCredential == AccountPageSpec => []RequestVerified
<1>1. AccountInv => RequestVerified
  BY DEF AccountInv, CallOK, RequestVerified, Requests, Sensitive
<1> QED
  BY <1>1, AccountInvariant, PTL

\* When nothing is under way and nothing failed the store, and a page that was not left,
\* have the account's email and its status as the server has them, and the page its
\* consent (handleEmailChanged, onVerified and the preferences' copies of the account).
THEOREM ShowsServer == AccountPageSpec => []AccountShown
<1>1. AccountInv => AccountShown
  BY DEF AccountInv, ToldStore, ToldPage, Fresh, AccountShown
<1> QED
  BY <1>1, AccountInvariant, PTL
====
