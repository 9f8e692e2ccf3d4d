--------------------------- MODULE VerifyIdentity ---------------------------
(***************************************************************************)
(* Confirming one's identity before a sensitive request, as the account    *)
(* page's dialogs share it: a method (password or passkey), what was typed *)
(* and the token a passkey ceremony earned.  An account is a record with   *)
(* the methods the server reports and whether it uses 2FA codes; whether   *)
(* it has passkeys comes from the list the page loads later.               *)
(***************************************************************************)
EXTENDS AppStore

Methods == {"password", "passkey"}

\* The state of one dialog; a password or code is typed or it is not.
NewVerification(method) ==
    [method |-> method, password |-> FALSE, otp |-> FALSE, token |-> Null, status |-> "idle"]

\* An account that reports no methods is taken to have a password.
PasswordAvailable(account) ==
    account = Null \/ account.methods = {} \/ "password" \in account.methods

Available(method, account, passkeys) ==
    IF method = "passkey" THEN passkeys ELSE PasswordAvailable(account)

PreferredMethod(account, passkeys) == IF passkeys THEN "passkey" ELSE "password"

\* Whenever the method changes the dialog forgets the credentials of the other one.
ResetCredentials(v) == NewVerification(v.method)

WithMethod(v, method) ==
    IF v.method = method THEN v ELSE ResetCredentials([v EXCEPT !.method = method])

\* A closed dialog takes the preferred method, an open one keeps its method while the
\* account has it.
MethodEffect(v, open, account, passkeys) ==
    IF open /\ Available(v.method, account, passkeys) THEN v
    ELSE WithMethod(v, PreferredMethod(account, passkeys))

ShowOtp(v, account) == account # Null /\ account.totp /\ v.method = "password"

\* The button that starts the ceremony.
ReauthFree(v) == v.method = "passkey" /\ v.status \in {"idle", "error"}

BeginReauth(v) == [v EXCEPT !.status = "in-progress"]

\* The ceremony's answer is applied whatever the dialog shows by then.
ReauthDone(v, token) == [v EXCEPT !.token = token, !.status = "verified", !.password = FALSE]

ReauthFailed(v) == [v EXCEPT !.status = "error"]

\* isReauthComplete: by the status for a passkey, by what was typed for a password.
IsReauthComplete(v, account) ==
    IF v.method = "passkey" THEN v.status = "verified"
    ELSE v.password /\ (ShowOtp(v, account) => v.otp)

\* VerifyIdentityFields reports by the token instead, and leaves the password alone.
FieldsDone(v, token) == [v EXCEPT !.token = token, !.status = "verified"]

\* Mutant: anything at hand counts, whatever the method.
VerifiedSomehow(v, account) == v.token # Null \/ (v.password /\ (ShowOtp(v, account) => v.otp))

Verified(v, account) ==
    IF v.method = "passkey" THEN v.token # Null
    ELSE v.password /\ (ShowOtp(v, account) => v.otp)

\* What a request carries of it.
Credential(v, account) ==
    [password |-> v.method = "password" /\ v.password,
     token |-> IF v.method = "passkey" THEN v.token ELSE Null,
     otp |-> ShowOtp(v, account) /\ v.otp]

\* A password or a token, and a code only beside a password.
ExactlyOne(credential) ==
    /\ credential.password # (credential.token # Null)
    /\ credential.otp => credential.password
=============================================================================
