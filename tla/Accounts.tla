------------------------------ MODULE Accounts ------------------------------
(***************************************************************************)
(* The account behind one e-mail address: register, login, verifyEmail,    *)
(* resendVerification, forgotPassword and resetPassword of                 *)
(* auth/auth.service.ts, users.service.ts and the pages that ask for them. *)
(* Every request is a sequence of reads and writes with nothing around     *)
(* them; with one request at a time they do not overlap.                   *)
(*                                                                         *)
(* Of the links (email_verification_tokens, password_reset_tokens) those   *)
(* that are dead, not the last mailed and in no request are free again.    *)
(* The limit of mails per hour is taken as one read (Notifications has its *)
(* own model); the lock of the origin works as that of the account.        *)
(***************************************************************************)
EXTENDS Naturals, FiniteSets

CONSTANTS Requests, \* requests that may overlap
          Links, None,
          Passwords,
          MaxMails,    \* EMAIL_RATE_LIMIT_MAX_PER_HOUR
          MaxFailures  \* LOGIN_ACCOUNT_MAX_ATTEMPTS

VARIABLES
  user,     \* the account
  link,     \* the links
  mailed,   \* of each kind, the link in the last mail
  sent,     \* mails of each kind in the last hour
  failures, \* failed logins in the window of the throttle
  sessions, \* the passwords that the live sessions were begun with
  req,      \* what each request is doing
  stopped   \* the server stopped in the middle of a request (history)

vars == <<user, link, mailed, sent, failures, sessions, req, stopped>>

LinkKinds == { "verify", "reset" }
Operations == { "register", "resend", "forgot", "verify", "reset", "login" }
Steps == { "begin", "create", "invalidate", "save", "send", "admitted",
           "consume", "password", "revoke", "activate" }
UserStatus == { "none", "pendiente_verificacion", "activa" }
User == [status : UserStatus, password : Passwords \cup {None}]
LinkRow == [kind : LinkKinds, state : {"pending", "consumed", "expired"}, uses : 0..2]

Idle == [op |-> "login", step |-> "idle", link |-> None, password |-> None, status |-> "none"]

Init ==
  /\ user = [status |-> "none", password |-> None]
  /\ link = [l \in Links |-> [kind |-> "verify", state |-> "expired", uses |-> 0]]
  /\ mailed = [k \in LinkKinds |-> None] /\ sent = [k \in LinkKinds |-> 0]
  /\ failures = 0 /\ sessions = {}
  /\ req = [r \in Requests |-> Idle] /\ stopped = FALSE

-----------------------------------------------------------------------------
At(r, op, step) == req[r].op = op /\ req[r].step = step
Goes(r, step) == req' = [req EXCEPT ![r].step = step]
Ends(r) == req' = [req EXCEPT ![r] = Idle]
Kind(r) == IF req[r].op \in {"forgot", "reset"} THEN "reset" ELSE "verify"

Unused ==
  { l \in Links : link[l].state # "pending" } \ ({ mailed[k] : k \in LinkKinds } \cup { req[r].link : r \in Requests })

Ask(r, op, l, pw) ==
  /\ req[r] = Idle
  /\ req' = [req EXCEPT ![r] = [op |-> op, step |-> "begin", link |-> l, password |-> pw,
                                status |-> "none"]]
  /\ UNCHANGED <<user, link, mailed, sent, failures, sessions>>

\* The pages; a link is the one in the last mail.
RegisterPage(r) == \E pw \in Passwords : Ask(r, "register", None, pw)
LoginPage(r) == \E pw \in Passwords : Ask(r, "login", None, pw)
ForgotPage(r) == Ask(r, "forgot", None, None)
VerifyPage(r) ==
  \/ mailed["verify"] # None /\ Ask(r, "verify", mailed["verify"], None)
  \/ Ask(r, "resend", None, None)
ResetPage(r) == mailed["reset"] # None /\ \E pw \in Passwords : Ask(r, "reset", mailed["reset"], pw)

-----------------------------------------------------------------------------
(***************************************************************************)
(* Links                                                                   *)
(***************************************************************************)
\* register, resendVerification and forgotPassword read the account.
Begin(r) ==
  /\ req[r].step = "begin"
  /\ \/ req[r].op = "register" /\ IF user.status = "none" THEN Goes(r, "create") ELSE Ends(r)
     \/ /\ req[r].op = "resend"
        /\ IF user.status = "pendiente_verificacion" THEN Goes(r, "invalidate") ELSE Ends(r)
     \/ req[r].op = "forgot" /\ IF user.status # "none" THEN Goes(r, "invalidate") ELSE Ends(r)
  /\ UNCHANGED <<user, link, mailed, sent, failures, sessions>>

\* The address is unique: the second of two registrations fails here.
Create(r) ==
  /\ req[r].step = "create"
  /\ IF user.status = "none"
     THEN user' = [status |-> "pendiente_verificacion", password |-> req[r].password]
          /\ Goes(r, "invalidate")
     ELSE UNCHANGED user /\ Ends(r)
  /\ UNCHANGED <<link, mailed, sent, failures, sessions>>

\* Mutant of Invalidated: the links that were not used stay.
InvalidatedNone(kind) == link

Invalidated(kind) ==
  [l \in Links |-> IF link[l].kind = kind THEN [link[l] EXCEPT !.state = "consumed"] ELSE link[l]]

InvalidatePending(r) ==
  /\ req[r].step = "invalidate"
  /\ link' = Invalidated(Kind(r))
  /\ Goes(r, "save")
  /\ UNCHANGED <<user, mailed, sent, failures, sessions>>

SaveLink(r) ==
  /\ req[r].step = "save"
  /\ \E l \in Unused :
       /\ link' = [link EXCEPT ![l] = [kind |-> Kind(r), state |-> "pending", uses |-> 0]]
       /\ req' = [req EXCEPT ![r].step = "send", ![r].link = l]
  /\ UNCHANGED <<user, mailed, sent, failures, sessions>>

\* notifications.send: over the limit it says so, and sends nothing.
SendLink(r) ==
  /\ req[r].step = "send"
  /\ IF sent[Kind(r)] < MaxMails
     THEN /\ sent' = [sent EXCEPT ![Kind(r)] = @ + 1]
          /\ mailed' = [mailed EXCEPT ![Kind(r)] = req[r].link]
     ELSE UNCHANGED <<sent, mailed>>
  /\ Ends(r)
  /\ UNCHANGED <<user, link, failures, sessions>>

-----------------------------------------------------------------------------
(***************************************************************************)
(* What a link is for                                                      *)
(***************************************************************************)
LinkAccepted(l) == link[l].state = "pending"

\* verifyEmail reads the link and the account.
ReadForVerify(r) ==
  /\ At(r, "verify", "begin")
  /\ IF LinkAccepted(req[r].link) /\ user.status = "pendiente_verificacion"
     THEN Goes(r, "consume") ELSE Ends(r)
  /\ UNCHANGED <<user, link, mailed, sent, failures, sessions>>

\* resetPassword: the new password is another one.
ReadForReset(r) ==
  /\ At(r, "reset", "begin")
  /\ IF LinkAccepted(req[r].link) /\ user.password # req[r].password
     THEN req' = [req EXCEPT ![r].step = "consume", ![r].status = user.status]
     ELSE Ends(r)
  /\ UNCHANGED <<user, link, mailed, sent, failures, sessions>>

Consume(r) ==
  /\ req[r].step = "consume"
  /\ link' = [link EXCEPT ![req[r].link].state = "consumed",
                          ![req[r].link].uses = IF @ < 2 THEN @ + 1 ELSE 2]
  /\ Goes(r, IF req[r].op = "verify" THEN "activate" ELSE "password")
  /\ UNCHANGED <<user, mailed, sent, failures, sessions>>

UpdatePassword(r) ==
  /\ req[r].step = "password"
  /\ user' = [user EXCEPT !.password = req[r].password]
  /\ Goes(r, "revoke")
  /\ UNCHANGED <<link, mailed, sent, failures, sessions>>

\* Mutant of Revoked: the sessions go on.
RevokedNone == sessions

Revoked == {}

RevokeSessions(r) ==
  /\ req[r].step = "revoke"
  /\ sessions' = Revoked
  /\ IF req[r].status = "pendiente_verificacion" THEN Goes(r, "activate") ELSE Ends(r)
  /\ UNCHANGED <<user, link, mailed, sent, failures>>

\* markVerified, activateViaPasswordReset
Activate(r) ==
  /\ req[r].step = "activate"
  /\ user' = [user EXCEPT !.status = "activa"]
  /\ Ends(r)
  /\ UNCHANGED <<link, mailed, sent, failures, sessions>>

-----------------------------------------------------------------------------
(***************************************************************************)
(* Login                                                                   *)
(***************************************************************************)
NotLocked == failures < MaxFailures

AssertNotLocked(r) ==
  /\ At(r, "login", "begin")
  /\ IF NotLocked THEN Goes(r, "admitted") ELSE Ends(r)
  /\ UNCHANGED <<user, link, mailed, sent, failures, sessions>>

Authenticate(r) ==
  /\ req[r].step = "admitted"
  /\ IF user.password # req[r].password
     THEN failures' = failures + 1 /\ UNCHANGED sessions
     ELSE /\ sessions' = IF user.status = "activa" THEN sessions \cup {req[r].password} ELSE sessions
          /\ UNCHANGED failures
  /\ Ends(r)
  /\ UNCHANGED <<user, link, mailed, sent>>

-----------------------------------------------------------------------------
LinkExpires(l) ==
  /\ link[l].state = "pending"
  /\ link' = [link EXCEPT ![l].state = "expired"]
  /\ UNCHANGED <<user, mailed, sent, failures, sessions, req>>

HourPasses ==
  /\ sent' = [k \in LinkKinds |-> 0]
  /\ UNCHANGED <<user, link, mailed, failures, sessions, req>>

WindowPasses ==
  /\ failures' = 0
  /\ UNCHANGED <<user, link, mailed, sent, sessions, req>>

Crash ==
  /\ \E r \in Requests : req[r] # Idle
  /\ req' = [r \in Requests |-> Idle]
  /\ stopped' = TRUE
  /\ UNCHANGED <<user, link, mailed, sent, failures, sessions>>

Handle(r) ==
  \/ Begin(r) \/ Create(r) \/ InvalidatePending(r) \/ SaveLink(r) \/ SendLink(r)
  \/ ReadForVerify(r) \/ ReadForReset(r) \/ Consume(r)
  \/ UpdatePassword(r) \/ RevokeSessions(r) \/ Activate(r)
  \/ AssertNotLocked(r) \/ Authenticate(r)

Runs ==
  \/ \E r \in Requests :
       \/ RegisterPage(r) \/ LoginPage(r) \/ ForgotPage(r) \/ VerifyPage(r) \/ ResetPage(r)
       \/ Handle(r)
  \/ \E l \in Links : LinkExpires(l)
  \/ HourPasses \/ WindowPasses

Next ==
  \/ Runs /\ UNCHANGED stopped
  \/ Crash

Spec == Init /\ [][Next]_vars
-----------------------------------------------------------------------------
\* Values of their kinds; an account has a password exactly when it exists.
TypeOK ==
  /\ user \in User /\ link \in [Links -> LinkRow]
  /\ mailed \in [LinkKinds -> Links \cup {None}]
  /\ sent \in [LinkKinds -> 0..MaxMails] /\ failures \in Nat /\ sessions \subseteq Passwords
  /\ \A r \in Requests : req[r].op \in Operations /\ req[r].step \in Steps \cup {"idle"}
  /\ user.status = "none" <=> user.password = None
  /\ stopped \in BOOLEAN

\* "de un solo uso y con vencimiento" (password-reset-token.entity, 13; the same
\* in email-verification-token.entity): no link changes the account twice.
SingleUse == \A l \in Links : link[l].uses <= 1

\* "al generarse uno nuevo (reenvio), los anteriores no consumidos se invalidan"
\* (email-verification-token.entity, 12-15): of each kind one link works.
OnlyLastLinkWorks ==
  \A k \in LinkKinds :
    Cardinality({ l \in Links : link[l].kind = k /\ link[l].state = "pending" }) <= 1

\* Unless the server stopped in the middle of a request, the sessions that live
\* between requests were begun with the password the account has now
\* (resetPassword, step 8).
SessionsKnowThePassword ==
  ~stopped /\ (\A r \in Requests : req[r] = Idle) => sessions \subseteq {user.password}

\* No more credentials are rejected in a window than the limit says (flow 5a).
FailuresWithinTheLimit == failures <= MaxFailures

\* No link changes the account twice, and of each kind one link works, wherever
\* the server stops (verifyEmail, resetPassword, forgotPassword and
\* resendVerification).
LinksWorkOnce == SingleUse /\ OnlyLastLinkWorks

\* Between requests, as long as the server did not stop in the middle of one, the
\* sessions that live were begun with the password of the account; and the
\* throttle admits no more failed logins in a window than its limit
\* (auth.service.ts, resetPassword; login-throttle).
PasswordsGuardTheAccount == TypeOK /\ SessionsKnowThePassword /\ FailuresWithinTheLimit

=============================================================================
