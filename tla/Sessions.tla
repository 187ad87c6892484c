------------------------------ MODULE Sessions ------------------------------
(***************************************************************************)
(* The session of a customer: auth/auth.service.ts (login, refresh, logout,*)
(* logoutAll) and the browser that keeps it: the cookie with the refresh   *)
(* token, shared by the tabs, and in each tab the store with the access    *)
(* token (auth.store.ts), the refresh when the page loads (AuthBootstrap)  *)
(* and after a 401 (api-client.ts), and the logout (useLogout).            *)
(*                                                                         *)
(* A refresh is two steps of the server: it reads the row of the token it  *)
(* was shown, and later revokes that row and inserts another.  Answers     *)
(* arrive in any order; the cookie changes when one arrives.  A dead row   *)
(* that nothing names is a free identifier again.                          *)
(***************************************************************************)
EXTENDS FiniteSets

CONSTANTS Tabs, Browsers,
          BrowserOf, \* the browser of each tab
          Tokens,    \* refresh tokens; their number is a bound
          None,      \* no token
          Patient,   \* the user waits for the calls of his tab
          Faults     \* a subset of {"lost"}: an answer may be lost

VARIABLES
  row,     \* the rows of refresh_tokens
  cookie,  \* the token each browser keeps
  status, access, \* the store of each tab
  call,    \* the calls of each tab that have not ended
  notice,  \* the scope of the logout whose success the tab shows, until a login
  wronged  \* a tab was logged out although the session went on (history)

vars == <<row, cookie, status, access, call, notice, wronged>>
store == <<status, access>>
history == <<notice, wronged>>

Kinds == { "bootstrap", "interceptor", "login", "logout" }
Scopes == { "actual", "todas" }
AuthStatus == { "idle", "loading", "authenticated", "unauthenticated" }
Steps == { "none", "asked", "checked", "issued", "refused", "posted", "postedStale", "closed" }

NoCall == [step |-> "none", token |-> None, scope |-> "actual"]
Row == [state : {"dead", "live", "rotated", "closed"}, of : Browsers]

Init ==
  /\ row \in [Tokens -> { r \in Row : r.state = "dead" /\ r.of = CHOOSE b \in Browsers : TRUE }]
  /\ cookie = [b \in Browsers |-> None]
  /\ status = [t \in Tabs |-> "idle"] /\ access = [t \in Tabs |-> "none"]
  /\ call = [t \in Tabs |-> [k \in Kinds |-> NoCall]]
  /\ notice = [t \in Tabs |-> "none"] /\ wronged = FALSE

-----------------------------------------------------------------------------
Cookie(t) == cookie[BrowserOf[t]]
Live(tok) == tok # None /\ row[tok].state = "live"
Out(t) == { k \in Kinds : call[t][k].step # "none" }
Quiet(t) == Out(t) = {}

\* Identifiers of no live row, which nothing names any longer.
Unused ==
  Tokens \ ({ tok \in Tokens : Live(tok) } \cup { cookie[b] : b \in Browsers }
            \cup { call[t][k].token : t \in Tabs, k \in Kinds })

Goes(t, k, step, tok) == [call EXCEPT ![t][k] = [@ EXCEPT !.step = step, !.token = tok]]
Ends(t, k) == [call EXCEPT ![t][k] = NoCall]

\* setSession, clear
SetSession(t) ==
  /\ status' = [status EXCEPT ![t] = "authenticated"]
  /\ access' = [access EXCEPT ![t] = "fresh"]
Cleared(t) ==
  /\ status' = [status EXCEPT ![t] = "unauthenticated"]
  /\ access' = [access EXCEPT ![t] = "none"]

SetRefreshCookie(t, tok) == [cookie EXCEPT ![BrowserOf[t]] = tok]

\* issueTokenPair, in the rows that are left of before.
Issued(before, new, t) == [before EXCEPT ![new] = [state |-> "live", of |-> BrowserOf[t]]]

-----------------------------------------------------------------------------
(***************************************************************************)
(* Refresh: when the page loads, and after a 401.                          *)
(***************************************************************************)
Load(t) ==
  /\ Quiet(t) /\ status[t] # "loading"
  /\ status' = [status EXCEPT ![t] = "loading"]
  /\ access' = [access EXCEPT ![t] = "none"]
  /\ call' = Goes(t, "bootstrap", "asked", Cookie(t))
  /\ UNCHANGED <<row, cookie, history>>

AccessExpires(t) ==
  /\ access[t] = "fresh"
  /\ access' = [access EXCEPT ![t] = "stale"]
  /\ UNCHANGED <<row, cookie, status, call, history>>

\* The answer to a call with an access token that expired; the calls of a tab
\* share one refresh.
Unauthorized(t) ==
  /\ access[t] = "stale" /\ "interceptor" \notin Out(t)
  /\ call' = Goes(t, "interceptor", "asked", Cookie(t))
  /\ UNCHANGED <<row, cookie, store, history>>

Accepted(tok) == Live(tok)

CheckRefresh(t, k) ==
  /\ k # "login" /\ call[t][k].step = "asked"
  /\ LET tok == call[t][k].token
     IN call' = Goes(t, k, IF Accepted(tok) THEN "checked" ELSE "refused", tok)
  /\ UNCHANGED <<row, cookie, store, history>>

\* Revokes the row it read, whatever became of it, and inserts the next.
Rotate(t, k) ==
  /\ call[t][k].step = "checked"
  /\ \E new \in Unused :
       LET old == call[t][k].token
           revoked == [row EXCEPT ![old].state = IF @ = "live" THEN "rotated" ELSE @]
       IN /\ row' = Issued(revoked, new, t)
          /\ call' = Goes(t, k, "issued", new)
  /\ UNCHANGED <<cookie, store, notice, wronged>>

\* Mutant of RefreshEnds: the controller sets no cookie.
RefreshEndsKeepingCookie(t, k) ==
  /\ k \in {"bootstrap", "interceptor"} /\ call[t][k].step = "issued"
  /\ SetSession(t) /\ call' = Ends(t, k)
  /\ UNCHANGED <<row, cookie, history>>

RefreshEnds(t, k) ==
  /\ k \in {"bootstrap", "interceptor"} /\ call[t][k].step = "issued"
  /\ cookie' = SetRefreshCookie(t, call[t][k].token)
  /\ SetSession(t) /\ call' = Ends(t, k)
  /\ UNCHANGED <<row, history>>

RefreshRefused(t, k) ==
  /\ k \in {"bootstrap", "interceptor"} /\ call[t][k].step = "refused"
  /\ Cleared(t) /\ call' = Ends(t, k)
  /\ wronged' = (\/ wronged
                 \/ Live(Cookie(t))
                 \/ call[t][k].token # None /\ row[call[t][k].token].state = "rotated")
  /\ UNCHANGED <<row, cookie, notice>>

-----------------------------------------------------------------------------
(***************************************************************************)
(* Login and logout                                                        *)
(***************************************************************************)
\* The form sends one login at a time; whoever is in may not need it.
Login(t) ==
  /\ status[t] \notin {"idle", "authenticated"} /\ "login" \notin Out(t)
  /\ Patient => Quiet(t)
  /\ call' = Goes(t, "login", "asked", None)
  /\ notice' = [notice EXCEPT ![t] = "none"]
  /\ UNCHANGED <<row, cookie, store, wronged>>

LoginAccepted(t) ==
  /\ call[t]["login"].step = "asked"
  /\ \E new \in Unused :
       /\ row' = Issued(row, new, t)
       /\ call' = Goes(t, "login", "issued", new)
  /\ UNCHANGED <<cookie, store, history>>

LoginEnds(t) ==
  /\ call[t]["login"].step = "issued"
  /\ cookie' = SetRefreshCookie(t, call[t]["login"].token)
  /\ SetSession(t) /\ call' = Ends(t, "login")
  /\ UNCHANGED <<row, history>>

\* The store is cleared at once, the server is told with the token it had.
Logout(t, scope) ==
  /\ status[t] = "authenticated" /\ "logout" \notin Out(t)
  /\ Patient => Quiet(t)
  /\ call' = [call EXCEPT ![t]["logout"] =
                [step |-> IF access[t] = "fresh" THEN "posted" ELSE "postedStale",
                 token |-> Cookie(t), scope |-> scope]]
  /\ Cleared(t)
  /\ UNCHANGED <<row, cookie, history>>

\* JwtAuthGuard answers 401: one refresh, without the store.
LogoutUnauthorized(t) ==
  /\ call[t]["logout"].step = "postedStale"
  /\ call' = Goes(t, "logout", "asked", Cookie(t))
  /\ UNCHANGED <<row, cookie, store, history>>

LogoutRefreshed(t) ==
  /\ call[t]["logout"].step = "issued"
  /\ cookie' = SetRefreshCookie(t, call[t]["logout"].token)
  /\ call' = Goes(t, "logout", "posted", call[t]["logout"].token)
  /\ UNCHANGED <<row, store, history>>

\* logout, logoutAll
ClosedBy(c) ==
  IF c.scope = "todas" THEN { tok \in Tokens : Live(tok) }
  ELSE { tok \in {c.token} : Live(tok) }

Close(toks) == [tok \in Tokens |-> IF tok \in toks THEN [row[tok] EXCEPT !.state = "closed"]
                                   ELSE row[tok]]

LogoutHandled(t) ==
  /\ call[t]["logout"].step = "posted"
  /\ row' = Close(ClosedBy(call[t]["logout"]))
  /\ call' = Goes(t, "logout", "closed", call[t]["logout"].token)
  /\ UNCHANGED <<cookie, store, history>>

\* Done, or no session is left that could be closed (flow 2a).
LogoutEnds(t) ==
  /\ call[t]["logout"].step \in {"closed", "refused"}
  /\ cookie' = IF call[t]["logout"].step = "closed" THEN SetRefreshCookie(t, None) ELSE cookie
  /\ notice' = [notice EXCEPT ![t] = call[t]["logout"].scope]
  /\ call' = Ends(t, "logout")
  /\ UNCHANGED <<row, store, wronged>>

-----------------------------------------------------------------------------
\* resetPassword ends every session too (CU-08, step 8).
PasswordReset ==
  /\ row' = Close({ tok \in Tokens : Live(tok) })
  /\ UNCHANGED <<cookie, store, call, history>>

SessionExpires(tok) ==
  /\ Live(tok)
  /\ row' = [row EXCEPT ![tok].state = "dead"]
  /\ UNCHANGED <<cookie, store, call, history>>

\* No answer: the call fails as a refused one does; a logout shows a warning.
LoseAnswer(t, k) ==
  /\ "lost" \in Faults /\ call[t][k].step \in {"issued", "refused", "closed"}
  /\ IF k \in {"bootstrap", "interceptor"} THEN Cleared(t) ELSE UNCHANGED store
  /\ call' = Ends(t, k)
  /\ UNCHANGED <<row, cookie, history>>

Answered(t) ==
  \/ LoginAccepted(t) \/ LoginEnds(t)
  \/ LogoutUnauthorized(t) \/ LogoutRefreshed(t) \/ LogoutHandled(t) \/ LogoutEnds(t)
  \/ \E k \in Kinds : \/ CheckRefresh(t, k) \/ Rotate(t, k)
                      \/ RefreshEnds(t, k) \/ RefreshRefused(t, k)

Next ==
  \/ \E t \in Tabs : \/ Load(t) \/ AccessExpires(t) \/ Unauthorized(t)
                     \/ Login(t) \/ \E scope \in Scopes : Logout(t, scope)
                     \/ Answered(t) \/ \E k \in Kinds : LoseAnswer(t, k)
  \/ PasswordReset \/ \E tok \in Tokens : SessionExpires(tok)

Spec == Init /\ [][Next]_vars

\* The server answers, what it answers arrives, and sessions expire.
LiveSpec ==
  /\ Spec /\ \A tok \in Tokens : WF_vars(SessionExpires(tok))
  /\ \A t \in Tabs, k \in Kinds :
       /\ WF_vars(CheckRefresh(t, k)) /\ WF_vars(Rotate(t, k))
       /\ WF_vars(RefreshEnds(t, k)) /\ WF_vars(RefreshRefused(t, k))

-----------------------------------------------------------------------------
\* Values of their kinds; a tab has an access token exactly while it is logged in.
TypeOK ==
  /\ row \in [Tokens -> Row] /\ cookie \in [Browsers -> Tokens \cup {None}]
  /\ call \in [Tabs -> [Kinds -> [step : Steps, token : Tokens \cup {None}, scope : Scopes]]]
  /\ notice \in [Tabs -> Scopes \cup {"none"}]
  /\ \A t \in Tabs : /\ status[t] \in AuthStatus /\ access[t] \in {"none", "fresh", "stale"}
                     /\ status[t] = "authenticated" <=> access[t] # "none"

\* Whatever the tabs do at once, when their calls have ended the browser does
\* not keep a token that a refresh has replaced (refresh; setRefreshCookie).
CookieIsNeverRotated ==
  \A b \in Browsers :
    /\ \A t \in Tabs : BrowserOf[t] = b => Quiet(t)
    /\ cookie[b] # None
    => row[cookie[b]].state # "rotated"

\* "Un solo refresh por carga de la app ... y si el 401 resuelve ultimo, borra
\* una sesion valida ... compartir la promesa lo evita" (AuthBootstrap, 26-32):
\* no tab is logged out because of a token that was merely replaced.
ClearedSessionsWereDead == ~wronged

\* A tab that shows the success of a logout is out, and the server keeps no
\* session of its browser (useLogout; logout and logoutAll).
LogoutEndsTheSession ==
  \A t \in Tabs : notice[t] # "none" =>
    /\ status[t] # "authenticated"
    /\ ~\E tok \in Tokens : Live(tok) /\ row[tok].of = BrowserOf[t]

\* A browser holds one session at most, the one in its cookie, while no call
\* is out: refresh, login and logout leave none behind.
OneSessionPerBrowser ==
  \A tok \in Tokens :
    /\ Live(tok)
    /\ \A t \in Tabs : BrowserOf[t] = row[tok].of => Quiet(t)
    => cookie[row[tok].of] = tok

\* The page does not wait for ever for its session (AuthBootstrap, 36-40).
LoadingEnds == \A t \in Tabs : status[t] = "loading" ~> status[t] # "loading"
=============================================================================
