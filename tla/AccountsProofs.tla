---------------------------- MODULE AccountsProofs ----------------------------
(***************************************************************************)
(* The account behind an address, its address book, the mails, and the     *)
(* session of a browser.  The first two promise what they promise to       *)
(* requests that do not overlap: the handlers read and write with nothing  *)
(* around them.  The account keeps its links wherever the server stops;    *)
(* its sessions only while it does not.  Mails, and the tabs of a browser, *)
(* interleave freely; with one tab the user waits for its calls.           *)
(***************************************************************************)
EXTENDS AccountsMC, Sequences, FiniteSetTheorems, TLAPS

\* Requests to one account follow one another.
OneAtATime == \A q, r \in Requests : q = r

\* None is nothing else, and the limits are numbers.
Limits == MaxMails \in Nat /\ MaxFailures \in Nat
NoneIsNothing == None \notin Links /\ None \notin Passwords

-----------------------------------------------------------------------------
Request ==
  [op : Operations, step : Steps \cup {"idle"}, link : Links \cup {None},
   password : Passwords \cup {None}, status : UserStatus]

AType ==
  /\ user \in User /\ link \in [Links -> LinkRow]
  /\ mailed \in [LinkKinds -> Links \cup {None}]
  /\ sent \in [LinkKinds -> 0..MaxMails] /\ failures \in Nat /\ sessions \subseteq Passwords
  /\ req \in [Requests -> Request]
  /\ user.status = "none" <=> user.password = None

\* A request carries what its steps use.
Carries(r) ==
  /\ req[r].op \in {"register", "reset"} => req[r].password \in Passwords
  /\ req[r].op \in {"verify", "reset"} => req[r].link \in Links
  /\ req[r].step = "create" => req[r].op = "register"
  /\ req[r].step = "consume" => req[r].op \in {"verify", "reset"}
  /\ req[r].step = "password" => req[r].op = "reset"
  /\ req[r].step \in {"save", "send", "invalidate"} => req[r].op \in {"register", "resend", "forgot"}
  /\ req[r].step = "send" => req[r].link \in Links

\* Steps of an account that exists.
Later == { "invalidate", "save", "send", "consume", "password", "revoke", "activate" }

\* Links and requests to change it are of an account that exists.
Exists ==
  user.status = "none" =>
    /\ \A l \in Links : link[l].state # "pending"
    /\ \A r \in Requests : req[r].step \notin Later

\* A link that still works, or that a request took, changed nothing so far.
FreshLinks ==
  /\ \A l \in Links : link[l].uses <= 1
  /\ \A l \in Links : link[l].state = "pending" => link[l].uses = 0
  /\ \A r \in Requests : req[r].step = "consume" => link[req[r].link].uses = 0

Works(k, l) == link[l].kind = k /\ link[l].state = "pending"

\* Of a kind one link works at most, and none before one is saved.
LastLinks ==
  /\ \A k \in LinkKinds : \A l, m \in Links : Works(k, l) /\ Works(k, m) => l = m
  /\ \A r \in Requests : req[r].step = "save" => \A l \in Links : ~Works(Kind(r), l)

LInv == AType /\ (\A r \in Requests : Carries(r)) /\ Exists /\ FreshLinks /\ LastLinks

\* Between a new password and the end of the sessions there is one step.
KnownSessions ==
  (\A r \in Requests : req[r].step # "revoke") => sessions \subseteq {user.password}

\* Whoever was admitted may fail once more.
CountedFailures ==
  /\ failures <= MaxFailures
  /\ \A r \in Requests : req[r].step = "admitted" => failures < MaxFailures

AccountInv ==
  LInv /\ stopped \in BOOLEAN /\ (~stopped => KnownSessions) /\ CountedFailures

-----------------------------------------------------------------------------
LEMMA IdleIsARequest == Idle \in Request
BY DEF Idle, Request, Operations, Steps, UserStatus

LEMMA InitL ==
  ASSUME NoneIsNothing, Limits, Init
  PROVE  LInv
<1>1. AType
  <2>1. req \in [Requests -> Request] BY IdleIsARequest DEF Init
  <2> QED
    BY <2>1 DEF NoneIsNothing, Limits, Init, AType, User, UserStatus, LinkRow, LinkKinds
<1>2. \A r \in Requests : Carries(r) BY DEF Init, Carries, Idle
<1>3. Exists BY DEF Init, Exists, Later, Idle
<1>4. FreshLinks BY DEF Init, FreshLinks, Idle
<1>5. LastLinks BY DEF Init, LastLinks, Works, Idle, Kind
<1> QED BY <1>1, <1>2, <1>3, <1>4, <1>5 DEF LInv

\* A page puts a request where there was none.
LEMMA AskKeepsL ==
  ASSUME OneAtATime, NoneIsNothing, Limits, LInv, NEW r \in Requests,
         NEW op \in Operations, NEW l \in Links \cup {None}, NEW pw \in Passwords \cup {None},
         op \in {"register", "reset"} => pw \in Passwords,
         op \in {"verify", "reset"} => l \in Links,
         Ask(r, op, l, pw)
  PROVE  LInv'
<1> USE DEF LInv, Ask
<1>1. AType' BY DEF AType, Request, Steps, UserStatus
<1>2. \A q \in Requests : Carries(q)' BY DEF Carries, AType, Request, OneAtATime
<1>3. Exists' BY DEF Exists, Later, AType, Request
<1>4. FreshLinks' BY DEF FreshLinks, AType, Request
<1>5. LastLinks' BY DEF LastLinks, Works, Kind, AType, Request
<1> QED BY <1>1, <1>2, <1>3, <1>4, <1>5 DEF LInv

\* A step of a handler keeps what the links rest on.
LEMMA HandleKeepsL ==
  ASSUME OneAtATime, NoneIsNothing, Limits, LInv, NEW r \in Requests, Handle(r)
  PROVE  LInv'
<1> USE IdleIsARequest DEF LInv, OneAtATime
<1>1. CASE Begin(r)
  <2> USE <1>1 DEF Begin, Goes, Ends
  <2>1. AType'
    BY DEF AType, User, LinkRow, Request, LinkKinds, Steps, Operations, UserStatus,
       NoneIsNothing, Limits, Idle
  <2>2. \A q \in Requests : Carries(q)' BY DEF Carries, AType, Request, Idle
  <2>3. Exists' BY DEF Exists, Later, Idle, Carries, AType, Request, User
  <2>4. FreshLinks' BY DEF FreshLinks, Carries, AType, LinkRow, Request, Idle
  <2>5. LastLinks' BY DEF LastLinks, Works, Kind, AType, Request, LinkRow, Carries, Idle
  <2> QED BY <2>1, <2>2, <2>3, <2>4, <2>5 DEF LInv
<1>2. CASE Create(r)
  <2> USE <1>2 DEF Create, Goes, Ends
  <2>1. AType'
    BY DEF AType, User, LinkRow, Request, LinkKinds, Steps, Operations, UserStatus,
       NoneIsNothing, Limits, Idle, Carries, Exists, Later
  <2>2. \A q \in Requests : Carries(q)' BY DEF Carries, AType, Request, Idle
  <2>3. Exists' BY DEF Exists, Later, Idle, Carries, AType, Request, User
  <2>4. FreshLinks' BY DEF FreshLinks, Carries, AType, LinkRow, Request, Idle
  <2>5. LastLinks' BY DEF LastLinks, Works, Kind, AType, Request, LinkRow, Carries, Idle
  <2> QED BY <2>1, <2>2, <2>3, <2>4, <2>5 DEF LInv
<1>3. CASE InvalidatePending(r)
  <2> USE <1>3 DEF InvalidatePending, Invalidated, Goes
  <2>1. AType'
    <3>1. link' \in [Links -> LinkRow] BY DEF AType, LinkRow
    <3>2. req' \in [Requests -> Request] BY DEF AType, Request, Steps
    <3> QED BY <3>1, <3>2 DEF AType
  <2>2. \A q \in Requests : Carries(q)' BY DEF Carries, AType, Request, Idle
  <2>3. Exists' BY DEF Exists, Later, Idle, Carries, AType, Request, User
  <2>4. FreshLinks' BY DEF FreshLinks, Carries, AType, LinkRow, Request, Idle
  <2>5. LastLinks' BY DEF LastLinks, Works, Kind, AType, Request, LinkRow, Carries, Idle
  <2> QED BY <2>1, <2>2, <2>3, <2>4, <2>5 DEF LInv
<1>4. CASE SaveLink(r)
  <2> USE <1>4 DEF SaveLink, Unused
  <2>1. AType'
    BY DEF AType, User, LinkRow, Request, LinkKinds, Steps, Operations, UserStatus,
       NoneIsNothing, Limits, Idle
  <2>2. \A q \in Requests : Carries(q)' BY DEF Carries, AType, Request, Idle
  <2>3. Exists' BY DEF Exists, Later, Idle, Carries, AType, Request, User
  <2>4. FreshLinks' BY DEF FreshLinks, Carries, AType, LinkRow, Request, Idle
  <2>5. LastLinks' BY DEF LastLinks, Works, Kind, AType, Request, LinkRow, Carries, Idle
  <2> QED BY <2>1, <2>2, <2>3, <2>4, <2>5 DEF LInv
<1>5. CASE SendLink(r)
  <2> USE <1>5 DEF SendLink, Ends
  <2>1. AType'
    BY DEF AType, User, LinkRow, Request, LinkKinds, Steps, Operations, UserStatus,
       NoneIsNothing, Limits, Idle
  <2>2. \A q \in Requests : Carries(q)' BY DEF Carries, AType, Request, Idle
  <2>3. Exists' BY DEF Exists, Later, Idle, Carries, AType, Request, User
  <2>4. FreshLinks' BY DEF FreshLinks, Carries, AType, LinkRow, Request, Idle
  <2>5. LastLinks' BY DEF LastLinks, Works, Kind, AType, Request, LinkRow, Carries, Idle
  <2> QED BY <2>1, <2>2, <2>3, <2>4, <2>5 DEF LInv
<1>6. CASE ReadForVerify(r)
  <2> USE <1>6 DEF ReadForVerify, At, Goes, Ends, LinkAccepted
  <2>1. AType'
    BY DEF AType, User, LinkRow, Request, LinkKinds, Steps, Operations, UserStatus,
       NoneIsNothing, Limits, Idle
  <2>2. \A q \in Requests : Carries(q)' BY DEF Carries, AType, Request, Idle
  <2>3. Exists' BY DEF Exists, Later, Idle, Carries, AType, Request, User
  <2>4. FreshLinks' BY DEF FreshLinks, Carries, AType, LinkRow, Request, Idle
  <2>5. LastLinks' BY DEF LastLinks, Works, Kind, AType, Request, LinkRow, Carries, Idle
  <2> QED BY <2>1, <2>2, <2>3, <2>4, <2>5 DEF LInv
<1>7. CASE ReadForReset(r)
  <2> USE <1>7 DEF ReadForReset, At, Ends, LinkAccepted
  <2>1. AType'
    BY DEF AType, User, LinkRow, Request, LinkKinds, Steps, Operations, UserStatus,
       NoneIsNothing, Limits, Idle
  <2>2. \A q \in Requests : Carries(q)' BY DEF Carries, AType, Request, Idle
  <2>3. Exists' BY DEF Exists, Later, Idle, Carries, AType, Request, User
  <2>4. FreshLinks' BY DEF FreshLinks, Carries, AType, LinkRow, Request, Idle
  <2>5. LastLinks' BY DEF LastLinks, Works, Kind, AType, Request, LinkRow, Carries, Idle
  <2> QED BY <2>1, <2>2, <2>3, <2>4, <2>5 DEF LInv
<1>8. CASE Consume(r)
  <2> USE <1>8 DEF Consume, Goes
  <2>1. AType'
    BY DEF AType, User, LinkRow, Request, LinkKinds, Steps, Operations, UserStatus,
       NoneIsNothing, Limits, Idle, Carries, Exists, Later
  <2>2. \A q \in Requests : Carries(q)' BY DEF Carries, AType, Request, Idle
  <2>3. Exists' BY DEF Exists, Later, Idle, Carries, AType, Request, User
  <2>4. FreshLinks' BY DEF FreshLinks, Carries, AType, LinkRow, Request, Idle
  <2>5. LastLinks' BY DEF LastLinks, Works, Kind, AType, Request, LinkRow, Carries, Idle
  <2> QED BY <2>1, <2>2, <2>3, <2>4, <2>5 DEF LInv
<1>9. CASE UpdatePassword(r)
  <2> USE <1>9 DEF UpdatePassword, Goes
  <2>1. AType'
    BY DEF AType, User, LinkRow, Request, LinkKinds, Steps, Operations, UserStatus,
       NoneIsNothing, Limits, Idle, Carries, Exists, Later
  <2>2. \A q \in Requests : Carries(q)' BY DEF Carries, AType, Request, Idle
  <2>3. Exists' BY DEF Exists, Later, Idle, Carries, AType, Request, User
  <2>4. FreshLinks' BY DEF FreshLinks, Carries, AType, LinkRow, Request, Idle
  <2>5. LastLinks' BY DEF LastLinks, Works, Kind, AType, Request, LinkRow, Carries, Idle
  <2> QED BY <2>1, <2>2, <2>3, <2>4, <2>5 DEF LInv
<1>10. CASE RevokeSessions(r)
  <2> USE <1>10 DEF RevokeSessions, Revoked, Goes, Ends
  <2>1. AType'
    BY DEF AType, User, LinkRow, Request, LinkKinds, Steps, Operations, UserStatus,
       NoneIsNothing, Limits, Idle
  <2>2. \A q \in Requests : Carries(q)' BY DEF Carries, AType, Request, Idle
  <2>3. Exists' BY DEF Exists, Later, Idle, Carries, AType, Request, User
  <2>4. FreshLinks' BY DEF FreshLinks, Carries, AType, LinkRow, Request, Idle
  <2>5. LastLinks' BY DEF LastLinks, Works, Kind, AType, Request, LinkRow, Carries, Idle
  <2> QED BY <2>1, <2>2, <2>3, <2>4, <2>5 DEF LInv
<1>11. CASE Activate(r)
  <2> USE <1>11 DEF Activate, Ends
  <2>1. AType'
    BY DEF AType, User, LinkRow, Request, LinkKinds, Steps, Operations, UserStatus,
       NoneIsNothing, Limits, Idle, Carries, Exists, Later
  <2>2. \A q \in Requests : Carries(q)' BY DEF Carries, AType, Request, Idle
  <2>3. Exists' BY DEF Exists, Later, Idle, Carries, AType, Request, User
  <2>4. FreshLinks' BY DEF FreshLinks, Carries, AType, LinkRow, Request, Idle
  <2>5. LastLinks' BY DEF LastLinks, Works, Kind, AType, Request, LinkRow, Carries, Idle
  <2> QED BY <2>1, <2>2, <2>3, <2>4, <2>5 DEF LInv
<1>12. CASE AssertNotLocked(r)
  <2> USE <1>12 DEF AssertNotLocked, At, NotLocked, Goes, Ends
  <2>1. AType'
    BY DEF AType, User, LinkRow, Request, LinkKinds, Steps, Operations, UserStatus,
       NoneIsNothing, Limits, Idle
  <2>2. \A q \in Requests : Carries(q)' BY DEF Carries, AType, Request, Idle
  <2>3. Exists' BY DEF Exists, Later, Idle, Carries, AType, Request, User
  <2>4. FreshLinks' BY DEF FreshLinks, Carries, AType, LinkRow, Request, Idle
  <2>5. LastLinks' BY DEF LastLinks, Works, Kind, AType, Request, LinkRow, Carries, Idle
  <2> QED BY <2>1, <2>2, <2>3, <2>4, <2>5 DEF LInv
<1>13. CASE Authenticate(r)
  <2> USE <1>13 DEF Authenticate, Ends
  <2>1. AType'
    BY DEF AType, User, LinkRow, Request, LinkKinds, Steps, Operations, UserStatus,
       NoneIsNothing, Limits, Idle
  <2>2. \A q \in Requests : Carries(q)' BY DEF Carries, AType, Request, Idle
  <2>3. Exists' BY DEF Exists, Later, Idle, Carries, AType, Request, User
  <2>4. FreshLinks' BY DEF FreshLinks, Carries, AType, LinkRow, Request, Idle
  <2>5. LastLinks' BY DEF LastLinks, Works, Kind, AType, Request, LinkRow, Carries, Idle
  <2> QED BY <2>1, <2>2, <2>3, <2>4, <2>5 DEF LInv
<1> QED
  BY <1>1, <1>2, <1>3, <1>4, <1>5, <1>6, <1>7, <1>8, <1>9, <1>10, <1>11, <1>12, <1>13 DEF Handle

\* So does every step, and a stop of the server.
LEMMA NextKeepsL ==
  ASSUME OneAtATime, NoneIsNothing, Limits, LInv, [Next]_vars
  PROVE  LInv'
<1> USE DEF LInv
<1>1. ASSUME NEW r \in Requests, RegisterPage(r) PROVE LInv'
  BY <1>1, AskKeepsL DEF RegisterPage, Operations
<1>2. ASSUME NEW r \in Requests, LoginPage(r) PROVE LInv'
  BY <1>2, AskKeepsL DEF LoginPage, Operations
<1>3. ASSUME NEW r \in Requests, ForgotPage(r) PROVE LInv'
  BY <1>3, AskKeepsL DEF ForgotPage, Operations
<1>4. ASSUME NEW r \in Requests, VerifyPage(r) PROVE LInv'
  <2>1. mailed["verify"] \in Links \cup {None} BY DEF AType, LinkKinds
  <2> QED BY <1>4, <2>1, AskKeepsL DEF VerifyPage, Operations
<1>5. ASSUME NEW r \in Requests, ResetPage(r) PROVE LInv'
  <2>1. mailed["reset"] \in Links \cup {None} BY DEF AType, LinkKinds
  <2> QED BY <1>5, <2>1, AskKeepsL DEF ResetPage, Operations
<1>6. ASSUME NEW r \in Requests, Handle(r) PROVE LInv'
  BY <1>6, HandleKeepsL
<1>7. ASSUME NEW l \in Links, LinkExpires(l) PROVE LInv'
  <2> USE <1>7 DEF LinkExpires
  <2>1. AType' BY DEF AType, LinkRow
  <2>2. \A q \in Requests : Carries(q)' BY DEF Carries
  <2>3. Exists' BY DEF Exists, AType, LinkRow
  <2>4. FreshLinks' BY DEF FreshLinks, AType, LinkRow
  <2>5. LastLinks' BY DEF LastLinks, Works, Kind, AType, LinkRow
  <2> QED BY <2>1, <2>2, <2>3, <2>4, <2>5
<1>8. CASE HourPasses \/ WindowPasses \/ UNCHANGED vars
  <2> USE <1>8 DEF HourPasses, WindowPasses, vars
  <2>1. AType' BY DEF AType, Limits
  <2>2. \A q \in Requests : Carries(q)' BY DEF Carries
  <2>3. Exists' BY DEF Exists
  <2>4. FreshLinks' BY DEF FreshLinks
  <2>5. LastLinks' BY DEF LastLinks, Works, Kind
  <2> QED BY <2>1, <2>2, <2>3, <2>4, <2>5
<1>9. CASE Crash
  <2> USE <1>9, IdleIsARequest DEF Crash
  <2>1. AType' BY DEF AType
  <2>2. \A q \in Requests : Carries(q)' BY DEF Carries, Idle
  <2>3. Exists' BY DEF Exists, Later, Idle
  <2>4. FreshLinks' BY DEF FreshLinks, Idle
  <2>5. LastLinks' BY DEF LastLinks, Works, Kind, Idle
  <2> QED BY <2>1, <2>2, <2>3, <2>4, <2>5
<1> QED BY <1>1, <1>2, <1>3, <1>4, <1>5, <1>6, <1>7, <1>8, <1>9 DEF Next, Runs

-----------------------------------------------------------------------------
(***************************************************************************)
(* Sessions and the throttle                                               *)
(***************************************************************************)
\* While the server does not stop, a step keeps the sessions of the password.
LEMMA NextKeepsSessions ==
  ASSUME OneAtATime, NoneIsNothing, LInv, KnownSessions, Runs \/ UNCHANGED vars
  PROVE  KnownSessions'
<1> USE DEF KnownSessions, OneAtATime
<1>1. ASSUME NEW r \in Requests, NEW op, NEW l, NEW pw, Ask(r, op, l, pw) PROVE KnownSessions'
  BY <1>1 DEF Ask, Idle, LInv, AType
<1>2. ASSUME NEW r \in Requests, Handle(r) PROVE KnownSessions'
  <2> USE DEF LInv, AType, Request, Goes, Ends, Idle
  <2>1. CASE Begin(r) \/ InvalidatePending(r) \/ SaveLink(r) \/ SendLink(r)
             \/ ReadForVerify(r) \/ ReadForReset(r) \/ Consume(r) \/ AssertNotLocked(r)
    BY <2>1 DEF Begin, InvalidatePending, SaveLink, SendLink, ReadForVerify, ReadForReset,
                Consume, AssertNotLocked, At
  <2>2. CASE Create(r)
    BY <2>2 DEF Create, NoneIsNothing
  <2>3. CASE UpdatePassword(r)
    BY <2>3 DEF UpdatePassword
  <2>4. CASE RevokeSessions(r)
    BY <2>4 DEF RevokeSessions, Revoked
  <2>5. CASE Activate(r)
    BY <2>5 DEF Activate, User
  <2>6. CASE Authenticate(r)
    BY <2>6 DEF Authenticate
  <2> QED BY <1>2, <2>1, <2>2, <2>3, <2>4, <2>5, <2>6 DEF Handle
<1>3. CASE (\E l \in Links : LinkExpires(l)) \/ HourPasses \/ WindowPasses \/ UNCHANGED vars
  BY <1>3 DEF LinkExpires, HourPasses, WindowPasses, vars
<1> QED
  BY <1>1, <1>2, <1>3 DEF Runs, RegisterPage, LoginPage, ForgotPage, VerifyPage, ResetPage

\* A step counts a failure only of a request that was admitted.
LEMMA NextKeepsFailures ==
  ASSUME OneAtATime, Limits, LInv, CountedFailures, [Next]_vars
  PROVE  CountedFailures'
<1> USE DEF CountedFailures, OneAtATime, LInv, AType, Limits, Request
<1>1. ASSUME NEW r \in Requests, NEW op, NEW l, NEW pw, Ask(r, op, l, pw) PROVE CountedFailures'
  BY <1>1 DEF Ask
<1>2. ASSUME NEW r \in Requests, Handle(r) PROVE CountedFailures'
  <2> USE DEF Goes, Ends, Idle
  <2>1. CASE Begin(r) \/ Create(r) \/ InvalidatePending(r) \/ SaveLink(r) \/ SendLink(r)
    BY <2>1 DEF Begin, Create, InvalidatePending, SaveLink, SendLink
  <2>2. CASE ReadForVerify(r) \/ ReadForReset(r) \/ Consume(r)
    BY <2>2 DEF ReadForVerify, ReadForReset, Consume, At
  <2>3. CASE UpdatePassword(r) \/ RevokeSessions(r) \/ Activate(r)
    BY <2>3 DEF UpdatePassword, RevokeSessions, Activate
  <2>4. CASE AssertNotLocked(r)
    BY <2>4 DEF AssertNotLocked, NotLocked, At
  <2>5. CASE Authenticate(r)
    BY <2>5 DEF Authenticate
  <2> QED BY <1>2, <2>1, <2>2, <2>3, <2>4, <2>5 DEF Handle
<1>3. CASE (\E l \in Links : LinkExpires(l)) \/ HourPasses \/ WindowPasses \/ Crash \/ UNCHANGED vars
  BY <1>3 DEF LinkExpires, HourPasses, WindowPasses, Crash, Idle, vars
<1> QED
  BY <1>1, <1>2, <1>3 DEF Next, Runs, RegisterPage, LoginPage, ForgotPage, VerifyPage, ResetPage

-----------------------------------------------------------------------------
\* Links that do not differ are one at most.
LEMMA OneOfAKind ==
  ASSUME LastLinks
  PROVE  OnlyLastLinkWorks
<1> SUFFICES ASSUME NEW k \in LinkKinds
             PROVE  Cardinality({ l \in Links : link[l].kind = k /\ link[l].state = "pending" }) <= 1
  BY DEF OnlyLastLinkWorks
<1> DEFINE S == { l \in Links : link[l].kind = k /\ link[l].state = "pending" }
<1>1. \A l, m \in S : l = m BY DEF LastLinks, Works
<1>2. CASE S = {}
  BY <1>2, FS_EmptySet
<1>3. CASE S # {}
  <2>1. PICK l \in S : TRUE BY <1>3
  <2>2. S = {l} BY <1>1, <2>1
  <2>3. Cardinality({l}) = 1 BY FS_Singleton
  <2>4. Cardinality(S) = 1 BY <2>2, <2>3
  <2> QED BY <2>4
<1> QED BY <1>2, <1>3

LEMMA InitAccount ==
  ASSUME NoneIsNothing, Limits, Init
  PROVE  AccountInv
<1>1. LInv BY InitL
<1>2. KnownSessions /\ CountedFailures BY DEF Init, KnownSessions, CountedFailures, Limits, Idle
<1> QED BY <1>1, <1>2 DEF AccountInv, Init

LEMMA NextKeepsAccount ==
  ASSUME OneAtATime, NoneIsNothing, Limits, AccountInv, [Next]_vars
  PROVE  AccountInv'
<1> USE DEF AccountInv
<1>1. LInv' BY NextKeepsL
<1>2. CountedFailures' BY NextKeepsFailures
<1>3. ASSUME ~stopped' PROVE KnownSessions'
  <2>1. ~stopped /\ (Runs \/ UNCHANGED vars) BY <1>3 DEF Next, Crash, vars
  <2> QED BY <2>1, NextKeepsSessions
<1>4. stopped' \in BOOLEAN BY DEF Next, Crash, vars
<1> QED BY <1>1, <1>2, <1>3, <1>4

\* Every reachable account is as AccountInv says; the other parts leave it as it
\* began.
LEMMA MCSpecAccountInv ==
  ASSUME OneAtATime, NoneIsNothing, Limits
  PROVE  MCSpec => []AccountInv
<1>1. MCInit => AccountInv BY InitAccount DEF MCInit
<1>2. AccountInv /\ [MCNext]_all => AccountInv'
  <2>1. [MCNext]_all => [Next]_vars
    <3>1. CASE UNCHANGED all BY <3>1, Zenon DEF all
    <3> QED BY <3>1 DEF MCNext, AccountNext, TabNext, BookNext, MailNext
  <2> QED BY <2>1, NextKeepsAccount
<1> QED BY <1>1, <1>2, PTL DEF MCSpec

\* No link changes the account twice and of each kind one link works, wherever
\* the server stops between two writes of a request (auth.service.ts).
THEOREM LinksAlwaysWorkOnce ==
  ASSUME OneAtATime, NoneIsNothing, Limits
  PROVE  MCSpec => []LinksWorkOnce
<1>1. AccountInv => LinksWorkOnce
  BY OneOfAKind DEF AccountInv, LInv, FreshLinks, LinksWorkOnce, SingleUse
<1> QED BY <1>1, MCSpecAccountInv, PTL

\* Between requests, as long as the server did not stop in the middle of one,
\* every session is one of the password the account has; and no more logins fail
\* in a window than the throttle admits (auth.service.ts, resetPassword;
\* login-throttle).
THEOREM PasswordsAlwaysGuard ==
  ASSUME OneAtATime, NoneIsNothing, Limits
  PROVE  MCSpec => []PasswordsGuardTheAccount
<1>1. AccountInv => TypeOK
  BY DEF AccountInv, LInv, AType, Request, TypeOK
<1>2. AccountInv => SessionsKnowThePassword /\ FailuresWithinTheLimit
  BY DEF AccountInv, KnownSessions, SessionsKnowThePassword, Idle, CountedFailures,
         FailuresWithinTheLimit
<1> QED BY <1>1, <1>2, MCSpecAccountInv, PTL DEF PasswordsGuardTheAccount

-----------------------------------------------------------------------------
(***************************************************************************)
(* The address book                                                        *)
(***************************************************************************)
\* One request at a time, from pages that do not take the mark off an address.
BookAssumption ==
  /\ IsFiniteSet(Tabs) /\ MaxOpen = 1 /\ Texts # {}
  /\ Edits \subseteq {"absent", "true"}

BookRequest ==
  [op : {"none", "create", "update", "remove", "default"},
   step : {"idle", "read", "clear", "next", "save"},
   id : Ids \cup {None}, next : Ids \cup {None} \cup Edits, copy : Book!Row]

BType ==
  /\ row \in [Ids -> Book!Row] /\ shown \in [Tabs -> [Ids -> Book!Row]]
  /\ asked \in [Tabs -> BookRequest]
  /\ \A i \in Ids : row[i].isDefault => row[i].isActive

Alone == \A t, u \in Tabs : asked[t] # Book!Idle /\ asked[u] # Book!Idle => t = u

\* i has the mark of the default, and no other address has it.
Only(i) == row[i].isDefault /\ \A j \in Ids : row[j].isDefault => j = i

AtRest == (\A i \in Ids : ~row[i].isActive) \/ \E i \in Ids : Only(i)

\* What a request has read, and what it has still to write.
Reads(t) ==
  /\ AtRest
  /\ asked[t].op \in {"create", "update", "remove", "default"}
  /\ asked[t].op = "create" => asked[t].copy.isActive
  /\ asked[t].op # "create" => asked[t].id \in Ids
  /\ asked[t].op = "update" => asked[t].next \in Edits

Clears(t) ==
  /\ asked[t].op \in {"create", "update", "default"}
  /\ asked[t].op # "create" => asked[t].id \in Ids
  /\ asked[t].copy.isActive /\ asked[t].copy.isDefault

Marks(t) ==
  /\ asked[t].op = "remove" /\ asked[t].id \in Ids /\ asked[t].next \in Ids
  /\ asked[t].next # asked[t].id /\ row[asked[t].next].isActive /\ Only(asked[t].id)
  /\ ~asked[t].copy.isActive /\ ~asked[t].copy.isDefault

SavesNew(t) ==
  /\ asked[t].copy.isActive
  /\ IF asked[t].copy.isDefault THEN \A j \in Ids : ~row[j].isDefault ELSE \E j \in Ids : Only(j)

SavesChange(t) ==
  /\ asked[t].id \in Ids /\ asked[t].copy.isActive
  /\ IF asked[t].copy.isDefault THEN \A j \in Ids \ {asked[t].id} : ~row[j].isDefault
                              ELSE \E j \in Ids \ {asked[t].id} : Only(j)

SavesRemoval(t) ==
  /\ asked[t].id \in Ids /\ ~asked[t].copy.isActive /\ ~asked[t].copy.isDefault
  /\ \/ \A j \in Ids \ {asked[t].id} : ~row[j].isActive
     \/ \E j \in Ids \ {asked[t].id} :
          row[j].isDefault /\ \A k \in Ids : row[k].isDefault => k \in {j, asked[t].id}

Fits(t) ==
  /\ asked[t].step = "read" => Reads(t)
  /\ asked[t].step = "clear" => Clears(t)
  /\ asked[t].step = "next" => Marks(t)
  /\ asked[t].step = "save" =>
       /\ asked[t].op \in {"create", "update", "default", "remove"}
       /\ asked[t].op = "create" => SavesNew(t)
       /\ asked[t].op \in {"update", "default"} => SavesChange(t)
       /\ asked[t].op = "remove" => SavesRemoval(t)

BInv ==
  /\ BType /\ Alone
  /\ \A t \in Tabs : Fits(t)
  /\ (\A t \in Tabs : asked[t] = Book!Idle) => AtRest

-----------------------------------------------------------------------------
LEMMA FreeIsARow ==
  ASSUME BookAssumption
  PROVE  /\ Book!Free \in Book!Row /\ ~Book!Free.isActive /\ ~Book!Free.isDefault
         /\ Book!Idle \in BookRequest /\ Book!Idle.step = "idle"
<1>1. (CHOOSE x \in Texts : TRUE) \in Texts BY DEF BookAssumption
<1> QED BY <1>1 DEF Book!Free, Book!Row, Book!Idle, BookRequest

LEMMA InitB ==
  ASSUME BookAssumption, Book!Init
  PROVE  BInv
BY FreeIsARow DEF Book!Init, BInv, BType, Alone, Fits, AtRest

LEMMA SameCardinality == \A S : Book!Cardinality(S) = Cardinality(S)
BY Zenon DEF Book!Cardinality, Cardinality

\* The only request finds all others done.
LEMMA OpenFindsNone ==
  ASSUME BookAssumption, NEW t, NEW q, Book!Open(t, q)
  PROVE  \A u \in Tabs : asked[u] = Book!Idle
<1> DEFINE S == { u \in Tabs : asked[u] # Book!Idle }
<1>1. IsFiniteSet(S) BY FS_Subset DEF BookAssumption
<1>2. Cardinality(S) < MaxOpen BY SameCardinality, Zenon DEF Book!Open
<1>3. Cardinality(S) = 0 BY <1>1, <1>2, FS_CardinalityType DEF BookAssumption
<1>4. S = {} BY <1>1, <1>3, FS_EmptySet
<1> QED BY <1>4

\* A page begins a request on a book at rest.
LEMMA OpenKeepsB ==
  ASSUME BookAssumption, BInv, NEW t \in Tabs, NEW q \in BookRequest, Book!Open(t, q),
         q.step = "read", q.op \in {"create", "update", "remove", "default"},
         q.op = "create" => q.copy.isActive,
         q.op # "create" => q.id \in Ids,
         q.op = "update" => q.next \in Edits
  PROVE  BInv'
<1>1. \A u \in Tabs : asked[u] = Book!Idle BY OpenFindsNone
<1>2. /\ asked' = [asked EXCEPT ![t] = q] /\ UNCHANGED <<row, shown>> BY DEF Book!Open
<1>3. BType' BY <1>2 DEF BInv, BType
<1>4. Alone' BY <1>1, <1>2 DEF BInv, BType, Alone
<1>5. AtRest /\ AtRest' BY <1>1, <1>2 DEF BInv, AtRest, Only
<1>6. \A u \in Tabs : Fits(u)'
  <2> TAKE u \in Tabs
  <2>1. CASE u = t
    <3>1. asked'[t] = q BY <1>2 DEF BInv, BType
    <3> QED BY <2>1, <3>1, <1>5 DEF Fits, Reads
  <2>2. CASE u # t
    <3>1. asked'[u] = Book!Idle BY <1>1, <1>2, <2>2 DEF BInv, BType
    <3> QED BY <3>1, FreeIsARow DEF Fits
  <2> QED BY <2>1, <2>2
<1> QED BY <1>3, <1>4, <1>5, <1>6 DEF BInv

\* A step of a request that goes on, or ends, while no other is under way.
LEMMA OthersIdle ==
  ASSUME BInv, NEW t \in Tabs, asked[t].step # "idle", BookAssumption
  PROVE  \A u \in Tabs : u # t => asked[u] = Book!Idle
BY FreeIsARow DEF BInv, Alone

\* Whatever t does, the invariant holds after it when t fits.
LEMMA StepKeepsB ==
  ASSUME BookAssumption, BInv, NEW t \in Tabs, asked[t].step # "idle", NEW q,
         asked' = [asked EXCEPT ![t] = q], BType',
         q = Book!Idle => AtRest', q # Book!Idle => Fits(t)'
  PROVE  BInv'
<1>1. \A u \in Tabs : u # t => asked[u] = Book!Idle BY OthersIdle
<1>2. asked'[t] = q /\ \A u \in Tabs : u # t => asked'[u] = Book!Idle
  BY <1>1 DEF BInv, BType
<1>3. Alone' BY <1>2 DEF Alone
<1>4. \A u \in Tabs : Fits(u)'
  <2> TAKE u \in Tabs
  <2>1. CASE asked'[u] = Book!Idle
    BY <2>1, FreeIsARow DEF Fits
  <2>2. CASE asked'[u] # Book!Idle
    BY <2>2, <1>2
  <2> QED BY <2>1, <2>2
<1>5. (\A u \in Tabs : asked[u] = Book!Idle)' => AtRest'
  BY <1>2
<1> QED BY <1>3, <1>4, <1>5 DEF BInv

LEMMA AsksKeepB ==
  ASSUME BookAssumption, BInv, NEW t \in Tabs,
         Book!AskCreate(t) \/ Book!AskUpdate(t) \/ Book!AskRemove(t) \/ Book!AskDefault(t)
  PROVE  BInv'
<1>1. CASE Book!AskCreate(t)
  <2>1. PICK x \in Texts, d \in BOOLEAN :
          Book!Open(t, [op |-> "create", step |-> "read", id |-> None, next |-> None,
                        copy |-> [isActive |-> TRUE, isDefault |-> d, text |-> x]])
    BY <1>1 DEF Book!AskCreate
  <2> DEFINE q == [op |-> "create", step |-> "read", id |-> None, next |-> None,
                   copy |-> [isActive |-> TRUE, isDefault |-> d, text |-> x]]
  <2>2. q \in BookRequest BY DEF BookRequest, Book!Row
  <2>3. q.step = "read" /\ q.op = "create" /\ q.copy.isActive OBVIOUS
  <2>4. Book!Open(t, q) BY <2>1
  <2> HIDE DEF q
  <2> QED BY <2>2, <2>3, <2>4, OpenKeepsB
<1>2. CASE Book!AskUpdate(t)
  <2>1. PICK i \in Book!Book(shown[t]), x \in Texts, d \in Edits :
          Book!Open(t, [op |-> "update", step |-> "read", id |-> i, next |-> d,
                        copy |-> [Book!Free EXCEPT !.text = x]])
    BY <1>2 DEF Book!AskUpdate
  <2> DEFINE q == [op |-> "update", step |-> "read", id |-> i, next |-> d,
                   copy |-> [Book!Free EXCEPT !.text = x]]
  <2>2. i \in Ids BY DEF Book!Book
  <2>3. q \in BookRequest BY <2>2, FreeIsARow DEF BookRequest, Book!Row
  <2>4. q.step = "read" /\ q.op = "update" /\ q.id \in Ids /\ q.next \in Edits BY <2>2
  <2>5. Book!Open(t, q) BY <2>1
  <2> HIDE DEF q
  <2> QED BY <2>3, <2>4, <2>5, OpenKeepsB
<1>3. CASE Book!AskRemove(t)
  <2>1. PICK i \in Book!Book(shown[t]), n \in Book!Book(shown[t]) \cup {None} :
          Book!Open(t, [Book!Idle EXCEPT !.op = "remove", !.step = "read", !.id = i, !.next = n])
    BY <1>3 DEF Book!AskRemove
  <2> DEFINE q == [Book!Idle EXCEPT !.op = "remove", !.step = "read", !.id = i, !.next = n]
  <2>2. i \in Ids /\ n \in Ids \cup {None} BY DEF Book!Book
  <2>3. q \in BookRequest BY <2>2, FreeIsARow DEF BookRequest, Book!Idle
  <2>4. q.step = "read" /\ q.op = "remove" /\ q.id \in Ids BY <2>2 DEF Book!Idle
  <2>5. Book!Open(t, q) BY <2>1
  <2> HIDE DEF q
  <2> QED BY <2>3, <2>4, <2>5, OpenKeepsB
<1>4. CASE Book!AskDefault(t)
  <2>1. PICK i \in Book!Book(shown[t]) :
          Book!Open(t, [Book!Idle EXCEPT !.op = "default", !.step = "read", !.id = i])
    BY <1>4 DEF Book!AskDefault
  <2> DEFINE q == [Book!Idle EXCEPT !.op = "default", !.step = "read", !.id = i]
  <2>2. i \in Ids BY DEF Book!Book
  <2>3. q \in BookRequest BY <2>2, FreeIsARow DEF BookRequest, Book!Idle
  <2>4. q.step = "read" /\ q.op = "default" /\ q.id \in Ids BY <2>2 DEF Book!Idle
  <2>5. Book!Open(t, q) BY <2>1
  <2> HIDE DEF q
  <2> QED BY <2>3, <2>4, <2>5, OpenKeepsB
<1> QED BY <1>1, <1>2, <1>3, <1>4

\* At a book at rest, an address of it that is not the default leaves another one.
LEMMA RestHasDefault ==
  ASSUME AtRest, NEW i \in Ids, row[i].isActive
  PROVE  \E j \in Ids : Only(j)
BY DEF AtRest

LEMMA ReadsKeepB ==
  ASSUME BookAssumption, BInv, NEW t \in Tabs,
         Book!ReadCreate(t) \/ Book!ReadUpdate(t) \/ Book!ReadDefault(t) \/ Book!ReadRemove(t)
  PROVE  BInv'
<1> DEFINE i == asked[t].id
<1>1. /\ asked[t].step = "read" /\ Reads(t) /\ UNCHANGED <<row, shown>>
      /\ asked[t] \in BookRequest /\ row \in [Ids -> Book!Row]
      /\ \A j \in Ids : row[j].isDefault => row[j].isActive
  BY DEF BInv, BType, Fits, Book!ReadCreate, Book!ReadUpdate, Book!ReadDefault, Book!ReadRemove
<1>2. asked[t].step # "idle" BY <1>1
<1>3. AtRest /\ AtRest' BY <1>1 DEF Reads, AtRest, Only
<1>4. \A q \in BookRequest : asked' = [asked EXCEPT ![t] = q] => BType' /\ asked'[t] = q
  BY <1>1 DEF BInv, BType
<1>5. CASE Book!Ends(t)
  <2>1. asked' = [asked EXCEPT ![t] = Book!Idle] BY <1>5 DEF Book!Ends
  <2> QED BY <2>1, <1>2, <1>3, <1>4, FreeIsARow, StepKeepsB
<1>6. ASSUME Book!ReadCreate(t) PROVE BInv'
  <2> DEFINE d == Book!BecomesDefault(asked[t].copy)
             s == IF d /\ Book!Book(row) # {} THEN "clear" ELSE "save"
             q == [asked[t] EXCEPT !.copy.isDefault = d, !.step = s]
  <2>1. asked' = [asked EXCEPT ![t] = q] BY <1>6, <1>1 DEF Book!ReadCreate, BInv, BType
  <2>2. d = (Book!Book(row) = {} \/ asked[t].copy.isDefault) BY DEF Book!BecomesDefault
  <2>3. d \in BOOLEAN BY <2>2
  <2>4. q \in BookRequest BY <1>1, <2>3 DEF BookRequest, Book!Row
  <2>5. q.step = s /\ q.op = "create" /\ q.copy.isDefault = d /\ q.copy.isActive
    BY <1>1, <1>6 DEF BookRequest, Book!Row, Reads, Book!ReadCreate
  <2>6. asked'[t] = q BY <2>1, <2>4, <1>4
  <2>7. ASSUME ~d PROVE \E j \in Ids : Only(j)
    BY <2>7, <2>2, <1>3 DEF AtRest, Book!Book
  <2>8. ASSUME d, Book!Book(row) = {} PROVE \A j \in Ids : ~row[j].isDefault
    BY <2>8, <1>1 DEF Book!Book
  <2> HIDE DEF d, q
  <2>9. Fits(t)'
    BY <2>3, <2>5, <2>6, <2>7, <2>8, <1>1 DEF Fits, Clears, SavesNew, Only
  <2> QED BY <2>1, <2>4, <2>5, <2>9, <1>2, <1>3, <1>4, StepKeepsB
<1>7. ASSUME Book!ReadUpdate(t), Book!Owned(i) PROVE BInv'
  <2> DEFINE said == asked[t].next
             marked == IF said = "absent" THEN row[i].isDefault ELSE said = "true"
             s == IF said = "true" /\ ~row[i].isDefault THEN "clear" ELSE "save"
             c == [isActive |-> row[i].isActive, isDefault |-> marked, text |-> asked[t].copy.text]
             q == [asked[t] EXCEPT !.copy = c, !.step = s]
  <2>1. i \in Ids /\ row[i].isActive /\ asked[t].op = "update" /\ said \in {"absent", "true"}
    BY <1>7, <1>1 DEF Book!Owned, Book!Book, Book!ReadUpdate, Reads, BookAssumption
  <2>2. marked \in BOOLEAN /\ c \in Book!Row BY <1>1, <2>1 DEF Book!Row, BookRequest
  <2>3. asked' = [asked EXCEPT ![t] = q] BY <1>7, <1>1 DEF Book!ReadUpdate, BInv, BType
  <2>4. q \in BookRequest BY <1>1, <2>2 DEF BookRequest
  <2>5. /\ q.step = s /\ q.op = "update" /\ q.copy.isDefault = marked /\ q.copy.isActive
        /\ q.id = i
    BY <1>1, <2>1 DEF BookRequest
  <2>6. asked'[t] = q BY <2>3, <2>4, <1>4
  <2>7. PICK j \in Ids : Only(j) BY <1>3, <2>1, RestHasDefault
  <2>8. CASE row[i].isDefault
    <3>1. j = i /\ s = "save" /\ marked BY <2>7, <2>8, <2>1 DEF Only
    <3>2. Fits(t)' BY <3>1, <2>1, <2>5, <2>6, <2>7, <1>1 DEF Fits, SavesChange, Only
    <3> QED BY <3>2, <2>3, <2>4, <2>5, <1>2, <1>3, <1>4, FreeIsARow, StepKeepsB
  <2>9. CASE ~row[i].isDefault
    <3>1. j # i /\ (said = "true" => s = "clear" /\ marked) /\ (said = "absent" => s = "save" /\ ~marked)
      BY <2>7, <2>9 DEF Only
    <3>2. Fits(t)' BY <3>1, <2>1, <2>5, <2>6, <2>7, <1>1 DEF Fits, Clears, SavesChange, Only
    <3> QED BY <3>2, <2>3, <2>4, <2>5, <1>2, <1>3, <1>4, FreeIsARow, StepKeepsB
  <2> QED BY <2>8, <2>9, <1>1, <2>1 DEF Book!Row
<1>8. ASSUME Book!ReadDefault(t), Book!Owned(i) PROVE BInv'
  <2> DEFINE q == [asked[t] EXCEPT !.copy = [row[i] EXCEPT !.isDefault = TRUE], !.step = "clear"]
  <2>1. i \in Ids /\ row[i].isActive /\ asked[t].op = "default"
    BY <1>8 DEF Book!Owned, Book!Book, Book!ReadDefault
  <2>2. asked' = [asked EXCEPT ![t] = q] BY <1>8, <1>1 DEF Book!ReadDefault, BInv, BType
  <2>3. q \in BookRequest BY <1>1, <2>1 DEF BookRequest, Book!Row
  <2>4. q.step = "clear" /\ q.op = "default" /\ q.id = i /\ q.copy.isActive /\ q.copy.isDefault
    BY <1>1, <2>1 DEF BookRequest, Book!Row
  <2>5. asked'[t] = q BY <2>2, <2>3, <1>4
  <2>6. Fits(t)' BY <2>1, <2>4, <2>5 DEF Fits, Clears
  <2> QED BY <2>2, <2>3, <2>4, <2>6, <1>2, <1>3, <1>4, FreeIsARow, StepKeepsB
<1>9. ASSUME Book!ReadRemove(t), ~Book!Ends(t) PROVE BInv'
  <2> DEFINE s == IF Book!NeedsNext(i) THEN "next" ELSE "save"
             q == [asked[t] EXCEPT !.copy = Book!Gone(row[i]), !.step = s]
  <2>1. Book!Owned(i) /\ (Book!NeedsNext(i) => asked[t].next \in Book!Book(row) \ {i}) /\ asked[t].op = "remove"
    BY <1>9 DEF Book!ReadRemove
  <2>2. i \in Ids /\ row[i].isActive BY <2>1 DEF Book!Owned, Book!Book
  <2>3. asked' = [asked EXCEPT ![t] = q] BY <1>9, <2>1, <1>1 DEF Book!ReadRemove, BInv, BType
  <2>4. q \in BookRequest BY <1>1, <2>2 DEF BookRequest, Book!Row, Book!Gone
  <2>5. /\ q.step = s /\ q.op = "remove" /\ q.id = i /\ q.next = asked[t].next
        /\ ~q.copy.isActive /\ ~q.copy.isDefault
    BY <1>1, <2>1, <2>2 DEF BookRequest, Book!Row, Book!Gone
  <2>6. asked'[t] = q BY <2>3, <2>4, <1>4
  <2>7. PICK j \in Ids : Only(j) BY <1>3, <2>2, RestHasDefault
  <2>8. CASE Book!NeedsNext(i)
    <3>1. /\ s = "next" /\ Only(i) /\ asked[t].next \in Ids /\ asked[t].next # i
          /\ row[asked[t].next].isActive
      BY <2>1, <2>2, <2>7, <2>8 DEF Book!NeedsNext, Book!Book, Only
    <3>2. Fits(t)' BY <3>1, <2>2, <2>5, <2>6, <1>1 DEF Fits, Marks, Only
    <3> QED BY <3>2, <2>3, <2>4, <2>5, <1>2, <1>3, <1>4, FreeIsARow, StepKeepsB
  <2>9. CASE ~Book!NeedsNext(i)
    <3>1. s = "save" BY <2>9
    <3>2. j # i \/ \A k \in Ids \ {i} : ~row[k].isActive
      BY <2>7, <2>9 DEF Book!NeedsNext, Book!Book, Only
    <3>3. SavesRemoval(t)' BY <3>2, <2>2, <2>5, <2>6, <2>7, <1>1 DEF SavesRemoval, Only
    <3>4. Fits(t)' BY <3>1, <3>3, <2>5, <2>6 DEF Fits
    <3> QED BY <3>1, <3>4, <2>3, <2>4, <2>5, <1>2, <1>3, <1>4, FreeIsARow, StepKeepsB
  <2> QED BY <2>8, <2>9
<1> QED
  BY <1>5, <1>6, <1>7, <1>8, <1>9 DEF Book!ReadUpdate, Book!ReadDefault

LEMMA WritesKeepB ==
  ASSUME BookAssumption, BInv, NEW t \in Tabs,
         Book!MarkNext(t) \/ Book!ClearDefault(t) \/ Book!Save(t)
  PROVE  BInv'
<1> DEFINE i == asked[t].id
<1>1. /\ asked[t].step # "idle" /\ Fits(t) /\ UNCHANGED shown
      /\ asked[t] \in BookRequest /\ asked \in [Tabs -> BookRequest]
      /\ row \in [Ids -> Book!Row] /\ shown \in [Tabs -> [Ids -> Book!Row]]
      /\ \A j \in Ids : row[j].isDefault => row[j].isActive
  BY DEF BInv, BType, Book!MarkNext, Book!ClearDefault, Book!Save
<1> DEFINE q == [asked[t] EXCEPT !.step = "save"]
<1>2. /\ q \in BookRequest /\ q.step = "save" /\ q # Book!Idle
      /\ q.op = asked[t].op /\ q.id = i /\ q.copy = asked[t].copy
  BY <1>1, FreeIsARow DEF BookRequest
<1>3. ASSUME Book!MarkNext(t) PROVE BInv'
  <2> DEFINE n == asked[t].next
  <2>1. Marks(t) /\ row' = [row EXCEPT ![n].isDefault = TRUE] /\ asked' = [asked EXCEPT ![t] = q]
    BY <1>1, <1>3 DEF Fits, Book!MarkNext, Book!Goes
  <2>2. n \in Ids /\ i \in Ids /\ n # i BY <2>1 DEF Marks
  <2>3. row' \in [Ids -> Book!Row] /\ \A j \in Ids : row'[j].isDefault => row'[j].isActive
    BY <1>1, <2>1, <2>2 DEF Book!Row, Marks
  <2>4. BType' BY <1>1, <1>2, <2>1, <2>3 DEF BType
  <2>5. asked'[t] = q BY <1>1, <2>1
  <2>6. row'[n].isDefault /\ \A k \in Ids : row'[k].isDefault => k \in {n, i}
    BY <1>1, <2>1, <2>2 DEF Marks, Only, Book!Row
  <2>7. SavesRemoval(t)' BY <1>2, <2>1, <2>2, <2>5, <2>6 DEF SavesRemoval, Marks
  <2>8. Fits(t)' BY <1>2, <2>1, <2>5, <2>7 DEF Fits, Marks
  <2> QED BY <1>1, <1>2, <2>1, <2>4, <2>8, StepKeepsB
<1>4. ASSUME Book!ClearDefault(t) PROVE BInv'
  <2>1. Clears(t) /\ row' = Book!Unmarked /\ asked' = [asked EXCEPT ![t] = q]
    BY <1>1, <1>4 DEF Fits, Book!ClearDefault, Book!Goes
  <2>2. row' \in [Ids -> Book!Row] /\ \A j \in Ids : ~row'[j].isDefault
    BY <1>1, <2>1 DEF Book!Unmarked, Book!Row
  <2>3. BType' BY <1>1, <1>2, <2>1, <2>2 DEF BType
  <2>4. asked'[t] = q BY <1>1, <2>1
  <2>5. Fits(t)' BY <1>2, <2>1, <2>2, <2>4 DEF Fits, Clears, SavesNew, SavesChange
  <2> QED BY <1>1, <1>2, <2>1, <2>3, <2>5, StepKeepsB
<1>5. ASSUME Book!Save(t) PROVE BInv'
  <2>1. asked[t].step = "save" /\ asked' = [asked EXCEPT ![t] = Book!Idle]
    BY <1>5 DEF Book!Save, Book!Ends
  <2>2. PICK k \in IF asked[t].op = "create" THEN { j \in Ids : row[j] = Book!Free } ELSE {i} :
          row' = [row EXCEPT ![k] = asked[t].copy]
    BY <1>5 DEF Book!Save
  <2>3. ASSUME k \in Ids, asked[t].copy.isDefault => asked[t].copy.isActive PROVE BType'
    <3>1. row' \in [Ids -> Book!Row] BY <1>1, <2>2, <2>3 DEF BookRequest
    <3>2. \A j \in Ids : row'[j].isDefault => row'[j].isActive BY <1>1, <2>2, <2>3
    <3> QED BY <1>1, <2>1, <3>1, <3>2, FreeIsARow DEF BType
  <2>4. CASE asked[t].op = "create"
    <3>1. SavesNew(t) /\ k \in Ids /\ ~row[k].isDefault
      BY <1>1, <2>1, <2>2, <2>4, FreeIsARow DEF Fits
    <3>2. AtRest'
      <4>1. row'[k] = asked[t].copy /\ \A j \in Ids \ {k} : row'[j] = row[j] BY <1>1, <2>2, <3>1
      <4>2. CASE asked[t].copy.isDefault
        <5>1. Only(k)' BY <4>1, <4>2, <3>1 DEF SavesNew, Only
        <5> QED BY <5>1, <3>1 DEF AtRest
      <4>3. CASE ~asked[t].copy.isDefault
        <5>1. PICK j \in Ids : Only(j) BY <4>3, <3>1 DEF SavesNew
        <5>2. Only(j)' BY <4>1, <4>3, <3>1, <5>1 DEF Only
        <5> QED BY <5>2 DEF AtRest
      <4> QED BY <4>2, <4>3
    <3>3. BType' BY <2>3, <3>1 DEF SavesNew
    <3> QED BY <1>1, <2>1, <3>2, <3>3, StepKeepsB
  <2>5. CASE asked[t].op \in {"update", "default"}
    <3>1. SavesChange(t) /\ k = i /\ i \in Ids
      BY <1>1, <2>1, <2>2, <2>5 DEF Fits, SavesChange
    <3>2. AtRest'
      <4>1. row'[i] = asked[t].copy /\ \A j \in Ids \ {i} : row'[j] = row[j] BY <1>1, <2>2, <3>1
      <4>2. CASE asked[t].copy.isDefault
        <5>1. Only(k)' BY <4>1, <4>2, <3>1 DEF SavesChange, Only
        <5> QED BY <5>1, <3>1 DEF AtRest
      <4>3. CASE ~asked[t].copy.isDefault
        <5>1. PICK j \in Ids \ {i} : Only(j) BY <4>3, <3>1 DEF SavesChange
        <5>2. Only(j)' BY <4>1, <4>3, <3>1, <5>1 DEF Only
        <5> QED BY <5>2 DEF AtRest
      <4> QED BY <4>2, <4>3
    <3>3. BType' BY <2>3, <3>1 DEF SavesChange
    <3> QED BY <1>1, <2>1, <3>2, <3>3, StepKeepsB
  <2>6. CASE asked[t].op = "remove"
    <3>1. SavesRemoval(t) /\ k = i /\ i \in Ids
      BY <1>1, <2>1, <2>2, <2>6 DEF Fits, SavesRemoval
    <3>2. AtRest'
      <4>1. row'[i] = asked[t].copy /\ \A j \in Ids \ {i} : row'[j] = row[j] BY <1>1, <2>2, <3>1
      <4>2. CASE \A j \in Ids \ {i} : ~row[j].isActive
        BY <4>1, <4>2, <3>1 DEF SavesRemoval, AtRest
      <4>3. CASE \E j \in Ids \ {i} :
                   row[j].isDefault /\ \A m \in Ids : row[m].isDefault => m \in {j, i}
        <5>1. PICK j \in Ids \ {i} :
                row[j].isDefault /\ \A m \in Ids : row[m].isDefault => m \in {j, i}
          BY <4>3
        <5>2. Only(j)' BY <4>1, <3>1, <5>1 DEF SavesRemoval, Only
        <5> QED BY <5>2 DEF AtRest
      <4> QED BY <4>2, <4>3, <3>1 DEF SavesRemoval
    <3>3. BType' BY <2>3, <3>1 DEF SavesRemoval
    <3> QED BY <1>1, <2>1, <3>2, <3>3, StepKeepsB
  <2> QED BY <2>1, <2>4, <2>5, <2>6, <1>1 DEF Fits
<1> QED BY <1>3, <1>4, <1>5

LEMMA NextKeepsB ==
  ASSUME BookAssumption, BInv, [Book!Next]_(Book!vars)
  PROVE  BInv'
<1>1. ASSUME NEW t \in Tabs, Book!List(t) PROVE BInv'
  <2> USE <1>1 DEF Book!List
  <2>1. BType' BY DEF BInv, BType
  <2>2. Alone' BY DEF BInv, Alone
  <2>3. AtRest <=> AtRest' BY DEF AtRest, Only
  <2>4. \A u \in Tabs : Fits(u) => Fits(u)'
    BY <2>3 DEF Fits, Reads, Clears, Marks, SavesNew, SavesChange, SavesRemoval, Only
  <2> QED BY <2>1, <2>2, <2>3, <2>4 DEF BInv
<1>2. ASSUME NEW i \in Ids, Book!Forget(i) PROVE BInv'
  <2>1. /\ ~row[i].isActive /\ row' = [row EXCEPT ![i] = Book!Free] /\ UNCHANGED <<shown, asked>>
    BY <1>2 DEF Book!Forget
  <2>2. /\ \A j \in Ids : row'[j].isActive = row[j].isActive
        /\ \A j \in Ids : row'[j].isDefault = row[j].isDefault
        /\ row' \in [Ids -> Book!Row]
    BY <2>1, FreeIsARow DEF BInv, BType, Book!Row
  <2>3. BType' BY <2>1, <2>2 DEF BInv, BType
  <2>4. Alone' BY <2>1 DEF BInv, Alone
  <2>5. \A j \in Ids : Only(j) <=> Only(j)' BY <2>2 DEF Only
  <2>6. AtRest <=> AtRest' BY <2>2, <2>5 DEF AtRest
  <2>7. ASSUME NEW u \in Tabs, Fits(u) PROVE Fits(u)'
    <3> USE <2>7, <2>1, <2>2, <2>5, <2>6
    <3>1. Reads(u) => Reads(u)' BY DEF Reads
    <3>2. Clears(u) => Clears(u)' BY DEF Clears
    <3>3. Marks(u) => Marks(u)' BY DEF Marks
    <3>4. SavesNew(u) => SavesNew(u)' BY DEF SavesNew
    <3>5. SavesChange(u) => SavesChange(u)' BY DEF SavesChange
    <3>6. SavesRemoval(u) => SavesRemoval(u)' BY DEF SavesRemoval
    <3> QED BY <3>1, <3>2, <3>3, <3>4, <3>5, <3>6 DEF Fits
  <2> QED BY <2>1, <2>3, <2>4, <2>6, <2>7 DEF BInv
<1>3. CASE UNCHANGED Book!vars
  <2> USE <1>3 DEF Book!vars
  <2>1. BType' BY DEF BInv, BType
  <2>2. Alone' BY DEF BInv, Alone
  <2>3. AtRest <=> AtRest' BY DEF AtRest, Only
  <2>4. \A u \in Tabs : Fits(u) => Fits(u)'
    BY <2>3 DEF Fits, Reads, Clears, Marks, SavesNew, SavesChange, SavesRemoval, Only
  <2> QED BY <2>1, <2>2, <2>3, <2>4 DEF BInv
<1> QED BY <1>1, <1>2, <1>3, AsksKeepB, ReadsKeepB, WritesKeepB DEF Book!Next

\* Every reachable book fits what its request is about to write.
LEMMA PartKeepsBook ==
  ASSUME BookAssumption
  PROVE  MCSpec => [](part = "book" => BInv)
<1>1. MCInit => (part = "book" => BInv)
  BY InitB DEF MCInit
<1>2. ASSUME part = "book" => BInv, [MCNext]_all
      PROVE  (part = "book" => BInv)'
  <2>1. CASE UNCHANGED all
    <3>1. UNCHANGED <<part, Book!vars>> BY <2>1, Zenon DEF all, bookOnly, Book!vars
    <3> QED BY <3>1, <1>2, NextKeepsB
  <2>2. CASE BookNext
    <3>1. part = "book" /\ Book!Next BY <2>2 DEF BookNext
    <3> QED BY <3>1, <1>2, NextKeepsB
  <2>3. CASE AccountNext \/ TabNext \/ MailNext
    BY <2>3 DEF AccountNext, TabNext, MailNext
  <2> QED BY <1>2, <2>1, <2>2, <2>3 DEF MCNext
<1> QED BY <1>1, <1>2, PTL DEF MCSpec

\* Any number of pages, on lists however old, leave a book that is not empty with
\* one default between their requests (addresses.service.ts).
THEOREM AlwaysOneDefault ==
  ASSUME BookAssumption
  PROVE  MCSpec => []OneDefault
<1>1. BInv => Book!TypeOK
  BY DEF BInv, BType, Book!TypeOK, BookRequest, Fits, Marks
<1>2. BInv => Book!OneDefault
  <2> SUFFICES ASSUME BInv, \A t \in Tabs : asked[t] = Book!Idle, Book!Book(row) # {}
               PROVE  Book!Cardinality(Book!Defaults(row)) = 1
    BY Zenon DEF Book!OneDefault
  <2>1. PICK j \in Ids : Only(j) BY DEF BInv, AtRest, Book!Book
  <2>2. Book!Defaults(row) = {j}
    BY <2>1 DEF Only, Book!Defaults, Book!Book, BInv, BType
  <2>3. Cardinality({j}) = 1 BY FS_Singleton
  <2> QED BY <2>2, <2>3, SameCardinality
<1>3. (part = "book" => BInv) => OneDefault
  BY <1>1, <1>2 DEF OneDefault
<1> QED BY <1>3, PartKeepsBook, PTL

-----------------------------------------------------------------------------
(***************************************************************************)
(* The mails                                                               *)
(***************************************************************************)
\* Calls of send are no runs of the cron job; a lease lasts.
MailAssumption ==
  /\ Mail \cap Run = {} /\ Limited \subseteq Mail /\ IsFiniteSet(Limited)
  /\ MaxPerHour \in Nat /\ Hour \in Nat /\ Lease \in Nat \ {0} /\ MaxCrashes \in Nat
  /\ Backoff \in Seq(Nat)

\* A row, and what a deliverer carries.
MailRow == [status : Mailing!EmailStatuses \cup {"none"}, attempts : 0..Len(Backoff) + 1,
            message : BOOLEAN, next : Nat \cup {Mailing!Never}]
Task == [mail : SUBSET Mail, attempts : 0..Len(Backoff), message : BOOLEAN, answer : Mailing!Answers]

\* Every variable keeps its type.
NType ==
  /\ row \in [Mail -> MailRow] /\ recent \in [Mail -> 0..Hour]
  /\ caller \in [Mail -> {"none", "allowed", "limited", "ended"}]
  /\ found \in [Run -> SUBSET Mail] /\ delivery \in [Mailing!Deliverer -> Task]
  /\ bounced \in BOOLEAN /\ handed \in [Mail -> Nat] /\ tries \in [Mail -> Nat]
  /\ crashes \in 0..MaxCrashes

\* A deliverer has one mail that was sent, and read no message that is gone; the
\* delivery in the background has its own.
TaskFits(d) ==
  /\ delivery[d].answer = "none" => delivery[d] = Mailing!Idle
  /\ delivery[d].answer # "none" => \E m \in Mail : delivery[d].mail = {m}
  /\ delivery[d].answer \notin {"none", "waiting"} => delivery[d].message
  /\ \A m \in delivery[d].mail :
       row[m].status # "none" /\ (row[m].message => delivery[d].message)
  /\ d \in Mail => delivery[d].mail \subseteq {d}

\* A row that keeps its message waits; rows that a run found are still due; and
\* there is no row before send ends.
RowFits(m) ==
  /\ row[m].message => row[m].status \in Mailing!Waiting /\ row[m].next # Mailing!Never
  /\ row[m].status \in Mailing!Waiting => row[m].attempts <= Len(Backoff)
  /\ caller[m] # "ended" => row[m].status = "none"
  /\ row[m].status = "none" => tries[m] = 0 /\ handed[m] = 0
  /\ \A r \in Run : m \in found[r] => row[m].status \in Mailing!Waiting /\ row[m].next = 0

\* d has the mail in hand, and has not written how that ended.
AtWork(d, m) == m \in delivery[d].mail /\ delivery[d].answer # "bounced"
InHand(m) == \E d \in Mailing!Deliverer : AtWork(d, m)

\* One deliverer at a time has a mail in hand, under its lease and with the row as
\* it is; each try but that one is an attempt of the row or was cut by a stop.
LoneMail(m) ==
  /\ row[m].status \in Mailing!Waiting => row[m].message
  /\ \A d, e \in Mailing!Deliverer : AtWork(d, m) /\ AtWork(e, m) => d = e
  /\ \A d \in Mailing!Deliverer : AtWork(d, m) =>
       /\ row[m].status \in Mailing!Waiting /\ row[m].next > 0
       /\ delivery[d].message /\ delivery[d].attempts = row[m].attempts
  /\ tries[m] <= crashes + 1 + Len(Backoff)
  /\ row[m].status \in Mailing!Waiting => tries[m] <= crashes + 1 + row[m].attempts
  /\ row[m].status \in Mailing!Waiting /\ ~InHand(m) => tries[m] <= crashes + row[m].attempts

\* At most one call goes on at a time, with room left.
Rate ==
  ~overlapped =>
    /\ Cardinality(Mailing!Accepted) <= MaxPerHour
    /\ \A x, y \in Limited : caller[x] = "allowed" /\ caller[y] = "allowed" => x = y
    /\ \A x \in Limited : caller[x] = "allowed" => Cardinality(Mailing!Accepted) < MaxPerHour

\* The mail server has what the row or the deliverer says it has.
HandedFits(m) ==
  /\ \A d \in Mailing!Deliverer : AtWork(d, m) =>
       handed[m] = IF delivery[d].answer = "sent" THEN 1 ELSE 0
  /\ ~InHand(m) => handed[m] = IF row[m].status = Mailing!ENVIADO THEN 1 ELSE 0

\* Each part holds until something went wrong that breaks it.
NInv ==
  /\ NType
  /\ \A d \in Mailing!Deliverer : TaskFits(d)
  /\ \A m \in Mail : RowFits(m)
  /\ "slow" \notin failed => Rate /\ \A m \in Mail : LoneMail(m)
  /\ failed = {} => \A m \in Mail : HandedFits(m)

\* EmailStatus as strings, and the time of a row that is not due.
LEMMA StatusesDiffer ==
  /\ Mailing!Waiting = {"pendiente", "reintentando"} /\ Mailing!ENVIADO = "enviado"
  /\ Mailing!FALLIDO = "fallido" /\ Mailing!REBOTADO = "rebotado"
  /\ Mailing!OMITIDO_POR_RATE_LIMIT = "omitido_por_rate_limit"
  /\ Mailing!EmailStatuses = {"pendiente", "reintentando", "enviado", "fallido", "rebotado",
                       "omitido_por_rate_limit"}
  /\ Mailing!Never = -1
BY DEF Mailing!Waiting, Mailing!ENVIADO, Mailing!FALLIDO, Mailing!REBOTADO,
   Mailing!OMITIDO_POR_RATE_LIMIT, Mailing!EmailStatuses,
       Mailing!PENDIENTE, Mailing!REINTENTANDO, Mailing!Never

\* The waits of the backoff are numbers.
LEMMA BackoffsAreNumbers ==
  ASSUME MailAssumption, NEW n \in Nat \ {0}, n <= Len(Backoff)
  PROVE  Mailing!Backs(n) \in Nat
<1>1. Backoff \in Seq(Nat) BY DEF MailAssumption
<1>2. n \in 1..Len(Backoff) BY <1>1
<1> QED BY <1>1, <1>2 DEF Mailing!Backs

\* The waits are a number of times.
LEMMA MailLimits ==
  ASSUME MailAssumption
  PROVE  /\ Len(Backoff) \in Nat /\ 0 \in 0..Len(Backoff) + 1 /\ 0 \in 0..Len(Backoff)
         /\ Hour \in 0..Hour /\ 0 \in 0..Hour /\ 0 \in 0..MaxCrashes
BY DEF MailAssumption

\* Rows that are limited can be counted.
LEMMA AcceptedIsFinite ==
  ASSUME MailAssumption, NEW S, S \subseteq Limited
  PROVE  IsFiniteSet(S) /\ Cardinality(S) \in Nat
BY FS_Subset, FS_CardinalityType DEF MailAssumption

\* The rate keeps while no row begins to stand for a mail and no call goes on.
LEMMA RateKeeps ==
  ASSUME MailAssumption, Rate, Mailing!Accepted' \subseteq Mailing!Accepted, overlapped => overlapped',
         \A x \in Limited : caller'[x] = "allowed" => caller[x] = "allowed"
  PROVE  Rate'
<1>1. Mailing!Accepted \subseteq Limited BY DEF Mailing!Accepted, Mailing!LimitedRows
<1>2. /\ Cardinality(Mailing!Accepted) \in Nat /\ Cardinality(Mailing!Accepted') \in Nat
      /\ Cardinality(Mailing!Accepted') <= Cardinality(Mailing!Accepted)
  BY <1>1, AcceptedIsFinite, FS_Subset
<1>3. MaxPerHour \in Nat BY DEF MailAssumption
<1> QED BY <1>2, <1>3 DEF Rate

\* NInv holds before any mail is asked for.
LEMMA NInvInit ==
  ASSUME MailAssumption, Mailing!Init
  PROVE  NInv
<1>1. Mailing!NoRow = [status |-> "none", attempts |-> 0, message |-> FALSE, next |-> Mailing!Never]
  BY DEF Mailing!NoRow, Mailing!NewRow
<1>2. Len(Backoff) \in Nat BY DEF MailAssumption
<1>3. Mailing!NoRow \in MailRow BY <1>1, <1>2 DEF MailRow
<1>4. Mailing!Idle \in Task BY <1>2 DEF Mailing!Idle, Task, Mailing!Answers
<1>5. /\ row = [m \in Mail |-> Mailing!NoRow] /\ recent = [m \in Mail |-> 0]
      /\ caller = [m \in Mail |-> "none"] /\ found = [r \in Run |-> {}]
      /\ delivery = [d \in Mailing!Deliverer |-> Mailing!Idle] /\ bounced = FALSE
      /\ handed = [m \in Mail |-> 0] /\ tries = [m \in Mail |-> 0]
      /\ crashes = 0 /\ overlapped = FALSE /\ failed = {}
  BY DEF Mailing!Init
<1>6. NType BY <1>3, <1>4, <1>5, MailLimits DEF NType
<1>7. ASSUME NEW d \in Mailing!Deliverer PROVE TaskFits(d) /\ delivery[d] = Mailing!Idle
  BY <1>5 DEF TaskFits, Mailing!Idle
<1>8. ASSUME NEW m \in Mail PROVE RowFits(m)
  BY <1>1, <1>5, StatusesDiffer DEF RowFits
<1>9. \A d \in Mailing!Deliverer, m \in Mail : ~AtWork(d, m) BY <1>7 DEF AtWork, Mailing!Idle
<1>10. ASSUME NEW m \in Mail PROVE LoneMail(m)
  BY <1>1, <1>2, <1>5, <1>9, StatusesDiffer DEF LoneMail
<1>11. ASSUME NEW m \in Mail PROVE HandedFits(m)
  BY <1>1, <1>5, <1>9, StatusesDiffer DEF HandedFits
<1>12. Rate
  <2>1. Mailing!Accepted = {}
    BY <1>5, MailAssumption DEF Mailing!Accepted, Mailing!LimitedRows, MailAssumption
  <2>2. \A x \in Limited : caller[x] = "none" BY <1>5 DEF MailAssumption
  <2>3. Cardinality(Mailing!Accepted) = 0 BY <2>1, FS_EmptySet
  <2> QED BY <2>2, <2>3 DEF Rate, MailAssumption
<1> QED BY <1>6, <1>7, <1>8, <1>10, <1>11, <1>12 DEF NInv

\* send ends with a row that stands for no mail.
LEMMA LogKeeps ==
  ASSUME MailAssumption, NInv, NEW m \in Mail, caller[m] # "ended",
         NEW state \in {Mailing!FALLIDO, Mailing!OMITIDO_POR_RATE_LIMIT}, Mailing!Insert(m, state, FALSE),
         UNCHANGED <<found, delivery, bounced, handed, tries, crashes, overlapped, failed>>
  PROVE  NInv'
<1>1. PICK new :
        /\ new = [status |-> state, attempts |-> 0, message |-> FALSE, next |-> Mailing!Never]
        /\ row' = [row EXCEPT ![m] = new]
  BY DEF Mailing!NewRow, Mailing!Insert
<1>2. new \in MailRow /\ new.status = state /\ new.message = FALSE
  <2>1. state \in Mailing!EmailStatuses BY StatusesDiffer
  <2>2. new \in MailRow BY <1>1, <2>1, MailLimits DEF MailRow
  <2> QED BY <1>1, <2>2
<1>3. /\ row' = [row EXCEPT ![m] = new] /\ recent' = [recent EXCEPT ![m] = Hour]
      /\ caller' = [caller EXCEPT ![m] = "ended"]
  BY <1>1 DEF Mailing!Insert
<1>4. NType BY DEF NInv
<1>5. /\ row'[m] = new /\ \A n \in Mail \ {m} : row'[n] = row[n]
      /\ \A n \in Mail \ {m} : caller'[n] = caller[n] /\ recent'[n] = recent[n]
      /\ caller'[m] = "ended"
  BY <1>3, <1>4 DEF NType
<1>6. NType' BY <1>2, <1>3, <1>4 DEF NType, MailAssumption
<1>7. row[m].status = "none" /\ RowFits(m) BY DEF NInv, RowFits
<1>8. \A d \in Mailing!Deliverer : m \notin delivery[d].mail BY <1>7 DEF NInv, TaskFits
<1>9. \A d \in Mailing!Deliverer : delivery[d].mail \subseteq Mail BY <1>4 DEF NType, Task
<1>10. ASSUME NEW d \in Mailing!Deliverer PROVE TaskFits(d)'
  <2>1. TaskFits(d) BY DEF NInv
  <2>2. \A n \in delivery[d].mail : row'[n] = row[n] BY <1>5, <1>8, <1>9
  <2> QED BY <2>1, <2>2 DEF TaskFits
<1>11. ASSUME NEW n \in Mail PROVE RowFits(n)'
  <2>1. CASE n = m BY <1>2, <1>5, <1>7, <2>1, StatusesDiffer DEF RowFits
  <2>2. CASE n # m
    <3>1. RowFits(n) BY DEF NInv
    <3> QED BY <1>5, <2>2, <3>1 DEF RowFits
  <2> QED BY <2>1, <2>2
<1>12. \A d \in Mailing!Deliverer, n \in Mail : AtWork(d, n)' = AtWork(d, n) BY DEF AtWork
<1>13. ASSUME NEW n \in Mail PROVE InHand(n)' = InHand(n) BY <1>12 DEF InHand
<1>14. ASSUME "slow" \notin failed', NEW n \in Mail PROVE LoneMail(n)'
  <2>1. LoneMail(n) BY <1>14 DEF NInv
  <2>2. CASE n = m
    <3>1. \A d \in Mailing!Deliverer : ~AtWork(d, m) BY <1>8 DEF AtWork
    <3>2. tries[m] <= crashes + 1 + Len(Backoff) BY <2>1, <2>2 DEF LoneMail
    <3> QED BY <1>2, <1>5, <1>12, <2>2, <3>1, <3>2, StatusesDiffer DEF LoneMail
  <2>3. CASE n # m BY <1>5, <1>12, <1>13, <2>1, <2>3 DEF LoneMail
  <2> QED BY <2>2, <2>3
<1>15. ASSUME failed' = {}, NEW n \in Mail PROVE HandedFits(n)'
  <2>1. HandedFits(n) BY <1>15 DEF NInv
  <2>2. CASE n = m
    <3>1. \A d \in Mailing!Deliverer : ~AtWork(d, m) BY <1>8 DEF AtWork
    <3>2. handed[m] = 0 BY <1>7 DEF RowFits
    <3> QED BY <1>2, <1>5, <1>12, <2>2, <3>1, <3>2, StatusesDiffer DEF HandedFits
  <2>3. CASE n # m BY <1>5, <1>12, <1>13, <2>1, <2>3 DEF HandedFits
  <2> QED BY <2>2, <2>3
<1>16. ASSUME "slow" \notin failed' PROVE Rate'
  <2>1. Rate BY <1>16 DEF NInv
  <2>2. Mailing!Accepted' \subseteq Mailing!Accepted
    BY <1>2, <1>5, StatusesDiffer DEF Mailing!Accepted, Mailing!LimitedRows, MailAssumption
  <2>3. \A x \in Limited : caller'[x] = "allowed" => caller[x] = "allowed"
    BY <1>5 DEF MailAssumption
  <2> QED BY <2>1, <2>2, <2>3, RateKeeps
<1> QED BY <1>6, <1>10, <1>11, <1>14, <1>15, <1>16 DEF NInv

\* A call counts the rows of the last hour.
LEMMA CountKeeps ==
  ASSUME MailAssumption, NInv, NEW m \in Mail, Mailing!Count(m)
  PROVE  NInv'
<1> DEFINE to == IF Mailing!Counted(Cardinality(Mailing!LimitedRows)) THEN "limited" ELSE "allowed"
<1>0. \A S : Mailing!Cardinality(S) = Cardinality(S) BY Zenon DEF Mailing!Cardinality, Cardinality
<1>1. /\ caller[m] = "none" /\ m \in Limited /\ caller' = [caller EXCEPT ![m] = to]
      /\ overlapped' = (overlapped \/ \E x \in Limited : caller[x] = "allowed")
      /\ UNCHANGED <<row, recent, found, delivery, bounced, handed, tries, crashes, failed>>
  BY <1>0 DEF Mailing!Count
<1>2. to \in {"limited", "allowed"} OBVIOUS
<1>3. to = "allowed" => ~(Cardinality(Mailing!LimitedRows) >= MaxPerHour) BY DEF Mailing!Counted
<1> HIDE DEF to
<1>4. NType BY DEF NInv
<1>5. caller'[m] = to /\ \A n \in Mail \ {m} : caller'[n] = caller[n] BY <1>1, <1>4 DEF NType
<1>6. NType' BY <1>1, <1>2, <1>4 DEF NType
<1>7. ASSUME NEW d \in Mailing!Deliverer PROVE TaskFits(d)' BY <1>1 DEF NInv, TaskFits
<1>8. ASSUME NEW n \in Mail PROVE RowFits(n)'
  <2>1. RowFits(n) /\ RowFits(m) BY DEF NInv
  <2> QED BY <1>1, <1>5, <2>1 DEF RowFits
<1>9. \A n \in Mail : LoneMail(n) => LoneMail(n)' BY <1>1 DEF LoneMail, AtWork, InHand
<1>10. \A n \in Mail : HandedFits(n) => HandedFits(n)' BY <1>1 DEF HandedFits, AtWork, InHand
<1>11. ASSUME Rate PROVE Rate'
  <2>1. Mailing!Accepted' = Mailing!Accepted BY <1>1 DEF Mailing!Accepted, Mailing!LimitedRows
  <2>2. /\ Cardinality(Mailing!Accepted) \in Nat /\ Cardinality(Mailing!LimitedRows) \in Nat
        /\ Cardinality(Mailing!Accepted) <= Cardinality(Mailing!LimitedRows)
    <3>1. Mailing!Accepted \subseteq Mailing!LimitedRows /\ Mailing!LimitedRows \subseteq Limited
      BY DEF Mailing!Accepted, Mailing!LimitedRows
    <3> QED BY <3>1, AcceptedIsFinite, FS_Subset
  <2>3. ASSUME ~overlapped' PROVE ~overlapped /\ \A x \in Limited : caller[x] # "allowed"
    BY <1>1, <2>3
  <2>4. MaxPerHour \in Nat BY DEF MailAssumption
  <2>5. \A x \in Limited : caller'[x] = "allowed" /\ ~overlapped' => x = m /\ to = "allowed"
    BY <1>5, <2>3 DEF MailAssumption
  <2> QED BY <1>3, <1>11, <2>1, <2>2, <2>3, <2>4, <2>5 DEF Rate
<1> QED BY <1>1, <1>6, <1>7, <1>8, <1>9, <1>10, <1>11 DEF NInv

\* send ends with a row that waits, and its delivery starts.
LEMMA AcceptKeeps ==
  ASSUME MailAssumption, NInv, NEW m \in Mail, Mailing!Accept(m)
  PROVE  NInv'
<1> DEFINE task == [mail |-> {m}, attempts |-> 0, message |-> TRUE, answer |-> "waiting"]
<1>1. /\ caller[m] = "allowed" \/ (caller[m] = "none" /\ m \notin Limited)
      /\ recent' = [recent EXCEPT ![m] = Hour]
      /\ caller' = [caller EXCEPT ![m] = "ended"]
      /\ delivery' = [delivery EXCEPT ![m] = task]
      /\ tries' = [tries EXCEPT ![m] = tries[m] + 1]
      /\ UNCHANGED <<found, bounced, handed, crashes, overlapped, failed>>
  BY DEF Mailing!Accept, Mailing!Insert
<1>0. PICK new :
        /\ new = [status |-> "pendiente", attempts |-> 0, message |-> TRUE, next |-> Lease]
        /\ row' = [row EXCEPT ![m] = new]
  BY DEF Mailing!Accept, Mailing!Insert, Mailing!NewRow, Mailing!PENDIENTE
<1>2. /\ new \in MailRow /\ new.status = "pendiente" /\ new.attempts = 0 /\ new.message
      /\ new.next = Lease /\ Lease > 0 /\ Lease # Mailing!Never
  <2>2. Lease \in Nat /\ Lease > 0 /\ Lease # Mailing!Never BY StatusesDiffer DEF MailAssumption
  <2>3. "pendiente" \in Mailing!EmailStatuses BY StatusesDiffer
  <2>4. new \in MailRow BY <1>0, <2>2, <2>3, MailLimits DEF MailRow
  <2> QED BY <1>0, <2>2, <2>4
<1>3. /\ task \in Task /\ task.mail = {m} /\ task.answer = "waiting" /\ task.message
      /\ task.attempts = 0
  BY MailLimits DEF Task, Mailing!Answers
<1> HIDE DEF task
<1>4. NType /\ m \in Mailing!Deliverer BY DEF NInv, Mailing!Deliverer
<1>5. /\ row'[m] = new /\ \A n \in Mail \ {m} : row'[n] = row[n]
      /\ \A n \in Mail \ {m} : caller'[n] = caller[n] /\ recent'[n] = recent[n]
      /\ caller'[m] = "ended"
      /\ delivery'[m] = task /\ \A d \in Mailing!Deliverer \ {m} : delivery'[d] = delivery[d]
      /\ tries'[m] = tries[m] + 1 /\ \A n \in Mail \ {m} : tries'[n] = tries[n]
  BY <1>0, <1>1, <1>4 DEF NType
<1>6. NType'
  <2>1. row' \in [Mail -> MailRow] /\ recent' \in [Mail -> 0..Hour]
    BY <1>0, <1>1, <1>2, <1>4, MailLimits DEF NType
  <2>2. caller' \in [Mail -> {"none", "allowed", "limited", "ended"}] BY <1>1, <1>4 DEF NType
  <2>3. delivery' \in [Mailing!Deliverer -> Task] BY <1>1, <1>3, <1>4 DEF NType, Mailing!Deliverer
  <2>4. tries' \in [Mail -> Nat] BY <1>1, <1>4 DEF NType
  <2> QED BY <1>1, <1>4, <2>1, <2>2, <2>3, <2>4 DEF NType, Mailing!Deliverer
<1>7. row[m].status = "none" /\ tries[m] = 0 /\ handed[m] = 0 /\ \A r \in Run : m \notin found[r]
  <2>1. RowFits(m) /\ caller[m] # "ended" BY <1>1 DEF NInv
  <2> QED BY <2>1, StatusesDiffer DEF RowFits
<1>8. \A d \in Mailing!Deliverer : m \notin delivery[d].mail BY <1>7 DEF NInv, TaskFits
<1>9. \A d \in Mailing!Deliverer : delivery[d].mail \subseteq Mail BY <1>4 DEF NType, Task
<1>10. \A n \in Mail : ~AtWork(m, n)
  <2>1. TaskFits(m) BY <1>4 DEF NInv
  <2>2. delivery[m].mail = {} BY <1>4, <1>8, <2>1 DEF TaskFits
  <2> QED BY <2>2 DEF AtWork
<1>11. ASSUME NEW d \in Mailing!Deliverer PROVE TaskFits(d)'
  <2>1. CASE d = m BY <1>2, <1>3, <1>5, <2>1 DEF TaskFits
  <2>2. CASE d # m
    <3>1. TaskFits(d) /\ delivery'[d] = delivery[d] BY <1>5, <2>2 DEF NInv
    <3>2. \A n \in delivery[d].mail : row'[n] = row[n] BY <1>5, <1>8, <1>9
    <3> QED BY <3>1, <3>2 DEF TaskFits
  <2> QED BY <2>1, <2>2
<1>12. ASSUME NEW n \in Mail PROVE RowFits(n)'
  <2>1. CASE n = m BY <1>1, <1>2, <1>5, <1>7, <2>1, StatusesDiffer, MailLimits DEF RowFits
  <2>2. CASE n # m
    <3>1. RowFits(n) BY DEF NInv
    <3> QED BY <1>1, <1>5, <2>2, <3>1 DEF RowFits
  <2> QED BY <2>1, <2>2
<1>13. /\ AtWork(m, m)' /\ \A n \in Mail \ {m} : ~AtWork(m, n)'
       /\ \A d \in Mailing!Deliverer \ {m}, n \in Mail : AtWork(d, n)' = AtWork(d, n)
       /\ \A d \in Mailing!Deliverer : ~AtWork(d, m)
  BY <1>3, <1>5, <1>8 DEF AtWork
<1>14. InHand(m)' /\ \A n \in Mail \ {m} : InHand(n)' = InHand(n)
  BY <1>4, <1>10, <1>13 DEF InHand
<1>15. ASSUME "slow" \notin failed', NEW n \in Mail PROVE LoneMail(n)'
  <2>1. CASE n = m
    <3>1. crashes \in Nat /\ Len(Backoff) \in Nat BY <1>4, MailLimits DEF NType, MailAssumption
    <3>2. \A d \in Mailing!Deliverer : AtWork(d, m)' => d = m BY <1>13
    <3>3. tries'[m] = 1 /\ crashes' = crashes BY <1>1, <1>5, <1>7
    <3>4. tries'[m] <= crashes' + 1 + Len(Backoff) /\ tries'[m] <= crashes' + 1 + row'[m].attempts
      BY <1>2, <1>5, <3>1, <3>3
    <3> QED BY <1>2, <1>3, <1>5, <1>14, <2>1, <3>2, <3>4, StatusesDiffer DEF LoneMail
  <2>2. CASE n # m
    <3>1. LoneMail(n) BY <1>1, <1>15 DEF NInv
    <3>2. \A d \in Mailing!Deliverer : AtWork(d, n)' => AtWork(d, n) /\ d # m BY <1>13, <2>2
    <3> QED BY <1>1, <1>5, <1>14, <2>2, <3>1, <3>2 DEF LoneMail
  <2> QED BY <2>1, <2>2
<1>16. ASSUME failed' = {}, NEW n \in Mail PROVE HandedFits(n)'
  <2>1. CASE n = m BY <1>1, <1>3, <1>5, <1>7, <1>13, <1>14, <2>1 DEF HandedFits
  <2>2. CASE n # m
    <3>1. HandedFits(n) BY <1>1, <1>16 DEF NInv
    <3>2. \A d \in Mailing!Deliverer : AtWork(d, n)' => AtWork(d, n) /\ d # m BY <1>13, <2>2
    <3> QED BY <1>1, <1>5, <1>14, <2>2, <3>1, <3>2 DEF HandedFits
  <2> QED BY <2>1, <2>2
<1>17. ASSUME "slow" \notin failed' PROVE Rate'
  <2>1. Rate BY <1>1, <1>17 DEF NInv
  <2>2. \A x \in Limited : caller'[x] = "allowed" => caller[x] = "allowed" /\ x # m
    BY <1>5 DEF MailAssumption
  <2>3. Mailing!Accepted' \subseteq Mailing!Accepted \cup {m}
    BY <1>5 DEF Mailing!Accepted, Mailing!LimitedRows, MailAssumption
  <2>4. CASE m \notin Limited
    <3>1. Mailing!Accepted' \subseteq Mailing!Accepted
      BY <2>3, <2>4 DEF Mailing!Accepted, Mailing!LimitedRows
    <3> QED BY <1>1, <2>1, <2>2, <3>1, RateKeeps
  <2>5. CASE m \in Limited
    <3>1. caller[m] = "allowed" BY <1>1, <2>5
    <3>2. Mailing!Accepted \subseteq Limited BY DEF Mailing!Accepted, Mailing!LimitedRows
    <3>3. IsFiniteSet(Mailing!Accepted) /\ Cardinality(Mailing!Accepted) \in Nat
      BY <3>2, AcceptedIsFinite
    <3>4. /\ Cardinality(Mailing!Accepted \cup {m}) \in Nat
          /\ Cardinality(Mailing!Accepted \cup {m}) <= Cardinality(Mailing!Accepted) + 1
      <4>1. IsFiniteSet(Mailing!Accepted \cup {m}) BY <3>3, FS_AddElement
      <4> QED BY <3>3, <4>1, FS_AddElement, FS_CardinalityType
    <3>5. /\ Cardinality(Mailing!Accepted') \in Nat
          /\ Cardinality(Mailing!Accepted') <= Cardinality(Mailing!Accepted \cup {m})
      <4>1. IsFiniteSet(Mailing!Accepted \cup {m}) BY <3>3, FS_AddElement
      <4> QED BY <2>3, <4>1, FS_Subset, FS_CardinalityType
    <3>6. MaxPerHour \in Nat BY DEF MailAssumption
    <3>7. ASSUME ~overlapped'
          PROVE  /\ Cardinality(Mailing!Accepted) < MaxPerHour
                 /\ \A x \in Limited : caller'[x] # "allowed"
      BY <1>1, <2>1, <2>2, <2>5, <3>1, <3>7 DEF Rate
    <3> QED BY <3>3, <3>4, <3>5, <3>6, <3>7 DEF Rate
  <2> QED BY <2>4, <2>5
<1> QED BY <1>6, <1>11, <1>12, <1>15, <1>16, <1>17 DEF NInv

\* A run finds rows that are due.
LEMMA FindKeeps ==
  ASSUME MailAssumption, NInv, NEW r \in Run, Mailing!Find(r)
  PROVE  NInv'
<1>1. PICK rows \in SUBSET Mailing!Due : found' = [found EXCEPT ![r] = rows]
  BY DEF Mailing!Find
<1>2. UNCHANGED <<row, recent, caller, delivery, bounced, handed, tries, crashes, overlapped, failed>>
  BY DEF Mailing!Find, Mailing!history
<1>3. NType BY DEF NInv
<1>4. NType' BY <1>1, <1>2, <1>3 DEF NType, Mailing!Due
<1>5. ASSUME NEW n \in Mail PROVE RowFits(n)'
  <2>1. RowFits(n) BY DEF NInv
  <2>2. \A q \in Run : n \in found'[q] => n \in found[q] \/ n \in Mailing!Due
    BY <1>1, <1>3 DEF NType
  <2> QED BY <1>2, <2>1, <2>2 DEF RowFits, Mailing!Due
<1>6. \A d \in Mailing!Deliverer : TaskFits(d)' BY <1>2 DEF NInv, TaskFits
<1>7. \A n \in Mail : LoneMail(n) => LoneMail(n)' BY <1>2 DEF LoneMail, AtWork, InHand
<1>8. \A n \in Mail : HandedFits(n) => HandedFits(n)' BY <1>2 DEF HandedFits, AtWork, InHand
<1>9. Rate => Rate' BY <1>2 DEF Rate, Mailing!Accepted, Mailing!LimitedRows
<1> QED BY <1>2, <1>4, <1>5, <1>6, <1>7, <1>8, <1>9 DEF NInv

\* A row that is taken is found no more.
LEMMA LaterLeaves ==
  ASSUME NType, NEW m \in Mail
  PROVE  /\ Mailing!Later(m) \in [Run -> SUBSET Mail]
         /\ \A q \in Run : Mailing!Later(m)[q] \subseteq found[q] /\ m \notin Mailing!Later(m)[q]
BY DEF NType, Mailing!Later

\* A run claims a row that is still due, and delivers it as it is now.
LEMMA ClaimKeeps ==
  ASSUME MailAssumption, NInv, NEW r \in Run, NEW m \in Mail, Mailing!Claim(r, m)
  PROVE  NInv'
<1> DEFINE new == [row[m] EXCEPT !.next = Lease]
           task == Mailing!Delivery(m)
           try == IF row[m].message THEN 1 ELSE 0
<1>0. NType /\ r \in Mailing!Deliverer /\ r \notin Mail
  BY DEF NInv, Mailing!Deliverer, MailAssumption
<1>1. /\ m \in found[r] /\ delivery[r] = Mailing!Idle
      /\ row' = [row EXCEPT ![m] = new]
      /\ delivery' = [delivery EXCEPT ![r] = task]
      /\ tries' = [tries EXCEPT ![m] = tries[m] + try]
      /\ UNCHANGED <<recent, caller, bounced, handed, crashes, overlapped, failed>>
  BY DEF Mailing!Claim
<1>2. found' \in [Run -> SUBSET Mail] /\ \A q \in Run : found'[q] \subseteq found[q] /\ m \notin found'[q]
  <2>1. found' = [Mailing!Later(m) EXCEPT ![r] = Mailing!Later(m)[r] \ {m}] BY DEF Mailing!Claim
  <2> QED BY <1>0, <2>1, LaterLeaves
<1>3. row[m] \in MailRow /\ RowFits(m) /\ row[m].status \in Mailing!Waiting /\ row[m].next = 0
  BY <1>0, <1>1 DEF NInv, NType, RowFits
<1>4. /\ new \in MailRow /\ new.status = row[m].status /\ new.attempts = row[m].attempts
      /\ new.message = row[m].message /\ new.next = Lease /\ Lease > 0 /\ Lease # Mailing!Never
  <2>1. Lease \in Nat /\ Lease > 0 /\ Lease # Mailing!Never BY StatusesDiffer DEF MailAssumption
  <2> QED BY <1>3, <2>1 DEF MailRow
<1>5. /\ task \in Task /\ task.mail = {m} /\ task.answer = "waiting"
      /\ task.message = row[m].message /\ task.attempts = row[m].attempts
  <2>1. row[m].attempts \in 0..Len(Backoff) BY <1>3, MailLimits DEF RowFits, MailRow
  <2> QED BY <1>3, <2>1 DEF Task, Mailing!Delivery, Mailing!Answers, MailRow
<1>6. try \in Nat /\ try <= 1 OBVIOUS
<1> HIDE DEF new, task, try
<1>7. /\ row'[m] = new /\ \A n \in Mail \ {m} : row'[n] = row[n]
      /\ delivery'[r] = task /\ \A d \in Mailing!Deliverer \ {r} : delivery'[d] = delivery[d]
      /\ tries'[m] = tries[m] + try /\ \A n \in Mail \ {m} : tries'[n] = tries[n]
  BY <1>0, <1>1 DEF NType
<1>8. NType'
  <2>1. row' \in [Mail -> MailRow] BY <1>0, <1>1, <1>4 DEF NType
  <2>2. delivery' \in [Mailing!Deliverer -> Task] BY <1>0, <1>1, <1>5 DEF NType, Mailing!Deliverer
  <2>3. tries' \in [Mail -> Nat] BY <1>0, <1>1, <1>6 DEF NType
  <2> QED BY <1>0, <1>1, <1>2, <2>1, <2>2, <2>3 DEF NType, Mailing!Deliverer
<1>9. ASSUME NEW d \in Mailing!Deliverer PROVE TaskFits(d)'
  <2>1. CASE d = r BY <1>0, <1>3, <1>4, <1>5, <1>7, <2>1, StatusesDiffer DEF TaskFits
  <2>2. CASE d # r
    <3>1. TaskFits(d) /\ delivery'[d] = delivery[d] BY <1>7, <2>2 DEF NInv
    <3>2. delivery[d].mail \subseteq Mail BY <1>0 DEF NType, Task
    <3>3. \A n \in delivery[d].mail : row'[n].status = row[n].status /\ row'[n].message = row[n].message
      BY <1>4, <1>7, <3>2
    <3> QED BY <3>1, <3>3 DEF TaskFits
  <2> QED BY <2>1, <2>2
<1>10. ASSUME NEW n \in Mail PROVE RowFits(n)'
  <2>1. RowFits(n) BY DEF NInv
  <2>2. CASE n = m BY <1>1, <1>2, <1>3, <1>4, <1>7, <2>1, <2>2, StatusesDiffer DEF RowFits
  <2>3. CASE n # m BY <1>1, <1>2, <1>7, <2>1, <2>3 DEF RowFits
  <2> QED BY <2>2, <2>3
<1>11. /\ AtWork(r, m)' /\ \A n \in Mail \ {m} : ~AtWork(r, n)'
       /\ \A d \in Mailing!Deliverer \ {r}, n \in Mail : AtWork(d, n)' = AtWork(d, n)
       /\ \A n \in Mail : ~AtWork(r, n)
  BY <1>1, <1>5, <1>7 DEF AtWork, Mailing!Idle
<1>12. InHand(m)' /\ \A n \in Mail \ {m} : InHand(n)' = InHand(n)
  BY <1>0, <1>11 DEF InHand
<1>13. ASSUME "slow" \notin failed' PROVE ~InHand(m) /\ row[m].message
  <2>1. LoneMail(m) BY <1>1, <1>13 DEF NInv
  <2> QED BY <1>3, <2>1 DEF LoneMail, InHand
<1>14. ASSUME "slow" \notin failed', NEW n \in Mail PROVE LoneMail(n)'
  <2>0. LoneMail(n) BY <1>1, <1>14 DEF NInv
  <2>1. CASE n = m
    <3>1. /\ crashes \in Nat /\ Len(Backoff) \in Nat /\ row[m].attempts \in Nat
          /\ row[m].attempts <= Len(Backoff) /\ tries[m] \in Nat
      BY <1>0, <1>3, MailLimits DEF NType, MailAssumption, MailRow, RowFits
    <3>2. \A d \in Mailing!Deliverer : AtWork(d, m)' => d = r BY <1>11, <1>13, <1>14 DEF InHand
    <3>3. tries[m] <= crashes + row[m].attempts BY <1>3, <1>13, <1>14, <2>0, <2>1 DEF LoneMail
    <3>4. /\ tries'[m] <= crashes' + 1 + Len(Backoff)
          /\ tries'[m] <= crashes' + 1 + row'[m].attempts
      BY <1>1, <1>4, <1>6, <1>7, <3>1, <3>3
    <3> QED BY <1>3, <1>4, <1>5, <1>7, <1>12, <1>13, <1>14, <2>1, <3>2, <3>4 DEF LoneMail
  <2>2. CASE n # m
    <3>2. \A d \in Mailing!Deliverer : AtWork(d, n)' => AtWork(d, n) /\ d # r BY <1>11, <2>2
    <3> QED BY <1>1, <1>7, <1>12, <2>0, <2>2, <3>2 DEF LoneMail
  <2> QED BY <2>1, <2>2
<1>15. ASSUME failed' = {}, NEW n \in Mail PROVE HandedFits(n)'
  <2>0. HandedFits(n) BY <1>1, <1>15 DEF NInv
  <2>1. CASE n = m
    <3>1. ~InHand(m) BY <1>13, <1>15
    <3>2. handed[m] = 0 BY <1>3, <2>0, <2>1, <3>1, StatusesDiffer DEF HandedFits
    <3>3. \A d \in Mailing!Deliverer : AtWork(d, m)' => d = r BY <1>11, <3>1 DEF InHand
    <3> QED BY <1>1, <1>5, <1>7, <1>12, <2>1, <3>2, <3>3 DEF HandedFits
  <2>2. CASE n # m
    <3>2. \A d \in Mailing!Deliverer : AtWork(d, n)' => AtWork(d, n) /\ d # r BY <1>11, <2>2
    <3> QED BY <1>1, <1>7, <1>12, <2>0, <2>2, <3>2 DEF HandedFits
  <2> QED BY <2>1, <2>2
<1>16. ASSUME "slow" \notin failed' PROVE Rate'
  <2>1. Rate BY <1>1, <1>16 DEF NInv
  <2>2. \A x \in Limited : row'[x].status = row[x].status BY <1>4, <1>7 DEF MailAssumption
  <2>3. Mailing!Accepted' \subseteq Mailing!Accepted
    BY <1>1, <2>2 DEF Mailing!Accepted, Mailing!LimitedRows
  <2> QED BY <1>1, <2>1, <2>3, RateKeeps
<1> QED BY <1>8, <1>9, <1>10, <1>14, <1>15, <1>16 DEF NInv

\* The mail server answers, or its answer gets lost.
LEMMA HandleKeeps ==
  ASSUME MailAssumption, NInv, NEW d \in Mailing!Deliverer, NEW answer \in Mailing!Answers, Mailing!Handle(d, answer)
  PROVE  NInv'
<1> DEFINE task == [delivery[d] EXCEPT !.answer = answer]
<1>1. /\ delivery[d].answer = "waiting" /\ delivery[d].message
      /\ answer \in {"sent", "rejected", "failed"}
      /\ delivery' = [delivery EXCEPT ![d] = task]
      /\ UNCHANGED <<row, recent, caller, found, bounced, tries, crashes, overlapped>>
  BY DEF Mailing!Handle
<1>2. NType BY DEF NInv
<1>3. /\ task \in Task /\ task.answer = answer /\ task.mail = delivery[d].mail
      /\ task.message = delivery[d].message /\ task.attempts = delivery[d].attempts
  BY <1>2 DEF NType, Task
<1>4. /\ failed \subseteq failed' /\ handed' \in [Mail -> Nat]
      /\ \A n \in Mail : n \notin delivery[d].mail => handed'[n] = handed[n]
      /\ \A n \in delivery[d].mail : failed' = {} =>
           handed'[n] = handed[n] + (IF answer = "sent" THEN 1 ELSE 0)
  <2>0. delivery[d].mail \subseteq Mail /\ \A n \in Mail : handed[n] \in Nat
    BY <1>2 DEF NType, Task
  <2>1. CASE /\ handed' = [m \in Mail |-> handed[m] + (IF m \in delivery[d].mail /\ answer = "sent"
                                                     THEN 1 ELSE 0)]
             /\ UNCHANGED failed
    BY <2>0, <2>1
  <2>2. CASE /\ failed' = failed \cup {"lost"}
             /\ handed' = [m \in Mail |-> handed[m] + (IF m \in delivery[d].mail THEN 1 ELSE 0)]
    BY <2>0, <2>2
  <2> QED BY <2>1, <2>2 DEF Mailing!Handle
<1> HIDE DEF task
<1>5. delivery'[d] = task /\ \A e \in Mailing!Deliverer \ {d} : delivery'[e] = delivery[e]
  BY <1>1, <1>2 DEF NType
<1>6. NType'
  <2>1. delivery' \in [Mailing!Deliverer -> Task] BY <1>1, <1>2, <1>3 DEF NType, Mailing!Deliverer
  <2> QED BY <1>1, <1>2, <1>4, <2>1 DEF NType, Mailing!Deliverer
<1>7. ASSUME NEW e \in Mailing!Deliverer PROVE TaskFits(e)'
  <2>1. TaskFits(e) BY DEF NInv
  <2>2. CASE e = d BY <1>1, <1>3, <1>5, <2>1, <2>2 DEF TaskFits
  <2>3. CASE e # d BY <1>1, <1>5, <2>1, <2>3 DEF TaskFits
  <2> QED BY <2>2, <2>3
<1>8. \A n \in delivery[d].mail : row[n].status # "none" BY DEF NInv, TaskFits
<1>9. ASSUME NEW n \in Mail PROVE RowFits(n)'
  <2>1. RowFits(n) BY DEF NInv
  <2> QED BY <1>1, <1>4, <1>8, <2>1 DEF RowFits
<1>10. \A e \in Mailing!Deliverer, n \in Mail : AtWork(e, n)' = AtWork(e, n)
  <2>1. \A n \in Mail : AtWork(d, n)' = AtWork(d, n) BY <1>1, <1>3, <1>5 DEF AtWork
  <2>2. \A e \in Mailing!Deliverer \ {d}, n \in Mail : AtWork(e, n)' = AtWork(e, n)
    BY <1>5 DEF AtWork
  <2> QED BY <2>1, <2>2
<1>11. \A n \in Mail : InHand(n)' = InHand(n) BY <1>10 DEF InHand
<1>12. \A e \in Mailing!Deliverer :
         delivery'[e].message = delivery[e].message /\ delivery'[e].attempts = delivery[e].attempts
  BY <1>3, <1>5
<1>13. \A n \in Mail : LoneMail(n) => LoneMail(n)'
  BY <1>1, <1>10, <1>11, <1>12 DEF LoneMail
<1>14. ASSUME failed' = {}, NEW n \in Mail PROVE HandedFits(n)'
  <2>0. failed = {} /\ HandedFits(n) /\ LoneMail(n) BY <1>4, <1>14 DEF NInv
  <2>1. CASE AtWork(d, n)
    <3>1. n \in delivery[d].mail BY <2>1 DEF AtWork
    <3>2. handed[n] = 0 BY <1>1, <2>0, <2>1 DEF HandedFits
    <3>3. handed'[n] = IF answer = "sent" THEN 1 ELSE 0 BY <1>4, <1>14, <3>1, <3>2
    <3>4. \A e \in Mailing!Deliverer : AtWork(e, n) => e = d BY <2>0, <2>1 DEF LoneMail
    <3>5. InHand(n)' BY <1>10, <2>1 DEF InHand
    <3> QED BY <1>3, <1>5, <1>10, <3>3, <3>4, <3>5 DEF HandedFits
  <2>2. CASE ~AtWork(d, n)
    <3>1. n \notin delivery[d].mail BY <1>1, <2>2 DEF AtWork
    <3>2. handed'[n] = handed[n] BY <1>4, <3>1
    <3>3. \A e \in Mailing!Deliverer : AtWork(e, n)' => AtWork(e, n) /\ delivery'[e] = delivery[e]
      BY <1>5, <1>10, <2>2
    <3> QED BY <1>1, <1>11, <2>0, <3>2, <3>3 DEF HandedFits
  <2> QED BY <2>1, <2>2
<1>15. Rate => Rate' BY <1>1 DEF Rate, Mailing!Accepted, Mailing!LimitedRows
<1> QED BY <1>4, <1>6, <1>7, <1>9, <1>13, <1>14, <1>15 DEF NInv

\* A deliverer writes how its mail ended: over the row that it has in hand, a row
\* that gained no message, and with one attempt more if it waits again.
LEMMA WriteKeeps ==
  ASSUME MailAssumption, NInv, NEW d \in Mailing!Deliverer, NEW m \in Mail,
         m \in delivery[d].mail, delivery[d].answer # "bounced",
         NEW r \in MailRow, row' = [row EXCEPT ![m] = r],
         NEW t \in Task, delivery' = [delivery EXCEPT ![d] = t],
         t = Mailing!Idle \/ (t.answer = "bounced" /\ t.mail = {m} /\ t.message),
         found' = Mailing!Later(m),
         UNCHANGED <<recent, caller, bounced, handed, tries, crashes, overlapped, failed>>,
         r.status # "none", r.message => row[m].message,
         r.message => r.status \in Mailing!Waiting /\ r.next # Mailing!Never,
         r.status \in Mailing!Waiting => r.attempts <= Len(Backoff),
         "slow" \notin failed /\ LoneMail(m) /\ r.status \in Mailing!Waiting =>
           r.message /\ r.attempts >= row[m].attempts + 1,
         failed = {} => handed[m] = IF r.status = Mailing!ENVIADO THEN 1 ELSE 0
  PROVE  NInv'
<1>1. NType BY DEF NInv
<1>2. /\ row'[m] = r /\ \A n \in Mail \ {m} : row'[n] = row[n]
      /\ delivery'[d] = t /\ \A e \in Mailing!Deliverer \ {d} : delivery'[e] = delivery[e]
  BY <1>1 DEF NType
<1>3. /\ \A q \in Run : found'[q] \subseteq found[q] /\ m \notin found'[q]
      /\ found' \in [Run -> SUBSET Mail]
  BY <1>1, LaterLeaves
<1>4. NType'
  <2>1. row' \in [Mail -> MailRow] BY <1>1 DEF NType
  <2>2. delivery' \in [Mailing!Deliverer -> Task] BY <1>1 DEF NType, Mailing!Deliverer
  <2> QED BY <1>1, <1>3, <2>1, <2>2 DEF NType, Mailing!Deliverer
<1>5. row[m].status # "none" /\ caller[m] = "ended"
  <2>1. TaskFits(d) /\ RowFits(m) BY DEF NInv
  <2> QED BY <2>1 DEF TaskFits, RowFits
<1>6. delivery[d].mail = {m}
  <2>1. TaskFits(d) BY DEF NInv
  <2> QED BY <2>1 DEF TaskFits, Mailing!Idle
<1>7. ASSUME NEW e \in Mailing!Deliverer PROVE TaskFits(e)'
  <2>1. TaskFits(e) BY DEF NInv
  <2>2. CASE e = d
    <3>1. delivery'[e] = t BY <1>2, <2>2
    <3>2. e \in Mail => m = e BY <1>6, <2>1, <2>2 DEF TaskFits
    <3>3. CASE t = Mailing!Idle BY <3>1, <3>3 DEF TaskFits, Mailing!Idle
    <3>4. CASE t.answer = "bounced" /\ t.mail = {m} /\ t.message
      BY <1>2, <3>1, <3>2, <3>4 DEF TaskFits
    <3> QED BY <3>3, <3>4
  <2>3. CASE e # d
    <3>1. delivery'[e] = delivery[e] BY <1>2, <2>3
    <3>2. delivery[e].mail \subseteq Mail BY <1>1 DEF NType, Task
    <3>3. ASSUME NEW n \in delivery[e].mail
          PROVE  row'[n].status # "none" /\ (row'[n].message => delivery[e].message)
      <4>1. row[n].status # "none" /\ (row[n].message => delivery[e].message)
        BY <2>1 DEF TaskFits
      <4> QED BY <1>2, <3>2, <4>1
    <3> QED BY <2>1, <3>1, <3>3 DEF TaskFits
  <2> QED BY <2>2, <2>3
<1>8. ASSUME NEW n \in Mail PROVE RowFits(n)'
  <2>1. RowFits(n) BY DEF NInv
  <2>2. CASE n = m BY <1>2, <1>3, <1>5, <2>2 DEF RowFits, Mailing!Waiting
  <2>3. CASE n # m BY <1>2, <1>3, <2>1, <2>3 DEF RowFits
  <2> QED BY <2>2, <2>3
<1>9. AtWork(d, m) /\ \A n \in Mail : ~AtWork(d, n)'
  BY <1>2 DEF AtWork, Mailing!Idle
<1>10. \A e \in Mailing!Deliverer \ {d}, n \in Mail : AtWork(e, n)' = AtWork(e, n)
  BY <1>2 DEF AtWork
<1>11. \A n \in Mail \ {m} : ~AtWork(d, n) BY <1>6 DEF AtWork
<1>12. \A n \in Mail \ {m} : InHand(n)' = InHand(n) BY <1>9, <1>10, <1>11 DEF InHand
<1>13. ASSUME "slow" \notin failed PROVE LoneMail(m) /\ ~InHand(m)'
  <2>1. LoneMail(m) BY <1>13 DEF NInv
  <2>2. \A e \in Mailing!Deliverer : AtWork(e, m) => e = d BY <1>9, <2>1 DEF LoneMail
  <2> QED BY <1>9, <1>10, <2>1, <2>2 DEF InHand
<1>14. ASSUME "slow" \notin failed', NEW n \in Mail PROVE LoneMail(n)'
  <2>1. CASE n = m
    <3>0. /\ crashes \in Nat /\ Len(Backoff) \in Nat /\ tries[m] \in Nat
          /\ row[m].attempts \in Nat /\ r.attempts \in Nat
      BY <1>1, MailLimits DEF NType, MailAssumption, MailRow
    <3>1. LoneMail(m) /\ row[m].status \in Mailing!Waiting BY <1>9, <1>13, <1>14 DEF LoneMail
    <3>2. tries[m] <= crashes + 1 + Len(Backoff) /\ tries[m] <= crashes + 1 + row[m].attempts
      BY <3>1 DEF LoneMail
    <3>3. r.status \in Mailing!Waiting => r.message /\ tries[m] <= crashes + r.attempts
      BY <1>14, <3>0, <3>1, <3>2
    <3>4. \A e \in Mailing!Deliverer : ~AtWork(e, m)' BY <1>13, <1>14 DEF InHand
    <3>5. r.status \in Mailing!Waiting => tries[m] <= crashes + 1 + r.attempts BY <3>0, <3>3
    <3> QED BY <1>2, <2>1, <3>2, <3>3, <3>4, <3>5 DEF LoneMail, Mailing!Waiting
  <2>2. CASE n # m
    <3>1. LoneMail(n) BY <1>14 DEF NInv
    <3>2. \A e \in Mailing!Deliverer : AtWork(e, n)' => AtWork(e, n) /\ e # d BY <1>9, <1>10
    <3> QED BY <1>2, <1>12, <2>2, <3>1, <3>2 DEF LoneMail
  <2> QED BY <2>1, <2>2
<1>15. ASSUME failed' = {}, NEW n \in Mail PROVE HandedFits(n)'
  <2>1. CASE n = m
    <3>1. \A e \in Mailing!Deliverer : ~AtWork(e, m)' BY <1>13, <1>15 DEF InHand
    <3>2. handed[m] = IF r.status = Mailing!ENVIADO THEN 1 ELSE 0 BY <1>15
    <3> QED BY <1>2, <2>1, <3>1, <3>2 DEF HandedFits, Mailing!ENVIADO
  <2>2. CASE n # m
    <3>1. HandedFits(n) BY <1>15 DEF NInv
    <3>2. \A e \in Mailing!Deliverer : AtWork(e, n)' => AtWork(e, n) /\ e # d BY <1>9, <1>10
    <3> QED BY <1>2, <1>12, <2>2, <3>1, <3>2 DEF HandedFits
  <2> QED BY <2>1, <2>2
<1>16. ASSUME "slow" \notin failed' PROVE Rate'
  <2>1. Rate BY <1>16 DEF NInv
  <2>2. row[m].status \in Mailing!Waiting BY <1>9, <1>13, <1>16 DEF LoneMail
  <2>3. Mailing!Accepted' \subseteq Mailing!Accepted
    BY <1>2, <2>2 DEF Mailing!Accepted, Mailing!LimitedRows, MailAssumption
  <2> QED BY <2>1, <2>3, RateKeeps
<1> QED BY <1>4, <1>7, <1>8, <1>14, <1>15, <1>16 DEF NInv

\* Whichever way a delivery ends, it writes such a row.
LEMMA RecordKeeps ==
  ASSUME MailAssumption, NInv, NEW d \in Mailing!Deliverer, NEW m \in Mail, Mailing!Record(d, m)
  PROVE  NInv'
<1>1. /\ m \in delivery[d].mail /\ found' = Mailing!Later(m)
      /\ UNCHANGED <<recent, caller, bounced, handed, tries, crashes, overlapped, failed>>
      /\ Mailing!NoMessage(d, m) \/ Mailing!Sent(d, m) \/ Mailing!Rejected(d, m) \/ Mailing!Failed(d, m)
  BY DEF Mailing!Record, Mailing!history
<1>2. /\ NType /\ row[m] \in MailRow /\ delivery[d] \in Task
      /\ TaskFits(d) /\ RowFits(m) /\ Mailing!Idle \in Task
  <2>1. Mailing!Idle \in Task BY MailLimits DEF Mailing!Idle, Task, Mailing!Answers
  <2> QED BY <2>1 DEF NInv, NType
<1>3. /\ row[m].status # "none" /\ (row[m].message => delivery[d].message)
      /\ delivery[d].mail = {m}
  BY <1>1, <1>2 DEF TaskFits, Mailing!Idle
<1>4. ASSUME delivery[d].answer # "bounced", "slow" \notin failed
      PROVE  /\ LoneMail(m) /\ row[m].status \in Mailing!Waiting /\ delivery[d].message
             /\ row[m].message /\ delivery[d].attempts = row[m].attempts
  BY <1>1, <1>4 DEF NInv, LoneMail, AtWork
<1>5. ASSUME delivery[d].answer # "bounced", failed = {}
      PROVE  handed[m] = IF delivery[d].answer = "sent" THEN 1 ELSE 0
  BY <1>1, <1>5 DEF NInv, HandedFits, AtWork
<1>6. CASE Mailing!NoMessage(d, m)
  <2> DEFINE r == [row[m] EXCEPT !.status = "fallido", !.next = Mailing!Never]
  <2>1. /\ delivery[d].answer = "waiting" /\ ~delivery[d].message
        /\ row' = [row EXCEPT ![m] = r] /\ delivery' = [delivery EXCEPT ![d] = Mailing!Idle]
    <3>1. row' = [row EXCEPT ![m].status = "fallido", ![m].next = Mailing!Never]
      BY <1>6, StatusesDiffer DEF Mailing!NoMessage
    <3> QED BY <1>2, <1>6, <3>1 DEF Mailing!NoMessage, NType
  <2>2. /\ r \in MailRow /\ r.status = "fallido" /\ r.message = row[m].message
    <3>1. "fallido" \in Mailing!EmailStatuses BY StatusesDiffer
    <3> QED BY <1>2, <3>1 DEF MailRow
  <2> HIDE DEF r
  <2>3. "slow" \in failed BY <1>4, <2>1
  <2> QED BY <1>1, <1>2, <1>3, <2>1, <2>2, <2>3, WriteKeeps, StatusesDiffer
<1>7. ASSUME NEW state \in {"enviado", "rebotado", "fallido"}, NEW attempts \in 0..Len(Backoff) + 1,
             Mailing!Ends(m, state, attempts), delivery[d].answer # "bounced",
             NEW t \in Task, delivery' = [delivery EXCEPT ![d] = t],
             t = Mailing!Idle \/ (t.answer = "bounced" /\ t.mail = {m} /\ t.message),
             (state = "enviado") = (delivery[d].answer = "sent")
      PROVE  NInv'
  <2> DEFINE r == [status |-> state, attempts |-> attempts, message |-> FALSE, next |-> Mailing!Never]
  <2>1. row' = [row EXCEPT ![m] = r] BY <1>7 DEF Mailing!Ends
  <2>2. r \in MailRow /\ r.status = state /\ ~r.message /\ state \notin Mailing!Waiting
    <3>1. state \in Mailing!EmailStatuses /\ state \notin Mailing!Waiting BY StatusesDiffer
    <3> QED BY <3>1 DEF MailRow
  <2> HIDE DEF r
  <2>3. failed = {} => handed[m] = IF r.status = Mailing!ENVIADO THEN 1 ELSE 0
    BY <1>5, <1>7, <2>2, StatusesDiffer
  <2>4. r.status # "none" BY <2>2
  <2> QED BY <1>1, <1>7, <2>1, <2>2, <2>3, <2>4, WriteKeeps
<1>8. CASE Mailing!Sent(d, m)
  <2>1. /\ delivery[d].answer = "sent" /\ Mailing!Ends(m, "enviado", row[m].attempts)
        /\ delivery' = [delivery EXCEPT ![d] = Mailing!Idle]
    BY <1>8, StatusesDiffer DEF Mailing!Sent
  <2>2. row[m].attempts \in 0..Len(Backoff) + 1 BY <1>2 DEF MailRow
  <2> QED BY <1>2, <1>7, <2>1, <2>2
<1>9. CASE Mailing!Rejected(d, m)
  <2> DEFINE t == [delivery[d] EXCEPT !.answer = "bounced"]
  <2>1. /\ delivery[d].answer = "rejected" /\ Mailing!Ends(m, "rebotado", row[m].attempts)
        /\ delivery' = [delivery EXCEPT ![d] = t]
    BY <1>2, <1>9, StatusesDiffer DEF Mailing!Rejected, NType
  <2>2. row[m].attempts \in 0..Len(Backoff) + 1 BY <1>2 DEF MailRow
  <2>3. t \in Task /\ t.answer = "bounced" /\ t.mail = {m} /\ t.message
    BY <1>2, <1>3, <2>1 DEF Task, TaskFits, Mailing!Answers
  <2> HIDE DEF t
  <2> QED BY <1>7, <2>1, <2>2, <2>3
<1>10. CASE Mailing!Failed(d, m)
  <2> DEFINE attempts == delivery[d].attempts + 1
             r == [row[m] EXCEPT !.status = "reintentando", !.attempts = attempts,
                                 !.next = Mailing!Backs(attempts)]
  <2>1. /\ delivery[d].answer = "failed" /\ delivery' = [delivery EXCEPT ![d] = Mailing!Idle]
        /\ \/ attempts <= Len(Backoff) /\ row' = [row EXCEPT ![m] = r]
           \/ Mailing!Ends(m, "fallido", attempts)
    <3>1. /\ delivery[d].answer = "failed" /\ delivery' = [delivery EXCEPT ![d] = Mailing!Idle]
          /\ \/ /\ attempts <= Len(Backoff)
                /\ row' = [row EXCEPT ![m].status = "reintentando", ![m].attempts = attempts,
                                      ![m].next = Mailing!Backs(attempts)]
             \/ Mailing!Ends(m, "fallido", attempts)
      BY <1>10, StatusesDiffer DEF Mailing!Failed, Mailing!Retries, Mailing!REINTENTANDO
    <3> QED BY <1>2, <3>1 DEF NType
  <2>2. /\ delivery[d].attempts \in 0..Len(Backoff) /\ Len(Backoff) \in Nat
        /\ attempts \in 0..Len(Backoff) + 1 /\ attempts \in Nat \ {0}
    BY <1>2, MailLimits DEF Task
  <2>3. CASE Mailing!Ends(m, "fallido", attempts) BY <1>2, <1>7, <2>1, <2>2, <2>3
  <2>4. CASE attempts <= Len(Backoff) /\ row' = [row EXCEPT ![m] = r]
    <3>1. Mailing!Backs(attempts) \in Nat BY <2>2, <2>4, BackoffsAreNumbers
    <3>2. /\ r \in MailRow /\ r.status = "reintentando" /\ r.attempts = attempts
          /\ r.message = row[m].message /\ r.next \in Nat
      <4>1. "reintentando" \in Mailing!EmailStatuses BY StatusesDiffer
      <4> QED BY <1>2, <2>2, <3>1, <4>1 DEF MailRow
    <3>3. "slow" \notin failed => r.message /\ r.attempts >= row[m].attempts + 1
      <4>1. row[m].attempts \in Nat BY <1>2 DEF MailRow
      <4> QED BY <1>4, <2>1, <2>2, <3>2, <4>1
    <3>4. /\ r.status \in Mailing!Waiting /\ r.status # Mailing!ENVIADO /\ r.next # Mailing!Never /\ r.status # "none"
          /\ r.attempts <= Len(Backoff)
      BY <2>4, <3>2, StatusesDiffer
    <3>5. failed = {} => handed[m] = 0 BY <1>5, <2>1
    <3> HIDE DEF r, attempts
    <3> QED BY <1>1, <1>2, <2>1, <2>4, <3>2, <3>3, <3>4, <3>5, WriteKeeps
  <2> QED BY <2>1, <2>3, <2>4
<1> QED BY <1>1, <1>6, <1>8, <1>9, <1>10

\* The account is marked once the row is written.
LEMMA BouncedKeeps ==
  ASSUME MailAssumption, NInv, NEW d \in Mailing!Deliverer, Mailing!Bounced(d)
  PROVE  NInv'
<1>1. /\ delivery[d].answer = "bounced" /\ bounced' = TRUE
      /\ delivery' = [delivery EXCEPT ![d] = Mailing!Idle]
      /\ UNCHANGED <<row, recent, caller, found, handed, tries, crashes, overlapped, failed>>
  BY DEF Mailing!Bounced, Mailing!history
<1>2. NType /\ Mailing!Idle \in Task
  BY MailLimits DEF NInv, Mailing!Idle, Task, Mailing!Answers
<1>3. delivery'[d] = Mailing!Idle /\ \A e \in Mailing!Deliverer \ {d} : delivery'[e] = delivery[e]
  BY <1>1, <1>2 DEF NType
<1>4. NType'
  <2>1. delivery' \in [Mailing!Deliverer -> Task] BY <1>1, <1>2 DEF NType, Mailing!Deliverer
  <2> QED BY <1>1, <1>2, <2>1 DEF NType, Mailing!Deliverer
<1>5. ASSUME NEW e \in Mailing!Deliverer PROVE TaskFits(e)'
  <2>1. CASE e = d BY <1>3, <2>1 DEF TaskFits, Mailing!Idle
  <2>2. CASE e # d BY <1>1, <1>3, <2>2 DEF NInv, TaskFits
  <2> QED BY <2>1, <2>2
<1>6. \A n \in Mail : RowFits(n)' BY <1>1 DEF NInv, RowFits
<1>7. /\ \A n \in Mail : ~AtWork(d, n) /\ ~AtWork(d, n)'
      /\ \A e \in Mailing!Deliverer, n \in Mail : AtWork(e, n)' = AtWork(e, n)
  BY <1>1, <1>3 DEF AtWork, Mailing!Idle
<1>8. \A n \in Mail : InHand(n)' = InHand(n) BY <1>7 DEF InHand
<1>9. \A e \in Mailing!Deliverer, n \in Mail : AtWork(e, n)' => AtWork(e, n) /\ delivery'[e] = delivery[e]
  BY <1>3, <1>7
<1>10. \A n \in Mail : LoneMail(n) => LoneMail(n)' BY <1>1, <1>8, <1>9 DEF LoneMail
<1>11. \A n \in Mail : HandedFits(n) => HandedFits(n)' BY <1>1, <1>8, <1>9 DEF HandedFits
<1>12. Rate => Rate' BY <1>1 DEF Rate, Mailing!Accepted, Mailing!LimitedRows
<1> QED BY <1>1, <1>4, <1>5, <1>6, <1>10, <1>11, <1>12 DEF NInv

\* Time passes; a lease that ends under a delivery is counted as slow.
LEMMA TickKeeps ==
  ASSUME MailAssumption, NInv, Mailing!Tick
  PROVE  NInv'
<1>1. /\ failed' = IF Mailing!Late THEN failed \cup {"slow"} ELSE failed
      /\ row' = [m \in Mail |-> [row[m] EXCEPT !.next = Mailing!Down(row[m].next)]]
      /\ recent' = [m \in Mail |-> Mailing!Down(recent[m])]
      /\ UNCHANGED <<caller, found, delivery, bounced, handed, tries, crashes, overlapped>>
  BY DEF Mailing!Tick
<1>2. NType BY DEF NInv
<1>3. \A n \in 0..Hour : Mailing!Down(n) \in 0..Hour /\ (Mailing!Down(n) > 0 => n > 0)
  BY DEF Mailing!Down, MailAssumption
<1>4. ASSUME NEW n \in Mail
      PROVE  /\ row'[n] \in MailRow /\ row'[n].status = row[n].status
             /\ row'[n].attempts = row[n].attempts /\ row'[n].message = row[n].message
             /\ row'[n].next = Mailing!Down(row[n].next) /\ row[n].next \in Nat \cup {Mailing!Never}
             /\ recent[n] \in 0..Hour /\ recent'[n] = Mailing!Down(recent[n])
  <2> DEFINE new == [row[n] EXCEPT !.next = Mailing!Down(row[n].next)]
  <2>1. row[n] \in MailRow /\ recent[n] \in 0..Hour BY <1>2 DEF NType
  <2>2. row[n].next \in Nat \cup {Mailing!Never} BY <2>1 DEF MailRow
  <2>4. Mailing!Down(row[n].next) \in Nat \cup {Mailing!Never}
    BY <2>2, StatusesDiffer DEF Mailing!Down
  <2>3. /\ new \in MailRow /\ new.status = row[n].status /\ new.attempts = row[n].attempts
        /\ new.message = row[n].message /\ new.next = Mailing!Down(row[n].next)
    BY <2>1, <2>4 DEF MailRow
  <2>5. row'[n] = new /\ recent'[n] = Mailing!Down(recent[n]) BY <1>1
  <2> HIDE DEF new
  <2> QED BY <2>1, <2>2, <2>3, <2>5
<1>5. NType'
  <2>1. row' \in [Mail -> MailRow]
    <3>1. row' = [n \in Mail |-> row'[n]] BY <1>1
    <3> QED BY <1>4, <3>1
  <2>2. recent' \in [Mail -> 0..Hour] BY <1>1, <1>2, <1>3 DEF NType
  <2> QED BY <1>1, <1>2, <2>1, <2>2 DEF NType
<1>6. ASSUME NEW d \in Mailing!Deliverer PROVE TaskFits(d)'
  <2>1. TaskFits(d) BY DEF NInv
  <2>2. \A n \in delivery[d].mail : row'[n].status = row[n].status /\ row'[n].message = row[n].message
    BY <1>2, <1>4 DEF NType, Task
  <2> QED BY <1>1, <2>1, <2>2 DEF TaskFits
<1>7. ASSUME NEW n \in Mail PROVE RowFits(n)'
  <2>1. RowFits(n) BY DEF NInv
  <2>2. row'[n].next = Mailing!Never => row[n].next = Mailing!Never
    BY <1>4, StatusesDiffer DEF Mailing!Down
  <2>3. row[n].next = 0 => row'[n].next = 0 BY <1>4, StatusesDiffer DEF Mailing!Down
  <2> QED BY <1>1, <1>4, <2>1, <2>2, <2>3 DEF RowFits
<1>8. /\ \A d \in Mailing!Deliverer, n \in Mail : AtWork(d, n)' = AtWork(d, n)
      /\ \A n \in Mail : InHand(n)' = InHand(n)
  BY <1>1 DEF AtWork, InHand
<1>9. failed \subseteq failed' /\ ("slow" \notin failed' => ~Mailing!Late) BY <1>1
<1>10. ASSUME "slow" \notin failed', NEW n \in Mail PROVE LoneMail(n)'
  <2>1. LoneMail(n) BY <1>9, <1>10 DEF NInv
  <2>2. ASSUME NEW d \in Mailing!Deliverer, AtWork(d, n) PROVE row'[n].next > 0
    <3>1. row[n].next > 0 /\ row[n].next # 1
      BY <1>9, <1>10, <2>1, <2>2 DEF LoneMail, AtWork, Mailing!Late
    <3>2. row[n].next \in Nat /\ row[n].next > 1 BY <1>4, <3>1, StatusesDiffer
    <3> QED BY <1>4, <3>2 DEF Mailing!Down
  <2> QED BY <1>1, <1>4, <1>8, <2>1, <2>2 DEF LoneMail
<1>11. \A n \in Mail : HandedFits(n) => HandedFits(n)' BY <1>1, <1>4, <1>8 DEF HandedFits
<1>12. ASSUME "slow" \notin failed' PROVE Rate'
  <2>1. Rate BY <1>9, <1>12 DEF NInv
  <2>2. Mailing!Accepted' \subseteq Mailing!Accepted
    BY <1>3, <1>4 DEF Mailing!Accepted, Mailing!LimitedRows, MailAssumption
  <2> QED BY <1>1, <2>1, <2>2, RateKeeps
<1> QED BY <1>5, <1>6, <1>7, <1>9, <1>10, <1>11, <1>12 DEF NInv

\* A stop cuts every delivery; each mail may be tried once more.
LEMMA CrashKeeps ==
  ASSUME MailAssumption, NInv, Mailing!Crash
  PROVE  NInv'
<1>1. /\ crashes < MaxCrashes /\ crashes' = crashes + 1 /\ failed' = failed \cup {"crash"}
      /\ found' = [r \in Run |-> {}] /\ delivery' = [d \in Mailing!Deliverer |-> Mailing!Idle]
      /\ caller' = [m \in Mail |-> IF caller[m] = "none" THEN "none" ELSE "ended"]
      /\ UNCHANGED <<row, recent, bounced, handed, tries, overlapped>>
  BY DEF Mailing!Crash
<1>2. NType /\ Mailing!Idle \in Task
  BY MailLimits DEF NInv, Mailing!Idle, Task, Mailing!Answers
<1>3. NType'
  <2>1. crashes' \in 0..MaxCrashes BY <1>1, <1>2 DEF NType, MailAssumption
  <2>2. caller' \in [Mail -> {"none", "allowed", "limited", "ended"}] BY <1>1
  <2> QED BY <1>1, <1>2, <2>1, <2>2 DEF NType, Mailing!Deliverer
<1>4. \A d \in Mailing!Deliverer : delivery'[d] = Mailing!Idle BY <1>1
<1>5. \A d \in Mailing!Deliverer : TaskFits(d)' BY <1>4 DEF TaskFits, Mailing!Idle
<1>6. ASSUME NEW n \in Mail PROVE RowFits(n)'
  <2>1. RowFits(n) /\ (caller'[n] # "ended" => caller[n] # "ended") BY <1>1 DEF NInv
  <2> QED BY <1>1, <2>1 DEF RowFits
<1>7. \A d \in Mailing!Deliverer, n \in Mail : ~AtWork(d, n)' BY <1>4 DEF AtWork, Mailing!Idle
<1>8. ASSUME "slow" \notin failed', NEW n \in Mail PROVE LoneMail(n)'
  <2>1. LoneMail(n) BY <1>1, <1>8 DEF NInv
  <2>2. crashes \in Nat /\ Len(Backoff) \in Nat /\ tries[n] \in Nat /\ row[n].attempts \in Nat
    BY <1>2, MailLimits DEF NType, MailAssumption, MailRow
  <2>3. tries[n] <= crashes' + 1 + Len(Backoff)
    BY <1>1, <2>1, <2>2 DEF LoneMail
  <2>4. row[n].status \in Mailing!Waiting => /\ tries[n] <= crashes' + row[n].attempts
                                      /\ tries[n] <= crashes' + 1 + row[n].attempts
    BY <1>1, <2>1, <2>2 DEF LoneMail
  <2> QED BY <1>1, <1>7, <2>1, <2>3, <2>4 DEF LoneMail
<1>9. Rate => Rate'
  <2>1. Mailing!Accepted' \subseteq Mailing!Accepted
    BY <1>1 DEF Mailing!Accepted, Mailing!LimitedRows
  <2>2. \A x \in Limited : caller'[x] # "allowed" BY <1>1 DEF MailAssumption
  <2> QED BY <1>1, <2>1, <2>2, RateKeeps
<1>10. failed' # {} /\ ("slow" \notin failed' => "slow" \notin failed) BY <1>1
<1> QED BY <1>3, <1>5, <1>6, <1>8, <1>9, <1>10 DEF NInv

\* What NInv says stays as long as the variables do.
LEMMA StillKeepsMail ==
  ASSUME NInv, UNCHANGED Mailing!vars
  PROVE  NInv'
<1>1. UNCHANGED <<row, recent, caller, found, delivery, bounced, handed, tries, crashes,
                  overlapped, failed>>
  BY Zenon DEF Mailing!vars, Mailing!history
<1>2. NType' /\ (\A d \in Mailing!Deliverer : TaskFits(d)') /\ \A m \in Mail : RowFits(m)'
  BY <1>1 DEF NInv, NType, TaskFits, RowFits
<1>3. \A m \in Mail : (LoneMail(m) => LoneMail(m)') /\ (HandedFits(m) => HandedFits(m)')
  BY <1>1 DEF LoneMail, HandedFits, AtWork, InHand
<1>4. Rate => Rate' BY <1>1 DEF Rate, Mailing!Accepted, Mailing!LimitedRows
<1> QED BY <1>1, <1>2, <1>3, <1>4 DEF NInv

\* Every step of the calls, the runs and the deliveries keeps NInv.
LEMMA NextKeepsMail ==
  ASSUME MailAssumption, NInv, [Mailing!Next]_Mailing!vars
  PROVE  NInv'
<1>1. CASE UNCHANGED Mailing!vars BY <1>1, StillKeepsMail
<1>2. ASSUME NEW m \in Mail, Mailing!LogFailed(m) PROVE NInv'
  <2>1. /\ caller[m] # "ended" /\ Mailing!Insert(m, Mailing!FALLIDO, FALSE)
        /\ UNCHANGED <<found, delivery, bounced, handed, tries, crashes, overlapped, failed>>
    BY <1>2, Zenon DEF Mailing!LogFailed, Mailing!history
  <2> QED BY <2>1, LogKeeps
<1>3. ASSUME NEW m \in Mail, Mailing!LogOmitted(m) PROVE NInv'
  <2>1. /\ caller[m] # "ended" /\ Mailing!Insert(m, Mailing!OMITIDO_POR_RATE_LIMIT, FALSE)
        /\ UNCHANGED <<found, delivery, bounced, handed, tries, crashes, overlapped, failed>>
    BY <1>3, Zenon DEF Mailing!LogOmitted, Mailing!history
  <2> QED BY <2>1, LogKeeps
<1>4. ASSUME NEW m \in Mail, Mailing!Count(m) \/ Mailing!Accept(m) PROVE NInv'
  BY <1>4, CountKeeps, AcceptKeeps
<1>5. ASSUME NEW r \in Run, Mailing!Find(r) \/ \E m \in Mail : Mailing!Claim(r, m) PROVE NInv'
  BY <1>5, FindKeeps, ClaimKeeps
<1>6. ASSUME NEW d \in Mailing!Deliverer, Mailing!Deliver(d) PROVE NInv'
  BY <1>6, HandleKeeps, RecordKeeps, BouncedKeeps DEF Mailing!Deliver
<1> QED BY <1>1, <1>2, <1>3, <1>4, <1>5, <1>6, TickKeeps, CrashKeeps DEF Mailing!Next

\* Cardinality of the instance is that of FiniteSets.
LEMMA SameMailCardinality == \A S : Mailing!Cardinality(S) = Cardinality(S)
BY Zenon DEF Mailing!Cardinality, Cardinality

\* What is promised of the mails follows from NInv.
LEMMA NInvGivesMails ==
  ASSUME MailAssumption, NInv
  PROVE  Mailing!TypeOK /\ Mailing!MailsGoOnce
<1>1. NType BY DEF NInv
<1>2. ASSUME NEW d \in Mailing!Deliverer PROVE Cardinality(delivery[d].mail) <= 1
  <2>1. TaskFits(d) BY DEF NInv
  <2>2. delivery[d].mail = {} \/ \E m \in Mail : delivery[d].mail = {m}
    BY <2>1 DEF TaskFits, Mailing!Idle
  <2>3. Cardinality({}) = 0 /\ \A m : Cardinality({m}) = 1 BY FS_EmptySet, FS_Singleton
  <2> QED BY <2>2, <2>3
<1>3. Mailing!TypeOK BY <1>1, <1>2, SameMailCardinality DEF Mailing!TypeOK, NType, MailRow, Task
<1>4. Mailing!MessagesAreErased BY DEF Mailing!MessagesAreErased, NInv, RowFits
<1>5. ASSUME "slow" \notin failed PROVE Mailing!TriesAreBounded /\ Mailing!WithinTheRate
  <2>1. ASSUME NEW m \in Mail PROVE tries[m] <= 1 + Len(Backoff) + crashes
    <3>1. tries[m] <= crashes + 1 + Len(Backoff) BY <1>5 DEF NInv, LoneMail
    <3>2. crashes \in Nat /\ Len(Backoff) \in Nat /\ tries[m] \in Nat
      BY <1>1, MailLimits DEF NType, MailAssumption
    <3> QED BY <3>1, <3>2
  <2>2. ~overlapped => Cardinality(Mailing!Accepted) <= MaxPerHour BY <1>5 DEF NInv, Rate
  <2> QED BY <2>1, <2>2, SameMailCardinality DEF Mailing!TriesAreBounded, Mailing!WithinTheRate
<1>6. ASSUME failed = {}, NEW m \in Mail
      PROVE  /\ handed[m] <= 1
             /\ row[m].status = Mailing!ENVIADO => handed[m] > 0
             /\ row[m].status \in {Mailing!FALLIDO, Mailing!REBOTADO, Mailing!OMITIDO_POR_RATE_LIMIT} =>
                  handed[m] = 0
  <2>1. LoneMail(m) /\ HandedFits(m) BY <1>6 DEF NInv
  <2>2. CASE InHand(m)
    <3>1. row[m].status \in Mailing!Waiting /\ handed[m] \in {0, 1}
      BY <2>1, <2>2 DEF LoneMail, HandedFits, InHand
    <3> QED BY <3>1, StatusesDiffer
  <2>3. CASE ~InHand(m)
    <3>1. handed[m] = IF row[m].status = Mailing!ENVIADO THEN 1 ELSE 0
      BY <2>1, <2>3 DEF HandedFits
    <3> QED BY <3>1, StatusesDiffer
  <2> QED BY <2>2, <2>3
<1>7. failed = {} => Mailing!NeverTwice /\ Mailing!RowsAreTruthful
  BY <1>6 DEF Mailing!NeverTwice, Mailing!RowsAreTruthful
<1> QED BY <1>3, <1>4, <1>5, <1>7 DEF Mailing!MailsGoOnce

\* In a behaviour of the mails NInv always holds.
LEMMA PartKeepsMail ==
  ASSUME MailAssumption
  PROVE  MCSpec => [](part = "mail" => NInv)
<1>1. MCInit => (part = "mail" => NInv)
  BY NInvInit DEF MCInit
<1>2. ASSUME part = "mail" => NInv, [MCNext]_all
      PROVE  (part = "mail" => NInv)'
  <2>1. CASE UNCHANGED all
    <3>1. UNCHANGED <<part, Mailing!vars>>
      BY <2>1, Zenon DEF all, mailsOnly, Mailing!vars, Mailing!history
    <3> QED BY <3>1, <1>2, NextKeepsMail
  <2>2. CASE MailNext
    <3>1. part = "mail" /\ Mailing!Next BY <2>2 DEF MailNext
    <3> QED BY <2>2, <3>1, <1>2, NextKeepsMail DEF MailNext
  <2>3. CASE AccountNext \/ TabNext \/ BookNext
    BY <2>3 DEF AccountNext, TabNext, BookNext
  <2> QED BY <1>2, <2>1, <2>2, <2>3 DEF MCNext
<1> QED BY <1>1, <1>2, PTL DEF MCSpec

\* However many calls, runs and deliveries interleave: a composed message stays
\* only in a row that waits; while no delivery outlives its lease a mail costs a
\* bounded number of tries and calls that follow one another keep within the rate;
\* and until something goes wrong no mail is handed over twice and each row says
\* what happened (notifications.service.ts, retryPending, deliver).
THEOREM MailsAlwaysGoOnce ==
  ASSUME MailAssumption
  PROVE  MCSpec => []MailsGoOnce
<1>1. (part = "mail" => NInv) => MailsGoOnce
  BY NInvGivesMails DEF MailsGoOnce
<1> QED BY <1>1, PartKeepsMail, PTL

-----------------------------------------------------------------------------
\* No token means no token.
TokensAssumption == None \notin Tokens \cup Shared

\* The calls of a tab, with tokens of S.
CallOf(S) ==
  [ManyTabs!Kinds -> [step : ManyTabs!Steps, token : S \cup {None}, scope : ManyTabs!Scopes]]

\* Every variable of the tabs keeps its type.
TabsType ==
  /\ row \in [Shared -> ManyTabs!Row] /\ cookie \in [{"home"} -> Shared \cup {None}]
  /\ call \in [Tabs -> CallOf(Shared)] /\ notice \in [Tabs -> ManyTabs!Scopes \cup {"none"}]
  /\ status \in [Tabs -> ManyTabs!AuthStatus] /\ access \in [Tabs -> {"none", "fresh", "stale"}]
  /\ \A t \in Tabs : status[t] = "authenticated" <=> access[t] # "none"

IsIssued(t, k) == call[t][k].step = "issued"
IsRotated(tok) == row[tok].state = "rotated"

\* A token on its way to the browser is known to one call, and not replaced.
OnItsWay(t, k) ==
  IsIssued(t, k) =>
    /\ call[t][k].token \in Shared \ {cookie["home"]} /\ ~IsRotated(call[t][k].token)
    /\ \A u \in Tabs, j \in ManyTabs!Kinds : call[u][j].token = call[t][k].token => u = t /\ j = k

\* While the cookie has a token that was replaced, another one is on its way.
Renewed ==
  cookie["home"] # None /\ IsRotated(cookie["home"]) =>
    \E t \in Tabs, k \in ManyTabs!Kinds : IsIssued(t, k)

TabsInv == TabsType /\ (\A t \in Tabs, k \in ManyTabs!Kinds : OnItsWay(t, k)) /\ Renewed

\* The browser of every tab.
LEMMA HomeOfTabs ==
  ASSUME NEW t \in Tabs
  PROVE  /\ ManyTabs!Cookie(t) = cookie["home"]
         /\ \A tok : ManyTabs!SetRefreshCookie(t, tok) = [cookie EXCEPT !["home"] = tok]
BY DEF ManyTabs!Cookie, ManyTabs!SetRefreshCookie

\* The call that is not out is a call.
LEMMA NoCallIsACall ==
  ASSUME NEW S
  PROVE  ManyTabs!NoCall \in [step : ManyTabs!Steps, token : S \cup {None}, scope : ManyTabs!Scopes]
BY DEF ManyTabs!NoCall, ManyTabs!Steps, ManyTabs!Scopes

\* At the start nobody is in, and no call is out.
LEMMA TabsInit ==
  ASSUME TokensAssumption, ManyTabs!Init
  PROVE  TabsInv
<1>1. /\ row \in [Shared -> ManyTabs!Row] /\ \A tok \in Shared : row[tok].state = "dead"
      /\ cookie = [b \in {"home"} |-> None]
      /\ status = [t \in Tabs |-> "idle"] /\ access = [t \in Tabs |-> "none"]
      /\ call = [t \in Tabs |-> [k \in ManyTabs!Kinds |-> ManyTabs!NoCall]]
      /\ notice = [t \in Tabs |-> "none"]
  BY DEF ManyTabs!Init
<1>2. TabsType BY <1>1, NoCallIsACall DEF TabsType, CallOf, ManyTabs!AuthStatus
<1>3. \A t \in Tabs, k \in ManyTabs!Kinds : ~IsIssued(t, k) BY <1>1 DEF IsIssued, ManyTabs!NoCall
<1>4. cookie["home"] = None BY <1>1
<1> QED BY <1>2, <1>3, <1>4 DEF TabsInv, OnItsWay, Renewed

\* A call that gets no token goes on, ends or begins; rows end that were not
\* replaced; a cookie is taken away.
LEMMA PlainKeepsTabs ==
  ASSUME TokensAssumption, TabsInv, TabsType',
         NEW t \in Tabs, NEW k \in ManyTabs!Kinds, ~IsIssued(t, k), ~IsIssued(t, k)',
         \A u \in Tabs, j \in ManyTabs!Kinds : <<u, j>> # <<t, k>> => call'[u][j] = call[u][j],
         call'[t][k].token \in {None, cookie["home"], call[t][k].token},
         \A tok \in Shared : IsRotated(tok)' = IsRotated(tok),
         cookie'["home"] \in {None, cookie["home"]}
  PROVE  TabsInv'
<1>1. \A u \in Tabs, j \in ManyTabs!Kinds : IsIssued(u, j)' = IsIssued(u, j)
  BY DEF IsIssued
<1>2. ASSUME NEW u \in Tabs, NEW j \in ManyTabs!Kinds PROVE OnItsWay(u, j)'
  <2>1. CASE IsIssued(u, j)'
    <3>1. OnItsWay(u, j) /\ IsIssued(u, j) /\ call'[u][j] = call[u][j] /\ (u # t \/ j # k)
      BY <1>1, <2>1 DEF TabsInv, IsIssued
    <3>2. call[u][j].token \in Shared \ {None, cookie["home"], call[t][k].token}
      BY <3>1 DEF OnItsWay, TokensAssumption
    <3>3. ASSUME NEW v \in Tabs, NEW i \in ManyTabs!Kinds, call'[v][i].token = call'[u][j].token
          PROVE  v = u /\ i = j
      <4>1. v # t \/ i # k BY <3>1, <3>2, <3>3
      <4> QED BY <3>1, <3>3, <4>1 DEF OnItsWay
    <3> QED BY <3>1, <3>2, <3>3 DEF OnItsWay
  <2> QED BY <2>1 DEF OnItsWay
<1>3. Renewed' BY <1>1 DEF TabsInv, TabsType, Renewed
<1> QED BY <1>2, <1>3 DEF TabsInv

\* The server issues a token nobody knows, and may replace the one it was shown.
LEMMA IssueKeepsTabs ==
  ASSUME TokensAssumption, TabsInv, TabsType',
         NEW t \in Tabs, NEW k \in ManyTabs!Kinds, ~IsIssued(t, k), NEW new \in ManyTabs!Unused,
         call' = ManyTabs!Goes(t, k, "issued", new), cookie' = cookie, row'[new].state = "live",
         \A tok \in Shared \ {new} : IsRotated(tok)' => IsRotated(tok) \/ tok = call[t][k].token
  PROVE  TabsInv'
<1>1. /\ new \in Shared /\ new # cookie["home"]
      /\ \A u \in Tabs, j \in ManyTabs!Kinds : call[u][j].token # new
  BY DEF ManyTabs!Unused
<1>2. /\ IsIssued(t, k)' /\ call'[t][k].token = new
      /\ \A u \in Tabs, j \in ManyTabs!Kinds : <<u, j>> # <<t, k>> => call'[u][j] = call[u][j]
  BY DEF TabsInv, TabsType, CallOf, ManyTabs!Goes, IsIssued
<1>3. OnItsWay(t, k)'
  <2>1. ~IsRotated(new)' BY DEF IsRotated
  <2> QED BY <1>1, <1>2, <2>1 DEF OnItsWay
<1>4. ASSUME NEW u \in Tabs, NEW j \in ManyTabs!Kinds, <<u, j>> # <<t, k>>, IsIssued(u, j)'
      PROVE  OnItsWay(u, j)'
  <2>1. OnItsWay(u, j) /\ IsIssued(u, j) /\ call'[u][j] = call[u][j]
    BY <1>2, <1>4 DEF TabsInv, IsIssued
  <2>2. call[u][j].token # call[t][k].token BY <1>4, <2>1 DEF OnItsWay
  <2>3. ~IsRotated(call[u][j].token)' BY <1>1, <2>1, <2>2 DEF OnItsWay
  <2> QED BY <1>1, <1>2, <2>1, <2>3 DEF OnItsWay
<1>5. \A u \in Tabs, j \in ManyTabs!Kinds : OnItsWay(u, j)' BY <1>3, <1>4 DEF OnItsWay
<1> QED BY <1>2, <1>5 DEF TabsInv, Renewed

\* The token arrives, and the browser keeps it.
LEMMA ArriveKeepsTabs ==
  ASSUME TokensAssumption, TabsInv, TabsType',
         NEW t \in Tabs, NEW k \in ManyTabs!Kinds, IsIssued(t, k), ~IsIssued(t, k)',
         \A u \in Tabs, j \in ManyTabs!Kinds : <<u, j>> # <<t, k>> => call'[u][j] = call[u][j],
         call'[t][k].token \in {None, call[t][k].token},
         cookie' = [cookie EXCEPT !["home"] = call[t][k].token], row' = row
  PROVE  TabsInv'
<1>1. cookie'["home"] = call[t][k].token /\ OnItsWay(t, k) BY DEF TabsInv, TabsType
<1>2. ASSUME NEW u \in Tabs, NEW j \in ManyTabs!Kinds, IsIssued(u, j)' PROVE OnItsWay(u, j)'
  <2>1. OnItsWay(u, j) /\ IsIssued(u, j) /\ call'[u][j] = call[u][j] /\ (u # t \/ j # k)
    BY <1>2 DEF TabsInv, IsIssued
  <2>2. call[u][j].token \in Shared \ {None, call[t][k].token}
    BY <2>1 DEF OnItsWay, TokensAssumption
  <2>3. ~IsRotated(call[u][j].token)' BY <2>1 DEF OnItsWay, IsRotated
  <2>4. ASSUME NEW v \in Tabs, NEW i \in ManyTabs!Kinds, call'[v][i].token = call'[u][j].token
        PROVE  v = u /\ i = j
    <3>1. v # t \/ i # k BY <2>1, <2>2, <2>4
    <3> QED BY <2>1, <2>4, <3>1 DEF OnItsWay
  <2> QED BY <1>1, <2>1, <2>2, <2>3, <2>4 DEF OnItsWay
<1>3. \A u \in Tabs, j \in ManyTabs!Kinds : OnItsWay(u, j)' BY <1>2 DEF OnItsWay
<1>4. ~IsRotated(cookie["home"])' BY <1>1 DEF OnItsWay, IsRotated
<1> QED BY <1>3, <1>4 DEF TabsInv, Renewed

\* What a call becomes, and the rest of the calls.
LEMMA GoesTo ==
  ASSUME TabsType, NEW t \in Tabs, NEW k \in ManyTabs!Kinds, NEW step \in ManyTabs!Steps,
         NEW tok \in Shared \cup {None}
  PROVE  LET next == ManyTabs!Goes(t, k, step, tok)
         IN /\ next \in [Tabs -> CallOf(Shared)] /\ next[t][k].step = step /\ next[t][k].token = tok
            /\ \A u \in Tabs, j \in ManyTabs!Kinds : <<u, j>> # <<t, k>> => next[u][j] = call[u][j]
<1> DEFINE c == [call[t][k] EXCEPT !.step = step, !.token = tok]
<1>1. /\ c \in [step : ManyTabs!Steps, token : Shared \cup {None}, scope : ManyTabs!Scopes]
      /\ c.step = step /\ c.token = tok
  <2>1. call[t][k] \in [step : ManyTabs!Steps, token : Shared \cup {None}, scope : ManyTabs!Scopes]
    BY DEF TabsType, CallOf
  <2> QED BY <2>1
<1>2. ManyTabs!Goes(t, k, step, tok) = [call EXCEPT ![t] = [call[t] EXCEPT ![k] = c]]
  BY DEF ManyTabs!Goes, TabsType, CallOf
<1> HIDE DEF c
<1> QED BY <1>1, <1>2 DEF TabsType, CallOf

\* A call ends, and the rest of the calls.
LEMMA EndsThere ==
  ASSUME TabsType, NEW t \in Tabs, NEW k \in ManyTabs!Kinds
  PROVE  LET next == ManyTabs!Ends(t, k)
         IN /\ next \in [Tabs -> CallOf(Shared)] /\ next[t][k] = ManyTabs!NoCall
            /\ \A u \in Tabs, j \in ManyTabs!Kinds : <<u, j>> # <<t, k>> => next[u][j] = call[u][j]
BY NoCallIsACall DEF TabsType, CallOf, ManyTabs!Ends

\* A session that ends was not replaced.
LEMMA ClosesLive ==
  ASSUME TabsType, NEW toks, \A tok \in toks : ManyTabs!Live(tok)
  PROVE  /\ ManyTabs!Close(toks) \in [Shared -> ManyTabs!Row]
         /\ \A tok \in Shared : (ManyTabs!Close(toks)[tok].state = "rotated") = IsRotated(tok)
<1>1. ASSUME NEW tok \in Shared, tok \in toks
      PROVE  ManyTabs!Close(toks)[tok] \in ManyTabs!Row /\ ManyTabs!Close(toks)[tok].state = "closed"
             /\ ~IsRotated(tok)
  BY <1>1 DEF TabsType, ManyTabs!Close, ManyTabs!Live, ManyTabs!Row, IsRotated
<1>2. ASSUME NEW tok \in Shared, tok \notin toks
      PROVE  ManyTabs!Close(toks)[tok] = row[tok] /\ row[tok] \in ManyTabs!Row
  BY <1>2 DEF TabsType, ManyTabs!Close
<1>3. ManyTabs!Close(toks) = [tok \in Shared |-> ManyTabs!Close(toks)[tok]] BY DEF ManyTabs!Close
<1>4. ManyTabs!Close(toks) \in [Shared -> ManyTabs!Row] BY <1>1, <1>2, <1>3
<1> QED BY <1>1, <1>2, <1>4 DEF IsRotated

\* What a tab shows of its session.
LEMMA StoresFit ==
  ASSUME TabsType, NEW t \in Tabs, ManyTabs!SetSession(t) \/ ManyTabs!Cleared(t)
  PROVE  /\ status' \in [Tabs -> ManyTabs!AuthStatus] /\ access' \in [Tabs -> {"none", "fresh", "stale"}]
         /\ \A u \in Tabs : status'[u] = "authenticated" <=> access'[u] # "none"
BY DEF TabsType, ManyTabs!SetSession, ManyTabs!Cleared, ManyTabs!AuthStatus

\* A page loads, a call is refused, or an access token runs out.
LEMMA LoadKeepsTabs ==
  ASSUME TokensAssumption, TabsInv, NEW t \in Tabs,
         \/ ManyTabs!Load(t) \/ ManyTabs!Unauthorized(t)
         \/ ManyTabs!Login(t) \/ ManyTabs!LogoutUnauthorized(t)
  PROVE  TabsInv'
<1>1. PICK k \in ManyTabs!Kinds, step \in {"asked"}, tok \in {None, cookie["home"]} :
        /\ ~IsIssued(t, k) /\ call' = ManyTabs!Goes(t, k, step, tok)
  BY HomeOfTabs DEF ManyTabs!Load, ManyTabs!Unauthorized, ManyTabs!Login,
     ManyTabs!LogoutUnauthorized, ManyTabs!Quiet, ManyTabs!Out, ManyTabs!Kinds, IsIssued
<1>2. UNCHANGED <<row, cookie>>
  BY DEF ManyTabs!Load, ManyTabs!Unauthorized, ManyTabs!Login, ManyTabs!LogoutUnauthorized,
     ManyTabs!history
<1>3. TabsType BY DEF TabsInv
<1>4. /\ call' \in [Tabs -> CallOf(Shared)] /\ call'[t][k].step = step /\ call'[t][k].token = tok
      /\ \A u \in Tabs, j \in ManyTabs!Kinds : <<u, j>> # <<t, k>> => call'[u][j] = call[u][j]
  <2>1. step \in ManyTabs!Steps /\ tok \in Shared \cup {None} BY <1>3 DEF TabsType, ManyTabs!Steps
  <2> QED BY <1>1, <1>3, <2>1, GoesTo
<1>5. TabsType'
  <2>1. /\ status' \in [Tabs -> ManyTabs!AuthStatus] /\ access' \in [Tabs -> {"none", "fresh", "stale"}]
        /\ \A u \in Tabs : status'[u] = "authenticated" <=> access'[u] # "none"
        /\ notice' \in [Tabs -> ManyTabs!Scopes \cup {"none"}]
    BY <1>3 DEF TabsType, ManyTabs!Load, ManyTabs!Unauthorized, ManyTabs!Login,
       ManyTabs!LogoutUnauthorized, ManyTabs!store, ManyTabs!history,
                ManyTabs!AuthStatus
  <2> QED BY <1>2, <1>3, <1>4, <2>1 DEF TabsType
<1>6. ~IsIssued(t, k)' BY <1>4 DEF IsIssued
<1>7. \A tok2 \in Shared : IsRotated(tok2)' = IsRotated(tok2) BY <1>2 DEF IsRotated
<1> QED BY <1>1, <1>2, <1>4, <1>5, <1>6, <1>7, PlainKeepsTabs

\* The server checks a token; a refresh is refused.
LEMMA CheckKeepsTabs ==
  ASSUME TokensAssumption, TabsInv, NEW t \in Tabs, NEW k \in ManyTabs!Kinds,
         ManyTabs!CheckRefresh(t, k) \/ ManyTabs!RefreshRefused(t, k)
  PROVE  TabsInv'
<1>1. TabsType /\ ~IsIssued(t, k) /\ UNCHANGED <<row, cookie, notice>>
  BY DEF TabsInv, ManyTabs!CheckRefresh, ManyTabs!RefreshRefused, IsIssued, ManyTabs!history
<1>2. /\ call' \in [Tabs -> CallOf(Shared)] /\ call'[t][k].step # "issued"
      /\ call'[t][k].token \in {None, call[t][k].token}
      /\ \A u \in Tabs, j \in ManyTabs!Kinds : <<u, j>> # <<t, k>> => call'[u][j] = call[u][j]
  <2>1. CASE ManyTabs!CheckRefresh(t, k)
    <3>1. PICK step \in {"checked", "refused"} : call' = ManyTabs!Goes(t, k, step, call[t][k].token)
      BY <2>1 DEF ManyTabs!CheckRefresh
    <3>2. step \in ManyTabs!Steps /\ call[t][k].token \in Shared \cup {None}
      BY <1>1 DEF TabsType, CallOf, ManyTabs!Steps
    <3> QED BY <1>1, <3>1, <3>2, GoesTo
  <2>2. CASE ManyTabs!RefreshRefused(t, k)
    <3>1. call' = ManyTabs!Ends(t, k) BY <2>2 DEF ManyTabs!RefreshRefused
    <3> QED BY <1>1, <3>1, EndsThere DEF ManyTabs!NoCall
  <2> QED BY <2>1, <2>2
<1>3. TabsType'
  <2>1. /\ status' \in [Tabs -> ManyTabs!AuthStatus] /\ access' \in [Tabs -> {"none", "fresh", "stale"}]
        /\ \A u \in Tabs : status'[u] = "authenticated" <=> access'[u] # "none"
    <3>1. CASE ManyTabs!CheckRefresh(t, k)
      BY <1>1, <3>1 DEF ManyTabs!CheckRefresh, ManyTabs!store, TabsType
    <3>2. CASE ManyTabs!RefreshRefused(t, k) BY <1>1, <3>2, StoresFit DEF ManyTabs!RefreshRefused
    <3> QED BY <3>1, <3>2
  <2> QED BY <1>1, <1>2, <2>1 DEF TabsType
<1>4. ~IsIssued(t, k)' BY <1>2 DEF IsIssued
<1>5. \A tok \in Shared : IsRotated(tok)' = IsRotated(tok) BY <1>1 DEF IsRotated
<1> QED BY <1>1, <1>2, <1>3, <1>4, <1>5, PlainKeepsTabs

\* A refresh gets a token in the place of another.
LEMMA RotateKeepsTabs ==
  ASSUME TokensAssumption, TabsInv, NEW t \in Tabs, NEW k \in ManyTabs!Kinds, ManyTabs!Rotate(t, k)
  PROVE  TabsInv'
<1> DEFINE old == call[t][k].token
           revoked == [row EXCEPT ![old].state = IF row[old].state = "live" THEN "rotated"
                                                 ELSE row[old].state]
<1>1. PICK new \in ManyTabs!Unused :
        /\ row' = ManyTabs!Issued(revoked, new, t) /\ call' = ManyTabs!Goes(t, k, "issued", new)
  BY DEF ManyTabs!Rotate
<1>2. UNCHANGED <<cookie, status, access, notice>> /\ ~IsIssued(t, k) /\ TabsType
  BY DEF TabsInv, ManyTabs!Rotate, ManyTabs!store, IsIssued
<1>3. new \in Shared BY DEF ManyTabs!Unused
<1>4. /\ revoked \in [Shared -> ManyTabs!Row]
      /\ \A tok \in Shared : revoked[tok].state = "rotated" => IsRotated(tok) \/ tok = old
  BY <1>2 DEF TabsType, ManyTabs!Row, IsRotated
<1> HIDE DEF revoked
<1>5. /\ row' \in [Shared -> ManyTabs!Row] /\ row'[new].state = "live"
      /\ \A tok \in Shared \ {new} : row'[tok] = revoked[tok]
  BY <1>1, <1>3, <1>4 DEF ManyTabs!Issued, ManyTabs!Row
<1>6. TabsType'
  <2>1. call' \in [Tabs -> CallOf(Shared)] BY <1>1, <1>2, <1>3, GoesTo DEF ManyTabs!Steps
  <2> QED BY <1>2, <1>5, <2>1 DEF TabsType
<1>7. \A tok \in Shared \ {new} : IsRotated(tok)' => IsRotated(tok) \/ tok = call[t][k].token
  BY <1>4, <1>5 DEF IsRotated
<1> QED BY <1>1, <1>2, <1>5, <1>6, <1>7, IssueKeepsTabs

\* A login gets a token.
LEMMA LoginKeepsTabs ==
  ASSUME TokensAssumption, TabsInv, NEW t \in Tabs, ManyTabs!LoginAccepted(t)
  PROVE  TabsInv'
<1>1. PICK new \in ManyTabs!Unused :
        /\ row' = ManyTabs!Issued(row, new, t)
        /\ call' = ManyTabs!Goes(t, "login", "issued", new)
  BY DEF ManyTabs!LoginAccepted
<1>2. UNCHANGED <<cookie, status, access, notice>> /\ ~IsIssued(t, "login") /\ TabsType
  BY DEF TabsInv, ManyTabs!LoginAccepted, ManyTabs!store, ManyTabs!history, IsIssued
<1>3. new \in Shared /\ "login" \in ManyTabs!Kinds BY DEF ManyTabs!Unused, ManyTabs!Kinds
<1>4. /\ row' \in [Shared -> ManyTabs!Row] /\ row'[new].state = "live"
      /\ \A tok \in Shared \ {new} : row'[tok] = row[tok]
  BY <1>1, <1>2, <1>3 DEF TabsType, ManyTabs!Issued, ManyTabs!Row
<1>5. TabsType'
  <2>1. call' \in [Tabs -> CallOf(Shared)] BY <1>1, <1>2, <1>3, GoesTo DEF ManyTabs!Steps
  <2> QED BY <1>2, <1>4, <2>1 DEF TabsType
<1>6. \A tok \in Shared \ {new} : IsRotated(tok)' => IsRotated(tok) BY <1>4 DEF IsRotated
<1> QED BY <1>1, <1>2, <1>3, <1>4, <1>5, <1>6, IssueKeepsTabs

\* The answer with the token reaches the browser.
LEMMA EndKeepsTabs ==
  ASSUME TokensAssumption, TabsInv, NEW t \in Tabs, NEW k \in ManyTabs!Kinds, NEW step \in {"posted"},
         IsIssued(t, k), ManyTabs!SetSession(t) \/ UNCHANGED <<status, access>>,
         cookie' = ManyTabs!SetRefreshCookie(t, call[t][k].token),
         call' = ManyTabs!Ends(t, k) \/ call' = ManyTabs!Goes(t, k, step, call[t][k].token),
         UNCHANGED <<row, notice>>
  PROVE  TabsInv'
<1>1. TabsType /\ call[t][k].token \in Shared BY DEF TabsInv, OnItsWay
<1>2. /\ call' \in [Tabs -> CallOf(Shared)] /\ call'[t][k].step # "issued"
      /\ call'[t][k].token \in {None, call[t][k].token}
      /\ \A u \in Tabs, j \in ManyTabs!Kinds : <<u, j>> # <<t, k>> => call'[u][j] = call[u][j]
  <2>1. step \in ManyTabs!Steps BY DEF ManyTabs!Steps
  <2>2. CASE call' = ManyTabs!Ends(t, k) BY <1>1, <2>2, EndsThere DEF ManyTabs!NoCall
  <2>3. CASE call' = ManyTabs!Goes(t, k, step, call[t][k].token) BY <1>1, <2>1, <2>3, GoesTo
  <2> QED BY <2>2, <2>3
<1>3. cookie' = [cookie EXCEPT !["home"] = call[t][k].token] BY HomeOfTabs
<1>4. TabsType'
  <2>1. /\ status' \in [Tabs -> ManyTabs!AuthStatus] /\ access' \in [Tabs -> {"none", "fresh", "stale"}]
        /\ \A u \in Tabs : status'[u] = "authenticated" <=> access'[u] # "none"
    BY <1>1, StoresFit DEF TabsType
  <2> QED BY <1>1, <1>2, <1>3, <2>1 DEF TabsType
<1>5. ~IsIssued(t, k)' BY <1>2 DEF IsIssued
<1> QED BY <1>2, <1>3, <1>4, <1>5, ArriveKeepsTabs

\* A logout begins, closes what it closes, and ends.
LEMMA LogoutKeepsTabs ==
  ASSUME TokensAssumption, TabsInv, NEW t \in Tabs,
         \/ (\E scope \in ManyTabs!Scopes : ManyTabs!Logout(t, scope))
         \/ ManyTabs!LogoutHandled(t) \/ ManyTabs!LogoutEnds(t)
  PROVE  TabsInv'
<1> DEFINE k == "logout"
<1>0. TabsType /\ k \in ManyTabs!Kinds BY DEF TabsInv, ManyTabs!Kinds
<1>1. CASE \E scope \in ManyTabs!Scopes : ManyTabs!Logout(t, scope)
  <2>1. PICK scope \in ManyTabs!Scopes, step \in {"posted", "postedStale"} :
          /\ k \notin ManyTabs!Out(t) /\ ManyTabs!Cleared(t) /\ UNCHANGED <<row, cookie, notice>>
          /\ call' = [call EXCEPT ![t][k] = [step |-> step, token |-> cookie["home"], scope |-> scope]]
    BY <1>1, HomeOfTabs DEF ManyTabs!Logout, ManyTabs!history
  <2>2. /\ call' \in [Tabs -> CallOf(Shared)] /\ call'[t][k].step = step
        /\ call'[t][k].token = cookie["home"]
        /\ \A u \in Tabs, j \in ManyTabs!Kinds : <<u, j>> # <<t, k>> => call'[u][j] = call[u][j]
    <3>1. step \in ManyTabs!Steps /\ cookie["home"] \in Shared \cup {None}
      BY <1>0 DEF ManyTabs!Steps, TabsType
    <3> QED BY <1>0, <2>1, <3>1 DEF TabsType, CallOf
  <2>3. TabsType' BY <1>0, <2>1, <2>2, StoresFit DEF TabsType
  <2>4. ~IsIssued(t, k) /\ ~IsIssued(t, k)' BY <1>0, <2>1, <2>2 DEF IsIssued, ManyTabs!Out
  <2>5. \A tok \in Shared : IsRotated(tok)' = IsRotated(tok) BY <2>1 DEF IsRotated
  <2> QED BY <1>0, <2>1, <2>2, <2>3, <2>4, <2>5, PlainKeepsTabs
<1>2. CASE ManyTabs!LogoutHandled(t)
  <2>1. /\ call[t][k].step = "posted" /\ row' = ManyTabs!Close(ManyTabs!ClosedBy(call[t][k]))
        /\ call' = ManyTabs!Goes(t, k, "closed", call[t][k].token)
        /\ UNCHANGED <<cookie, status, access, notice>>
    BY <1>2 DEF ManyTabs!LogoutHandled, ManyTabs!store, ManyTabs!history
  <2>2. \A tok \in ManyTabs!ClosedBy(call[t][k]) : ManyTabs!Live(tok) BY DEF ManyTabs!ClosedBy
  <2>3. row' \in [Shared -> ManyTabs!Row] /\ \A tok \in Shared : IsRotated(tok)' = IsRotated(tok)
    BY <1>0, <2>1, <2>2, ClosesLive DEF IsRotated
  <2>4. /\ call' \in [Tabs -> CallOf(Shared)] /\ call'[t][k].step = "closed"
        /\ call'[t][k].token = call[t][k].token
        /\ \A u \in Tabs, j \in ManyTabs!Kinds : <<u, j>> # <<t, k>> => call'[u][j] = call[u][j]
    <3>1. "closed" \in ManyTabs!Steps /\ call[t][k].token \in Shared \cup {None}
      BY <1>0 DEF TabsType, CallOf, ManyTabs!Steps
    <3> QED BY <1>0, <2>1, <3>1, GoesTo
  <2>5. TabsType' BY <1>0, <2>1, <2>3, <2>4 DEF TabsType
  <2>6. ~IsIssued(t, k) /\ ~IsIssued(t, k)' BY <2>1, <2>4 DEF IsIssued
  <2> QED BY <1>0, <2>1, <2>3, <2>4, <2>5, <2>6, PlainKeepsTabs
<1>3. CASE ManyTabs!LogoutEnds(t)
  <2>1. /\ call[t][k].step \in {"closed", "refused"} /\ call' = ManyTabs!Ends(t, k)
        /\ cookie' \in {[cookie EXCEPT !["home"] = None], cookie}
        /\ notice' = [notice EXCEPT ![t] = call[t][k].scope]
        /\ UNCHANGED <<row, status, access>>
    BY <1>3, HomeOfTabs DEF ManyTabs!LogoutEnds, ManyTabs!store
  <2>2. /\ call' \in [Tabs -> CallOf(Shared)] /\ call'[t][k] = ManyTabs!NoCall
        /\ \A u \in Tabs, j \in ManyTabs!Kinds : <<u, j>> # <<t, k>> => call'[u][j] = call[u][j]
    BY <1>0, <2>1, EndsThere
  <2>3. TabsType'
    <3>1. call[t][k].scope \in ManyTabs!Scopes BY <1>0 DEF TabsType, CallOf
    <3> QED BY <1>0, <2>1, <2>2, <3>1 DEF TabsType
  <2>4. ~IsIssued(t, k) /\ ~IsIssued(t, k)' /\ call'[t][k].token = None
    BY <2>1, <2>2 DEF IsIssued, ManyTabs!NoCall
  <2>5. cookie'["home"] \in {None, cookie["home"]} BY <1>0, <2>1 DEF TabsType
  <2>6. \A tok \in Shared : IsRotated(tok)' = IsRotated(tok) BY <2>1 DEF IsRotated
  <2> QED BY <1>0, <2>2, <2>3, <2>4, <2>5, <2>6, PlainKeepsTabs
<1> QED BY <1>1, <1>2, <1>3

\* Rows end elsewhere, access tokens run out, and nothing happens.
LEMMA ElsewhereKeepsTabs ==
  ASSUME TokensAssumption, TabsInv,
         \/ \E t \in Tabs : ManyTabs!AccessExpires(t)
         \/ ManyTabs!PasswordReset \/ \E tok \in Shared : ManyTabs!SessionExpires(tok)
         \/ UNCHANGED ManyTabs!vars
  PROVE  TabsInv'
<1>1. TabsType BY DEF TabsInv
<1>2. UNCHANGED <<cookie, call, notice>>
  BY Zenon DEF ManyTabs!AccessExpires, ManyTabs!PasswordReset, ManyTabs!SessionExpires,
     ManyTabs!history, ManyTabs!vars
<1>3. row' \in [Shared -> ManyTabs!Row] /\ \A tok \in Shared : IsRotated(tok)' = IsRotated(tok)
  <2>1. CASE ManyTabs!PasswordReset
    <3>1. \A tok \in {tok \in Shared : ManyTabs!Live(tok)} : ManyTabs!Live(tok) OBVIOUS
    <3> QED BY <1>1, <2>1, <3>1, ClosesLive DEF ManyTabs!PasswordReset, IsRotated
  <2>2. ASSUME NEW tok \in Shared, ManyTabs!SessionExpires(tok)
        PROVE  row' \in [Shared -> ManyTabs!Row] /\ \A x \in Shared : IsRotated(x)' = IsRotated(x)
    BY <1>1, <2>2 DEF TabsType, ManyTabs!SessionExpires, ManyTabs!Live, ManyTabs!Row, IsRotated
  <2>3. CASE row' = row BY <1>1, <2>3 DEF TabsType, IsRotated
  <2>4. (\E t \in Tabs : ManyTabs!AccessExpires(t)) \/ UNCHANGED ManyTabs!vars => row' = row
    BY Zenon DEF ManyTabs!AccessExpires, ManyTabs!vars
  <2> QED BY <2>1, <2>2, <2>3, <2>4
<1>4. TabsType'
  <2>1. /\ status' \in [Tabs -> ManyTabs!AuthStatus] /\ access' \in [Tabs -> {"none", "fresh", "stale"}]
        /\ \A u \in Tabs : status'[u] = "authenticated" <=> access'[u] # "none"
    <3>1. ASSUME NEW t \in Tabs, ManyTabs!AccessExpires(t)
          PROVE  /\ status' \in [Tabs -> ManyTabs!AuthStatus]
                 /\ access' \in [Tabs -> {"none", "fresh", "stale"}]
                 /\ \A u \in Tabs : status'[u] = "authenticated" <=> access'[u] # "none"
      BY <1>1, <3>1 DEF TabsType, ManyTabs!AccessExpires
    <3>2. CASE UNCHANGED <<status, access>> BY <1>1, <3>2 DEF TabsType
    <3>3. \/ ManyTabs!PasswordReset \/ (\E tok \in Shared : ManyTabs!SessionExpires(tok))
             \/ UNCHANGED ManyTabs!vars
          => UNCHANGED <<status, access>>
      BY Zenon DEF ManyTabs!PasswordReset, ManyTabs!SessionExpires, ManyTabs!store, ManyTabs!vars
    <3> QED BY <3>1, <3>2, <3>3
  <2> QED BY <1>1, <1>2, <1>3, <2>1 DEF TabsType
<1>5. \A t \in Tabs, k \in ManyTabs!Kinds : OnItsWay(t, k)'
  BY <1>2, <1>3 DEF TabsInv, OnItsWay, IsIssued
<1>6. Renewed' BY <1>1, <1>2, <1>3 DEF TabsInv, TabsType, Renewed, IsIssued
<1> QED BY <1>4, <1>5, <1>6 DEF TabsInv

\* Every step of the tabs keeps TabsInv.
LEMMA NextKeepsTabs ==
  ASSUME TokensAssumption, TabsInv, [ManyTabs!Next]_ManyTabs!vars
  PROVE  TabsInv'
<1>1. CASE \/ \E t \in Tabs : ManyTabs!AccessExpires(t)
           \/ ManyTabs!PasswordReset \/ \E tok \in Shared : ManyTabs!SessionExpires(tok)
           \/ UNCHANGED ManyTabs!vars
  BY <1>1, ElsewhereKeepsTabs
<1>2. ASSUME NEW t \in Tabs,
             \/ ManyTabs!Load(t) \/ ManyTabs!Unauthorized(t)
             \/ ManyTabs!Login(t) \/ ManyTabs!LogoutUnauthorized(t)
             \/ (\E scope \in ManyTabs!Scopes : ManyTabs!Logout(t, scope))
             \/ ManyTabs!LogoutHandled(t) \/ ManyTabs!LogoutEnds(t)
             \/ ManyTabs!LoginAccepted(t)
      PROVE  TabsInv'
  BY <1>2, LoadKeepsTabs, LogoutKeepsTabs, LoginKeepsTabs
<1>3. ASSUME NEW t \in Tabs, NEW k \in ManyTabs!Kinds,
             ManyTabs!CheckRefresh(t, k) \/ ManyTabs!RefreshRefused(t, k) \/ ManyTabs!Rotate(t, k)
      PROVE  TabsInv'
  BY <1>3, CheckKeepsTabs, RotateKeepsTabs
<1>4. ASSUME NEW t \in Tabs, NEW k \in ManyTabs!Kinds, ManyTabs!RefreshEnds(t, k) PROVE TabsInv'
  <2>1. /\ IsIssued(t, k) /\ ManyTabs!SetSession(t) /\ call' = ManyTabs!Ends(t, k) /\ UNCHANGED <<row, notice>>
        /\ cookie' = ManyTabs!SetRefreshCookie(t, call[t][k].token)
    BY <1>4 DEF ManyTabs!RefreshEnds, IsIssued, ManyTabs!history
  <2> QED BY <2>1, EndKeepsTabs
<1>5. ASSUME NEW t \in Tabs, ManyTabs!LoginEnds(t) \/ ManyTabs!LogoutRefreshed(t) PROVE TabsInv'
  <2>1. \E k \in ManyTabs!Kinds :
          /\ IsIssued(t, k)
          /\ ManyTabs!SetSession(t) \/ UNCHANGED <<status, access>>
          /\ cookie' = ManyTabs!SetRefreshCookie(t, call[t][k].token)
          /\ call' = ManyTabs!Ends(t, k) \/ call' = ManyTabs!Goes(t, k, "posted", call[t][k].token)
          /\ UNCHANGED <<row, notice>>
    <3>1. "login" \in ManyTabs!Kinds /\ "logout" \in ManyTabs!Kinds BY DEF ManyTabs!Kinds
    <3>2. CASE ManyTabs!LoginEnds(t)
      BY <3>1, <3>2 DEF ManyTabs!LoginEnds, IsIssued, ManyTabs!history
    <3>3. CASE ManyTabs!LogoutRefreshed(t)
      BY <3>1, <3>3 DEF ManyTabs!LogoutRefreshed, IsIssued, ManyTabs!store, ManyTabs!history
    <3> QED BY <1>5, <3>2, <3>3
  <2> QED BY <2>1, EndKeepsTabs
<1>6. \A t \in Tabs, k \in ManyTabs!Kinds : ~ManyTabs!LoseAnswer(t, k) BY DEF ManyTabs!LoseAnswer
<1> QED BY <1>1, <1>2, <1>3, <1>4, <1>5, <1>6 DEF ManyTabs!Next, ManyTabs!Answered

-----------------------------------------------------------------------------
Call == [step : OneTab!Steps, token : Tokens \cup {None}, scope : OneTab!Scopes]

\* Every variable of the tab keeps its type.
OneType ==
  /\ row \in [Tokens -> OneTab!Row] /\ cookie \in [{"home"} -> Tokens \cup {None}]
  /\ call \in [{1} -> [OneTab!Kinds -> Call]] /\ notice \in [{1} -> OneTab!Scopes \cup {"none"}]
  /\ status \in [{1} -> OneTab!AuthStatus] /\ access \in [{1} -> {"none", "fresh", "stale"}]
  /\ status[1] = "authenticated" <=> access[1] # "none"

LiveAt(x) == \A tok \in Tokens : row[tok].state = "live" => tok = x
NoLive == \A tok \in Tokens : row[tok].state # "live"
Replaced(tok) == tok # None /\ row[tok].state = "rotated"
Home == cookie["home"]
StepOf(k) == call[1][k].step
TokenOf(k) == call[1][k].token

\* What a call carries: the cookie's token, which is the only one that may live;
\* or the one that was issued for it; and a login finds no session.
OwnFits(k) ==
  /\ k = "login" => StepOf(k) \in {"none", "asked", "issued"}
  /\ k \in {"bootstrap", "interceptor"} =>
       StepOf(k) \in {"none", "asked", "checked", "issued", "refused"}
  /\ k # "interceptor" /\ StepOf(k) # "none" => access[1] = "none"
  /\ k # "login" /\ StepOf(k) \in {"asked", "checked", "posted", "postedStale", "refused"} =>
       TokenOf(k) = Home /\ LiveAt(Home) /\ ~Replaced(Home)
  /\ k = "login" /\ StepOf(k) = "asked" => NoLive
  /\ StepOf(k) = "issued" => TokenOf(k) \in Tokens /\ LiveAt(TokenOf(k)) /\ ~Replaced(TokenOf(k))
  /\ StepOf(k) \in {"refused", "closed"} => NoLive

\* A patient user has one call out at a time.
OneCall == \A j, k \in OneTab!Kinds : StepOf(j) # "none" /\ StepOf(k) # "none" => j = k
Loads == StepOf("bootstrap") # "none" <=> status[1] = "loading"

\* Between calls no session lives but that of the cookie, and none when nobody is in.
Rested ==
  (\A k \in OneTab!Kinds : StepOf(k) = "none") =>
    LiveAt(Home) /\ ~Replaced(Home) /\ (status[1] = "unauthenticated" => NoLive)

\* A logout that is shown ended the session, and nothing brings it back.
ToldTrue ==
  notice[1] # "none" =>
    /\ NoLive /\ status[1] # "authenticated" /\ StepOf("login") = "none"
    /\ \A k \in OneTab!Kinds : StepOf(k) \notin {"checked", "issued"}

OneInv ==
  /\ OneType /\ OneCall /\ Loads /\ (\A k \in OneTab!Kinds : OwnFits(k)) /\ Rested /\ ToldTrue
  /\ wronged = FALSE

\* The browser of the tab, and what it says of the tab.
LEMMA HomeOfTab ==
  /\ OneTab!Cookie(1) = Home
  /\ \A tok : OneTab!SetRefreshCookie(1, tok) = [cookie EXCEPT !["home"] = tok]
BY DEF OneTab!Cookie, OneTab!SetRefreshCookie, Home

\* The call that is not out is a call of the tab.
LEMMA NoCallIsOne ==
  OneTab!NoCall \in Call /\ OneTab!NoCall.step = "none" /\ OneTab!NoCall.token = None
BY DEF OneTab!NoCall, OneTab!Steps, OneTab!Scopes, Call

\* At the start the tab has no session, and no call is out.
LEMMA OneInit ==
  ASSUME TokensAssumption, OneTab!Init
  PROVE  OneInv
<1>1. /\ row \in [Tokens -> OneTab!Row] /\ \A tok \in Tokens : row[tok].state = "dead"
      /\ cookie = [b \in {"home"} |-> None]
      /\ status = [t \in {1} |-> "idle"] /\ access = [t \in {1} |-> "none"]
      /\ call = [t \in {1} |-> [k \in OneTab!Kinds |-> OneTab!NoCall]]
      /\ notice = [t \in {1} |-> "none"] /\ wronged = FALSE
  BY DEF OneTab!Init
<1>2. OneType BY <1>1, NoCallIsOne DEF OneType, OneTab!AuthStatus
<1>3. \A k \in OneTab!Kinds : StepOf(k) = "none" BY <1>1, NoCallIsOne DEF StepOf
<1>4. NoLive /\ Home = None /\ status[1] = "idle" /\ notice[1] = "none"
  BY <1>1 DEF NoLive, Home
<1>5. "bootstrap" \in OneTab!Kinds BY DEF OneTab!Kinds
<1>6. \A k \in OneTab!Kinds : OwnFits(k) BY <1>3 DEF OwnFits
<1>7. OneCall /\ Loads BY <1>3, <1>4, <1>5 DEF OneCall, Loads
<1>8. Rested /\ ToldTrue BY <1>4 DEF Rested, ToldTrue, NoLive, LiveAt, Replaced
<1> QED BY <1>1, <1>2, <1>6, <1>7, <1>8 DEF OneInv

\* The call that is out goes on as it may.
LEMMA GoesOn ==
  ASSUME OneType', NEW k \in OneTab!Kinds, StepOf(k)' # "none",
         \A j \in OneTab!Kinds \ {k} : StepOf(j)' = "none",
         k = "bootstrap" <=> (status'[1] = "loading"),
         OwnFits(k)', ToldTrue', wronged' = FALSE
  PROVE  OneInv'
<1>1. OneCall' /\ Loads' /\ Rested'
  BY DEF OneCall, Loads, Rested, OneTab!Kinds
<1>2. \A j \in OneTab!Kinds : OwnFits(j)' BY DEF OwnFits
<1> QED BY <1>1, <1>2 DEF OneInv

\* The call that was out has ended.
LEMMA AllEnd ==
  ASSUME OneType', \A j \in OneTab!Kinds : StepOf(j)' = "none", status'[1] # "loading",
         LiveAt(Home)', ~Replaced(Home)', status'[1] = "unauthenticated" => NoLive',
         ToldTrue', wronged' = FALSE
  PROVE  OneInv'
<1>1. "bootstrap" \in OneTab!Kinds BY DEF OneTab!Kinds
<1>2. OneCall' /\ Loads' /\ Rested' BY <1>1 DEF OneCall, Loads, Rested
<1>3. \A j \in OneTab!Kinds : OwnFits(j)' BY DEF OwnFits
<1> QED BY <1>2, <1>3 DEF OneInv

\* What a call becomes, and the rest of the calls.
LEMMA OneGoesTo ==
  ASSUME OneType, NEW k \in OneTab!Kinds, NEW step \in OneTab!Steps, NEW tok \in Tokens \cup {None}
  PROVE  LET next == OneTab!Goes(1, k, step, tok)
         IN /\ next \in [{1} -> [OneTab!Kinds -> Call]]
            /\ next[1][k].step = step /\ next[1][k].token = tok
            /\ \A j \in OneTab!Kinds \ {k} : next[1][j] = call[1][j]
<1> DEFINE c == [call[1][k] EXCEPT !.step = step, !.token = tok]
<1>1. c \in Call /\ c.step = step /\ c.token = tok
  <2>1. call[1][k] \in Call BY DEF OneType
  <2> QED BY <2>1 DEF Call
<1>2. OneTab!Goes(1, k, step, tok) = [call EXCEPT ![1] = [call[1] EXCEPT ![k] = c]]
  BY DEF OneTab!Goes, OneType
<1> HIDE DEF c
<1> QED BY <1>1, <1>2 DEF OneType

\* The call goes on and the others rest.
LEMMA Moves ==
  ASSUME OneType, NEW k \in OneTab!Kinds, NEW step \in OneTab!Steps, NEW tok \in Tokens \cup {None},
         \A j \in OneTab!Kinds \ {k} : StepOf(j) = "none", call' = OneTab!Goes(1, k, step, tok)
  PROVE  /\ call' \in [{1} -> [OneTab!Kinds -> Call]] /\ StepOf(k)' = step /\ TokenOf(k)' = tok
         /\ \A j \in OneTab!Kinds \ {k} : StepOf(j)' = "none"
BY OneGoesTo DEF StepOf, TokenOf

\* A call ends, and the rest of the calls.
LEMMA OneEnds ==
  ASSUME OneType, NEW k \in OneTab!Kinds
  PROVE  LET next == OneTab!Ends(1, k)
         IN /\ next \in [{1} -> [OneTab!Kinds -> Call]] /\ next[1][k] = OneTab!NoCall
            /\ \A j \in OneTab!Kinds \ {k} : next[1][j] = call[1][j]
BY NoCallIsOne DEF OneType, OneTab!Ends

\* What the tab shows of its session.
LEMMA OneStore ==
  ASSUME OneType, OneTab!SetSession(1) \/ OneTab!Cleared(1)
  PROVE  /\ status' \in [{1} -> OneTab!AuthStatus] /\ access' \in [{1} -> {"none", "fresh", "stale"}]
         /\ status'[1] = "authenticated" <=> access'[1] # "none"
         /\ OneTab!SetSession(1) => status'[1] = "authenticated"
         /\ OneTab!Cleared(1) => status'[1] = "unauthenticated" /\ access'[1] = "none"
BY DEF OneType, OneTab!SetSession, OneTab!Cleared, OneTab!AuthStatus

\* The rest of the calls while one is out.
LEMMA OthersRest ==
  ASSUME OneInv, NEW k \in OneTab!Kinds, StepOf(k) # "none"
  PROVE  /\ \A j \in OneTab!Kinds \ {k} : StepOf(j) = "none"
         /\ k = "bootstrap" <=> status[1] = "loading"
BY DEF OneInv, OneCall, Loads, OneTab!Kinds

\* A page loads, a call with an old access token is refused, somebody logs in.
LEMMA BeginKeeps ==
  ASSUME TokensAssumption, OneInv, OneTab!Load(1) \/ OneTab!Unauthorized(1) \/ OneTab!Login(1)
  PROVE  OneInv'
<1>0. /\ OneType /\ (\A k \in OneTab!Kinds : OwnFits(k)) /\ Loads /\ Rested /\ ToldTrue
      /\ "bootstrap" \in OneTab!Kinds /\ "interceptor" \in OneTab!Kinds /\ "login" \in OneTab!Kinds
      /\ "asked" \in OneTab!Steps /\ None \in Tokens \cup {None} /\ Home \in Tokens \cup {None}
  BY DEF OneInv, OneTab!Kinds, OneTab!Steps, OneType, Home
<1>1. \A k \in OneTab!Kinds : StepOf(k) = "none"
  <2>1. CASE OneTab!Load(1) \/ OneTab!Login(1)
    BY <2>1 DEF OneTab!Load, OneTab!Login, OneTab!Quiet, OneTab!Out, StepOf
  <2>2. CASE OneTab!Unauthorized(1)
    <3>1. access[1] = "stale" /\ StepOf("interceptor") = "none"
      BY <1>0, <2>2 DEF OneTab!Unauthorized, OneTab!Out, StepOf
    <3> QED BY <1>0, <3>1 DEF OwnFits
  <2> QED BY <2>1, <2>2
<1>2. LiveAt(Home) /\ ~Replaced(Home) /\ (status[1] = "unauthenticated" => NoLive)
  BY <1>0, <1>1 DEF Rested
<1>3. status[1] # "loading" BY <1>0, <1>1 DEF Loads
<1>4. UNCHANGED <<row, cookie, wronged>>
  BY DEF OneTab!Load, OneTab!Unauthorized, OneTab!Login, OneTab!history
<1>5. UNCHANGED <<LiveAt(Home), Replaced(Home), NoLive, Home>>
  BY <1>4 DEF LiveAt, Replaced, NoLive, Home
<1>6. CASE OneTab!Load(1)
  <2>1. /\ call' = OneTab!Goes(1, "bootstrap", "asked", Home) /\ notice' = notice
        /\ status' = [status EXCEPT ![1] = "loading"] /\ access' = [access EXCEPT ![1] = "none"]
    BY <1>6, HomeOfTab DEF OneTab!Load, OneTab!history
  <2>2. /\ call' \in [{1} -> [OneTab!Kinds -> Call]]
        /\ StepOf("bootstrap")' = "asked" /\ TokenOf("bootstrap")' = Home
        /\ \A j \in OneTab!Kinds \ {"bootstrap"} : StepOf(j)' = "none"
    BY <1>0, <1>1, <2>1, Moves
  <2>3. OneType' /\ status'[1] = "loading" /\ access'[1] = "none"
    BY <1>0, <1>4, <2>1, <2>2 DEF OneType, OneTab!AuthStatus
  <2>4. OwnFits("bootstrap")' BY <1>2, <1>5, <2>2, <2>3 DEF OwnFits
  <2>5. ToldTrue' BY <1>0, <1>5, <2>1, <2>2, <2>3 DEF ToldTrue
  <2> QED BY <1>0, <1>4, <2>2, <2>3, <2>4, <2>5, GoesOn DEF OneInv
<1>7. CASE OneTab!Unauthorized(1)
  <2>1. /\ call' = OneTab!Goes(1, "interceptor", "asked", Home)
        /\ UNCHANGED <<notice, status, access>>
    BY <1>7, HomeOfTab DEF OneTab!Unauthorized, OneTab!history, OneTab!store
  <2>2. /\ call' \in [{1} -> [OneTab!Kinds -> Call]]
        /\ StepOf("interceptor")' = "asked" /\ TokenOf("interceptor")' = Home
        /\ \A j \in OneTab!Kinds \ {"interceptor"} : StepOf(j)' = "none"
    BY <1>0, <1>1, <2>1, Moves
  <2>3. OneType' BY <1>0, <1>4, <2>1, <2>2 DEF OneType
  <2>4. OwnFits("interceptor")' BY <1>2, <1>5, <2>2, <2>3 DEF OwnFits
  <2>5. ToldTrue' BY <1>0, <1>5, <2>1, <2>2, <2>3 DEF ToldTrue
  <2> QED BY <1>0, <1>3, <1>4, <2>1, <2>2, <2>3, <2>4, <2>5, GoesOn DEF OneInv
<1>8. CASE OneTab!Login(1)
  <2>1. /\ call' = OneTab!Goes(1, "login", "asked", None) /\ status[1] \notin {"idle", "authenticated"}
        /\ notice' = [notice EXCEPT ![1] = "none"] /\ UNCHANGED <<status, access>>
    BY <1>8 DEF OneTab!Login, OneTab!store
  <2>2. /\ call' \in [{1} -> [OneTab!Kinds -> Call]] /\ StepOf("login")' = "asked"
        /\ \A j \in OneTab!Kinds \ {"login"} : StepOf(j)' = "none"
    BY <1>0, <1>1, <2>1, Moves
  <2>3. OneType' /\ notice'[1] = "none" BY <1>0, <1>4, <2>1, <2>2 DEF OneType
  <2>4. status[1] = "unauthenticated" /\ access[1] = "none"
    BY <1>0, <1>3, <2>1 DEF OneType, OneTab!AuthStatus
  <2>5. OwnFits("login")' BY <1>2, <1>5, <2>1, <2>2, <2>4 DEF OwnFits
  <2>6. ToldTrue' BY <2>3 DEF ToldTrue
  <2> QED BY <1>0, <1>3, <1>4, <2>1, <2>2, <2>3, <2>5, <2>6, GoesOn DEF OneInv
<1> QED BY <1>6, <1>7, <1>8

\* The server checks the token; the refresh of a logout begins.
LEMMA CheckKeepsOne ==
  ASSUME TokensAssumption, OneInv, NEW k \in OneTab!Kinds,
         OneTab!CheckRefresh(1, k) \/ (k = "logout" /\ OneTab!LogoutUnauthorized(1))
  PROVE  OneInv'
<1>0. OneType /\ OwnFits(k) /\ ToldTrue BY DEF OneInv
<1>1. /\ k # "login" /\ StepOf(k) \in {"asked", "postedStale"}
      /\ UNCHANGED <<row, cookie, status, access, notice, wronged>>
  BY DEF OneTab!CheckRefresh, OneTab!LogoutUnauthorized, OneTab!store, OneTab!history, StepOf
<1>2. TokenOf(k) = Home /\ LiveAt(Home) /\ ~Replaced(Home) /\ Home \in Tokens \cup {None}
  BY <1>0, <1>1 DEF OwnFits, OneType, Home
<1>3. \E step \in {"asked", "checked", "refused"} :
        /\ call' = OneTab!Goes(1, k, step, Home)
        /\ step = "checked" => ~NoLive
        /\ step = "refused" => NoLive
        /\ step = "asked" => k = "logout"
  <2>1. CASE OneTab!CheckRefresh(1, k)
    <3>1. PICK step : /\ call' = OneTab!Goes(1, k, step, Home)
                      /\ step = IF OneTab!Accepted(Home) THEN "checked" ELSE "refused"
      BY <1>2, <2>1 DEF OneTab!CheckRefresh, TokenOf
    <3>2. IF OneTab!Accepted(Home) THEN ~NoLive ELSE NoLive
      BY <1>2 DEF OneTab!Accepted, OneTab!Live, NoLive, LiveAt, TokensAssumption
    <3> QED BY <3>1, <3>2
  <2>2. CASE k = "logout" /\ OneTab!LogoutUnauthorized(1)
    BY <2>2, HomeOfTab DEF OneTab!LogoutUnauthorized
  <2> QED BY <2>1, <2>2
<1>4. PICK step \in {"asked", "checked", "refused"} :
        /\ call' = OneTab!Goes(1, k, step, Home)
        /\ step = "checked" => ~NoLive
        /\ step = "refused" => NoLive
        /\ step = "asked" => k = "logout"
  BY <1>3
<1>5. /\ \A j \in OneTab!Kinds \ {k} : StepOf(j) = "none"
      /\ k = "bootstrap" <=> status[1] = "loading"
  BY <1>1, OthersRest
<1>6. /\ call' \in [{1} -> [OneTab!Kinds -> Call]] /\ StepOf(k)' = step /\ TokenOf(k)' = Home
      /\ \A j \in OneTab!Kinds \ {k} : StepOf(j)' = "none"
  <2>1. step \in OneTab!Steps BY DEF OneTab!Steps
  <2> QED BY <1>0, <1>2, <1>4, <1>5, <2>1, OneGoesTo DEF StepOf, TokenOf
<1>7. OneType' BY <1>0, <1>1, <1>6 DEF OneType
<1>8. UNCHANGED <<LiveAt(Home), Replaced(Home), NoLive, Home>>
  BY <1>1 DEF LiveAt, Replaced, NoLive, Home
<1>9. OwnFits(k)' BY <1>0, <1>1, <1>2, <1>4, <1>6, <1>8 DEF OwnFits
<1>10. ToldTrue'
  <2>1. step \notin {"checked", "issued"} \/ ~NoLive BY <1>4
  <2>2. "login" \in OneTab!Kinds BY DEF OneTab!Kinds
  <2>3. CASE notice[1] = "none" BY <1>1, <2>3 DEF ToldTrue
  <2>4. CASE notice[1] # "none"
    <3>1. NoLive /\ status[1] # "authenticated" BY <1>0, <2>4 DEF ToldTrue
    <3>2. step \notin {"checked", "issued"} BY <2>1, <3>1
    <3>3. \A j \in OneTab!Kinds : StepOf(j)' \notin {"checked", "issued"} BY <1>6, <3>2
    <3>4. StepOf("login")' = "none" BY <1>1, <1>6, <2>2
    <3> QED BY <1>1, <1>8, <3>1, <3>3, <3>4 DEF ToldTrue
  <2> QED BY <2>3, <2>4
<1>11. wronged' = FALSE BY <1>1 DEF OneInv
<1> QED BY <1>1, <1>5, <1>6, <1>7, <1>9, <1>10, <1>11, GoesOn

\* A token is issued: it is the only one that lives.
LEMMA IssueKeepsOne ==
  ASSUME TokensAssumption, OneInv, NEW k \in OneTab!Kinds,
         OneTab!Rotate(1, k) \/ (k = "login" /\ OneTab!LoginAccepted(1))
  PROVE  OneInv'
<1>0. OneType /\ OwnFits(k) /\ ToldTrue BY DEF OneInv
<1>1. /\ StepOf(k) = "checked" \/ (k = "login" /\ StepOf(k) = "asked")
      /\ UNCHANGED <<cookie, status, access, notice, wronged>>
  BY DEF OneTab!Rotate, OneTab!LoginAccepted, OneTab!store, OneTab!history, StepOf
<1>2. \E new \in OneTab!Unused :
        /\ call' = OneTab!Goes(1, k, "issued", new) /\ row' \in [Tokens -> OneTab!Row]
        /\ row'[new].state = "live"
        /\ \A tok \in Tokens \ {new} : row'[tok].state # "live"
  <2>1. CASE OneTab!Rotate(1, k)
    <3> DEFINE old == call[1][k].token
               revoked == [row EXCEPT ![old].state = IF row[old].state = "live" THEN "rotated"
                                                     ELSE row[old].state]
    <3>1. PICK new \in OneTab!Unused :
            /\ row' = OneTab!Issued(revoked, new, 1) /\ call' = OneTab!Goes(1, k, "issued", new)
      BY <2>1 DEF OneTab!Rotate
    <3>2. new \in Tokens BY DEF OneTab!Unused
    <3>3. LiveAt(old)
      <4>1. StepOf(k) = "checked" BY <2>1 DEF OneTab!Rotate, StepOf
      <4>2. k # "login" BY <1>0, <4>1 DEF OwnFits
      <4> QED BY <1>0, <4>1, <4>2 DEF OwnFits, TokenOf
    <3>4. revoked \in [Tokens -> OneTab!Row] /\ \A tok \in Tokens : revoked[tok].state # "live"
      BY <1>0, <3>3 DEF OneType, OneTab!Row, LiveAt
    <3> HIDE DEF revoked
    <3> QED BY <3>1, <3>2, <3>4 DEF OneTab!Issued, OneTab!Row
  <2>2. CASE k = "login" /\ OneTab!LoginAccepted(1)
    <3>1. PICK new \in OneTab!Unused :
            /\ row' = OneTab!Issued(row, new, 1)
            /\ call' = OneTab!Goes(1, k, "issued", new)
      BY <2>2 DEF OneTab!LoginAccepted
    <3>2. new \in Tokens BY DEF OneTab!Unused
    <3>3. NoLive BY <1>0, <2>2 DEF OwnFits, OneTab!LoginAccepted, StepOf
    <3> QED BY <1>0, <3>1, <3>2, <3>3 DEF OneType, OneTab!Issued, OneTab!Row, NoLive
  <2> QED BY <2>1, <2>2
<1>3. PICK new \in OneTab!Unused :
        /\ call' = OneTab!Goes(1, k, "issued", new) /\ row' \in [Tokens -> OneTab!Row]
        /\ row'[new].state = "live"
        /\ \A tok \in Tokens \ {new} : row'[tok].state # "live"
  BY <1>2
<1>4. new \in Tokens BY DEF OneTab!Unused
<1>5. /\ \A j \in OneTab!Kinds \ {k} : StepOf(j) = "none"
      /\ k = "bootstrap" <=> status[1] = "loading"
  BY <1>1, OthersRest
<1>6. /\ call' \in [{1} -> [OneTab!Kinds -> Call]] /\ StepOf(k)' = "issued" /\ TokenOf(k)' = new
      /\ \A j \in OneTab!Kinds \ {k} : StepOf(j)' = "none"
  <2>1. "issued" \in OneTab!Steps BY DEF OneTab!Steps
  <2> QED BY <1>0, <1>3, <1>4, <1>5, <2>1, OneGoesTo DEF StepOf, TokenOf
<1>7. OneType' BY <1>0, <1>1, <1>3, <1>6 DEF OneType
<1>8. LiveAt(new)' /\ ~Replaced(new)' BY <1>3, <1>4 DEF LiveAt, Replaced
<1>9. OwnFits(k)' BY <1>0, <1>1, <1>4, <1>6, <1>8 DEF OwnFits
<1>10. ToldTrue'
  <2>1. notice[1] = "none" BY <1>0, <1>1 DEF ToldTrue
  <2> QED BY <1>1, <2>1 DEF ToldTrue
<1>11. wronged' = FALSE BY <1>1 DEF OneInv
<1> QED BY <1>1, <1>5, <1>6, <1>7, <1>9, <1>10, <1>11, GoesOn

\* The answer reaches the browser: a refresh or a login ends, with a token or not.
LEMMA AnswerKeepsOne ==
  ASSUME TokensAssumption, OneInv, NEW k \in OneTab!Kinds,
         \/ OneTab!RefreshEnds(1, k) \/ OneTab!RefreshRefused(1, k)
         \/ (k = "login" /\ OneTab!LoginEnds(1))
  PROVE  OneInv'
<1>0. OneType /\ OwnFits(k) /\ ToldTrue /\ wronged = FALSE BY DEF OneInv
<1>1. /\ StepOf(k) # "none" /\ call' = OneTab!Ends(1, k) /\ UNCHANGED <<row, notice>>
  BY DEF OneTab!RefreshEnds, OneTab!RefreshRefused, OneTab!LoginEnds, OneTab!history, StepOf
<1>2. call' \in [{1} -> [OneTab!Kinds -> Call]] /\ \A j \in OneTab!Kinds : StepOf(j)' = "none"
  BY <1>0, <1>1, OneEnds, OthersRest, NoCallIsOne DEF StepOf
<1>3. CASE OneTab!RefreshEnds(1, k) \/ (k = "login" /\ OneTab!LoginEnds(1))
  <2>1. /\ StepOf(k) = "issued" /\ cookie' = [cookie EXCEPT !["home"] = TokenOf(k)]
        /\ OneTab!SetSession(1) /\ wronged' = wronged
    BY <1>3, HomeOfTab DEF OneTab!RefreshEnds, OneTab!LoginEnds, OneTab!history, StepOf, TokenOf
  <2>2. TokenOf(k) \in Tokens /\ LiveAt(TokenOf(k)) /\ ~Replaced(TokenOf(k))
    BY <1>0, <2>1 DEF OwnFits
  <2>3. Home' = TokenOf(k) BY <1>0, <2>1 DEF OneType, Home
  <2>4. LiveAt(Home)' /\ ~Replaced(Home)' BY <1>1, <2>2, <2>3 DEF LiveAt, Replaced
  <2>5. OneType' /\ status'[1] = "authenticated"
    BY <1>0, <1>1, <1>2, <2>1, <2>2, OneStore DEF OneType
  <2>6. ToldTrue'
    <3>1. notice[1] = "none" BY <1>0, <2>1 DEF ToldTrue
    <3> QED BY <1>1, <3>1 DEF ToldTrue
  <2> QED BY <1>0, <1>2, <2>1, <2>4, <2>5, <2>6, AllEnd
<1>4. CASE OneTab!RefreshRefused(1, k)
  <2>1. /\ StepOf(k) = "refused" /\ k # "login" /\ cookie' = cookie /\ OneTab!Cleared(1)
        /\ wronged' = (\/ wronged \/ OneTab!Live(Home)
                       \/ TokenOf(k) # None /\ row[TokenOf(k)].state = "rotated")
    BY <1>4, HomeOfTab DEF OneTab!RefreshRefused, StepOf, TokenOf
  <2>2. TokenOf(k) = Home /\ LiveAt(Home) /\ ~Replaced(Home) /\ NoLive
    BY <1>0, <2>1 DEF OwnFits
  <2>3. wronged' = FALSE
    <3>1. Home \in Tokens \cup {None} BY <1>0 DEF OneType, Home
    <3> QED BY <1>0, <2>1, <2>2, <3>1 DEF OneTab!Live, NoLive, Replaced
  <2>4. LiveAt(Home)' /\ ~Replaced(Home)' /\ NoLive'
    BY <1>1, <2>1, <2>2 DEF LiveAt, Replaced, Home, NoLive
  <2>5. OneType' /\ status'[1] = "unauthenticated"
    BY <1>0, <1>1, <1>2, <2>1, OneStore DEF OneType
  <2>6. ToldTrue'
    <3>1. "login" \in OneTab!Kinds BY DEF OneTab!Kinds
    <3> QED BY <1>2, <2>4, <2>5, <3>1 DEF ToldTrue
  <2> QED BY <1>2, <2>3, <2>4, <2>5, <2>6, AllEnd
<1> QED BY <1>3, <1>4

\* A logout from its click to what it shows.
LEMMA LogoutKeepsOne ==
  ASSUME TokensAssumption, OneInv,
         \/ \E scope \in OneTab!Scopes : OneTab!Logout(1, scope)
         \/ OneTab!LogoutRefreshed(1) \/ OneTab!LogoutHandled(1) \/ OneTab!LogoutEnds(1)
  PROVE  OneInv'
<1> DEFINE k == "logout"
<1>0. /\ OneType /\ OwnFits(k) /\ ToldTrue /\ Rested /\ wronged = FALSE /\ k \in OneTab!Kinds
      /\ Home \in Tokens \cup {None}
  BY DEF OneInv, OneTab!Kinds, OneType, Home
<1>1. CASE \E scope \in OneTab!Scopes : OneTab!Logout(1, scope)
  <2>1. PICK scope \in OneTab!Scopes, step \in {"posted", "postedStale"} :
          /\ \A j \in OneTab!Kinds : StepOf(j) = "none"
          /\ status[1] = "authenticated" /\ OneTab!Cleared(1)
          /\ UNCHANGED <<row, cookie, notice, wronged>>
          /\ call' = [call EXCEPT ![1][k] = [step |-> step, token |-> Home, scope |-> scope]]
    BY <1>1, HomeOfTab DEF OneTab!Logout, OneTab!history, OneTab!Quiet, OneTab!Out, StepOf
  <2>2. /\ call' \in [{1} -> [OneTab!Kinds -> Call]] /\ StepOf(k)' = step /\ TokenOf(k)' = Home
        /\ \A j \in OneTab!Kinds \ {k} : StepOf(j)' = "none"
    <3>1. step \in OneTab!Steps BY DEF OneTab!Steps
    <3> QED BY <1>0, <2>1, <3>1 DEF OneType, Call, StepOf, TokenOf
  <2>3. OneType' /\ status'[1] = "unauthenticated" /\ access'[1] = "none"
    BY <1>0, <2>1, <2>2, OneStore DEF OneType
  <2>4. LiveAt(Home)' /\ ~Replaced(Home)' /\ Home' = Home
    BY <1>0, <2>1 DEF Rested, LiveAt, Replaced, Home
  <2>5. OwnFits(k)' BY <2>2, <2>3, <2>4 DEF OwnFits
  <2>6. ToldTrue'
    <3>1. notice[1] = "none" BY <1>0, <2>1 DEF ToldTrue
    <3> QED BY <2>1, <3>1 DEF ToldTrue
  <2> QED BY <1>0, <2>1, <2>2, <2>3, <2>5, <2>6, GoesOn
<1>2. CASE OneTab!LogoutRefreshed(1)
  <2>1. /\ StepOf(k) = "issued" /\ cookie' = [cookie EXCEPT !["home"] = TokenOf(k)]
        /\ call' = OneTab!Goes(1, k, "posted", TokenOf(k))
        /\ UNCHANGED <<row, status, access, notice, wronged>>
    BY <1>2, HomeOfTab DEF OneTab!LogoutRefreshed, OneTab!store, OneTab!history, StepOf, TokenOf
  <2>2. TokenOf(k) \in Tokens /\ LiveAt(TokenOf(k)) /\ ~Replaced(TokenOf(k))
    BY <1>0, <2>1 DEF OwnFits
  <2>3. /\ \A j \in OneTab!Kinds \ {k} : StepOf(j) = "none"
        /\ status[1] # "loading"
    BY <1>0, <2>1, OthersRest
  <2>4. /\ call' \in [{1} -> [OneTab!Kinds -> Call]] /\ StepOf(k)' = "posted" /\ TokenOf(k)' = TokenOf(k)
        /\ \A j \in OneTab!Kinds \ {k} : StepOf(j)' = "none"
    <3>1. "posted" \in OneTab!Steps BY DEF OneTab!Steps
    <3> QED BY <1>0, <2>1, <2>2, <2>3, <3>1, Moves
  <2>5. OneType' BY <1>0, <2>1, <2>2, <2>4 DEF OneType
  <2>6. Home' = TokenOf(k) BY <1>0, <2>1 DEF OneType, Home
  <2>7. LiveAt(Home)' /\ ~Replaced(Home)' BY <2>1, <2>2, <2>6 DEF LiveAt, Replaced
  <2>8. OwnFits(k)' BY <1>0, <2>1, <2>4, <2>6, <2>7 DEF OwnFits
  <2>9. ToldTrue'
    <3>1. notice[1] = "none" BY <1>0, <2>1 DEF ToldTrue
    <3> QED BY <2>1, <3>1 DEF ToldTrue
  <2> QED BY <1>0, <2>1, <2>3, <2>4, <2>5, <2>8, <2>9, GoesOn
<1>3. CASE OneTab!LogoutHandled(1)
  <2>1. /\ StepOf(k) = "posted" /\ row' = OneTab!Close(OneTab!ClosedBy(call[1][k]))
        /\ call' = OneTab!Goes(1, k, "closed", TokenOf(k))
        /\ UNCHANGED <<cookie, status, access, notice, wronged>>
    BY <1>3 DEF OneTab!LogoutHandled, OneTab!store, OneTab!history, StepOf, TokenOf
  <2>2. TokenOf(k) = Home /\ LiveAt(Home) BY <1>0, <2>1 DEF OwnFits
  <2>3. NoLive' /\ row' \in [Tokens -> OneTab!Row]
    <3>1. ASSUME NEW tok \in Tokens
          PROVE  /\ OneTab!Live(tok) <=> row[tok].state = "live"
                 /\ OneTab!Live(tok) => tok \in OneTab!ClosedBy(call[1][k])
      BY <2>2, TokensAssumption
         DEF OneTab!ClosedBy, OneTab!Live, LiveAt, TokenOf, TokensAssumption
    <3>2. ASSUME NEW tok \in Tokens
          PROVE  row'[tok] \in OneTab!Row /\ row'[tok].state # "live"
      BY <1>0, <2>1, <3>1 DEF OneType, OneTab!Close, OneTab!Row
    <3>3. row' = [tok \in Tokens |-> row'[tok]] BY <2>1 DEF OneTab!Close
    <3> QED BY <3>2, <3>3 DEF NoLive
  <2>4. /\ \A j \in OneTab!Kinds \ {k} : StepOf(j) = "none"
        /\ status[1] # "loading"
    BY <1>0, <2>1, OthersRest
  <2>5. /\ call' \in [{1} -> [OneTab!Kinds -> Call]] /\ StepOf(k)' = "closed"
        /\ \A j \in OneTab!Kinds \ {k} : StepOf(j)' = "none"
    <3>1. "closed" \in OneTab!Steps BY DEF OneTab!Steps
    <3> QED BY <1>0, <2>1, <2>2, <2>4, <3>1, OneGoesTo DEF StepOf
  <2>6. OneType' BY <1>0, <2>1, <2>3, <2>5 DEF OneType
  <2>7. OwnFits(k)' BY <1>0, <2>1, <2>3, <2>5 DEF OwnFits
  <2>8. ToldTrue'
    <3>1. "login" \in OneTab!Kinds BY DEF OneTab!Kinds
    <3> QED BY <1>0, <2>1, <2>3, <2>5, <3>1 DEF ToldTrue
  <2> QED BY <1>0, <2>1, <2>4, <2>5, <2>6, <2>7, <2>8, GoesOn
<1>4. CASE OneTab!LogoutEnds(1)
  <2>1. /\ StepOf(k) \in {"closed", "refused"} /\ call' = OneTab!Ends(1, k)
        /\ cookie' = IF StepOf(k) = "closed" THEN [cookie EXCEPT !["home"] = None] ELSE cookie
        /\ notice' = [notice EXCEPT ![1] = call[1][k].scope]
        /\ UNCHANGED <<row, status, access, wronged>>
    BY <1>4, HomeOfTab DEF OneTab!LogoutEnds, OneTab!store, StepOf
  <2>2. /\ NoLive /\ access[1] = "none"
        /\ StepOf(k) = "refused" => LiveAt(Home) /\ ~Replaced(Home)
    BY <1>0, <2>1 DEF OwnFits
  <2>3. status[1] \notin {"loading", "authenticated"} BY <1>0, <2>1, <2>2, OthersRest DEF OneType
  <2>4. call' \in [{1} -> [OneTab!Kinds -> Call]] /\ \A j \in OneTab!Kinds : StepOf(j)' = "none"
    BY <1>0, <2>1, OneEnds, OthersRest, NoCallIsOne DEF StepOf
  <2>5. OneType'
    <3>1. call[1][k].scope \in OneTab!Scopes BY <1>0 DEF OneType, Call
    <3> QED BY <1>0, <2>1, <2>4, <3>1 DEF OneType
  <2>6. NoLive' /\ LiveAt(Home)' /\ ~Replaced(Home)'
    BY <1>0, <2>1, <2>2 DEF NoLive, LiveAt, Replaced, Home, OneType
  <2>7. ToldTrue'
    <3>1. "login" \in OneTab!Kinds BY DEF OneTab!Kinds
    <3> QED BY <2>1, <2>3, <2>4, <2>6, <3>1 DEF ToldTrue
  <2> QED BY <1>0, <2>1, <2>3, <2>4, <2>5, <2>6, <2>7, AllEnd
<1> QED BY <1>1, <1>2, <1>3, <1>4

\* Rows end elsewhere, access tokens run out, and nothing happens.
LEMMA ElsewhereKeepsOne ==
  ASSUME TokensAssumption, OneInv,
         \/ OneTab!AccessExpires(1) \/ OneTab!PasswordReset
         \/ (\E tok \in Tokens : OneTab!SessionExpires(tok)) \/ UNCHANGED OneTab!vars
  PROVE  OneInv'
<1>0. OneType BY DEF OneInv
<1>1. UNCHANGED <<cookie, call, notice, wronged>>
  BY Zenon DEF OneTab!AccessExpires, OneTab!PasswordReset, OneTab!SessionExpires, OneTab!history,
     OneTab!vars
<1>2. /\ status' = status /\ access' \in [{1} -> {"none", "fresh", "stale"}]
      /\ access'[1] = "none" <=> access[1] = "none"
  <2>1. CASE OneTab!AccessExpires(1) BY <1>0, <2>1 DEF OneTab!AccessExpires, OneType
  <2>2. CASE UNCHANGED <<status, access>> BY <1>0, <2>2 DEF OneType
  <2>3. OneTab!PasswordReset \/ (\E tok \in Tokens : OneTab!SessionExpires(tok)) \/ UNCHANGED OneTab!vars
        => UNCHANGED <<status, access>>
    BY Zenon DEF OneTab!PasswordReset, OneTab!SessionExpires, OneTab!store, OneTab!vars
  <2> QED BY <2>1, <2>2, <2>3
<1>3. /\ row' \in [Tokens -> OneTab!Row]
      /\ \A tok \in Tokens : /\ row'[tok].state = "live" => row[tok].state = "live"
                             /\ row'[tok].state = "rotated" => row[tok].state = "rotated"
  <2>1. CASE OneTab!PasswordReset
    BY <1>0, <2>1 DEF OneTab!PasswordReset, OneTab!Close, OneTab!Row, OneType
  <2>2. ASSUME NEW x \in Tokens, OneTab!SessionExpires(x)
        PROVE  /\ row' \in [Tokens -> OneTab!Row]
               /\ \A tok \in Tokens : /\ row'[tok].state = "live" => row[tok].state = "live"
                                      /\ row'[tok].state = "rotated" => row[tok].state = "rotated"
    BY <1>0, <2>2 DEF OneType, OneTab!SessionExpires, OneTab!Row
  <2>3. CASE row' = row BY <1>0, <2>3 DEF OneType
  <2>4. OneTab!AccessExpires(1) \/ UNCHANGED OneTab!vars => row' = row
    BY Zenon DEF OneTab!AccessExpires, OneTab!vars
  <2> QED BY <2>1, <2>2, <2>3, <2>4
<1>4. /\ \A x \in Tokens \cup {None} : (LiveAt(x) => LiveAt(x)') /\ (Replaced(x)' => Replaced(x))
      /\ NoLive => NoLive' /\ Home' = Home
  BY <1>1, <1>3 DEF LiveAt, Replaced, NoLive, Home
<1>5. Home \in Tokens \cup {None} /\ \A k \in OneTab!Kinds : TokenOf(k) \in Tokens \cup {None}
  BY <1>0 DEF OneType, Call, Home, TokenOf
<1>6. \A k \in OneTab!Kinds : StepOf(k)' = StepOf(k) /\ TokenOf(k)' = TokenOf(k)
  BY <1>1 DEF StepOf, TokenOf
<1>7. OneType' BY <1>0, <1>1, <1>2, <1>3 DEF OneType
<1>8. OneCall' /\ Loads'
  <2>1. OneCall' BY <1>6 DEF OneInv, OneCall
  <2>2. status' = status BY <1>2
  <2>3. Loads BY DEF OneInv
  <2> QED BY <1>1, <2>1, <2>2, <2>3 DEF Loads, StepOf
<1>9. Rested'
  <2>1. PICK home \in Tokens \cup {None} : Home = home BY <1>5
  <2>2. Home' = home /\ status' = status BY <1>1, <1>2, <2>1 DEF Home
  <2>3. /\ LiveAt(Home) => LiveAt(Home)'
        /\ Replaced(Home)' => Replaced(Home)
        /\ NoLive => NoLive'
    BY <1>3, <2>1, <2>2 DEF LiveAt, Replaced, NoLive
  <2>4. Rested BY DEF OneInv
  <2> QED BY <1>1, <2>2, <2>3, <2>4 DEF Rested, StepOf
<1>10. ToldTrue' BY <1>1, <1>2, <1>4, <1>6 DEF OneInv, ToldTrue, StepOf
<1>11. ASSUME NEW k \in OneTab!Kinds PROVE OwnFits(k)'
  <2>1. OwnFits(k) BY DEF OneInv
  <2>2. PICK tok \in Tokens \cup {None} : TokenOf(k) = tok BY <1>5
  <2>3. PICK home \in Tokens \cup {None} : Home = home BY <1>5
  <2>4. TokenOf(k)' = tok /\ Home' = home /\ StepOf(k)' = StepOf(k)
    BY <1>1, <2>2, <2>3 DEF TokenOf, StepOf, Home
  <2>5. /\ (LiveAt(TokenOf(k)) => LiveAt(TokenOf(k))') /\ (LiveAt(Home) => LiveAt(Home)')
        /\ (Replaced(TokenOf(k))' => Replaced(TokenOf(k))) /\ (Replaced(Home)' => Replaced(Home))
    BY <1>3, <2>2, <2>3, <2>4 DEF LiveAt, Replaced
  <2>6. NoLive => NoLive' BY <1>3 DEF NoLive
  <2>7. access'[1] = "none" <=> access[1] = "none" BY <1>2
  <2> QED BY <2>1, <2>2, <2>3, <2>4, <2>5, <2>6, <2>7 DEF OwnFits
<1> QED BY <1>1, <1>7, <1>8, <1>9, <1>10, <1>11 DEF OneInv

\* Every step of the tab keeps OneInv.
LEMMA NextKeepsOne ==
  ASSUME TokensAssumption, OneInv, [OneTab!Next]_OneTab!vars
  PROVE  OneInv'
<1>1. CASE \/ OneTab!AccessExpires(1) \/ OneTab!PasswordReset
           \/ (\E tok \in Tokens : OneTab!SessionExpires(tok)) \/ UNCHANGED OneTab!vars
  BY <1>1, ElsewhereKeepsOne
<1>2. CASE OneTab!Load(1) \/ OneTab!Unauthorized(1) \/ OneTab!Login(1) BY <1>2, BeginKeeps
<1>3. CASE \/ \E scope \in OneTab!Scopes : OneTab!Logout(1, scope)
           \/ OneTab!LogoutRefreshed(1) \/ OneTab!LogoutHandled(1) \/ OneTab!LogoutEnds(1)
  BY <1>3, LogoutKeepsOne
<1>4. CASE OneTab!LogoutUnauthorized(1) \/ OneTab!LoginAccepted(1) \/ OneTab!LoginEnds(1)
  <2>1. "login" \in OneTab!Kinds /\ "logout" \in OneTab!Kinds BY DEF OneTab!Kinds
  <2> QED BY <1>4, <2>1, CheckKeepsOne, IssueKeepsOne, AnswerKeepsOne
<1>5. ASSUME NEW k \in OneTab!Kinds,
             \/ OneTab!CheckRefresh(1, k) \/ OneTab!Rotate(1, k)
             \/ OneTab!RefreshEnds(1, k) \/ OneTab!RefreshRefused(1, k)
      PROVE  OneInv'
  BY <1>5, CheckKeepsOne, IssueKeepsOne, AnswerKeepsOne
<1>6. \A k \in OneTab!Kinds : ~OneTab!LoseAnswer(1, k) BY DEF OneTab!LoseAnswer
<1> QED BY <1>1, <1>2, <1>3, <1>4, <1>5, <1>6 DEF OneTab!Next, OneTab!Answered

\* With one tab, OneInv gives what the session promises.
LEMMA OneInvGivesSession ==
  ASSUME TokensAssumption, OneInv
  PROVE  /\ OneTab!TypeOK /\ OneTab!ClearedSessionsWereDead
         /\ OneTab!LogoutEndsTheSession /\ OneTab!OneSessionPerBrowser
<1>1. OneType /\ wronged = FALSE /\ ToldTrue /\ Rested BY DEF OneInv
<1>2. OneTab!TypeOK BY <1>1 DEF OneTab!TypeOK, OneType, Call
<1>3. OneTab!ClearedSessionsWereDead BY <1>1 DEF OneTab!ClearedSessionsWereDead
<1>4. OneTab!LogoutEndsTheSession
  BY <1>1 DEF OneTab!LogoutEndsTheSession, OneTab!Live, ToldTrue, NoLive
<1>5. OneTab!OneSessionPerBrowser
  <2>1. ASSUME NEW tok \in Tokens, OneTab!Live(tok),
               \A t \in {1} : <<"home">>[t] = row[tok].of => OneTab!Quiet(t)
        PROVE  cookie[row[tok].of] = tok
    <3>1. row[tok].of = "home" BY <1>1 DEF OneType, OneTab!Row
    <3>2. OneTab!Quiet(1) BY <2>1, <3>1
    <3>3. \A k \in OneTab!Kinds : StepOf(k) = "none"
      BY <3>2 DEF OneTab!Quiet, OneTab!Out, StepOf
    <3>4. LiveAt(Home) BY <1>1, <3>3 DEF Rested
    <3> QED BY <2>1, <3>1, <3>4 DEF LiveAt, Home, OneTab!Live
  <2> QED BY <2>1 DEF OneTab!OneSessionPerBrowser
<1> QED BY <1>2, <1>3, <1>4, <1>5

\* With several tabs, TabsInv gives it.
LEMMA TabsInvGivesSession ==
  ASSUME TabsInv
  PROVE  ManyTabs!TypeOK /\ ManyTabs!CookieIsNeverRotated
<1>1. TabsType /\ Renewed BY DEF TabsInv
<1>2. ManyTabs!TypeOK BY <1>1 DEF ManyTabs!TypeOK, TabsType, CallOf, ManyTabs!AuthStatus
<1>3. ASSUME \A t \in Tabs : ManyTabs!Quiet(t), cookie["home"] # None
      PROVE  row[cookie["home"]].state # "rotated"
  <2>1. \A t \in Tabs, k \in ManyTabs!Kinds : ~IsIssued(t, k)
    BY <1>3 DEF ManyTabs!Quiet, ManyTabs!Out, IsIssued
  <2> QED BY <1>1, <1>3, <2>1 DEF Renewed, IsRotated
<1>4. ManyTabs!CookieIsNeverRotated BY <1>3 DEF ManyTabs!CookieIsNeverRotated
<1> QED BY <1>2, <1>4

\* In a behaviour of one tab OneInv always holds.
LEMMA PartKeepsTab ==
  ASSUME TokensAssumption
  PROVE  MCSpec => [](part = "tab" => OneInv)
<1>1. MCInit => (part = "tab" => OneInv)
  BY OneInit DEF MCInit
<1>2. ASSUME part = "tab" => OneInv, [MCNext]_all
      PROVE  (part = "tab" => OneInv)'
  <2>1. CASE UNCHANGED all
    <3>1. UNCHANGED <<part, OneTab!vars>>
      BY <2>1, Zenon DEF all, sessionsOnly, OneTab!vars
    <3> QED BY <3>1, <1>2, NextKeepsOne
  <2>2. CASE TabNext
    <3>1. CASE part = "tab" /\ OneTab!Next BY <3>1, <1>2, NextKeepsOne
    <3>2. CASE part = "tabs" BY <2>2, <3>2 DEF TabNext
    <3> QED BY <2>2, <3>1, <3>2 DEF TabNext
  <2>3. CASE AccountNext \/ BookNext \/ MailNext
    BY <2>3 DEF AccountNext, BookNext, MailNext
  <2> QED BY <1>2, <2>1, <2>2, <2>3 DEF MCNext
<1> QED BY <1>1, <1>2, PTL DEF MCSpec

\* In a behaviour of several tabs TabsInv always holds.
LEMMA PartKeepsTabs ==
  ASSUME TokensAssumption
  PROVE  MCSpec => [](part = "tabs" => TabsInv)
<1>1. MCInit => (part = "tabs" => TabsInv)
  BY TabsInit DEF MCInit
<1>2. ASSUME part = "tabs" => TabsInv, [MCNext]_all
      PROVE  (part = "tabs" => TabsInv)'
  <2>1. CASE UNCHANGED all
    <3>1. UNCHANGED <<part, ManyTabs!vars>>
      BY <2>1, Zenon DEF all, sessionsOnly, ManyTabs!vars
    <3> QED BY <3>1, <1>2, NextKeepsTabs
  <2>2. CASE TabNext
    <3>1. CASE part = "tabs" /\ ManyTabs!Next BY <3>1, <1>2, NextKeepsTabs
    <3>2. CASE part = "tab" BY <2>2, <3>2 DEF TabNext
    <3> QED BY <2>2, <3>1, <3>2 DEF TabNext
  <2>3. CASE AccountNext \/ BookNext \/ MailNext
    BY <2>3 DEF AccountNext, BookNext, MailNext
  <2> QED BY <1>2, <2>1, <2>2, <2>3 DEF MCNext
<1> QED BY <1>1, <1>2, PTL DEF MCSpec

\* A browser with one tab and a patient user: no session is taken because of a
\* token that a refresh had merely replaced, a logout that is shown ended the
\* session on the server, and no live session is left beside the cookie's.  With
\* any number of tabs, whose refreshes, logins and logouts interleave freely: once
\* their calls have ended the cookie holds no token that was replaced
\* (auth.service.ts, refresh and logout; AuthBootstrap.tsx; useLogout).
THEOREM SessionsAlwaysKept ==
  ASSUME TokensAssumption
  PROVE  MCSpec => []SessionsAreKept
<1>1. (part = "tab" => OneInv) /\ (part = "tabs" => TabsInv) => SessionsAreKept
  BY OneInvGivesSession, TabsInvGivesSession DEF SessionsAreKept
<1> QED BY <1>1, PartKeepsTab, PartKeepsTabs, PTL
=============================================================================
