------------------------------ MODULE AccountsMC ------------------------------
(***************************************************************************)
(* What a customer's account is made of, on small instances: the session   *)
(* of a browser with one tab and with more (Sessions), the account behind  *)
(* an address (Accounts), its address book (Addresses), and the mails      *)
(* while all goes well and with faults (Notifications).  A behaviour is    *)
(* one of one of these, which "part" names; a variable that several of     *)
(* them have is that of the part.                                          *)
(***************************************************************************)
EXTENDS Accounts, TLC

CONSTANTS k1, k2, k3, k4, \* tokens, links
          p1, p2          \* tabs, passwords, runs of the cron job

CONSTANTS Tabs                       \* of Sessions and Addresses
CONSTANTS Tokens, Shared             \* of Sessions, with one tab and with more
CONSTANTS Ids, Texts, MaxOpen, Edits \* of Addresses
CONSTANTS Mail, Limited, Run, MaxPerHour, Hour, Lease, Backoff, Take, Faults, MaxCrashes
                                           \* of Notifications

VARIABLES
  part,
  \* of Sessions
  cookie, status, access, call, notice, wronged,
  \* of Addresses; "asked" is its "req"
  shown, asked,
  \* of Notifications
  recent, caller, found, delivery, bounced, handed, tries, crashes, overlapped, failed,
  \* of more than one of them
  row

sessionsOnly == <<cookie, status, access, call, notice, wronged>>
bookOnly == <<shown, asked>>
mailsOnly ==
  <<recent, caller, found, delivery, bounced, handed, tries, crashes, overlapped, failed>>
all == <<part, vars, sessionsOnly, bookOnly, mailsOnly, row>>

OneTab == INSTANCE Sessions WITH
  Tabs <- {1}, Browsers <- {"home"}, BrowserOf <- <<"home">>, Patient <- TRUE, Faults <- {}
ManyTabs == INSTANCE Sessions WITH
  Browsers <- {"home"}, BrowserOf <- [t \in Tabs |-> "home"], Tokens <- Shared,
  Patient <- TRUE, Faults <- {}

Book == INSTANCE Addresses WITH req <- asked

Mailing == INSTANCE Notifications

NoSession ==
  /\ cookie = <<>> /\ status = <<>> /\ access = <<>> /\ call = <<>>
  /\ notice = <<>> /\ wronged = FALSE
NoBook == shown = <<>> /\ asked = <<>>
NoMail ==
  /\ recent = <<>> /\ caller = <<>> /\ found = <<>> /\ delivery = <<>> /\ bounced = FALSE
  /\ handed = <<>> /\ tries = <<>> /\ crashes = 0 /\ overlapped = FALSE
  /\ failed = {}

MCInit ==
  /\ Init
  /\ \/ part = "account" /\ NoSession /\ NoBook /\ NoMail /\ row = <<>>
     \/ part = "tab" /\ OneTab!Init /\ NoBook /\ NoMail
     \/ part = "tabs" /\ ManyTabs!Init /\ NoBook /\ NoMail
     \/ part = "book" /\ Book!Init /\ NoSession /\ NoMail
     \/ part = "mail" /\ Mailing!Init /\ NoSession /\ NoBook

AccountNext ==
  part = "account" /\ Next /\ UNCHANGED <<part, sessionsOnly, bookOnly, mailsOnly, row>>

TabNext ==
  /\ \/ part = "tab" /\ OneTab!Next
     \/ part = "tabs" /\ ManyTabs!Next
  /\ UNCHANGED <<part, vars, bookOnly, mailsOnly>>

BookNext ==
  part = "book" /\ Book!Next /\ UNCHANGED <<part, vars, sessionsOnly, mailsOnly>>

MailNext ==
  part = "mail" /\ Mailing!Next /\ UNCHANGED <<part, vars, sessionsOnly, bookOnly>>

MCNext == AccountNext \/ TabNext \/ BookNext \/ MailNext

MCSpec == MCInit /\ [][MCNext]_all

MCBackoff == <<1, 2>>

Symmetry == Permutations({k1, k2, k3}) \cup Permutations({p1, p2})

-----------------------------------------------------------------------------
(* What Sessions promises: with one tab, and with several of one browser.  *)

\* With one tab, no session is taken from the user because of a token that a
\* refresh had merely replaced; a logout that is shown ended it on the server;
\* and no live session is left beside the one in the cookie.  Tabs never
\* leave the browser with a token that a refresh has replaced
\* (AuthBootstrap.tsx:26-32, auth.service.ts:99-150, auth.controller.ts).
SessionsAreKept ==
  /\ part = "tab" =>
       /\ OneTab!TypeOK
       /\ OneTab!ClearedSessionsWereDead
       /\ OneTab!LogoutEndsTheSession
       /\ OneTab!OneSessionPerBrowser
  /\ part = "tabs" => ManyTabs!TypeOK /\ ManyTabs!CookieIsNeverRotated

-----------------------------------------------------------------------------
(* What Addresses promises, one request at a time.                         *)

\* Between requests a book that is not empty has one default, although the two
\* pages act on lists that are old (addresses.service.ts).
OneDefault == part = "book" => Book!TypeOK /\ Book!OneDefault

-----------------------------------------------------------------------------
(* What Notifications promises.                                            *)

\* As long as nothing goes wrong, overlapping runs of the cron job and the first
\* delivery never hand a mail to the server twice, and rows say what happened.
\* While no delivery outlives its lease, calls that follow one another keep within
\* the mails per hour, and a mail costs a bounded number of tries although answers
\* are lost and the process stops.  Whatever happens, a message that may open an
\* account stays only in a row that waits for a run (notifications.service.ts,
\* retryPending, deliver and hasReachedRateLimit).
MailsGoOnce == part = "mail" => Mailing!TypeOK /\ Mailing!MailsGoOnce
=============================================================================
