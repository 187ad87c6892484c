---------------------------- MODULE ClientsLiveMC ----------------------------
(***************************************************************************)
(* What must come about for somebody who waits: the session of a page that *)
(* loads (Sessions), the order of a customer who keeps confirming          *)
(* (CheckoutPage), the page that was told that its order moved             *)
(* (OrderPages) and the end of a mail (Notifications).  A behaviour is one *)
(* of one of these, which "part" names; the fairness is that of the part,  *)
(* stated over the variables of all of them.                               *)
(***************************************************************************)
EXTENDS Naturals, OrderStatus

CONSTANTS k1, k2, k3,     \* tokens
          p1, p2,         \* products
          c1, a1,         \* pages
          r1, r2,         \* runs of the cron job
          None

VARIABLES
  part,
  \* of Sessions
  cookie, status, access, call, notice, wronged,
  \* of CheckoutPage
  price, cart, cost, book, page, request, orders, unasked, happened, changes,
  \* of OrderPages
  log, over, shown, fetch, open, chosen, requests,
  \* of Notifications
  recent, caller, found, delivery, bounced, handed, tries, crashes, overlapped, failed,
  \* of more than one of them
  row

sessionsOnly == <<cookie, status, access, call, notice, wronged>>
checkoutOnly == <<price, cart, cost, book, page, request, orders, unasked, happened, changes>>
pagesOnly == <<log, over, shown, fetch, open, chosen, requests>>
mailsOnly ==
  <<recent, caller, found, delivery, bounced, handed, tries, crashes, overlapped, failed>>
all == <<part, sessionsOnly, checkoutOnly, pagesOnly, mailsOnly, row>>

Tab == INSTANCE Sessions WITH
  Tabs <- {1}, Browsers <- {"home"}, BrowserOf <- <<"home">>, Tokens <- {k1, k2, k3},
  Patient <- TRUE, Faults <- {"lost"}
Buyer == INSTANCE CheckoutPage WITH
  Products <- {p1, p2}, Methods <- {"m"}, Addrs <- {"a"}, Amounts <- {1, 2}, Texts <- {"old"},
  Together <- {{"catalogue", "methods"}}, MaxChanges <- 2
Pages == INSTANCE OrderPages WITH
  Customers <- {c1}, Admins <- {a1}, Starts <- {PAGADO}, Ticks <- {}, Sellable <- {TRUE},
  MaxLog <- 2, MaxRequests <- 1
Mails == INSTANCE Notifications WITH
  Mail <- {"m"}, Limited <- {}, Run <- {r1, r2}, MaxPerHour <- 1, Hour <- 1, Lease <- 2,
  Backoff <- <<1>>, Take <- 1, Faults <- {"slow", "lost", "crash"}, MaxCrashes <- 1

NoTab ==
  /\ cookie = <<>> /\ status = <<>> /\ access = <<>> /\ call = <<>>
  /\ notice = <<>> /\ wronged = FALSE
NoBuyer ==
  /\ price = <<>> /\ cart = <<>> /\ cost = <<>> /\ book = <<>> /\ page = <<>>
  /\ request = None /\ orders = {} /\ unasked = FALSE /\ happened = {} /\ changes = 0
NoPages ==
  /\ log = <<>> /\ over = {} /\ shown = <<>> /\ fetch = <<>> /\ open = <<>>
  /\ chosen = <<>> /\ requests = {}
NoMail ==
  /\ recent = <<>> /\ caller = <<>> /\ found = <<>> /\ delivery = <<>> /\ bounced = FALSE
  /\ handed = <<>> /\ tries = <<>> /\ crashes = 0 /\ overlapped = FALSE
  /\ failed = {}

MCInit ==
  \/ part = "tab" /\ Tab!Init /\ NoBuyer /\ NoPages /\ NoMail
  \/ part = "buyer" /\ Buyer!Init /\ NoTab /\ NoPages /\ NoMail /\ row = <<>>
  \/ part = "pages" /\ Pages!Init /\ NoTab /\ NoBuyer /\ NoMail /\ row = <<>>
  \/ part = "mails" /\ Mails!Init /\ NoTab /\ NoBuyer /\ NoPages

\* A step of a part leaves the other parts alone.
TabDoes(step) ==
  part = "tab" /\ step /\ UNCHANGED <<part, checkoutOnly, pagesOnly, mailsOnly>>
BuyerDoes(step) ==
  part = "buyer" /\ step /\ UNCHANGED <<part, sessionsOnly, pagesOnly, mailsOnly, row>>
PagesDo(step) ==
  part = "pages" /\ step /\ UNCHANGED <<part, sessionsOnly, checkoutOnly, mailsOnly, row>>
MailsDo(step) ==
  part = "mails" /\ step /\ UNCHANGED <<part, sessionsOnly, checkoutOnly, pagesOnly>>

TabNext == TabDoes(Tab!Next)
BuyerNext == BuyerDoes(Buyer!Next)
PagesNext == PagesDo(Pages!Next)
MailsNext == MailsDo(Mails!Next)

MCNext == TabNext \/ BuyerNext \/ PagesNext \/ MailsNext

\* The server answers the calls of the tab, and sessions expire.
TabFairness ==
  /\ \A tok \in {k1, k2, k3} : WF_all(TabDoes(Tab!SessionExpires(tok)))
  /\ \A k \in {"bootstrap", "interceptor", "login", "logout"} :
       /\ WF_all(TabDoes(Tab!CheckRefresh(1, k)))
       /\ WF_all(TabDoes(Tab!Rotate(1, k)))
       /\ WF_all(TabDoes(Tab!RefreshEnds(1, k)))
       /\ WF_all(TabDoes(Tab!RefreshRefused(1, k)))

\* The requests of the checkout end, and the customer answers and confirms.
BuyerFairness ==
  /\ WF_all(BuyerDoes(Buyer!Revalidate))
  /\ WF_all(BuyerDoes(Buyer!ReadChoice))
  /\ WF_all(BuyerDoes(Buyer!Place))
  /\ WF_all(BuyerDoes(Buyer!Refetch))
  /\ WF_all(BuyerDoes(Buyer!Acknowledge))
  /\ WF_all(BuyerDoes(Buyer!Confirm))

\* The server answers, and a read arrives at last although others replace it.
PagesFairness ==
  /\ WF_all(PagesDo(Pages!ServerWorks))
  /\ \A p \in {c1, a1} :
       /\ WF_all(PagesDo(Pages!FetchReads(p)))
       /\ SF_all(PagesDo(Pages!FetchArrives(p)))

\* Deliveries end, the cron job is called again and again, and time passes.
MailsFairness ==
  /\ WF_all(MailsDo(Mails!Tick))
  /\ \A d \in {"m", r1, r2} : WF_all(MailsDo(Mails!Deliver(d)))
  /\ \A r \in {r1, r2} :
       /\ WF_all(MailsDo(Mails!Find(r)))
       /\ WF_all(MailsDo(Mails!Claim(r, "m")))

MCSpec ==
  /\ MCInit /\ [][MCNext]_all
  /\ TabFairness /\ BuyerFairness /\ PagesFairness /\ MailsFairness

-----------------------------------------------------------------------------
\* A page does not wait for ever for its session, although answers are lost
\* (AuthBootstrap.tsx:36-40).
LoadingEnds ==
  (part = "tab" /\ status[1] = "loading") ~> (part = "tab" /\ status[1] # "loading")

\* Once nothing changes any more, a customer who keeps confirming gets his
\* order: what refuses him also loads what he has to see (Checkout.tsx:121-148).
KeenCustomerOrders ==
  (part = "buyer" /\ Buyer!Ready) ~> (part = "buyer" /\ (orders # {} \/ Buyer!Elsewise))

\* A page that was told that the state changed comes to show it
\* (OrderDetail.tsx of both, onError).
RefusedPageCatchesUp ==
  \A p \in {c1, a1} :
    (part = "pages" /\ Pages!RefusedAt(p, 2))
      ~> (part = "pages" /\ Pages!Shows(p) /\ shown[p].at >= 2)

\* Together: no page is stuck while its requests are answered, nor a customer who
\* goes on.
PagesComeThrough == LoadingEnds /\ KeenCustomerOrders /\ RefusedPageCatchesUp

\* Every accepted mail is sent, bounces or is given up, although deliveries
\* outlive their lease, answers are lost and the process stops
\* (notifications.service.ts, retryPending).
EveryMailEnds ==
  (part = "mails" /\ row["m"].status \in Mails!Waiting)
    ~> (part = "mails" /\ row["m"].status \notin Mails!Waiting)
=============================================================================
