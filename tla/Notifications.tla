---------------------------- MODULE Notifications ----------------------------
(***************************************************************************)
(* The mail of the shop (notifications/notifications.service.ts).  A use   *)
(* case asks for a mail with send, which answers once the mail has a row   *)
(* in email_logs; a delivery in the background hands it to the mail        *)
(* server.  A cron job, whose runs may overlap, takes the rows whose next  *)
(* attempt is due: those that failed, and those whose delivery was cut by  *)
(* a stop of the process.                                                  *)
(*                                                                         *)
(* A row belongs for a lease to whoever delivers it.  Nothing enforces     *)
(* that: the result is written without looking at the row again.           *)
(* Time passes in ticks; nextAttemptAt is the time left until then, and    *)
(* `recent' the time left until the row is an hour old.                    *)
(***************************************************************************)
EXTENDS Integers, Sequences, FiniteSets

CONSTANTS Mail,        \* the calls of send
          Limited,     \* those for one account and a template with a limit
          Run,         \* the runs of the cron job
          MaxPerHour,  \* EMAIL_RATE_LIMIT_MAX_PER_HOUR
          Hour, Lease, \* in ticks; DELIVERY_LEASE_MS
          Backoff,     \* RETRY_BACKOFF_MIN, in ticks
          Take,        \* rows that a run takes
          Faults,      \* bound: what may go wrong, a subset of FaultKinds
          MaxCrashes   \* bound of the stops, in Crash

\* A delivery outlives its lease, an answer is lost, the process stops.
FaultKinds == { "slow", "lost", "crash" }

VARIABLES
  row,        \* the row of each mail
  recent,     \* time left until the row of the mail is an hour old
  caller,     \* how far each call of send came
  found,      \* the rows each run found and may still claim
  delivery,   \* what each call of send, and each run, is delivering
  bounced,    \* user.emailBouncedAt is set
  handed,     \* times the mail server took each mail (history)
  tries,      \* deliveries of each mail (history)
  crashes,    \* stops of the process (history)
  overlapped, \* two calls of send with the limit went on at once (history)
  failed      \* what went wrong (history)

history == <<handed, tries, crashes, overlapped, failed>>
vars == <<row, recent, caller, found, delivery, bounced, history>>

\* EmailStatus
PENDIENTE              == "pendiente"
ENVIADO                == "enviado"
FALLIDO                == "fallido"
REINTENTANDO           == "reintentando"
REBOTADO               == "rebotado"
OMITIDO_POR_RATE_LIMIT == "omitido_por_rate_limit"

Waiting == { PENDIENTE, REINTENTANDO }
EmailStatuses == Waiting \cup { ENVIADO, FALLIDO, REBOTADO, OMITIDO_POR_RATE_LIMIT }

Never == 0 - 1  \* next_attempt_at is NULL

\* Mutant of NewRow: the cron job may take the row at once.
NewRowUnleased(status, message) ==
  [status |-> status, attempts |-> 0, message |-> message,
   next |-> IF message THEN 0 ELSE Never]

\* A row as send inserts it; "none" while there is none.
NewRow(status, message) ==
  [status |-> status, attempts |-> 0, message |-> message,
   next |-> IF message THEN Lease ELSE Never]
NoRow == NewRow("none", FALSE)

\* What a delivery read of the row, and what the mail server answered.
Idle == [mail |-> {}, attempts |-> 0, message |-> FALSE, answer |-> "none"]
Delivery(m) == [mail |-> {m}, attempts |-> row[m].attempts,
                message |-> row[m].message, answer |-> "waiting"]
Deliverer == Mail \cup Run
Answers == { "none", "waiting", "sent", "rejected", "failed", "bounced" }

\* Values of their kinds; a delivery has one mail, and attempts are bounded.
TypeOK ==
  /\ row \in [Mail -> [status : EmailStatuses \cup {"none"}, attempts : 0..Len(Backoff) + 1,
                       message : BOOLEAN, next : Nat \cup {Never}]]
  /\ recent \in [Mail -> 0..Hour]
  /\ caller \in [Mail -> {"none", "allowed", "limited", "ended"}]
  /\ found \in [Run -> SUBSET Mail]
  /\ delivery \in [Deliverer -> [mail : SUBSET Mail, attempts : 0..Len(Backoff),
                                 message : BOOLEAN, answer : Answers]]
  /\ \A d \in Deliverer : Cardinality(delivery[d].mail) <= 1
  /\ bounced \in BOOLEAN
  /\ handed \in [Mail -> Nat] /\ tries \in [Mail -> Nat]
  /\ crashes \in 0..MaxCrashes

Init ==
  /\ row = [m \in Mail |-> NoRow]
  /\ recent = [m \in Mail |-> 0]
  /\ caller = [m \in Mail |-> "none"]
  /\ found = [r \in Run |-> {}]
  /\ delivery = [d \in Deliverer |-> Idle]
  /\ bounced = FALSE
  /\ handed = [m \in Mail |-> 0] /\ tries = [m \in Mail |-> 0]
  /\ crashes = 0 /\ overlapped = FALSE /\ failed = {}

-----------------------------------------------------------------------------
(***************************************************************************)
(* send                                                                    *)
(***************************************************************************)

Insert(m, status, message) ==
  /\ row' = [row EXCEPT ![m] = NewRow(status, message)]
  /\ recent' = [recent EXCEPT ![m] = Hour]
  /\ caller' = [caller EXCEPT ![m] = "ended"]

\* A row without a message: the address is not valid, the template is missing
\* or cannot be composed.
LogFailed(m) ==
  /\ caller[m] = "none" \/ caller[m] = "allowed"
  /\ Insert(m, FALLIDO, FALSE)
  /\ UNCHANGED <<found, delivery, bounced, history>>

Counted(n) == n >= MaxPerHour

\* hasReachedRateLimit counts the rows of the last hour, whatever their status.
LimitedRows == { x \in Limited : recent[x] > 0 }

\* Those of a mail that went out or still may.
Accepted == { x \in LimitedRows : row[x].status \in Waiting \cup { ENVIADO } }

Count(m) ==
  /\ caller[m] = "none"
  /\ m \in Limited
  /\ caller' = [caller EXCEPT ![m] =
                  IF Counted(Cardinality(LimitedRows)) THEN "limited" ELSE "allowed"]
  /\ overlapped' = (overlapped \/ \E x \in Limited : caller[x] = "allowed")
  /\ UNCHANGED <<row, recent, found, delivery, bounced, handed, tries, crashes, failed>>

LogOmitted(m) ==
  /\ caller[m] = "limited"
  /\ Insert(m, OMITIDO_POR_RATE_LIMIT, FALSE)
  /\ UNCHANGED <<found, delivery, bounced, history>>

\* The delivery starts at once and nobody waits for it.
Accept(m) ==
  /\ caller[m] = "allowed" \/ (caller[m] = "none" /\ m \notin Limited)
  /\ Insert(m, PENDIENTE, TRUE)
  /\ delivery' = [delivery EXCEPT ![m] =
                    [mail |-> {m}, attempts |-> 0, message |-> TRUE, answer |-> "waiting"]]
  /\ tries' = [tries EXCEPT ![m] = @ + 1]
  /\ UNCHANGED <<found, bounced, handed, crashes, overlapped, failed>>

-----------------------------------------------------------------------------
(***************************************************************************)
(* retryPending                                                            *)
(***************************************************************************)

Due == { m \in Mail : row[m].status \in Waiting /\ row[m].next = 0 }

\* A run starts; the runs before it may still go on.
Find(r) ==
  /\ found[r] = {} /\ delivery[r] = Idle
  /\ Due # {}
  /\ \E rows \in SUBSET Due :
       /\ Cardinality(rows) = IF Cardinality(Due) < Take THEN Cardinality(Due) ELSE Take
       /\ found' = [found EXCEPT ![r] = rows]
  /\ UNCHANGED <<row, recent, caller, delivery, bounced, history>>

\* nextAttemptAt of m is set, to a time after the start of every run that found
\* it, or to NULL: their conditional UPDATE no longer finds the row.
Later(m) == [r \in Run |-> found[r] \ {m}]

\* The conditional UPDATE, and the delivery with the row as it is now.
Claim(r, m) ==
  /\ m \in found[r] /\ delivery[r] = Idle
  /\ row' = [row EXCEPT ![m].next = Lease]
  /\ found' = [Later(m) EXCEPT ![r] = @ \ {m}]
  /\ delivery' = [delivery EXCEPT ![r] = Delivery(m)]
  /\ tries' = [tries EXCEPT ![m] = @ + (IF row[m].message THEN 1 ELSE 0)]
  /\ UNCHANGED <<recent, caller, bounced, handed, crashes, overlapped, failed>>

-----------------------------------------------------------------------------
(***************************************************************************)
(* deliver                                                                 *)
(***************************************************************************)

\* The mail server takes the mail, refuses it for good (a 5xx), or fails; its
\* answer may get lost after it took the mail.
Handle(d, answer) ==
  /\ delivery[d].answer = "waiting" /\ delivery[d].message
  /\ answer \in { "sent", "rejected", "failed" }
  /\ delivery' = [delivery EXCEPT ![d].answer = answer]
  /\ \/ /\ handed' = [m \in Mail |-> handed[m] + (IF m \in delivery[d].mail /\ answer = "sent"
                                                     THEN 1 ELSE 0)]
        /\ UNCHANGED failed
     \/ /\ "lost" \in Faults /\ answer = "failed" /\ failed' = failed \cup {"lost"}
        /\ handed' = [m \in Mail |-> handed[m] + (IF m \in delivery[d].mail THEN 1 ELSE 0)]
  /\ UNCHANGED <<row, recent, caller, found, bounced, tries, crashes, overlapped>>

\* The UPDATE of the row, by its id alone; `message' and `next' NULL when it ends.
Ends(m, status, attempts) ==
  row' = [row EXCEPT ![m] = [status |-> status, attempts |-> attempts,
                             message |-> FALSE, next |-> Never]]

\* Sin mensaje para entregar: another delivery ended the mail meanwhile.
NoMessage(d, m) ==
  /\ delivery[d].answer = "waiting" /\ ~delivery[d].message
  /\ row' = [row EXCEPT ![m].status = FALLIDO, ![m].next = Never]
  /\ delivery' = [delivery EXCEPT ![d] = Idle]

Sent(d, m) ==
  /\ delivery[d].answer = "sent"
  /\ Ends(m, ENVIADO, row[m].attempts)
  /\ delivery' = [delivery EXCEPT ![d] = Idle]

Rejected(d, m) ==
  /\ delivery[d].answer = "rejected"
  /\ Ends(m, REBOTADO, row[m].attempts)
  /\ delivery' = [delivery EXCEPT ![d].answer = "bounced"]

Retries(attempts) == attempts <= Len(Backoff)

\* Mutant of Backs: the row no longer says when it is due.
BacksNever(attempts) == Never

Backs(attempts) == Backoff[attempts]

Failed(d, m) ==
  /\ delivery[d].answer = "failed"
  /\ LET attempts == delivery[d].attempts + 1
     IN IF Retries(attempts)
          THEN row' = [row EXCEPT ![m].status = REINTENTANDO, ![m].attempts = attempts,
                                  ![m].next = Backs(attempts)]
          ELSE Ends(m, FALLIDO, attempts)
  /\ delivery' = [delivery EXCEPT ![d] = Idle]

Record(d, m) ==
  /\ m \in delivery[d].mail
  /\ NoMessage(d, m) \/ Sent(d, m) \/ Rejected(d, m) \/ Failed(d, m)
  /\ found' = Later(m)
  /\ UNCHANGED <<recent, caller, bounced, history>>

\* The account is marked after the row.
Bounced(d) ==
  /\ delivery[d].answer = "bounced"
  /\ bounced' = TRUE
  /\ delivery' = [delivery EXCEPT ![d] = Idle]
  /\ UNCHANGED <<row, recent, caller, found, history>>

-----------------------------------------------------------------------------
Down(n) == IF n > 0 THEN n - 1 ELSE n

\* A delivery that goes on while the lease of its row ends.
Late == \E m \in Mail, d \in Deliverer : row[m].next = 1 /\ m \in delivery[d].mail

Tick ==
  /\ Late => "slow" \in Faults
  /\ failed' = IF Late THEN failed \cup {"slow"} ELSE failed
  /\ row' = [m \in Mail |-> [row[m] EXCEPT !.next = Down(@)]]
  /\ recent' = [m \in Mail |-> Down(recent[m])]
  /\ row' # row \/ recent' # recent
  /\ UNCHANGED <<caller, found, delivery, bounced, handed, tries, crashes, overlapped>>

\* The process stops: calls, runs and deliveries end where they are.
Crash ==
  /\ "crash" \in Faults /\ crashes < MaxCrashes
  /\ crashes' = crashes + 1 /\ failed' = failed \cup {"crash"}
  /\ found' = [r \in Run |-> {}]
  /\ delivery' = [d \in Deliverer |-> Idle]
  /\ caller' = [m \in Mail |-> IF caller[m] = "none" THEN "none" ELSE "ended"]
  /\ UNCHANGED <<row, recent, bounced, handed, tries, overlapped>>

Deliver(d) ==
  \/ \E answer \in Answers : Handle(d, answer)
  \/ \E m \in Mail : Record(d, m)
  \/ Bounced(d)

Next ==
  \/ \E m \in Mail : LogFailed(m) \/ Count(m) \/ LogOmitted(m) \/ Accept(m)
  \/ \E r \in Run : Find(r) \/ \E m \in Mail : Claim(r, m)
  \/ \E d \in Deliverer : Deliver(d)
  \/ Tick
  \/ Crash

\* The provider answers or times out, the cron job is called again and again
\* and works its list off, and time passes.
Fairness ==
  /\ WF_vars(Tick)
  /\ \A d \in Deliverer : WF_vars(Deliver(d))
  /\ \A r \in Run : WF_vars(Find(r)) /\ WF_vars(\E m \in Mail : Claim(r, m))

Spec == Init /\ [][Next]_vars
FairSpec == Spec /\ Fairness

-----------------------------------------------------------------------------
(***************************************************************************)
(* What the mail of the shop promises.                                     *)
(***************************************************************************)

\* Overlapping runs, and a delivery in the background, never hand one mail to
\* the mail server twice: the claim (retryPending, 141-142) keeps them apart.
\* It holds while no delivery outlives its lease, no answer is lost and the
\* process does not stop: each of these alone breaks it.
NeverTwice == \A m \in Mail : handed[m] <= 1

\* A mail costs the mail server a first attempt and a retry for each wait of
\* RETRY_BACKOFF_MIN, plus one for each stop of the process.
TriesAreBounded == \A m \in Mail : tries[m] <= 1 + Len(Backoff) + crashes

\* What the row says of the mail is what happened to it: it was sent, or it
\* never was.
RowsAreTruthful ==
  \A m \in Mail :
    /\ row[m].status = ENVIADO => handed[m] > 0
    /\ row[m].status \in { FALLIDO, REBOTADO, OMITIDO_POR_RATE_LIMIT } => handed[m] = 0

\* A composed message, which may carry a token that opens an account, is kept
\* only in a row that a run may still pick up (email-log.entity, 68-71).
MessagesAreErased ==
  \A m \in Mail : row[m].message => row[m].status \in Waiting /\ row[m].next # Never

\* The limit of an account holds for calls that follow one another: of the rows
\* of the last hour at most MaxPerHour stand for a mail.
WithinTheRate ==
  ~overlapped => Cardinality(Accepted) <= MaxPerHour

\* What holds until something went wrong that breaks it.
MailsGoOnce ==
  /\ MessagesAreErased
  /\ "slow" \notin failed => TriesAreBounded /\ WithinTheRate
  /\ failed = {} => NeverTwice /\ RowsAreTruthful

\* Every accepted mail is sent, bounces or is given up, whatever stops.
EveryMailEnds ==
  \A m \in Mail : row[m].status \in Waiting ~> row[m].status \notin Waiting
=============================================================================
