---------------------------- MODULE Notification ----------------------------
(***************************************************************************)
(* Notifications: handlers of events and a daily job put one job per       *)
(* recipient in notification_queue; the notification worker stores a row   *)
(* per dedup_key and sends the mail of an e-mail notice; users read.       *)
(*                                                                         *)
(* The queue has no job ids here, so the unique dedup_key is the only      *)
(* guard against duplicates.  The row is committed before the mail is      *)
(* sent.  A request for data is told of when it is made, by a step after   *)
(* its commit, and again by the daily job once it is overdue.              *)
(*                                                                         *)
(* One tenant: the prime's user, and at most one user per supplier.        *)
(***************************************************************************)
EXTENDS Naturals, SequencesExt

CONSTANTS
    Suppliers,   \* suppliers of the tenant
    Requests,    \* requests for data
    Slots,       \* jobs the worker runs at a time
    Kinds,       \* events a run looks at
    Prime,       \* the user of the prime contractor
    Backlog,     \* bound: jobs left in the queue over night
    LastDay,     \* bound: days told apart, the last one stands for those after
    MaxEvents,   \* bound: events that are told of
    MaxCrashes,  \* bound: processes that die; below the three tries of a job
    MaxFailures  \* bound: jobs and handlers that raise

ASSUME PrimeAssumption == Prime \notin Suppliers
ASSUME BoundsAssumption ==
    /\ Backlog \in Nat /\ LastDay \in Nat \ {0}
    /\ MaxEvents \in Nat /\ MaxCrashes \in 0 .. 2 /\ MaxFailures \in Nat

Days == 0 .. LastDay
Users == Suppliers \cup {Prime}

\* Events that are told of once per subject and recipient, and the ones the
\* key of which changes with the day or the occurrence.
SupplierKinds == {"ai_synthesis_prime", "onboarding_review", "source_change", "final_validation"}
RequestKinds == {"data_request_sent", "data_request_email", "sla_reminder", "submission_submitted"}

\* dedup_key: kind, subject, recipient and day or occurrence.
Key(kind, about, to, n) == <<kind, about, to, n>>

Keys ==
    {Key(k, s, Prime, 0) : k \in SupplierKinds, s \in Suppliers}
        \cup {Key("master_form_submitted", s, Prime, d) : s \in Suppliers, d \in Days}
        \cup {Key("supplier_correction", s, s, n) : s \in Suppliers, n \in 1 .. MaxEvents}
        \cup {Key(k, r, u, 0) : k \in RequestKinds, r \in Requests, u \in Users}

ByMail(key) == key[1] = "data_request_email"
Resurfaces(key) == key[1] = "master_form_submitted"

VARIABLES
    day,
    cronDue,     \* today's check_overdue_submissions has not run
    registered,  \* suppliers with an account
    request,     \* per request: its supplier and how far telling of it came
    invited,     \* history, per request: invitation mails tried for it
    reminded,    \* requests with a reminder_count above 0
    claims,      \* processed_jobs: invitation mails claimed
    sending,     \* claimed and not sent yet
    posted,      \* history, per claim: invitation mails sent
    jobs,        \* the queue, in the order of ARQ's scores
    running,     \* per slot: the job it runs and where it stands
    row,         \* per key: the notifications row
    mails,       \* history, per key: mails sent
    events, crashes, failures   \* bound counters

requestVars == <<registered, request, invited, reminded>>
inviteVars == <<claims, sending, posted>>
workerVars == <<running, row, mails>>
faults == <<crashes, failures>>
vars == <<day, cronDue, requestVars, inviteVars, jobs, workerVars, events, faults>>

Idle == [key |-> <<>>, at |-> "idle"]
NoRequest == [of |-> Prime, at |-> "none"]

TypeOK ==
    /\ day \in Days
    /\ cronDue \in BOOLEAN
    /\ registered \subseteq Suppliers
    /\ request \in [Requests -> {NoRequest} \cup [of : Suppliers, at : {"made", "told", "untold"}]]
    /\ invited \in [Requests -> 0 .. 1]
    /\ reminded \subseteq Requests
    /\ claims \subseteq Suppliers \X Days
    /\ sending \subseteq claims
    /\ posted \in [Suppliers \X Days -> 0 .. 1]
    /\ jobs \in Seq(Keys)
    /\ running \in [Slots -> {Idle} \cup [key : Keys, at : {"insert", "mail", "mark"}]]
    /\ row \in [Keys -> {"none", "pending", "read", "sent"}]
    /\ mails \in [Keys -> Nat]
    /\ events \in 0 .. MaxEvents
    /\ crashes \in 0 .. MaxCrashes
    /\ failures \in 0 .. MaxFailures

Init ==
    /\ day = 0 /\ cronDue = FALSE
    /\ registered \in SUBSET Suppliers
    /\ request = [r \in Requests |-> NoRequest]
    /\ invited = [r \in Requests |-> 0]
    /\ reminded = {}
    /\ claims = {} /\ sending = {} /\ posted = [c \in Suppliers \X Days |-> 0]
    /\ jobs = <<>>
    /\ running = [w \in Slots |-> Idle]
    /\ row = [k \in Keys |-> "none"]
    /\ mails = [k \in Keys |-> 0]
    /\ events = 0 /\ crashes = 0 /\ failures = 0

Enqueue(keys) == jobs' = jobs \o keys

Happens(kind) ==
    /\ kind \in Kinds /\ events < MaxEvents
    /\ events' = events + 1

Crash ==
    /\ crashes < MaxCrashes
    /\ crashes' = crashes + 1
    /\ UNCHANGED failures

Fail ==
    /\ failures < MaxFailures
    /\ failures' = failures + 1
    /\ UNCHANGED crashes

----------------------------------------------------------------------------
(* Handlers of events: they read who is to be told and enqueue *)

TellPrime(kind, about, n) ==
    /\ Happens(kind)
    /\ Enqueue(<<Key(kind, about, Prime, n)>>)
    /\ UNCHANGED <<day, cronDue, requestVars, inviteVars, workerVars, faults>>

\* The chain of the supplier's product has no gap left.
FinalValidationReady(s) == TellPrime("final_validation", s, 0)

\* A first submission or one after a rework.
SupplierSubmission(r) ==
    /\ request[r].of \in registered
    /\ TellPrime("submission_submitted", r, 0)

MasterFormSubmission(s) ==
    /\ s \in registered /\ day < LastDay
    /\ TellPrime("master_form_submitted", s, day)

\* Every parse of a document of the three categories makes the summary anew.
AiSynthesisReady(s) == TellPrime("ai_synthesis_prime", s, 0)

\* The supplier's account was made with the same submission.
OnboardingReviewNeeded(s) ==
    /\ s \in registered
    /\ TellPrime("onboarding_review", s, 0)

SourceChangeDeclared(s) ==
    /\ s \in registered
    /\ TellPrime("source_change", s, 0)

\* The key has the time it was sent at: each one is a notice of its own.
SupplierCorrection(s) ==
    /\ Happens("supplier_correction")
    /\ Enqueue(IF s \in registered THEN <<Key("supplier_correction", s, s, events')>> ELSE <<>>)
    /\ UNCHANGED <<day, cronDue, requestVars, inviteVars, workerVars, faults>>

\* SupplierInvited: one mail per supplier and day, claimed before it is sent.
SupplierInvited(s) ==
    /\ Happens("supplier_invited") /\ day < LastDay
    /\ claims' = claims \cup {<<s, day>>}
    /\ sending' = IF <<s, day>> \in claims THEN sending ELSE sending \cup {<<s, day>>}
    /\ UNCHANGED <<day, cronDue, requestVars, posted, jobs, workerVars, faults>>

\* send_email returns FALSE when the mail could not be sent.
SendInvitation(c) ==
    /\ c \in sending
    /\ sending' = sending \ {c}
    /\ posted' \in {posted, [posted EXCEPT ![c] = @ + 1]}
    /\ UNCHANGED <<day, cronDue, requestVars, claims, jobs, workerVars, events, faults>>

\* The process dies between the claim and the mail.
LoseInvitation(c) ==
    /\ c \in sending /\ Crash
    /\ sending' = sending \ {c}
    /\ UNCHANGED <<day, cronDue, requestVars, claims, posted, jobs, workerVars, events>>

----------------------------------------------------------------------------
(* Requests for data *)

Register(s) ==
    /\ registered' = registered \cup {s}
    /\ UNCHANGED <<day, cronDue, request, invited, reminded, inviteVars, jobs, workerVars, events, faults>>

\* The row is committed, by an API call or the handler of a gap of the map.
CreateRequest(r, s) ==
    /\ request[r] = NoRequest /\ day < LastDay /\ Happens("request")
    /\ request' = [request EXCEPT ![r] = [of |-> s, at |-> "made"]]
    /\ UNCHANGED <<day, cronDue, registered, invited, reminded, inviteVars, jobs, workerVars, faults>>

\* The users of every supplier of the tenant, not those of the supplier asked.
SupplierUsers == registered

RequestJobs(r) ==
    LET both(u) == <<Key("data_request_sent", r, u, 0), Key("data_request_email", r, u, 0)>>
    IN  FlattenSeq([i \in DOMAIN SetToSeq(SupplierUsers) |-> both(SetToSeq(SupplierUsers)[i])])

\* Only when the tenant has no supplier user at all is the contact mailed.
TellOfRequest(r) ==
    /\ request[r].at = "made"
    /\ request' = [request EXCEPT ![r].at = "told"]
    /\ Enqueue(RequestJobs(r))
    /\ invited' = IF SupplierUsers = {} THEN [invited EXCEPT ![r] = 1] ELSE invited
    /\ UNCHANGED <<day, cronDue, registered, reminded, inviteVars, workerVars, events, faults>>

\* Publishing or the n-th enqueue fails: the request stays.
TellOfRequestFails(r) ==
    /\ request[r].at = "made" /\ Fail
    /\ request' = [request EXCEPT ![r].at = "untold"]
    /\ \E n \in 0 .. Len(RequestJobs(r)) - 1 : Enqueue(SubSeq(RequestJobs(r), 1, n))
    /\ UNCHANGED <<day, cronDue, registered, invited, reminded, inviteVars, workerVars, events>>

\* Bound: a day is long enough for the worker to catch up.
NextDay ==
    /\ Len(jobs) <= Backlog
    /\ day' = IF day = LastDay THEN day ELSE day + 1
    /\ cronDue' = TRUE
    /\ UNCHANGED <<requestVars, inviteVars, jobs, workerVars, events, faults>>

\* Nothing sets response_status: a request stays overdue.  The last day stands
\* for those after the due date.
Overdue == {r \in Requests : request[r] # NoRequest /\ day = LastDay}

ReminderJobs == SetToSeq({Key("sla_reminder", r, u, 0) : r \in Overdue, u \in SupplierUsers})

\* A request that has been counted is left out.
SendRemindersOnce ==
    /\ cronDue
    /\ cronDue' = FALSE
    /\ Enqueue(SelectSeq(ReminderJobs, LAMBDA k : k[2] \notin reminded))
    /\ reminded' = reminded \cup Overdue
    /\ UNCHANGED <<day, registered, request, invited, inviteVars, workerVars, events, faults>>

\* All counts are committed in the end.
SendReminders ==
    /\ cronDue
    /\ cronDue' = FALSE
    /\ Enqueue(ReminderJobs)
    /\ reminded' = IF SupplierUsers = {} THEN reminded ELSE reminded \cup Overdue
    /\ UNCHANGED <<day, registered, request, invited, inviteVars, workerVars, events, faults>>

SendRemindersFails ==
    /\ cronDue /\ Fail
    /\ cronDue' = FALSE
    /\ \E n \in 0 .. Len(ReminderJobs) - 1 : Enqueue(SubSeq(ReminderJobs, 1, n))
    /\ UNCHANGED <<day, requestVars, inviteVars, workerVars, events>>

----------------------------------------------------------------------------
(* The notification worker *)

Take(w) ==
    /\ running[w] = Idle /\ jobs # <<>>
    /\ jobs' = Tail(jobs)
    /\ running' = [running EXCEPT ![w] = [key |-> Head(jobs), at |-> "insert"]]
    /\ UNCHANGED <<day, cronDue, requestVars, inviteVars, row, mails, events, faults>>

\* The mail of a duplicate is sent too.
InsertMailsAgain(w) ==
    LET k == running[w].key
    IN  /\ running[w].at = "insert"
        /\ row' = IF row[k] = "none" \/ Resurfaces(k) THEN [row EXCEPT ![k] = "pending"] ELSE row
        /\ running' = [running EXCEPT ![w] = IF ByMail(k) THEN [key |-> k, at |-> "mail"] ELSE Idle]
        /\ UNCHANGED <<day, cronDue, requestVars, inviteVars, jobs, mails, events, faults>>

\* DO NOTHING whatever the kind.
InsertOnce(w) ==
    LET k == running[w].key
        new == row[k] = "none"
    IN  /\ running[w].at = "insert"
        /\ row' = IF new THEN [row EXCEPT ![k] = "pending"] ELSE row
        /\ running' = [running EXCEPT ![w] = IF new /\ ByMail(k) THEN [key |-> k, at |-> "mail"] ELSE Idle]
        /\ UNCHANGED <<day, cronDue, requestVars, inviteVars, jobs, mails, events, faults>>

\* INSERT ... ON CONFLICT DO NOTHING, or DO UPDATE for a kind that resurfaces.
Insert(w) ==
    LET k == running[w].key
        new == row[k] = "none"
    IN  /\ running[w].at = "insert"
        /\ row' = IF new \/ Resurfaces(k) THEN [row EXCEPT ![k] = "pending"] ELSE row
        /\ running' = [running EXCEPT ![w] = IF new /\ ByMail(k) THEN [key |-> k, at |-> "mail"] ELSE Idle]
        /\ UNCHANGED <<day, cronDue, requestVars, inviteVars, jobs, mails, events, faults>>

SendMail(w) ==
    LET k == running[w].key
    IN  /\ running[w].at = "mail"
        /\ \/ /\ mails' = [mails EXCEPT ![k] = @ + 1]
              /\ running' = [running EXCEPT ![w].at = "mark"]
           \/ /\ running' = [running EXCEPT ![w] = Idle]
              /\ UNCHANGED mails
        /\ UNCHANGED <<day, cronDue, requestVars, inviteVars, jobs, row, events, faults>>

MarkSent(w) ==
    /\ running[w].at = "mark"
    /\ row' = [row EXCEPT ![running[w].key] = "sent"]
    /\ running' = [running EXCEPT ![w] = Idle]
    /\ UNCHANGED <<day, cronDue, requestVars, inviteVars, jobs, mails, events, faults>>

\* An exception ends the job, ARQ does not try it again.
JobFails(w) ==
    /\ running[w] # Idle /\ Fail
    /\ running' = [running EXCEPT ![w] = Idle]
    /\ UNCHANGED <<day, cronDue, requestVars, inviteVars, jobs, row, mails, events>>

\* The worker dies: ARQ starts its jobs again.
RestartWorker ==
    /\ \E w \in Slots : running[w] # Idle
    /\ Crash
    /\ LET busy == SetToSeq({w \in Slots : running[w] # Idle})
       IN  jobs' = [i \in DOMAIN busy |-> running[busy[i]].key] \o jobs
    /\ running' = [w \in Slots |-> Idle]
    /\ UNCHANGED <<day, cronDue, requestVars, inviteVars, row, mails, events>>

\* The list of a user has the in-app rows; reading is for the user's own.
Read(k) ==
    /\ row[k] = "pending" /\ ~ByMail(k)
    /\ row' = [row EXCEPT ![k] = "read"]
    /\ UNCHANGED <<day, cronDue, requestVars, inviteVars, jobs, running, mails, events, faults>>

Run(w) == Take(w) \/ Insert(w) \/ SendMail(w) \/ MarkSent(w)

Next ==
    \/ \E s \in Suppliers :
        \/ FinalValidationReady(s) \/ MasterFormSubmission(s) \/ AiSynthesisReady(s)
        \/ OnboardingReviewNeeded(s) \/ SourceChangeDeclared(s) \/ SupplierCorrection(s)
        \/ SupplierInvited(s) \/ Register(s)
        \/ \E r \in Requests : CreateRequest(r, s)
    \/ \E r \in Requests : SupplierSubmission(r) \/ TellOfRequest(r) \/ TellOfRequestFails(r)
    \/ \E c \in sending : SendInvitation(c) \/ LoseInvitation(c)
    \/ NextDay \/ SendReminders \/ SendRemindersFails
    \/ \E w \in Slots : Run(w) \/ JobFails(w)
    \/ RestartWorker
    \/ \E k \in Keys : Read(k)

Spec == Init /\ [][Next]_vars

\* A worker runs its jobs and starts the daily one, days pass.
FairSpec ==
    /\ Spec
    /\ \A w \in Slots : WF_vars(Run(w))
    /\ WF_vars(NextDay) /\ WF_vars(SendReminders)

----------------------------------------------------------------------------
(* Properties *)

\* No notice and no invitation of a day is mailed twice, whatever the worker
\* repeats after it died and however often an event is delivered
\* (notification_worker.py:75, supplier_invited.py:89).
MailOnce ==
    /\ \A k \in Keys : mails[k] <= 1
    /\ \A c \in DOMAIN posted : posted[c] <= 1

\* A master form sent again the same day is shown as unread again, unless the
\* job raises: restarts of the worker lose nothing (notification_worker.py:34).
Resurfaced ==
    \A s \in Suppliers, d \in 0 .. LastDay - 1 :
        LET k == Key("master_form_submitted", s, Prime, d)
        IN  (\E i \in DOMAIN jobs : jobs[i] = k) ~> row[k] = "pending" \/ failures > 0

\* A supplier with an account hears of a request in the end: when telling of it
\* fails the daily reminders make up for it (submission/service.py:161, 418).
RequestHeardOf ==
    \A r \in Requests, s \in Suppliers :
        request[r].of = s /\ s \in registered
            ~> \E kind \in RequestKinds : row[Key(kind, r, s, 0)] # "none"
=============================================================================
