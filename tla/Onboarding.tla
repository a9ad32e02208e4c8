----------------------------- MODULE Onboarding -----------------------------
(***************************************************************************)
(* How suppliers come into the system: the buyer registers one and invites *)
(* it, the supplier signs up by the public link, and names suppliers of    *)
(* its own, which are registered and invited in the same transaction.  The *)
(* sign-up checks first, takes the row of the supplier with its first      *)
(* write, and publishes after its commit.  Meanwhile the consent documents *)
(* of the supplier are sent, returned, agreed to or revoked.               *)
(***************************************************************************)
EXTENDS Naturals, Sequences, FiniteSets

CONSTANTS
    Suppliers,        \* the ids there may be
    Seeded,           \* those that are there at the start
    Strangers,        \* ids of no supplier, as a client may send them
    Null,             \* SQL's NULL
    Names, Emails,
    Callers,          \* requests that may overlap
    MaxCalls,         \* bound: registrations and sign-ups
    MaxLetters,       \* bound: consent documents of a supplier, and changes of them
    MaxCrashes        \* bound: requests that die

ASSUME SuppliersAssumption ==
    /\ Seeded \subseteq Suppliers
    /\ Suppliers \cap Strangers = {}
    /\ Null \notin Suppliers \cup Strangers \cup Names \cup Emails
ASSUME OnboardingBounds == {MaxCalls, MaxLetters, MaxCrashes} \subseteq Nat

VARIABLES
    suppliers,   \* suppliers with the consent_status of supplier_onboarding
    users,       \* the active accounts of suppliers
    consents,    \* data_provision_consents: the status of each document, oldest first
    events,      \* what was published
    call,        \* per caller: what it is doing
    overtaken,   \* history: an account was made on a check another sign-up had overtaken
    calls, letters, crashes   \* bound counters

onboardingVars == <<suppliers, users, consents, events, call, overtaken, calls, letters, crashes>>

Rows == [status : {"supplier_pending", "supplier_review"}, name : Names,
         consent : {"consent_pending", "consent_agreed"}]

Refused == {"rejected", "revoked", "expired"}
Pending == {"requested", "returned"}
ConsentStatus == Refused \cup Pending \cup {"agreed"}

Events == [kind : {"SupplierInvited"}, supplier : Suppliers,
           inviter : Suppliers \cup Strangers \cup {Null}]
          \cup [kind : {"SupplierStatusChanged"}, supplier : Suppliers]

\* The supplier row is locked from "locked" to "found".  sign: the consent
\* document to be signed, 0 for none; known: the suppliers found by name;
\* todo: what is left to publish.  stale, moved: history, another sign-up was
\* committed, the document changed, since the caller looked.
Calls == [pc : {"idle", "checked", "locked", "enrolled", "found", "committed"},
          supplier : Suppliers \cup {Null}, email : Emails \cup {Null}, name : Names \cup {Null},
          agrees : BOOLEAN, subs : SUBSET Names,
          sign : Nat, known : [Names -> Suppliers \cup {Null}],
          todo : SUBSET Events, stale : BOOLEAN, moved : BOOLEAN]

\* users.email is UNIQUE.
OnboardingTypeOK ==
    /\ \E known \in SUBSET Suppliers : Seeded \subseteq known /\ suppliers \in [known -> Rows]
    /\ users \subseteq [email : Emails, supplier : Suppliers]
    /\ \A u, v \in users : u.email = v.email => u = v
    /\ consents \in [Suppliers -> Seq(ConsentStatus)]
    /\ events \subseteq Events
    /\ call \in [Callers -> Calls]
    /\ overtaken \in BOOLEAN
    /\ {calls, letters, crashes} \subseteq Nat

-----------------------------------------------------------------------------

Row(status, name, consent) == [status |-> status, name |-> name, consent |-> consent]

\* The row and, by a trigger, its onboarding row.
NewRow(name) == Row("supplier_pending", name, "consent_pending")

Invited(s, inviter) == [kind |-> "SupplierInvited", supplier |-> s, inviter |-> inviter]

StatusChanged(s) == [kind |-> "SupplierStatusChanged", supplier |-> s]

Unknown == [n \in Names |-> Null]

Idle == [pc |-> "idle", supplier |-> Null, email |-> Null, name |-> Null, agrees |-> FALSE, subs |-> {}, sign |-> 0,
         known |-> Unknown, todo |-> {}, stale |-> FALSE, moved |-> FALSE]

Known == DOMAIN suppliers

Locked(s) == \E d \in Callers : call[d].pc \in {"locked", "enrolled", "found"} /\ call[d].supplier = s

OnboardingInit ==
    /\ \E name \in [Seeded -> Names] : suppliers = [s \in Seeded |-> NewRow(name[s])]
    /\ users = {}
    /\ consents = [s \in Suppliers |-> <<>>]
    /\ events = {}
    /\ call = [c \in Callers |-> Idle]
    /\ overtaken = FALSE
    /\ calls = 0 /\ letters = 0 /\ crashes = 0

Call(c) ==
    /\ call[c].pc = "idle"
    /\ calls < MaxCalls
    /\ calls' = calls + 1

-----------------------------------------------------------------------------
(* create_supplier_and_invite: one transaction, then the event.  Nobody    *)
(* looks the inviter up that the client names.                             *)

Register(c, s, name, inviter) ==
    /\ Call(c)
    /\ s \in Suppliers \ Known
    /\ suppliers' = [t \in Known \cup {s} |-> IF t = s THEN NewRow(name) ELSE suppliers[t]]
    /\ call' = [call EXCEPT ![c] = [Idle EXCEPT !.pc = "committed", !.todo = {Invited(s, inviter)}]]
    /\ UNCHANGED <<users, consents, events, overtaken, letters, crashes>>

-----------------------------------------------------------------------------
(* submit_onboarding                                                       *)

\* Variant, not the code: nobody asks whether the supplier has an account.
SubmitAgain(c, s, email, name, agrees, subs) ==
    /\ Call(c)
    /\ s \in Known
    /\ \A u \in users : u.email # email
    /\ call' = [call EXCEPT ![c] =
                  [Idle EXCEPT !.pc = "checked", !.supplier = s, !.email = email, !.name = name,
                               !.agrees = agrees, !.subs = subs]]
    /\ UNCHANGED <<suppliers, users, consents, events, overtaken, letters, crashes>>

\* Refused if the supplier has an active account or the address is taken.
Submit(c, s, email, name, agrees, subs) ==
    /\ Call(c)
    /\ s \in Known
    /\ \A u \in users : u.supplier # s /\ u.email # email
    /\ call' = [call EXCEPT ![c] =
                  [Idle EXCEPT !.pc = "checked", !.supplier = s, !.email = email, !.name = name,
                               !.agrees = agrees, !.subs = subs]]
    /\ UNCHANGED <<suppliers, users, consents, events, overtaken, letters, crashes>>

\* Variant, not the code: the latest document, whatever became of it.
PendingConsentAny(s) == Len(consents[s])

\* The latest document that waits for an answer.
PendingConsent(s) ==
    LET waiting == {i \in DOMAIN consents[s] : consents[s][i] \in Pending} IN
    IF waiting = {} THEN 0 ELSE CHOOSE i \in waiting : \A j \in waiting : j <= i

\* The update of the company takes its row; the document is looked up.
LockCompany(c) ==
    LET k == call[c] IN
    /\ k.pc = "checked"
    /\ ~Locked(k.supplier)
    /\ call' = [call EXCEPT ![c].pc = "locked",
                            ![c].sign = IF k.agrees THEN PendingConsent(k.supplier) ELSE 0]
    /\ UNCHANGED <<suppliers, users, consents, events, overtaken, calls, letters, crashes>>

\* The document is signed and the account inserted: a second account of one
\* address waits for the first, and fails with it there.
Enroll(c) ==
    LET k == call[c] IN
    /\ k.pc = "locked"
    /\ \A d \in Callers : call[d].pc \in {"enrolled", "found"} => call[d].email # k.email
    /\ call' = [call EXCEPT ![c] =
                  IF \E u \in users : u.email = k.email THEN Idle ELSE [k EXCEPT !.pc = "enrolled"]]
    /\ UNCHANGED <<suppliers, users, consents, events, overtaken, calls, letters, crashes>>

\* The suppliers a caller sees: its own is renamed already.
NameSeen(c, s) == IF s = call[c].supplier THEN call[c].name ELSE suppliers[s].name

\* Variant, not the code: the events go out before the commit.
LookUpSuppliersAnnounced(c) ==
    LET k == call[c] IN
    /\ k.pc = "enrolled"
    /\ \E known \in [Names -> Known \cup {Null}] :
         /\ \A n \in Names :
              LET named == {s \in Known : NameSeen(c, s) = n} IN
              known[n] \in IF n \in k.subs /\ named # {} THEN named ELSE {Null}
         /\ call' = [call EXCEPT ![c].pc = "found", ![c].known = known]
    /\ events' = events \cup {StatusChanged(k.supplier)}
    /\ UNCHANGED <<suppliers, users, consents, overtaken, calls, letters, crashes>>

\* get_supplier_by_name for each supplier named: one of those that have it.
LookUpSuppliers(c) ==
    LET k == call[c] IN
    /\ k.pc = "enrolled"
    /\ \E known \in [Names -> Known \cup {Null}] :
         /\ \A n \in Names :
              LET named == {s \in Known : NameSeen(c, s) = n} IN
              known[n] \in IF n \in k.subs /\ named # {} THEN named ELSE {Null}
         /\ call' = [call EXCEPT ![c].pc = "found", ![c].known = known]
    /\ UNCHANGED <<suppliers, users, consents, events, overtaken, calls, letters, crashes>>

\* Ids for the names nobody had.
FreshIds(names) ==
    {f \in [names -> Suppliers \ Known] : \A n, o \in names : f[n] = f[o] => n = o}

\* Everything at once: company, gate, document, status, account, and the
\* suppliers below.  The events are left to publish.
Commit(c) ==
    LET k == call[c]
        new == {n \in k.subs : k.known[n] = Null} IN
    /\ k.pc = "found"
    /\ \E id \in FreshIds(new) :
         /\ suppliers' = [s \in Known \cup {id[n] : n \in new} |->
                            IF s = k.supplier THEN Row("supplier_review", k.name, "consent_agreed")
                            ELSE IF s \in Known THEN suppliers[s]
                            ELSE NewRow(CHOOSE n \in new : id[n] = s)]
         /\ call' = [d \in Callers |->
                       IF d = c
                         THEN [Idle EXCEPT !.pc = "committed",
                                 !.todo = {StatusChanged(k.supplier)}
                                          \cup {Invited(IF n \in new THEN id[n] ELSE k.known[n], k.supplier)
                                                  : n \in k.subs}]
                         ELSE [call[d] EXCEPT !.stale =
                                 @ \/ (call[d].pc # "idle" /\ call[d].supplier = k.supplier)]]
    /\ users' = users \cup {[email |-> k.email, supplier |-> k.supplier]}
    /\ consents' = IF k.sign = 0 THEN consents ELSE [consents EXCEPT ![k.supplier][k.sign] = "agreed"]
    /\ overtaken' = (overtaken \/ k.stale)
    /\ UNCHANGED <<events, calls, letters, crashes>>

\* The invitations first, the change of status last.
Announce(c) ==
    /\ call[c].pc = "committed"
    /\ \E e \in call[c].todo :
         /\ e.kind = "SupplierStatusChanged" => call[c].todo = {e}
         /\ events' = events \cup {e}
         /\ call' = [call EXCEPT ![c] =
                       IF call[c].todo = {e} THEN Idle ELSE [call[c] EXCEPT !.todo = @ \ {e}]]
    /\ UNCHANGED <<suppliers, users, consents, overtaken, calls, letters, crashes>>

\* The process dies: a transaction is rolled back, and what was not published
\* never is.
Die(c) ==
    /\ call[c].pc # "idle"
    /\ crashes < MaxCrashes
    /\ crashes' = crashes + 1
    /\ call' = [call EXCEPT ![c] = Idle]
    /\ UNCHANGED <<suppliers, users, consents, events, overtaken, calls, letters>>

-----------------------------------------------------------------------------
(* create_consent, update_consent                                          *)

Letter == letters < MaxLetters /\ letters' = letters + 1

CreateConsent(s) ==
    /\ Letter
    /\ s \in Known
    /\ Len(consents[s]) < MaxLetters
    /\ consents' = [consents EXCEPT ![s] = Append(@, "requested")]
    /\ UNCHANGED <<suppliers, users, events, call, overtaken, calls, crashes>>

\* Any status may follow any: the gate of the supplier stays as it is.  A
\* document that is being signed is locked.
UpdateConsent(s, i, status) ==
    /\ Letter
    /\ i \in DOMAIN consents[s]
    /\ \A c \in Callers :
         call[c].pc \in {"enrolled", "found"} => <<call[c].supplier, call[c].sign>> # <<s, i>>
    /\ consents' = [consents EXCEPT ![s][i] = status]
    /\ call' = [c \in Callers |->
                  [call[c] EXCEPT !.moved =
                     @ \/ (call[c].pc = "locked" /\ <<call[c].supplier, call[c].sign>> = <<s, i>>)]]
    /\ UNCHANGED <<suppliers, users, events, overtaken, calls, crashes>>

-----------------------------------------------------------------------------

OnboardingNext ==
    \/ \E c \in Callers :
         \/ \E s \in Suppliers, name \in Names, inviter \in Known \cup Strangers \cup {Null} :
              Register(c, s, name, inviter)
         \/ \E s \in Suppliers, email \in Emails, name \in Names, agrees \in BOOLEAN,
               subs \in SUBSET Names : Submit(c, s, email, name, agrees, subs)
         \/ LockCompany(c)
         \/ Enroll(c)
         \/ LookUpSuppliers(c)
         \/ Commit(c)
         \/ Announce(c)
         \/ Die(c)
    \/ \E s \in Suppliers : CreateConsent(s)
    \/ \E s \in Suppliers, i \in 1..MaxLetters, status \in ConsentStatus : UpdateConsent(s, i, status)

OnboardingSpec == OnboardingInit /\ [][OnboardingNext]_onboardingVars

-----------------------------------------------------------------------------
(* Properties                                                              *)

AccountsOf(s) == {u \in users : u.supplier = s}

\* submit_onboarding: a supplier gets a second account only if two sign-ups
\* for it overlap, each with an address of its own.
OneAccount == overtaken \/ \A s \in Suppliers : Cardinality(AccountsOf(s)) <= 1

\* Events follow the commit: nobody is invited who is not registered, and a
\* change of status is announced of suppliers that have an account, an open
\* gate and a review to come, whatever became of the requests.  An inviter that
\* has no row is one the client of a registration sent, whom nobody checks
\* (supplier/router.py:76); a sign-up invites in the name of a known supplier.
AnnouncedBacked ==
    \A e \in events :
        /\ e.supplier \in Known
        /\ e.kind = "SupplierInvited" => e.inviter \in Known \cup Strangers \cup {Null}
        /\ e.kind = "SupplierStatusChanged" =>
             /\ AccountsOf(e.supplier) # {}
             /\ suppliers[e.supplier].status = "supplier_review"
             /\ suppliers[e.supplier].consent = "consent_agreed"

\* A sign-up agrees to a document that waits for an answer.  A refusal or a
\* revocation is lost only if it comes between its look and its signature.
RefusalStands ==
    [][\A c \in Callers :
         LET k == call[c] IN
         (k.pc = "found" /\ call'[c].pc = "committed" /\ k.sign # 0 /\ ~k.moved)
            => consents[k.supplier][k.sign] \in Pending]_onboardingVars
=============================================================================
