--------------------------- MODULE SupplierProofs ----------------------------
(***************************************************************************)
(* What a supplier does, for every set of suppliers, names, addresses,     *)
(* files, callers and handlers: it signs up (Onboarding) and uploads       *)
(* documents that are parsed once (DocumentParse).                         *)
(***************************************************************************)
EXTENDS Onboarding, DocumentParse, FiniteSetTheorems, SequenceTheorems, WellFoundedInduction,
        TLAPS

(***************************************************************************)
(* Onboarding.  A sign-up that was not overtaken still finds its supplier  *)
(* without an account; the unique address and the lock of the supplier's   *)
(* row keep sign-ups apart from the one to the other; and what a request   *)
(* is about to publish stays true, because rows are never taken back.      *)
(***************************************************************************)
Active == {"checked", "locked", "enrolled", "found"}
Holding == {"locked", "enrolled", "found"}
Enrolled == {"enrolled", "found"}

\* What an event says is in the tables.
Backed(e) ==
    /\ e.supplier \in Known
    /\ e.kind = "SupplierInvited" => e.inviter \in Known \cup Strangers \cup {Null}
    /\ e.kind = "SupplierStatusChanged" =>
         /\ \E u \in users : u.supplier = e.supplier
         /\ suppliers[e.supplier].status = "supplier_review"
         /\ suppliers[e.supplier].consent = "consent_agreed"

\* A sign-up at work is about a supplier that is known, and names suppliers
\* that are.
Grounded(k) ==
    /\ k.pc \in Active => k.supplier \in Known /\ k.email \in Emails /\ k.name \in Names
    /\ \A n \in Names : k.known[n] \in Known \cup {Null}
    /\ \A e \in k.todo : Backed(e)

\* A sign-up that was not overtaken is the first of its supplier, and one that
\* inserted its account has the address to itself.
First(k) ==
    /\ k.pc \in Active /\ ~k.stale => \A u \in users : u.supplier # k.supplier
    /\ k.pc \in Enrolled => \A u \in users : u.email # k.email

\* The document to be signed waits for an answer, unless it moved.
Signs(k) ==
    /\ k.pc = "checked" => k.sign = 0
    /\ k.pc \in Holding =>
        /\ k.sign \in 0 .. Len(consents[k.supplier])
        /\ k.sign # 0 /\ ~k.moved => consents[k.supplier][k.sign] \in Pending

\* Two requests hold neither one supplier nor one address.
Apart(k, l) ==
    /\ k.pc \in Holding /\ l.pc \in Holding => k.supplier # l.supplier
    /\ k.pc \in Enrolled /\ l.pc \in Enrolled => k.email # l.email

SupplierTypes ==
    /\ \E known \in SUBSET Suppliers : Seeded \subseteq known /\ suppliers \in [known -> Rows]
    /\ users \subseteq [email : Emails, supplier : Suppliers]
    /\ \A u, v \in users : u.email = v.email => u = v

OneEach == overtaken \/ \A u, v \in users : u.supplier = v.supplier => u = v

Tables ==
    /\ SupplierTypes
    /\ consents \in [Suppliers -> Seq(ConsentStatus)]
    /\ events \subseteq Events
    /\ \A e \in events : Backed(e)
    /\ OneEach

Sound(k) == k \in Calls /\ Grounded(k) /\ First(k) /\ Signs(k)

CallsSound ==
    /\ call \in [Callers -> Calls]
    /\ \A c \in Callers : Sound(call[c])
    /\ \A c, d \in Callers : c # d => Apart(call[c], call[d])

Counters == overtaken \in BOOLEAN /\ calls \in Nat /\ letters \in Nat /\ crashes \in Nat

IInv == Tables /\ CallsSound /\ Counters

LEMMA InvTypes == IInv => OnboardingTypeOK
  BY DEF IInv, Tables, SupplierTypes, CallsSound, Sound, Counters, OnboardingTypeOK

LEMMA IdleSound == Sound(Idle) /\ \A k : Apart(Idle, k) /\ Apart(k, Idle)
<1>1. Idle \in Calls
  BY DEF Idle, Calls, Unknown
<1>2. Grounded(Idle)
  BY DEF Idle, Grounded, Active, Unknown
<1>3. First(Idle) /\ Signs(Idle)
  BY DEF Idle, First, Signs, Active, Holding, Enrolled
<1>4. \A k : Apart(Idle, k) /\ Apart(k, Idle)
  BY DEF Idle, Apart, Holding, Enrolled
<1> QED
  BY <1>1, <1>2, <1>3, <1>4 DEF Sound

LEMMA InitInv == OnboardingInit => IInv
<1> SUFFICES ASSUME OnboardingInit PROVE IInv
  OBVIOUS
<1>1. PICK name \in [Seeded -> Names] : suppliers = [s \in Seeded |-> NewRow(name[s])]
  BY DEF OnboardingInit
<1>2. suppliers \in [Seeded -> Rows]
  BY <1>1 DEF NewRow, Row, Rows
<1>3. Tables
  <2>1. SupplierTypes
    BY <1>2, SuppliersAssumption DEF OnboardingInit, SupplierTypes
  <2> QED
    BY <2>1 DEF OnboardingInit, Tables, OneEach
<1>4. CallsSound
  <2>1. \A c \in Callers : call[c] = Idle
    BY DEF OnboardingInit
  <2>2. call \in [Callers -> Calls]
    BY IdleSound DEF OnboardingInit, Sound
  <2>3. \A c \in Callers : Sound(call[c])
    BY <2>1, IdleSound
  <2>4. ASSUME NEW c \in Callers, NEW d \in Callers PROVE Apart(call[c], call[d])
    BY <2>1, IdleSound
  <2> QED
    BY <2>2, <2>3, <2>4 DEF CallsSound
<1>5. Counters
  <2>1. overtaken = FALSE /\ calls = 0 /\ letters = 0 /\ crashes = 0
    BY DEF OnboardingInit
  <2> QED
    BY <2>1 DEF Counters
<1> QED
  BY <1>3, <1>4, <1>5 DEF IInv

\* One request moves, and the tables stay.
LEMMA CallMoves ==
    ASSUME IInv, NEW c \in Callers, NEW k, Sound(k),
           call' = [call EXCEPT ![c] = k],
           \A d \in Callers \ {c} : Apart(k, call[d]) /\ Apart(call[d], k),
           UNCHANGED <<suppliers, users, consents>>
    PROVE  CallsSound'
<1>1. call \in [Callers -> Calls] /\ k \in Calls
  BY DEF IInv, CallsSound, Sound
<1>2. call' \in [Callers -> Calls] /\ \A d \in Callers : call'[d] = IF d = c THEN k ELSE call[d]
  BY <1>1
<1>3. ASSUME NEW d \in Callers PROVE Sound(call[d])'
  <2>1. Sound(call'[d])
    BY <1>2 DEF IInv, CallsSound
  <2> QED
    BY <2>1 DEF Sound, Grounded, First, Signs, Backed, Known
<1>4. ASSUME NEW d \in Callers, NEW e \in Callers, d # e PROVE Apart(call[d], call[e])'
  <2>1. Apart(call'[d], call'[e])
    BY <1>2, <1>4 DEF IInv, CallsSound
  <2> QED
    BY <2>1 DEF Apart
<1> QED
  BY <1>2, <1>3, <1>4 DEF CallsSound

LEMMA Least == ASSUME NEW T, T \subseteq Nat, T # {} PROVE \E n \in T : \A m \in T : n <= m
<1>1. IsWellFoundedOn({x \in Nat \X Nat : x[1] < x[2]}, Nat)
  BY NatLessThanWellFounded, Zenon DEF OpToRel
<1>2. PICK n \in T : \A m \in T : <<m, n>> \notin {x \in Nat \X Nat : x[1] < x[2]}
  BY <1>1, WFMin
<1>3. \A m \in T : ~(m < n)
  BY <1>2
<1> QED
  BY <1>3

LEMMA PendingConsentIs ==
    ASSUME NEW s, consents[s] \in Seq(ConsentStatus)
    PROVE  /\ PendingConsent(s) \in 0 .. Len(consents[s])
           /\ PendingConsent(s) # 0 => consents[s][PendingConsent(s)] \in Pending
<1> DEFINE N == Len(consents[s])
           waiting == {i \in DOMAIN consents[s] : consents[s][i] \in Pending}
           Latest(i) == i \in waiting /\ \A j \in waiting : j <= i
<1>1. N \in Nat /\ DOMAIN consents[s] = 1 .. N
  OBVIOUS
<1>2. CASE waiting = {}
  BY <1>1, <1>2 DEF PendingConsent
<1>3. CASE waiting # {}
  <2> DEFINE T == {N - i : i \in waiting}
  <2>0. \A i \in waiting : i \in 1 .. N /\ N - i \in Nat /\ N - i \in T
    BY <1>1
  <2>1. T \subseteq Nat /\ T # {}
    <3> HIDE DEF N, waiting
    <3> QED
      BY <1>3, <2>0
  <2>2. PICK n \in T : \A m \in T : n <= m
    <3> HIDE DEF T
    <3> QED
      BY <2>1, Least
  <2>3. PICK i \in waiting : n = N - i
    BY <2>2
  <2>4. Latest(i)
    <3> HIDE DEF N, waiting, T
    <3> QED
      BY <1>1, <2>0, <2>2, <2>3
  <2>5. PendingConsent(s) = CHOOSE x : Latest(x)
    <3>1. PendingConsent(s) = CHOOSE x \in waiting : \A j \in waiting : j <= x
      BY <1>3 DEF PendingConsent
    <3> QED
      BY <3>1, Zenon
  <2>6. Latest(PendingConsent(s))
    <3> HIDE DEF Latest
    <3> QED
      BY <2>4, <2>5
  <2> QED
    BY <1>1, <2>6
<1> QED
  BY <1>2, <1>3

LEMMA SubmitInv ==
    ASSUME IInv, NEW c \in Callers, NEW s \in Suppliers, NEW email \in Emails, NEW name \in Names,
           NEW agrees \in BOOLEAN, NEW subs \in SUBSET Names, Submit(c, s, email, name, agrees, subs)
    PROVE  IInv'
<1> DEFINE k == [Idle EXCEPT !.pc = "checked", !.supplier = s, !.email = email, !.name = name,
                             !.agrees = agrees, !.subs = subs]
<1>1. call' = [call EXCEPT ![c] = k] /\ UNCHANGED <<suppliers, users, consents, events, overtaken, letters, crashes>>
  BY DEF Submit
<1>2. Sound(k)
  <2>1. k \in Calls
    BY IdleSound DEF Sound, Calls, Idle, Unknown
  <2>2. Grounded(k)
    BY DEF Submit, Grounded, Idle, Unknown
  <2>3. First(k) /\ Signs(k)
    <3>1. Len(consents[s]) \in Nat
      BY DEF IInv, Tables
    <3> QED
      BY <3>1 DEF Submit, First, Signs, Idle, Holding, Enrolled
  <2> QED
    BY <2>1, <2>2, <2>3 DEF Sound
<1>3. \A l : Apart(k, l) /\ Apart(l, k)
  BY DEF Apart, Idle, Holding, Enrolled
<1>4. CallsSound'
  <2> HIDE DEF k
  <2> QED
    BY <1>1, <1>2, <1>3, CallMoves
<1>5. Tables'
  BY <1>1 DEF IInv, Tables, SupplierTypes, OneEach, Backed, Known
<1>6. Counters'
  BY <1>1 DEF IInv, Counters, Submit, Call
<1> QED
  BY <1>4, <1>5, <1>6 DEF IInv

\* A step that leaves the tables.
LEMMA TablesStay ==
    ASSUME IInv, UNCHANGED <<suppliers, users, consents, events, overtaken>> PROVE Tables'
  BY DEF IInv, Tables, SupplierTypes, OneEach, Backed, Known

LEMMA LockCompanyInv == ASSUME IInv, NEW c \in Callers, LockCompany(c) PROVE IInv'
<1> DEFINE old == call[c]
           sign == IF old.agrees THEN PendingConsent(old.supplier) ELSE 0
           k == [old EXCEPT !.pc = "locked", !.sign = sign]
<1>1. /\ call' = [call EXCEPT ![c] = k]
      /\ UNCHANGED <<suppliers, users, consents, events, overtaken, calls, letters, crashes>>
  BY DEF LockCompany
<1>2. Sound(old) /\ old.pc = "checked"
  BY DEF IInv, CallsSound, LockCompany
<1>3. Sound(k)
  <2>0. old.supplier \in Known /\ Known \subseteq Suppliers
    BY <1>2 DEF Sound, Grounded, Active, IInv, Tables, SupplierTypes, Known
  <2>1. /\ PendingConsent(old.supplier) \in 0 .. Len(consents[old.supplier])
        /\ PendingConsent(old.supplier) # 0 =>
             consents[old.supplier][PendingConsent(old.supplier)] \in Pending
    BY <2>0, PendingConsentIs DEF IInv, Tables
  <2>2. sign \in 0 .. Len(consents[old.supplier]) /\ Len(consents[old.supplier]) \in Nat
        /\ (sign # 0 => consents[old.supplier][sign] \in Pending)
    BY <2>0, <2>1 DEF IInv, Tables
  <2> HIDE DEF sign
  <2>3. k \in Calls
    <3>1. sign \in Nat /\ old \in Calls
      BY <1>2, <2>2 DEF Sound
    <3> HIDE DEF old
    <3> QED
      BY <3>1 DEF Calls
  <2>4. Grounded(k) /\ First(k) /\ Signs(k)
    BY <1>2, <2>2 DEF Sound, Calls, Grounded, First, Signs, Active, Holding, Enrolled
  <2> QED
    BY <2>3, <2>4 DEF Sound
<1>4. \A d \in Callers \ {c} : Apart(k, call[d]) /\ Apart(call[d], k)
  BY <1>2 DEF LockCompany, Locked, Apart, Holding, Enrolled, Sound, Calls
<1>5. CallsSound'
  <2> HIDE DEF k
  <2> QED
    BY <1>1, <1>3, <1>4, CallMoves
<1> QED
  BY <1>1, <1>5, TablesStay DEF IInv, Counters

LEMMA EnrollInv == ASSUME IInv, NEW c \in Callers, Enroll(c) PROVE IInv'
<1> DEFINE old == call[c]
           new == [old EXCEPT !.pc = "enrolled"]
           k == IF \E u \in users : u.email = old.email THEN Idle ELSE new
<1>1. /\ call' = [call EXCEPT ![c] = k]
      /\ UNCHANGED <<suppliers, users, consents, events, overtaken, calls, letters, crashes>>
  BY DEF Enroll
<1>2. Sound(old) /\ old.pc = "locked"
  BY DEF IInv, CallsSound, Enroll
<1>3. ASSUME ~\E u \in users : u.email = old.email PROVE Sound(new)
  BY <1>2, <1>3 DEF Sound, Calls, Grounded, First, Signs, Active, Holding, Enrolled
<1>4. Sound(k)
  BY <1>3, IdleSound
<1>5. ASSUME NEW d \in Callers \ {c} PROVE Apart(k, call[d]) /\ Apart(call[d], k)
  <2>1. Apart(old, call[d]) /\ Apart(call[d], old)
    BY DEF IInv, CallsSound
  <2>2. Apart(new, call[d]) /\ Apart(call[d], new)
    BY <1>2, <2>1 DEF Apart, Holding, Enrolled, Sound, Calls, Enroll
  <2> QED
    BY <2>2, IdleSound
<1>6. CallsSound'
  <2> HIDE DEF k
  <2> QED
    BY <1>1, <1>4, <1>5, CallMoves
<1> QED
  BY <1>1, <1>6, TablesStay DEF IInv, Counters

LEMMA LookUpInv == ASSUME IInv, NEW c \in Callers, LookUpSuppliers(c) PROVE IInv'
<1>1. PICK known \in [Names -> Known \cup {Null}] :
        call' = [call EXCEPT ![c].pc = "found", ![c].known = known]
  BY DEF LookUpSuppliers
<1> DEFINE old == call[c]
           k == [old EXCEPT !.pc = "found", !.known = known]
<1>2. /\ call' = [call EXCEPT ![c] = k]
      /\ UNCHANGED <<suppliers, users, consents, events, overtaken, calls, letters, crashes>>
  BY <1>1 DEF LookUpSuppliers
<1>3. Sound(old) /\ old.pc = "enrolled"
  BY DEF IInv, CallsSound, LookUpSuppliers
<1>4. known \in [Names -> Suppliers \cup {Null}]
  BY DEF IInv, Tables, SupplierTypes, Known
<1>5. Sound(k)
  BY <1>3, <1>4 DEF Sound, Calls, Grounded, First, Signs, Active, Holding, Enrolled
<1>6. ASSUME NEW d \in Callers \ {c} PROVE Apart(k, call[d]) /\ Apart(call[d], k)
  <2>1. Apart(old, call[d]) /\ Apart(call[d], old)
    BY DEF IInv, CallsSound
  <2> QED
    BY <1>3, <2>1 DEF Apart, Holding, Enrolled, Sound, Calls
<1>7. CallsSound'
  <2> HIDE DEF k
  <2> QED
    BY <1>2, <1>5, <1>6, CallMoves
<1> QED
  BY <1>2, <1>7, TablesStay DEF IInv, Counters

LEMMA DieInv == ASSUME IInv, NEW c \in Callers, Die(c) PROVE IInv'
<1>1. /\ call' = [call EXCEPT ![c] = Idle]
      /\ UNCHANGED <<suppliers, users, consents, events, overtaken, calls, letters>>
  BY DEF Die
<1>2. CallsSound'
  BY <1>1, IdleSound, CallMoves
<1> QED
  BY <1>1, <1>2, TablesStay DEF IInv, Counters, Die

LEMMA AnnounceInv == ASSUME IInv, NEW c \in Callers, Announce(c) PROVE IInv'
<1> DEFINE old == call[c]
<1>1. PICK e \in old.todo :
        /\ events' = events \cup {e}
        /\ call' = [call EXCEPT ![c] =
                       IF call[c].todo = {e} THEN Idle ELSE [call[c] EXCEPT !.todo = @ \ {e}]]
  BY Zenon DEF Announce
<1> DEFINE new == [old EXCEPT !.todo = old.todo \ {e}]
           k == IF old.todo = {e} THEN Idle ELSE new
<1>2. Sound(old) /\ old.pc = "committed"
  BY DEF IInv, CallsSound, Announce
<1>3. Sound(new)
  BY <1>2 DEF Sound, Calls, Grounded, First, Signs, Active, Holding, Enrolled
<1>4. Sound(k)
  BY <1>3, IdleSound
<1>5. \A d \in Callers \ {c} : Apart(new, call[d]) /\ Apart(call[d], new)
  BY <1>2 DEF Apart, Holding, Enrolled, Sound, Calls
<1>6. CallsSound'
  <2>1. \A d \in Callers \ {c} : Apart(k, call[d]) /\ Apart(call[d], k)
    BY <1>5, IdleSound
  <2>2. UNCHANGED <<suppliers, users, consents>>
    BY DEF Announce
  <2>3. call' = [call EXCEPT ![c] = k]
    BY <1>1, Zenon
  <2> HIDE DEF k
  <2> QED
    BY <1>4, <2>1, <2>2, <2>3, CallMoves
<1>7. Backed(e) /\ e \in Events
  BY <1>2 DEF Sound, Grounded, Calls
<1>8. Tables'
  BY <1>1, <1>7 DEF IInv, Tables, SupplierTypes, OneEach, Backed, Known, Announce
<1> QED
  BY <1>6, <1>8 DEF IInv, Counters, Announce

LEMMA RegisterInv ==
    ASSUME IInv, NEW c \in Callers, NEW s \in Suppliers, NEW name \in Names,
           NEW inviter \in Known \cup Strangers \cup {Null}, Register(c, s, name, inviter)
    PROVE  IInv'
<1> DEFINE k == [Idle EXCEPT !.pc = "committed", !.todo = {Invited(s, inviter)}]
<1>1. /\ s \in Suppliers \ Known
      /\ suppliers' = [t \in Known \cup {s} |-> IF t = s THEN NewRow(name) ELSE suppliers[t]]
      /\ call' = [call EXCEPT ![c] = k]
      /\ UNCHANGED <<users, consents, events, overtaken, letters, crashes>>
  BY DEF Register
<1>2. Known' = Known \cup {s} /\ Known \subseteq Suppliers
  BY <1>1 DEF Known, IInv, Tables, SupplierTypes
<1>3. Known \subseteq Known' /\ users \subseteq users' /\ \A t \in Known : suppliers'[t] = suppliers[t]
  BY <1>1, <1>2
<1>4. Tables'
  <2>1. suppliers' \in [Known \cup {s} -> Rows]
    <3>1. NewRow(name) \in Rows
      BY DEF NewRow, Row, Rows
    <3>2. suppliers \in [Known -> Rows]
      BY DEF IInv, Tables, SupplierTypes, Known
    <3> HIDE DEF Known
    <3> QED
      BY <1>1, <3>1, <3>2
  <2>2. Seeded \subseteq Known \cup {s} /\ Known \cup {s} \in SUBSET Suppliers
    BY <1>1, <1>2 DEF IInv, Tables, SupplierTypes, Known
  <2>3. SupplierTypes'
    BY <1>1, <2>1, <2>2 DEF IInv, Tables, SupplierTypes
  <2>4. \A e \in events : Backed(e)'
    <3>1. \A e : Backed(e) => Backed(e)'
      BY <1>3 DEF Backed
    <3> QED
      BY <3>1 DEF IInv, Tables
  <2> QED
    BY <1>1, <2>3, <2>4 DEF IInv, Tables, OneEach
<1>5. Sound(k)'
  <2>1. k \in Calls
    <3>1. Invited(s, inviter) \in Events
      BY <1>2 DEF Invited, Events
    <3>2. Idle \in Calls
      BY IdleSound DEF Sound
    <3> QED
      BY <3>1, <3>2 DEF Calls
  <2>2. Grounded(k)'
    BY <1>2 DEF Grounded, Backed, Invited, Idle, Unknown, Active
  <2> QED
    BY <2>1, <2>2 DEF Sound, First, Signs, Idle, Active, Holding, Enrolled
<1>6. \A d \in Callers : call'[d] = IF d = c THEN k ELSE call[d]
  BY <1>1 DEF IInv, CallsSound
<1>7. ASSUME NEW d \in Callers PROVE Sound(call[d])'
  <2>1. CASE d = c
    <3>1. call'[d] = k
      BY <1>6, <2>1
    <3> HIDE DEF k
    <3> QED
      BY <1>5, <3>1 DEF Sound, Grounded, First, Signs, Backed
  <2>2. CASE d # c
    <3>1. Sound(call[d]) /\ call'[d] = call[d]
      BY <1>6, <2>2 DEF IInv, CallsSound
    <3>2. Grounded(call[d])'
      <4> DEFINE o == call[d]
      <4>1. Grounded(o)
        BY <3>1 DEF Sound
      <4> HIDE DEF o
      <4>2. Known \subseteq Known' /\ \A e : Backed(e) => Backed(e)'
        BY <1>3 DEF Backed
      <4> QED
        BY <3>1, <4>1, <4>2 DEF Grounded, o
    <3> QED
      BY <1>1, <3>1, <3>2 DEF Sound, First, Signs
  <2> QED
    BY <2>1, <2>2
<1>8. ASSUME NEW d \in Callers, NEW e \in Callers, d # e PROVE Apart(call[d], call[e])'
  <2>1. k.pc = "committed"
    BY DEF Idle
  <2>2. Apart(call[d], call[e])
    BY <1>8 DEF IInv, CallsSound
  <2> HIDE DEF k
  <2> QED
    BY <1>6, <1>8, <2>1, <2>2 DEF Apart, Holding, Enrolled
<1>9. call' \in [Callers -> Calls]
  <2>1. k \in Calls
    BY <1>5 DEF Sound
  <2> HIDE DEF k
  <2> QED
    BY <1>1, <2>1 DEF IInv, CallsSound
<1> QED
  BY <1>1, <1>4, <1>7, <1>8, <1>9 DEF IInv, CallsSound, Counters, Register, Call

LEMMA CreateConsentInv == ASSUME IInv, NEW s \in Suppliers, CreateConsent(s) PROVE IInv'
<1>1. /\ consents' = [consents EXCEPT ![s] = Append(consents[s], "requested")]
      /\ UNCHANGED <<suppliers, users, events, call, overtaken, calls, crashes>>
  BY DEF CreateConsent
<1>2. consents[s] \in Seq(ConsentStatus) /\ "requested" \in ConsentStatus
  BY DEF IInv, Tables, ConsentStatus, Pending
<1>3. Append(consents[s], "requested") \in Seq(ConsentStatus)
  BY <1>2
<1>4. consents' \in [Suppliers -> Seq(ConsentStatus)]
  BY <1>1, <1>3 DEF IInv, Tables
<1>5. \A t \in Suppliers : /\ Len(consents[t]) \in Nat /\ Len(consents'[t]) \in Nat
                         /\ Len(consents[t]) <= Len(consents'[t])
                         /\ \A i \in 1 .. Len(consents[t]) : consents'[t][i] = consents[t][i]
  <2> SUFFICES ASSUME NEW t \in Suppliers
               PROVE  /\ Len(consents[t]) \in Nat /\ Len(consents'[t]) \in Nat
                      /\ Len(consents[t]) <= Len(consents'[t])
                      /\ \A i \in 1 .. Len(consents[t]) : consents'[t][i] = consents[t][i]
    OBVIOUS
  <2>1. consents[t] \in Seq(ConsentStatus)
    BY DEF IInv, Tables
  <2>2. consents'[t] = IF t = s THEN Append(consents[s], "requested") ELSE consents[t]
    BY <1>1 DEF IInv, Tables
  <2> QED
    BY <1>2, <2>1, <2>2
<1>6. ASSUME NEW d \in Callers PROVE Sound(call[d])'
  <2>1. Sound(call[d])
    BY DEF IInv, CallsSound
  <2>2. call[d].pc \in Holding => call[d].supplier \in Suppliers
    BY <2>1 DEF Sound, Grounded, Active, Holding, IInv, Tables, SupplierTypes, Known
  <2>3. Signs(call[d])'
    BY <1>1, <1>5, <2>1, <2>2 DEF Sound, Signs
  <2> QED
    BY <1>1, <2>1, <2>3 DEF Sound, Grounded, First, Backed, Known
<1>7. Tables'
  BY <1>1, <1>4 DEF IInv, Tables, SupplierTypes, OneEach, Backed, Known
<1> QED
  BY <1>1, <1>6, <1>7 DEF IInv, CallsSound, Apart, Counters, CreateConsent, Letter

LEMMA UpdateConsentInv ==
    ASSUME IInv, NEW s \in Suppliers, NEW i \in 1 .. MaxLetters, NEW status \in ConsentStatus,
           UpdateConsent(s, i, status)
    PROVE  IInv'
<1> DEFINE hit(k) == k.pc = "locked" /\ <<k.supplier, k.sign>> = <<s, i>>
           new(k) == [k EXCEPT !.moved = k.moved \/ hit(k)]
<1>1. /\ i \in DOMAIN consents[s]
      /\ \A c \in Callers : call[c].pc \in Enrolled => ~(call[c].supplier = s /\ call[c].sign = i)
      /\ consents' = [consents EXCEPT ![s][i] = status]
      /\ call' = [c \in Callers |-> new(call[c])]
      /\ UNCHANGED <<suppliers, users, events, overtaken, calls, crashes>>
  BY DEF UpdateConsent, Enrolled
<1>2. consents[s] \in Seq(ConsentStatus) /\ i \in 1 .. Len(consents[s])
  BY <1>1 DEF IInv, Tables
<1>3. /\ [consents[s] EXCEPT ![i] = status] \in Seq(ConsentStatus)
      /\ Len([consents[s] EXCEPT ![i] = status]) = Len(consents[s])
      /\ \A j \in 1 .. Len(consents[s]) :
           [consents[s] EXCEPT ![i] = status][j] = IF j = i THEN status ELSE consents[s][j]
  BY <1>2, ExceptSeq
<1>4. \A t \in Suppliers : consents'[t] = IF t = s THEN [consents[s] EXCEPT ![i] = status] ELSE consents[t]
  BY <1>1 DEF IInv, Tables
<1>5. consents' \in [Suppliers -> Seq(ConsentStatus)]
  BY <1>1, <1>3 DEF IInv, Tables
<1>6. ASSUME NEW d \in Callers PROVE new(call[d]) \in Calls /\ Sound(call[d])'
  <2>0. PICK k : k = call[d]
    OBVIOUS
  <2>1. Sound(k) /\ k \in Calls
    BY <2>0 DEF IInv, CallsSound, Sound
  <2>2. call'[d] = new(k)
    BY <1>1, <2>0
  <2>3. /\ new(k) \in Calls
        /\ new(k).pc = k.pc /\ new(k).supplier = k.supplier /\ new(k).sign = k.sign
        /\ new(k).email = k.email /\ new(k).name = k.name /\ new(k).known = k.known
        /\ new(k).todo = k.todo /\ new(k).stale = k.stale
        /\ new(k).moved = (k.moved \/ hit(k))
    <3>1. (k.moved \/ hit(k)) \in BOOLEAN
      OBVIOUS
    <3> HIDE DEF hit
    <3> QED
      BY <2>1, <3>1 DEF Calls
  <2>4. k.pc \in Holding => k.supplier \in Suppliers
    BY <2>1 DEF Sound, Grounded, Active, Holding, IInv, Tables, SupplierTypes, Known
  <2>5. k.pc \in Holding /\ k.sign # 0 /\ ~new(k).moved => ~(k.supplier = s /\ k.sign = i)
    BY <1>1, <2>0, <2>3 DEF Holding, Enrolled
  <2>6. k.pc \in Holding => Len(consents'[k.supplier]) = Len(consents[k.supplier])
    BY <1>3, <1>4, <2>4
  <2>7. k.pc \in Holding /\ k.sign # 0 /\ ~new(k).moved =>
          consents'[k.supplier][k.sign] = consents[k.supplier][k.sign]
    <3> SUFFICES ASSUME k.pc \in Holding, k.sign # 0, ~new(k).moved
                 PROVE  consents'[k.supplier][k.sign] = consents[k.supplier][k.sign]
      OBVIOUS
    <3>1. k.sign \in 1 .. Len(consents[k.supplier])
      BY <2>1, <2>4 DEF Sound, Signs, IInv, Tables
    <3> HIDE DEF new
    <3> QED
      BY <1>3, <1>4, <2>4, <2>5, <3>1
  <2> HIDE DEF new
  <2>8. Signs(k) /\ Grounded(k) /\ First(k)
    BY <2>1 DEF Sound
  <2>9. Signs(new(k))'
    <3> QED
      BY <2>3, <2>6, <2>7, <2>8 DEF Signs
  <2>10. Grounded(new(k))' /\ First(new(k))'
    <3> QED
      BY <1>1, <2>3, <2>8 DEF Grounded, First, Backed, Known
  <2> QED
    BY <2>0, <2>2, <2>3, <2>9, <2>10 DEF Sound
<1>7. Tables'
  BY <1>1, <1>5 DEF IInv, Tables, SupplierTypes, OneEach, Backed, Known
<1>8. ASSUME NEW c \in Callers, NEW d \in Callers, c # d PROVE Apart(call[c], call[d])'
  <2>1. Apart(call[c], call[d])
    BY <1>8 DEF IInv, CallsSound
  <2>2. \A e \in Callers : /\ call'[e].pc = call[e].pc /\ call'[e].supplier = call[e].supplier
                          /\ call'[e].email = call[e].email
    BY <1>1 DEF IInv, CallsSound, Calls
  <2> QED
    BY <2>1, <2>2 DEF Apart
<1>9. call' \in [Callers -> Calls]
  <2> HIDE DEF new
  <2> QED
    BY <1>1, <1>6
<1> QED
  BY <1>1, <1>6, <1>7, <1>8, <1>9 DEF IInv, CallsSound, Counters, UpdateConsent, Letter

\* The commit keeps the suppliers there were, but for its own; the others are new.
LEMMA CommitSuppliers ==
    ASSUME IInv, NEW c \in Callers, Commit(c)
    PROVE  /\ Known \subseteq Known' /\ Known' \subseteq Suppliers
           /\ suppliers' \in [Known' -> Rows]
           /\ suppliers'[call[c].supplier] = Row("supplier_review", call[c].name, "consent_agreed")
           /\ \A s \in Known : s # call[c].supplier => suppliers'[s] = suppliers[s]
           /\ \E todo : /\ \A x \in todo : \/ x = StatusChanged(call[c].supplier)
                                           \/ \E s \in Known' : x = Invited(s, call[c].supplier)
                        /\ call'[c] = [Idle EXCEPT !.pc = "committed", !.todo = todo]
<1> DEFINE k == call[c]
           new == {n \in k.subs : k.known[n] = Null}
<1>1. PICK id \in FreshIds(new) :
        /\ suppliers' = [s \in Known \cup {id[n] : n \in new} |->
                           IF s = k.supplier THEN Row("supplier_review", k.name, "consent_agreed")
                           ELSE IF s \in Known THEN suppliers[s]
                           ELSE NewRow(CHOOSE n \in new : id[n] = s)]
        /\ call' = [d \in Callers |->
              IF d = c
                THEN [Idle EXCEPT !.pc = "committed",
                        !.todo = {StatusChanged(k.supplier)}
                                 \cup {Invited(IF n \in new THEN id[n] ELSE k.known[n], k.supplier)
                                         : n \in k.subs}]
                ELSE [call[d] EXCEPT !.stale = call[d].stale \/
                        (call[d].pc # "idle" /\ call[d].supplier = k.supplier)]]
  BY DEF Commit
<1> DEFINE owner(s) == CHOOSE n \in new : id[n] = s
           row(s) == IF s = k.supplier THEN Row("supplier_review", k.name, "consent_agreed")
                     ELSE IF s \in Known THEN suppliers[s] ELSE NewRow(owner(s))
           ids == {id[n] : n \in new}
           told(n) == IF n \in new THEN id[n] ELSE k.known[n]
           todo == {StatusChanged(k.supplier)} \cup {Invited(told(n), k.supplier) : n \in k.subs}
<1>2. /\ suppliers' = [s \in Known \cup ids |-> row(s)]
      /\ call'[c] = [Idle EXCEPT !.pc = "committed", !.todo = todo]
  <2>1. suppliers' = [s \in Known \cup ids |-> row(s)]
    BY <1>1
  <2> HIDE DEF new
  <2>2. call'[c] = [Idle EXCEPT !.pc = "committed", !.todo = todo]
    BY <1>1
  <2> QED
    BY <2>1, <2>2
<1>3. k \in Calls /\ Grounded(k) /\ k.pc = "found"
  BY DEF IInv, CallsSound, Sound, Commit
<1>4. k.supplier \in Known /\ k.name \in Names /\ k.subs \subseteq Names
  BY <1>3 DEF Grounded, Active, Calls
<1>5. \A s \in ids : s \in Suppliers \ Known /\ owner(s) \in Names
  <2>1. \A n \in new : n \in Names /\ id[n] \in Suppliers \ Known
    BY <1>4 DEF FreshIds
  <2>2. \A s \in ids : owner(s) \in new
    OBVIOUS
  <2> HIDE DEF owner, new
  <2> QED
    BY <2>1, <2>2
<1>6. Known \subseteq Suppliers /\ suppliers \in [Known -> Rows]
  BY DEF IInv, Tables, SupplierTypes, Known
<1>7. \A n \in k.subs : told(n) \in Known \cup ids
  BY <1>3, <1>4 DEF Grounded
<1> HIDE DEF owner, new, ids, told
<1>8. \A s \in Known \cup ids : row(s) \in Rows
  BY <1>4, <1>5, <1>6 DEF NewRow, Row, Rows
<1> HIDE DEF row
<1>9. Known' = Known \cup ids /\ suppliers' \in [Known' -> Rows]
  BY <1>2, <1>8 DEF Known
<1>10. suppliers'[k.supplier] = Row("supplier_review", k.name, "consent_agreed")
  BY <1>2, <1>4 DEF row
<1>11. \A s \in Known : s # k.supplier => suppliers'[s] = suppliers[s]
  BY <1>2 DEF row
<1>12. \A x \in todo : x = StatusChanged(k.supplier) \/ \E s \in Known' : x = Invited(s, k.supplier)
  BY <1>7, <1>9
<1> HIDE DEF todo
<1> QED
  BY <1>2, <1>5, <1>6, <1>9, <1>10, <1>11, <1>12

LEMMA CommitInv == ASSUME IInv, NEW c \in Callers, Commit(c) PROVE IInv'
<1>1. PICK k : k = call[c]
  OBVIOUS
<1>2. /\ k \in Calls /\ Grounded(k) /\ First(k) /\ Signs(k)
      /\ k.pc = "found"
      /\ users' = users \cup {[email |-> k.email, supplier |-> k.supplier]}
      /\ consents' = IF k.sign = 0 THEN consents ELSE [consents EXCEPT ![k.supplier][k.sign] = "agreed"]
      /\ overtaken' = (overtaken \/ k.stale)
      /\ UNCHANGED <<events, calls, letters, crashes>>
  BY <1>1 DEF Commit, IInv, CallsSound, Sound
<1>3. k.supplier \in Known /\ k.name \in Names /\ k.email \in Emails /\ k.stale \in BOOLEAN
  BY <1>2 DEF Grounded, Active, Calls
<1>4. PICK todo :
        /\ Known \subseteq Known' /\ Known' \subseteq Suppliers
        /\ suppliers' \in [Known' -> Rows]
        /\ suppliers'[k.supplier] = Row("supplier_review", k.name, "consent_agreed")
        /\ \A s \in Known : s # k.supplier => suppliers'[s] = suppliers[s]
        /\ \A x \in todo : x = StatusChanged(k.supplier) \/ \E s \in Known' : x = Invited(s, k.supplier)
        /\ call'[c] = [Idle EXCEPT !.pc = "committed", !.todo = todo]
  <2>1. PICK todo :
          /\ \A x \in todo : \/ x = StatusChanged(call[c].supplier)
                             \/ \E s \in Known' : x = Invited(s, call[c].supplier)
          /\ call'[c] = [Idle EXCEPT !.pc = "committed", !.todo = todo]
    BY CommitSuppliers
  <2>2. \A x \in todo : x = StatusChanged(k.supplier) \/ \E s \in Known' : x = Invited(s, k.supplier)
    BY <1>1, <2>1
  <2>3. /\ Known \subseteq Known' /\ Known' \subseteq Suppliers
        /\ suppliers' \in [Known' -> Rows]
        /\ suppliers'[k.supplier] = Row("supplier_review", k.name, "consent_agreed")
        /\ \A s \in Known : s # k.supplier => suppliers'[s] = suppliers[s]
    BY <1>1, CommitSuppliers
  <2> QED
    BY <2>1, <2>2, <2>3
<1> DEFINE new == [Idle EXCEPT !.pc = "committed", !.todo = todo]
           hit(o) == o.pc # "idle" /\ o.supplier = k.supplier
           old(o) == [o EXCEPT !.stale = o.stale \/ hit(o)]
<1>5. \A d \in Callers \ {c} : call'[d] = old(call[d])
  BY <1>1 DEF Commit
<1>6. \A e : Backed(e) => Backed(e)'
  <2> SUFFICES ASSUME NEW e, Backed(e) PROVE Backed(e)'
    OBVIOUS
  <2>1. CASE e.supplier = k.supplier
    BY <1>2, <1>4, <2>1 DEF Backed, Row
  <2>2. CASE e.supplier # k.supplier
    BY <1>2, <1>4, <2>2 DEF Backed
  <2> QED
    BY <2>1, <2>2
<1>7. SupplierTypes'
  <2>1. Seeded \subseteq Known'
    BY <1>4 DEF IInv, Tables, SupplierTypes, Known
  <2>2. users' \subseteq [email : Emails, supplier : Suppliers]
    BY <1>2, <1>3, <1>4 DEF IInv, Tables, SupplierTypes
  <2>3. \A u, v \in users' : u.email = v.email => u = v
    BY <1>2 DEF First, Enrolled, IInv, Tables, SupplierTypes
  <2> QED
    BY <1>4, <2>1, <2>2, <2>3 DEF SupplierTypes
<1>8. OneEach'
  <2> SUFFICES ASSUME ~overtaken, ~k.stale PROVE \A u, v \in users' : u.supplier = v.supplier => u = v
    BY <1>2 DEF OneEach
  <2>1. \A u \in users : u.supplier # k.supplier
    BY <1>2 DEF First, Active
  <2> QED
    BY <1>2, <2>1 DEF OneEach, IInv, Tables
<1>9. /\ consents' \in [Suppliers -> Seq(ConsentStatus)]
      /\ \A s \in Suppliers : s # k.supplier => consents'[s] = consents[s]
  <2>1. CASE k.sign = 0
    BY <1>2, <2>1 DEF IInv, Tables
  <2>2. CASE k.sign # 0
    <3>1. consents[k.supplier] \in Seq(ConsentStatus) /\ k.supplier \in Suppliers
      BY <1>3, <1>4 DEF IInv, Tables
    <3>2. k.sign \in 1 .. Len(consents[k.supplier]) /\ "agreed" \in ConsentStatus
      BY <1>2, <2>2, <3>1 DEF Signs, Holding, ConsentStatus
    <3>3. [consents[k.supplier] EXCEPT ![k.sign] = "agreed"] \in Seq(ConsentStatus)
      BY <3>1, <3>2, ExceptSeq
    <3> QED
      BY <1>2, <2>2, <3>1, <3>3 DEF IInv, Tables
  <2> QED
    BY <2>1, <2>2
<1>10. Tables'
  BY <1>2, <1>6, <1>7, <1>8, <1>9 DEF IInv, Tables
<1>11. \A x \in todo : x \in Events /\ Backed(x)'
  <2>1. StatusChanged(k.supplier) \in Events /\ Backed(StatusChanged(k.supplier))'
    <3>1. StatusChanged(k.supplier) \in Events
      BY <1>3, <1>4 DEF StatusChanged, Events
    <3>2. \E u \in users' : u.supplier = k.supplier
      <4>1. [email |-> k.email, supplier |-> k.supplier] \in users'
        BY <1>2
      <4> QED
        BY <4>1
    <3>3. suppliers'[k.supplier].status = "supplier_review" /\ suppliers'[k.supplier].consent = "consent_agreed"
      BY <1>4 DEF Row
    <3>4. PICK e : e = StatusChanged(k.supplier)
      OBVIOUS
    <3>5. e.supplier = k.supplier /\ e.kind = "SupplierStatusChanged"
      BY <3>4 DEF StatusChanged
    <3>6. Backed(e)'
      BY <1>3, <1>4, <3>2, <3>3, <3>5 DEF Backed
    <3> QED
      BY <3>1, <3>4, <3>6
  <2>2. ASSUME NEW s \in Known' PROVE Invited(s, k.supplier) \in Events /\ Backed(Invited(s, k.supplier))'
    BY <1>3, <1>4 DEF Invited, Events, Backed
  <2> QED
    BY <1>4, <2>1, <2>2
<1>12. Sound(new)'
  <2>1. new \in Calls
    BY <1>11, IdleSound DEF Sound, Calls
  <2>2. Grounded(new)'
    BY <1>11 DEF Grounded, Idle, Unknown, Active
  <2> QED
    BY <2>1, <2>2 DEF Sound, First, Signs, Idle, Active, Holding, Enrolled
<1>13. ASSUME NEW o \in Calls, Sound(o), Apart(k, o) PROVE old(o) \in Calls /\ Sound(old(o))'
  <2>1. /\ old(o) \in Calls
        /\ old(o).pc = o.pc /\ old(o).supplier = o.supplier /\ old(o).sign = o.sign
        /\ old(o).email = o.email /\ old(o).name = o.name /\ old(o).known = o.known
        /\ old(o).todo = o.todo /\ old(o).moved = o.moved
        /\ old(o).stale = (o.stale \/ hit(o))
    <3>1. (o.stale \/ hit(o)) \in BOOLEAN
      OBVIOUS
    <3> HIDE DEF hit
    <3> QED
      BY <3>1 DEF Calls
  <2> HIDE DEF old
  <2>2. Grounded(old(o))'
    BY <1>4, <1>6, <1>13, <2>1 DEF Sound, Grounded
  <2>3. First(old(o))'
    <3>1. o.pc \in Active /\ ~old(o).stale => \A u \in users' : u.supplier # o.supplier
      <4> SUFFICES ASSUME o.pc \in Active, ~old(o).stale
                   PROVE  \A u \in users' : u.supplier # o.supplier
        OBVIOUS
      <4>1. ~o.stale /\ o.supplier # k.supplier
        BY <2>1 DEF Active
      <4>2. \A u \in users : u.supplier # o.supplier
        BY <1>13, <4>1 DEF Sound, First
      <4> QED
        BY <1>2, <4>1, <4>2
    <3>2. o.pc \in Enrolled => \A u \in users' : u.email # o.email
      BY <1>2, <1>13 DEF Sound, First, Apart, Enrolled
    <3> QED
      BY <2>1, <3>1, <3>2 DEF First
  <2>4. Signs(old(o))'
    <3>1. o.pc \in Holding => o.supplier # k.supplier /\ o.supplier \in Suppliers
      BY <1>2, <1>4, <1>13 DEF Sound, Grounded, Apart, Active, Holding
    <3>2. o.pc \in Holding => consents'[o.supplier] = consents[o.supplier]
      BY <1>9, <3>1
    <3> QED
      BY <1>13, <2>1, <3>2 DEF Sound, Signs
  <2> QED
    BY <2>1, <2>2, <2>3, <2>4 DEF Sound
<1>14. ASSUME NEW d \in Callers
       PROVE  call'[d] \in Calls /\ Sound(call[d])'
  <2>1. CASE d = c
    <3>1. call'[d] = new
      BY <1>4, <2>1
    <3> HIDE DEF new
    <3> QED
      BY <1>12, <3>1 DEF Sound, Grounded, First, Signs, Backed, Known
  <2>2. CASE d # c
    <3>1. PICK o : o = call[d]
      OBVIOUS
    <3>2. o \in Calls /\ Sound(o) /\ Apart(k, o)
      BY <1>1, <2>2, <3>1 DEF IInv, CallsSound
    <3>3. call'[d] = old(o)
      BY <1>5, <2>2, <3>1
    <3> HIDE DEF old
    <3> QED
      BY <1>13, <3>2, <3>3 DEF Sound, Grounded, First, Signs, Backed, Known
  <2> QED
    BY <2>1, <2>2
<1>15. ASSUME NEW d \in Callers, NEW e \in Callers, d # e PROVE Apart(call[d], call[e])'
  <2>1. Apart(call[d], call[e])
    BY <1>15 DEF IInv, CallsSound
  <2>2. call'[c].pc = "committed"
    BY <1>4 DEF Idle
  <2>3. \A f \in Callers \ {c} : /\ call'[f].pc = call[f].pc /\ call'[f].supplier = call[f].supplier
                                /\ call'[f].email = call[f].email
    <3> SUFFICES ASSUME NEW f \in Callers \ {c}
                 PROVE  /\ call'[f].pc = call[f].pc /\ call'[f].supplier = call[f].supplier
                        /\ call'[f].email = call[f].email
      OBVIOUS
    <3>1. PICK o : o = call[f]
      OBVIOUS
    <3>2. o \in Calls
      BY <3>1 DEF IInv, CallsSound
    <3>3. old(o).pc = o.pc /\ old(o).supplier = o.supplier /\ old(o).email = o.email
      BY <3>2 DEF Calls
    <3> HIDE DEF old
    <3> QED
      BY <1>5, <3>1, <3>3
  <2> QED
    BY <1>15, <2>1, <2>2, <2>3 DEF Apart, Holding, Enrolled
<1>16. call' \in [Callers -> Calls]
  <2>1. call' = [d \in Callers |-> call'[d]]
    BY <1>1 DEF Commit
  <2> QED
    BY <1>14, <2>1
<1> QED
  BY <1>2, <1>3, <1>10, <1>14, <1>15, <1>16 DEF IInv, CallsSound, Counters

LEMMA IInvStep == IInv /\ [OnboardingNext]_onboardingVars => IInv'
<1> SUFFICES ASSUME IInv, [OnboardingNext]_onboardingVars PROVE IInv'
  OBVIOUS
<1>1. CASE UNCHANGED onboardingVars
  BY <1>1 DEF IInv, Tables, SupplierTypes, OneEach, CallsSound, Sound, Grounded, First, Signs, Apart,
              Counters, Backed, Known, onboardingVars
<1>2. ASSUME NEW c \in Callers, NEW s \in Suppliers, NEW name \in Names,
             NEW inviter \in Known \cup Strangers \cup {Null}, Register(c, s, name, inviter)
      PROVE  IInv'
  BY <1>2, RegisterInv
<1>3. ASSUME NEW c \in Callers, NEW s \in Suppliers, NEW email \in Emails, NEW name \in Names,
             NEW agrees \in BOOLEAN, NEW subs \in SUBSET Names, Submit(c, s, email, name, agrees, subs)
      PROVE  IInv'
  BY <1>3, SubmitInv
<1>4. ASSUME NEW c \in Callers, LockCompany(c) PROVE IInv'
  BY <1>4, LockCompanyInv
<1>5. ASSUME NEW c \in Callers, Enroll(c) PROVE IInv'
  BY <1>5, EnrollInv
<1>6. ASSUME NEW c \in Callers, LookUpSuppliers(c) PROVE IInv'
  BY <1>6, LookUpInv
<1>7. ASSUME NEW c \in Callers, Commit(c) PROVE IInv'
  BY <1>7, CommitInv
<1>8. ASSUME NEW c \in Callers, Announce(c) PROVE IInv'
  BY <1>8, AnnounceInv
<1>9. ASSUME NEW c \in Callers, Die(c) PROVE IInv'
  BY <1>9, DieInv
<1>10. ASSUME NEW s \in Suppliers, CreateConsent(s) PROVE IInv'
  BY <1>10, CreateConsentInv
<1>11. ASSUME NEW s \in Suppliers, NEW i \in 1 .. MaxLetters, NEW status \in ConsentStatus,
              UpdateConsent(s, i, status)
       PROVE  IInv'
  BY <1>11, UpdateConsentInv
<1> QED
  BY <1>1, <1>2, <1>3, <1>4, <1>5, <1>6, <1>7, <1>8, <1>9, <1>10, <1>11 DEF OnboardingNext

LEMMA IInvAlways == OnboardingSpec => []IInv
  BY InitInv, IInvStep, PTL DEF OnboardingSpec

\* Suppliers, accounts, documents, events and requests hold values of their types,
\* for any suppliers, names, addresses and callers; no address has two accounts.
THEOREM OnboardingTypeCorrect == OnboardingSpec => []OnboardingTypeOK
  BY IInvAlways, InvTypes, PTL

\* A supplier gets a second account only by sign-ups that overlap, however many
\* requests there are and whenever they die.
THEOREM OneAccountCorrect == OnboardingSpec => []OneAccount
<1>1. ASSUME IInv, ~overtaken, NEW s \in Suppliers PROVE Cardinality(AccountsOf(s)) <= 1
  <2>1. CASE AccountsOf(s) = {}
    BY <2>1, FS_EmptySet
  <2>2. CASE AccountsOf(s) # {}
    <3>1. PICK u \in AccountsOf(s) : TRUE
      BY <2>2
    <3>2. AccountsOf(s) = {u}
      BY <1>1, <3>1 DEF AccountsOf, IInv, Tables, OneEach
    <3> QED
      BY <3>2, FS_Singleton
  <2> QED
    BY <2>1, <2>2
<1>2. IInv => OneAccount
  BY <1>1 DEF OneAccount
<1> QED
  BY <1>2, IInvAlways, PTL

\* Whatever an event says is committed, and stays so.
THEOREM AnnouncedCorrect == OnboardingSpec => []AnnouncedBacked
<1>1. IInv => AnnouncedBacked
  BY DEF IInv, Tables, Backed, AnnouncedBacked, AccountsOf
<1> QED
  BY <1>1, IInvAlways, PTL

\* A sign-up signs a document that waits for an answer, unless the document
\* changed between its look and its signature.
THEOREM RefusalCorrect == OnboardingSpec => RefusalStands
<1>1. ASSUME IInv, NEW c \in Callers, call[c].pc = "found", call[c].sign # 0, ~call[c].moved
      PROVE  consents[call[c].supplier][call[c].sign] \in Pending
  BY <1>1 DEF IInv, CallsSound, Sound, Signs, Holding
<1>2. IInv => [\A c \in Callers :
                 LET k == call[c] IN
                 (k.pc = "found" /\ call'[c].pc = "committed" /\ k.sign # 0 /\ ~k.moved)
                    => consents[k.supplier][k.sign] \in Pending]_onboardingVars
  BY <1>1
<1> QED
  BY <1>2, IInvAlways, PTL DEF RefusalStands

-----------------------------------------------------------------------------
(* DocumentParse, for every set of documents, handlers and faults          *)

(***************************************************************************)
(* TypeOK: every step keeps the types; in particular file_url, which two   *)
(* handlers of a repeated event both found free, is used by one document.  *)
(***************************************************************************)
\* The record of one handler.
Progress == [pc : {"idle", "checked", "committed"}, file : Files]

LEMMA InitialType == Init => TypeOK
<1>1. (CHOOSE f \in Files : TRUE) \in Files
  BY FilesAssumption
<1> QED
  BY <1>1 DEF Init, TypeOK

LEMMA NextType == TypeOK /\ [Next]_vars => TypeOK'
<1> SUFFICES ASSUME TypeOK, [Next]_vars PROVE TypeOK'
  OBVIOUS
<1> USE DEF TypeOK, Documents
<1>1. ASSUME NEW h \in Handlers, NEW f \in Files, ReceiveUpload(h, f) PROVE TypeOK'
  BY <1>1 DEF ReceiveUpload
<1>2. ASSUME NEW h \in Handlers, RegisterUpload(h) PROVE TypeOK'
  <2>1. handler[h] \in Progress
    BY DEF Progress
  <2>2. [handler[h] EXCEPT !.pc = "committed"] \in Progress
        /\ [handler[h] EXCEPT !.pc = "idle"] \in Progress
    BY <2>1 DEF Progress
  <2>3. handler' \in [Handlers -> Progress]
    BY <1>2, <2>2 DEF RegisterUpload, Progress
  <2>4. docs' \in [Documents -> {0, 1}]
    <3>1. docs' = docs \/ docs' = [docs EXCEPT ![handler[h].file] = 1]
      BY <1>2 DEF RegisterUpload
    <3> QED
      BY <3>1
  <2> QED
    BY <1>2, <2>3, <2>4 DEF RegisterUpload, Bounds, Progress
<1>3. ASSUME NEW h \in Handlers, EnqueueUpload(h) PROVE TypeOK'
  BY <1>3 DEF EnqueueUpload, Enqueue, Bounds
<1>4. ASSUME NEW h \in Handlers, CrashHandler(h) PROVE TypeOK'
  <2>1. handler[h] \in Progress
    BY DEF Progress
  <2>2. [handler[h] EXCEPT !.pc = "idle"] \in Progress
    BY <2>1 DEF Progress
  <2>3. handler' \in [Handlers -> Progress]
    BY <1>4, <2>2 DEF CrashHandler, Progress
  <2> QED
    BY <1>4, <2>3 DEF CrashHandler, FaultAllowed, Progress
<1>5. ASSUME NEW d \in Documents, TriggerParse(d) PROVE TypeOK'
  BY <1>5 DEF TriggerParse, Enqueue
<1>6. ASSUME NEW d \in Documents, Claim(d) PROVE TypeOK'
  BY <1>6 DEF Claim, Bounds
<1>7. ASSUME NEW d \in Documents, DocumentNotFound(d) PROVE TypeOK'
  BY <1>7 DEF DocumentNotFound, Finish, Bounds
<1>8. ASSUME NEW d \in Documents, ParseDocument(d) PROVE TypeOK'
  <2>1. results' \in [Documents -> Seq(BOOLEAN)]
    BY <1>8 DEF ParseDocument
  <2> QED
    BY <1>8, <2>1 DEF ParseDocument, Bounds
<1>9. ASSUME NEW d \in Documents, ParseUnsupported(d) PROVE TypeOK'
  BY <1>9 DEF ParseUnsupported, Bounds
<1>10. ASSUME NEW d \in Documents, StoreResult(d) PROVE TypeOK'
  <2>1. results' \in [Documents -> Seq(BOOLEAN)]
    BY <1>10 DEF StoreResult
  <2> QED
    BY <1>10, <2>1 DEF StoreResult, Finish, Bounds
<1>11. ASSUME NEW d \in Documents, ExpireResult(d) PROVE TypeOK'
  BY <1>11 DEF ExpireResult, Bounds
<1>12. ASSUME NEW d \in Documents, Confirm(d) PROVE TypeOK'
  <2>1. results[d] \in Seq(BOOLEAN) /\ Len(results[d]) \in DOMAIN results[d]
    BY <1>12 DEF Confirm
  <2>2. [results[d] EXCEPT ![Len(results[d])] = TRUE] \in Seq(BOOLEAN)
    BY <2>1
  <2>3. results' \in [Documents -> Seq(BOOLEAN)]
    BY <1>12, <2>2 DEF Confirm
  <2> QED
    BY <1>12, <2>3 DEF Confirm, Bounds
<1>13. ASSUME NEW d \in Documents, PassTime(d) PROVE TypeOK'
  BY <1>13 DEF PassTime, Bounds
<1>14. ASSUME NEW d \in Documents, EnqueueFound(d) PROVE TypeOK'
  BY <1>14 DEF EnqueueFound, Enqueue, Bounds
<1>15. ASSUME NEW d \in Documents, FailJob(d) PROVE TypeOK'
  BY <1>15 DEF FailJob, FaultAllowed, Finish
<1>16. ASSUME NEW d \in Documents, RestartWorker(d) PROVE TypeOK'
  BY <1>16 DEF RestartWorker, FaultAllowed
<1>17. CASE Sweep
  BY <1>17 DEF Sweep, Bounds
<1>18. CASE UNCHANGED vars
  BY <1>18 DEF vars, Bounds
<1> QED
  BY <1>1, <1>2, <1>3, <1>4, <1>5, <1>6, <1>7, <1>8, <1>9, <1>10, <1>11, <1>12,
     <1>13, <1>14, <1>15, <1>16, <1>17, <1>18
  DEF Next, HandlerStep, WorkerStep

THEOREM TypeCorrect == Spec => []TypeOK
  BY InitialType, NextType, PTL DEF Spec

(***************************************************************************)
(* ParsedOnce: the model is asked about a document once.  The claim is     *)
(* free until parse_document commits it, and only a worker that found it   *)
(* free can come there; ClaimedFree says so of every document.             *)
(***************************************************************************)
ClaimedFree ==
    \A d \in Documents :
        /\ worker[d] = "claimed" => claim[d] = "none"
        /\ claim[d] = "none" => parsed[d] = 0
        /\ parsed[d] <= 1

\* A step that starts no worker, keeps the claims and parses nothing.
LEMMA ClaimsKept ==
    ASSUME TypeOK, ClaimedFree, UNCHANGED <<claim, parsed>>,
           \A d \in Documents : worker'[d] = "claimed" => worker[d] = "claimed"
    PROVE  ClaimedFree'
  BY DEF ClaimedFree, Documents

LEMMA NextClaimedFree == TypeOK /\ ClaimedFree /\ [Next]_vars => ClaimedFree'
<1> SUFFICES ASSUME TypeOK, ClaimedFree, [Next]_vars PROVE ClaimedFree'
  OBVIOUS
<1>1. ASSUME NEW d \in Documents, Claim(d) PROVE ClaimedFree'
  BY <1>1 DEF Claim, TypeOK, ClaimedFree, Documents
<1>2. ASSUME NEW d \in Documents, DocumentNotFound(d) PROVE ClaimedFree'
  BY <1>2 DEF DocumentNotFound, Finish, TypeOK, ClaimedFree, Documents
<1>3. ASSUME NEW d \in Documents, ParseDocument(d) PROVE ClaimedFree'
  BY <1>3 DEF ParseDocument, TypeOK, ClaimedFree, Documents
<1>4. ASSUME NEW d \in Documents, StoreResult(d) PROVE ClaimedFree'
  BY <1>4 DEF StoreResult, Finish, TypeOK, ClaimedFree, Documents
<1>5. ASSUME NEW d \in Documents,
             ParseUnsupported(d) \/ FailJob(d) \/ RestartWorker(d)
      PROVE  ClaimedFree'
  BY <1>5, ClaimsKept
  DEF ParseUnsupported, FailJob, RestartWorker, Finish, TypeOK, Documents
<1>6. CASE UNCHANGED <<worker, claim, parsed>>
  BY <1>6, ClaimsKept
<1>7. ASSUME NEW h \in Handlers, NEW f \in Files, ReceiveUpload(h, f)
      PROVE  UNCHANGED <<worker, claim, parsed>>
  BY <1>7 DEF ReceiveUpload
<1>8. ASSUME NEW d \in Documents,
             ExpireResult(d) \/ TriggerParse(d) \/ Confirm(d) \/ PassTime(d) \/ EnqueueFound(d)
      PROVE  UNCHANGED <<worker, claim, parsed>>
  BY <1>8 DEF ExpireResult, TriggerParse, Confirm, PassTime, EnqueueFound
<1>9. Sweep \/ UNCHANGED vars => UNCHANGED <<worker, claim, parsed>>
  BY DEF Sweep, vars
<1>10. ASSUME NEW h \in Handlers, HandlerStep(h) \/ CrashHandler(h)
       PROVE  UNCHANGED <<worker, claim, parsed>>
  BY <1>10 DEF HandlerStep, RegisterUpload, EnqueueUpload, CrashHandler
<1> QED
  BY <1>1, <1>2, <1>3, <1>4, <1>5, <1>6, <1>7, <1>8, <1>9, <1>10 DEF Next, WorkerStep

THEOREM OneParse == Spec => []ParsedOnce
<1>1. Init => ClaimedFree
  BY DEF Init, ClaimedFree
<1>2. ClaimedFree => ParsedOnce
  BY DEF ClaimedFree, ParsedOnce
<1> QED
  BY <1>1, <1>2, NextClaimedFree, TypeCorrect, PTL DEF Spec

(***************************************************************************)
(* ClaimHasResult: the claim and the extraction row are committed together *)
(* and rows are never removed, so no failure and no restart leaves a       *)
(* document claimed and without a result.                                  *)
(***************************************************************************)
LEMMA NextClaimHasResult == TypeOK /\ ClaimHasResult /\ [Next]_vars => ClaimHasResult'
<1> SUFFICES ASSUME TypeOK, ClaimHasResult, [Next]_vars PROVE ClaimHasResult'
  OBVIOUS
<1>1. ASSUME NEW d \in Documents, DocumentNotFound(d) PROVE ClaimHasResult'
  BY <1>1 DEF DocumentNotFound, TypeOK, ClaimHasResult, Documents
<1>2. ASSUME NEW d \in Documents, ParseDocument(d) \/ StoreResult(d) PROVE ClaimHasResult'
  <2>1. results' = [results EXCEPT ![d] = Append(@, FALSE)]
    BY <1>2 DEF ParseDocument, StoreResult
  <2>2. results[d] \in Seq(BOOLEAN)
    BY DEF TypeOK
  <2>3. Append(results[d], FALSE) # <<>>
    <3>1. FALSE \in BOOLEAN
      OBVIOUS
    <3> QED
      BY <2>2, <3>1, AppendProperties, Zenon
  <2>4. results'[d] # <<>>
    BY <2>1, <2>3 DEF TypeOK
  <2>5. \A e \in Documents \ {d} : results'[e] = results[e] /\ claim'[e] = claim[e]
    BY <1>2 DEF ParseDocument, StoreResult, TypeOK
  <2> QED
    BY <2>4, <2>5 DEF ClaimHasResult, Documents
<1>3. ASSUME NEW d \in Documents, Confirm(d) PROVE ClaimHasResult'
  <2>1. results[d] \in Seq(BOOLEAN) /\ Len(results[d]) \in DOMAIN results[d]
    BY <1>3 DEF Confirm, TypeOK
  <2>2. [results[d] EXCEPT ![Len(results[d])] = TRUE] # <<>>
    BY <2>1
  <2>3. results' = [results EXCEPT ![d] = [results[d] EXCEPT ![Len(results[d])] = TRUE]]
    BY <1>3 DEF Confirm, TypeOK
  <2> QED
    BY <1>3, <2>2, <2>3 DEF Confirm, TypeOK, ClaimHasResult, Documents
<1>4. CASE UNCHANGED <<claim, results>>
  BY <1>4 DEF ClaimHasResult, Documents
<1>5. ASSUME NEW h \in Handlers, HandlerStep(h) \/ CrashHandler(h)
      PROVE  UNCHANGED <<claim, results>>
  BY <1>5 DEF HandlerStep, RegisterUpload, EnqueueUpload, CrashHandler
<1>6. ASSUME NEW h \in Handlers, NEW f \in Files, ReceiveUpload(h, f)
      PROVE  UNCHANGED <<claim, results>>
  BY <1>6 DEF ReceiveUpload
<1>7. ASSUME NEW d \in Documents,
             \/ Claim(d) \/ ParseUnsupported(d) \/ FailJob(d) \/ RestartWorker(d)
             \/ ExpireResult(d) \/ TriggerParse(d) \/ PassTime(d) \/ EnqueueFound(d)
      PROVE  UNCHANGED <<claim, results>>
  BY <1>7 DEF Claim, ParseUnsupported, FailJob, RestartWorker, ExpireResult,
              TriggerParse, PassTime, EnqueueFound
<1>8. Sweep \/ UNCHANGED vars => UNCHANGED <<claim, results>>
  BY DEF Sweep, vars
<1> QED
  BY <1>1, <1>2, <1>3, <1>4, <1>5, <1>6, <1>7, <1>8 DEF Next, WorkerStep

THEOREM ClaimedIsStored == Spec => []ClaimHasResult
<1>1. Init => ClaimHasResult
  BY DEF Init, ClaimHasResult
<1> QED
  BY <1>1, NextClaimHasResult, TypeCorrect, PTL DEF Spec
==============================================================================
