---------------------------- MODULE EventBusProofs ---------------------------
(***************************************************************************)
(* EventBus for every number of processes, events and handlers, every      *)
(* table of regulations and every number of failures.  The bus implements  *)
(* the channel because one session at a time holds the listener lock: a    *)
(* notification has one reader, and as many of its handlers have been      *)
(* called as the reader has gone past.                                     *)
(***************************************************************************)
EXTENDS EventBus, FiniteSetTheorems, WellFoundedInduction, TLAPS

\* The listener lock has one holder.
OneHolder == \A p, q \in Holders : p = q

\* Until it is published nobody has heard of an event.
Unheard ==
    \A e \in Events : event[e] # "published" =>
        called[e] = 0 /\ \A p \in Procs : e \notin wire[p] /\ turn[p][e] = 0

\* A notification that waits to be read is the only one, and is new to the
\* handlers.
OnTheWire ==
    \A p \in Procs : \A e \in wire[p] :
        /\ called[e] = 0
        /\ \A q \in Procs : turn[q][e] = 0 /\ (e \in wire[q] => q = p)

\* A process that calls the handlers is the only one, and has called all that
\* were called.
Taken ==
    \A p \in Procs, e \in Events : turn[p][e] # 0 =>
        /\ called[e] + 1 = turn[p][e]
        /\ \A q \in Procs : turn[q][e] # 0 => q = p

\* The clauses are inserted together and embedded together.
ClausesAlike == \A c, d \in Carried : clause[c] = clause[d]

IndexInv == IndexTypeOK /\ ClausesAlike
-----------------------------------------------------------------------------
(* The regulations                                                         *)

Embedded(r) == {n \in Citations : <<r, n>> \in Carried /\ clause[<<r, n>>] = "indexed"}

LEMMA FoundIs ==
    ASSUME NEW r, NEW q, NEW top_k
    PROVE  /\ Embedded(r) # {} => Found(r, q, top_k) = Nearest(q, top_k, Embedded(r))
           /\ Embedded(r) = {} /\ summary[r] = "indexed" => Found(r, q, top_k) = {"summary"}
           /\ Embedded(r) = {} /\ summary[r] # "indexed" => Found(r, q, top_k) = {}
<1> DEFINE embedded == {n \in Citations : <<r, n>> \in Carried /\ clause[<<r, n>>] = "indexed"}
<1>1. embedded = Embedded(r)
  BY DEF Embedded
<1>2. Found(r, q, top_k) = CASE embedded # {} -> Nearest(q, top_k, embedded)
                             [] embedded = {} /\ summary[r] = "indexed" -> {"summary"}
                             [] OTHER -> {}
  BY DEF Found
<1> HIDE DEF embedded
<1> QED
  BY <1>1, <1>2

\* Of some clauses a query finds at least the nearest.
LEMMA NearestFound ==
    ASSUME Citations # {}, NEW q \in Rankings, NEW top_k \in Limits
    PROVE  Nearest(q, top_k, Citations) # {}
<1> DEFINE Distances == {q[c] : c \in Citations}
<1>1. IsWellFoundedOn({x \in Nat \X Nat : x[1] < x[2]}, Nat)
  BY NatLessThanWellFounded, Zenon DEF OpToRel
<1>2. q \in [Citations -> 1 .. Cardinality(Citations)]
  BY DEF Rankings
<1>3. Cardinality(Citations) \in Nat
  BY CitationsAssumption, FS_CardinalityType
<1>4. Distances \subseteq Nat /\ Distances # {}
  BY <1>2, <1>3
<1>5. PICK n \in Distances : \A m \in Distances : <<m, n>> \notin {x \in Nat \X Nat : x[1] < x[2]}
  <2> HIDE DEF Distances
  <2> QED
    BY <1>1, <1>4, WFMin, Zenon
<1>6. PICK c \in Citations : n = q[c]
  BY <1>5
<1>7. ASSUME NEW d \in Citations PROVE ~(q[d] < q[c])
  <2>1. q[d] \in Distances /\ q[d] \in Nat /\ q[c] \in Nat
    BY <1>4, <1>5, <1>6
  <2> QED
    BY <1>5, <1>6, <2>1
<1>8. {d \in Citations : q[d] < q[c]} = {}
  BY <1>7
<1>9. Cardinality({d \in Citations : q[d] < q[c]}) = 0
  BY <1>8, FS_EmptySet
<1>10. top_k \in Nat \ {0}
  BY CitationsAssumption
<1> QED
  BY <1>9, <1>10 DEF Nearest

\* All the clauses of a regulation are embedded, or none is.
AllOrNone == \A r \in Regulations : Embedded(r) \in {{}, Citations}

\* What the searches find then.
FoundAre ==
    \A r \in Regulations, q \in Rankings, top_k \in Limits :
        /\ Embedded(r) # {} => Found(r, q, top_k) = Nearest(q, top_k, Citations)
        /\ Embedded(r) = {} /\ summary[r] = "indexed" => Found(r, q, top_k) = {"summary"}
        /\ Embedded(r) = {} /\ summary[r] # "indexed" => Found(r, q, top_k) = {}

LEMMA EmbeddedWhole == ASSUME IndexInv, NEW r PROVE Embedded(r) \in {{}, Citations}
<1> SUFFICES ASSUME NEW n \in Embedded(r), NEW m \in Citations PROVE m \in Embedded(r)
  BY DEF Embedded
<1>1. <<r, n>> \in Carried /\ clause[<<r, n>>] = "indexed"
  BY DEF Embedded
<1>2. <<r, m>> \in Carried
  BY <1>1 DEF Carried
<1>3. clause[<<r, m>>] = "indexed"
  BY <1>1, <1>2 DEF IndexInv, ClausesAlike
<1> QED
  BY <1>2, <1>3 DEF Embedded

LEMMA IndexInit == Init => IndexInv
  BY DEF Init, InitIndex, IndexInv, IndexTypeOK, ClausesAlike, SummaryStatus, ClauseStatus

\* No step takes an embedding away.
Grows ==
    /\ \A c \in Carried : clause[c] = "indexed" => clause'[c] = "indexed"
    /\ \A r \in Regulations : summary[r] = "indexed" => summary'[r] = "indexed"

LEMMA IndexStep == ASSUME IndexInv, [Next]_vars PROVE IndexInv' /\ Grows
<1> USE DEF IndexInv, IndexTypeOK, ClausesAlike, Grows, SummaryStatus, ClauseStatus
<1>1. ASSUME UNCHANGED <<summary, clause>>, indexer' \in {"off", "summaries", "seeding", "clauses"}
      PROVE  IndexInv' /\ Grows
  BY <1>1
<1>2. StepAfter \in [{"summaries", "seeding", "clauses"} -> {"off", "seeding", "clauses"}]
  BY DEF StepAfter
<1>3. CASE ReindexRegulations
  BY <1>2, <1>3 DEF ReindexRegulations
<1>4. CASE SeedClauses
  BY <1>2, <1>4 DEF SeedClauses
<1>5. CASE ReindexClauses
  BY <1>2, <1>5 DEF ReindexClauses
<1>6. CASE SkipStep
  BY <1>1, <1>2, <1>6 DEF SkipStep
<1>7. CASE Boot \/ StopContainer
  BY <1>1, <1>7 DEF Boot, StopContainer
<1>8. CASE UNCHANGED indexVars
  BY <1>1, <1>8 DEF indexVars
<1> QED
  BY <1>3, <1>4, <1>5, <1>6, <1>7, <1>8 DEF Next, Index, Crash, vars

LEMMA IndexInvariant == Spec => []IndexInv
<1>1. IndexInv /\ [Next]_vars => IndexInv'
  BY IndexStep
<1> QED
  BY <1>1, IndexInit, PTL DEF Spec

\* A judge finds the clauses nearest to its query among all that are carried, as
\* many as it asks for, or none, whatever the indexer was killed at or skipped
\* (domains/regulation/embeddings.py:262, compliance.py:203).
THEOREM FoundWholeCorrect == Spec => []FoundWhole
<1>1. IndexInv => FoundWhole
  <2> SUFFICES ASSUME IndexInv, NEW r \in Searched, NEW q \in Rankings, NEW top_k \in Limits
               PROVE  Found(r, q, top_k) \in {{}, {"summary"}, Nearest(q, top_k, Citations)}
    BY DEF FoundWhole
  <2>1. Embedded(r) \in {{}, Citations}
    BY EmbeddedWhole
  <2> QED
    BY <2>1, FoundIs
<1> QED
  BY <1>1, IndexInvariant, PTL

\* No boot takes from a judge what an earlier one had embedded
\* (docker-compose.yml:75).
THEOREM FoundStaysCorrect == Spec => FoundStays
<1>1. IndexInv => AllOrNone
  BY EmbeddedWhole DEF AllOrNone
<1>2. IndexInv' => AllOrNone'
  BY <1>1, PTL
<1>3. IndexInv => FoundAre
  <2> SUFFICES ASSUME IndexInv, NEW r \in Regulations, NEW q \in Rankings, NEW top_k \in Limits
               PROVE  /\ Embedded(r) # {} => Found(r, q, top_k) = Nearest(q, top_k, Citations)
                      /\ Embedded(r) = {} /\ summary[r] = "indexed" =>
                           Found(r, q, top_k) = {"summary"}
                      /\ Embedded(r) = {} /\ summary[r] # "indexed" => Found(r, q, top_k) = {}
    BY DEF FoundAre
  <2> QED
    BY <1>1, FoundIs DEF AllOrNone
<1>4. IndexInv' => FoundAre'
  BY <1>3, PTL
<1>5. ASSUME IndexInv, [Next]_vars, NEW r \in Regulations, NEW q \in Rankings, NEW top_k \in Limits
      PROVE  /\ Found(r, q, top_k) # {} => Found(r, q, top_k)' # {}
             /\ Found(r, q, top_k) \subseteq Citations =>
                  Found(r, q, top_k) \subseteq Found(r, q, top_k)'
  <2> DEFINE near == Nearest(q, top_k, Citations)
  <2>1. IndexInv' /\ Grows
    BY <1>5, IndexStep
  <2>2. Embedded(r) \in {{}, Citations} /\ Embedded(r)' \in {{}, Citations}
    BY <1>1, <1>2, <1>5, <2>1 DEF AllOrNone
  <2>3. Embedded(r) \subseteq Embedded(r)' /\ (summary[r] = "indexed" => summary'[r] = "indexed")
    BY <2>1 DEF Grows, Embedded
  <2>4. /\ Embedded(r) # {} => Found(r, q, top_k) = near
        /\ Embedded(r) = {} /\ summary[r] = "indexed" => Found(r, q, top_k) = {"summary"}
        /\ Embedded(r) = {} /\ summary[r] # "indexed" => Found(r, q, top_k) = {}
    BY <1>3, <1>5 DEF FoundAre
  <2>5. /\ Embedded(r)' # {} => Found(r, q, top_k)' = near
        /\ Embedded(r)' = {} /\ summary'[r] = "indexed" => Found(r, q, top_k)' = {"summary"}
    BY <1>4, <2>1 DEF FoundAre
  <2>6. Embedded(r)' # {} => near # {}
    BY <2>2, NearestFound
  <2>7. ~({"summary"} \subseteq Citations)
    BY CitationsAssumption
  <2> HIDE DEF near
  <2> QED
    BY <2>2, <2>3, <2>4, <2>5, <2>6, <2>7
<1>6. IndexInv /\ [Next]_vars =>
        [\A r \in Regulations, q \in Rankings, top_k \in Limits :
          /\ Found(r, q, top_k) # {} => Found(r, q, top_k)' # {}
          /\ Found(r, q, top_k) \subseteq Citations =>
               Found(r, q, top_k) \subseteq Found(r, q, top_k)']_vars
  BY <1>5
<1> QED
  BY <1>6, IndexInvariant, PTL DEF Spec, FoundStays
-----------------------------------------------------------------------------
(* The bus: types and the listener lock                                    *)

BusTypes ==
    /\ container \in BOOLEAN
    /\ phase \in [Procs -> Phases]
    /\ migrated \in BOOLEAN
    /\ awaited \subseteq Procs
    /\ task \in [Procs -> Tasks]
    /\ session \in [Procs -> Sessions]
    /\ dbUp \in BOOLEAN
    /\ faults \in 0 .. MaxFaults

EventTypes ==
    /\ event \in [Events -> {"new", "committed", "published", "lost"}]
    /\ publisher \in [Events -> Procs]
    /\ wire \in [Procs -> SUBSET Events]
    /\ turn \in [Procs -> [Events -> 0 .. Handlers + 1]]
    /\ called \in [Events -> 0 .. Handlers]
    /\ ran \in [Events -> SUBSET (1 .. Handlers)]

LockInv == BusTypes /\ OneHolder

LEMMA LockInit == Init => LockInv
<1> SUFFICES ASSUME Init PROVE LockInv
  OBVIOUS
<1>1. 0 \in 0 .. MaxFaults
  BY BoundsAssumption
<1>2. BusTypes
  BY <1>1 DEF Init, BusTypes, Phases, Tasks, Sessions
<1>3. Holders = {}
  BY DEF Init, Holders
<1> QED
  BY <1>2, <1>3 DEF LockInv, OneHolder

LEMMA StartUpLock ==
    ASSUME LockInv, NEW p \in Procs, StartUp(p)
    PROVE  LockInv' /\ UNCHANGED eventVars
<1> USE DEF LockInv, BusTypes, OneHolder, Holders, taskVars, Phases, Tasks
<1>1. CASE Start(p)
  BY <1>1 DEF Start
<1>2. CASE AskSetupLock(p)
  BY <1>2 DEF AskSetupLock
<1>3. CASE GetSetupLock(p)
  BY <1>3 DEF GetSetupLock
<1>4. CASE MissSetupLock(p)
  BY <1>4 DEF MissSetupLock
<1>5. CASE StartIndex(p)
  BY <1>5 DEF StartIndex
<1>6. CASE FinishSetup(p)
  BY <1>6 DEF FinishSetup
<1> QED
  BY <1>1, <1>2, <1>3, <1>4, <1>5, <1>6 DEF StartUp

\* A session that is asked for anew, or ends, takes the lock from nobody, and
\* gives it to nobody.
LEMMA HoldersShrink ==
    ASSUME LockInv, Holders' \subseteq Holders, BusTypes' PROVE LockInv'
  BY DEF LockInv, OneHolder

LEMMA ListenLock ==
    ASSUME LockInv, NEW p \in Procs, Listen(p)
    PROVE  LockInv' /\ UNCHANGED eventVars
<1> USE DEF startVars
<1>1. CASE Connect(p)
  <2>1. BusTypes' /\ UNCHANGED eventVars
    BY <1>1 DEF Connect, LockInv, BusTypes, Tasks, Sessions
  <2>2. Holders' \subseteq Holders
    BY <1>1 DEF Connect, LockInv, BusTypes, Holders
  <2> QED
    BY <2>1, <2>2, HoldersShrink
<1>2. CASE Elect(p)
  <2>1. UNCHANGED <<startVars, dbUp, eventVars, faults>>
    BY <1>2 DEF Elect
  <2>2. CASE session[p] = "none"
    <3>1. task' = [task EXCEPT ![p] = "dead"] /\ UNCHANGED session
      BY <1>2, <2>2 DEF Elect
    <3> QED
      BY <2>1, <3>1 DEF LockInv, BusTypes, Tasks, OneHolder, Holders
  <2>3. CASE session[p] = "open" /\ Holders = {}
    <3>1. task' = [task EXCEPT ![p] = "elected"] /\ session' = [session EXCEPT ![p] = "locked"]
      BY <1>2, <2>3 DEF Elect
    <3>2. Holders' \subseteq {p}
      BY <2>3, <3>1 DEF Holders, LockInv, BusTypes
    <3> QED
      BY <2>1, <3>1, <3>2 DEF LockInv, BusTypes, Tasks, Sessions, OneHolder
  <2>4. CASE session[p] # "none" /\ ~(session[p] = "open" /\ Holders = {})
    <3>1. task' = [task EXCEPT ![p] = "sleeping"] /\ session' = [session EXCEPT ![p] = "none"]
      BY <1>2, <2>4 DEF Elect
    <3>2. Holders' \subseteq Holders
      BY <3>1 DEF Holders, LockInv, BusTypes
    <3>3. BusTypes'
      BY <2>1, <3>1 DEF LockInv, BusTypes, Tasks, Sessions
    <3> QED
      BY <2>1, <3>2, <3>3, HoldersShrink
  <2> QED
    BY <2>2, <2>3, <2>4
<1>3. CASE AddListener(p)
  <2>1. BusTypes' /\ UNCHANGED eventVars
    BY <1>3 DEF AddListener, LockInv, BusTypes, Tasks, Sessions
  <2>2. Holders' \subseteq Holders
    BY <1>3 DEF AddListener, LockInv, BusTypes, Holders
  <2> QED
    BY <2>1, <2>2, HoldersShrink
<1>4. CASE TryAgain(p) \/ Heartbeat(p)
  BY <1>4 DEF TryAgain, Heartbeat, LockInv, BusTypes, Tasks, OneHolder, Holders
<1> QED
  BY <1>1, <1>2, <1>3, <1>4 DEF Listen

LEMMA FaultCounted == ASSUME AFault, faults \in 0 .. MaxFaults PROVE faults' \in 0 .. MaxFaults
  BY BoundsAssumption DEF AFault

LEMMA DieLock ==
    ASSUME LockInv, NEW P \in SUBSET Procs, Die(P), container' \in BOOLEAN PROVE LockInv'
<1>1. faults' \in 0 .. MaxFaults
  BY FaultCounted DEF Die, LockInv, BusTypes
<1>2. BusTypes'
  BY <1>1 DEF Die, Gone, LockInv, BusTypes, Phases, Tasks, Sessions
<1>3. Holders' \subseteq Holders
  BY DEF Die, Holders, LockInv, BusTypes
<1> QED
  BY <1>2, <1>3, HoldersShrink

LEMMA FaultLock == ASSUME LockInv, Fault PROVE LockInv'
<1>1. ASSUME NEW p \in Procs, LoseSession(p) PROVE LockInv'
  <2>1. faults' \in 0 .. MaxFaults
    BY <1>1, FaultCounted DEF LoseSession, LockInv, BusTypes
  <2>2. BusTypes'
    BY <1>1, <2>1 DEF LoseSession, LockInv, BusTypes, Sessions, startVars
  <2>3. Holders' \subseteq Holders
    BY <1>1 DEF LoseSession, Holders, LockInv, BusTypes
  <2> QED
    BY <2>2, <2>3, HoldersShrink
<1>2. CASE StopDb
  <2>1. faults' \in 0 .. MaxFaults
    BY <1>2, FaultCounted DEF StopDb, LockInv, BusTypes
  <2>2. BusTypes'
    BY <1>2, <2>1 DEF StopDb, Gone, LockInv, BusTypes, Sessions, Phases
  <2>3. Holders' \subseteq Holders
    BY <1>2 DEF StopDb, Holders
  <2> QED
    BY <2>2, <2>3, HoldersShrink
<1> QED
  BY <1>1, <1>2 DEF Fault

LEMMA LockStep == ASSUME LockInv, [Next]_vars PROVE LockInv'
<1>1. CASE UNCHANGED <<startVars, taskVars, dbUp, faults>>
  BY <1>1 DEF startVars, taskVars, LockInv, BusTypes, OneHolder, Holders
<1>2. CASE Boot
  BY <1>2 DEF Boot, taskVars, LockInv, BusTypes, OneHolder, Holders, Phases
<1>3. CASE StopContainer
  BY <1>3, DieLock DEF StopContainer
<1>4. ASSUME NEW p \in Procs, Crash(p) PROVE LockInv'
  BY <1>4, DieLock DEF Crash, LockInv, BusTypes
<1>5. ASSUME NEW p \in Procs, Dispatch(p) PROVE LockInv'
  BY <1>1, <1>5 DEF Dispatch, Receive, Handle
<1>6. ASSUME NEW e \in Events, Commit(e) \/ Publish(e) PROVE LockInv'
  BY <1>1, <1>6 DEF Commit, Publish
<1>7. CASE StartDb
  BY <1>7 DEF StartDb, startVars, taskVars, LockInv, BusTypes, OneHolder, Holders
<1>8. CASE UNCHANGED busVars
  BY <1>1, <1>8 DEF busVars
<1> QED
  BY <1>2, <1>3, <1>4, <1>5, <1>6, <1>7, <1>8, StartUpLock, ListenLock, FaultLock DEF Next, vars
-----------------------------------------------------------------------------
(* The bus: notifications and handlers                                     *)

EventInv == EventTypes /\ Unheard /\ OnTheWire /\ Taken

LEMMA EventInit == Init => EventInv
<1> SUFFICES ASSUME Init PROVE EventInv
  OBVIOUS
<1>1. Handlers \in Nat
  BY HandlersAssumption
<1>2. EventTypes
  BY <1>1 DEF Init, EventTypes
<1> QED
  BY <1>2 DEF Init, EventInv, Unheard, OnTheWire, Taken

\* Copies get lost, and readers with them; an event that was not published may
\* never be.
LEMMA EventsLost ==
    ASSUME EventInv, UNCHANGED <<publisher, called, ran>>,
           event' \in [Events -> {"new", "committed", "published", "lost"}],
           \A e \in Events : event'[e] = event[e] \/ (event[e] # "published" /\ event'[e] # "published"),
           wire' \in [Procs -> SUBSET Events], \A p \in Procs : wire'[p] \subseteq wire[p],
           turn' \in [Procs -> [Events -> 0 .. Handlers + 1]],
           \A p \in Procs, e \in Events : turn'[p][e] \in {0, turn[p][e]}
    PROVE  EventInv'
<1>1. EventTypes'
  BY DEF EventInv, EventTypes
<1>2. Unheard'
  BY DEF EventInv, Unheard
<1>3. OnTheWire'
  BY <1>1 DEF EventInv, EventTypes, OnTheWire
<1>4. Taken'
  <2>1. ASSUME NEW p \in Procs, NEW e \in Events, turn'[p][e] # 0
        PROVE  turn[p][e] = turn'[p][e] /\ turn[p][e] # 0
    BY <2>1
  <2> QED
    BY <2>1 DEF EventInv, Taken
<1> QED
  BY <1>1, <1>2, <1>3, <1>4 DEF EventInv

LEMMA DieEvents == ASSUME EventInv, NEW P \in SUBSET Procs, Die(P) PROVE EventInv'
<1>1. UNCHANGED <<publisher, called, ran>>
  BY DEF Die
<1>2. /\ event' \in [Events -> {"new", "committed", "published", "lost"}]
      /\ \A e \in Events : event'[e] = event[e] \/ (event[e] # "published" /\ event'[e] # "published")
  <2>1. event' = [e \in Events |-> IF event[e] = "committed" /\ publisher[e] \in P THEN "lost" ELSE event[e]]
    BY DEF Die
  <2>2. ASSUME NEW e \in Events
        PROVE  /\ event'[e] \in {"new", "committed", "published", "lost"}
               /\ event'[e] = event[e] \/ (event[e] # "published" /\ event'[e] # "published")
    <3>1. CASE event[e] = "committed" /\ publisher[e] \in P
      BY <2>1, <3>1
    <3>2. CASE ~(event[e] = "committed" /\ publisher[e] \in P)
      BY <2>1, <3>2 DEF EventInv, EventTypes
    <3> QED
      BY <3>1, <3>2
  <2> QED
    BY <2>1, <2>2
<1>3. wire' \in [Procs -> SUBSET Events] /\ \A p \in Procs : wire'[p] \subseteq wire[p]
  BY DEF Die, EventInv, EventTypes
<1>4. /\ turn' \in [Procs -> [Events -> 0 .. Handlers + 1]]
      /\ \A p \in Procs, e \in Events : turn'[p][e] \in {0, turn[p][e]}
  <2>1. [e \in Events |-> 0] \in [Events -> 0 .. Handlers + 1]
    BY HandlersAssumption
  <2> QED
    BY <2>1 DEF Die, EventInv, EventTypes
<1> QED
  BY <1>1, <1>2, <1>3, <1>4, EventsLost

LEMMA FaultEvents == ASSUME EventInv, Fault PROVE EventInv'
<1>1. UNCHANGED <<event, turn, publisher, called, ran>>
  BY DEF Fault, LoseSession, StopDb
<1>2. wire' \in [Procs -> SUBSET Events] /\ \A p \in Procs : wire'[p] \subseteq wire[p]
  BY DEF Fault, LoseSession, StopDb, EventInv, EventTypes
<1>3. /\ event' \in [Events -> {"new", "committed", "published", "lost"}]
      /\ turn' \in [Procs -> [Events -> 0 .. Handlers + 1]]
      /\ \A p \in Procs, e \in Events : turn'[p][e] \in {0, turn[p][e]}
      /\ \A e \in Events : event'[e] = event[e]
  BY <1>1 DEF EventInv, EventTypes
<1> QED
  BY <1>1, <1>2, <1>3, EventsLost

LEMMA CommitEvents == ASSUME EventInv, NEW e \in Events, Commit(e) PROVE EventInv'
<1>1. event[e] = "new" /\ event' = [event EXCEPT ![e] = "committed"]
      /\ UNCHANGED <<publisher, wire, turn, called, ran>>
  BY DEF Commit
<1>2. /\ event' \in [Events -> {"new", "committed", "published", "lost"}]
      /\ \A f \in Events : event'[f] = event[f] \/ (event[f] # "published" /\ event'[f] # "published")
  BY <1>1 DEF EventInv, EventTypes
<1>3. /\ wire' \in [Procs -> SUBSET Events] /\ \A p \in Procs : wire'[p] \subseteq wire[p]
      /\ turn' \in [Procs -> [Events -> 0 .. Handlers + 1]]
      /\ \A p \in Procs, f \in Events : turn'[p][f] \in {0, turn[p][f]}
  BY <1>1 DEF EventInv, EventTypes
<1> QED
  BY <1>1, <1>2, <1>3, EventsLost

LEMMA PublishEvents == ASSUME LockInv, EventInv, NEW e \in Events, Publish(e) PROVE EventInv'
<1>1. /\ event[e] = "committed" /\ event' = [event EXCEPT ![e] = IF dbUp THEN "published" ELSE "lost"]
      /\ UNCHANGED <<publisher, turn, called, ran>>
  BY DEF Publish
<1>2. wire' = [p \in Procs |-> IF dbUp /\ session[p] = "listening" THEN wire[p] \cup {e} ELSE wire[p]]
  BY DEF Publish
<1>3. called[e] = 0 /\ \A p \in Procs : e \notin wire[p] /\ turn[p][e] = 0
  BY <1>1 DEF EventInv, Unheard
<1>4. EventTypes'
  BY <1>1, <1>2 DEF EventInv, EventTypes
<1>5. \A p, q \in Procs : e \in wire'[p] /\ e \in wire'[q] => p = q
  BY <1>2, <1>3 DEF LockInv, OneHolder, Holders
<1>6. \A p \in Procs : wire'[p] \subseteq wire[p] \cup {e}
  BY <1>2
<1>7. Unheard'
  <2>1. ASSUME NEW f \in Events, event'[f] # "published" PROVE \A p \in Procs : f \notin wire'[p]
    <3>1. CASE f = e
      <4>1. ~dbUp
        BY <1>1, <2>1, <3>1 DEF EventInv, EventTypes
      <4> QED
        BY <1>2, <1>3, <3>1, <4>1
    <3>2. CASE f # e
      BY <1>1, <1>6, <2>1, <3>2 DEF EventInv, EventTypes, Unheard
    <3> QED
      BY <3>1, <3>2
  <2>2. \A f \in Events : event'[f] # "published" => called[f] = 0 /\ \A p \in Procs : turn[p][f] = 0
    BY <1>1, <1>3 DEF EventInv, EventTypes, Unheard
  <2> QED
    BY <1>1, <2>1, <2>2 DEF Unheard
<1>8. OnTheWire'
  <2> SUFFICES ASSUME NEW p \in Procs, NEW f \in wire'[p]
               PROVE  called[f] = 0 /\ \A q \in Procs : turn[q][f] = 0 /\ (f \in wire'[q] => q = p)
    BY <1>1 DEF OnTheWire
  <2>1. CASE f = e
    BY <1>3, <1>5, <2>1
  <2>2. CASE f # e
    BY <1>6, <2>2 DEF EventInv, OnTheWire
  <2> QED
    BY <2>1, <2>2
<1>9. Taken'
  BY <1>1 DEF EventInv, Taken
<1> QED
  BY <1>4, <1>7, <1>8, <1>9 DEF EventInv

LEMMA ReceiveEvents ==
    ASSUME EventInv, NEW p \in Procs, NEW e \in Events, Receive(p, e) PROVE EventInv'
<1>1. /\ e \in wire[p] /\ wire' = [wire EXCEPT ![p] = wire[p] \ {e}]
      /\ turn' = [turn EXCEPT ![p] = [turn[p] EXCEPT ![e] = 1]]
      /\ UNCHANGED <<event, publisher, called, ran>>
  BY DEF Receive, EventInv, EventTypes
<1>2. called[e] = 0 /\ \A q \in Procs : turn[q][e] = 0 /\ (e \in wire[q] => q = p)
  BY <1>1 DEF EventInv, OnTheWire
<1>3. event[e] = "published"
  BY <1>1 DEF EventInv, Unheard
<1>4. 1 \in 0 .. Handlers + 1
  BY HandlersAssumption
<1>5. EventTypes'
  BY <1>1, <1>4 DEF EventInv, EventTypes
<1>6. /\ \A q \in Procs : wire'[q] \subseteq wire[q] /\ e \notin wire'[q]
      /\ turn'[p][e] = 1
      /\ \A q \in Procs, f \in Events : q # p \/ f # e => turn'[q][f] = turn[q][f]
  BY <1>1, <1>2 DEF EventInv, EventTypes
<1>7. Unheard'
  BY <1>1, <1>3, <1>6 DEF EventInv, Unheard
<1>8. OnTheWire'
  BY <1>1, <1>5, <1>6 DEF EventInv, OnTheWire, EventTypes
<1>9. Taken'
  BY <1>1, <1>2, <1>6 DEF EventInv, Taken
<1> QED
  BY <1>5, <1>7, <1>8, <1>9 DEF EventInv

\* The handler that is called is the first that was not.
LEMMA HandleFields ==
    ASSUME EventInv, NEW p \in Procs, NEW e \in Events, Handle(p, e)
    PROVE  /\ turn[p][e] \in 1 .. Handlers /\ turn[p][e] = called[e] + 1 /\ called[e] \in Nat
           /\ event[e] = "published"
           /\ \A q \in Procs : q # p => turn[q][e] = 0
           /\ \A q \in Procs : e \notin wire[q]
<1>1. turn[p][e] \in 1 .. Handlers /\ turn[p][e] # 0
  BY HandlersAssumption DEF Handle
<1> QED
  BY <1>1 DEF EventInv, EventTypes, Unheard, OnTheWire, Taken

LEMMA HandleEvents ==
    ASSUME EventInv, NEW p \in Procs, NEW e \in Events, Handle(p, e) PROVE EventInv'
<1>1. /\ turn' = [turn EXCEPT ![p] = [turn[p] EXCEPT ![e] = turn[p][e] + 1]]
      /\ called' = [called EXCEPT ![e] = called[e] + 1]
      /\ ran' \in {ran, [ran EXCEPT ![e] = ran[e] \cup {turn[p][e]}]}
      /\ UNCHANGED <<event, publisher, wire>>
  BY DEF Handle, EventInv, EventTypes
<1>2. /\ turn[p][e] \in 1 .. Handlers /\ turn[p][e] = called[e] + 1 /\ called[e] \in Nat
      /\ event[e] = "published"
      /\ \A q \in Procs : q # p => turn[q][e] = 0
      /\ \A q \in Procs : e \notin wire[q]
  BY HandleFields
<1>3. turn[p][e] + 1 \in 0 .. Handlers + 1 /\ called[e] + 1 \in 0 .. Handlers
  BY <1>2, HandlersAssumption
<1>4. EventTypes'
  <2>1. turn' \in [Procs -> [Events -> 0 .. Handlers + 1]]
    BY <1>1, <1>3 DEF EventInv, EventTypes
  <2>2. called' \in [Events -> 0 .. Handlers]
    BY <1>1, <1>3 DEF EventInv, EventTypes
  <2>3. ran' \in [Events -> SUBSET (1 .. Handlers)]
    BY <1>1, <1>2 DEF EventInv, EventTypes
  <2> QED
    BY <1>1, <2>1, <2>2, <2>3 DEF EventInv, EventTypes
<1>5. /\ turn'[p][e] = turn[p][e] + 1 /\ called'[e] = called[e] + 1
      /\ \A f \in Events : f # e => called'[f] = called[f]
      /\ \A q \in Procs, f \in Events : q # p \/ f # e => turn'[q][f] = turn[q][f]
  BY <1>1 DEF EventInv, EventTypes
<1>6. Unheard'
  BY <1>1, <1>2, <1>5 DEF EventInv, Unheard
<1>7. OnTheWire'
  <2> SUFFICES ASSUME NEW q \in Procs, NEW f \in wire[q]
               PROVE  /\ called'[f] = 0
                      /\ \A o \in Procs : turn'[o][f] = 0 /\ (f \in wire[o] => o = q)
    BY <1>1 DEF OnTheWire
  <2>1. f # e /\ f \in Events
    BY <1>2 DEF EventInv, EventTypes
  <2> QED
    BY <1>5, <2>1 DEF EventInv, OnTheWire
<1>8. Taken'
  <2> SUFFICES ASSUME NEW q \in Procs, NEW f \in Events, turn'[q][f] # 0
               PROVE  /\ called'[f] + 1 = turn'[q][f]
                      /\ \A o \in Procs : turn'[o][f] # 0 => o = q
    BY DEF Taken
  <2>1. CASE f = e
    <3>1. q = p
      BY <1>2, <1>5, <2>1
    <3> QED
      BY <1>2, <1>5, <2>1, <3>1
  <2>2. CASE f # e
    BY <1>5, <2>2 DEF EventInv, Taken
  <2> QED
    BY <2>1, <2>2
<1> QED
  BY <1>4, <1>6, <1>7, <1>8 DEF EventInv

LEMMA EventStep == ASSUME LockInv, EventInv, [Next]_vars PROVE EventInv'
<1>1. CASE UNCHANGED eventVars
  BY <1>1 DEF eventVars, EventInv, EventTypes, Unheard, OnTheWire, Taken
<1>2. CASE Boot \/ StartDb \/ UNCHANGED busVars
  BY <1>1, <1>2 DEF Boot, StartDb, busVars
<1>3. CASE StopContainer
  BY <1>3, DieEvents DEF StopContainer
<1>4. ASSUME NEW p \in Procs, Crash(p) PROVE EventInv'
  BY <1>4, DieEvents DEF Crash
<1>5. ASSUME NEW p \in Procs, StartUp(p) \/ Listen(p) PROVE EventInv'
  BY <1>1, <1>5, StartUpLock, ListenLock
<1>6. ASSUME NEW p \in Procs, Dispatch(p) PROVE EventInv'
  BY <1>6, ReceiveEvents, HandleEvents DEF Dispatch
<1>7. ASSUME NEW e \in Events, Commit(e) \/ Publish(e) PROVE EventInv'
  BY <1>7, CommitEvents, PublishEvents
<1> QED
  BY <1>2, <1>3, <1>4, <1>5, <1>6, <1>7, FaultEvents DEF Next, vars

LEMMA BusInvariant == Spec => [](LockInv /\ EventInv)
<1>1. Init => LockInv /\ EventInv
  BY LockInit, EventInit
<1>2. (LockInv /\ EventInv) /\ [Next]_vars => (LockInv /\ EventInv)'
  BY LockStep, EventStep
<1> QED
  BY <1>1, <1>2, PTL DEF Spec
-----------------------------------------------------------------------------
(* The channel                                                             *)

Sent == {e \in Events : event[e] = "published"}

\* A step sends an event, calls its next handler, or is nothing to the
\* channel.
LEMMA ChannelStep ==
    ASSUME LockInv, EventInv, [Next]_vars PROVE [Channel!ChannelNext]_(Channel!channelVars)
<1> USE DEF Channel!channelVars
<1>1. ASSUME UNCHANGED <<called, ran>>, \A e \in Events : event'[e] = "published" <=> event[e] = "published"
      PROVE  UNCHANGED Channel!channelVars
  BY <1>1
<1>2. ASSUME UNCHANGED eventVars PROVE UNCHANGED Channel!channelVars
  BY <1>2 DEF eventVars
<1>3. ASSUME NEW P \in SUBSET Procs, Die(P) PROVE UNCHANGED Channel!channelVars
  <2>1. UNCHANGED <<called, ran>>
    BY <1>3 DEF Die
  <2>2. \A e \in Events : event'[e] = "published" <=> event[e] = "published"
    BY <1>3 DEF Die
  <2> QED
    BY <1>1, <2>1, <2>2
<1>4. CASE Fault
  BY <1>4 DEF Fault, LoseSession, StopDb
<1>5. ASSUME NEW e \in Events, Commit(e) PROVE UNCHANGED Channel!channelVars
  <2>1. UNCHANGED <<called, ran>>
    BY <1>5 DEF Commit
  <2>2. \A f \in Events : event'[f] = "published" <=> event[f] = "published"
    BY <1>5 DEF Commit, EventInv, EventTypes
  <2> QED
    BY <1>1, <2>1, <2>2
<1>6. ASSUME NEW e \in Events, Publish(e) PROVE [Channel!ChannelNext]_(Channel!channelVars)
  <2>1. /\ event[e] = "committed" /\ UNCHANGED <<called, ran>>
        /\ event' = [event EXCEPT ![e] = IF dbUp THEN "published" ELSE "lost"]
    BY <1>6 DEF Publish
  <2>2. CASE ~dbUp
    <3>1. \A f \in Events : event'[f] = "published" <=> event[f] = "published"
      BY <2>1, <2>2 DEF EventInv, EventTypes
    <3> QED
      BY <1>1, <2>1, <3>1
  <2>3. CASE dbUp
    <3>1. e \notin Sent /\ Sent' = Sent \cup {e}
      BY <2>1, <2>3 DEF EventInv, EventTypes, Sent
    <3>2. Channel!Send(e)
      BY <2>1, <3>1 DEF Channel!Send, Sent
    <3> QED
      BY <3>2 DEF Channel!ChannelNext
  <2> QED
    BY <2>2, <2>3
<1>7. ASSUME NEW p \in Procs, NEW e \in Events, Receive(p, e) PROVE UNCHANGED Channel!channelVars
  BY <1>7 DEF Receive
<1>8. ASSUME NEW p \in Procs, NEW e \in Events, Handle(p, e) PROVE Channel!ChannelNext
  <2>1. /\ turn[p][e] \in 1 .. Handlers /\ turn[p][e] = called[e] + 1 /\ called[e] \in Nat
        /\ event[e] = "published"
    BY <1>8, HandleFields
  <2>2. e \in Sent /\ called[e] < Handlers
    BY <2>1, HandlersAssumption DEF Sent
  <2>3. /\ called' = [called EXCEPT ![e] = @ + 1] /\ UNCHANGED event
        /\ ran' \in {ran, [ran EXCEPT ![e] = @ \cup {turn[p][e]}]}
    BY <1>8 DEF Handle
  <2>4. Channel!Call(e)
    BY <2>1, <2>2, <2>3 DEF Channel!Call, Sent
  <2> QED
    BY <2>4 DEF Channel!ChannelNext
<1>9. CASE Boot \/ StartDb \/ UNCHANGED busVars
  <2>1. UNCHANGED eventVars
    BY <1>9 DEF Boot, StartDb, busVars
  <2> QED
    BY <1>2, <2>1
<1>10. ASSUME NEW p \in Procs, StartUp(p) \/ Listen(p) PROVE UNCHANGED Channel!channelVars
  <2>1. UNCHANGED eventVars
    BY <1>10, StartUpLock, ListenLock
  <2> QED
    BY <1>2, <2>1
<1> QED
  BY <1>3, <1>4, <1>5, <1>6, <1>7, <1>8, <1>9, <1>10 DEF Next, Crash, StopContainer, Dispatch, vars

\* The state of the bus keeps its types, and one session at a time has the
\* listener lock (infrastructure/event_bus.py:108).
THEOREM TypeCorrect == Spec => [](TypeOK /\ OneHolder)
<1>1. IndexInv /\ LockInv /\ EventInv => TypeOK /\ OneHolder
  BY DEF IndexInv, LockInv, EventInv, BusTypes, EventTypes, TypeOK
<1> QED
  BY <1>1, IndexInvariant, BusInvariant, PTL

\* With any number of processes, faults and events the bus is the channel:
\* each handler of an event is called once at most, in the order of
\* subscription (infrastructure/event_bus.py:108).
THEOREM ChannelImplemented == Spec => ImplementsChannel
<1>1. Init => Channel!ChannelInit
  BY DEF Init, Channel!ChannelInit
<1>2. (LockInv /\ EventInv) /\ [Next]_vars => [Channel!ChannelNext]_(Channel!channelVars)
  BY ChannelStep
<1> QED
  BY <1>1, <1>2, BusInvariant, PTL DEF Spec, ImplementsChannel, Channel!ChannelSpec
=============================================================================
