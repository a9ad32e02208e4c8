------------------------------ MODULE EventBus ------------------------------
(***************************************************************************)
(* The API container, from its boot to the events its processes exchange   *)
(* through PostgreSQL.  A boot starts the program that embeds regulations  *)
(* (RegulationIndex) and uvicorn with its worker processes; the parent of  *)
(* uvicorn 0.28, the pinned version, does not replace a worker that ends,  *)
(* so only the next boot does.                                             *)
(*                                                                         *)
(* A process that starts prepares the checkpoint tables under an advisory  *)
(* lock which it polls, registers its handlers and starts a task that      *)
(* listens.  NOTIFY reaches every session that listens, so the tasks elect *)
(* one by a second advisory lock, held as long as its session lives; the   *)
(* others try again every now and then.                                    *)
(*                                                                         *)
(* asyncpg.connect and the statement that asks for the lock are outside    *)
(* the try of the loop: an exception there ends the task for good, while   *)
(* its process goes on serving requests.                                   *)
(***************************************************************************)
EXTENDS RegulationIndex

CONSTANTS
    Procs,       \* worker processes of uvicorn
    Events,      \* events the domains publish
    Handlers,    \* number of handlers subscribed to an event
    MaxFaults    \* bound: processes that die, connections of listeners that
                 \* break, restarts of the container and of the database

ASSUME HandlersAssumption == Handlers \in Nat \ {0}
ASSUME BoundsAssumption == MaxFaults \in Nat

VARIABLES
    container,   \* the API container runs
    phase,       \* per process: how far its lifespan has come
    migrated,    \* the checkpoint tables have their indexes
    awaited,     \* processes whose open statement the index build waits for
    task,        \* per process: where its listen task stands
    session,     \* per process: the task's session, as the server has it
    dbUp,        \* the database accepts connections
    event,       \* per event: its way from a commit to NOTIFY
    publisher,   \* per event: the process that publishes it
    wire,        \* per process: notifications sent to it and not yet read
    turn,        \* per process and event: the handler whose turn it is, 0 if none
    called,      \* history, per event: handler calls made
    ran,         \* history, per event: handlers that returned
    faults       \* bound counter

startVars == <<container, phase, migrated, awaited>>
taskVars == <<task, session>>
eventVars == <<event, publisher, wire, turn, called, ran>>
busVars == <<startVars, taskVars, dbUp, eventVars, faults>>
vars == <<busVars, indexVars>>

Phases == {"down", "starting", "polling", "asking", "migrating", "indexing", "serving"}
Tasks == {"none", "connecting", "electing", "sleeping", "elected", "listening", "dead"}
Sessions == {"none", "open", "locked", "listening"}

TypeOK ==
    /\ IndexTypeOK
    /\ container \in BOOLEAN
    /\ phase \in [Procs -> Phases]
    /\ migrated \in BOOLEAN
    /\ awaited \subseteq Procs
    /\ task \in [Procs -> Tasks]
    /\ session \in [Procs -> Sessions]
    /\ dbUp \in BOOLEAN
    /\ event \in [Events -> {"new", "committed", "published", "lost"}]
    /\ publisher \in [Events -> Procs]
    /\ wire \in [Procs -> SUBSET Events]
    /\ turn \in [Procs -> [Events -> 0 .. Handlers + 1]]
    /\ called \in [Events -> 0 .. Handlers]
    /\ ran \in [Events -> SUBSET (1 .. Handlers)]
    /\ faults \in 0 .. MaxFaults

Init ==
    /\ InitIndex
    /\ container = FALSE
    /\ phase = [p \in Procs |-> "down"]
    /\ migrated = FALSE
    /\ awaited = {}
    /\ task = [p \in Procs |-> "none"]
    /\ session = [p \in Procs |-> "none"]
    /\ dbUp = TRUE
    /\ event = [e \in Events |-> "new"]
    /\ publisher \in [Events -> Procs]
    /\ wire = [p \in Procs |-> {}]
    /\ turn = [p \in Procs |-> [e \in Events |-> 0]]
    /\ called = [e \in Events |-> 0]
    /\ ran = [e \in Events |-> {}]
    /\ faults = 0

----------------------------------------------------------------------------
(* Start-up *)

\* wait_for_db has reached the database (when it gives up the container is
\* restarted); the indexer and the workers start side by side.
Boot ==
    /\ ~container /\ dbUp
    /\ container' = TRUE
    /\ phase' = [p \in Procs |-> "starting"]
    /\ indexer' = "summaries"
    /\ UNCHANGED <<summary, clause, migrated, awaited, taskVars, dbUp, eventVars, faults>>

\* verify_extensions.
Start(p) ==
    /\ phase[p] = "starting"
    /\ phase' = [phase EXCEPT ![p] = "polling"]
    /\ UNCHANGED <<container, migrated, awaited, taskVars, dbUp, eventVars, faults>>

\* The statement pg_try_advisory_lock is under way: while it is, it has a
\* transaction open.
AskSetupLock(p) ==
    /\ phase[p] = "polling"
    /\ phase' = [phase EXCEPT ![p] = "asking"]
    /\ UNCHANGED <<container, migrated, awaited, taskVars, dbUp, eventVars, faults>>

SetupLocked == \E p \in Procs : phase[p] \in {"migrating", "indexing"}

GetSetupLock(p) ==
    /\ phase[p] = "asking" /\ ~SetupLocked
    /\ phase' = [phase EXCEPT ![p] = "migrating"]
    /\ awaited' = awaited \ {p}
    /\ UNCHANGED <<container, migrated, taskVars, dbUp, eventVars, faults>>

\* Waiting in pg_advisory_lock.
MissSetupLockBlocks(p) == FALSE

\* The lock is taken: the statement ends with FALSE and the process sleeps.
MissSetupLock(p) ==
    /\ phase[p] = "asking" /\ SetupLocked
    /\ phase' = [phase EXCEPT ![p] = "polling"]
    /\ awaited' = awaited \ {p}
    /\ UNCHANGED <<container, migrated, taskVars, dbUp, eventVars, faults>>

\* The library's setup() creates what is missing.  CREATE INDEX CONCURRENTLY
\* waits for every transaction open at its start.
StartIndex(p) ==
    /\ phase[p] = "migrating" /\ ~migrated
    /\ phase' = [phase EXCEPT ![p] = "indexing"]
    /\ awaited' = {q \in Procs : phase[q] = "asking"}
    /\ UNCHANGED <<container, migrated, taskVars, dbUp, eventVars, faults>>

\* The lock is released, the handlers are subscribed, the task starts.
FinishSetup(p) ==
    /\ \/ phase[p] = "migrating" /\ migrated
       \/ phase[p] = "indexing" /\ awaited = {}
    /\ migrated' = TRUE
    /\ phase' = [phase EXCEPT ![p] = "serving"]
    /\ task' = [task EXCEPT ![p] = "connecting"]
    /\ UNCHANGED <<container, awaited, session, dbUp, eventVars, faults>>

----------------------------------------------------------------------------
(* The listen task *)

Connect(p) ==
    /\ task[p] = "connecting"
    /\ IF dbUp
       THEN /\ task' = [task EXCEPT ![p] = "electing"]
            /\ session' = [session EXCEPT ![p] = "open"]
       ELSE /\ task' = [task EXCEPT ![p] = "dead"]
            /\ UNCHANGED session
    /\ UNCHANGED <<startVars, dbUp, eventVars, faults>>

Holders == {p \in Procs : session[p] \in {"locked", "listening"}}

\* Without the lock.
ElectAll(p) ==
    /\ task[p] = "electing"
    /\ task' = [task EXCEPT ![p] = IF session[p] = "none" THEN "dead" ELSE "elected"]
    /\ session' = [session EXCEPT ![p] = IF @ = "none" THEN "none" ELSE "locked"]
    /\ UNCHANGED <<startVars, dbUp, eventVars, faults>>

Elect(p) ==
    /\ task[p] = "electing"
    /\ CASE session[p] = "none" ->
                /\ task' = [task EXCEPT ![p] = "dead"]
                /\ UNCHANGED session
         [] session[p] = "open" /\ Holders = {} ->
                /\ task' = [task EXCEPT ![p] = "elected"]
                /\ session' = [session EXCEPT ![p] = "locked"]
         [] OTHER ->
                /\ task' = [task EXCEPT ![p] = "sleeping"]
                /\ session' = [session EXCEPT ![p] = "none"]
    /\ UNCHANGED <<startVars, dbUp, eventVars, faults>>

\* LISTEN.
AddListener(p) ==
    /\ task[p] = "elected" /\ session[p] = "locked"
    /\ task' = [task EXCEPT ![p] = "listening"]
    /\ session' = [session EXCEPT ![p] = "listening"]
    /\ UNCHANGED <<startVars, dbUp, eventVars, faults>>

TryAgain(p) ==
    /\ task[p] = "sleeping"
    /\ task' = [task EXCEPT ![p] = "connecting"]
    /\ UNCHANGED <<startVars, session, dbUp, eventVars, faults>>

\* A broken connection that nobody notices.
HeartbeatNever(p) == FALSE

\* LISTEN or the heartbeat's SELECT 1 fails: back to the election.
Heartbeat(p) ==
    /\ task[p] \in {"elected", "listening"} /\ session[p] = "none"
    /\ task' = [task EXCEPT ![p] = "connecting"]
    /\ UNCHANGED <<startVars, session, dbUp, eventVars, faults>>

----------------------------------------------------------------------------
(* Events *)

\* A request commits the change the event tells of.
Commit(e) ==
    /\ event[e] = "new" /\ dbUp
    /\ phase[publisher[e]] = "serving"
    /\ event' = [event EXCEPT ![e] = "committed"]
    /\ UNCHANGED <<startVars, taskVars, dbUp, publisher, wire, turn, called, ran, faults>>

\* NOTIFY, on a connection of its own: all that listen get a copy, now.
Publish(e) ==
    /\ event[e] = "committed"
    /\ event' = [event EXCEPT ![e] = IF dbUp THEN "published" ELSE "lost"]
    /\ wire' = [p \in Procs |-> IF dbUp /\ session[p] = "listening"
                                THEN wire[p] \cup {e} ELSE wire[p]]
    /\ UNCHANGED <<startVars, taskVars, dbUp, publisher, turn, called, ran, faults>>

\* _on_notify: a task per notification.
Receive(p, e) ==
    /\ e \in wire[p]
    /\ wire' = [wire EXCEPT ![p] = @ \ {e}]
    /\ turn' = [turn EXCEPT ![p][e] = 1]
    /\ UNCHANGED <<startVars, taskVars, dbUp, event, publisher, called, ran, faults>>

\* The handler whose turn it is returns, or raises, which is logged.
Handle(p, e) ==
    /\ turn[p][e] \in 1 .. Handlers
    /\ turn' = [turn EXCEPT ![p][e] = @ + 1]
    /\ called' = [called EXCEPT ![e] = @ + 1]
    /\ \/ dbUp /\ ran' = [ran EXCEPT ![e] = @ \cup {turn[p][e]}]
       \/ UNCHANGED ran
    /\ UNCHANGED <<startVars, taskVars, dbUp, event, publisher, wire, faults>>

----------------------------------------------------------------------------
(* Failures *)

AFault == faults < MaxFaults /\ faults' = faults + 1

\* What a process leaves behind when it ends: nothing but what is committed.
Gone(P) ==
    /\ phase' = [p \in Procs |-> IF p \in P THEN "down" ELSE phase[p]]
    /\ awaited' = awaited \ P

\* What dies with a set of processes.
Die(P) ==
    /\ AFault
    /\ Gone(P)
    /\ task' = [p \in Procs |-> IF p \in P THEN "none" ELSE task[p]]
    /\ session' = [p \in Procs |-> IF p \in P THEN "none" ELSE session[p]]
    /\ wire' = [p \in Procs |-> IF p \in P THEN {} ELSE wire[p]]
    /\ turn' = [p \in Procs |-> IF p \in P THEN [e \in Events |-> 0] ELSE turn[p]]
    /\ event' = [e \in Events |-> IF event[e] = "committed" /\ publisher[e] \in P
                                  THEN "lost" ELSE event[e]]
    /\ UNCHANGED <<migrated, dbUp, publisher, called, ran>>

Crash(p) ==
    /\ phase[p] # "down"
    /\ Die({p})
    /\ UNCHANGED <<container, indexVars>>

\* A deployment, or the parent process ends.  A transaction of the indexer
\* that is open is undone.
StopContainer ==
    /\ container
    /\ Die(Procs)
    /\ container' = FALSE
    /\ indexer' = "off"
    /\ UNCHANGED <<summary, clause>>

LoseSession(p) ==
    /\ session[p] # "none" /\ AFault
    /\ session' = [session EXCEPT ![p] = "none"]
    /\ wire' = [wire EXCEPT ![p] = {}]
    /\ UNCHANGED <<startVars, task, dbUp, event, publisher, turn, called, ran>>

\* The database restarts: sessions end, and a lifespan that has not come to
\* serving raises.
StopDb ==
    /\ dbUp /\ AFault
    /\ dbUp' = FALSE
    /\ Gone({p \in Procs : phase[p] # "serving"})
    /\ session' = [p \in Procs |-> "none"]
    /\ wire' = [p \in Procs |-> {}]
    /\ UNCHANGED <<container, migrated, task, event, publisher, turn, called, ran>>

StartDb ==
    /\ ~dbUp
    /\ dbUp' = TRUE
    /\ UNCHANGED <<startVars, taskVars, eventVars, faults>>

----------------------------------------------------------------------------

StartUp(p) ==
    Start(p) \/ AskSetupLock(p) \/ GetSetupLock(p) \/ MissSetupLock(p) \/ StartIndex(p) \/ FinishSetup(p)

Listen(p) ==
    Connect(p) \/ Elect(p) \/ AddListener(p) \/ TryAgain(p) \/ Heartbeat(p)

Dispatch(p) == \E e \in Events : Receive(p, e) \/ Handle(p, e)

Index == dbUp /\ (ReindexRegulations \/ SeedClauses \/ ReindexClauses)

Fault == (\E p \in Procs : LoseSession(p)) \/ StopDb

Next ==
    \/ Boot \/ StopContainer
    \/ \E p \in Procs : Crash(p)
    \/ /\ \/ \E p \in Procs : StartUp(p) \/ Listen(p) \/ Dispatch(p)
          \/ \E e \in Events : Commit(e) \/ Publish(e)
          \/ Fault
          \/ StartDb
       /\ UNCHANGED indexVars
    \/ (Index \/ SkipStep) /\ UNCHANGED busVars

Spec == Init /\ [][Next]_vars

\* Docker restarts the container and the database whenever they end (restart:
\* always in docker-compose.yml); a process that runs takes its steps; a
\* statement ends.  Nothing is fair about requests, failures and the indexer,
\* and a worker that died stays dead until the next boot.
FairSpec ==
    /\ Spec
    /\ WF_vars(Boot)
    /\ \A p \in Procs :
        /\ WF_vars(StartUp(p) /\ UNCHANGED indexVars)
        /\ WF_vars(Listen(p) /\ UNCHANGED indexVars)
        /\ WF_vars(Dispatch(p) /\ UNCHANGED indexVars)
    /\ WF_vars(StartDb /\ UNCHANGED indexVars)

----------------------------------------------------------------------------
(* Properties *)

\* The bus implements the channel: with any number of processes each handler
\* of an event is called once at most, in the order of subscription, although
\* NOTIFY is a broadcast (event_bus.py:108-113).
Channel == INSTANCE EventChannel WITH sent <- {e \in Events : event[e] = "published"}
ImplementsChannel == Channel!ChannelSpec

\* Every process that starts comes to serve requests unless it dies: nobody
\* waits for the setup lock for ever, nor an index build for those who wait
\* (graph.py:288-293).
StartsUp == \A p \in Procs : phase[p] = "polling" ~> phase[p] \in {"serving", "down"}

\* As long as listen tasks are left, one of them comes to listen again after a
\* crash, a broken connection or a restart of the database (event_bus.py:112).
TakenOver ==
    LET alive == {p \in Procs : task[p] \notin {"none", "dead"}}
    IN  alive # {} ~> alive = {} \/ \E p \in Procs : session[p] = "listening"

\* A judge that searches a regulation while the indexer runs, is killed or
\* skips a step gets the clauses nearest to its query among all that the program
\* carries, as many as it asks for, or the summary, or nothing; never the nearest
\* of a part of them (embeddings.py:262-309, compliance.py:203-299).  A judge that
\* asks for fewer than there are does not see the others: analyze_carbon_compliance
\* asks for 3 of the 4 clauses of EU_BATTERY_ART7 (compliance.py:1261).
FoundWhole ==
    \A r \in Searched, q \in Rankings, top_k \in Limits :
        Found(r, q, top_k) \in {{}, {"summary"}, Nearest(q, top_k, Citations)}

\* What a query finds of a regulation never goes away, and clauses it found stay
\* the nearest, whatever boots again: "safe beside the serving API"
\* (docker-compose.yml:75).
FoundStays ==
    [][\A r \in Regulations, q \in Rankings, top_k \in Limits :
        /\ Found(r, q, top_k) # {} => Found(r, q, top_k)' # {}
        /\ Found(r, q, top_k) \subseteq Citations =>
             Found(r, q, top_k) \subseteq Found(r, q, top_k)']_vars
=============================================================================
