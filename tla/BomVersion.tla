----------------------------- MODULE BomVersion -----------------------------
(***************************************************************************)
(* The BOM versions of a product and the tree that is read from the active *)
(* one.  The versions, the parts and what each version declares come with  *)
(* the seeds; the service activates and deprecates versions in             *)
(* transactions that read first and lock when they write, at the isolation *)
(* level READ COMMITTED.                                                   *)
(***************************************************************************)
EXTENDS Naturals, FiniteSets

CONSTANTS
    Versions,    \* the versions of one product: those of others are not touched
    Parts, Null,
    MaxDepth,    \* the last level the recursion reaches, 5 in the code
    Callers,     \* requests that may overlap
    MaxCalls     \* bound: requests

ASSUME NullAssumption == Null \notin Versions \cup Parts
ASSUME PartsAssumption == IsFiniteSet(Parts)
ASSUME BoundsAssumption == {MaxDepth, MaxCalls} \subseteq Nat

VARIABLES
    status,      \* bom_versions.status
    parent,      \* parts.parent_part_id
    items,       \* the parts a version declares: bom_items
    call,        \* per caller: the transition it is making
    overlap,     \* history: an activation did not see another one
    calls        \* bound counter

vars == <<status, parent, items, call, overlap, calls>>

Status == {"draft", "active", "deprecated"}

\* seen: the active versions its UPDATE found; held: the rows it has locked.
\* missed: history, another version was activated since; revives: its own
\* version was deprecated since it was read.
Calls == [pc : {"idle", "read", "seen", "ready", "written"}, target : Status,
          version : Versions \cup {Null}, seen : SUBSET Versions, held : SUBSET Versions,
          missed : BOOLEAN, revives : BOOLEAN]

Idle == [pc |-> "idle", target |-> "draft", version |-> Null, seen |-> {}, held |-> {},
         missed |-> FALSE, revives |-> FALSE]

TypeOK ==
    /\ status \in [Versions -> Status]
    /\ parent \in [Parts -> Parts \cup {Null}]
    /\ items \in [Versions -> SUBSET Parts]
    /\ call \in [Callers -> Calls]
    /\ \A c \in Callers : call[c].pc # "idle" => call[c].version \in Versions
    /\ overlap \in BOOLEAN
    /\ calls \in Nat

-----------------------------------------------------------------------------
(* get_bom_tree                                                            *)

HasParent(p) == parent[p] # Null

\* NULL NOT IN (...) holds of the empty list only: a part without a parent is
\* an anchor when no part with a parent is declared, and is left out otherwise.
Anchors(v) ==
    LET below == {p \in items[v] : HasParent(p)} IN
    IF below = {} THEN items[v] ELSE {p \in below : parent[p] \notin below}

\* Variant, not the code: the children need not be declared.
ChildrenOfCatalogue(v, level) == {p \in Parts : parent[p] \in level}

Children(v, level) == {p \in items[v] : parent[p] \in level}

\* The recursive query: the parts found at each depth.
Level(v) ==
    LET level[d \in 0..MaxDepth] == IF d = 0 THEN Anchors(v) ELSE Children(v, level[d - 1])
    IN  level

\* The rows become nodes, a node of a part replaces an earlier one, and hangs
\* below its parent; those of depth 0 are the roots.
Tree(v) ==
    LET level == Level(v)
        nodes == UNION {level[d] : d \in 0..MaxDepth} IN
    {edge \in nodes \X nodes : edge[1] = parent[edge[2]]}
    \cup {<<Null, p>> : p \in level[0] \ UNION {level[d] : d \in 1..MaxDepth}}

-----------------------------------------------------------------------------

\* How many parts there are from a part up to its top; 0 on a cycle.
Tiers(up) ==
    LET above[n \in 0..Cardinality(Parts)] ==
            [p \in Parts |-> IF n = 0 THEN 0
                             ELSE IF up[p] = Null THEN 1
                             ELSE IF above[n - 1][up[p]] = 0 THEN 0
                             ELSE above[n - 1][up[p]] + 1]
    IN  above[Cardinality(Parts)]

\* The catalogue has tiers from 0 to 6, one more than the recursion reaches.
Catalogue(up) == \A p \in Parts : Tiers(up)[p] \in 1..(MaxDepth + 2)

Init ==
    /\ status \in {s \in [Versions -> Status] :
                     \A v, w \in Versions : s[v] = "active" /\ s[w] = "active" => v = w}
    /\ parent \in {up \in [Parts -> Parts \cup {Null}] : Catalogue(up)}
    /\ items \in [Versions -> SUBSET Parts]
    /\ call = [c \in Callers |-> Idle]
    /\ overlap = FALSE
    /\ calls = 0

-----------------------------------------------------------------------------
(* activate_bom_version, deprecate_bom_version                             *)

Transitions(from) ==
    CASE from = "draft" -> {"active", "deprecated"}
      [] from = "active" -> {"deprecated"}
      [] from = "deprecated" -> {}

\* Variant, not the code: any transition is allowed.
ReadVersionUnchecked(c, v, target) ==
    /\ call[c].pc = "idle"
    /\ calls < MaxCalls
    /\ calls' = calls + 1
    /\ call' = [call EXCEPT ![c] = [Idle EXCEPT !.pc = IF target = "active" THEN "read" ELSE "ready",
                                                !.target = target, !.version = v]]
    /\ UNCHANGED <<status, parent, items, overlap>>

\* The version is read and its transition checked.
ReadVersion(c, v, target) ==
    /\ call[c].pc = "idle"
    /\ calls < MaxCalls
    /\ calls' = calls + 1
    /\ target \in Transitions(status[v])
    /\ call' = [call EXCEPT ![c] = [Idle EXCEPT !.pc = IF target = "active" THEN "read" ELSE "ready",
                                                !.target = target, !.version = v]]
    /\ UNCHANGED <<status, parent, items, overlap>>

HeldByOthers(c) == UNION {call[d].held : d \in Callers \ {c}}

\* The UPDATE starts: it sees the other versions that are active by now.
SeeOthers(c) ==
    /\ call[c].pc = "read"
    /\ call' = [call EXCEPT ![c].pc = "seen",
                            ![c].seen = {v \in Versions \ {call[c].version} : status[v] = "active"}]
    /\ UNCHANGED <<status, parent, items, overlap, calls>>

\* Variant, not the code: the versions that are active are left so.
LockOthersNone(c) ==
    /\ call[c].pc = "seen"
    /\ call' = [call EXCEPT ![c].pc = "ready"]
    /\ UNCHANGED <<status, parent, items, overlap, calls>>

\* It waits for their rows and skips those that are active no more.
LockOthers(c) ==
    /\ call[c].pc = "seen"
    /\ call[c].seen \cap HeldByOthers(c) = {}
    /\ call' = [call EXCEPT ![c].pc = "ready",
                            ![c].held = {v \in call[c].seen : status[v] = "active"}]
    /\ UNCHANGED <<status, parent, items, overlap, calls>>

\* The flush updates the row of the version by its id, whatever it is now.
Write(c) ==
    /\ call[c].pc = "ready"
    /\ call[c].version \notin HeldByOthers(c)
    /\ call' = [call EXCEPT ![c].pc = "written", ![c].held = @ \cup {call[c].version}]
    /\ UNCHANGED <<status, parent, items, overlap, calls>>

\* The calls under way after those of c are committed.
Overtaken(c, d) ==
    LET k == call[c]
        o == call[d]
        deprecated == IF k.target = "active" THEN k.held \ {k.version} ELSE k.held IN
    [o EXCEPT
       !.missed = @ \/ (/\ k.target = "active" /\ o.target = "active"
                        /\ o.pc \in {"seen", "ready", "written"}
                        /\ o.version # k.version),
       !.revives = @ \/ (o.target = "active" /\ o.version \in deprecated)]

Commit(c) ==
    LET k == call[c] IN
    /\ k.pc = "written"
    /\ status' = [v \in Versions |->
                    IF v = k.version THEN k.target
                    ELSE IF v \in k.held THEN "deprecated" ELSE status[v]]
    /\ call' = [d \in Callers |-> IF d = c THEN Idle ELSE Overtaken(c, d)]
    /\ overlap' = (overlap \/ k.missed)
    /\ UNCHANGED <<parent, items, calls>>

\* A request dies, or is chosen to break a deadlock: it is rolled back.
Abort(c) ==
    /\ call[c].pc # "idle"
    /\ call' = [call EXCEPT ![c] = Idle]
    /\ UNCHANGED <<status, parent, items, overlap, calls>>

-----------------------------------------------------------------------------

Next ==
    \E c \in Callers :
        \/ \E v \in Versions, target \in {"active", "deprecated"} : ReadVersion(c, v, target)
        \/ SeeOthers(c)
        \/ LockOthers(c)
        \/ Write(c)
        \/ Commit(c)
        \/ Abort(c)

Spec == Init /\ [][Next]_vars

-----------------------------------------------------------------------------
(* Properties                                                              *)

\* PROJECT_CORE 3-1, state_machine.py: a product has one active version.  Two
\* end up active only if an activation was committed after the UPDATE of
\* another had looked for active versions.
OneActive ==
    overlap \/ \A v, w \in Versions : status[v] = "active" /\ status[w] = "active" => v = w

\* state_machine.py: deprecated is terminal.  A version comes back only by an
\* activation that had read it before it was deprecated.
DeprecatedStays ==
    [][\A v \in Versions :
         status[v] = "deprecated" /\ status'[v] # "deprecated" =>
            \E c \in Callers : call[c].pc = "written" /\ call[c].version = v /\ call[c].revives]_vars

\* get_bom_tree: whatever an active version declares, the tree has every part
\* that has a parent in the catalogue, and every part if none has; it has no
\* part that is not declared, and each once, below its parent if the tree has
\* it too and at the top if not.  That a part without a parent is a root, as
\* product/README.md:56 and 218 say, is not claimed: beside parts with a parent
\* the code leaves it out.
TreeComplete ==
    \A v \in Versions :
        LET shown == {edge[2] : edge \in Tree(v)} IN
        status[v] = "active" =>
            /\ {p \in items[v] : HasParent(p)} \subseteq shown
            /\ (\A p \in items[v] : ~HasParent(p)) => items[v] \subseteq shown
            /\ shown \subseteq items[v]
            /\ Tree(v) = {<<IF parent[p] \in shown THEN parent[p] ELSE Null, p>> : p \in shown}
=============================================================================
