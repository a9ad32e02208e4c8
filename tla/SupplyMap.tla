----------------------------- MODULE SupplyMap ------------------------------
(***************************************************************************)
(* What is read from the supply chain map of one BOM version.  The tree,   *)
(* the contributions and the gap list are three recursive queries over the *)
(* same rows, with different joins and different guards against loops.     *)
(* The gap list decides whom data is requested from, and, with the sums of *)
(* the supply ratios, whether the prime is told that the map is complete.  *)
(* A reader takes several statements, between which the map changes.       *)
(*                                                                         *)
(* The insertions themselves, and how they overlap, are in SupplyGraph.    *)
(***************************************************************************)
EXTENDS SupplyLinks, Sequences, FiniteSetsExt, SequencesExt

CONSTANTS
    Miner,
    Miners,          \* the suppliers that are mines
    Null,
    Parts, First, Second,   \* two of the parts
    Factories,
    Owner,           \* the supplier of a factory
    Whole,           \* 100 per cent
    Targets,         \* bound: the suppliers a request may name; {} is all of them
    MaxOps           \* bound: changes of the map

ASSUME MapAssumption ==
    /\ Miner \in Suppliers /\ Miners \subseteq Suppliers
    /\ {First, Second} \subseteq Parts
    /\ IsFiniteSet(Factories) /\ Owner \in [Factories -> Suppliers]
    /\ Targets \subseteq SUBSET Suppliers
ASSUME MapBounds == MaxOps \in Nat /\ Whole \in Nat \ {0}
    /\ Null \notin Nat \cup Factories

VARIABLES
    edges,       \* supply_chain_map
    ratio,       \* supply_ratio, per edge that has rows: factory -> ratio_percentage
    share,       \* supplier_factories.supply_ratio_percent
    held,        \* per supplier: the fields it has filled in
    markets,     \* the destinations of the batches of the product
    confirmed,   \* the edges with link_status supplychain_confirmed
    verified,    \* the edges with verification_status verified
    status,      \* supply_chain_maps.status
    task,        \* the reader at work
    ops          \* bound counter

map == <<edges, ratio, share, held, markets, confirmed, verified, status>>
mapVars == <<map, task, ops>>

\* below: the parent had a row when this one was inserted.
MapEdges == [parent : Suppliers \cup {NoSupplier}, child : Suppliers, part : Parts,
          hop : Nat, copy : Nat, below : BOOLEAN]

Fields == {"carbon_intensity", "mine_coordinates", "origin_country", "consent_agreement"}

Destinations == <<"EU", "KR", "US">>

\* A row of the gap list, with what the supplier had when it was read.
Nodes == [supplier : Suppliers, depth : Nat, root : BOOLEAN, has : SUBSET Fields]

\* rest: the nodes still to be visited; asked: the events published, per
\* supplier; stale: history, the map changed after the first statement.
Tasks == [pc : {"idle", "asked", "nodes", "gaps", "edges", "publish", "tell"},
          by : {"trigger", "final"}, targets : SUBSET Suppliers,
          rest : SUBSET Nodes, market : {"EU", "KR", "US"}, ok : BOOLEAN,
          asked : [Suppliers -> Nat], stale : BOOLEAN]

MapTypeOK ==
    /\ edges \subseteq MapEdges
    /\ DOMAIN ratio \subseteq edges
    /\ \A e \in DOMAIN ratio :
         /\ DOMAIN ratio[e] \subseteq Factories
         /\ \A f \in DOMAIN ratio[e] : ratio[e][f] \in 0 .. Whole
    /\ share \in [Factories -> 0 .. Whole \cup {Null}]
    /\ held \in [Suppliers -> SUBSET Fields]
    /\ markets \subseteq {"EU", "KR", "US"}
    /\ confirmed \subseteq edges /\ verified \subseteq edges
    /\ status \in {"building", "completed"}
    /\ task \in Tasks
    /\ ops \in Nat

-----------------------------------------------------------------------------
(* The recursive queries.  A row is reached along a path of edges.          *)

Anchors == {e \in edges : e.parent = NoSupplier}

\* The row repeats a supplier and part above it.
IsCycle(p) ==
    \E i \in 1 .. Len(p) - 1 : p[i].child = Last(p).child /\ p[i].part = Last(p).part

\* get_n_tier_supply_chain and the contributions: one level further down,
\* below a row that closes no cycle.
TreeJoins(p, e) ==
    e.parent = Last(p).child /\ e.hop = Last(p).hop + 1 /\ ~IsCycle(p)

\* Variant, not the code: the gap list asks for the next level as well.
GapJoinsByHop(p, e) ==
    e.parent = Last(p).child /\ (\A i \in DOMAIN p : p[i].child # e.child) /\ e.hop = Last(p).hop + 1

\* get_supplier_field_data: whatever the level, but no supplier twice.
GapJoins(p, e) ==
    e.parent = Last(p).child /\ \A i \in DOMAIN p : p[i].child # e.child

Joins(query, p, e) == IF query = "tree" THEN TreeJoins(p, e) ELSE GapJoins(p, e)

\* The paths from an anchor, joined edge by edge.
Unfold(query) ==
    LET to[n \in 0 .. Cardinality(edges)] ==
          IF n = 0 THEN {<<e>> : e \in Anchors}
          ELSE LET shorter == to[n - 1]
                   next(p) == {e \in edges : Joins(query, p, e)}
               IN  shorter \cup UNION {{Append(p, e) : e \in next(p)} : p \in {q \in shorter : Len(q) = n}}
    IN  to[Cardinality(edges)]

Tree == Unfold("tree")

\* One row per supplier and level.
GapRows ==
    LET paths == Unfold("gaps")
        roots == {Last(p).child : p \in {q \in paths : Last(q).hop = 0}}
    IN  {[supplier |-> Last(p).child, depth |-> Last(p).hop,
          root |-> Last(p).child \in roots, has |-> held[Last(p).child]] : p \in paths}

-----------------------------------------------------------------------------
(* get_gaps                                                                *)

\* The first destination in the order of the alphabet, EU if there is none.
Market(D) ==
    IF D = {} THEN "EU"
    ELSE Destinations[CHOOSE i \in 1 .. 3 :
            Destinations[i] \in D /\ \A j \in 1 .. i - 1 : Destinations[j] \notin D]

\* The mandatory fields of the regulations of a market that the gap list can
\* look up: EUDR and EU_BATTERY_ART7 in the EU, UFLPA in the US; none applies
\* to KR.
Required(market, s) ==
    CASE market = "EU" -> IF s \in Miners THEN {"mine_coordinates"} ELSE {"carbon_intensity"}
      [] market = "US" -> IF s \in Miners THEN {"origin_country"} ELSE {}
      [] market = "KR" -> {}

\* Consent is asked of everyone but the mines and the prime.
Missing(node, market) ==
    (Required(market, node.supplier)
       \cup (IF node.root \/ node.supplier \in Miners THEN {} ELSE {"consent_agreement"}))
    \ node.has

-----------------------------------------------------------------------------
(* Ratios                                                                  *)

\* The factories an edge is split between: its supply_ratio rows, or else
\* what its supplier entered for the factories.
Split(e) ==
    IF e \in DOMAIN ratio THEN ratio[e]
    ELSE [f \in {g \in Factories : Owner[g] = e.child /\ share[g] # Null} |-> share[f]]

Sum(g) == FoldFunction(LAMBDA x, y : x + y, 0, g)

\* An edge nobody split is passed through.
Total(e) == IF DOMAIN Split(e) = {} THEN Whole ELSE Sum(Split(e))

\* Whole to the power of n.
WholeTo(n) ==
    LET power[k \in 0 .. n] == IF k = 0 THEN 1 ELSE power[k - 1] * Whole
    IN  power[n]

\* Along the path the totals are multiplied: of WholeTo(Len(p)).
Cumulative(p) == FoldLeft(LAMBDA x, e : x * Total(e), 1, p)

\* Variant, not the code: the totals of the edge are not divided out again.
ContributionUndivided(p, f) ==
    IF f = Null THEN Cumulative(p) ELSE Cumulative(p) * Split(Last(p))[f]

\* What a factory of the last edge contributes, of WholeTo(Len(p)): its part
\* of the edge; an edge nobody split contributes without one.
Contribution(p, f) ==
    IF f = Null THEN Cumulative(p)
    ELSE (Cumulative(p) * Split(Last(p))[f]) \div Total(Last(p))

Contributors(e) == IF DOMAIN Split(e) = {} THEN {Null} ELSE DOMAIN Split(e)

Contributions ==
    {[path |-> x[1], factory |-> x[2], amount |-> Contribution(x[1], x[2])] :
        x \in {y \in Tree \X (Factories \cup {Null}) :
                 ~IsCycle(y[1]) /\ y[2] \in Contributors(Last(y[1]))}}

\* An edge split into nothing is a division by zero, and no map is shown.
Readable == \A p \in Tree : IsCycle(p) \/ Total(Last(p)) > 0

\* get_supply_chain_validation looks at the edges with supply_ratio rows
\* only: the factories of an edge make the whole ...
EdgesValid == \A e \in DOMAIN ratio : Sum(ratio[e]) = Whole

\* ... and so do the edges of a supplier and a part.
Siblings(e) == {d \in DOMAIN ratio : d.parent = e.parent /\ d.part = e.part}

TiersValid ==
    \A e \in DOMAIN ratio : e.parent # NoSupplier =>
        MapThenSumSet(LAMBDA d : Sum(ratio[d]), Siblings(e)) = Whole

-----------------------------------------------------------------------------

Edge(parent, child, part, hop, copy, below) ==
    [parent |-> parent, child |-> child, part |-> part, hop |-> hop, copy |-> copy, below |-> below]

\* The prime and its maker; the maker below itself if it has a double role;
\* a mine beside it if the part is bought from two.
SeededEdges(double, dual) ==
    {Edge(NoSupplier, Prime, First, 0, 1, TRUE), Edge(Prime, Maker, First, 1, 1, TRUE)}
    \cup (IF double THEN {Edge(Maker, Maker, Second, 2, 1, TRUE)} ELSE {})
    \cup (IF dual THEN {Edge(Prime, Miner, First, 1, 1, TRUE)} ELSE {})

\* Nothing is split; or every edge is, evenly between the factories of its
\* supplier, into percent for each.
SeededRatios(E) ==
    {<<>>} \cup {[e \in {d \in E : d.parent # NoSupplier} |->
                    [f \in {g \in Factories : Owner[g] = e.child} |-> percent]] :
                  percent \in 1 .. Whole}

\* What a supplier has to fill in.
Form(s) ==
    IF s \in Miners THEN {"mine_coordinates", "origin_country"}
    ELSE {"carbon_intensity", "consent_agreement"}

\* The suppliers on the map have filled everything in; a mine that is not on it
\* yet was created without anything.
SeededFields(dual) == [s \in Suppliers |-> IF s \in Miners /\ ~dual THEN {} ELSE Form(s)]

NoTask == [pc |-> "idle", by |-> "trigger", targets |-> {}, rest |-> {}, market |-> "EU",
           ok |-> FALSE, asked |-> [s \in Suppliers |-> 0], stale |-> FALSE]

MapInit ==
    /\ \E double, dual \in BOOLEAN :
         /\ edges = SeededEdges(double, dual)
         /\ held = SeededFields(dual)
    /\ ratio \in SeededRatios(edges)
    /\ share = [f \in Factories |-> Null]
    /\ markets = {}
    /\ confirmed = {} /\ verified = {}
    /\ status = "building"
    /\ task = NoTask
    /\ ops = 0

-----------------------------------------------------------------------------
(* What changes the map.  A reader at work may have seen what was before.  *)

Change ==
    /\ ops < MaxOps
    /\ ops' = ops + 1
    /\ task' = [task EXCEPT !.stale = @ \/ task.pc \notin {"idle", "asked"}]

EdgesTo(s) == {e \in edges : e.child = s}

\* Variant, not the code: no level is worked out.
HopsUnset(by, parent) == IF parent = NoSupplier THEN {0} ELSE {1}

\* Below the first row of the parent for a relation, below any for a source
\* change; level 1 if it has none.
Hops(by, parent) ==
    LET hops == {e.hop + 1 : e \in EdgesTo(parent)} IN
    IF parent = NoSupplier THEN {0}
    ELSE IF hops = {} THEN {1}
    ELSE IF by = "declare" THEN hops
    ELSE {Min(hops)}

\* A relation that would close a cycle is refused; the check has no answer
\* where there is a loop already.
InsertEdge(by, parent, child, part) ==
    /\ Change
    /\ parent # NoSupplier =>
         QueryEnds(edges, parent, child) /\ parent \notin Descendants(edges, child)
    /\ \E hop \in Hops(by, parent) :
         edges' = edges \cup
             {Edge(parent, child, part, hop,
                   Cardinality({e \in EdgesTo(child) : e.parent = parent /\ e.part = part}) + 1,
                   parent = NoSupplier \/ EdgesTo(parent) # {})}
    /\ UNCHANGED <<ratio, share, held, markets, confirmed, verified, status>>

\* register_relation; only a source change may name the supplier itself.
RegisterEdge(parent, child, part) == parent # child /\ InsertEdge("register", parent, child, part)

DeclareEdge(parent, child, part) == InsertEdge("declare", parent, child, part)

\* set_supplier_verification: every row of the supplier.
Verify(s, yes) ==
    /\ Change
    /\ verified' = IF yes THEN verified \cup EdgesTo(s) ELSE verified \ EdgesTo(s)
    /\ UNCHANGED <<edges, ratio, share, held, markets, confirmed, status>>

ConfirmMap(e) ==
    /\ Change
    /\ confirmed' = confirmed \cup {e}
    /\ UNCHANGED <<edges, ratio, share, held, markets, verified, status>>

\* The first tier, or those suppliers of it; nobody named is everybody.
ConfirmPool(S) ==
    /\ Change
    /\ confirmed' = confirmed \cup {e \in edges : e.hop = 1 /\ (S = {} \/ e.child \in S)}
    /\ UNCHANGED <<edges, ratio, share, held, markets, verified, status>>

\* Whoever may write the product sets any status.
SetMapStatus(new) ==
    /\ Change
    /\ status' = new
    /\ UNCHANGED <<edges, ratio, share, held, markets, confirmed, verified>>

\* Elsewhere: a supplier fills its forms in, or empties a field again (never its
\* country), or revokes its consent; and batches are created.
SetField(s, field) ==
    /\ Change
    /\ field \in Form(s)
    /\ field = "origin_country" => field \notin held[s]
    /\ held' = [held EXCEPT ![s] = IF field \in @ THEN @ \ {field} ELSE @ \cup {field}]
    /\ UNCHANGED <<edges, ratio, share, markets, confirmed, verified, status>>

SetShare(f, percent) ==
    /\ Change
    /\ share' = [share EXCEPT ![f] = percent]
    /\ UNCHANGED <<edges, ratio, held, markets, confirmed, verified, status>>

CreateBatch(destination) ==
    /\ Change
    /\ markets' = markets \cup {destination}
    /\ UNCHANGED <<edges, ratio, share, held, confirmed, verified, status>>

-----------------------------------------------------------------------------
(* The readers                                                             *)

\* POST trigger-data-requests, for some suppliers or for all.
Trigger(targets) ==
    /\ task.pc = "idle"
    /\ task' = [NoTask EXCEPT !.pc = "asked", !.by = "trigger", !.targets = targets]
    /\ UNCHANGED <<map, ops>>

\* SubmissionApproved: is the map of the batch complete?
NotifyFinalValidation ==
    /\ task.pc = "idle"
    /\ task' = [NoTask EXCEPT !.pc = "asked", !.by = "final"]
    /\ UNCHANGED <<map, ops>>

ReadNodes ==
    /\ task.pc = "asked"
    /\ task' = [task EXCEPT !.pc = "nodes", !.rest = GapRows]
    /\ UNCHANGED <<map, ops>>

\* The regulations are looked up when the nodes are there.
ReadRegulations ==
    /\ task.pc = "nodes"
    /\ task' = [task EXCEPT !.pc = IF task.by = "trigger" THEN "publish" ELSE "gaps",
                            !.market = Market(markets)]
    /\ UNCHANGED <<map, ops>>

\* Variant, not the code: the suppliers already seen are forgotten.
PublishGapForgetful(node) ==
    /\ task.pc = "publish"
    /\ node \in task.rest
    /\ \A other \in task.rest : node.depth <= other.depth
    /\ task' = [task EXCEPT
                  !.rest = @ \ {node},
                  !.asked[node.supplier] =
                      IF /\ Missing(node, task.market) # {}
                         /\ task.targets = {} \/ node.supplier \in task.targets
                      THEN @ + 1 ELSE @]
    /\ UNCHANGED <<map, ops>>

\* The nodes come by level; a supplier with something missing is asked the
\* first time it turns up.
PublishGap(node) ==
    /\ task.pc = "publish"
    /\ node \in task.rest
    /\ \A other \in task.rest : node.depth <= other.depth
    /\ task' = [task EXCEPT
                  !.rest = @ \ {node},
                  !.asked[node.supplier] =
                      IF /\ Missing(node, task.market) # {}
                         /\ task.targets = {} \/ node.supplier \in task.targets
                         /\ @ = 0
                      THEN @ + 1 ELSE @]
    /\ UNCHANGED <<map, ops>>

\* get_validation_summary: the prime is not counted, and there must be
\* somebody else.  The two sums are queries of their own.
Gapless == \A node \in task.rest : ~node.root => Missing(node, task.market) = {}

SumEdges ==
    /\ task.pc = "gaps"
    /\ task' = [task EXCEPT !.pc = "edges",
                            !.ok = /\ Gapless
                                   /\ \E node \in task.rest : ~node.root
                                   /\ EdgesValid]
    /\ UNCHANGED <<map, ops>>

SumTiers ==
    /\ task.pc = "edges"
    /\ task' = IF task.ok /\ TiersValid THEN [task EXCEPT !.pc = "tell"] ELSE NoTask
    /\ UNCHANGED <<map, ops>>

\* Everybody was asked, or the users of the prime are told.
Finish ==
    /\ \/ task.pc = "publish" /\ task.rest = {}
       \/ task.pc = "tell"
    /\ task' = NoTask
    /\ UNCHANGED <<map, ops>>

\* The process dies, or an event cannot be published.
Fail ==
    /\ task.pc # "idle"
    /\ task' = NoTask
    /\ UNCHANGED <<map, ops>>

MapNext ==
    \/ \E parent \in Suppliers \cup {NoSupplier}, child \in Suppliers, part \in Parts :
         RegisterEdge(parent, child, part)
    \/ \E parent, child \in Suppliers, part \in Parts : DeclareEdge(parent, child, part)
    \/ \E s \in Suppliers :
         \/ \E yes \in BOOLEAN : Verify(s, yes)
         \/ \E field \in Fields : SetField(s, field)
    \/ \E e \in edges : ConfirmMap(e)
    \/ \E S \in {{}} \cup {{s} : s \in Suppliers} : ConfirmPool(S)
    \/ \E new \in {"building", "completed"} : SetMapStatus(new)
    \/ \E f \in Factories, percent \in 0 .. Whole \cup {Null} : SetShare(f, percent)
    \/ \E destination \in {"EU", "KR", "US"} : CreateBatch(destination)
    \/ \E targets \in Targets : Trigger(targets)
    \/ NotifyFinalValidation
    \/ ReadNodes
    \/ ReadRegulations
    \/ \E node \in task.rest : PublishGap(node)
    \/ SumEdges
    \/ SumTiers
    \/ Finish
    \/ Fail

MapSpec == MapInit /\ [][MapNext]_mapVars

-----------------------------------------------------------------------------
(* Properties                                                              *)

Roots == {e.child : e \in Anchors}

\* Everyone on the way down, whatever the levels.
Supplying == (Roots \cup UNION {Descendants(edges, r) : r \in Roots})

\* Of several destinations the first in the order of the alphabet decides: the
\* fields of the others are not asked for (regulation/service.py:74).
Needs(s) ==
    (IF "EU" \in markets \/ markets = {} THEN Required("EU", s)
     ELSE IF "KR" \in markets THEN {}
     ELSE Required("US", s))
    \cup (IF s \in Roots \/ s \in Miners THEN {} ELSE {"consent_agreement"})

Lacks(s) == ~(Needs(s) \subseteq held[s])

\* notify_final_validation_ready: when the prime is told and the map did not
\* change meanwhile, nobody on the way down lacks anything that the market the
\* code looks at asks of it, a double role or a level that does not fit
\* notwithstanding, and every split edge is whole.
NotToldEarly ==
    (task.pc = "tell" /\ ~task.stale) =>
        /\ Supplying # Roots
        /\ \A s \in Supplying \ Roots : ~Lacks(s)
        /\ \A e \in DOMAIN ratio : Sum(ratio[e]) = Whole

\* trigger_gap_data_requests: when the map did not change meanwhile, each
\* supplier that lacks something of what that market asks is asked once, however
\* many levels it is on, and nobody else is.
AskedOnce ==
    (task.pc = "publish" /\ task.rest = {} /\ ~task.stale) =>
        \A s \in Suppliers :
            task.asked[s] = IF /\ s \in Supplying /\ Lacks(s)
                               /\ task.targets = {} \/ s \in task.targets
                            THEN 1 ELSE 0

\* The tree and the gap list are queries that join and stop differently: all
\* the same each shows what the other does, but for a supplier below itself,
\* which the gap list passes over, and for rows below a supplier that had no
\* row yet or below a repetition, which the tree does not reach.
TreeShowsGaps ==
    LET tree == Tree
        shown == {<<Last(p).child, Last(p).hop>> : p \in tree}
        listed == {<<node.supplier, node.depth>> : node \in GapRows}
    IN  /\ \A p \in tree :
             \/ <<Last(p).child, Last(p).hop>> \in listed
             \/ \E i \in 1 .. Len(p) - 1 : p[i].child = Last(p).child
        /\ ((\A e \in edges : e.below) /\ \A p \in tree : ~IsCycle(p)) => listed \subseteq shown

\* get_supply_chain_map: on a map whose sums are valid, and where the shares
\* the suppliers entered, which the validation does not look at, are not
\* used, the query succeeds, and the factories of an edge bring the whole of
\* what the product needs of it, however deep it lies.
ValidMakesWhole ==
    (EdgesValid /\ TiersValid /\ \A f \in Factories : share[f] = Null) =>
        /\ Readable
        /\ \A p \in Tree : ~IsCycle(p) =>
             MapThenSumSet(LAMBDA c : c.amount, {c \in Contributions : c.path = p}) = WholeTo(Len(p))
=============================================================================
