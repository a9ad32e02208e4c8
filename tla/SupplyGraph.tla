---------------------------- MODULE SupplyGraph ----------------------------
(***************************************************************************)
(* The supply chain map: the rows parent -> child of the BOM versions, and *)
(* the three ways they are added.  A relation is registered by the buyer,  *)
(* a source change is declared by a supplier, and a supplier invited by    *)
(* another is connected below it by the handler of SupplierInvited, one    *)
(* BOM version after the other.  Each looks at the graph before it         *)
(* inserts; only the handler takes a lock, one per row to be.              *)
(*                                                                         *)
(* A company that does two steps of the production appears below itself.   *)
(***************************************************************************)
EXTENDS SupplyLinks

CONSTANTS
    Boms,
    Callers,          \* HTTP requests and handler tasks that may overlap
    MaxCalls          \* bound: requests and invitations

ASSUME BomsAssumption == Boms # {}
ASSUME BoundsAssumption == MaxCalls \in Nat

VARIABLES
    rows,        \* supply_chain_map
    call,        \* per caller: what it is doing
    overtaken,   \* history: a relation was inserted on a check another insert had overtaken
    calls        \* bound counter

vars == <<rows, call, overtaken, calls>>

\* copy tells rows of one relation apart; by is the way the row was added.
Rows == [bom : Boms, parent : Suppliers \cup {NoSupplier}, child : Suppliers,
         copy : Nat, hop : Nat, via : Suppliers \cup {NoSupplier},
         by : {"register", "declare", "connect"}]

\* A caller works on one relation at a time; a handler has the versions in
\* todo before it.  stale: an insert came after its look at the graph.
Calls == [pc : {"idle", "invited", "next", "asked", "checked", "locked"},
          by : {"register", "declare", "connect"},
          bom : Boms, parent : Suppliers \cup {NoSupplier}, child : Suppliers,
          todo : SUBSET Boms, stale : BOOLEAN]

TypeOK ==
    /\ rows \subseteq Rows
    /\ call \in [Callers -> Calls]
    /\ overtaken \in BOOLEAN
    /\ calls \in Nat

-----------------------------------------------------------------------------
(* Levels                                                                  *)

\* The rows of b that end at s.
RowsOf(b, s) == {r \in rows : r.bom = b /\ r.child = s}

Edges(b, parent, child) == {r \in RowsOf(b, child) : r.parent = parent}

\* Below its parent's rows: below the first of them for a relation, below
\* any for a source change; level 1 if the parent has none.
HopBelow(b, parent) ==
    IF RowsOf(b, parent) = {} THEN {1} ELSE {r.hop + 1 : r \in RowsOf(b, parent)}

HopOf(by, b, parent) ==
    CASE parent = NoSupplier -> {0}
      [] by = "declare"      -> HopBelow(b, parent)
      [] OTHER               -> {h \in HopBelow(b, parent) : \A k \in HopBelow(b, parent) : h <= k}

-----------------------------------------------------------------------------

Row(b, parent, child, copy, hop, via, by) ==
    [bom |-> b, parent |-> parent, child |-> child, copy |-> copy, hop |-> hop,
     via |-> via, by |-> by]

\* A seeded tree: the prime, the maker below it, and below itself if it has
\* a double role.
SeededRows(b, double) ==
    {Row(b, NoSupplier, Prime, 1, 0, NoSupplier, "register"),
     Row(b, Prime, Maker, 1, 1, NoSupplier, "register")}
    \cup (IF double THEN {Row(b, Maker, Maker, 1, 2, NoSupplier, "register")} ELSE {})

Task(pc, by, b, parent, child, todo) ==
    [pc |-> pc, by |-> by, bom |-> b, parent |-> parent, child |-> child,
     todo |-> todo, stale |-> FALSE]

NoBom == CHOOSE b \in Boms : TRUE

Idle == Task("idle", "register", NoBom, NoSupplier, Prime, {})

Init ==
    /\ \E b \in Boms, double \in BOOLEAN : rows = SeededRows(b, double)
    /\ call = [c \in Callers |-> Idle]
    /\ overtaken = FALSE
    /\ calls = 0

Call(c) ==
    /\ call[c].pc = "idle"
    /\ calls < MaxCalls
    /\ calls' = calls + 1

\* The caller inserts its row.  Whoever has looked at the graph and not
\* inserted yet has looked too early.
Insert(c, via, then) ==
    LET k == call[c] IN
    /\ \E h \in HopOf(k.by, k.bom, k.parent) :
         rows' = rows \cup {Row(k.bom, k.parent, k.child,
                                Cardinality(Edges(k.bom, k.parent, k.child)) + 1, h, via, k.by)}
    /\ overtaken' = (overtaken \/ (k.stale /\ k.parent # NoSupplier))
    /\ call' = [d \in Callers |->
                  IF d = c THEN then
                  ELSE [call[d] EXCEPT !.stale =
                          @ \/ (call[d].pc \in {"checked", "locked"} /\ k.parent # NoSupplier)]]

\* The handler is done with its version.
NextBom(c) ==
    Task("next", "connect", NoBom, call[c].parent, call[c].child, call[c].todo \ {call[c].bom})

-----------------------------------------------------------------------------
(* register_relation and declare_source_change                             *)

\* Only a relation with a parent is checked; a source change may name its
\* own supplier.
Register(c, b, parent, child) ==
    /\ Call(c)
    /\ parent # child
    /\ call' = [call EXCEPT ![c] =
                  Task(IF parent = NoSupplier THEN "checked" ELSE "asked",
                       "register", b, parent, child, {})]
    /\ UNCHANGED <<rows, overtaken>>

DeclareSource(c, b, parent, child) ==
    /\ Call(c)
    /\ call' = [call EXCEPT ![c] = Task("asked", "declare", b, parent, child, {})]
    /\ UNCHANGED <<rows, overtaken>>

\* create_supply_relation, declare_new_source: the upsert of the map header
\* locks it until the commit, so the inserts into one version queue up.
InsertRelation(c) ==
    /\ call[c].pc = "checked"
    /\ call[c].by \in {"register", "declare"}
    /\ Insert(c, IF call[c].by = "declare" THEN call[c].parent ELSE NoSupplier, Idle)
    /\ UNCHANGED calls

-----------------------------------------------------------------------------
(* would_create_cycle                                                      *)

\* Variant, not the code: looks below the parent for the child.
CheckCycleSwapped(c) ==
    LET k == call[c] IN
    /\ k.pc = "asked"
    /\ QueryEnds(rows, k.child, k.parent)
    /\ call' = [call EXCEPT ![c] =
                  IF k.child \notin Descendants(rows, k.parent)
                    THEN Task("checked", k.by, k.bom, k.parent, k.child, k.todo)
                  ELSE IF k.by = "connect" THEN NextBom(c)
                  ELSE Idle]
    /\ UNCHANGED <<rows, overtaken, calls>>

\* A relation that would close a cycle is refused.
CheckCycle(c) ==
    LET k == call[c] IN
    /\ k.pc = "asked"
    /\ QueryEnds(rows, k.parent, k.child)
    /\ call' = [call EXCEPT ![c] =
                  IF k.parent \notin Descendants(rows, k.child)
                    THEN Task("checked", k.by, k.bom, k.parent, k.child, k.todo)
                  ELSE IF k.by = "connect" THEN NextBom(c)
                  ELSE Idle]
    /\ UNCHANGED <<rows, overtaken, calls>>

-----------------------------------------------------------------------------
(* supplychain_record_discovered_via, connect_child_supplier               *)

Undiscovered(s) == {r \in rows : r.child = s /\ r.via = NoSupplier}

\* record_discovered_via: rows of the invitee that do not say who found it
\* get the inviter, and the handler is done.  If there are none it goes on.
Invite(c, inviter, invitee) ==
    /\ Call(c)
    /\ IF Undiscovered(invitee) # {}
         THEN /\ rows' = (rows \ Undiscovered(invitee))
                         \cup {[r EXCEPT !.via = inviter] : r \in Undiscovered(invitee)}
              /\ UNCHANGED call
         ELSE /\ call' = [call EXCEPT ![c] =
                            Task("invited", "connect", NoBom, inviter, invitee, {})]
              /\ UNCHANGED rows
    /\ UNCHANGED overtaken

\* Variant, not the code: the inviter need not be in the version.
FindBomsAny(c) ==
    /\ call[c].pc = "invited"
    /\ call' = [call EXCEPT ![c] =
                  Task("next", "connect", NoBom, call[c].parent, call[c].child,
                       {b \in Boms : RowsOf(b, call[c].child) = {}})]
    /\ UNCHANGED <<rows, overtaken, calls>>

\* The versions that have the inviter and not the invitee.
FindBoms(c) ==
    /\ call[c].pc = "invited"
    /\ call' = [call EXCEPT ![c] =
                  Task("next", "connect", NoBom, call[c].parent, call[c].child,
                       {b \in Boms : RowsOf(b, call[c].parent) # {} /\ RowsOf(b, call[c].child) = {}})]
    /\ UNCHANGED <<rows, overtaken, calls>>

TakeBom(c) ==
    /\ call[c].pc = "next"
    /\ IF call[c].todo = {}
         THEN call' = [call EXCEPT ![c] = Idle]
         ELSE \E b \in call[c].todo :
                call' = [call EXCEPT ![c] =
                           Task("asked", "connect", b, call[c].parent, call[c].child, call[c].todo)]
    /\ UNCHANGED <<rows, overtaken, calls>>

Relation(c) == <<call[c].bom, call[c].parent, call[c].child>>

\* Variant, not the code: no advisory lock.
LockRelationFree(c) ==
    /\ call[c].pc = "checked"
    /\ call[c].by = "connect"
    /\ call' = [call EXCEPT ![c] =
                  IF Edges(call[c].bom, call[c].parent, call[c].child) # {}
                    THEN NextBom(c) ELSE [call[c] EXCEPT !.pc = "locked"]]
    /\ UNCHANGED <<rows, overtaken, calls>>

\* lock_and_check_edge_exists: the lock of the relation is held until the
\* commit, and with the row already there nothing is inserted.
LockRelation(c) ==
    /\ call[c].pc = "checked"
    /\ call[c].by = "connect"
    /\ \A d \in Callers : call[d].pc = "locked" => Relation(d) # Relation(c)
    /\ call' = [call EXCEPT ![c] =
                  IF Edges(call[c].bom, call[c].parent, call[c].child) # {}
                    THEN NextBom(c) ELSE [call[c] EXCEPT !.pc = "locked"]]
    /\ UNCHANGED <<rows, overtaken, calls>>

InsertChild(c) ==
    /\ call[c].pc = "locked"
    /\ Insert(c, call[c].parent, NextBom(c))
    /\ UNCHANGED calls

-----------------------------------------------------------------------------

\* What a caller does on its own once it is called.
Serve(c) ==
    \/ InsertRelation(c)
    \/ CheckCycle(c)
    \/ FindBoms(c)
    \/ TakeBom(c)
    \/ LockRelation(c)
    \/ InsertChild(c)

Next ==
    \E c \in Callers :
        \/ \E b \in Boms, parent \in Suppliers \cup {NoSupplier}, child \in Suppliers :
              Register(c, b, parent, child)
        \/ \E b \in Boms, parent \in Suppliers, child \in Suppliers :
              DeclareSource(c, b, parent, child)
        \/ \E inviter \in Suppliers, invitee \in Suppliers : Invite(c, inviter, invitee)
        \/ Serve(c)

Spec == Init /\ [][Next]_vars

-----------------------------------------------------------------------------
(* Properties                                                              *)

\* A company below itself is a double role, not a cycle.
Proper(R) == {r \in R : r.parent # r.child}

Acyclic == \A s \in Suppliers : s \notin Descendants(Proper(rows), s)

\* Two suppliers come to lie below each other, within a version or across
\* versions, only if a relation was inserted on a check that another insert
\* had overtaken: would_create_cycle itself misses nothing.
CycleNeedsOverlap == overtaken \/ Acyclic

\* Invitations of one supplier by another that are handled together connect
\* it once per version: lock_and_check_edge_exists.
OneConnect ==
    \A r, q \in rows :
        (r.by = "connect" /\ q.by = "connect" /\ <<r.bom, r.parent, r.child>> = <<q.bom, q.parent, q.child>>)
        => r = q

\* A supplier connected by its invitation continues a row of its inviter in
\* that version, one level below: the tree query, which joins on the level,
\* finds it below what was there when it came.
InvitedInTree ==
    \A r \in rows : r.by = "connect" =>
        \E q \in rows : q.bom = r.bom /\ q.child = r.parent /\ r.hop = q.hop + 1
=============================================================================
