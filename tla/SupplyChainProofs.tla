------------------------- MODULE SupplyChainProofs --------------------------
(***************************************************************************)
(* Theorems about SupplyGraph for every set of suppliers and versions, and *)
(* for any number of overlapping callers; and about SupplyMap for every    *)
(* map and every split of its edges.                                       *)
(***************************************************************************)
EXTENDS SupplyGraph, SupplyMap, FiniteSetTheorems, SequenceTheorems, WellFoundedInduction, TLAPS

-----------------------------------------------------------------------------
(* Graphs                                                                  *)

\* What the query finds is closed under the links.
LEMMA BelowClosed ==
    ASSUME NEW E, NEW s
    PROVE  Children(E, Below(E, s) \cup {s}) \subseteq Below(E, s)
<1> SUFFICES ASSUME NEW t \in Suppliers, NEW u \in Below(E, s) \cup {s}, <<u, t>> \in E,
                    NEW S \in SUBSET Suppliers, Children(E, S \cup {s}) \subseteq S
             PROVE  t \in S
  BY DEF Below, Children
<1>1. u \in S \cup {s}
  BY DEF Below
<1> QED
  BY <1>1 DEF Children

\* It is the least such set.
LEMMA BelowLeast ==
    ASSUME NEW E, NEW s, NEW S \in SUBSET Suppliers, Children(E, S \cup {s}) \subseteq S
    PROVE  Below(E, s) \subseteq S
  BY DEF Below

\* Fewer links, less below.
LEMMA BelowSmaller ==
    ASSUME NEW E, NEW F, NEW s, E \subseteq F
    PROVE  Below(E, s) \subseteq Below(F, s)
<1>1. Children(E, Below(F, s) \cup {s}) \subseteq Below(F, s)
  BY BelowClosed DEF Children
<1> QED
  BY <1>1, BelowLeast DEF Below

\* A link from p to a c that has not p below it closes no cycle.
LEMMA AddLink ==
    ASSUME NEW E, NEW p \in Suppliers, NEW c \in Suppliers, p # c,
           p \notin Below(E, c),
           \A s \in Suppliers : s \notin Below(E, s),
           NEW x \in Suppliers
    PROVE  x \notin Below(E \cup {<<p, c>>}, x)
<1> DEFINE F == E \cup {<<p, c>>}
           K == Below(E, c) \cup {c}
<1>1. K \in SUBSET Suppliers /\ Children(E, K) \subseteq K /\ p \notin K
  BY BelowClosed DEF Below
<1>2. CASE x = p
  <2> DEFINE S == Below(E, p) \cup K
  <2>1. Children(E, Below(E, p) \cup {p}) \subseteq Below(E, p)
    BY BelowClosed
  <2>2. Children(F, S \cup {p}) \subseteq S
    BY <1>1, <2>1 DEF Children
  <2>3. S \in SUBSET Suppliers /\ p \notin S
    BY <1>1 DEF Below
  <2> HIDE DEF F, K, S
  <2>4. Below(F, p) \subseteq S
    BY <2>2, <2>3, BelowLeast
  <2> QED
    BY <1>2, <2>3, <2>4 DEF F
<1>3. CASE x # p /\ p \notin Below(E, x)
  <2> DEFINE S == Below(E, x)
  <2>1. Children(E, S \cup {x}) \subseteq S
    BY BelowClosed
  <2>2. Children(F, S \cup {x}) \subseteq S
    BY <1>3, <2>1 DEF Children
  <2>3. S \in SUBSET Suppliers /\ x \notin S
    BY DEF Below
  <2> HIDE DEF F, S
  <2>4. Below(F, x) \subseteq S
    BY <2>2, <2>3, BelowLeast
  <2> QED
    BY <2>3, <2>4 DEF F
<1>4. CASE x # p /\ p \in Below(E, x)
  <2>1. x \notin K
    <3> SUFFICES ASSUME x \in K PROVE FALSE
      OBVIOUS
    <3>1. Children(E, K \cup {x}) \subseteq K
      BY <1>1 DEF Children
    <3>2. Below(E, x) \subseteq K
      BY <1>1, <3>1, BelowLeast
    <3> QED
      BY <1>1, <1>4, <3>2
  <2> DEFINE S == Below(E, x) \cup K
  <2>2. Children(E, Below(E, x) \cup {x}) \subseteq Below(E, x)
    BY BelowClosed
  <2>3. Children(F, S \cup {x}) \subseteq S
    BY <1>1, <1>4, <2>2 DEF Children
  <2>4. S \in SUBSET Suppliers /\ x \notin S
    BY <1>1, <2>1 DEF Below
  <2> HIDE DEF F, K, S
  <2>5. Below(F, x) \subseteq S
    BY <2>3, <2>4, BelowLeast
  <2> QED
    BY <2>4, <2>5 DEF F
<1> QED
  BY <1>2, <1>3, <1>4

-----------------------------------------------------------------------------
(* Types                                                                   *)

\* A handler has a parent, and only relations with a parent are looked up.
Shaped ==
    \A c \in Callers :
        /\ call[c].pc = "locked" => call[c].by = "connect"
        /\ call[c].pc \in {"invited", "next"} => call[c].by = "connect"
        /\ call[c].by \in {"declare", "connect"} => call[c].parent \in Suppliers
        /\ call[c].pc = "asked" => call[c].parent \in Suppliers

Typed == TypeOK /\ IsFiniteSet(rows) /\ Shaped

LEMMA TaskType ==
    ASSUME NEW pc \in {"idle", "invited", "next", "asked", "checked", "locked"},
           NEW by \in {"register", "declare", "connect"},
           NEW b \in Boms, NEW parent \in Suppliers \cup {NoSupplier}, NEW child \in Suppliers,
           NEW todo \in SUBSET Boms
    PROVE  /\ Task(pc, by, b, parent, child, todo) \in Calls
           /\ Task(pc, by, b, parent, child, todo).pc = pc
           /\ Task(pc, by, b, parent, child, todo).by = by
           /\ Task(pc, by, b, parent, child, todo).bom = b
           /\ Task(pc, by, b, parent, child, todo).parent = parent
           /\ Task(pc, by, b, parent, child, todo).child = child
           /\ Task(pc, by, b, parent, child, todo).todo = todo
           /\ Task(pc, by, b, parent, child, todo).stale = FALSE
  BY DEF Task, Calls

LEMMA NoBomType == NoBom \in Boms
  BY BomsAssumption DEF NoBom

LEMMA IdleType == Idle \in Calls /\ Idle.pc = "idle" /\ Idle.by = "register"
<1>1. {} \in SUBSET Boms /\ Prime \in Suppliers /\ NoBom \in Boms
  BY NoBomType, SuppliersAssumption
<1> QED
  BY <1>1 DEF Idle, Task, Calls

\* A caller that is done with a version keeps its relation.
LEMMA NextBomType ==
    ASSUME TypeOK, NEW c \in Callers
    PROVE  /\ NextBom(c) \in Calls
           /\ NextBom(c).pc = "next"
           /\ NextBom(c).by = "connect"
           /\ NextBom(c).parent = call[c].parent
           /\ NextBom(c).child = call[c].child
           /\ NextBom(c).todo = call[c].todo \ {call[c].bom}
           /\ NextBom(c).stale = FALSE
<1>1. call[c] \in Calls
  BY DEF TypeOK
<1>2. call[c].parent \in Suppliers \cup {NoSupplier} /\ call[c].child \in Suppliers
      /\ call[c].todo \ {call[c].bom} \in SUBSET Boms
  BY <1>1 DEF Calls
<1> QED
  BY <1>2, NoBomType DEF NextBom, Task, Calls

\* The levels a row may get.
LEMMA HopType ==
    ASSUME TypeOK, NEW by, NEW b, NEW parent, NEW h \in HopOf(by, b, parent)
    PROVE  h \in Nat
<1>1. HopBelow(b, parent) \subseteq Nat
  BY DEF TypeOK, HopBelow, RowsOf, Rows
<1> QED
  BY <1>1 DEF HopOf

\* What an insert does to the table and to the other callers.
LEMMA InsertType ==
    ASSUME Typed, NEW c \in Callers, NEW via \in Suppliers \cup {NoSupplier}, NEW then \in Calls,
           Insert(c, via, then)
    PROVE  /\ rows' \subseteq Rows /\ IsFiniteSet(rows')
           /\ \E r \in Rows :
                /\ rows' = rows \cup {r}
                /\ r.bom = call[c].bom /\ r.parent = call[c].parent /\ r.child = call[c].child
                /\ r.by = call[c].by
                /\ r.hop \in HopOf(call[c].by, call[c].bom, call[c].parent)
           /\ overtaken' = (overtaken \/ (call[c].stale /\ call[c].parent # NoSupplier))
           /\ call' \in [Callers -> Calls]
           /\ call'[c] = then
           /\ \A d \in Callers \ {c} :
                /\ call'[d].pc = call[d].pc /\ call'[d].by = call[d].by
                /\ call'[d].bom = call[d].bom /\ call'[d].parent = call[d].parent
                /\ call'[d].child = call[d].child /\ call'[d].todo = call[d].todo
                /\ call[d].stale => call'[d].stale
                /\ call[d].pc \in {"checked", "locked"} /\ call[c].parent # NoSupplier
                   => call'[d].stale
<1> DEFINE k == call[c]
           copy == Cardinality(Edges(k.bom, k.parent, k.child)) + 1
<1>1. k \in Calls /\ rows \subseteq Rows /\ IsFiniteSet(rows)
  BY DEF Typed, TypeOK
<1>2. copy \in Nat
  <2>1. IsFiniteSet(Edges(k.bom, k.parent, k.child))
    BY <1>1, FS_Subset DEF Edges, RowsOf
  <2> QED
    BY <2>1, FS_CardinalityType
<1>3. PICK h \in HopOf(k.by, k.bom, k.parent) :
        rows' = rows \cup {Row(k.bom, k.parent, k.child, copy, h, via, k.by)}
  BY DEF Insert
<1>4. h \in Nat
  BY <1>3, HopType DEF Typed
<1> DEFINE r == Row(k.bom, k.parent, k.child, copy, h, via, k.by)
<1>5. /\ r \in Rows
      /\ r.bom = k.bom /\ r.parent = k.parent /\ r.child = k.child /\ r.by = k.by /\ r.hop = h
  BY <1>1, <1>2, <1>4 DEF Row, Rows, Calls
<1>6. IsFiniteSet(rows')
  BY <1>1, <1>3, FS_AddElement
<1>7. /\ call' = [d \in Callers |->
                   IF d = c THEN then
                   ELSE [call[d] EXCEPT !.stale =
                           @ \/ (call[d].pc \in {"checked", "locked"} /\ k.parent # NoSupplier)]]
      /\ overtaken' = (overtaken \/ (k.stale /\ k.parent # NoSupplier))
  BY DEF Insert
<1>8. ASSUME NEW d \in Callers \ {c}
      PROVE  /\ call'[d] \in Calls
             /\ call'[d].pc = call[d].pc /\ call'[d].by = call[d].by
             /\ call'[d].bom = call[d].bom /\ call'[d].parent = call[d].parent
             /\ call'[d].child = call[d].child /\ call'[d].todo = call[d].todo
             /\ call[d].stale => call'[d].stale
             /\ call[d].pc \in {"checked", "locked"} /\ k.parent # NoSupplier => call'[d].stale
  <2> DEFINE late == call[d].stale \/ (call[d].pc \in {"checked", "locked"} /\ k.parent # NoSupplier)
  <2>1. call[d] \in Calls
    BY DEF Typed, TypeOK
  <2>2. late \in BOOLEAN
    BY <2>1 DEF Calls
  <2>3. call'[d] = [call[d] EXCEPT !.stale = late]
    BY <1>7
  <2> HIDE DEF late
  <2>4. /\ call'[d] \in Calls /\ call'[d].stale = late
        /\ call'[d].pc = call[d].pc /\ call'[d].by = call[d].by
        /\ call'[d].bom = call[d].bom /\ call'[d].parent = call[d].parent
        /\ call'[d].child = call[d].child /\ call'[d].todo = call[d].todo
    BY <2>1, <2>2, <2>3 DEF Calls
  <2> QED
    BY <2>4 DEF late
<1>9. call' \in [Callers -> Calls] /\ call'[c] = then
  BY <1>7, <1>8
<1> HIDE DEF k, copy, r
<1>10. rows' = rows \cup {r}
  BY <1>3 DEF r
<1>11. rows' \subseteq Rows
  BY <1>1, <1>5, <1>10
<1> QED
  BY <1>3, <1>5, <1>6, <1>7, <1>8, <1>9, <1>10, <1>11 DEF k

\* An insert keeps the types if the caller goes on to a handler's step or is done.
LEMMA InsertTyped ==
    ASSUME Typed, NEW c \in Callers, NEW via \in Suppliers \cup {NoSupplier}, NEW then \in Calls,
           Insert(c, via, then), calls' \in Nat,
           \/ then.pc = "idle" /\ then.by = "register"
           \/ then.pc = "next" /\ then.by = "connect" /\ then.parent \in Suppliers
    PROVE  Typed'
<1>1. /\ rows' \subseteq Rows /\ IsFiniteSet(rows')
      /\ overtaken' = (overtaken \/ (call[c].stale /\ call[c].parent # NoSupplier))
      /\ call' \in [Callers -> Calls]
      /\ call'[c] = then
      /\ \A d \in Callers \ {c} :
           call'[d].pc = call[d].pc /\ call'[d].by = call[d].by /\ call'[d].parent = call[d].parent
  BY InsertType
<1>2. overtaken' \in BOOLEAN
  BY <1>1
<1>3. ASSUME NEW d \in Callers
      PROVE  /\ call'[d].pc = "locked" => call'[d].by = "connect"
             /\ call'[d].pc \in {"invited", "next"} => call'[d].by = "connect"
             /\ call'[d].by \in {"declare", "connect"} => call'[d].parent \in Suppliers
             /\ call'[d].pc = "asked" => call'[d].parent \in Suppliers
  <2>1. CASE d = c
    BY <1>1, <2>1
  <2>2. CASE d # c
    BY <1>1, <2>2 DEF Typed, Shaped
  <2> QED
    BY <2>1, <2>2
<1> QED
  BY <1>1, <1>2, <1>3 DEF Typed, TypeOK, Shaped

LEMMA InitialType == Init => Typed
<1> SUFFICES ASSUME Init PROVE Typed
  OBVIOUS
<1>1. call \in [Callers -> Calls] /\ \A c \in Callers : call[c].pc = "idle" /\ call[c].by = "register"
  BY IdleType DEF Init
<1>2. PICK b \in Boms, double \in BOOLEAN : rows = SeededRows(b, double)
  BY DEF Init
<1>3. rows \subseteq Rows
  BY <1>2, SuppliersAssumption DEF SeededRows, Row, Rows
<1>4. IsFiniteSet(rows)
  <2> DEFINE r1 == Row(b, NoSupplier, Prime, 1, 0, NoSupplier, "register")
             r2 == Row(b, Prime, Maker, 1, 1, NoSupplier, "register")
             r3 == Row(b, Maker, Maker, 1, 2, NoSupplier, "register")
  <2> HIDE DEF r1, r2, r3
  <2>1. IsFiniteSet({} \cup {r1}) /\ IsFiniteSet(({} \cup {r1}) \cup {r2})
        /\ IsFiniteSet((({} \cup {r1}) \cup {r2}) \cup {r3})
    BY FS_EmptySet, FS_AddElement
  <2>2. rows = ({} \cup {r1}) \cup {r2} \/ rows = (({} \cup {r1}) \cup {r2}) \cup {r3}
    BY <1>2 DEF SeededRows, r1, r2, r3
  <2> QED
    BY <2>1, <2>2
<1> QED
  BY <1>1, <1>3, <1>4 DEF Init, Typed, TypeOK, Shaped

\* A caller that takes a task, the others untouched, and the table as it was.
LEMMA MoveType ==
    ASSUME Typed, NEW c \in Callers, NEW t \in Calls,
           call' = [call EXCEPT ![c] = t],
           UNCHANGED <<rows, overtaken>>, calls' \in Nat,
           t.pc = "locked" => t.by = "connect",
           t.pc \in {"invited", "next"} => t.by = "connect",
           t.by \in {"declare", "connect"} => t.parent \in Suppliers,
           t.pc = "asked" => t.parent \in Suppliers
    PROVE  Typed'
  BY DEF Typed, TypeOK, Shaped

\* Back-filling who found a supplier keeps the rows' relations and levels.
LEMMA BackfillType ==
    ASSUME Typed, NEW inviter \in Suppliers, NEW s \in Suppliers,
           rows' = (rows \ Undiscovered(s)) \cup {[r EXCEPT !.via = inviter] : r \in Undiscovered(s)}
    PROVE  /\ rows' \subseteq Rows /\ IsFiniteSet(rows')
           /\ \A r \in rows' : \E q \in rows :
                /\ q.bom = r.bom /\ q.parent = r.parent /\ q.child = r.child
                /\ q.copy = r.copy /\ q.hop = r.hop /\ q.by = r.by
                /\ r = q \/ r = [q EXCEPT !.via = inviter]
           /\ \A q \in rows : \E r \in rows' :
                /\ q.bom = r.bom /\ q.parent = r.parent /\ q.child = r.child
                /\ q.copy = r.copy /\ q.hop = r.hop /\ q.by = r.by
<1> DEFINE U == Undiscovered(s)
           f == [r \in U |-> [r EXCEPT !.via = inviter]]
<1>1. U \subseteq rows /\ rows \subseteq Rows /\ IsFiniteSet(U)
  BY FS_Subset DEF Undiscovered, Typed, TypeOK
<1>2. \A q \in U : /\ [q EXCEPT !.via = inviter] \in Rows
                   /\ [q EXCEPT !.via = inviter].bom = q.bom
                   /\ [q EXCEPT !.via = inviter].parent = q.parent
                   /\ [q EXCEPT !.via = inviter].child = q.child
                   /\ [q EXCEPT !.via = inviter].copy = q.copy
                   /\ [q EXCEPT !.via = inviter].hop = q.hop
                   /\ [q EXCEPT !.via = inviter].by = q.by
  BY <1>1 DEF Rows
<1>3. IsFiniteSet(rows')
  <2> DEFINE T == {f[r] : r \in U}
  <2>1. IsFiniteSet(rows \ U)
    BY <1>1, FS_Subset DEF Typed
  <2>2. rows' = (rows \ U) \cup T
    OBVIOUS
  <2> HIDE DEF U
  <2>3. f \in Surjection(U, T)
    BY DEF Surjection
  <2> HIDE DEF f, T
  <2>4. IsFiniteSet(T)
    BY <1>1, <2>3, FS_Surjection
  <2>5. IsFiniteSet((rows \ U) \cup T)
    BY <2>1, <2>4, FS_Union
  <2> QED
    BY <2>2, <2>5 DEF T
<1> HIDE DEF U, f
<1>4. rows' = (rows \ U) \cup {[r EXCEPT !.via = inviter] : r \in U}
  BY DEF U
<1>5. rows' \subseteq Rows
  BY <1>1, <1>2, <1>4
<1>6. \A r \in rows' : r \in rows \/ \E q \in U : r = [q EXCEPT !.via = inviter]
  BY <1>4
<1>7. \A q \in rows : q \in rows' \/ (q \in U /\ [q EXCEPT !.via = inviter] \in rows')
  BY <1>4
<1> QED
  BY <1>1, <1>2, <1>3, <1>5, <1>6, <1>7

\* The state keeps its types, and handlers their inviter.
LEMMA NextType == Typed /\ [Next]_vars => Typed'
<1> SUFFICES ASSUME Typed, [Next]_vars PROVE Typed'
  OBVIOUS
<1> USE NoBomType
<1>0. \A c \in Callers : call[c] \in Calls
  BY DEF Typed, TypeOK
<1>1. ASSUME NEW c \in Callers, NEW b \in Boms, NEW parent \in Suppliers \cup {NoSupplier},
             NEW child \in Suppliers, Register(c, b, parent, child)
      PROVE  Typed'
  <2> DEFINE t == Task(IF parent = NoSupplier THEN "checked" ELSE "asked",
                       "register", b, parent, child, {})
  <2>1. /\ t \in Calls /\ t.pc = (IF parent = NoSupplier THEN "checked" ELSE "asked")
        /\ t.by = "register" /\ t.parent = parent
    BY DEF Task, Calls
  <2>2. call' = [call EXCEPT ![c] = t] /\ UNCHANGED <<rows, overtaken>> /\ calls' \in Nat
    BY <1>1 DEF Register, Call, Typed, TypeOK
  <2> HIDE DEF t
  <2> QED
    BY <2>1, <2>2, MoveType
<1>2. ASSUME NEW c \in Callers, NEW b \in Boms, NEW parent \in Suppliers, NEW child \in Suppliers,
             DeclareSource(c, b, parent, child)
      PROVE  Typed'
  <2> DEFINE t == Task("asked", "declare", b, parent, child, {})
  <2>1. t \in Calls /\ t.pc = "asked" /\ t.by = "declare" /\ t.parent = parent
    BY DEF Task, Calls
  <2>2. call' = [call EXCEPT ![c] = t] /\ UNCHANGED <<rows, overtaken>> /\ calls' \in Nat
    BY <1>2 DEF DeclareSource, Call, Typed, TypeOK
  <2> HIDE DEF t
  <2> QED
    BY <2>1, <2>2, MoveType
<1>3. ASSUME NEW c \in Callers, NEW inviter \in Suppliers, NEW invitee \in Suppliers,
             Invite(c, inviter, invitee)
      PROVE  Typed'
  <2>1. CASE Undiscovered(invitee) # {}
    <3>1. /\ rows' = (rows \ Undiscovered(invitee))
                     \cup {[r EXCEPT !.via = inviter] : r \in Undiscovered(invitee)}
          /\ UNCHANGED <<call, overtaken>> /\ calls' \in Nat
      BY <1>3, <2>1 DEF Invite, Call, Typed, TypeOK
    <3>2. rows' \subseteq Rows /\ IsFiniteSet(rows')
      BY <3>1, BackfillType
    <3>3. call' \in [Callers -> Calls] /\ overtaken' \in BOOLEAN
      BY <3>1 DEF Typed, TypeOK
    <3>4. Shaped'
      BY <3>1 DEF Typed, Shaped
    <3> QED
      BY <3>1, <3>2, <3>3, <3>4 DEF Typed, TypeOK
  <2>2. CASE Undiscovered(invitee) = {}
    <3> DEFINE t == Task("invited", "connect", NoBom, inviter, invitee, {})
    <3>1. t \in Calls /\ t.pc = "invited" /\ t.by = "connect" /\ t.parent = inviter
      BY DEF Task, Calls
    <3>2. call' = [call EXCEPT ![c] = t] /\ UNCHANGED <<rows, overtaken>> /\ calls' \in Nat
      BY <1>3, <2>2 DEF Invite, Call, Typed, TypeOK
    <3> HIDE DEF t
    <3> QED
      BY <3>1, <3>2, MoveType
  <2> QED
    BY <2>1, <2>2
<1>4. ASSUME NEW c \in Callers, InsertRelation(c) PROVE Typed'
  <2> DEFINE via == IF call[c].by = "declare" THEN call[c].parent ELSE NoSupplier
  <2>1. via \in Suppliers \cup {NoSupplier} /\ Insert(c, via, Idle) /\ calls' \in Nat
    BY <1>4 DEF InsertRelation, Typed, TypeOK, Shaped
  <2> HIDE DEF via
  <2> QED
    BY <2>1, InsertTyped, IdleType
<1>5. ASSUME NEW c \in Callers, CheckCycle(c) PROVE Typed'
  <2> DEFINE k == call[c]
             t == Task("checked", k.by, k.bom, k.parent, k.child, k.todo)
  <2>1. /\ t \in Calls /\ t.pc = "checked" /\ t.by = k.by /\ t.parent = k.parent
    BY <1>0 DEF Task, Calls
  <2>2. UNCHANGED <<rows, overtaken>> /\ calls' \in Nat /\ k.parent \in Suppliers
    BY <1>5 DEF CheckCycle, Typed, TypeOK, Shaped
  <2>3. \/ call' = [call EXCEPT ![c] = t]
        \/ call' = [call EXCEPT ![c] = NextBom(c)]
        \/ call' = [call EXCEPT ![c] = Idle]
    BY <1>5 DEF CheckCycle
  <2> HIDE DEF t
  <2>4. CASE call' = [call EXCEPT ![c] = t]
    BY <2>1, <2>2, <2>4, MoveType
  <2>5. CASE call' = [call EXCEPT ![c] = NextBom(c)]
    BY <2>2, <2>5, NextBomType, MoveType DEF Typed
  <2>6. CASE call' = [call EXCEPT ![c] = Idle]
    BY <2>2, <2>6, IdleType, MoveType
  <2> QED
    BY <2>3, <2>4, <2>5, <2>6
<1>6. ASSUME NEW c \in Callers, FindBoms(c) PROVE Typed'
  <2> DEFINE todo == {b \in Boms : RowsOf(b, call[c].parent) # {} /\ RowsOf(b, call[c].child) = {}}
             t == Task("next", "connect", NoBom, call[c].parent, call[c].child, todo)
  <2>1. t \in Calls /\ t.pc = "next" /\ t.by = "connect" /\ t.parent = call[c].parent
    BY <1>0 DEF Task, Calls
  <2>2. /\ call' = [call EXCEPT ![c] = t] /\ UNCHANGED <<rows, overtaken>> /\ calls' \in Nat
        /\ call[c].parent \in Suppliers
    BY <1>6 DEF FindBoms, Typed, TypeOK, Shaped
  <2> HIDE DEF t
  <2> QED
    BY <2>1, <2>2, MoveType
<1>7. ASSUME NEW c \in Callers, TakeBom(c) PROVE Typed'
  <2>1. UNCHANGED <<rows, overtaken>> /\ calls' \in Nat /\ call[c].parent \in Suppliers
    BY <1>7 DEF TakeBom, Typed, TypeOK, Shaped
  <2>2. CASE call' = [call EXCEPT ![c] = Idle]
    BY <2>1, <2>2, IdleType, MoveType
  <2>3. ASSUME NEW b \in call[c].todo,
               call' = [call EXCEPT ![c] =
                          Task("asked", "connect", b, call[c].parent, call[c].child, call[c].todo)]
        PROVE  Typed'
    <3> DEFINE t == Task("asked", "connect", b, call[c].parent, call[c].child, call[c].todo)
    <3>1. t \in Calls /\ t.pc = "asked" /\ t.by = "connect" /\ t.parent = call[c].parent
      BY <1>0 DEF Task, Calls
    <3>2. call' = [call EXCEPT ![c] = t]
      BY <2>3
    <3> HIDE DEF t
    <3> QED
      BY <2>1, <3>1, <3>2, MoveType
  <2> QED
    BY <1>7, <2>2, <2>3 DEF TakeBom
<1>8. ASSUME NEW c \in Callers, LockRelation(c) PROVE Typed'
  <2> DEFINE t == [call[c] EXCEPT !.pc = "locked"]
  <2>1. t \in Calls /\ t.pc = "locked" /\ t.by = call[c].by /\ t.parent = call[c].parent
    BY <1>0 DEF Calls
  <2>2. /\ UNCHANGED <<rows, overtaken>> /\ calls' \in Nat
        /\ call[c].by = "connect" /\ call[c].parent \in Suppliers
    BY <1>8 DEF LockRelation, Typed, TypeOK, Shaped
  <2>3. \/ call' = [call EXCEPT ![c] = t]
        \/ call' = [call EXCEPT ![c] = NextBom(c)]
    BY <1>8 DEF LockRelation
  <2> HIDE DEF t
  <2>4. CASE call' = [call EXCEPT ![c] = t]
    BY <2>1, <2>2, <2>4, MoveType
  <2>5. NextBom(c) \in Calls /\ NextBom(c).pc = "next" /\ NextBom(c).by = "connect"
        /\ NextBom(c).parent = call[c].parent
    BY NextBomType DEF Typed
  <2>6. CASE call' = [call EXCEPT ![c] = NextBom(c)]
    BY <2>2, <2>5, <2>6, MoveType
  <2> QED
    BY <2>3, <2>4, <2>6
<1>9. ASSUME NEW c \in Callers, InsertChild(c) PROVE Typed'
  <2>1. /\ Insert(c, call[c].parent, NextBom(c)) /\ calls' \in Nat
        /\ call[c].parent \in Suppliers
    BY <1>9 DEF InsertChild, Typed, TypeOK, Shaped
  <2>2. NextBom(c) \in Calls /\ NextBom(c).pc = "next" /\ NextBom(c).by = "connect"
        /\ NextBom(c).parent = call[c].parent
    BY NextBomType DEF Typed
  <2> QED
    BY <2>1, <2>2, InsertTyped
<1>10. CASE UNCHANGED vars
  BY <1>10 DEF vars, Typed, TypeOK, Shaped
<1> QED
  BY <1>1, <1>2, <1>3, <1>4, <1>5, <1>6, <1>7, <1>8, <1>9, <1>10 DEF Next, Serve

\* The rows and the callers keep their types.
THEOREM TypeCorrect == Spec => []TypeOK
<1>1. Typed => TypeOK
  BY DEF Typed
<1> QED
  BY InitialType, NextType, <1>1, PTL DEF Spec
-----------------------------------------------------------------------------
(* Cycles                                                                  *)

\* A caller that has looked at the graph, and whom no insert has overtaken,
\* still has its parent outside of what lies below its child.
Fresh ==
    \A c \in Callers :
        (call[c].pc \in {"checked", "locked"} /\ ~call[c].stale /\ call[c].parent # NoSupplier)
        => call[c].parent \notin Descendants(rows, call[c].child)

CycleInv == overtaken \/ (Acyclic /\ Fresh)

LEMMA ProperFewer == ASSUME NEW R PROVE Links(Proper(R)) \subseteq Links(R)
  BY DEF Links, Proper

\* A new row is a new link, unless it is a root, or a double role.
LEMMA LinkAdded ==
    ASSUME NEW R, NEW r
    PROVE  /\ r.parent = NoSupplier => Links(R \cup {r}) = Links(R)
           /\ r.parent = NoSupplier \/ r.parent = r.child
              => Links(Proper(R \cup {r})) = Links(Proper(R))
           /\ r.parent # NoSupplier /\ r.parent # r.child
              => Links(Proper(R \cup {r})) = Links(Proper(R)) \cup {<<r.parent, r.child>>}
  BY DEF Links, Proper

\* The links say nothing of who found a supplier.
LEMMA LinksKept ==
    ASSUME NEW R, NEW Q,
           \A r \in R : \E q \in Q : q.parent = r.parent /\ q.child = r.child,
           \A q \in Q : \E r \in R : q.parent = r.parent /\ q.child = r.child
    PROVE  Links(R) = Links(Q) /\ Links(Proper(R)) = Links(Proper(Q))
  BY DEF Links, Proper

LEMMA InitialCycle == Init => CycleInv
<1> SUFFICES ASSUME Init PROVE Acyclic /\ Fresh
  BY DEF CycleInv
<1>1. PICK b \in Boms, double \in BOOLEAN : rows = SeededRows(b, double)
  BY DEF Init
<1> DEFINE E == Links(Proper(rows))
<1>2. E \subseteq {<<Prime, Maker>>}
  BY <1>1, SuppliersAssumption DEF SeededRows, Row, Links, Proper
<1>3. Prime \in Suppliers /\ Maker \in Suppliers /\ Prime # Maker
  BY SuppliersAssumption
<1> HIDE DEF E
<1>4. Below(E, Maker) \subseteq {}
  <2>1. Children(E, {} \cup {Maker}) \subseteq {}
    BY <1>2, <1>3 DEF Children
  <2> QED
    BY <2>1, BelowLeast
<1>5. ASSUME NEW s \in Suppliers PROVE Below(E, s) \subseteq {Maker}
  <2>1. Children(E, {Maker} \cup {s}) \subseteq {Maker}
    BY <1>2, <1>3 DEF Children
  <2>2. {Maker} \in SUBSET Suppliers
    BY <1>3
  <2> QED
    BY <2>1, <2>2, BelowLeast
<1>6. Acyclic
  BY <1>4, <1>5 DEF Acyclic, Descendants, E
<1>7. Fresh
  BY IdleType DEF Init, Fresh
<1> QED
  BY <1>6, <1>7

\* A caller that moves on, the table as it was.
LEMMA MoveCycle ==
    ASSUME Typed, CycleInv, NEW c \in Callers, NEW t,
           call' = [call EXCEPT ![c] = t], UNCHANGED <<rows, overtaken>>,
           ~overtaken /\ t.pc \in {"checked", "locked"} /\ ~t.stale /\ t.parent # NoSupplier
           => t.parent \notin Descendants(rows, t.child)
    PROVE  CycleInv'
<1> SUFFICES ASSUME ~overtaken PROVE Acyclic' /\ Fresh'
  BY DEF CycleInv
<1>1. Acyclic /\ Fresh
  BY DEF CycleInv
<1>2. Acyclic'
  BY <1>1 DEF Acyclic
<1>3. \A d \in Callers : call'[d] = IF d = c THEN t ELSE call[d]
  BY DEF Typed, TypeOK
<1>4. \A s : Descendants(rows', s) = Descendants(rows, s)
  OBVIOUS
<1>5. Fresh'
  BY <1>1, <1>3, <1>4 DEF Fresh
<1> QED
  BY <1>2, <1>5

\* An insert on a check that still holds closes no cycle.
LEMMA InsertCycle ==
    ASSUME Typed, CycleInv, NEW c \in Callers, NEW via \in Suppliers \cup {NoSupplier},
           NEW then \in Calls, Insert(c, via, then),
           call[c].pc \in {"checked", "locked"}, then.pc \notin {"checked", "locked"}
    PROVE  CycleInv'
<1> SUFFICES ASSUME ~overtaken' PROVE Acyclic' /\ Fresh'
  BY DEF CycleInv
<1> DEFINE p == call[c].parent
           s == call[c].child
<1>1. PICK r \in Rows : rows' = rows \cup {r} /\ r.parent = p /\ r.child = s
  BY InsertType
<1>2. /\ overtaken' = (overtaken \/ (call[c].stale /\ p # NoSupplier))
      /\ call'[c] = then
      /\ \A d \in Callers \ {c} :
           /\ call'[d].pc = call[d].pc
           /\ call'[d].parent = call[d].parent /\ call'[d].child = call[d].child
           /\ call[d].stale => call'[d].stale
           /\ call[d].pc \in {"checked", "locked"} /\ p # NoSupplier => call'[d].stale
  BY InsertType
<1>3. ~overtaken /\ Acyclic /\ Fresh /\ (p = NoSupplier \/ ~call[c].stale)
  BY <1>2 DEF CycleInv
<1>4. p \in Suppliers \cup {NoSupplier} /\ s \in Suppliers
  BY DEF Typed, TypeOK, Calls
<1> HIDE DEF p, s
<1>5. Acyclic'
  <2> DEFINE E == Links(Proper(rows))
  <2>1. \A x \in Suppliers : x \notin Below(E, x)
    BY <1>3 DEF Acyclic, Descendants
  <2>2. CASE p = NoSupplier \/ p = s
    <3>1. Links(Proper(rows')) = E
      BY <1>1, <2>2, LinkAdded
    <3> QED
      BY <2>1, <3>1 DEF Acyclic, Descendants
  <2>3. CASE p # NoSupplier /\ p # s
    <3>1. Links(Proper(rows')) = E \cup {<<p, s>>}
      BY <1>1, <2>3, LinkAdded
    <3>2. p \notin Below(Links(rows), s)
      BY <1>3, <2>3 DEF Fresh, Descendants, p, s
    <3>3. E \subseteq Links(rows)
      BY ProperFewer
    <3> HIDE DEF E
    <3>4. p \notin Below(E, s)
      BY <3>2, <3>3, BelowSmaller
    <3>5. \A x \in Suppliers : x \notin Below(E \cup {<<p, s>>}, x)
      BY <1>4, <2>1, <2>3, <3>4, AddLink
    <3> QED
      BY <3>1, <3>5 DEF Acyclic, Descendants
  <2> QED
    BY <2>2, <2>3
<1>6. Fresh'
  <2> SUFFICES ASSUME NEW d \in Callers, call'[d].pc \in {"checked", "locked"},
                      ~call'[d].stale, call'[d].parent # NoSupplier
               PROVE  call'[d].parent \notin Descendants(rows', call'[d].child)
    BY DEF Fresh
  <2>1. d # c
    BY <1>2
  <2>2. p = NoSupplier
    BY <1>2, <2>1
  <2>3. Links(rows') = Links(rows)
    BY <1>1, <2>2, LinkAdded
  <2>4. call[d].parent \notin Descendants(rows, call[d].child)
    BY <1>2, <1>3, <2>1 DEF Fresh
  <2> QED
    BY <1>2, <2>1, <2>3, <2>4 DEF Descendants
<1> QED
  BY <1>5, <1>6

LEMMA NextCycle == Typed /\ CycleInv /\ [Next]_vars => CycleInv'
<1> SUFFICES ASSUME Typed, CycleInv, [Next]_vars PROVE CycleInv'
  OBVIOUS
<1> USE NoBomType
<1>0. \A c \in Callers : call[c] \in Calls
  BY DEF Typed, TypeOK
<1>1. ASSUME NEW c \in Callers, NEW b \in Boms, NEW parent \in Suppliers \cup {NoSupplier},
             NEW child \in Suppliers, Register(c, b, parent, child)
      PROVE  CycleInv'
  <2> DEFINE t == Task(IF parent = NoSupplier THEN "checked" ELSE "asked",
                       "register", b, parent, child, {})
  <2>1. t.pc \in {"checked", "locked"} => t.parent = NoSupplier
    BY DEF Task
  <2>2. call' = [call EXCEPT ![c] = t] /\ UNCHANGED <<rows, overtaken>>
    BY <1>1 DEF Register
  <2> HIDE DEF t
  <2> QED
    BY <2>1, <2>2, MoveCycle
<1>2. ASSUME NEW c \in Callers, NEW b \in Boms, NEW parent \in Suppliers, NEW child \in Suppliers,
             DeclareSource(c, b, parent, child)
      PROVE  CycleInv'
  <2> DEFINE t == Task("asked", "declare", b, parent, child, {})
  <2>1. t.pc \notin {"checked", "locked"}
    BY DEF Task
  <2>2. call' = [call EXCEPT ![c] = t] /\ UNCHANGED <<rows, overtaken>>
    BY <1>2 DEF DeclareSource
  <2> HIDE DEF t
  <2> QED
    BY <2>1, <2>2, MoveCycle
<1>3. ASSUME NEW c \in Callers, NEW inviter \in Suppliers, NEW invitee \in Suppliers,
             Invite(c, inviter, invitee)
      PROVE  CycleInv'
  <2>1. CASE Undiscovered(invitee) # {}
    <3>1. /\ rows' = (rows \ Undiscovered(invitee))
                     \cup {[r EXCEPT !.via = inviter] : r \in Undiscovered(invitee)}
          /\ UNCHANGED <<call, overtaken>>
      BY <1>3, <2>1 DEF Invite
    <3>2. /\ \A r \in rows' : \E q \in rows : q.parent = r.parent /\ q.child = r.child
          /\ \A q \in rows : \E r \in rows' : q.parent = r.parent /\ q.child = r.child
      BY <3>1, BackfillType
    <3>3. Links(rows') = Links(rows) /\ Links(Proper(rows')) = Links(Proper(rows))
      BY <3>2, LinksKept
    <3> QED
      BY <3>1, <3>3 DEF CycleInv, Acyclic, Fresh, Descendants
  <2>2. CASE Undiscovered(invitee) = {}
    <3> DEFINE t == Task("invited", "connect", NoBom, inviter, invitee, {})
    <3>1. t.pc \notin {"checked", "locked"}
      BY DEF Task
    <3>2. call' = [call EXCEPT ![c] = t] /\ UNCHANGED <<rows, overtaken>>
      BY <1>3, <2>2 DEF Invite
    <3> HIDE DEF t
    <3> QED
      BY <3>1, <3>2, MoveCycle
  <2> QED
    BY <2>1, <2>2
<1>4. ASSUME NEW c \in Callers, InsertRelation(c) PROVE CycleInv'
  <2> DEFINE via == IF call[c].by = "declare" THEN call[c].parent ELSE NoSupplier
  <2>1. via \in Suppliers \cup {NoSupplier} /\ Insert(c, via, Idle) /\ call[c].pc = "checked"
    BY <1>4 DEF InsertRelation, Typed, Shaped
  <2> HIDE DEF via
  <2>2. Idle \in Calls /\ Idle.pc \notin {"checked", "locked"}
    BY IdleType
  <2> QED
    BY <2>1, <2>2, InsertCycle
<1>5. ASSUME NEW c \in Callers, CheckCycle(c) PROVE CycleInv'
  <2> DEFINE k == call[c]
             t == Task("checked", k.by, k.bom, k.parent, k.child, k.todo)
  <2>1. t.parent = k.parent /\ t.child = k.child
    BY DEF Task
  <2>2. UNCHANGED <<rows, overtaken>>
    BY <1>5 DEF CheckCycle
  <2>3. \/ call' = [call EXCEPT ![c] = t] /\ k.parent \notin Descendants(rows, k.child)
        \/ call' = [call EXCEPT ![c] = NextBom(c)]
        \/ call' = [call EXCEPT ![c] = Idle]
    BY <1>5 DEF CheckCycle
  <2> HIDE DEF t
  <2>4. CASE call' = [call EXCEPT ![c] = t] /\ k.parent \notin Descendants(rows, k.child)
    BY <2>1, <2>2, <2>4, MoveCycle
  <2>5. NextBom(c).pc \notin {"checked", "locked"} /\ Idle.pc \notin {"checked", "locked"}
    BY NextBomType, IdleType DEF Typed
  <2>6. CASE call' = [call EXCEPT ![c] = NextBom(c)]
    BY <2>2, <2>5, <2>6, MoveCycle
  <2>7. CASE call' = [call EXCEPT ![c] = Idle]
    BY <2>2, <2>5, <2>7, MoveCycle
  <2> QED
    BY <2>3, <2>4, <2>6, <2>7
<1>6. ASSUME NEW c \in Callers, FindBoms(c) PROVE CycleInv'
  <2> DEFINE todo == {b \in Boms : RowsOf(b, call[c].parent) # {} /\ RowsOf(b, call[c].child) = {}}
             t == Task("next", "connect", NoBom, call[c].parent, call[c].child, todo)
  <2>1. t.pc \notin {"checked", "locked"}
    BY DEF Task
  <2>2. call' = [call EXCEPT ![c] = t] /\ UNCHANGED <<rows, overtaken>>
    BY <1>6 DEF FindBoms
  <2> HIDE DEF t
  <2> QED
    BY <2>1, <2>2, MoveCycle
<1>7. ASSUME NEW c \in Callers, TakeBom(c) PROVE CycleInv'
  <2>1. PICK t \in {Idle} \cup {Task("asked", "connect", b, call[c].parent, call[c].child, call[c].todo) :
                                b \in call[c].todo} :
          call' = [call EXCEPT ![c] = t] /\ UNCHANGED <<rows, overtaken>>
    BY <1>7 DEF TakeBom
  <2>2. t.pc \notin {"checked", "locked"}
    BY <2>1, IdleType DEF Task
  <2> QED
    BY <2>1, <2>2, MoveCycle
<1>8. ASSUME NEW c \in Callers, LockRelation(c) PROVE CycleInv'
  <2> DEFINE t == [call[c] EXCEPT !.pc = "locked"]
  <2>1. t.parent = call[c].parent /\ t.child = call[c].child /\ t.stale = call[c].stale
    BY <1>0 DEF Calls
  <2>2. UNCHANGED <<rows, overtaken>> /\ call[c].pc = "checked"
    BY <1>8 DEF LockRelation
  <2>3. call' = [call EXCEPT ![c] = t] \/ call' = [call EXCEPT ![c] = NextBom(c)]
    BY <1>8 DEF LockRelation
  <2> HIDE DEF t
  <2>4. CASE call' = [call EXCEPT ![c] = t]
    BY <2>1, <2>2, <2>4, MoveCycle DEF CycleInv, Fresh
  <2>5. NextBom(c).pc \notin {"checked", "locked"}
    BY NextBomType DEF Typed
  <2>6. CASE call' = [call EXCEPT ![c] = NextBom(c)]
    BY <2>2, <2>5, <2>6, MoveCycle
  <2> QED
    BY <2>3, <2>4, <2>6
<1>9. ASSUME NEW c \in Callers, InsertChild(c) PROVE CycleInv'
  <2>1. /\ Insert(c, call[c].parent, NextBom(c)) /\ call[c].pc = "locked"
        /\ call[c].parent \in Suppliers
    BY <1>9 DEF InsertChild, Typed, Shaped
  <2>2. NextBom(c) \in Calls /\ NextBom(c).pc \notin {"checked", "locked"}
    BY NextBomType DEF Typed
  <2> QED
    BY <2>1, <2>2, InsertCycle
<1>10. CASE UNCHANGED vars
  BY <1>10 DEF vars, CycleInv, Acyclic, Fresh
<1> QED
  BY <1>1, <1>2, <1>3, <1>4, <1>5, <1>6, <1>7, <1>8, <1>9, <1>10 DEF Next, Serve

\* would_create_cycle misses no cycle: it takes an insert between the look and
\* the insert that follows it to put two suppliers below each other.
THEOREM CyclesNeedOverlap == Spec => []CycleNeedsOverlap
<1>1. CycleInv => CycleNeedsOverlap
  BY DEF CycleInv, CycleNeedsOverlap
<1> QED
  BY InitialType, NextType, InitialCycle, NextCycle, <1>1, PTL DEF Spec

-----------------------------------------------------------------------------
(* Connections                                                             *)

HasRow(R, b, s) == \E q \in R : q.bom = b /\ q.child = s

\* The versions a handler has before it hold its inviter.
Placed ==
    \A c \in Callers : call[c].by = "connect" =>
        /\ \A b \in call[c].todo : HasRow(rows, b, call[c].parent)
        /\ call[c].pc \in {"asked", "checked", "locked"} =>
             HasRow(rows, call[c].bom, call[c].parent)

TreeInv == InvitedInTree /\ Placed

LEMMA HasRowHere == \A b, s : HasRow(rows, b, s) <=> RowsOf(b, s) # {}
  BY DEF HasRow, RowsOf

LEMMA InitialTree == Init => TreeInv
<1> SUFFICES ASSUME Init PROVE TreeInv
  OBVIOUS
<1>1. PICK b \in Boms, double \in BOOLEAN : rows = SeededRows(b, double)
  BY DEF Init
<1>2. \A r \in rows : r.by # "connect"
  BY <1>1 DEF SeededRows, Row
<1>3. \A c \in Callers : call[c].by # "connect"
  BY IdleType DEF Init
<1> QED
  BY <1>2, <1>3 DEF TreeInv, InvitedInTree, Placed

LEMMA MoveTree ==
    ASSUME Typed, TreeInv, NEW c \in Callers, NEW t, UNCHANGED rows,
           call' = [call EXCEPT ![c] = t],
           t.by = "connect" =>
              /\ \A b \in t.todo : HasRow(rows, b, t.parent)
              /\ t.pc \in {"asked", "checked", "locked"} => HasRow(rows, t.bom, t.parent)
    PROVE  TreeInv'
<1>1. \A d \in Callers : call'[d] = IF d = c THEN t ELSE call[d]
  BY DEF Typed, TypeOK
<1>3. Placed'
  BY <1>1 DEF TreeInv, Placed
<1>4. InvitedInTree'
  BY DEF TreeInv, InvitedInTree
<1> QED
  BY <1>3, <1>4 DEF TreeInv

\* A handler that is done with a version has the others still before it.
LEMMA NextBomTree ==
    ASSUME Typed, TreeInv, NEW c \in Callers, call[c].by = "connect"
    PROVE  /\ \A b \in NextBom(c).todo : HasRow(rows, b, NextBom(c).parent)
           /\ NextBom(c).pc \notin {"asked", "checked", "locked"}
<1>1. NextBom(c).pc = "next" /\ NextBom(c).parent = call[c].parent
      /\ NextBom(c).todo \subseteq call[c].todo
  BY NextBomType DEF Typed
<1> QED
  BY <1>1 DEF TreeInv, Placed

LEMMA InsertTree ==
    ASSUME Typed, TreeInv, NEW c \in Callers, NEW via \in Suppliers \cup {NoSupplier},
           NEW then \in Calls, Insert(c, via, then),
           call[c].pc \in {"checked", "locked"},
           then.by = "connect" =>
              /\ \A b \in then.todo : HasRow(rows, b, then.parent)
              /\ then.pc \notin {"asked", "checked", "locked"}
    PROVE  TreeInv'
<1>1. PICK r \in Rows :
        /\ rows' = rows \cup {r}
        /\ r.bom = call[c].bom /\ r.parent = call[c].parent /\ r.by = call[c].by
        /\ r.hop \in HopOf(call[c].by, call[c].bom, call[c].parent)
  BY InsertType
<1>2. /\ call'[c] = then
      /\ \A d \in Callers \ {c} :
           /\ call'[d].pc = call[d].pc /\ call'[d].by = call[d].by /\ call'[d].bom = call[d].bom
           /\ call'[d].parent = call[d].parent /\ call'[d].todo = call[d].todo
  BY InsertType
<1>3. \A b, s : HasRow(rows, b, s) => HasRow(rows', b, s)
  BY <1>1 DEF HasRow
<1>4. r.by = "connect" => \E q \in rows : q.bom = r.bom /\ q.child = r.parent /\ r.hop = q.hop + 1
  <2> SUFFICES ASSUME r.by = "connect"
               PROVE  \E q \in rows : q.bom = r.bom /\ q.child = r.parent /\ r.hop = q.hop + 1
    OBVIOUS
  <2>1. RowsOf(r.bom, r.parent) # {}
    BY <1>1, HasRowHere DEF TreeInv, Placed
  <2>2. r.parent # NoSupplier
    BY <1>1, SuppliersAssumption DEF Typed, Shaped
  <2>3. r.hop \in HopBelow(r.bom, r.parent)
    BY <1>1, <2>2 DEF HopOf
  <2>4. r.hop \in {q.hop + 1 : q \in RowsOf(r.bom, r.parent)}
    BY <2>1, <2>3 DEF HopBelow
  <2> QED
    BY <2>4 DEF RowsOf
<1>5. InvitedInTree'
  BY <1>1, <1>4 DEF TreeInv, InvitedInTree
<1>6. Placed'
  <2> SUFFICES ASSUME NEW d \in Callers, call'[d].by = "connect"
               PROVE  /\ \A b \in call'[d].todo : HasRow(rows, b, call'[d].parent)
                      /\ call'[d].pc \in {"asked", "checked", "locked"} =>
                           HasRow(rows, call'[d].bom, call'[d].parent)
    BY <1>3 DEF Placed
  <2>1. CASE d = c
    BY <1>2, <2>1
  <2>2. CASE d # c
    BY <1>2, <2>2 DEF TreeInv, Placed
  <2> QED
    BY <2>1, <2>2
<1> QED
  BY <1>5, <1>6 DEF TreeInv

LEMMA BackfillTree ==
    ASSUME Typed, TreeInv, UNCHANGED call, NEW inviter \in Suppliers, NEW s \in Suppliers,
           rows' = (rows \ Undiscovered(s)) \cup {[r EXCEPT !.via = inviter] : r \in Undiscovered(s)}
    PROVE  TreeInv'
<1>1. /\ \A r \in rows' : \E q \in rows :
           q.bom = r.bom /\ q.parent = r.parent /\ q.hop = r.hop /\ q.by = r.by
      /\ \A q \in rows : \E r \in rows' :
           q.bom = r.bom /\ q.child = r.child /\ q.hop = r.hop
  BY BackfillType
<1>2. \A b, x : HasRow(rows, b, x) => HasRow(rows', b, x)
  BY <1>1 DEF HasRow
<1>3. Placed'
  BY <1>2 DEF TreeInv, Placed
<1>4. ASSUME NEW r \in rows', r.by = "connect"
      PROVE  \E q \in rows' : q.bom = r.bom /\ q.child = r.parent /\ r.hop = q.hop + 1
  <2>1. PICK r0 \in rows : r0.bom = r.bom /\ r0.parent = r.parent /\ r0.hop = r.hop /\ r0.by = r.by
    BY <1>1
  <2>2. PICK q0 \in rows : q0.bom = r.bom /\ q0.child = r.parent /\ r.hop = q0.hop + 1
    BY <1>4, <2>1 DEF TreeInv, InvitedInTree
  <2>3. PICK q \in rows' : q0.bom = q.bom /\ q0.child = q.child /\ q0.hop = q.hop
    BY <1>1
  <2> QED
    BY <2>2, <2>3
<1>5. InvitedInTree'
  BY <1>4 DEF InvitedInTree
<1> QED
  BY <1>3, <1>5 DEF TreeInv

LEMMA NextTree == Typed /\ TreeInv /\ [Next]_vars => TreeInv'
<1> SUFFICES ASSUME Typed, TreeInv, [Next]_vars PROVE TreeInv'
  OBVIOUS
<1> USE NoBomType
<1>0. \A c \in Callers : call[c] \in Calls
  BY DEF Typed, TypeOK
<1>1. ASSUME NEW c \in Callers, NEW b \in Boms, NEW parent \in Suppliers \cup {NoSupplier},
             NEW child \in Suppliers, Register(c, b, parent, child)
      PROVE  TreeInv'
  <2> DEFINE t == Task(IF parent = NoSupplier THEN "checked" ELSE "asked",
                       "register", b, parent, child, {})
  <2>1. t.by # "connect"
    BY DEF Task
  <2>2. call' = [call EXCEPT ![c] = t] /\ UNCHANGED rows
    BY <1>1 DEF Register
  <2> HIDE DEF t
  <2> QED
    BY <2>1, <2>2, MoveTree
<1>2. ASSUME NEW c \in Callers, NEW b \in Boms, NEW parent \in Suppliers, NEW child \in Suppliers,
             DeclareSource(c, b, parent, child)
      PROVE  TreeInv'
  <2> DEFINE t == Task("asked", "declare", b, parent, child, {})
  <2>1. t.by # "connect"
    BY DEF Task
  <2>2. call' = [call EXCEPT ![c] = t] /\ UNCHANGED rows
    BY <1>2 DEF DeclareSource
  <2> HIDE DEF t
  <2> QED
    BY <2>1, <2>2, MoveTree
<1>3. ASSUME NEW c \in Callers, NEW inviter \in Suppliers, NEW invitee \in Suppliers,
             Invite(c, inviter, invitee)
      PROVE  TreeInv'
  <2>1. CASE Undiscovered(invitee) # {}
    <3>1. /\ rows' = (rows \ Undiscovered(invitee))
                     \cup {[r EXCEPT !.via = inviter] : r \in Undiscovered(invitee)}
          /\ UNCHANGED call
      BY <1>3, <2>1 DEF Invite
    <3> QED
      BY <3>1, BackfillTree
  <2>2. CASE Undiscovered(invitee) = {}
    <3> DEFINE t == Task("invited", "connect", NoBom, inviter, invitee, {})
    <3>1. t.pc = "invited" /\ t.todo = {}
      BY DEF Task
    <3>2. call' = [call EXCEPT ![c] = t] /\ UNCHANGED rows
      BY <1>3, <2>2 DEF Invite
    <3> HIDE DEF t
    <3> QED
      BY <3>1, <3>2, MoveTree
  <2> QED
    BY <2>1, <2>2
<1>4. ASSUME NEW c \in Callers, InsertRelation(c) PROVE TreeInv'
  <2> DEFINE via == IF call[c].by = "declare" THEN call[c].parent ELSE NoSupplier
  <2>1. via \in Suppliers \cup {NoSupplier} /\ Insert(c, via, Idle) /\ call[c].pc = "checked"
    BY <1>4 DEF InsertRelation, Typed, Shaped
  <2> HIDE DEF via
  <2>2. Idle \in Calls /\ Idle.by # "connect"
    BY IdleType
  <2> QED
    BY <2>1, <2>2, InsertTree
<1>5. ASSUME NEW c \in Callers, CheckCycle(c) PROVE TreeInv'
  <2> DEFINE k == call[c]
             t == Task("checked", k.by, k.bom, k.parent, k.child, k.todo)
  <2>1. t.by = k.by /\ t.bom = k.bom /\ t.parent = k.parent /\ t.todo = k.todo
    BY DEF Task
  <2>2. k.pc = "asked" /\ UNCHANGED rows
    BY <1>5 DEF CheckCycle
  <2>3. \/ call' = [call EXCEPT ![c] = t]
        \/ k.by = "connect" /\ call' = [call EXCEPT ![c] = NextBom(c)]
        \/ call' = [call EXCEPT ![c] = Idle]
    BY <1>5 DEF CheckCycle
  <2> HIDE DEF t
  <2>4. CASE call' = [call EXCEPT ![c] = t]
    BY <2>1, <2>2, <2>4, MoveTree DEF TreeInv, Placed
  <2>5. CASE k.by = "connect" /\ call' = [call EXCEPT ![c] = NextBom(c)]
    BY <2>2, <2>5, NextBomTree, MoveTree
  <2>6. CASE call' = [call EXCEPT ![c] = Idle]
    BY <2>2, <2>6, IdleType, MoveTree
  <2> QED
    BY <2>3, <2>4, <2>5, <2>6
<1>6. ASSUME NEW c \in Callers, FindBoms(c) PROVE TreeInv'
  <2> DEFINE todo == {b \in Boms : RowsOf(b, call[c].parent) # {} /\ RowsOf(b, call[c].child) = {}}
             t == Task("next", "connect", NoBom, call[c].parent, call[c].child, todo)
  <2>1. t.pc = "next" /\ t.parent = call[c].parent /\ t.todo = todo
    BY DEF Task
  <2>2. \A b \in todo : HasRow(rows, b, call[c].parent)
    BY HasRowHere
  <2>3. call' = [call EXCEPT ![c] = t] /\ UNCHANGED rows
    BY <1>6 DEF FindBoms
  <2> HIDE DEF t, todo
  <2> QED
    BY <2>1, <2>2, <2>3, MoveTree
<1>7. ASSUME NEW c \in Callers, TakeBom(c) PROVE TreeInv'
  <2>1. UNCHANGED rows /\ call[c].by = "connect"
    BY <1>7 DEF TakeBom, Typed, Shaped
  <2>2. CASE call' = [call EXCEPT ![c] = Idle]
    BY <2>1, <2>2, IdleType, MoveTree
  <2>3. ASSUME NEW b \in call[c].todo,
               call' = [call EXCEPT ![c] =
                          Task("asked", "connect", b, call[c].parent, call[c].child, call[c].todo)]
        PROVE  TreeInv'
    <3> DEFINE t == Task("asked", "connect", b, call[c].parent, call[c].child, call[c].todo)
    <3>1. t.bom = b /\ t.parent = call[c].parent /\ t.todo = call[c].todo
      BY DEF Task
    <3>2. call' = [call EXCEPT ![c] = t]
      BY <2>3
    <3> HIDE DEF t
    <3> QED
      BY <2>1, <3>1, <3>2, MoveTree DEF TreeInv, Placed
  <2> QED
    BY <1>7, <2>2, <2>3 DEF TakeBom
<1>8. ASSUME NEW c \in Callers, LockRelation(c) PROVE TreeInv'
  <2> DEFINE t == [call[c] EXCEPT !.pc = "locked"]
  <2>1. /\ t.by = call[c].by /\ t.bom = call[c].bom /\ t.parent = call[c].parent
        /\ t.todo = call[c].todo
    BY <1>0 DEF Calls
  <2>2. UNCHANGED rows /\ call[c].pc = "checked" /\ call[c].by = "connect"
    BY <1>8 DEF LockRelation
  <2>3. call' = [call EXCEPT ![c] = t] \/ call' = [call EXCEPT ![c] = NextBom(c)]
    BY <1>8 DEF LockRelation
  <2> HIDE DEF t
  <2>4. CASE call' = [call EXCEPT ![c] = t]
    BY <2>1, <2>2, <2>4, MoveTree DEF TreeInv, Placed
  <2>5. CASE call' = [call EXCEPT ![c] = NextBom(c)]
    BY <2>2, <2>5, NextBomTree, MoveTree
  <2> QED
    BY <2>3, <2>4, <2>5
<1>9. ASSUME NEW c \in Callers, InsertChild(c) PROVE TreeInv'
  <2>1. /\ Insert(c, call[c].parent, NextBom(c)) /\ call[c].pc = "locked"
        /\ call[c].by = "connect" /\ call[c].parent \in Suppliers
    BY <1>9 DEF InsertChild, Typed, Shaped
  <2>2. NextBom(c) \in Calls
    BY NextBomType DEF Typed
  <2>3. /\ \A b \in NextBom(c).todo : HasRow(rows, b, NextBom(c).parent)
        /\ NextBom(c).pc \notin {"asked", "checked", "locked"}
    BY <2>1, NextBomTree
  <2> QED
    BY <2>1, <2>2, <2>3, InsertTree
<1>10. CASE UNCHANGED vars
  BY <1>10 DEF vars, TreeInv, InvitedInTree, Placed
<1> QED
  BY <1>1, <1>2, <1>3, <1>4, <1>5, <1>6, <1>7, <1>8, <1>9, <1>10 DEF Next, Serve

\* Whoever overlaps whom, a supplier connected by its invitation has its
\* inviter one level above it.
THEOREM InvitedAreInTree == Spec => []InvitedInTree
<1>1. TreeInv => InvitedInTree
  BY DEF TreeInv
<1> QED
  BY InitialType, NextType, InitialTree, NextTree, <1>1, PTL DEF Spec

\* Whoever holds the lock of a relation holds it alone, and no invitation has
\* made a row of it.
Alone ==
    \A c \in Callers : call[c].pc = "locked" =>
        /\ \A r \in rows : r.by = "connect" => <<r.bom, r.parent, r.child>> # Relation(c)
        /\ \A d \in Callers : d # c /\ call[d].pc = "locked" => Relation(d) # Relation(c)

OneInv == OneConnect /\ Alone

LEMMA InitialOne == Init => OneInv
<1> SUFFICES ASSUME Init PROVE OneInv
  OBVIOUS
<1>1. PICK b \in Boms, double \in BOOLEAN : rows = SeededRows(b, double)
  BY DEF Init
<1>2. \A r \in rows : r.by # "connect"
  BY <1>1 DEF SeededRows, Row
<1>3. \A c \in Callers : call[c].pc = "idle"
  BY IdleType DEF Init
<1> QED
  BY <1>2, <1>3 DEF OneInv, OneConnect, Alone

\* A caller that moves on without taking a lock.
LEMMA MoveOne ==
    ASSUME Typed, OneInv, NEW c \in Callers, NEW t, UNCHANGED rows,
           call' = [call EXCEPT ![c] = t], t.pc # "locked"
    PROVE  OneInv'
<1>1. \A d \in Callers : call'[d] = IF d = c THEN t ELSE call[d]
  BY DEF Typed, TypeOK
<1>2. Alone'
  BY <1>1 DEF OneInv, Alone, Relation
<1>3. OneConnect'
  BY DEF OneInv, OneConnect
<1> QED
  BY <1>2, <1>3 DEF OneInv

\* An insert by the holder of the lock, or by a request.
LEMMA InsertOne ==
    ASSUME Typed, OneInv, NEW c \in Callers, NEW via \in Suppliers \cup {NoSupplier},
           NEW then \in Calls, Insert(c, via, then), then.pc # "locked",
           call[c].by = "connect" => call[c].pc = "locked"
    PROVE  OneInv'
<1>1. PICK r \in Rows :
        /\ rows' = rows \cup {r} /\ r.by = call[c].by
        /\ <<r.bom, r.parent, r.child>> = Relation(c)
  BY InsertType DEF Relation
<1>2. /\ call'[c] = then
      /\ \A d \in Callers \ {c} :
           /\ call'[d].pc = call[d].pc /\ call'[d].bom = call[d].bom
           /\ call'[d].parent = call[d].parent /\ call'[d].child = call[d].child
  BY InsertType
<1>3. \A d \in Callers \ {c} : Relation(d)' = Relation(d)
  BY <1>2 DEF Relation
<1>4. r.by = "connect" =>
        /\ \A q \in rows : q.by = "connect" => <<q.bom, q.parent, q.child>> # Relation(c)
        /\ \A d \in Callers \ {c} : call[d].pc = "locked" => Relation(d) # Relation(c)
  BY <1>1 DEF OneInv, Alone
<1>5. OneConnect'
  BY <1>1, <1>4 DEF OneInv, OneConnect
<1>6. ASSUME NEW d \in Callers, call'[d].pc = "locked"
      PROVE  /\ \A q \in rows' : q.by = "connect" => <<q.bom, q.parent, q.child>> # Relation(d)'
             /\ \A e \in Callers : e # d /\ call'[e].pc = "locked" => Relation(e)' # Relation(d)'
  <2>1. d # c /\ call[d].pc = "locked" /\ Relation(d)' = Relation(d)
    BY <1>2, <1>3, <1>6
  <2>2. \A q \in rows' : q.by = "connect" => <<q.bom, q.parent, q.child>> # Relation(d)
    BY <1>1, <1>4, <2>1 DEF OneInv, Alone
  <2>3. \A e \in Callers : e # d /\ call'[e].pc = "locked" => Relation(e)' # Relation(d)
    BY <1>2, <1>3, <2>1 DEF OneInv, Alone
  <2> QED
    BY <2>1, <2>2, <2>3
<1>7. Alone'
  BY <1>6 DEF Alone
<1> QED
  BY <1>5, <1>7 DEF OneInv

LEMMA BackfillOne ==
    ASSUME Typed, OneInv, UNCHANGED call, NEW inviter \in Suppliers, NEW s \in Suppliers,
           rows' = (rows \ Undiscovered(s)) \cup {[r EXCEPT !.via = inviter] : r \in Undiscovered(s)}
    PROVE  OneInv'
<1> DEFINE g(q) == IF q \in Undiscovered(s) THEN [q EXCEPT !.via = inviter] ELSE q
<1>1. \A q \in rows : /\ g(q).bom = q.bom /\ g(q).parent = q.parent /\ g(q).child = q.child
                      /\ g(q).by = q.by
  BY DEF Typed, TypeOK, Rows
<1>2. \A r \in rows' : \E q \in rows : r = g(q)
  BY DEF Undiscovered
<1> HIDE DEF g
<1>3. ASSUME NEW r1 \in rows', NEW r2 \in rows', r1.by = "connect", r2.by = "connect",
             <<r1.bom, r1.parent, r1.child>> = <<r2.bom, r2.parent, r2.child>>
      PROVE  r1 = r2
  <2>1. PICK q1 \in rows, q2 \in rows : r1 = g(q1) /\ r2 = g(q2)
    BY <1>2
  <2>2. q1 = q2
    BY <1>1, <1>3, <2>1 DEF OneInv, OneConnect
  <2> QED
    BY <2>1, <2>2
<1>4. OneConnect'
  BY <1>3 DEF OneConnect
<1>5. Alone'
  BY <1>1, <1>2 DEF OneInv, Alone, Relation
<1> QED
  BY <1>4, <1>5 DEF OneInv

LEMMA NextOne == Typed /\ OneInv /\ [Next]_vars => OneInv'
<1> SUFFICES ASSUME Typed, OneInv, [Next]_vars PROVE OneInv'
  OBVIOUS
<1> USE NoBomType
<1>1. ASSUME NEW c \in Callers, NEW b \in Boms, NEW parent \in Suppliers \cup {NoSupplier},
             NEW child \in Suppliers, Register(c, b, parent, child)
      PROVE  OneInv'
  <2> DEFINE t == Task(IF parent = NoSupplier THEN "checked" ELSE "asked",
                       "register", b, parent, child, {})
  <2>1. t.pc # "locked"
    BY DEF Task
  <2>2. call' = [call EXCEPT ![c] = t] /\ UNCHANGED rows
    BY <1>1 DEF Register
  <2> HIDE DEF t
  <2> QED
    BY <2>1, <2>2, MoveOne
<1>2. ASSUME NEW c \in Callers, NEW b \in Boms, NEW parent \in Suppliers, NEW child \in Suppliers,
             DeclareSource(c, b, parent, child)
      PROVE  OneInv'
  <2>1. Task("asked", "declare", b, parent, child, {}).pc # "locked"
    BY DEF Task
  <2> QED
    BY <1>2, <2>1, MoveOne DEF DeclareSource
<1>3. ASSUME NEW c \in Callers, NEW inviter \in Suppliers, NEW invitee \in Suppliers,
             Invite(c, inviter, invitee)
      PROVE  OneInv'
  <2>1. CASE Undiscovered(invitee) # {}
    <3>1. /\ rows' = (rows \ Undiscovered(invitee))
                     \cup {[r EXCEPT !.via = inviter] : r \in Undiscovered(invitee)}
          /\ UNCHANGED call
      BY <1>3, <2>1 DEF Invite
    <3> QED
      BY <3>1, BackfillOne
  <2>2. CASE Undiscovered(invitee) = {}
    <3>1. Task("invited", "connect", NoBom, inviter, invitee, {}).pc # "locked"
      BY DEF Task
    <3> QED
      BY <1>3, <2>2, <3>1, MoveOne DEF Invite
  <2> QED
    BY <2>1, <2>2
<1>4. ASSUME NEW c \in Callers, InsertRelation(c) PROVE OneInv'
  <2> DEFINE via == IF call[c].by = "declare" THEN call[c].parent ELSE NoSupplier
  <2>1. /\ via \in Suppliers \cup {NoSupplier} /\ Insert(c, via, Idle)
        /\ call[c].by # "connect"
    BY <1>4 DEF InsertRelation, Typed, Shaped
  <2> HIDE DEF via
  <2>2. Idle \in Calls /\ Idle.pc # "locked"
    BY IdleType
  <2> QED
    BY <2>1, <2>2, InsertOne
<1>5. ASSUME NEW c \in Callers, CheckCycle(c) PROVE OneInv'
  <2> DEFINE k == call[c]
             t == Task("checked", k.by, k.bom, k.parent, k.child, k.todo)
  <2>1. t.pc # "locked" /\ NextBom(c).pc # "locked" /\ Idle.pc # "locked"
    BY NextBomType, IdleType DEF Task, Typed
  <2>2. UNCHANGED rows
    BY <1>5 DEF CheckCycle
  <2>3. \/ call' = [call EXCEPT ![c] = t]
        \/ call' = [call EXCEPT ![c] = NextBom(c)]
        \/ call' = [call EXCEPT ![c] = Idle]
    BY <1>5 DEF CheckCycle
  <2> HIDE DEF t
  <2> QED
    BY <2>1, <2>2, <2>3, MoveOne
<1>6. ASSUME NEW c \in Callers, FindBoms(c) PROVE OneInv'
  <2> DEFINE todo == {b \in Boms : RowsOf(b, call[c].parent) # {} /\ RowsOf(b, call[c].child) = {}}
             t == Task("next", "connect", NoBom, call[c].parent, call[c].child, todo)
  <2>1. t.pc # "locked"
    BY DEF Task
  <2>2. call' = [call EXCEPT ![c] = t] /\ UNCHANGED rows
    BY <1>6 DEF FindBoms
  <2> HIDE DEF t
  <2> QED
    BY <2>1, <2>2, MoveOne
<1>7. ASSUME NEW c \in Callers, TakeBom(c) PROVE OneInv'
  <2>1. PICK t \in {Idle} \cup {Task("asked", "connect", b, call[c].parent, call[c].child, call[c].todo) :
                                b \in call[c].todo} :
          call' = [call EXCEPT ![c] = t] /\ UNCHANGED rows
    BY <1>7 DEF TakeBom
  <2>2. t.pc # "locked"
    BY <2>1, IdleType DEF Task
  <2> QED
    BY <2>1, <2>2, MoveOne
<1>8. ASSUME NEW c \in Callers, LockRelation(c) PROVE OneInv'
  <2>1. /\ call[c].pc = "checked" /\ UNCHANGED rows
        /\ \A d \in Callers : call[d].pc = "locked" => Relation(d) # Relation(c)
    BY <1>8 DEF LockRelation
  <2>2. CASE call' = [call EXCEPT ![c] = NextBom(c)]
    <3>1. NextBom(c).pc # "locked"
      BY NextBomType DEF Typed
    <3> QED
      BY <2>1, <2>2, <3>1, MoveOne
  <2>3. CASE /\ Edges(call[c].bom, call[c].parent, call[c].child) = {}
             /\ call' = [call EXCEPT ![c].pc = "locked"]
    <3>1. \A d \in Callers : Relation(d)' = Relation(d)
      BY <2>3 DEF Relation, Typed, TypeOK, Calls
    <3>2. \A d \in Callers : d # c => call'[d].pc = call[d].pc
      BY <2>3 DEF Typed, TypeOK
    <3>3. \A r \in rows : <<r.bom, r.parent, r.child>> # Relation(c)
      BY <2>3 DEF Edges, RowsOf, Relation
    <3>4. Alone'
      BY <2>1, <3>1, <3>2, <3>3 DEF OneInv, Alone
    <3>5. OneConnect'
      BY <2>1 DEF OneInv, OneConnect
    <3> QED
      BY <3>4, <3>5 DEF OneInv
  <2> QED
    BY <1>8, <2>2, <2>3 DEF LockRelation
<1>9. ASSUME NEW c \in Callers, InsertChild(c) PROVE OneInv'
  <2>1. /\ Insert(c, call[c].parent, NextBom(c)) /\ call[c].pc = "locked"
        /\ call[c].parent \in Suppliers
    BY <1>9 DEF InsertChild, Typed, Shaped
  <2>2. NextBom(c) \in Calls /\ NextBom(c).pc # "locked"
    BY NextBomType DEF Typed
  <2> QED
    BY <2>1, <2>2, InsertOne
<1>10. CASE UNCHANGED vars
  BY <1>10 DEF vars, OneInv, OneConnect, Alone, Relation
<1> QED
  BY <1>1, <1>2, <1>3, <1>4, <1>5, <1>6, <1>7, <1>8, <1>9, <1>10 DEF Next, Serve

\* However many events of an invitation are handled together, and whatever the
\* requests insert, the invited supplier is connected once per version.
THEOREM ConnectedOnce == Spec => []OneConnect
<1>1. OneInv => OneConnect
  BY DEF OneInv
<1> QED
  BY InitialType, NextType, InitialOne, NextOne, <1>1, PTL DEF Spec

-----------------------------------------------------------------------------
(* SupplyMap: the paths the recursive queries unfold                       *)

\* Induction: a set of numbers has a least one.
LEMMA NatOrder == IsWellFoundedOn({x \in Nat \X Nat : x[1] < x[2]}, Nat)
  BY NatLessThanWellFounded, Zenon DEF OpToRel

LEMMA Least == ASSUME NEW T, T \subseteq Nat, T # {} PROVE \E n \in T : \A m \in T : n <= m
<1>1. PICK n \in T : \A m \in T : <<m, n>> \notin {x \in Nat \X Nat : x[1] < x[2]}
  BY WFMin, NatOrder
<1>2. \A m \in T : ~(m < n)
  BY <1>1
<1> QED
  BY <1>2

\* What holds of a number and of the successors up to N holds up to N.
LEMMA UpTo ==
    ASSUME NEW S, NEW a \in Nat, NEW N \in Nat, a \in S,
           \A n \in a .. N : n \in S /\ n < N => n + 1 \in S
    PROVE  a .. N \subseteq S
<1> DEFINE T == (a .. N) \ S
<1> SUFFICES ASSUME T # {} PROVE FALSE
  OBVIOUS
<1>0. T \subseteq Nat
  OBVIOUS
<1>1. PICK n \in T : \A m \in T : n <= m
  <2> HIDE DEF T
  <2> QED BY <1>0, Least
<1>2. n # a /\ n - 1 \in a .. N
  BY <1>1
<1>3. n - 1 \in S
  BY <1>1, <1>2
<1> QED
  BY <1>1, <1>2, <1>3

\* A path: joined edge by edge from an anchor.
Start(p, i) == SubSeq(p, 1, i)

IsPath(query, p) ==
    /\ p \in Seq(edges) /\ Len(p) >= 1
    /\ p[1] \in Anchors
    /\ \A i \in 1 .. Len(p) - 1 : Joins(query, Start(p, i), p[i + 1])

LEMMA StartIs ==
    ASSUME NEW E, NEW p \in Seq(E), NEW i \in 1 .. Len(p)
    PROVE  /\ Start(p, i) \in Seq(E) /\ Len(Start(p, i)) = i
           /\ \A j \in 1 .. i : Start(p, i)[j] = p[j] /\ Start(Start(p, i), j) = Start(p, j)
           /\ Last(Start(p, i)) = p[i]
           /\ Start(p, Len(p)) = p
<1>1. Start(p, i) \in Seq(E) /\ Len(Start(p, i)) = i /\ \A j \in 1 .. i : Start(p, i)[j] = p[j]
  BY DEF Start
<1>2. ASSUME NEW j \in 1 .. i PROVE Start(Start(p, i), j) = Start(p, j)
  <2>1. /\ Start(Start(p, i), j) \in Seq(E) /\ Len(Start(Start(p, i), j)) = j
        /\ \A k \in 1 .. j : Start(Start(p, i), j)[k] = Start(p, i)[k]
    BY <1>1 DEF Start
  <2>2. Start(p, j) \in Seq(E) /\ Len(Start(p, j)) = j /\ \A k \in 1 .. j : Start(p, j)[k] = p[k]
    BY DEF Start
  <2> QED
    BY <1>1, <2>1, <2>2, SeqEqual
<1>3. Start(p, Len(p)) = p
  BY SubSeqFull DEF Start
<1> QED
  BY <1>1, <1>2, <1>3 DEF Last

LEMMA StartOfAppend ==
    ASSUME NEW E, NEW p \in Seq(E), NEW e \in E
    PROVE  /\ Append(p, e) \in Seq(E) /\ Len(Append(p, e)) = Len(p) + 1
           /\ \A i \in 1 .. Len(p) : Append(p, e)[i] = p[i] /\ Start(Append(p, e), i) = Start(p, i)
           /\ Append(p, e)[Len(p) + 1] = e
           /\ Last(Append(p, e)) = e
<1>1. /\ Append(p, e) \in Seq(E) /\ Len(Append(p, e)) = Len(p) + 1
      /\ \A i \in 1 .. Len(p) : Append(p, e)[i] = p[i]
      /\ Append(p, e)[Len(p) + 1] = e
  OBVIOUS
<1>2. ASSUME NEW i \in 1 .. Len(p) PROVE Start(Append(p, e), i) = Start(p, i)
  <2>1. /\ Start(Append(p, e), i) \in Seq(E) /\ Len(Start(Append(p, e), i)) = i
        /\ \A k \in 1 .. i : Start(Append(p, e), i)[k] = Append(p, e)[k]
    BY <1>1 DEF Start
  <2>2. Start(p, i) \in Seq(E) /\ Len(Start(p, i)) = i /\ \A k \in 1 .. i : Start(p, i)[k] = p[k]
    BY StartIs
  <2> QED
    BY <1>1, <2>1, <2>2, SeqEqual
<1> QED
  BY <1>1, <1>2 DEF Last

LEMMA PathStart ==
    ASSUME NEW query, NEW p, IsPath(query, p), NEW i \in 1 .. Len(p)
    PROVE  IsPath(query, Start(p, i)) /\ Len(Start(p, i)) = i /\ Last(Start(p, i)) = p[i]
<1>1. p \in Seq(edges)
  BY DEF IsPath
<1>2. /\ Start(p, i) \in Seq(edges) /\ Len(Start(p, i)) = i
      /\ \A j \in 1 .. i : Start(p, i)[j] = p[j] /\ Start(Start(p, i), j) = Start(p, j)
      /\ Last(Start(p, i)) = p[i]
  BY <1>1, StartIs
<1>3. ASSUME NEW j \in 1 .. i - 1
      PROVE  Joins(query, Start(Start(p, i), j), Start(p, i)[j + 1])
  <2>1. j \in 1 .. Len(p) - 1 /\ j \in 1 .. i /\ j + 1 \in 1 .. i
    BY <1>1
  <2>2. Joins(query, Start(p, j), p[j + 1])
    BY <2>1 DEF IsPath
  <2> QED
    BY <1>2, <2>1, <2>2
<1> QED
  BY <1>2, <1>3 DEF IsPath

LEMMA PathAppend ==
    ASSUME NEW query, NEW p, IsPath(query, p), NEW e \in edges, Joins(query, p, e)
    PROVE  IsPath(query, Append(p, e))
<1>1. p \in Seq(edges) /\ Len(p) \in Nat
  BY DEF IsPath
<1> DEFINE q == Append(p, e)
<1>2. /\ q \in Seq(edges) /\ Len(q) = Len(p) + 1
      /\ \A i \in 1 .. Len(p) : q[i] = p[i] /\ Start(q, i) = Start(p, i)
      /\ q[Len(p) + 1] = e
  BY <1>1, StartOfAppend
<1>3. Start(p, Len(p)) = p
  BY <1>1, StartIs DEF IsPath
<1> HIDE DEF q
<1>4. ASSUME NEW i \in 1 .. Len(q) - 1 PROVE Joins(query, Start(q, i), q[i + 1])
  <2>1. CASE i = Len(p)
    <3>1. Start(q, i) = p /\ q[i + 1] = e
      BY <1>1, <1>2, <1>3, <2>1 DEF IsPath
    <3> QED
      BY <3>1
  <2>2. CASE i # Len(p)
    <3>1. i \in 1 .. Len(p) - 1 /\ i \in 1 .. Len(p) /\ i + 1 \in 1 .. Len(p)
      BY <1>1, <1>2, <2>2
    <3>2. Joins(query, Start(p, i), p[i + 1])
      BY <3>1 DEF IsPath
    <3> QED
      BY <1>2, <3>1, <3>2
  <2> QED
    BY <2>1, <2>2
<1>5. q[1] \in Anchors /\ Len(q) >= 1
  BY <1>1, <1>2 DEF IsPath
<1>6. IsPath(query, q)
  BY <1>2, <1>4, <1>5 DEF IsPath
<1> QED
  BY <1>6 DEF q

LEMMA PathOfOne ==
    ASSUME NEW query, NEW e \in Anchors
    PROVE  IsPath(query, <<e>>) /\ Last(<<e>>) = e /\ Len(<<e>>) = 1
<1>1. e \in edges
  BY DEF Anchors
<1>2. <<e>> \in Seq(edges) /\ Len(<<e>>) = 1 /\ <<e>>[1] = e
  BY <1>1
<1> QED
  BY <1>2 DEF IsPath, Last

LEMMA PathLast ==
    ASSUME NEW query, NEW p, IsPath(query, p), Len(p) # 1
    PROVE  /\ Len(p) - 1 \in 1 .. Len(p)
           /\ p = Append(Start(p, Len(p) - 1), Last(p)) /\ Last(p) \in edges
           /\ Joins(query, Start(p, Len(p) - 1), Last(p))
<1>1. p \in Seq(edges) /\ Len(p) \in Nat /\ Len(p) >= 1
  BY DEF IsPath
<1> DEFINE n == Len(p) - 1
           q == Start(p, n)
<1>2. n \in 1 .. Len(p) /\ n \in 1 .. Len(p) - 1
  <2>1. \A k \in Nat : k >= 1 /\ k # 1 => k - 1 \in 1 .. k /\ k - 1 \in 1 .. k - 1
    OBVIOUS
  <2> QED
    BY <1>1, <2>1
<1>3. q \in Seq(edges) /\ Len(q) = n /\ \A j \in 1 .. n : q[j] = p[j]
  BY <1>1, <1>2, StartIs
<1>4. Last(p) \in edges /\ Last(p) = p[n + 1]
  BY <1>1 DEF Last
<1> HIDE DEF q
<1>5. p = Append(q, Last(p))
  <2>1. /\ Append(q, Last(p)) \in Seq(edges) /\ Len(Append(q, Last(p))) = Len(p)
        /\ \A j \in 1 .. n : Append(q, Last(p))[j] = p[j]
        /\ Append(q, Last(p))[n + 1] = p[n + 1]
    BY <1>1, <1>2, <1>3, <1>4
  <2>2. \A j \in 1 .. Len(p) : Append(q, Last(p))[j] = p[j]
    BY <1>1, <2>1
  <2> QED
    BY <1>1, <2>1, <2>2, SeqEqual
<1>6. Joins(query, q, p[n + 1])
  BY <1>2 DEF IsPath, q
<1> QED
  BY <1>2, <1>4, <1>5, <1>6 DEF q

\* The recursive query finds the paths of up to as many edges as there are, and
\* one more.
Paths(query, n) == {p \in Seq(edges) : IsPath(query, p) /\ Len(p) <= n + 1}

LEMMA PathsStep ==
    ASSUME NEW query, NEW n \in Nat \ {0}
    PROVE  Paths(query, n) =
             Paths(query, n - 1)
             \cup UNION {{Append(p, e) : e \in {d \in edges : Joins(query, p, d)}} :
                           p \in {q \in Paths(query, n - 1) : Len(q) = n}}
<1> DEFINE Longer == UNION {{Append(p, e) : e \in {d \in edges : Joins(query, p, d)}} :
                              p \in {q \in Paths(query, n - 1) : Len(q) = n}}
<1>1. ASSUME NEW p \in Paths(query, n), p \notin Paths(query, n - 1) PROVE p \in Longer
  <2>1. IsPath(query, p) /\ p \in Seq(edges) /\ Len(p) = n + 1
    BY <1>1 DEF Paths
  <2> DEFINE q == Start(p, n)
  <2>2. p = Append(q, Last(p)) /\ Last(p) \in edges /\ Joins(query, q, Last(p)) /\ n \in 1 .. Len(p)
    <3>1. Len(p) # 1 /\ Len(p) - 1 = n
      BY <2>1
    <3> QED
      BY <2>1, <3>1, PathLast
  <2>3. IsPath(query, q) /\ Len(q) = n
    BY <2>1, <2>2, PathStart
  <2> HIDE DEF q
  <2>4. q \in Paths(query, n - 1)
    BY <2>3 DEF Paths, IsPath
  <2> QED
    BY <2>2, <2>3, <2>4
<1>2. ASSUME NEW x \in Longer PROVE x \in Paths(query, n)
  <2>1. PICK p \in Paths(query, n - 1), e \in edges :
          Len(p) = n /\ Joins(query, p, e) /\ x = Append(p, e)
    BY <1>2
  <2>2. IsPath(query, x)
    BY <2>1, PathAppend DEF Paths
  <2>3. Len(x) = n + 1
    BY <2>1 DEF Paths
  <2> QED
    BY <2>2, <2>3 DEF Paths, IsPath
<1>3. Paths(query, n - 1) \subseteq Paths(query, n)
  BY DEF Paths
<1> QED
  BY <1>1, <1>2, <1>3

LEMMA UnfoldIs ==
    ASSUME NEW query, IsFiniteSet(edges)
    PROVE  Unfold(query) = Paths(query, Cardinality(edges))
<1> DEFINE N == Cardinality(edges)
           f == [n \in 0 .. N |-> Paths(query, n)]
           Longer(S, n) == UNION {{Append(p, e) : e \in {d \in edges : Joins(query, p, d)}} :
                                    p \in {q \in S : Len(q) = n}}
           Good(to) == to = [n \in 0 .. N |-> IF n = 0 THEN {<<e>> : e \in Anchors}
                                              ELSE to[n - 1] \cup Longer(to[n - 1], n)]
<1>0. N \in Nat
  BY FS_CardinalityType
<1>1. Paths(query, 0) = {<<e>> : e \in Anchors}
  <2>1. ASSUME NEW p \in Paths(query, 0) PROVE p \in {<<e>> : e \in Anchors}
    <3>1. p \in Seq(edges) /\ Len(p) = 1 /\ p[1] \in Anchors
      <4>1. p \in Seq(edges) /\ Len(p) \in Nat /\ Len(p) >= 1 /\ Len(p) <= 0 + 1 /\ p[1] \in Anchors
        BY DEF Paths, IsPath
      <4>2. \A k \in Nat : k >= 1 /\ k <= 0 + 1 => k = 1
        OBVIOUS
      <4> QED
        BY <4>1, <4>2
    <3>2. p = <<p[1]>>
      BY <3>1
    <3> QED
      BY <3>1, <3>2
  <2>2. ASSUME NEW e \in Anchors PROVE <<e>> \in Paths(query, 0)
    BY PathOfOne DEF Paths, IsPath
  <2> QED
    BY <2>1, <2>2
<1>2. \A n \in 1 .. N : Paths(query, n) = Paths(query, n - 1) \cup Longer(Paths(query, n - 1), n)
  BY <1>0, PathsStep
<1>3. Good(f)
  <2> HIDE DEF Longer, N
  <2>1. \A n \in 1 .. N : n - 1 \in 0 .. N
    BY <1>0
  <2>2. f = [n \in 0 .. N |-> IF n = 0 THEN {<<e>> : e \in Anchors}
                              ELSE f[n - 1] \cup Longer(f[n - 1], n)]
    <3> SUFFICES ASSUME NEW n \in 0 .. N
                 PROVE  f[n] = IF n = 0 THEN {<<e>> : e \in Anchors}
                               ELSE f[n - 1] \cup Longer(f[n - 1], n)
      OBVIOUS
    <3>1. CASE n = 0
      BY <1>1, <3>1
    <3>2. CASE n # 0
      <4>1. n \in 1 .. N
        BY <1>0, <3>2
      <4>2. f[n] = Paths(query, n) /\ f[n - 1] = Paths(query, n - 1)
        BY <2>1, <4>1
      <4> HIDE DEF f
      <4> QED
        BY <1>2, <3>2, <4>1, <4>2
    <3> QED
      BY <3>1, <3>2
  <2> QED
    BY <2>2
<1> DEFINE to == CHOOSE g : Good(g)
<1>4. Good(to)
  <2> HIDE DEF Good, f
  <2> QED
    BY <1>3
<1>5. Unfold(query) = to[N]
  BY DEF Unfold
<1> HIDE DEF to
<1>6. /\ to[0] = {<<e>> : e \in Anchors}
      /\ \A n \in 1 .. N : to[n] = to[n - 1] \cup Longer(to[n - 1], n)
  <2> HIDE DEF Longer, N
  <2>1. \A n \in 0 .. N : to[n] = IF n = 0 THEN {<<e>> : e \in Anchors}
                                  ELSE to[n - 1] \cup Longer(to[n - 1], n)
    BY <1>4
  <2>2. 0 \in 0 .. N /\ \A n \in 1 .. N : n \in 0 .. N /\ n # 0
    BY <1>0
  <2> HIDE DEF to
  <2> QED
    BY <2>1, <2>2
<1> DEFINE S == {n \in 0 .. N : to[n] = Paths(query, n)}
<1>7. 0 \in S
  <2>1. 0 \in 0 .. N /\ to[0] = Paths(query, 0)
    BY <1>0, <1>1, <1>6
  <2> QED
    BY <2>1
<1>8. ASSUME NEW n \in 0 .. N, n \in S, n < N PROVE n + 1 \in S
  <2> HIDE DEF Longer, N
  <2>1. n + 1 \in 1 .. N /\ n + 1 \in 0 .. N /\ n + 1 - 1 = n
    BY <1>0, <1>8
  <2>2. to[n + 1] = to[n] \cup Longer(to[n], n + 1)
    BY <1>6, <2>1
  <2>3. Paths(query, n + 1) = Paths(query, n) \cup Longer(Paths(query, n), n + 1)
    BY <1>2, <2>1
  <2>4. to[n] = Paths(query, n)
    BY <1>8
  <2> QED
    BY <2>1, <2>2, <2>3, <2>4
<1>9. N \in S
  <2> HIDE DEF S, N
  <2>1. 0 .. N \subseteq S
    BY <1>0, <1>7, <1>8, UpTo
  <2> QED
    BY <1>0, <2>1
<1> QED
  BY <1>5, <1>9

-----------------------------------------------------------------------------
(* SupplyMap: the suppliers on the paths                                   *)

\* The levels: nobody but an anchor is on level 0, and a row inserted below a
\* row of its parent is one level below such a row.
Levelled ==
    \A e \in edges :
        /\ e.hop = 0 <=> e.parent = NoSupplier
        /\ e.below /\ e.parent # NoSupplier =>
             \E d \in edges : d.child = e.parent /\ e.hop = d.hop + 1

LEMMA PathElements ==
    ASSUME NEW query, NEW p, IsPath(query, p)
    PROVE  /\ p \in Seq(edges) /\ Len(p) \in Nat /\ Len(p) \in 1 .. Len(p) /\ 1 \in 1 .. Len(p)
           /\ p \in [1 .. Len(p) -> edges] /\ DOMAIN p = 1 .. Len(p)
           /\ \A i \in 1 .. Len(p) : p[i] \in edges
           /\ Last(p) = p[Len(p)] /\ Last(p) \in edges
           /\ p[1] \in Anchors
<1>1. p \in Seq(edges) /\ Len(p) \in Nat /\ Len(p) >= 1 /\ p[1] \in Anchors
  BY DEF IsPath
<1>2. Len(p) \in 1 .. Len(p) /\ 1 \in 1 .. Len(p)
  BY <1>1
<1>3. p \in [1 .. Len(p) -> edges] /\ DOMAIN p = 1 .. Len(p)
  BY <1>1, LenProperties
<1>4. \A i \in 1 .. Len(p) : p[i] \in edges
  BY <1>3
<1> QED
  BY <1>1, <1>2, <1>3, <1>4 DEF Last

\* Different edges on a path: it is no longer than there are edges.
LEMMA PathShort ==
    ASSUME NEW query, NEW p, IsPath(query, p), IsFiniteSet(edges),
           \A i, j \in 1 .. Len(p) : i < j => p[i] # p[j]
    PROVE  p \in Unfold(query)
<1>1. p \in Seq(edges) /\ Len(p) \in Nat /\ p \in [1 .. Len(p) -> edges]
  BY PathElements
<1>2. Cardinality(edges) \in Nat
  BY FS_CardinalityType
<1>3. IsFiniteSet(1 .. Len(p)) /\ Cardinality(1 .. Len(p)) = IF 1 > Len(p) THEN 0 ELSE Len(p) - 1 + 1
  BY <1>1, FS_Interval
<1>4. Cardinality(1 .. Len(p)) = Len(p)
  BY <1>1, <1>3
<1>5. ~(Cardinality(edges) < Len(p))
  <2> SUFFICES ASSUME Cardinality(edges) < Len(p) PROVE FALSE
    OBVIOUS
  <2>1. PICK i, j \in 1 .. Len(p) : i # j /\ p[i] = p[j]
    BY <1>1, <1>3, <1>4, FS_PigeonHole
  <2>2. i < j \/ j < i
    BY <1>1, <2>1
  <2> QED
    BY <2>1, <2>2
<1>6. Len(p) <= Cardinality(edges) + 1
  BY <1>1, <1>2, <1>5
<1> QED
  BY <1>1, <1>6, UnfoldIs DEF Paths

LEMMA UnfoldedIsPath ==
    ASSUME NEW query, IsFiniteSet(edges), NEW p \in Unfold(query)
    PROVE  IsPath(query, p)
  BY UnfoldIs DEF Paths

\* The gap list comes by no supplier twice.
LEMMA GapPath ==
    ASSUME NEW p, IsPath("gaps", p)
    PROVE  /\ \A i \in 1 .. Len(p) - 1 : p[i + 1].parent = p[i].child
           /\ \A i, j \in 1 .. Len(p) : i < j => p[i].child # p[j].child
<1>1. p \in Seq(edges) /\ Len(p) \in Nat
  BY PathElements
<1>2. ASSUME NEW i \in 1 .. Len(p) - 1
      PROVE  p[i + 1].parent = p[i].child /\ \A j \in 1 .. i : p[j].child # p[i + 1].child
  <2>1. i \in 1 .. Len(p)
    BY <1>1
  <2>2. GapJoins(Start(p, i), p[i + 1])
    BY DEF IsPath, Joins
  <2>3. /\ Start(p, i) \in Seq(edges) /\ Len(Start(p, i)) = i
        /\ \A j \in 1 .. i : Start(p, i)[j] = p[j]
        /\ Last(Start(p, i)) = p[i]
    BY <1>1, <2>1, StartIs
  <2>4. DOMAIN Start(p, i) = 1 .. i
    BY <2>3, LenProperties
  <2> QED
    BY <2>2, <2>3, <2>4 DEF GapJoins
<1>3. ASSUME NEW i \in 1 .. Len(p), NEW j \in 1 .. Len(p), i < j PROVE p[i].child # p[j].child
  <2>1. j - 1 \in 1 .. Len(p) - 1 /\ i \in 1 .. j - 1 /\ j - 1 + 1 = j
    BY <1>1, <1>3
  <2> QED
    BY <1>2, <2>1
<1> QED
  BY <1>2, <1>3

LEMMA GapPathFound ==
    ASSUME NEW p, IsFiniteSet(edges)
    PROVE  IsPath("gaps", p) <=> p \in Unfold("gaps")
<1>1. ASSUME IsPath("gaps", p) PROVE p \in Unfold("gaps")
  <2>1. \A i, j \in 1 .. Len(p) : i < j => p[i] # p[j]
    BY <1>1, GapPath
  <2> QED
    BY <1>1, <2>1, PathShort
<1> QED
  BY <1>1, UnfoldedIsPath

\* A gap path goes on to every supplier it has not passed.
LEMMA GapPathOn ==
    ASSUME NEW p, IsPath("gaps", p), NEW e \in edges, e.parent = Last(p).child,
           \A i \in 1 .. Len(p) : p[i].child # e.child
    PROVE  IsPath("gaps", Append(p, e)) /\ Last(Append(p, e)) = e
<1>1. p \in Seq(edges) /\ DOMAIN p = 1 .. Len(p)
  BY PathElements
<1>2. Joins("gaps", p, e)
  BY <1>1 DEF Joins, GapJoins
<1> QED
  BY <1>1, <1>2, PathAppend, StartOfAppend

\* The tree goes down level by level.
LEMMA TreePath ==
    ASSUME NEW p, IsPath("tree", p), edges \subseteq MapEdges, Levelled
    PROVE  /\ \A i \in 1 .. Len(p) - 1 :
                p[i + 1].parent = p[i].child /\ p[i + 1].hop = p[i].hop + 1 /\ ~IsCycle(Start(p, i))
           /\ \A i \in 1 .. Len(p) : p[i].hop = i - 1
<1>1. /\ p \in Seq(edges) /\ Len(p) \in Nat /\ 1 \in 1 .. Len(p) /\ Len(p) \in 1 .. Len(p)
      /\ p[1] \in Anchors /\ \A i \in 1 .. Len(p) : p[i] \in edges
  BY PathElements
<1>2. ASSUME NEW i \in 1 .. Len(p) - 1
      PROVE  p[i + 1].parent = p[i].child /\ p[i + 1].hop = p[i].hop + 1 /\ ~IsCycle(Start(p, i))
  <2>1. TreeJoins(Start(p, i), p[i + 1])
    BY DEF IsPath, Joins
  <2>2. Last(Start(p, i)) = p[i]
    <3>1. i \in 1 .. Len(p)
      BY <1>1
    <3> QED
      BY <1>1, <3>1, StartIs
  <2> QED
    BY <2>1, <2>2 DEF TreeJoins
<1> DEFINE S == {i \in 1 .. Len(p) : p[i].hop = i - 1}
<1>3. 1 \in S
  BY <1>1 DEF Anchors, Levelled
<1>4. ASSUME NEW i \in 1 .. Len(p), i \in S, i < Len(p) PROVE i + 1 \in S
  <2>1. i \in 1 .. Len(p) - 1 /\ i + 1 \in 1 .. Len(p)
    BY <1>1, <1>4
  <2>2. p[i + 1].hop = p[i].hop + 1 /\ p[i].hop = i - 1
    BY <1>2, <1>4, <2>1
  <2>3. i - 1 + 1 = i + 1 - 1
    BY <1>1
  <2> QED
    BY <2>1, <2>2, <2>3
<1>5. 1 .. Len(p) \subseteq S
  <2> HIDE DEF S
  <2> QED
    BY <1>1, <1>3, <1>4, UpTo
<1> QED
  BY <1>2, <1>5

LEMMA TreePathFound ==
    ASSUME NEW p, IsFiniteSet(edges), edges \subseteq MapEdges, Levelled
    PROVE  IsPath("tree", p) <=> p \in Tree
<1>1. ASSUME IsPath("tree", p) PROVE p \in Unfold("tree")
  <2>1. \A i \in 1 .. Len(p) : p[i].hop = i - 1
    BY <1>1, TreePath
  <2>2. Len(p) \in Nat
    BY <1>1, PathElements
  <2>3. ASSUME NEW i \in 1 .. Len(p), NEW j \in 1 .. Len(p), i < j PROVE p[i] # p[j]
    <3>1. i - 1 # j - 1
      BY <2>2, <2>3
    <3> QED
      BY <2>1, <3>1
  <2> QED
    BY <1>1, <2>3, PathShort
<1> QED
  BY <1>1, UnfoldedIsPath DEF Tree

LEMMA TreePathOn ==
    ASSUME NEW p, IsPath("tree", p), NEW e \in edges, e.parent = Last(p).child,
           e.hop = Last(p).hop + 1, ~IsCycle(p)
    PROVE  IsPath("tree", Append(p, e)) /\ Last(Append(p, e)) = e
<1>1. p \in Seq(edges)
  BY PathElements
<1>2. Joins("tree", p, e)
  BY DEF Joins, TreeJoins
<1> QED
  BY <1>1, <1>2, PathAppend, StartOfAppend

\* The gap list has exactly the suppliers on the way down from a root.
LEMMA GapSuppliers ==
    ASSUME IsFiniteSet(edges), edges \subseteq MapEdges
    PROVE  Supplying = {Last(p).child : p \in Unfold("gaps")}
<1> DEFINE Found == {Last(p).child : p \in Unfold("gaps")}
           E == Links(edges)
<1>1. /\ \A e \in edges : e.child \in Suppliers /\ (e.parent \in Suppliers \/ e.parent = NoSupplier)
      /\ Roots \subseteq Suppliers /\ Anchors \subseteq edges
  BY DEF MapEdges, Roots, Anchors
<1>2. ASSUME NEW p, IsPath("gaps", p) PROVE Last(p).child \in Supplying
  <2> DEFINE S == {i \in 1 .. Len(p) : p[i].child \in Supplying}
  <2>1. /\ Len(p) \in Nat /\ 1 \in 1 .. Len(p) /\ Len(p) \in 1 .. Len(p) /\ p[1] \in Anchors
        /\ Last(p) = p[Len(p)] /\ \A i \in 1 .. Len(p) : p[i] \in edges
    BY <1>2, PathElements
  <2>2. 1 \in S
    BY <2>1 DEF Supplying, Roots
  <2>3. ASSUME NEW i \in 1 .. Len(p), i \in S, i < Len(p) PROVE i + 1 \in S
    <3>1. i \in 1 .. Len(p) - 1 /\ i + 1 \in 1 .. Len(p)
      BY <2>1, <2>3
    <3>2. p[i + 1].parent = p[i].child /\ p[i] \in edges /\ p[i + 1] \in edges
      BY <1>2, <2>1, <3>1, GapPath
    <3>3. <<p[i].child, p[i + 1].child>> \in E /\ p[i + 1].child \in Suppliers
      BY <1>1, <3>2, SuppliersAssumption DEF Links
    <3>4. PICK r \in Roots : p[i].child \in Below(E, r) \cup {r}
      BY <2>3 DEF Supplying, Descendants
    <3>5. p[i + 1].child \in Below(E, r)
      BY <3>3, <3>4, BelowClosed DEF Children
    <3> QED
      BY <3>1, <3>5 DEF Supplying, Descendants
  <2>4. 1 .. Len(p) \subseteq S
    <3> HIDE DEF S
    <3> QED
      BY <2>1, <2>2, <2>3, UpTo
  <2> QED
    BY <2>1, <2>4
<1>3. Found \subseteq Supplying
  BY <1>2, GapPathFound
<1>4. ASSUME NEW s \in Found, NEW t \in Suppliers, <<s, t>> \in E PROVE t \in Found
  <2>1. PICK p : IsPath("gaps", p) /\ Last(p).child = s
    BY <1>4, GapPathFound
  <2>2. PICK e \in edges : e.parent = s /\ e.child = t
    BY <1>4 DEF Links
  <2>3. CASE \E i \in 1 .. Len(p) : p[i].child = t
    <3>1. PICK i \in 1 .. Len(p) : p[i].child = t
      BY <2>3
    <3>2. IsPath("gaps", Start(p, i)) /\ Last(Start(p, i)) = p[i]
      BY <2>1, PathStart
    <3> QED
      BY <3>1, <3>2, GapPathFound
  <2>4. CASE \A i \in 1 .. Len(p) : p[i].child # t
    <3>1. IsPath("gaps", Append(p, e)) /\ Last(Append(p, e)) = e
      BY <2>1, <2>2, <2>4, GapPathOn
    <3> QED
      BY <2>2, <3>1, GapPathFound
  <2> QED
    BY <2>3, <2>4
<1>5. Roots \subseteq Found
  <2> SUFFICES ASSUME NEW e \in Anchors PROVE e.child \in Found
    BY DEF Roots
  <2> QED
    BY PathOfOne, GapPathFound
<1>6. Found \in SUBSET Suppliers
  <2> SUFFICES ASSUME NEW p, IsPath("gaps", p) PROVE Last(p).child \in Suppliers
    BY GapPathFound
  <2> QED
    BY <1>1, PathElements
<1>7. ASSUME NEW r \in Roots PROVE Below(E, r) \subseteq Found
  <2>1. Children(E, Found \cup {r}) \subseteq Found
    <3> HIDE DEF Found, E
    <3> QED
      BY <1>4, <1>5, <1>7 DEF Children
  <2> HIDE DEF Found
  <2> QED
    BY <1>6, <2>1, BelowLeast
<1>8. Supplying \subseteq Found
  BY <1>5, <1>7 DEF Supplying, Descendants
<1> QED
  BY <1>3, <1>8

\* A row of the gap list, by its supplier; the roots are the suppliers of level 0.
LEMMA GapRowsAre ==
    ASSUME IsFiniteSet(edges), edges \subseteq MapEdges, Levelled
    PROVE  /\ \A n \in GapRows :
                /\ n.supplier \in Supplying /\ n.depth \in Nat
                /\ n.root = (n.supplier \in Roots)
                /\ n.has = held[n.supplier]
                /\ n = [supplier |-> n.supplier, depth |-> n.depth, root |-> n.root, has |-> n.has]
           /\ \A s \in Supplying : \E n \in GapRows : n.supplier = s
<1> DEFINE paths == Unfold("gaps")
           roots == {Last(p).child : p \in {q \in paths : Last(q).hop = 0}}
           row(p) == [supplier |-> Last(p).child, depth |-> Last(p).hop,
                      root |-> Last(p).child \in roots, has |-> held[Last(p).child]]
<1>1. GapRows = {row(p) : p \in paths}
  BY DEF GapRows
<1>2. Supplying = {Last(p).child : p \in paths}
  BY GapSuppliers
<1>3. \A p \in paths : Last(p) \in edges
  BY GapPathFound, PathElements
<1>4. roots = Roots
  <2>1. ASSUME NEW p \in paths, Last(p).hop = 0 PROVE Last(p).child \in Roots
    <3>1. Last(p) \in edges
      BY <1>3
    <3>2. Last(p) \in Anchors
      BY <2>1, <3>1 DEF Anchors, Levelled
    <3> QED
      BY <3>2 DEF Roots
  <2>2. ASSUME NEW e \in Anchors PROVE e.child \in roots
    <3>1. <<e>> \in paths /\ Last(<<e>>) = e
      BY PathOfOne, GapPathFound
    <3>2. e.hop = 0
      BY DEF Anchors, Levelled
    <3> QED
      BY <3>1, <3>2
  <2> QED
    BY <2>1, <2>2 DEF Roots
<1> HIDE DEF roots, paths
<1>5. ASSUME NEW n \in GapRows
      PROVE  /\ n.supplier \in Supplying /\ n.depth \in Nat
             /\ n.root = (n.supplier \in Roots)
             /\ n.has = held[n.supplier]
             /\ n = [supplier |-> n.supplier, depth |-> n.depth, root |-> n.root, has |-> n.has]
  <2>1. PICK p \in paths : n = row(p)
    BY <1>1
  <2>2. Last(p).hop \in Nat /\ Last(p).child \in Supplying
    BY <1>2, <1>3 DEF MapEdges
  <2> QED
    BY <1>4, <2>1, <2>2
<1>6. ASSUME NEW s \in Supplying PROVE \E n \in GapRows : n.supplier = s
  <2>1. PICK p \in paths : s = Last(p).child
    BY <1>2
  <2>2. row(p) \in GapRows /\ row(p).supplier = s
    BY <1>1, <2>1
  <2> QED
    BY <2>2
<1> QED
  BY <1>5, <1>6

\* The market is the first of the destinations in the order of the alphabet.
LEMMA MarketIs ==
    ASSUME markets \subseteq {"EU", "KR", "US"}
    PROVE  /\ Market(markets) \in {"EU", "KR", "US"}
           /\ Market(markets) = IF "EU" \in markets \/ markets = {} THEN "EU"
                                ELSE IF "KR" \in markets THEN "KR" ELSE "US"
<1> DEFINE Early(i) == Destinations[i] \in markets /\ \A j \in 1 .. i - 1 : Destinations[j] \notin markets
           c == CHOOSE i \in 1 .. 3 : Early(i)
<1>1. Destinations[1] = "EU" /\ Destinations[2] = "KR" /\ Destinations[3] = "US"
  BY DEF Destinations
<1>2. CASE markets = {}
  BY <1>2 DEF Market
<1>3. CASE markets # {}
  <2>1. \E i \in 1 .. 3 : Early(i)
    <3>1. \A j \in 1 .. 1 - 1 : FALSE
      OBVIOUS
    <3>2. \A j \in 1 .. 2 - 1 : j = 1
      OBVIOUS
    <3>3. \A j \in 1 .. 3 - 1 : j = 1 \/ j = 2
      OBVIOUS
    <3>4. CASE "EU" \in markets
      <4>1. Early(1)
        BY <1>1, <3>1, <3>4
      <4> QED
        BY <4>1
    <3>5. CASE "EU" \notin markets /\ "KR" \in markets
      <4>1. Early(2)
        BY <1>1, <3>2, <3>5
      <4> QED
        BY <4>1
    <3>6. CASE "EU" \notin markets /\ "KR" \notin markets
      <4>1. Early(3)
        BY <1>1, <1>3, <3>3, <3>6
      <4> QED
        BY <4>1
    <3> QED
      BY <3>4, <3>5, <3>6
  <2>2. c \in 1 .. 3 /\ Early(c)
    <3> HIDE DEF Early
    <3>1. \E i \in 1 .. 3 : Early(i)
      BY <2>1
    <3> QED
      BY <3>1
  <2>3. Market(markets) = Destinations[c]
    BY <1>3 DEF Market
  <2> HIDE DEF c
  <2>4. "EU" \in markets => c = 1
    BY <1>1, <2>2
  <2>5. c = 1 \/ c = 2 \/ c = 3
    BY <2>2
  <2> QED
    BY <1>1, <1>3, <2>2, <2>3, <2>4, <2>5
<1> QED
  BY <1>2, <1>3

\* What the gap list misses is what the supplier lacks.
LEMMA MissingIsLacking ==
    ASSUME markets \subseteq {"EU", "KR", "US"},
           NEW n, n.root = (n.supplier \in Roots), n.has = held[n.supplier]
    PROVE  Missing(n, Market(markets)) # {} <=> Lacks(n.supplier)
<1>1. Required(Market(markets), n.supplier) =
        IF "EU" \in markets \/ markets = {} THEN Required("EU", n.supplier)
        ELSE IF "KR" \in markets THEN {}
        ELSE Required("US", n.supplier)
  BY MarketIs DEF Required
<1> HIDE DEF Roots
<1>2. Missing(n, Market(markets)) = Needs(n.supplier) \ held[n.supplier]
  BY <1>1 DEF Missing, Needs
<1> QED
  BY <1>2 DEF Lacks

-----------------------------------------------------------------------------
(* SupplyMap: tree and gap list                                            *)

\* Whoever is on a tree path is reached by the gap list without leaving it.
LEMMA Shortened ==
    ASSUME edges \subseteq MapEdges, Levelled, NEW p, IsPath("tree", p), NEW n \in 1 .. Len(p)
    PROVE  \E q : /\ IsPath("gaps", q)
                  /\ Last(q).child = p[n].child
                  /\ \A j \in 1 .. Len(q) : \E k \in 1 .. n : q[j].child = p[k].child
<1> DEFINE Good(i, q) == /\ IsPath("gaps", q)
                         /\ Last(q).child = p[i].child
                         /\ \A j \in 1 .. Len(q) : \E k \in 1 .. i : q[j].child = p[k].child
           S == {i \in 1 .. Len(p) : \E q : Good(i, q)}
<1>1. /\ Len(p) \in Nat /\ 1 \in 1 .. Len(p) /\ p[1] \in Anchors
      /\ \A i \in 1 .. Len(p) : p[i] \in edges
  BY PathElements
<1>2. 1 \in S
  <2>1. Good(1, <<p[1]>>)
    <3>1. IsPath("gaps", <<p[1]>>) /\ Last(<<p[1]>>) = p[1] /\ Len(<<p[1]>>) = 1 /\ <<p[1]>>[1] = p[1]
      BY <1>1, PathOfOne
    <3>2. 1 \in 1 .. 1 /\ \A j \in 1 .. 1 : j = 1
      OBVIOUS
    <3> QED
      BY <3>1, <3>2
  <2> HIDE DEF Good
  <2> QED
    BY <1>1, <2>1
<1>3. ASSUME NEW i \in 1 .. Len(p), i \in S, i < Len(p) PROVE i + 1 \in S
  <2>1. PICK q : Good(i, q)
    BY <1>3
  <2>2. /\ i \in 1 .. Len(p) - 1 /\ i + 1 \in 1 .. Len(p)
        /\ i + 1 \in 1 .. i + 1 /\ \A k \in 1 .. i : k \in 1 .. i + 1
    BY <1>1, <1>3
  <2>3. p[i + 1].parent = p[i].child /\ p[i + 1] \in edges
    BY <1>1, <2>2, TreePath
  <2> DEFINE e == p[i + 1]
  <2>4. CASE \E j \in 1 .. Len(q) : q[j].child = e.child
    <3>1. PICK j \in 1 .. Len(q) : q[j].child = e.child
      BY <2>4
    <3>2. IsPath("gaps", Start(q, j)) /\ Last(Start(q, j)) = q[j] /\ Len(Start(q, j)) = j
      BY <2>1, PathStart
    <3>3. q \in Seq(edges) /\ Len(q) \in Nat
      BY <2>1, PathElements
    <3>4. \A m \in 1 .. j : Start(q, j)[m] = q[m] /\ m \in 1 .. Len(q)
      BY <3>3, StartIs
    <3>5. Good(i + 1, Start(q, j))
      BY <2>1, <2>2, <3>1, <3>2, <3>4
    <3> QED
      BY <2>2, <3>5
  <2>5. CASE \A j \in 1 .. Len(q) : q[j].child # e.child
    <3>1. IsPath("gaps", Append(q, e)) /\ Last(Append(q, e)) = e
      BY <2>1, <2>3, <2>5, GapPathOn
    <3>2. q \in Seq(edges) /\ Len(q) \in Nat
      BY <2>1, PathElements
    <3>3. /\ Len(Append(q, e)) = Len(q) + 1
          /\ \A m \in 1 .. Len(q) : Append(q, e)[m] = q[m]
          /\ Append(q, e)[Len(q) + 1] = e
      BY <2>3, <3>2
    <3>4. \A m \in 1 .. Len(q) + 1 : m = Len(q) + 1 \/ m \in 1 .. Len(q)
      BY <3>2
    <3>5. Good(i + 1, Append(q, e))
      <4> HIDE DEF e
      <4>1. ASSUME NEW m \in 1 .. Len(Append(q, e))
            PROVE  \E k \in 1 .. i + 1 : Append(q, e)[m].child = p[k].child
        <5>1. CASE m = Len(q) + 1
          BY <2>2, <3>3, <5>1 DEF e
        <5>2. CASE m \in 1 .. Len(q)
          BY <2>1, <2>2, <3>3, <5>2
        <5> QED
          BY <3>3, <3>4, <5>1, <5>2
      <4> QED
        BY <3>1, <4>1 DEF e
    <3> QED
      BY <2>2, <3>5
  <2> QED
    BY <2>4, <2>5
<1>4. 1 .. Len(p) \subseteq S
  <2> HIDE DEF S
  <2> QED
    BY <1>1, <1>2, <1>3, UpTo
<1> QED
  BY <1>4

\* Every edge ends a path of the tree, if each had its parent's row when it was
\* inserted and no path repeats itself.
LEMMA EdgeOnTree ==
    ASSUME edges \subseteq MapEdges, Levelled,
           \A e \in edges : e.below,
           \A p : IsPath("tree", p) => ~IsCycle(p),
           NEW e \in edges
    PROVE  \E p : IsPath("tree", p) /\ Last(p) = e
<1> DEFINE On(d) == \E p : IsPath("tree", p) /\ Last(p) = d
           S == {n \in 0 .. e.hop : \A d \in edges : d.hop = n => On(d)}
<1>1. \A d \in edges : d.hop \in Nat
  BY DEF MapEdges
<1>2. 0 \in S
  <2>1. ASSUME NEW d \in edges, d.hop = 0 PROVE On(d)
    <3>1. d \in Anchors
      BY <2>1 DEF Anchors, Levelled
    <3>2. IsPath("tree", <<d>>) /\ Last(<<d>>) = d
      BY <3>1, PathOfOne
    <3> QED
      BY <3>2
  <2>2. 0 \in 0 .. e.hop
    BY <1>1
  <2> QED
    BY <2>1, <2>2
<1>3. ASSUME NEW n \in 0 .. e.hop, n \in S, n < e.hop PROVE n + 1 \in S
  <2>1. ASSUME NEW d \in edges, d.hop = n + 1 PROVE On(d)
    <3>1. d.hop # 0 /\ d.below
      BY <1>1, <2>1
    <3>2. PICK up \in edges : d.parent = up.child /\ d.hop = up.hop + 1
      BY <3>1 DEF Levelled
    <3>3. up.hop = n
      BY <1>1, <2>1, <3>2
    <3>4. PICK p : IsPath("tree", p) /\ Last(p) = up
      BY <1>3, <3>3
    <3>5. IsPath("tree", Append(p, d)) /\ Last(Append(p, d)) = d
      BY <3>2, <3>4, TreePathOn
    <3> QED
      BY <3>5
  <2>2. n + 1 \in 0 .. e.hop
    BY <1>1, <1>3
  <2> HIDE DEF On
  <2> QED
    BY <2>1, <2>2
<1>4. e.hop \in S
  <2> HIDE DEF S
  <2>1. 0 .. e.hop \subseteq S
    BY <1>1, <1>2, <1>3, UpTo
  <2>2. e.hop \in 0 .. e.hop
    BY <1>1
  <2> QED
    BY <2>1, <2>2
<1> QED
  BY <1>4

LEMMA TreeAndGaps ==
    ASSUME IsFiniteSet(edges), edges \subseteq MapEdges, Levelled
    PROVE  TreeShowsGaps
<1> DEFINE shown == {<<Last(p).child, Last(p).hop>> : p \in Tree}
           listed == {<<node.supplier, node.depth>> : node \in GapRows}
<1>1. listed = {<<Last(q).child, Last(q).hop>> : q \in Unfold("gaps")}
  <2> DEFINE roots == {Last(p).child : p \in {q \in Unfold("gaps") : Last(q).hop = 0}}
             row(p) == [supplier |-> Last(p).child, depth |-> Last(p).hop,
                        root |-> Last(p).child \in roots, has |-> held[Last(p).child]]
  <2>1. GapRows = {row(p) : p \in Unfold("gaps")}
    BY DEF GapRows
  <2>2. \A p : row(p).supplier = Last(p).child /\ row(p).depth = Last(p).hop
    OBVIOUS
  <2> HIDE DEF row
  <2> QED
    BY <2>1, <2>2
<1>2. ASSUME NEW p \in Tree
      PROVE  \/ <<Last(p).child, Last(p).hop>> \in listed
             \/ \E i \in 1 .. Len(p) - 1 : p[i].child = Last(p).child
  <2> SUFFICES ASSUME \A i \in 1 .. Len(p) - 1 : p[i].child # Last(p).child
               PROVE  \E q : IsPath("gaps", q) /\ Last(q) = Last(p)
    BY <1>1, GapPathFound
  <2>1. IsPath("tree", p)
    BY TreePathFound
  <2>2. Len(p) \in Nat /\ Last(p) = p[Len(p)] /\ Last(p) \in edges /\ p[1] \in Anchors
    BY <2>1, PathElements
  <2>3. CASE Len(p) = 1
    <3>1. IsPath("gaps", <<p[1]>>) /\ Last(<<p[1]>>) = Last(p)
      BY <2>2, <2>3, PathOfOne
    <3> QED
      BY <3>1
  <2>4. CASE Len(p) # 1
    <3> DEFINE n == Len(p) - 1
    <3>1. n \in 1 .. Len(p) /\ n \in 1 .. Len(p) - 1 /\ n + 1 = Len(p)
      <4>1. n \in 1 .. Len(p)
        BY <2>1, <2>4, PathLast
      <4> QED
        BY <2>2, <4>1
    <3>2. Last(p).parent = p[n].child
      BY <2>1, <2>2, <3>1, TreePath
    <3>3. PICK q : /\ IsPath("gaps", q)
                   /\ Last(q).child = p[n].child
                   /\ \A j \in 1 .. Len(q) : \E k \in 1 .. n : q[j].child = p[k].child
      BY <2>1, <3>1, Shortened
    <3>4. IsPath("gaps", Append(q, Last(p))) /\ Last(Append(q, Last(p))) = Last(p)
      BY <2>2, <3>2, <3>3, GapPathOn
    <3> QED
      BY <3>4
  <2> QED
    BY <2>3, <2>4
<1>3. ASSUME \A e \in edges : e.below, \A p \in Tree : ~IsCycle(p)
      PROVE  listed \subseteq shown
  <2> SUFFICES ASSUME NEW q \in Unfold("gaps")
               PROVE  <<Last(q).child, Last(q).hop>> \in shown
    BY <1>1
  <2>1. Last(q) \in edges
    BY GapPathFound, PathElements
  <2>2. \A p : IsPath("tree", p) => ~IsCycle(p)
    BY <1>3, TreePathFound
  <2>3. PICK p : IsPath("tree", p) /\ Last(p) = Last(q)
    BY <1>3, <2>1, <2>2, EdgeOnTree
  <2> QED
    BY <2>3, TreePathFound
<1> QED
  BY <1>2, <1>3 DEF TreeShowsGaps

-----------------------------------------------------------------------------
(* SupplyMap: types and levels                                             *)

MapTyped == MapTypeOK /\ IsFiniteSet(edges)

LEMMA NoTaskType ==
    /\ NoTask \in Tasks /\ NoTask.pc = "idle" /\ NoTask.stale = FALSE
    /\ NoTask.asked = [s \in Suppliers |-> 0]
  BY DEF NoTask, Tasks

LEMMA SeededEdgesType ==
    ASSUME NEW double \in BOOLEAN, NEW dual \in BOOLEAN
    PROVE  SeededEdges(double, dual) \subseteq MapEdges /\ IsFiniteSet(SeededEdges(double, dual))
<1> DEFINE a == Edge(NoSupplier, Prime, First, 0, 1, TRUE)
           b == Edge(Prime, Maker, First, 1, 1, TRUE)
           c == Edge(Maker, Maker, Second, 2, 1, TRUE)
           d == Edge(Prime, Miner, First, 1, 1, TRUE)
<1>1. a \in MapEdges /\ b \in MapEdges /\ c \in MapEdges /\ d \in MapEdges
  BY SuppliersAssumption, MapAssumption DEF Edge, MapEdges
<1>2. SeededEdges(double, dual) \subseteq ({} \cup {a} \cup {b} \cup {c} \cup {d})
  BY DEF SeededEdges
<1> HIDE DEF a, b, c, d
<1>3. IsFiniteSet({} \cup {a} \cup {b} \cup {c} \cup {d})
  BY FS_EmptySet, FS_AddElement
<1>4. IsFiniteSet(SeededEdges(double, dual))
  BY <1>2, <1>3, FS_Subset
<1> QED
  BY <1>1, <1>2, <1>4

LEMMA SeededRatiosType ==
    ASSUME NEW E, NEW r \in SeededRatios(E)
    PROVE  /\ DOMAIN r \subseteq E
           /\ \A e \in DOMAIN r : /\ DOMAIN r[e] \subseteq Factories
                                  /\ \A f \in DOMAIN r[e] : r[e][f] \in 0 .. Whole
<1>1. CASE r = <<>>
  BY <1>1
<1>2. CASE r # <<>>
  <2>1. PICK percent \in 1 .. Whole :
          r = [e \in {d \in E : d.parent # NoSupplier} |->
                 [f \in {g \in Factories : Owner[g] = e.child} |-> percent]]
    BY <1>2 DEF SeededRatios
  <2>2. percent \in 0 .. Whole
    BY MapBounds
  <2> QED
    BY <2>1, <2>2
<1> QED
  BY <1>1, <1>2

LEMMA MapInitTyped == MapInit => MapTyped
<1> SUFFICES ASSUME MapInit PROVE MapTyped
  OBVIOUS
<1>1. edges \subseteq MapEdges /\ IsFiniteSet(edges)
  BY SeededEdgesType DEF MapInit
<1>2. /\ DOMAIN ratio \subseteq edges
      /\ \A e \in DOMAIN ratio : /\ DOMAIN ratio[e] \subseteq Factories
                                 /\ \A f \in DOMAIN ratio[e] : ratio[e][f] \in 0 .. Whole
  BY SeededRatiosType DEF MapInit
<1>3. share \in [Factories -> 0 .. Whole \cup {Null}]
  BY DEF MapInit
<1>4. held \in [Suppliers -> SUBSET Fields]
  BY DEF MapInit, SeededFields, Form, Fields
<1>5. markets \subseteq {"EU", "KR", "US"} /\ confirmed \subseteq edges /\ verified \subseteq edges
  BY DEF MapInit
<1>6. status \in {"building", "completed"} /\ task \in Tasks /\ ops \in Nat
  BY NoTaskType DEF MapInit
<1> QED
  BY <1>1, <1>2, <1>3, <1>4, <1>5, <1>6 DEF MapTyped, MapTypeOK

LEMMA MapInitLevelled == MapInit => Levelled
<1> SUFFICES ASSUME MapInit, NEW e \in edges
             PROVE  /\ e.hop = 0 <=> e.parent = NoSupplier
                    /\ e.below /\ e.parent # NoSupplier =>
                         \E d \in edges : d.child = e.parent /\ e.hop = d.hop + 1
  BY DEF Levelled
<1> DEFINE a == Edge(NoSupplier, Prime, First, 0, 1, TRUE)
           b == Edge(Prime, Maker, First, 1, 1, TRUE)
           c == Edge(Maker, Maker, Second, 2, 1, TRUE)
           d == Edge(Prime, Miner, First, 1, 1, TRUE)
<1>1. a \in edges /\ b \in edges /\ e \in {a, b, c, d}
  BY DEF MapInit, SeededEdges
<1>2. /\ a.parent = NoSupplier /\ a.child = Prime /\ a.hop = 0
      /\ b.parent = Prime /\ b.child = Maker /\ b.hop = 1
      /\ c.parent = Maker /\ c.hop = 2
      /\ d.parent = Prime /\ d.hop = 1
  BY DEF Edge
<1>3. Prime # NoSupplier /\ Maker # NoSupplier
  BY SuppliersAssumption
<1> HIDE DEF a, b, c, d
<1>4. CASE e = a
  BY <1>2, <1>4
<1>5. CASE e = b
  BY <1>1, <1>2, <1>3, <1>5
<1>6. CASE e = c
  BY <1>1, <1>2, <1>3, <1>6
<1>7. CASE e = d
  BY <1>1, <1>2, <1>3, <1>7
<1> QED
  BY <1>1, <1>4, <1>5, <1>6, <1>7

\* The level of a new row: 0 without a parent, else below a row of the parent.
LEMMA HopsAre ==
    ASSUME edges \subseteq MapEdges, NEW by, NEW parent, NEW hop \in Hops(by, parent)
    PROVE  /\ hop \in Nat
           /\ hop = 0 <=> parent = NoSupplier
           /\ parent # NoSupplier /\ EdgesTo(parent) # {} =>
                \E d \in edges : d.child = parent /\ hop = d.hop + 1
<1> DEFINE hops == {e.hop + 1 : e \in EdgesTo(parent)}
<1>1. \A e \in EdgesTo(parent) : e \in edges /\ e.child = parent /\ e.hop \in Nat
  BY DEF EdgesTo, MapEdges
<1>2. hops \subseteq Nat
  BY <1>1
<1>3. CASE parent = NoSupplier
  BY <1>3 DEF Hops
<1>4. CASE parent # NoSupplier /\ hops = {}
  <2>1. hop = 1
    BY <1>4 DEF Hops
  <2>2. EdgesTo(parent) = {}
    BY <1>4
  <2> QED
    BY <1>4, <2>1, <2>2
<1>5. CASE parent # NoSupplier /\ hops # {}
  <2>1. hop \in hops
    <3>1. CASE by = "declare"
      BY <1>5, <3>1 DEF Hops
    <3>2. CASE by # "declare"
      <4>1. hop = Min(hops)
        BY <1>5, <3>2 DEF Hops
      <4> HIDE DEF hops
      <4>2. \E n \in hops : \A m \in hops : n <= m
        BY <1>2, <1>5, Least
      <4> QED
        BY <4>1, <4>2 DEF Min
    <3> QED
      BY <3>1, <3>2
  <2>2. PICK e \in EdgesTo(parent) : hop = e.hop + 1
    BY <2>1
  <2> QED
    BY <1>1, <1>5, <2>2
<1> QED
  BY <1>3, <1>4, <1>5

LEMMA ChangeType ==
    ASSUME MapTyped, Change
    PROVE  task' \in Tasks /\ ops' \in Nat
<1>1. task \in Tasks /\ ops \in Nat
  BY DEF MapTyped, MapTypeOK
<1>2. task' = [task EXCEPT !.stale = @ \/ task.pc \notin {"idle", "asked"}] /\ ops' = ops + 1
  BY DEF Change
<1>3. PICK b \in BOOLEAN : task' = [task EXCEPT !.stale = b]
  <2>1. task.stale \in BOOLEAN
    BY <1>1 DEF Tasks
  <2>2. (task.stale \/ task.pc \notin {"idle", "asked"}) \in BOOLEAN
    BY <2>1
  <2> QED
    BY <1>2, <2>2, Zenon
<1>4. [task EXCEPT !.stale = b] \in Tasks
  BY <1>1 DEF Tasks
<1> QED
  BY <1>1, <1>2, <1>3, <1>4

LEMMA InsertedEdge ==
    ASSUME MapTyped, Levelled, NEW by, NEW parent \in Suppliers \cup {NoSupplier},
           NEW child \in Suppliers, NEW part \in Parts, InsertEdge(by, parent, child, part)
    PROVE  MapTyped' /\ Levelled'
<1> DEFINE K == {e \in EdgesTo(child) : e.parent = parent /\ e.part = part}
           copy == Cardinality(K) + 1
           below == parent = NoSupplier \/ EdgesTo(parent) # {}
<1>1. MapTypeOK /\ IsFiniteSet(edges) /\ edges \subseteq MapEdges
  BY DEF MapTyped, MapTypeOK
<1>2. PICK hop \in Hops(by, parent) : edges' = edges \cup {Edge(parent, child, part, hop, copy, below)}
  BY DEF InsertEdge
<1>3. task' \in Tasks /\ ops' \in Nat
  BY ChangeType DEF InsertEdge
<1>4. UNCHANGED <<ratio, share, held, markets, confirmed, verified, status>>
  BY DEF InsertEdge
<1>5. /\ hop \in Nat
      /\ hop = 0 <=> parent = NoSupplier
      /\ parent # NoSupplier /\ EdgesTo(parent) # {} =>
           \E d \in edges : d.child = parent /\ hop = d.hop + 1
  BY <1>1, HopsAre
<1>6. copy \in Nat /\ below \in BOOLEAN
  <2>1. K \subseteq edges
    BY DEF EdgesTo
  <2> HIDE DEF K
  <2>2. IsFiniteSet(K)
    BY <1>1, <2>1, FS_Subset
  <2>3. Cardinality(K) \in Nat
    BY <2>2, FS_CardinalityType
  <2> QED
    BY <2>3
<1> HIDE DEF copy
<1> DEFINE new == Edge(parent, child, part, hop, copy, below)
<1>7. new \in MapEdges /\ new.parent = parent /\ new.hop = hop /\ new.below = below
  BY <1>5, <1>6 DEF Edge, MapEdges
<1>8. below /\ parent # NoSupplier => EdgesTo(parent) # {}
  OBVIOUS
<1> HIDE DEF new, below
<1>9. edges' = edges \cup {new}
  BY <1>2 DEF new, below
<1>10. edges' \subseteq MapEdges /\ IsFiniteSet(edges')
  BY <1>1, <1>7, <1>9, FS_AddElement
<1>11. MapTyped'
  <2>1. DOMAIN ratio' \subseteq edges' /\ confirmed' \subseteq edges' /\ verified' \subseteq edges'
    BY <1>1, <1>4, <1>9 DEF MapTypeOK
  <2> QED
    BY <1>1, <1>3, <1>4, <1>10, <2>1 DEF MapTyped, MapTypeOK
<1>12. Levelled'
  <2> SUFFICES ASSUME NEW e \in edges'
               PROVE  /\ e.hop = 0 <=> e.parent = NoSupplier
                      /\ e.below /\ e.parent # NoSupplier =>
                           \E d \in edges' : d.child = e.parent /\ e.hop = d.hop + 1
    BY DEF Levelled
  <2>1. CASE e \in edges
    BY <1>9, <2>1 DEF Levelled
  <2>2. CASE e = new
    BY <1>5, <1>7, <1>8, <1>9, <2>2
  <2> QED
    BY <1>9, <2>1, <2>2
<1> QED
  BY <1>11, <1>12

LEMMA SameEdges ==
    ASSUME Levelled, UNCHANGED edges
    PROVE  Levelled'
  BY DEF Levelled

\* The other changes.
LEMMA OtherChange ==
    ASSUME MapTyped, Levelled,
           \/ \E s \in Suppliers :
                \/ \E yes \in BOOLEAN : Verify(s, yes)
                \/ \E field \in Fields : SetField(s, field)
           \/ \E e \in edges : ConfirmMap(e)
           \/ \E S \in {{}} \cup {{s} : s \in Suppliers} : ConfirmPool(S)
           \/ \E new \in {"building", "completed"} : SetMapStatus(new)
           \/ \E f \in Factories, percent \in 0 .. Whole \cup {Null} : SetShare(f, percent)
           \/ \E destination \in {"EU", "KR", "US"} : CreateBatch(destination)
    PROVE  MapTyped' /\ Levelled' /\ Change
<1>1. Change /\ UNCHANGED <<edges, ratio>>
  BY DEF Verify, SetField, ConfirmMap, ConfirmPool, SetMapStatus, SetShare, CreateBatch
<1>2. Levelled' /\ task' \in Tasks /\ ops' \in Nat
  BY <1>1, SameEdges, ChangeType
<1>3. MapTypeOK /\ IsFiniteSet(edges)
  BY DEF MapTyped
<1>4. share' \in [Factories -> 0 .. Whole \cup {Null}]
  <2>1. CASE UNCHANGED share
    BY <1>3, <2>1 DEF MapTypeOK
  <2>2. CASE \E f \in Factories, percent \in 0 .. Whole \cup {Null} : SetShare(f, percent)
    BY <1>3, <2>2 DEF MapTypeOK, SetShare
  <2> QED
    BY <2>1, <2>2 DEF Verify, SetField, ConfirmMap, ConfirmPool, SetMapStatus, CreateBatch
<1>5. held' \in [Suppliers -> SUBSET Fields]
  <2>1. CASE UNCHANGED held
    BY <1>3, <2>1 DEF MapTypeOK
  <2>2. ASSUME NEW s \in Suppliers, NEW field \in Fields, SetField(s, field)
        PROVE  held' \in [Suppliers -> SUBSET Fields]
    BY <1>3, <2>2 DEF MapTypeOK, SetField
  <2> QED
    BY <2>1, <2>2 DEF Verify, ConfirmMap, ConfirmPool, SetMapStatus, SetShare, CreateBatch
<1>6. markets' \subseteq {"EU", "KR", "US"}
  <2>1. CASE UNCHANGED markets
    BY <1>3, <2>1 DEF MapTypeOK
  <2>2. CASE \E destination \in {"EU", "KR", "US"} : CreateBatch(destination)
    BY <1>3, <2>2 DEF MapTypeOK, CreateBatch
  <2> QED
    BY <2>1, <2>2 DEF Verify, SetField, ConfirmMap, ConfirmPool, SetMapStatus, SetShare
<1>7. confirmed' \subseteq edges'
  <2>1. CASE UNCHANGED confirmed
    BY <1>1, <1>3, <2>1 DEF MapTypeOK
  <2>2. CASE \E e \in edges : ConfirmMap(e)
    BY <1>1, <1>3, <2>2 DEF MapTypeOK, ConfirmMap
  <2>3. CASE \E S \in {{}} \cup {{s} : s \in Suppliers} : ConfirmPool(S)
    BY <1>1, <1>3, <2>3 DEF MapTypeOK, ConfirmPool
  <2> QED
    BY <2>1, <2>2, <2>3 DEF Verify, SetField, SetMapStatus, SetShare, CreateBatch
<1>8. verified' \subseteq edges'
  <2>1. CASE UNCHANGED verified
    BY <1>1, <1>3, <2>1 DEF MapTypeOK
  <2>2. CASE \E s \in Suppliers, yes \in BOOLEAN : Verify(s, yes)
    BY <1>1, <1>3, <2>2 DEF MapTypeOK, Verify, EdgesTo
  <2> QED
    BY <2>1, <2>2 DEF ConfirmMap, ConfirmPool, SetField, SetMapStatus, SetShare, CreateBatch
<1>9. status' \in {"building", "completed"}
  <2>1. CASE UNCHANGED status
    BY <1>3, <2>1 DEF MapTypeOK
  <2>2. CASE \E new \in {"building", "completed"} : SetMapStatus(new)
    BY <2>2 DEF SetMapStatus
  <2> QED
    BY <2>1, <2>2 DEF Verify, SetField, ConfirmMap, ConfirmPool, SetShare, CreateBatch
<1>10. MapTypeOK'
  BY <1>1, <1>2, <1>3, <1>4, <1>5, <1>6, <1>7, <1>8, <1>9 DEF MapTypeOK
<1> QED
  BY <1>1, <1>2, <1>3, <1>10 DEF MapTyped

LEMMA SupplyingType ==
    ASSUME edges \subseteq MapEdges
    PROVE  Supplying \subseteq Suppliers /\ Roots \subseteq Supplying
  BY DEF Supplying, Descendants, Below, Roots, Anchors, MapEdges

LEMMA GapRowsType ==
    ASSUME MapTyped, Levelled
    PROVE  GapRows \subseteq Nodes
<1> SUFFICES ASSUME NEW n \in GapRows PROVE n \in Nodes
  OBVIOUS
<1>1. IsFiniteSet(edges) /\ edges \subseteq MapEdges /\ held \in [Suppliers -> SUBSET Fields]
  BY DEF MapTyped, MapTypeOK
<1>2. /\ n.supplier \in Supplying /\ n.depth \in Nat
      /\ n.root = (n.supplier \in Roots)
      /\ n.has = held[n.supplier]
      /\ n = [supplier |-> n.supplier, depth |-> n.depth, root |-> n.root, has |-> n.has]
  BY <1>1, GapRowsAre
<1>3. n.supplier \in Suppliers
  BY <1>1, <1>2, SupplyingType
<1>4. n.has \in SUBSET Fields
  BY <1>1, <1>2, <1>3
<1>5. n.root \in BOOLEAN
  <2>1. (n.supplier \in Roots) \in BOOLEAN
    OBVIOUS
  <2> QED
    BY <1>2, <2>1, Zenon
<1>6. [supplier |-> n.supplier, depth |-> n.depth, root |-> n.root, has |-> n.has] \in Nodes
  BY <1>2, <1>3, <1>4, <1>5 DEF Nodes
<1> QED
  BY <1>2, <1>6, Zenon

\* The steps of the reader.
Read ==
    \/ \E targets \in Targets : Trigger(targets)
    \/ NotifyFinalValidation
    \/ ReadNodes
    \/ ReadRegulations
    \/ \E node \in task.rest : PublishGap(node)
    \/ SumEdges
    \/ SumTiers
    \/ Finish
    \/ Fail

LEMMA ReaderType ==
    ASSUME MapTyped, Levelled, Read
    PROVE  UNCHANGED <<map, ops>> /\ task' \in Tasks
<1>1. UNCHANGED <<map, ops>>
  BY DEF Read, Trigger, NotifyFinalValidation, ReadNodes, ReadRegulations, PublishGap, SumEdges,
         SumTiers, Finish, Fail
<1>2. task \in Tasks /\ markets \subseteq {"EU", "KR", "US"}
  BY DEF MapTyped, MapTypeOK
<1>3. ASSUME NEW targets \in Targets, Trigger(targets) PROVE task' \in Tasks
  BY <1>3, NoTaskType, MapAssumption DEF Trigger, Tasks
<1>4. CASE NotifyFinalValidation
  BY <1>1, <1>4, NoTaskType DEF NotifyFinalValidation, Tasks
<1>5. CASE ReadNodes
  BY <1>1, <1>2, <1>5, GapRowsType DEF ReadNodes, Tasks
<1>6. CASE ReadRegulations
  <2>1. Market(markets) \in {"EU", "KR", "US"}
    BY <1>2, MarketIs
  <2>2. CASE task.by = "trigger"
    BY <1>1, <1>2, <1>6, <2>1, <2>2 DEF ReadRegulations, Tasks
  <2>3. CASE task.by # "trigger"
    BY <1>1, <1>2, <1>6, <2>1, <2>3 DEF ReadRegulations, Tasks
  <2> QED
    BY <2>2, <2>3
<1>7. ASSUME NEW node \in task.rest, PublishGap(node) PROVE task' \in Tasks
  <2>1. /\ task.asked \in [Suppliers -> Nat] /\ node \in Nodes /\ node.supplier \in Suppliers
        /\ task.rest \ {node} \in SUBSET Nodes
    BY <1>2 DEF Tasks, Nodes
  <2>2. PICK k \in Nat : task' = [task EXCEPT !.rest = @ \ {node}, !.asked[node.supplier] = k]
    <3>1. task.asked[node.supplier] \in Nat /\ task.asked[node.supplier] + 1 \in Nat
      BY <2>1
    <3> QED
      BY <1>7, <3>1 DEF PublishGap
  <2>3. [task.asked EXCEPT ![node.supplier] = k] \in [Suppliers -> Nat]
    BY <2>1
  <2> QED
    BY <1>2, <2>1, <2>2, <2>3 DEF Tasks
<1>8. CASE SumEdges
  <2> DEFINE ok == Gapless /\ (\E node \in task.rest : ~node.root) /\ EdgesValid
  <2>1. PICK b \in BOOLEAN : task' = [task EXCEPT !.pc = "edges", !.ok = b]
    <3>1. task' = [task EXCEPT !.pc = "edges", !.ok = ok]
      BY <1>8 DEF SumEdges
    <3>2. ok \in BOOLEAN
      OBVIOUS
    <3> HIDE DEF ok
    <3> QED
      BY <3>1, <3>2
  <2>2. [task EXCEPT !.pc = "edges", !.ok = b] \in Tasks
    BY <1>2 DEF Tasks
  <2> QED
    BY <1>1, <2>1, <2>2
<1>9. CASE SumTiers
  <2>1. task' = NoTask \/ task' = [task EXCEPT !.pc = "tell"]
    <3>1. CASE task.ok /\ TiersValid
      BY <1>9, <3>1 DEF SumTiers
    <3>2. CASE ~(task.ok /\ TiersValid)
      BY <1>9, <3>2 DEF SumTiers
    <3> QED
      BY <3>1, <3>2
  <2>2. [task EXCEPT !.pc = "tell"] \in Tasks
    BY <1>2 DEF Tasks
  <2> QED
    BY <1>1, <2>1, <2>2, NoTaskType
<1>10. CASE Finish \/ Fail
  BY <1>1, <1>10, NoTaskType DEF Finish, Fail
<1> QED
  BY <1>1, <1>3, <1>4, <1>5, <1>6, <1>7, <1>8, <1>9, <1>10 DEF Read

LEMMA MapNextTyped ==
    ASSUME MapTyped, Levelled, [MapNext]_mapVars
    PROVE  MapTyped' /\ Levelled'
<1>1. ASSUME UNCHANGED <<map, ops>>, task' \in Tasks PROVE MapTyped' /\ Levelled'
  <2>1. MapTyped'
    BY <1>1 DEF MapTyped, MapTypeOK, map
  <2>2. Levelled'
    BY <1>1, SameEdges DEF map
  <2> QED
    BY <2>1, <2>2
<1>2. CASE Read
  BY <1>1, <1>2, ReaderType
<1>3. CASE UNCHANGED mapVars
  BY <1>1, <1>3 DEF mapVars, MapTyped, MapTypeOK
<1>4. ASSUME NEW parent \in Suppliers \cup {NoSupplier}, NEW child \in Suppliers, NEW part \in Parts,
             RegisterEdge(parent, child, part)
      PROVE  MapTyped' /\ Levelled'
  BY <1>4, InsertedEdge DEF RegisterEdge
<1>5. ASSUME NEW parent \in Suppliers, NEW child \in Suppliers, NEW part \in Parts,
             DeclareEdge(parent, child, part)
      PROVE  MapTyped' /\ Levelled'
  BY <1>5, InsertedEdge DEF DeclareEdge
<1> QED
  BY <1>2, <1>3, <1>4, <1>5, OtherChange DEF MapNext, Read

\* For any suppliers, factories, requests and number of changes the rows of the
\* map, the ratios, the shares and the reader keep their types.
THEOREM MapTypeCorrect == MapSpec => []MapTypeOK
<1>1. MapTyped => MapTypeOK
  BY DEF MapTyped
<1> QED
  BY MapInitTyped, MapInitLevelled, MapNextTyped, <1>1, PTL DEF MapSpec

\* The tree and the gap list, however large and however twisted the map is, show
\* each other's suppliers but for the two exceptions get_n_tier_supply_chain and
\* get_supplier_field_data make.
THEOREM TreeShowsGapsCorrect == MapSpec => []TreeShowsGaps
<1>1. MapTyped /\ Levelled => TreeShowsGaps
  BY TreeAndGaps DEF MapTyped, MapTypeOK
<1> QED
  BY MapInitTyped, MapInitLevelled, MapNextTyped, <1>1, PTL DEF MapSpec

-----------------------------------------------------------------------------
(* SupplyMap: what the reader knows                                        *)

\* Everybody but the root is there and has everything, and the edges are whole.
Complete ==
    /\ \A n \in GapRows : ~n.root => Missing(n, Market(markets)) = {}
    /\ \E n \in GapRows : ~n.root
    /\ EdgesValid

\* The supplier is to be asked for its rows N of the gap list.
ToAsk(N, s) ==
    \E n \in N : n.supplier = s /\ Missing(n, task.market) # {} /\ (task.targets = {} \/ s \in task.targets)

\* Unless the map changed meanwhile, the reader has what the map holds now, and
\* has asked the suppliers of the rows it is done with, each once.
Informed ==
    ~task.stale =>
        /\ task.pc \in {"asked", "nodes"} => task.asked = [s \in Suppliers |-> 0]
        /\ task.pc \in {"nodes", "gaps"} => task.rest = GapRows
        /\ task.pc \in {"gaps", "publish"} => task.market = Market(markets)
        /\ task.pc = "publish" =>
             /\ task.rest \subseteq GapRows
             /\ \A s \in Suppliers :
                  task.asked[s] = IF ToAsk(GapRows \ task.rest, s) THEN 1 ELSE 0
        /\ task.pc = "edges" /\ task.ok => Complete
        /\ task.pc = "tell" => Complete

LEMMA ChangeInformed ==
    ASSUME MapTyped, Informed, Change
    PROVE  Informed'
<1> SUFFICES ASSUME ~task'.stale
             PROVE  /\ task'.pc \notin {"nodes", "gaps", "publish", "edges", "tell"}
                    /\ task'.pc = "asked" => task'.asked = [s \in Suppliers |-> 0]
  BY DEF Informed
<1>1. task \in Tasks
  BY DEF MapTyped, MapTypeOK
<1>2. PICK b \in BOOLEAN : /\ task' = [task EXCEPT !.stale = b]
                           /\ b = (task.stale \/ task.pc \notin {"idle", "asked"})
  <2>1. task' = [task EXCEPT !.stale = @ \/ task.pc \notin {"idle", "asked"}]
    BY DEF Change
  <2>2. task.stale \in BOOLEAN
    BY <1>1 DEF Tasks
  <2>3. (task.stale \/ task.pc \notin {"idle", "asked"}) \in BOOLEAN
    BY <2>2
  <2> QED
    BY <2>1, <2>3, Zenon
<1>3. task'.pc = task.pc /\ task'.asked = task.asked /\ task'.stale = b
  BY <1>1, <1>2 DEF Tasks
<1>4. ~task.stale /\ task.pc \in {"idle", "asked"}
  BY <1>2, <1>3
<1> QED
  BY <1>3, <1>4 DEF Informed

LEMMA SameMap ==
    ASSUME UNCHANGED map
    PROVE  /\ GapRows' = GapRows /\ Market(markets)' = Market(markets)
           /\ Complete => Complete'
<1>1. edges' = edges /\ held' = held /\ markets' = markets /\ ratio' = ratio
  BY DEF map
<1>2. GapRows' = GapRows
  BY <1>1 DEF GapRows, Unfold, Anchors, Joins, TreeJoins, GapJoins, IsCycle
<1>3. Market(markets)' = Market(markets)
  BY <1>1 DEF Market
<1>4. EdgesValid => EdgesValid'
  BY <1>1 DEF EdgesValid
<1> QED
  BY <1>2, <1>3, <1>4 DEF Complete

\* The rows that are done with decide, one after the other, who was asked.
LEMMA PublishInformed ==
    ASSUME MapTyped, Informed, NEW node \in task.rest, PublishGap(node), ~task.stale
    PROVE  /\ task'.pc = "publish" /\ task'.stale = task.stale
           /\ task'.market = Market(markets)
           /\ task'.rest \subseteq GapRows
           /\ \A s \in Suppliers :
                task'.asked[s] = IF ToAsk(GapRows \ task.rest, s)
                                    \/ /\ s = node.supplier /\ Missing(node, task.market) # {}
                                       /\ task.targets = {} \/ s \in task.targets
                                 THEN 1 ELSE 0
           /\ task'.market = task.market /\ task'.targets = task.targets
           /\ GapRows \ task'.rest = (GapRows \ task.rest) \cup {node}
<1> DEFINE due == /\ Missing(node, task.market) # {}
                  /\ task.targets = {} \/ node.supplier \in task.targets
                  /\ task.asked[node.supplier] = 0
           k == IF due THEN task.asked[node.supplier] + 1 ELSE task.asked[node.supplier]
<1>1. task \in Tasks /\ task.pc = "publish"
  BY DEF MapTyped, MapTypeOK, PublishGap
<1>2. /\ task.market = Market(markets) /\ task.rest \subseteq GapRows
      /\ \A s \in Suppliers : task.asked[s] = IF ToAsk(GapRows \ task.rest, s) THEN 1 ELSE 0
  BY <1>1 DEF Informed
<1>3. task' = [task EXCEPT !.rest = @ \ {node}, !.asked[node.supplier] = k]
  BY DEF PublishGap
<1>4. node.supplier \in Suppliers /\ task.asked \in [Suppliers -> Nat]
  BY <1>1 DEF Tasks, Nodes
<1> HIDE DEF k
<1>5. /\ task'.rest = task.rest \ {node}
      /\ task'.asked = [task.asked EXCEPT ![node.supplier] = k]
      /\ task'.pc = task.pc /\ task'.market = task.market /\ task'.targets = task.targets
      /\ task'.stale = task.stale
  BY <1>1, <1>3 DEF Tasks
<1>6. ASSUME NEW s \in Suppliers
      PROVE  task'.asked[s] = IF ToAsk(GapRows \ task.rest, s)
                                 \/ /\ s = node.supplier /\ Missing(node, task.market) # {}
                                    /\ task.targets = {} \/ s \in task.targets
                              THEN 1 ELSE 0
  <2>1. CASE s # node.supplier
    BY <1>2, <1>4, <1>5, <2>1
  <2>2. CASE s = node.supplier
    <3>1. task'.asked[s] = k
      BY <1>4, <1>5, <2>2
    <3>2. task.asked[s] = IF ToAsk(GapRows \ task.rest, s) THEN 1 ELSE 0
      BY <1>2
    <3> QED
      BY <2>2, <3>1, <3>2 DEF k
  <2> QED
    BY <2>1, <2>2
<1> QED
  BY <1>1, <1>2, <1>5, <1>6

LEMMA ReaderInformed ==
    ASSUME MapTyped, Levelled, Informed, Read
    PROVE  Informed'
<1>1. UNCHANGED map /\ task \in Tasks
  BY ReaderType DEF MapTyped, MapTypeOK
<1>2. GapRows' = GapRows /\ Market(markets)' = Market(markets) /\ (Complete => Complete')
  BY <1>1, SameMap
<1>3. ASSUME task' = NoTask PROVE Informed'
  BY <1>3, NoTaskType DEF Informed
<1>4. CASE \/ \E targets \in Targets : Trigger(targets)
           \/ NotifyFinalValidation
  <2>1. task'.pc = "asked" /\ task'.asked = [s \in Suppliers |-> 0]
    BY <1>4, NoTaskType DEF Trigger, NotifyFinalValidation, Tasks
  <2> QED
    BY <2>1 DEF Informed
<1>5. CASE ReadNodes
  <2>1. /\ task.pc = "asked" /\ task'.pc = "nodes" /\ task'.rest = GapRows
        /\ task'.asked = task.asked /\ task'.stale = task.stale
    BY <1>1, <1>5 DEF ReadNodes, Tasks
  <2> QED
    BY <1>2, <2>1 DEF Informed
<1>6. CASE ReadRegulations
  <2>1. /\ task.pc = "nodes" /\ task'.pc \in {"publish", "gaps"} /\ task'.market = Market(markets)
        /\ task'.asked = task.asked /\ task'.stale = task.stale /\ task'.rest = task.rest
    BY <1>1, <1>6 DEF ReadRegulations, Tasks
  <2> SUFFICES ASSUME ~task'.stale
               PROVE  /\ task'.rest = GapRows' /\ task'.market = Market(markets)'
                      /\ \A s \in Suppliers :
                           task'.asked[s] = IF ToAsk(GapRows \ task.rest, s)' THEN 1 ELSE 0
    BY <2>1 DEF Informed
  <2>2. task.rest = GapRows /\ task.asked = [s \in Suppliers |-> 0]
    BY <2>1 DEF Informed
  <2>3. GapRows' \ task'.rest = {}
    BY <1>2, <2>1, <2>2
  <2>4. \A s \in Suppliers : ~ToAsk(GapRows \ task.rest, s)'
    BY <2>3 DEF ToAsk
  <2> QED
    BY <1>2, <2>1, <2>2, <2>4
<1>7. ASSUME NEW node \in task.rest, PublishGap(node) PROVE Informed'
  <2>1. task'.stale = task.stale /\ task'.pc = "publish"
    BY <1>1, <1>7 DEF PublishGap, Tasks
  <2> SUFFICES ASSUME ~task'.stale
               PROVE  /\ task'.market = Market(markets)' /\ task'.rest \subseteq GapRows'
                      /\ \A s \in Suppliers :
                           task'.asked[s] = IF ToAsk(GapRows \ task.rest, s)' THEN 1 ELSE 0
    BY <2>1 DEF Informed
  <2>2. /\ task'.market = Market(markets)
        /\ task'.rest \subseteq GapRows
        /\ \A s \in Suppliers :
             task'.asked[s] = IF ToAsk(GapRows \ task.rest, s)
                                 \/ /\ s = node.supplier /\ Missing(node, task.market) # {}
                                    /\ task.targets = {} \/ s \in task.targets
                              THEN 1 ELSE 0
        /\ task'.market = task.market /\ task'.targets = task.targets
        /\ GapRows \ task'.rest = (GapRows \ task.rest) \cup {node}
    BY <1>7, <2>1, PublishInformed
  <2>3. ASSUME NEW s \in Suppliers
        PROVE  ToAsk(GapRows \ task.rest, s)' <=>
                 \/ ToAsk(GapRows \ task.rest, s)
                 \/ /\ s = node.supplier /\ Missing(node, task.market) # {}
                    /\ task.targets = {} \/ s \in task.targets
    BY <1>2, <2>2 DEF ToAsk
  <2> QED
    BY <1>2, <2>2, <2>3
<1>8. CASE SumEdges
  <2>1. /\ task.pc = "gaps" /\ task'.pc = "edges" /\ task'.stale = task.stale
        /\ task'.ok = (Gapless /\ (\E node \in task.rest : ~node.root) /\ EdgesValid)
    BY <1>1, <1>8 DEF SumEdges, Tasks
  <2> SUFFICES ASSUME ~task'.stale, task'.ok PROVE Complete
    BY <1>2, <2>1 DEF Informed
  <2>2. task.rest = GapRows /\ task.market = Market(markets)
    BY <2>1 DEF Informed
  <2> QED
    BY <2>1, <2>2 DEF Gapless, Complete
<1>9. CASE SumTiers
  <2>1. CASE task.ok /\ TiersValid
    <3>1. task.pc = "edges" /\ task'.pc = "tell" /\ task'.stale = task.stale
      <4>1. task' = [task EXCEPT !.pc = "tell"] /\ task.pc = "edges"
        BY <1>9, <2>1 DEF SumTiers
      <4> QED
        BY <1>1, <4>1 DEF Tasks
    <3> QED
      BY <1>2, <2>1, <3>1 DEF Informed
  <2>2. CASE ~(task.ok /\ TiersValid)
    <3>1. task' = NoTask
      BY <1>9, <2>2 DEF SumTiers
    <3> QED
      BY <1>3, <3>1
  <2> QED
    BY <2>1, <2>2
<1>10. CASE Finish \/ Fail
  BY <1>3, <1>10 DEF Finish, Fail
<1> QED
  BY <1>4, <1>5, <1>6, <1>7, <1>8, <1>9, <1>10 DEF Read

MapInv == MapTyped /\ Levelled /\ Informed

LEMMA MapInductive == MapSpec => []MapInv
<1>1. MapInit => MapInv
  <2>1. MapInit => Informed
    BY NoTaskType DEF MapInit, Informed
  <2> QED
    BY <2>1, MapInitTyped, MapInitLevelled DEF MapInv
<1>2. ASSUME MapInv, [MapNext]_mapVars PROVE MapInv'
  <2>1. MapTyped' /\ Levelled'
    BY <1>2, MapNextTyped DEF MapInv
  <2>2. CASE Read
    BY <1>2, <2>1, <2>2, ReaderInformed DEF MapInv
  <2>3. CASE Change
    BY <1>2, <2>1, <2>3, ChangeInformed DEF MapInv
  <2>4. CASE UNCHANGED mapVars
    <3>1. UNCHANGED map /\ task' = task
      BY <2>4 DEF mapVars
    <3>2. GapRows' = GapRows /\ Market(markets)' = Market(markets) /\ (Complete => Complete')
      BY <3>1, SameMap
    <3>3. \A s \in Suppliers : ToAsk(GapRows \ task.rest, s)' <=> ToAsk(GapRows \ task.rest, s)
      BY <3>1, <3>2 DEF ToAsk
    <3>4. Informed'
      BY <1>2, <3>1, <3>2, <3>3 DEF MapInv, Informed
    <3> QED
      BY <2>1, <3>4 DEF MapInv
  <2> QED
    BY <1>2, <2>2, <2>3, <2>4
       DEF MapNext, Read, RegisterEdge, DeclareEdge, InsertEdge, Verify, SetField, ConfirmMap, ConfirmPool,
           SetMapStatus, SetShare, CreateBatch
<1> QED
  BY <1>1, <1>2, PTL DEF MapSpec

\* notify_final_validation_ready tells the prime of a complete map only if, of
\* any map, everyone on the way down has everything and the edges are whole, or
\* the map was changed while it was read.
THEOREM NotToldEarlyCorrect == MapSpec => []NotToldEarly
<1>1. ASSUME MapInv PROVE NotToldEarly
  <2> SUFFICES ASSUME task.pc = "tell", ~task.stale
               PROVE  /\ Supplying # Roots
                      /\ \A s \in Supplying \ Roots : ~Lacks(s)
                      /\ EdgesValid
    BY DEF NotToldEarly, EdgesValid
  <2>1. IsFiniteSet(edges) /\ edges \subseteq MapEdges /\ Levelled /\ markets \subseteq {"EU", "KR", "US"}
    BY <1>1 DEF MapInv, MapTyped, MapTypeOK
  <2>2. Complete
    BY <1>1 DEF MapInv, Informed
  <2>3. PICK n \in GapRows : ~n.root
    BY <2>2 DEF Complete
  <2>4. n.supplier \in Supplying /\ n.supplier \notin Roots
    BY <2>1, <2>3, GapRowsAre
  <2>5. ASSUME NEW s \in Supplying, s \notin Roots PROVE ~Lacks(s)
    <3>1. PICK m \in GapRows : m.supplier = s
      BY <2>1, GapRowsAre
    <3>2. m.root = (m.supplier \in Roots) /\ m.has = held[m.supplier]
      BY <2>1, GapRowsAre
    <3>3. Missing(m, Market(markets)) = {}
      BY <2>2, <2>5, <3>1, <3>2 DEF Complete
    <3> QED
      BY <2>1, <3>1, <3>2, <3>3, MissingIsLacking
  <2> QED
    BY <2>2, <2>4, <2>5 DEF Complete
<1> QED
  BY <1>1, MapInductive, PTL

\* trigger_gap_data_requests asks each supplier that lacks something once, on
\* however many levels of however large a map it is, and nobody else, unless the
\* map was changed while it was read.
THEOREM AskedOnceCorrect == MapSpec => []AskedOnce
<1>1. ASSUME MapInv PROVE AskedOnce
  <2> SUFFICES ASSUME task.pc = "publish", task.rest = {}, ~task.stale, NEW s \in Suppliers
               PROVE  task.asked[s] = IF /\ s \in Supplying /\ Lacks(s)
                                         /\ task.targets = {} \/ s \in task.targets
                                      THEN 1 ELSE 0
    BY DEF AskedOnce
  <2>1. IsFiniteSet(edges) /\ edges \subseteq MapEdges /\ Levelled /\ markets \subseteq {"EU", "KR", "US"}
    BY <1>1 DEF MapInv, MapTyped, MapTypeOK
  <2>2. /\ task.market = Market(markets)
        /\ task.asked[s] = IF ToAsk(GapRows \ task.rest, s) THEN 1 ELSE 0
    BY <1>1 DEF MapInv, Informed
  <2>3. GapRows \ task.rest = GapRows
    OBVIOUS
  <2>4. \A n \in GapRows : Missing(n, Market(markets)) # {} <=> Lacks(n.supplier)
    BY <2>1, GapRowsAre, MissingIsLacking
  <2>5. ToAsk(GapRows, s) <=> /\ s \in Supplying /\ Lacks(s)
                              /\ task.targets = {} \/ s \in task.targets
    BY <2>1, <2>2, <2>4, GapRowsAre DEF ToAsk
  <2> QED
    BY <2>2, <2>3, <2>5
<1> QED
  BY <1>1, MapInductive, PTL

-----------------------------------------------------------------------------
(* Sums over finite sets, as the folds of the modules compute them         *)

\* The recursion of a fold that adds v over the subsets of S.
Adds(h, S, v) ==
    h = [s \in SUBSET S |-> IF s = {} THEN 0
                            ELSE v[CHOOSE x \in s : TRUE] + h[s \ {CHOOSE x \in s : TRUE}]]

LEMMA SmallerSubset ==
    ASSUME NEW S, IsFiniteSet(S), NEW s \in SUBSET S
    PROVE  /\ IsFiniteSet(s) /\ Cardinality(s) \in Nat /\ Cardinality(s) <= Cardinality(S)
           /\ Cardinality(s) = 0 <=> s = {}
           /\ \A x \in s : s \ {x} \in SUBSET S /\ Cardinality(s \ {x}) = Cardinality(s) - 1
<1>1. IsFiniteSet(s) /\ Cardinality(s) <= Cardinality(S)
  BY FS_Subset
<1>2. Cardinality(s) \in Nat /\ (Cardinality(s) = 0 <=> s = {})
  BY <1>1, FS_CardinalityType, FS_EmptySet
<1>3. \A x \in s : Cardinality(s \ {x}) = Cardinality(s) - 1
  BY <1>1, FS_RemoveElement
<1> QED
  BY <1>1, <1>2, <1>3

\* Such a fold exists.
LEMMA AddsExists ==
    ASSUME NEW S, IsFiniteSet(S), NEW v
    PROVE  \E h : Adds(h, S, v)
<1> DEFINE N == Cardinality(S)
           D(n) == {s \in SUBSET S : Cardinality(s) <= n}
           c(s) == CHOOSE x \in s : TRUE
           Sol(n, h) == h = [s \in D(n) |-> IF s = {} THEN 0 ELSE v[c(s)] + h[s \ {c(s)}]]
           M == {n \in 0 .. N : \E h : Sol(n, h)}
<1>0. N \in Nat
  BY FS_CardinalityType
<1>1. \A s \in SUBSET S : /\ Cardinality(s) \in Nat /\ Cardinality(s) <= N
                          /\ Cardinality(s) = 0 <=> s = {}
                          /\ s # {} => /\ c(s) \in s /\ s \ {c(s)} \in SUBSET S
                                       /\ Cardinality(s \ {c(s)}) = Cardinality(s) - 1
  BY SmallerSubset
<1>2. 0 \in M
  <2>1. ASSUME NEW s \in D(0) PROVE s = {}
    <3>1. s \in SUBSET S /\ Cardinality(s) \in Nat /\ Cardinality(s) <= 0
      BY <1>1
    <3>2. Cardinality(s) = 0
      BY <3>1
    <3> QED
      BY <1>1, <3>1, <3>2
  <2>2. Sol(0, [s \in D(0) |-> 0])
    BY <2>1
  <2> HIDE DEF Sol
  <2> QED
    BY <1>0, <2>2
<1>3. ASSUME NEW n \in 0 .. N, n \in M, n < N PROVE n + 1 \in M
  <2>1. PICK h : Sol(n, h)
    BY <1>3
  <2> DEFINE g == [s \in D(n + 1) |-> IF s = {} THEN 0 ELSE v[c(s)] + h[s \ {c(s)}]]
  <2> HIDE DEF c
  <2>2. \A s \in D(n) : s \in D(n + 1) /\ g[s] = h[s]
    <3> SUFFICES ASSUME NEW s \in D(n) PROVE s \in D(n + 1) /\ g[s] = h[s]
      OBVIOUS
    <3>1. s \in D(n + 1)
      <4>1. s \in SUBSET S /\ Cardinality(s) <= n
        OBVIOUS
      <4>2. Cardinality(s) \in Nat
        BY <1>1, <4>1, Zenon
      <4>4. n \in Nat
        <5> HIDE DEF N
        <5> QED
          BY <1>0
      <4>3. \A i, k \in Nat : i <= k => i <= k + 1
        OBVIOUS
      <4> QED
        BY <4>1, <4>2, <4>3, <4>4
    <3>2. h[s] = IF s = {} THEN 0 ELSE v[c(s)] + h[s \ {c(s)}]
      BY <2>1
    <3> QED
      BY <3>1, <3>2
  <2>3. \A s \in D(n + 1) : s # {} => s \ {c(s)} \in D(n)
    BY <1>0, <1>1
  <2>4. Sol(n + 1, g)
    <3> SUFFICES ASSUME NEW s \in D(n + 1)
                 PROVE  g[s] = IF s = {} THEN 0 ELSE v[c(s)] + g[s \ {c(s)}]
      OBVIOUS
    <3>1. g[s] = IF s = {} THEN 0 ELSE v[c(s)] + h[s \ {c(s)}]
      OBVIOUS
    <3> HIDE DEF g, D
    <3> QED
      BY <2>2, <2>3, <3>1
  <2> HIDE DEF Sol, g
  <2> QED
    BY <1>0, <1>3, <2>4
<1>4. N \in M
  <2> HIDE DEF M, N
  <2>1. 0 .. N \subseteq M
    BY <1>0, <1>2, <1>3, UpTo
  <2> QED
    BY <1>0, <2>1
<1>5. PICK h : Sol(N, h)
  <2> HIDE DEF Sol
  <2> QED
    BY <1>4
<1>6. D(N) = SUBSET S
  BY <1>1
<1>7. Adds(h, S, v)
  <2> HIDE DEF D
  <2> QED
    BY <1>5, <1>6 DEF Adds
<1> QED
  BY <1>7

\* The order of the elements does not matter.
LEMMA AddsAny ==
    ASSUME NEW S, IsFiniteSet(S), NEW v, \A x \in S : v[x] \in Nat, NEW h, Adds(h, S, v)
    PROVE  \A s \in SUBSET S : h[s] \in Nat /\ \A x \in s : h[s] = v[x] + h[s \ {x}]
<1> DEFINE N == Cardinality(S)
           Free(s) == h[s] \in Nat /\ \A x \in s : h[s] = v[x] + h[s \ {x}]
           M == {n \in 0 .. N : \A s \in SUBSET S : Cardinality(s) <= n => Free(s)}
<1>0. N \in Nat
  BY FS_CardinalityType
<1>1. \A s \in SUBSET S : /\ Cardinality(s) \in Nat /\ Cardinality(s) <= N
                          /\ Cardinality(s) = 0 <=> s = {}
                          /\ \A x \in s : s \ {x} \in SUBSET S /\ Cardinality(s \ {x}) = Cardinality(s) - 1
  BY SmallerSubset
<1>2. ASSUME NEW s \in SUBSET S
      PROVE  h[s] = IF s = {} THEN 0 ELSE v[CHOOSE x \in s : TRUE] + h[s \ {CHOOSE x \in s : TRUE}]
  BY DEF Adds
<1>3. 0 \in M
  <2>1. Free({})
    <3>1. h[{}] = 0
      BY <1>2
    <3> QED
      BY <3>1
  <2>2. \A s \in SUBSET S : Cardinality(s) <= 0 => s = {}
    <3>1. \A k \in Nat : k <= 0 => k = 0
      OBVIOUS
    <3> QED
      BY <1>1, <3>1
  <2> HIDE DEF Free, N
  <2> QED
    BY <1>0, <2>1, <2>2
<1>4. ASSUME NEW n \in 0 .. N, n \in M, n < N PROVE n + 1 \in M
  <2>0. n \in Nat /\ n + 1 \in 0 .. N
    <3> HIDE DEF N
    <3> QED
      BY <1>0, <1>4
  <2>1. ASSUME NEW s \in SUBSET S, Cardinality(s) = n + 1 PROVE Free(s)
    <3>0. s # {} /\ s \in SUBSET S
      BY <1>1, <2>0, <2>1
    <3>1. PICK c \in s : h[s] = v[c] + h[s \ {c}]
      BY <1>2, <3>0
    <3>6. \A k \in Nat : (k + 1) - 1 = k
      OBVIOUS
    <3>2. \A x \in s : s \ {x} \in SUBSET S /\ Cardinality(s \ {x}) = n
      <4> HIDE DEF N
      <4>1. \A x \in s : s \ {x} \in SUBSET S /\ Cardinality(s \ {x}) = (n + 1) - 1
        BY <1>1, <2>1
      <4> QED
        BY <2>0, <3>6, <4>1
    <3>7. \A r \in SUBSET S : Cardinality(r) <= n => Free(r)
      <4> HIDE DEF Free
      <4> QED
        BY <1>4
    <3>3. \A x \in s : Free(s \ {x})
      <4> HIDE DEF Free, N
      <4> QED
        BY <2>0, <3>2, <3>7
    <3>4. h[s \ {c}] \in Nat /\ v[c] \in Nat /\ h[s] \in Nat
      <4>1. h[s \ {c}] \in Nat
        BY <3>3
      <4>2. v[c] \in Nat
        OBVIOUS
      <4> HIDE DEF Free, N
      <4> QED
        BY <3>1, <4>1, <4>2
    <3>5. ASSUME NEW x \in s, x # c PROVE h[s] = v[x] + h[s \ {x}]
      <4>1. x \in s \ {c} /\ c \in s \ {x} /\ (s \ {c}) \ {x} = (s \ {x}) \ {c}
        BY <3>5
      <4>2. h[s \ {c}] = v[x] + h[(s \ {c}) \ {x}]
        BY <3>3, <4>1
      <4>3. h[s \ {x}] = v[c] + h[(s \ {x}) \ {c}]
        BY <3>3, <4>1
      <4>4. v[x] \in Nat /\ v[c] \in Nat
        OBVIOUS
      <4>5. h[(s \ {x}) \ {c}] \in Nat
        <5>1. (s \ {x}) \ {c} \in SUBSET S /\ Cardinality((s \ {x}) \ {c}) = Cardinality(s \ {x}) - 1
          BY <1>1, <3>2, <4>1
        <5>2. Cardinality(s \ {x}) = n
          BY <3>2
        <5>3. \A k \in Nat : k - 1 <= k
          OBVIOUS
        <5>4. Cardinality((s \ {x}) \ {c}) <= n
          BY <2>0, <5>1, <5>2, <5>3
        <5> QED
          BY <3>7, <5>1, <5>4
      <4>6. \A a, b, z \in Nat : b + (a + z) = a + (b + z)
        OBVIOUS
      <4>7. h[s] = v[c] + (v[x] + h[(s \ {x}) \ {c}])
        BY <3>1, <4>1, <4>2, Zenon
      <4>8. v[c] + (v[x] + h[(s \ {x}) \ {c}]) = v[x] + (v[c] + h[(s \ {x}) \ {c}])
        BY <4>4, <4>5, <4>6
      <4> QED
        BY <4>3, <4>7, <4>8, Zenon
    <3> QED
      BY <3>1, <3>4, <3>5
  <2>2. ASSUME NEW s \in SUBSET S, Cardinality(s) <= n + 1 PROVE Free(s)
    <3>1. Cardinality(s) \in Nat
      BY <1>1
    <3>2. \A k \in Nat : k <= n + 1 => k <= n \/ k = n + 1
      BY <2>0
    <3>3. Cardinality(s) <= n \/ Cardinality(s) = n + 1
      BY <2>2, <3>1, <3>2
    <3> HIDE DEF Free
    <3> QED
      BY <1>4, <2>1, <3>3
  <2> HIDE DEF Free
  <2> QED
    BY <2>0, <2>2
<1>5. 0 .. N \subseteq M
  <2> HIDE DEF M, N
  <2> QED
    BY <1>0, <1>3, <1>4, UpTo
<1>6. \A s \in SUBSET S : Free(s)
  <2> HIDE DEF Free
  <2> QED
    BY <1>1, <1>5
<1> QED
  BY <1>6

\* What Sum and MapThenSumSet compute are such folds.
LEMMA SumIs ==
    ASSUME NEW g, IsFiniteSet(DOMAIN g)
    PROVE  \E h : Adds(h, DOMAIN g, g) /\ Sum(g) = h[DOMAIN g]
<1>1. \E h : Adds(h, DOMAIN g, g)
  BY AddsExists
<1>2. Adds(CHOOSE h : Adds(h, DOMAIN g, g), DOMAIN g, g)
  BY <1>1, Zenon
<1>3. Sum(g) = (CHOOSE h : Adds(h, DOMAIN g, g))[DOMAIN g]
  BY DEF Sum, FoldFunction, FoldFunctionOnSet, MapThenFoldSet, Adds
<1> QED
  BY <1>2, <1>3

LEMMA AmountsAre ==
    ASSUME NEW T, IsFiniteSet(T)
    PROVE  \E h : /\ Adds(h, T, [c \in T |-> c.amount])
                  /\ MapThenSumSet(LAMBDA c : c.amount, T) = h[T]
<1> DEFINE v == [c \in T |-> c.amount]
<1>1. \E h : Adds(h, T, v)
  BY AddsExists
<1>2. Adds(CHOOSE h : Adds(h, T, v), T, v)
  BY <1>1, Zenon
<1>3. MapThenSumSet(LAMBDA c : c.amount, T) = (CHOOSE h : Adds(h, T, v))[T]
  BY DEF MapThenSumSet, MapThenFoldSet, Adds
<1> QED
  BY <1>2, <1>3

\* A sum over the images, each k times as much, is k times the sum.
LEMMA AddsScaled ==
    ASSUME NEW S, IsFiniteSet(S), NEW g, \A x \in S : g[x] \in Nat, NEW k \in Nat,
           NEW R, \A x, y \in S : R[x] = R[y] => x = y,
           NEW T, \A y : y \in T <=> \E x \in S : y = R[x], IsFiniteSet(T), NEW u, \A x \in S : u[R[x]] = k * g[x],
           NEW h, Adds(h, S, g), NEW i, Adds(i, T, u)
    PROVE  h[S] \in Nat /\ i[T] = k * h[S]
<1> DEFINE N == Cardinality(S)
           Img(s) == {R[x] : x \in s}
           M == {n \in 0 .. N : \A s \in SUBSET S : Cardinality(s) = n => i[Img(s)] = k * h[s]}
<1>0. N \in Nat
  BY FS_CardinalityType
<1>1. \A s \in SUBSET S : h[s] \in Nat /\ \A x \in s : h[s] = g[x] + h[s \ {x}]
  BY AddsAny
<1>2. \A t \in SUBSET T : \A y \in t : i[t] = u[y] + i[t \ {y}]
  <2>1. \A y \in T : u[y] \in Nat
    <3>1. \A a \in Nat : k * a \in Nat
      OBVIOUS
    <3>2. ASSUME NEW y \in T PROVE u[y] \in Nat
      <4>1. PICK x \in S : y = R[x]
        OBVIOUS
      <4>2. u[y] = k * g[x] /\ g[x] \in Nat
        BY <4>1
      <4> QED
        BY <3>1, <4>2
    <3> QED
      BY <3>2
  <2>2. \A t \in SUBSET T : i[t] \in Nat /\ \A y \in t : i[t] = u[y] + i[t \ {y}]
    BY <2>1, AddsAny
  <2> QED
    BY <2>2
<1>3. \A s \in SUBSET S : /\ Cardinality(s) \in Nat /\ Cardinality(s) <= N
                          /\ Cardinality(s) = 0 <=> s = {}
                          /\ \A x \in s : s \ {x} \in SUBSET S /\ Cardinality(s \ {x}) = Cardinality(s) - 1
  BY SmallerSubset
<1>4. 0 \in M
  <2>1. h[{}] = 0 /\ i[{}] = 0
    BY DEF Adds
  <2>2. i[Img({})] = k * h[{}]
    <3>1. Img({}) = {}
      OBVIOUS
    <3>2. k * 0 = 0
      OBVIOUS
    <3> QED
      BY <2>1, <3>1, <3>2
  <2>3. \A s \in SUBSET S : Cardinality(s) = 0 => s = {}
    BY <1>3
  <2>4. \A s \in SUBSET S : Cardinality(s) = 0 => i[Img(s)] = k * h[s]
    BY <2>2, <2>3, Zenon
  <2>5. 0 \in 0 .. N
    <3> HIDE DEF N
    <3> QED
      BY <1>0
  <2> HIDE DEF Img, N
  <2> QED
    BY <2>4, <2>5, Zenon
<1>5. ASSUME NEW n \in 0 .. N, n \in M, n < N PROVE n + 1 \in M
  <2>0. n \in Nat /\ n + 1 \in 0 .. N /\ (n + 1) - 1 = n /\ n + 1 # 0
    <3> HIDE DEF N
    <3> QED
      BY <1>0, <1>5
  <2>1. ASSUME NEW s \in SUBSET S, Cardinality(s) = n + 1 PROVE i[Img(s)] = k * h[s]
    <3>1. PICK x \in s : TRUE
      BY <1>3, <2>0, <2>1
    <3>2. s \ {x} \in SUBSET S /\ Cardinality(s \ {x}) = n
      BY <1>3, <2>0, <2>1, Zenon
    <3>3. i[Img(s \ {x})] = k * h[s \ {x}]
      <4> HIDE DEF Img
      <4> QED
        BY <1>5, <3>2
    <3>4. Img(s) \in SUBSET T /\ R[x] \in Img(s) /\ Img(s) \ {R[x]} = Img(s \ {x})
      OBVIOUS
    <3> HIDE DEF Img
    <3>5. i[Img(s)] = k * g[x] + k * h[s \ {x}]
      <4>1. i[Img(s)] = u[R[x]] + i[Img(s) \ {R[x]}]
        BY <1>2, <3>4
      <4>2. u[R[x]] = k * g[x]
        OBVIOUS
      <4> QED
        BY <3>3, <3>4, <4>1, <4>2, Zenon
    <3>6. h[s] = g[x] + h[s \ {x}]
      BY <1>1
    <3>7. g[x] \in Nat /\ h[s \ {x}] \in Nat
      BY <1>1, <3>2
    <3>8. \A a, b \in Nat : k * a + k * b = k * (a + b)
      OBVIOUS
    <3>9. k * g[x] + k * h[s \ {x}] = k * (g[x] + h[s \ {x}])
      BY <3>7, <3>8
    <3> QED
      BY <3>5, <3>6, <3>9, Zenon
  <2> HIDE DEF Img
  <2> QED
    BY <2>0, <2>1
<1>6. 0 .. N \subseteq M
  <2> HIDE DEF M, N
  <2> QED
    BY <1>0, <1>4, <1>5, UpTo
<1>7. i[Img(S)] = k * h[S]
  <2> HIDE DEF Img
  <2>1. N \in M
    <3> HIDE DEF N, M
    <3> QED
      BY <1>0, <1>6
  <2> QED
    BY <2>1
<1>8. Img(S) = T
  OBVIOUS
<1> QED
  BY <1>1, <1>7, <1>8

-----------------------------------------------------------------------------
(* The product along a path                                                *)

\* The recursion of WholeTo.
Powers(p, n) == p = [k \in 0 .. n |-> IF k = 0 THEN 1 ELSE p[k - 1] * Whole]

LEMMA PowersExist ==
    ASSUME NEW N \in Nat
    PROVE  \E p : Powers(p, N)
<1> DEFINE M == {n \in 0 .. N : \E p : Powers(p, n)}
<1>1. 0 \in M
  <2>1. Powers([k \in 0 .. 0 |-> 1], 0)
    <3>1. \A k \in 0 .. 0 : k = 0
      OBVIOUS
    <3> QED
      BY <3>1 DEF Powers
  <2> QED
    BY <2>1
<1>2. ASSUME NEW n \in 0 .. N, n \in M, n < N PROVE n + 1 \in M
  <2>1. PICK p : Powers(p, n)
    BY <1>2
  <2> DEFINE g == [k \in 0 .. n + 1 |-> IF k = 0 THEN 1 ELSE p[k - 1] * Whole]
  <2>2. \A k \in 0 .. n : g[k] = p[k]
    BY <2>1 DEF Powers
  <2>3. \A k \in 0 .. n + 1 : g[k] = IF k = 0 THEN 1 ELSE g[k - 1] * Whole
    <3>1. \A k \in 0 .. n + 1 : g[k] = IF k = 0 THEN 1 ELSE p[k - 1] * Whole
      OBVIOUS
    <3>2. \A k \in 0 .. n + 1 : k # 0 => k - 1 \in 0 .. n
      OBVIOUS
    <3> HIDE DEF g
    <3> QED
      BY <2>2, <3>1, <3>2
  <2>4. Powers(g, n + 1)
    BY <2>3 DEF Powers
  <2> HIDE DEF g
  <2> QED
    BY <1>2, <2>4
<1> QED
  <2> HIDE DEF M
  <2>1. 0 .. N \subseteq M
    BY <1>1, <1>2, UpTo
  <2>2. N \in M
    BY <2>1
  <2> QED
    BY <2>2 DEF M

LEMMA PowersAgree ==
    ASSUME NEW n \in Nat, NEW m \in Nat, n <= m,
           NEW p, Powers(p, n), NEW q, Powers(q, m)
    PROVE  \A k \in 0 .. n : p[k] \in Nat /\ p[k] = q[k]
<1> DEFINE M == {k \in 0 .. n : p[k] \in Nat /\ p[k] = q[k]}
<1>1. 0 \in M
  BY DEF Powers
<1>2. ASSUME NEW k \in 0 .. n, k \in M, k < n PROVE k + 1 \in M
  <2>1. k + 1 \in 0 .. n /\ k + 1 \in 0 .. m /\ k + 1 # 0 /\ (k + 1) - 1 = k
    BY <1>2
  <2>2. p[k + 1] = p[k] * Whole /\ q[k + 1] = q[k] * Whole
    BY <2>1 DEF Powers
  <2>3. \A a \in Nat : a * Whole \in Nat
    BY MapBounds
  <2> QED
    BY <1>2, <2>1, <2>2, <2>3
<1> QED
  <2> HIDE DEF M
  <2>1. 0 .. n \subseteq M
    BY <1>1, <1>2, UpTo
  <2> QED
    BY <2>1 DEF M

LEMMA WholeToIs ==
    /\ WholeTo(0) = 1
    /\ \A n \in Nat : WholeTo(n) \in Nat /\ WholeTo(n + 1) = WholeTo(n) * Whole
<1>1. ASSUME NEW n \in Nat PROVE \E p : Powers(p, n) /\ WholeTo(n) = p[n]
  <2>1. \E p : Powers(p, n)
    BY PowersExist
  <2>2. Powers(CHOOSE p : Powers(p, n), n)
    BY <2>1, Zenon
  <2>3. WholeTo(n) = (CHOOSE p : Powers(p, n))[n]
    BY DEF WholeTo, Powers
  <2> QED
    BY <2>2, <2>3
<1>2. WholeTo(0) = 1
  <2>1. PICK p : Powers(p, 0) /\ WholeTo(0) = p[0]
    BY <1>1
  <2> QED
    BY <2>1 DEF Powers
<1>3. ASSUME NEW n \in Nat PROVE WholeTo(n) \in Nat /\ WholeTo(n + 1) = WholeTo(n) * Whole
  <2>0. n + 1 \in Nat /\ n <= n + 1 /\ n \in 0 .. n /\ n + 1 \in 0 .. n + 1 /\ n + 1 # 0 /\ (n + 1) - 1 = n
    OBVIOUS
  <2>1. PICK p : Powers(p, n) /\ WholeTo(n) = p[n]
    BY <1>1
  <2>2. PICK q : Powers(q, n + 1) /\ WholeTo(n + 1) = q[n + 1]
    BY <1>1, <2>0
  <2>3. p[n] \in Nat /\ p[n] = q[n]
    BY <2>0, <2>1, <2>2, PowersAgree
  <2>4. q[n + 1] = q[n] * Whole
    BY <2>0, <2>2 DEF Powers
  <2> QED
    BY <2>1, <2>2, <2>3, <2>4
<1> QED
  BY <1>2, <1>3

LEMMA MaxIn ==
    ASSUME NEW N \in Nat, NEW s \in SUBSET (1 .. N), s # {}
    PROVE  Max(s) \in s
<1> DEFINE Top(r) == \E x \in r : \A y \in r : x >= y
           M == {n \in 0 .. N : \A r \in SUBSET (1 .. n) : r # {} => Top(r)}
<1>1. 0 \in M
  <2>1. 0 \in 0 .. N
    OBVIOUS
  <2>2. 1 .. 0 = {}
    OBVIOUS
  <2>3. \A r \in SUBSET (1 .. 0) : r = {}
    BY <2>2
  <2>4. \A r \in SUBSET (1 .. 0) : r # {} => Top(r)
    BY <2>3, Zenon
  <2> HIDE DEF Top
  <2> QED
    BY <2>1, <2>4, Zenon
<1>2. ASSUME NEW n \in 0 .. N, n \in M, n < N PROVE n + 1 \in M
  <2>1. ASSUME NEW r \in SUBSET (1 .. n + 1), r # {} PROVE Top(r)
    <3>1. CASE n + 1 \in r
      BY <3>1
    <3>2. CASE n + 1 \notin r
      <4>1. r \in SUBSET (1 .. n)
        BY <3>2
      <4> HIDE DEF Top
      <4> QED
        BY <1>2, <2>1, <4>1
    <3> QED
      BY <3>1, <3>2
  <2> HIDE DEF Top
  <2> QED
    BY <1>2, <2>1
<1>3. 0 .. N \subseteq M
  <2> HIDE DEF M
  <2> QED
    BY <1>1, <1>2, UpTo
<1>4. Top(s)
  <2>1. N \in M
    <3> HIDE DEF M
    <3> QED
      BY <1>3
  <2> HIDE DEF Top
  <2> QED
    BY <2>1
<1> QED
  BY <1>4, Zenon DEF Max

\* The recursion of Cumulative.
Products(h, p) ==
    h = [s \in SUBSET DOMAIN p |-> IF s = {} THEN 1 ELSE h[s \ {Max(s)}] * Total(p[Max(s)])]

\* Where every edge passes the whole on, so does the path.
LEMMA CumulativeIsWhole ==
    ASSUME NEW p, NEW n \in Nat, DOMAIN p = 1 .. n, \A i \in 1 .. n : Total(p[i]) = Whole
    PROVE  Cumulative(p) = WholeTo(n)
<1> DEFINE D == DOMAIN p
           g == [s \in SUBSET D |-> WholeTo(Cardinality(s))]
<1>0. IsFiniteSet(D) /\ Cardinality(D) = n
  <2>1. IsFiniteSet(1 .. n) /\ Cardinality(1 .. n) = IF 1 > n THEN 0 ELSE n - 1 + 1
    BY FS_Interval
  <2>2. Cardinality(1 .. n) = n
    BY <2>1
  <2> QED
    BY <2>1, <2>2
<1>1. \A s \in SUBSET D : /\ Cardinality(s) \in Nat /\ Cardinality(s) <= n
                          /\ Cardinality(s) = 0 <=> s = {}
                          /\ \A x \in s : s \ {x} \in SUBSET D /\ Cardinality(s \ {x}) = Cardinality(s) - 1
  BY <1>0, SmallerSubset
<1>2. \A s \in SUBSET D : s # {} => Max(s) \in s /\ Total(p[Max(s)]) = Whole
  <2>1. \A s \in SUBSET (1 .. n) : s # {} => Max(s) \in s
    BY MaxIn
  <2> QED
    BY <2>1
<1>3. ASSUME NEW s \in SUBSET D, s # {}
      PROVE  /\ s \ {Max(s)} \in SUBSET D
             /\ Cardinality(s \ {Max(s)}) + 1 = Cardinality(s) /\ Cardinality(s \ {Max(s)}) \in Nat
  <2>1. Max(s) \in s
    BY <1>2, <1>3
  <2>2. s \ {Max(s)} \in SUBSET D /\ Cardinality(s \ {Max(s)}) = Cardinality(s) - 1
    BY <1>1, <2>1, Zenon
  <2>3. Cardinality(s \ {Max(s)}) \in Nat /\ Cardinality(s) \in Nat
    BY <1>1, <2>2, Zenon
  <2>4. \A a, b \in Nat : a = b - 1 => a + 1 = b
    OBVIOUS
  <2> QED
    BY <2>2, <2>3, <2>4
<1> HIDE DEF D
<1>4. Products(g, p)
  <2>1. ASSUME NEW s \in SUBSET D
        PROVE  WholeTo(Cardinality(s)) = IF s = {} THEN 1 ELSE g[s \ {Max(s)}] * Total(p[Max(s)])
    <3>1. CASE s = {}
      BY <1>1, <3>1, WholeToIs
    <3>2. CASE s # {}
      <4>1. g[s \ {Max(s)}] = WholeTo(Cardinality(s \ {Max(s)}))
        BY <1>3, <3>2
      <4>2. WholeTo(Cardinality(s)) = WholeTo(Cardinality(s \ {Max(s)})) * Whole
        BY <1>3, <3>2, WholeToIs
      <4> QED
        BY <1>2, <3>2, <4>1, <4>2
    <3> QED
      BY <3>1, <3>2
  <2>2. g = [s \in SUBSET D |-> IF s = {} THEN 1 ELSE g[s \ {Max(s)}] * Total(p[Max(s)])]
    BY <2>1, Zenon
  <2> HIDE DEF g
  <2> QED
    BY <2>2 DEF Products, D
<1>5. Products(CHOOSE h : Products(h, p), p)
  <2> HIDE DEF g
  <2> QED
    BY <1>4, Zenon
<1>6. Cumulative(p) = (CHOOSE h : Products(h, p))[DOMAIN p]
  BY DEF Cumulative, FoldLeft, MapThenFoldSet, Products
<1> DEFINE h == CHOOSE h : Products(h, p)
           M == {k \in 0 .. n : \A s \in SUBSET D : Cardinality(s) = k => h[s] = WholeTo(k)}
<1>7. \A s \in SUBSET D : h[s] = IF s = {} THEN 1 ELSE h[s \ {Max(s)}] * Total(p[Max(s)])
  <2> HIDE DEF h
  <2>1. Products(h, p)
    BY <1>5 DEF h
  <2> QED
    BY <2>1 DEF Products, D
<1> HIDE DEF h
<1>8. 0 \in M
  <2>1. \A s \in SUBSET D : Cardinality(s) = 0 => s = {}
    BY <1>1
  <2>2. {} \in SUBSET D /\ 0 \in 0 .. n
    OBVIOUS
  <2>3. h[{}] = 1
    BY <1>7, <2>2, Zenon
  <2> QED
    BY <2>1, <2>2, <2>3, WholeToIs, Zenon
<1>9. ASSUME NEW k \in 0 .. n, k \in M, k < n PROVE k + 1 \in M
  <2>1. ASSUME NEW s \in SUBSET D, Cardinality(s) = k + 1 PROVE h[s] = WholeTo(k + 1)
    <3>1. k \in Nat /\ k + 1 # 0
      OBVIOUS
    <3>2. s # {}
      BY <1>1, <2>1, <3>1
    <3>3. \A a \in Nat : a + 1 = k + 1 => a = k
      OBVIOUS
    <3>4. s \ {Max(s)} \in SUBSET D /\ Cardinality(s \ {Max(s)}) = k
      BY <1>3, <2>1, <3>2, <3>3
    <3>5. h[s \ {Max(s)}] = WholeTo(k)
      BY <1>9, <3>4
    <3> QED
      BY <1>2, <1>7, <3>1, <3>2, <3>5, WholeToIs
  <2> QED
    BY <1>9, <2>1
<1>10. n \in M
  <2> HIDE DEF M
  <2>1. 0 .. n \subseteq M
    BY <1>8, <1>9, UpTo
  <2> QED
    BY <2>1
<1>11. h[D] = WholeTo(n)
  BY <1>0, <1>10
<1> QED
  BY <1>6, <1>11 DEF h, D

\* On a map with valid sums every edge passes the whole on.
LEMMA TotalIsWhole ==
    ASSUME EdgesValid, \A f \in Factories : share[f] = Null, NEW e
    PROVE  /\ Total(e) = Whole
           /\ DOMAIN Split(e) # {} => e \in DOMAIN ratio /\ Split(e) = ratio[e]
<1>1. CASE e \in DOMAIN ratio
  <2>1. Split(e) = ratio[e]
    BY <1>1 DEF Split
  <2> QED
    BY <1>1, <2>1 DEF Total, EdgesValid
<1>2. CASE e \notin DOMAIN ratio
  <2>1. {g \in Factories : Owner[g] = e.child /\ share[g] # Null} = {}
    OBVIOUS
  <2>2. DOMAIN Split(e) = {}
    BY <1>2, <2>1 DEF Split
  <2> QED
    BY <2>2 DEF Total
<1> QED
  BY <1>1, <1>2

\* The contributions along one path: the rows of its last edge.
LEMMA ContributionsOf ==
    ASSUME NEW p \in Tree, ~IsCycle(p), Contributors(Last(p)) \subseteq Factories \cup {Null}
    PROVE  {c \in Contributions : c.path = p} =
             {[path |-> p, factory |-> f, amount |-> Contribution(p, f)] : f \in Contributors(Last(p))}
<1> DEFINE Entry(q, f) == [path |-> q, factory |-> f, amount |-> Contribution(q, f)]
<1>1. ASSUME NEW c, c \in Contributions, c.path = p
      PROVE  \E f \in Contributors(Last(p)) : c = Entry(p, f)
  <2>1. PICK x \in Tree \X (Factories \cup {Null}) :
          ~IsCycle(x[1]) /\ x[2] \in Contributors(Last(x[1])) /\ c = Entry(x[1], x[2])
    BY <1>1, Zenon DEF Contributions
  <2>2. x[1] = p
    BY <1>1, <2>1
  <2> QED
    BY <2>1, <2>2
<1>2. ASSUME NEW f \in Contributors(Last(p))
      PROVE  Entry(p, f) \in Contributions /\ Entry(p, f).path = p
  <2>1. <<p, f>> \in Tree \X (Factories \cup {Null}) /\ <<p, f>>[1] = p /\ <<p, f>>[2] = f
    OBVIOUS
  <2>2. <<p, f>> \in {y \in Tree \X (Factories \cup {Null}) :
                        ~IsCycle(y[1]) /\ y[2] \in Contributors(Last(y[1]))}
    BY <2>1
  <2>3. Entry(p, f) = Entry(<<p, f>>[1], <<p, f>>[2])
    BY <2>1
  <2> HIDE DEF Entry
  <2>4. Contributions = {Entry(x[1], x[2]) : x \in {y \in Tree \X (Factories \cup {Null}) :
                        ~IsCycle(y[1]) /\ y[2] \in Contributors(Last(y[1]))}}
    BY DEF Contributions, Entry
  <2>5. Entry(p, f).path = p
    BY DEF Entry
  <2> QED
    BY <2>2, <2>3, <2>4, <2>5
<1> HIDE DEF Entry
<1>3. {c \in Contributions : c.path = p} = {Entry(p, f) : f \in Contributors(Last(p))}
  BY <1>1, <1>2
<1> QED
  BY <1>3 DEF Entry

\* The amounts along one path make the whole of what it passes on.
LEMMA AmountsMakeWhole ==
    ASSUME MapTyped, EdgesValid, \A f \in Factories : share[f] = Null,
           NEW p \in Tree, ~IsCycle(p),
           NEW n \in Nat, Cumulative(p) = WholeTo(n + 1)
    PROVE  MapThenSumSet(LAMBDA c : c.amount, {c \in Contributions : c.path = p}) = WholeTo(n + 1)
<1> DEFINE e == Last(p)
           F == Contributors(e)
           w == WholeTo(n)
           R == [f \in F |-> [path |-> p, factory |-> f, amount |-> Contribution(p, f)]]
           T == {c \in Contributions : c.path = p}
           u == [c \in T |-> c.amount]
<1>1. w \in Nat /\ WholeTo(n + 1) = w * Whole
  BY WholeToIs
<1>2. /\ Total(e) = Whole
      /\ DOMAIN Split(e) # {} => e \in DOMAIN ratio /\ Split(e) = ratio[e]
  BY TotalIsWhole
<1>3. DOMAIN Split(e) # {} => DOMAIN ratio[e] \subseteq Factories /\ \A f \in DOMAIN ratio[e] : ratio[e][f] \in Nat
  <2>1. MapTypeOK
    BY DEF MapTyped
  <2>2. Whole \in Nat
    BY MapBounds
  <2>3. \A m \in Nat : \A k \in 0 .. m : k \in Nat
    OBVIOUS
  <2>4. e \in DOMAIN ratio => /\ DOMAIN ratio[e] \subseteq Factories
                              /\ \A f \in DOMAIN ratio[e] : ratio[e][f] \in 0 .. Whole
    BY <2>1 DEF MapTypeOK
  <2> QED
    BY <1>2, <2>2, <2>3, <2>4
<1>4. F \subseteq Factories \cup {Null} /\ IsFiniteSet(F)
  <2>1. IsFiniteSet(Factories)
    BY MapAssumption
  <2>2. CASE DOMAIN Split(e) = {}
    <3>1. F = {Null}
      BY <2>2 DEF Contributors
    <3> QED
      BY <3>1, FS_Singleton
  <2>3. CASE DOMAIN Split(e) # {}
    <3>1. F = DOMAIN ratio[e]
      BY <1>2, <2>3 DEF Contributors
    <3>2. F \subseteq Factories
      BY <1>3, <2>3, <3>1
    <3> HIDE DEF F
    <3>3. IsFiniteSet(F)
      BY <2>1, <3>2, FS_Subset
    <3> QED
      BY <3>2, <3>3
  <2> QED
    BY <2>2, <2>3
<1>5. T = {[path |-> p, factory |-> f, amount |-> Contribution(p, f)] : f \in F}
  BY <1>4, ContributionsOf
<1> HIDE DEF T, F
<1>6. /\ \A f \in F : R[f].factory = f /\ R[f].amount = Contribution(p, f)
      /\ \A y : y \in T <=> \E f \in F : y = R[f]
  BY <1>5
<1> HIDE DEF R
<1>7. IsFiniteSet(T)
  <2>1. R \in Surjection(F, T)
    BY <1>5, <1>6 DEF Surjection, R
  <2> QED
    BY <1>4, <2>1, FS_Surjection
<1>8. PICK i : Adds(i, T, u) /\ MapThenSumSet(LAMBDA c : c.amount, T) = i[T]
  BY <1>7, AmountsAre
<1>9. \A f \in F : u[R[f]] = Contribution(p, f)
  BY <1>6
<1> HIDE DEF u
<1>10. CASE DOMAIN Split(e) = {}
  <2>1. F = {Null}
    BY <1>10 DEF Contributors, F
  <2>2. Contribution(p, Null) = WholeTo(n + 1)
    BY DEF Contribution
  <2>3. T = {R[Null]} /\ u[R[Null]] = WholeTo(n + 1)
    BY <1>6, <1>9, <2>1, <2>2
  <2>4. WholeTo(n + 1) \in Nat
    BY WholeToIs
  <2>5. i[T] = u[R[Null]] + i[T \ {R[Null]}]
    <3>1. \A x \in T : u[x] \in Nat
      BY <2>3, <2>4
    <3>2. \A s \in SUBSET T : i[s] \in Nat /\ \A x \in s : i[s] = u[x] + i[s \ {x}]
      <4>1. Adds(i, T, u)
        BY <1>8, Zenon
      <4> QED
        BY <1>7, <3>1, <4>1, AddsAny
    <3>3. T \in SUBSET T /\ R[Null] \in T
      BY <2>3
    <3> QED
      BY <3>2, <3>3, Zenon
  <2>6. i[{}] = 0
    BY <1>8 DEF Adds
  <2>7. i[T] = WholeTo(n + 1) + 0
    BY <2>3, <2>5, <2>6
  <2>8. \A a \in Nat : a + 0 = a
    OBVIOUS
  <2> QED
    BY <1>8, <2>4, <2>7, <2>8 DEF T
<1>11. CASE DOMAIN Split(e) # {}
  <2> DEFINE g == ratio[e]
  <2>1. /\ e \in DOMAIN ratio /\ Split(e) = g /\ F = DOMAIN g /\ F \subseteq Factories
        /\ \A f \in F : g[f] \in Nat
    BY <1>2, <1>3, <1>11 DEF Contributors, F
  <2>2. Sum(g) = Whole
    BY <2>1 DEF EdgesValid
  <2>3. ASSUME NEW f \in F PROVE Contribution(p, f) = w * g[f]
    <3>1. f # Null
      BY <2>1, MapBounds
    <3>2. Contribution(p, f) = ((w * Whole) * g[f]) \div Whole
      BY <1>1, <1>2, <2>1, <3>1 DEF Contribution
    <3>3. \A a, r \in Nat, k \in Nat \ {0} : ((a * k) * r) \div k = a * r
      OBVIOUS
    <3> HIDE DEF w, g
    <3> QED
      BY <1>1, <2>1, <3>2, <3>3, MapBounds
  <2> HIDE DEF w, g
  <2>4. PICK h : Adds(h, F, g) /\ Sum(g) = h[F]
    BY <1>4, <2>1, SumIs
  <2>5. \A x, y \in F : R[x] = R[y] => x = y
    BY <1>6
  <2>6. \A f \in F : u[R[f]] = w * g[f]
    BY <1>9, <2>3
  <2>7. i[T] = w * h[F]
    BY <1>1, <1>4, <1>6, <1>7, <1>8, <2>1, <2>4, <2>5, <2>6, AddsScaled
  <2> QED
    BY <1>1, <1>8, <2>2, <2>4, <2>7 DEF T
<1> QED
  BY <1>10, <1>11

\* get_supply_chain_map: whatever the factories, their shares and the depth of
\* the map, on a map whose sums are valid the query succeeds and the factories
\* of an edge bring the whole of what the product needs of it.
THEOREM ValidMakesWholeCorrect == MapSpec => []ValidMakesWhole
<1>1. ASSUME MapInv PROVE ValidMakesWhole
  <2> SUFFICES ASSUME EdgesValid, \A f \in Factories : share[f] = Null, NEW p \in Tree, ~IsCycle(p)
               PROVE  /\ Total(Last(p)) > 0
                      /\ MapThenSumSet(LAMBDA c : c.amount, {c \in Contributions : c.path = p})
                           = WholeTo(Len(p))
    BY DEF ValidMakesWhole, Readable
  <2>1. \A d : Total(d) = Whole
    BY TotalIsWhole
  <2>2. IsFiniteSet(edges) /\ MapTyped
    BY <1>1 DEF MapInv, MapTyped
  <2>3. IsPath("tree", p)
    BY <2>2, UnfoldedIsPath DEF Tree
  <2>4. Len(p) \in Nat /\ DOMAIN p = 1 .. Len(p) /\ 1 \in 1 .. Len(p)
    BY <2>3, PathElements
  <2>5. Cumulative(p) = WholeTo(Len(p))
    BY <2>1, <2>4, CumulativeIsWhole
  <2>6. PICK n \in Nat : Len(p) = n + 1
    <3>1. \A k \in Nat : 1 \in 1 .. k => k - 1 \in Nat /\ k = (k - 1) + 1
      OBVIOUS
    <3> QED
      BY <2>4, <3>1
  <2>7. MapThenSumSet(LAMBDA c : c.amount, {c \in Contributions : c.path = p}) = WholeTo(Len(p))
    BY <2>2, <2>5, <2>6, AmountsMakeWhole
  <2> QED
    BY <2>1, <2>7, MapBounds
<1> QED
  BY <1>1, MapInductive, PTL
=============================================================================
