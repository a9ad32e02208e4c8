-------------------------- MODULE BomVersionProofs --------------------------
(***************************************************************************)
(* BomVersion for every set of versions, parts and callers.  An activation *)
(* that was not overtaken holds every active version but its own, and one  *)
(* that would bring a version back knows it: both are kept by the commits  *)
(* of the others, which say whom they overtake.  The tree is followed down *)
(* level by level, by induction over the tiers of the catalogue.           *)
(***************************************************************************)
EXTENDS BomVersion, FiniteSetTheorems, WellFoundedInduction, TLAPS

\* What a call has by the time it is there.
Shape ==
    \A c \in Callers :
        LET k == call[c] IN
        /\ k.pc # "idle" => k.target \in {"active", "deprecated"}
        /\ k.pc \in {"read", "seen"} => k.target = "active"
        /\ k.pc = "written" => k.version \in k.held

\* An activation that did not miss another one saw, and then held, all active
\* versions but its own.
OthersSeen ==
    \A c \in Callers :
        LET k == call[c] IN
        k.target = "active" /\ ~k.missed =>
            \A v \in Versions \ {k.version} :
                status[v] = "active" =>
                    /\ k.pc = "seen" => v \in k.seen
                    /\ k.pc \in {"ready", "written"} => v \in k.held

\* An activation whose version is deprecated knows it.
RevivalKnown ==
    \A c \in Callers :
        LET k == call[c] IN
        k.pc # "idle" /\ k.target = "active" /\ ~k.revives => status[k.version] # "deprecated"

IInv == TypeOK /\ Shape /\ OthersSeen /\ RevivalKnown /\ OneActive

-----------------------------------------------------------------------------

LEMMA InitInv == Init => IInv
  <1> SUFFICES ASSUME Init PROVE IInv
    OBVIOUS
  <1> USE DEF Init
  <1>1. \A c \in Callers : call[c] = Idle
    OBVIOUS
  <1>2. Idle \in Calls
    BY DEF Idle, Calls, Status
  <1>3. TypeOK
    BY <1>1, <1>2 DEF TypeOK, Idle, Status
  <1>4. Shape /\ RevivalKnown /\ OthersSeen
    BY <1>1 DEF Shape, RevivalKnown, OthersSeen, Idle
  <1>5. OneActive
    BY DEF OneActive
  <1>6. QED
    BY <1>3, <1>4, <1>5 DEF IInv

\* One call moves, with a status that stays: what the invariant asks of it.
Moves(c, k) ==
    /\ k \in Calls
    /\ k.pc # "idle" => k.version \in Versions /\ k.target \in {"active", "deprecated"}
    /\ k.pc \in {"read", "seen"} => k.target = "active"
    /\ k.pc = "written" => k.version \in k.held
    /\ k.target = "active" /\ ~k.missed =>
         \A v \in Versions \ {k.version} :
             status[v] = "active" =>
                 /\ k.pc = "seen" => v \in k.seen
                 /\ k.pc \in {"ready", "written"} => v \in k.held
    /\ k.pc # "idle" /\ k.target = "active" /\ ~k.revives => status[k.version] # "deprecated"

LEMMA Move ==
    ASSUME IInv, NEW c \in Callers, NEW k, Moves(c, k), call' = [call EXCEPT ![c] = k],
           calls' \in Nat, UNCHANGED <<status, parent, items, overlap>>
    PROVE  IInv'
  <1>1. \A d \in Callers : call'[d] = IF d = c THEN k ELSE call[d]
    BY DEF IInv, TypeOK
  <1>2. TypeOK'
    BY <1>1 DEF IInv, TypeOK, Moves
  <1>3. Shape'
    BY <1>1 DEF IInv, Shape, Moves
  <1>4. OthersSeen'
    BY <1>1 DEF IInv, OthersSeen, Moves
  <1>5. RevivalKnown'
    BY <1>1 DEF IInv, RevivalKnown, Moves
  <1>6. OneActive'
    BY DEF IInv, OneActive
  <1>7. QED
    BY <1>2, <1>3, <1>4, <1>5, <1>6 DEF IInv

LEMMA ReadVersionInv ==
    ASSUME IInv, NEW c \in Callers, NEW v \in Versions, NEW target \in {"active", "deprecated"},
           ReadVersion(c, v, target)
    PROVE  IInv'
  <1> DEFINE k == [Idle EXCEPT !.pc = IF target = "active" THEN "read" ELSE "ready",
                               !.target = target, !.version = v]
  <1>1. status[v] # "deprecated"
    BY DEF ReadVersion, Transitions, IInv, TypeOK, Status
  <1>2. Moves(c, k)
    BY <1>1 DEF Moves, Calls, Idle, Status
  <1>3. calls' \in Nat
    BY DEF ReadVersion, IInv, TypeOK
  <1>4. call' = [call EXCEPT ![c] = k] /\ UNCHANGED <<status, parent, items, overlap>>
    BY DEF ReadVersion
  <1> HIDE DEF k
  <1>5. QED
    BY <1>2, <1>3, <1>4, Move

LEMMA SeeOthersInv ==
    ASSUME IInv, NEW c \in Callers, SeeOthers(c)
    PROVE  IInv'
  <1> DEFINE k == [call[c] EXCEPT !.pc = "seen",
                     !.seen = {v \in Versions \ {call[c].version} : status[v] = "active"}]
  <1>1. call[c] \in Calls /\ call[c].pc = "read" /\ call[c].version \in Versions
    BY DEF SeeOthers, IInv, TypeOK
  <1>2. call[c].target = "active"
    BY <1>1 DEF IInv, Shape
  <1>3. ~call[c].revives => status[call[c].version] # "deprecated"
    BY <1>1, <1>2 DEF IInv, RevivalKnown
  <1>4. Moves(c, k)
    BY <1>1, <1>2, <1>3 DEF Moves, Calls
  <1>5. calls' \in Nat
    BY DEF SeeOthers, IInv, TypeOK
  <1>6. call' = [call EXCEPT ![c] = k] /\ UNCHANGED <<status, parent, items, overlap>>
    BY DEF SeeOthers, IInv, TypeOK
  <1> HIDE DEF k
  <1>7. QED
    BY <1>4, <1>5, <1>6, Move

LEMMA LockOthersInv ==
    ASSUME IInv, NEW c \in Callers, LockOthers(c)
    PROVE  IInv'
  <1> DEFINE k == [call[c] EXCEPT !.pc = "ready",
                     !.held = {v \in call[c].seen : status[v] = "active"}]
  <1>1. call[c] \in Calls /\ call[c].pc = "seen" /\ call[c].version \in Versions
    BY DEF LockOthers, IInv, TypeOK
  <1>2. call[c].target = "active"
    BY <1>1 DEF IInv, Shape
  <1>3. ~call[c].revives => status[call[c].version] # "deprecated"
    BY <1>1, <1>2 DEF IInv, RevivalKnown
  <1>4. ~call[c].missed =>
          \A v \in Versions \ {call[c].version} : status[v] = "active" => v \in call[c].seen
    BY <1>1, <1>2 DEF IInv, OthersSeen
  <1>5. Moves(c, k)
    BY <1>1, <1>2, <1>3, <1>4 DEF Moves, Calls
  <1>6. calls' \in Nat
    BY DEF LockOthers, IInv, TypeOK
  <1>7. call' = [call EXCEPT ![c] = k] /\ UNCHANGED <<status, parent, items, overlap>>
    BY DEF LockOthers, IInv, TypeOK
  <1> HIDE DEF k
  <1>8. QED
    BY <1>5, <1>6, <1>7, Move

LEMMA WriteInv ==
    ASSUME IInv, NEW c \in Callers, Write(c)
    PROVE  IInv'
  <1> DEFINE k == [call[c] EXCEPT !.pc = "written", !.held = @ \cup {call[c].version}]
  <1>1. call[c] \in Calls /\ call[c].pc = "ready" /\ call[c].version \in Versions
    BY DEF Write, IInv, TypeOK
  <1>2. call[c].target \in {"active", "deprecated"}
    BY <1>1 DEF IInv, Shape
  <1>3. call[c].target = "active" /\ ~call[c].revives => status[call[c].version] # "deprecated"
    BY <1>1 DEF IInv, RevivalKnown
  <1>4. call[c].target = "active" /\ ~call[c].missed =>
          \A v \in Versions \ {call[c].version} : status[v] = "active" => v \in call[c].held
    BY <1>1 DEF IInv, OthersSeen
  <1>5. Moves(c, k)
    BY <1>1, <1>2, <1>3, <1>4 DEF Moves, Calls
  <1>6. calls' \in Nat
    BY DEF Write, IInv, TypeOK
  <1>7. call' = [call EXCEPT ![c] = k] /\ UNCHANGED <<status, parent, items, overlap>>
    BY DEF Write, IInv, TypeOK
  <1> HIDE DEF k
  <1>8. QED
    BY <1>5, <1>6, <1>7, Move

LEMMA AbortInv ==
    ASSUME IInv, NEW c \in Callers, Abort(c)
    PROVE  IInv'
  <1>1. Moves(c, Idle)
    BY DEF Moves, Calls, Idle, Status
  <1>2. calls' \in Nat
    BY DEF Abort, IInv, TypeOK
  <1>3. call' = [call EXCEPT ![c] = Idle] /\ UNCHANGED <<status, parent, items, overlap>>
    BY DEF Abort
  <1>4. QED
    BY <1>1, <1>2, <1>3, Move

-----------------------------------------------------------------------------

\* What the commit of c does to a version.
LEMMA CommitStatus ==
    ASSUME IInv, NEW c \in Callers, Commit(c)
    PROVE  /\ call[c] \in Calls /\ call[c].version \in call[c].held
           /\ call[c].target \in {"active", "deprecated"}
           /\ \A v \in Versions :
                status'[v] = IF v = call[c].version THEN call[c].target
                             ELSE IF v \in call[c].held THEN "deprecated" ELSE status[v]
  <1>1. call[c] \in Calls /\ call[c].pc = "written"
    BY DEF Commit, IInv, TypeOK
  <1>2. call[c].version \in call[c].held /\ call[c].target \in {"active", "deprecated"}
    BY <1>1 DEF IInv, Shape
  <1>3. QED
    BY <1>1, <1>2 DEF Commit

\* What it leaves of the other calls.
LEMMA CommitCalls ==
    ASSUME IInv, NEW c \in Callers, Commit(c), NEW d \in Callers \ {c}
    PROVE  /\ call'[d] \in Calls
           /\ call'[d].pc = call[d].pc /\ call'[d].target = call[d].target
           /\ call'[d].version = call[d].version
           /\ call'[d].seen = call[d].seen /\ call'[d].held = call[d].held
           /\ call[d].missed => call'[d].missed
           /\ call[d].revives => call'[d].revives
           /\ (/\ call[c].target = "active" /\ call[d].target = "active"
               /\ call[d].pc \in {"seen", "ready", "written"}
               /\ call[d].version # call[c].version) => call'[d].missed
           /\ (/\ call[d].target = "active"
               /\ call[d].version \in (IF call[c].target = "active"
                                         THEN call[c].held \ {call[c].version}
                                         ELSE call[c].held)) => call'[d].revives
  <1>1. call[d] \in Calls
    BY DEF IInv, TypeOK
  <1>2. call'[d] = Overtaken(c, d)
    BY DEF Commit
  <1>3. QED
    BY <1>1, <1>2 DEF Overtaken, Calls

LEMMA CommitInv ==
    ASSUME IInv, NEW c \in Callers, Commit(c)
    PROVE  IInv'
  <1> DEFINE k == call[c]
  <1>1. /\ k \in Calls /\ k.version \in k.held
        /\ k.target \in {"active", "deprecated"}
        /\ \A v \in Versions :
             status'[v] = IF v = k.version THEN k.target
                          ELSE IF v \in k.held THEN "deprecated" ELSE status[v]
    BY CommitStatus
  <1>2. call'[c] = Idle
    BY DEF Commit
  <1>3. k.pc = "written"
    BY DEF Commit
  <1>4. TypeOK'
    <2>1. status' \in [Versions -> Status]
      BY <1>1 DEF Commit, IInv, TypeOK, Status
    <2>2. Idle \in Calls
      BY DEF Idle, Calls, Status
    <2>3. call' \in [Callers -> Calls]
      BY <1>2, <2>2, CommitCalls DEF Commit
    <2>4. ASSUME NEW d \in Callers, call'[d].pc # "idle" PROVE call'[d].version \in Versions
      <3>1. d # c
        BY <1>2, <2>4 DEF Idle
      <3>2. call'[d].pc = call[d].pc /\ call'[d].version = call[d].version
        BY <3>1, CommitCalls
      <3>3. QED
        BY <2>4, <3>2 DEF IInv, TypeOK
    <2>5. overlap' \in BOOLEAN
      <3>1. overlap \in BOOLEAN /\ k.missed \in BOOLEAN
        BY <1>1 DEF IInv, TypeOK, Calls
      <3>2. QED
        BY <3>1 DEF Commit
    <2>6. UNCHANGED <<parent, items, calls>>
      BY DEF Commit
    <2>7. QED
      BY <2>1, <2>3, <2>4, <2>5, <2>6 DEF TypeOK, IInv
  <1>5. Shape'
    <2> SUFFICES ASSUME NEW d \in Callers
                 PROVE  /\ call'[d].pc # "idle" => call'[d].target \in {"active", "deprecated"}
                        /\ call'[d].pc \in {"read", "seen"} => call'[d].target = "active"
                        /\ call'[d].pc = "written" => call'[d].version \in call'[d].held
      BY DEF Shape
    <2>1. CASE d = c
      BY <1>2, <2>1 DEF Idle
    <2>2. CASE d # c
      <3>1. /\ call'[d].pc = call[d].pc /\ call'[d].target = call[d].target
            /\ call'[d].version = call[d].version /\ call'[d].held = call[d].held
        BY <2>2, CommitCalls
      <3>2. QED
        BY <3>1 DEF IInv, Shape
    <2>3. QED
      BY <2>1, <2>2
  <1>6. OthersSeen'
    <2> SUFFICES ASSUME NEW d \in Callers, call'[d].target = "active", ~call'[d].missed,
                        NEW v \in Versions, v # call'[d].version, status'[v] = "active"
                 PROVE  /\ call'[d].pc = "seen" => v \in call'[d].seen
                        /\ call'[d].pc \in {"ready", "written"} => v \in call'[d].held
      BY DEF OthersSeen
    <2>1. d # c
      BY <1>2 DEF Idle
    <2>2. /\ call'[d].pc = call[d].pc /\ call'[d].target = call[d].target
          /\ call'[d].version = call[d].version
          /\ call'[d].seen = call[d].seen /\ call'[d].held = call[d].held
          /\ call[d].missed => call'[d].missed
          /\ (/\ call[c].target = "active" /\ call[d].target = "active"
              /\ call[d].pc \in {"seen", "ready", "written"}
              /\ call[d].version # call[c].version) => call'[d].missed
      BY <2>1, CommitCalls
    <2>3. CASE call[d].pc \in {"seen", "ready", "written"}
      <3>1. ~(k.target = "active" /\ v = k.version)
        BY <2>2, <2>3
      <3>2. status[v] = "active"
        BY <1>1, <3>1
      <3>3. QED
        BY <2>2, <3>2 DEF IInv, OthersSeen
    <2>4. QED
      BY <2>2, <2>3
  <1>7. RevivalKnown'
    <2> SUFFICES ASSUME NEW d \in Callers, call'[d].pc # "idle", call'[d].target = "active",
                        ~call'[d].revives
                 PROVE  status'[call'[d].version] # "deprecated"
      BY DEF RevivalKnown
    <2>1. d # c
      BY <1>2 DEF Idle
    <2>2. /\ call'[d].pc = call[d].pc /\ call'[d].target = call[d].target
          /\ call'[d].version = call[d].version
          /\ call[d].revives => call'[d].revives
          /\ (/\ call[d].target = "active"
              /\ call[d].version \in (IF call[c].target = "active"
                                        THEN call[c].held \ {call[c].version}
                                        ELSE call[c].held)) => call'[d].revives
      BY <2>1, CommitCalls
    <2>3. call[d].version \in Versions /\ status[call[d].version] # "deprecated"
      BY <2>2 DEF IInv, TypeOK, RevivalKnown
    <2>4. QED
      BY <1>1, <2>2, <2>3
  <1>8. OneActive'
    <2> SUFFICES ASSUME ~overlap', NEW v \in Versions, NEW w \in Versions,
                        status'[v] = "active", status'[w] = "active"
                 PROVE  v = w
      BY DEF OneActive
    <2>1. ~overlap /\ ~k.missed
      BY DEF Commit
    <2>2. CASE k.target = "active"
      <3>1. \A u \in Versions \ {k.version} : status[u] = "active" => u \in k.held
        BY <1>3, <2>1, <2>2 DEF IInv, OthersSeen
      <3>2. QED
        BY <1>1, <3>1
    <2>3. CASE k.target = "deprecated"
      <3>1. status[v] = "active" /\ status[w] = "active"
        BY <1>1, <2>3
      <3>2. QED
        BY <2>1, <3>1 DEF IInv, OneActive
    <2>4. QED
      BY <1>1, <2>2, <2>3
  <1>9. QED
    BY <1>4, <1>5, <1>6, <1>7, <1>8 DEF IInv

LEMMA StepInv == IInv /\ [Next]_vars => IInv'
  <1> SUFFICES ASSUME IInv, [Next]_vars PROVE IInv'
    OBVIOUS
  <1>1. CASE UNCHANGED vars
    BY <1>1 DEF vars, IInv, TypeOK, Shape, OthersSeen, RevivalKnown, OneActive
  <1>2. CASE Next
    BY <1>2, ReadVersionInv, SeeOthersInv, LockOthersInv, WriteInv, CommitInv, AbortInv DEF Next
  <1>3. QED
    BY <1>1, <1>2

LEMMA Inductive == Spec => []IInv
  BY InitInv, StepInv, PTL DEF Spec

-----------------------------------------------------------------------------

\* The state is what TypeOK says, whatever requests overlap.
THEOREM TypeCorrect == Spec => []TypeOK
  <1>1. IInv => TypeOK
    BY DEF IInv
  <1>2. QED
    BY <1>1, Inductive, PTL

\* A product has one active version unless an activation was committed behind
\* the back of another one, for any number of requests and versions.
THEOREM OneActiveCorrect == Spec => []OneActive
  <1>1. IInv => OneActive
    BY DEF IInv
  <1>2. QED
    BY <1>1, Inductive, PTL

\* A deprecated version comes back only by an activation that had read it
\* before it was deprecated.
THEOREM DeprecatedStaysCorrect == Spec => DeprecatedStays
  <1> DEFINE A == \A v \in Versions :
                    status[v] = "deprecated" /\ status'[v] # "deprecated" =>
                       \E c \in Callers : call[c].pc = "written" /\ call[c].version = v /\ call[c].revives
  <1>1. ASSUME IInv, Next PROVE A
    <2> SUFFICES ASSUME NEW v \in Versions, status[v] = "deprecated", status'[v] # "deprecated"
                 PROVE  \E c \in Callers :
                          call[c].pc = "written" /\ call[c].version = v /\ call[c].revives
      OBVIOUS
    <2>1. PICK c \in Callers : Commit(c)
      BY <1>1 DEF Next, ReadVersion, SeeOthers, LockOthers, Write, Abort
    <2>2. /\ call[c].target \in {"active", "deprecated"}
          /\ \A u \in Versions :
               status'[u] = IF u = call[c].version THEN call[c].target
                            ELSE IF u \in call[c].held THEN "deprecated" ELSE status[u]
      BY <1>1, <2>1, CommitStatus
    <2>3. v = call[c].version /\ call[c].target = "active"
      BY <2>2
    <2>4. call[c].pc = "written"
      BY <2>1 DEF Commit
    <2>5. call[c].revives
      BY <1>1, <2>3, <2>4 DEF IInv, RevivalKnown
    <2>6. QED
      BY <2>3, <2>4, <2>5
  <1>2. ASSUME IInv, [Next]_vars PROVE [A]_vars
    BY <1>1, <1>2
  <1> HIDE DEF A
  <1>3. Spec => [][A]_vars
    BY <1>2, Inductive, PTL DEF Spec
  <1>4. QED
    BY <1>3 DEF DeprecatedStays, A

-----------------------------------------------------------------------------
(* The tree                                                                *)

\* Induction: a set of numbers has a least one.
LEMMA NatOrder == IsWellFoundedOn({x \in Nat \X Nat : x[1] < x[2]}, Nat)
  BY NatLessThanWellFounded, Zenon DEF OpToRel

LEMMA Least == ASSUME NEW T, T \subseteq Nat, T # {} PROVE \E n \in T : \A m \in T : n <= m
<1>1. PICK n \in T : \A m \in T : <<m, n>> \notin {x \in Nat \X Nat : x[1] < x[2]}
  BY WFMin, NatOrder
<1>2. \A m \in T : ~(m < n)
  BY <1>1
<1> QED
  BY <1>2

\* What holds of 0 and of the successors up to N holds up to N.
LEMMA UpTo ==
    ASSUME NEW S, NEW N \in Nat, 0 \in S, \A n \in 0 .. N : n \in S /\ n < N => n + 1 \in S
    PROVE  0 .. N \subseteq S
<1> DEFINE T == (0 .. N) \ S
<1> SUFFICES ASSUME T # {} PROVE FALSE
  OBVIOUS
<1>0. T \subseteq Nat
  OBVIOUS
<1>1. PICK n \in T : \A m \in T : n <= m
  <2> HIDE DEF T
  <2> QED BY <1>0, Least
<1>2. n # 0 /\ n - 1 \in 0 .. N
  BY <1>1
<1>3. n - 1 \in S
  BY <1>1, <1>2
<1> QED
  BY <1>1, <1>2, <1>3

\* f is F iterated from base.
Iterates(f, X, base, F, N) ==
    f \in [0 .. N -> X] /\ f[0] = base /\ \A n \in 1 .. N : f[n] = F[f[n - 1]]

LEMMA Recursion ==
    ASSUME NEW X, NEW base, base \in X, NEW F, F \in [X -> X], NEW N, N \in Nat
    PROVE  \E f : Iterates(f, X, base, F, N)
<1> USE DEF Iterates
<1> DEFINE Sol(n, f) == Iterates(f, X, base, F, n)
           S == {n \in 0 .. N : \E f : Sol(n, f)}
<1>1. 0 \in S
  <2>1. Sol(0, [m \in 0 .. 0 |-> base])
    OBVIOUS
  <2> HIDE DEF Sol
  <2> QED
    BY <2>1
<1>2. ASSUME NEW n \in 0 .. N, n \in S, n < N PROVE n + 1 \in S
  <2>1. PICK f : Sol(n, f)
    BY <1>2
  <2> DEFINE g == [m \in 0 .. n + 1 |-> IF m = n + 1 THEN F[f[n]] ELSE f[m]]
  <2>2. Sol(n + 1, g)
    <3>1. g \in [0 .. n + 1 -> X] /\ g[0] = base
      BY <2>1
    <3>2. ASSUME NEW m \in 1 .. n + 1 PROVE g[m] = F[g[m - 1]]
      BY <2>1
    <3> QED
      BY <3>1, <3>2
  <2> HIDE DEF g, Sol
  <2> QED
    BY <2>2, <1>2
<1> HIDE DEF S
<1>3. 0 .. N \subseteq S
  BY <1>1, <1>2, UpTo
<1> QED
  BY <1>3 DEF S

\* What the recursive query computes: its first level, and each from the last.
LevelFacts(v, level) ==
    /\ level \in [0 .. MaxDepth -> SUBSET items[v]]
    /\ level[0] = Anchors(v)
    /\ \A d \in 1 .. MaxDepth : level[d] = Children(v, level[d - 1])

LEMMA LevelIs == ASSUME NEW v PROVE LevelFacts(v, Level(v))
<1> DEFINE X == SUBSET items[v]
           F == [level \in X |-> Children(v, level)]
           Good(f) == f = [d \in 0 .. MaxDepth |-> IF d = 0 THEN Anchors(v) ELSE Children(v, f[d - 1])]
<1>0. MaxDepth \in Nat
  BY BoundsAssumption
<1>1. Anchors(v) \in X /\ F \in [X -> X]
  BY DEF Anchors, Children
<1>2. PICK f : Iterates(f, X, Anchors(v), F, MaxDepth)
  <2> HIDE DEF F, X
  <2> QED
    BY <1>0, <1>1, Recursion
<1>3. \A d \in 1 .. MaxDepth : f[d - 1] \in X /\ f[d] = Children(v, f[d - 1])
  <2>1. F \in [X -> X] /\ \A s \in X : F[s] = Children(v, s)
    BY <1>1
  <2>2. \A d \in 1 .. MaxDepth : d - 1 \in 0 .. MaxDepth
    BY <1>0
  <2> HIDE DEF F, X
  <2> QED BY <1>2, <2>1, <2>2 DEF Iterates
<1>4. Good(f)
  BY <1>0, <1>2, <1>3 DEF Iterates
<1>5. Level(v) = CHOOSE g : Good(g)
  BY DEF Level
<1>6. Good(Level(v))
  <2> HIDE DEF Good
  <2> QED BY <1>4, <1>5
<1>7. Level(v)[0] = Anchors(v) /\ \A d \in 1 .. MaxDepth : Level(v)[d] = Children(v, Level(v)[d - 1])
  BY <1>0, <1>6
<1>8. \A d \in 0 .. MaxDepth : Level(v)[d] \in X
  BY <1>0, <1>7 DEF Anchors, Children
<1> QED
  BY <1>0, <1>6, <1>7, <1>8 DEF LevelFacts

\* The tiers of a catalogue: a part without a parent is the first, any other
\* one below its parent.
TierFacts(up, above) ==
    LET N == Cardinality(Parts) IN
    /\ above \in [0 .. N -> [Parts -> Nat]]
    /\ \A p \in Parts : above[0][p] = 0
    /\ \A n \in 1 .. N, p \in Parts :
         above[n][p] = IF up[p] = Null THEN 1
                       ELSE IF above[n - 1][up[p]] = 0 THEN 0 ELSE above[n - 1][up[p]] + 1

LEMMA TiersAre ==
    ASSUME NEW up, up \in [Parts -> Parts \cup {Null}]
    PROVE  \E above : TierFacts(up, above) /\ Tiers(up) = above[Cardinality(Parts)]
<1> DEFINE N == Cardinality(Parts)
           X == [Parts -> Nat]
           Above(g) == [p \in Parts |-> IF up[p] = Null THEN 1 ELSE IF g[up[p]] = 0 THEN 0 ELSE g[up[p]] + 1]
           F == [g \in X |-> Above(g)]
           Z == [p \in Parts |-> 0]
           Good(f) == f = [n \in 0 .. N |->
                             [p \in Parts |-> IF n = 0 THEN 0
                                              ELSE IF up[p] = Null THEN 1
                                              ELSE IF f[n - 1][up[p]] = 0 THEN 0
                                              ELSE f[n - 1][up[p]] + 1]]
<1>0. N \in Nat
  BY PartsAssumption, FS_CardinalityType
<1>1. Z \in X /\ F \in [X -> X] /\ \A g \in X : F[g] = Above(g)
  <2>1. ASSUME NEW g \in X PROVE Above(g) \in X
    <3> SUFFICES ASSUME NEW p \in Parts
                 PROVE  (IF up[p] = Null THEN 1 ELSE IF g[up[p]] = 0 THEN 0 ELSE g[up[p]] + 1) \in Nat
      OBVIOUS
    <3>1. up[p] # Null => g[up[p]] \in Nat
      OBVIOUS
    <3> QED
      BY <3>1
  <2> QED
    BY <2>1
<1>2. PICK f : Iterates(f, X, Z, F, N)
  <2> HIDE DEF F, X, Z, N
  <2> QED
    BY <1>0, <1>1, Recursion
<1>3. \A n \in 1 .. N : f[n - 1] \in X /\ f[n] = Above(f[n - 1])
  <2>1. \A n \in 1 .. N : n - 1 \in 0 .. N
    BY <1>0
  <2> HIDE DEF F, X, Z, N, Above
  <2> QED
    BY <1>1, <1>2, <2>1 DEF Iterates
<1>4. f[0] = Z /\ f \in [0 .. N -> X]
  BY <1>2 DEF Iterates
<1>5. Good(f)
  <2>1. ASSUME NEW n \in 0 .. N
        PROVE  f[n] = [p \in Parts |-> IF n = 0 THEN 0
                                       ELSE IF up[p] = Null THEN 1
                                       ELSE IF f[n - 1][up[p]] = 0 THEN 0
                                       ELSE f[n - 1][up[p]] + 1]
    <3>1. CASE n = 0
      BY <1>4, <3>1
    <3>2. CASE n # 0
      <4>1. f[n] = Above(f[n - 1])
        BY <1>0, <1>3, <3>2
      <4> QED
        BY <3>2, <4>1
    <3> QED
      BY <3>1, <3>2
  <2> QED
    BY <1>4, <2>1
<1>6. Tiers(up) = (CHOOSE g : Good(g))[N]
  BY DEF Tiers
<1> DEFINE above == CHOOSE g : Good(g)
<1>7. Good(above)
  <2> HIDE DEF Good
  <2> QED
    BY <1>5
<1> HIDE DEF above
<1>8. \A n \in 0 .. N : above[n] =
        [p \in Parts |-> IF n = 0 THEN 0
                         ELSE IF up[p] = Null THEN 1
                         ELSE IF above[n - 1][up[p]] = 0 THEN 0
                         ELSE above[n - 1][up[p]] + 1]
  BY <1>7
<1>9. above[0] = Z /\ \A n \in 1 .. N : above[n] = Above(above[n - 1])
  BY <1>0, <1>8
<1>10. \A n \in 0 .. N : above[n] \in X
  <2> DEFINE S == {n \in 0 .. N : above[n] \in X}
  <2>1. 0 \in S
    BY <1>0, <1>1, <1>9
  <2>2. ASSUME NEW n \in 0 .. N, n \in S, n < N PROVE n + 1 \in S
    <3>1. n + 1 \in 1 .. N /\ n + 1 - 1 = n
      BY <1>0, <2>2
    <3>2. above[n + 1] = Above(above[n])
      <4> HIDE DEF Above
      <4> QED
        BY <1>9, <3>1
    <3>3. above[n + 1] \in X
      <4> HIDE DEF Above, X, F
      <4> QED
        BY <1>1, <2>2, <3>2
    <3> QED
      BY <1>0, <3>1, <3>3
  <2> HIDE DEF S, N
  <2>3. 0 .. N \subseteq S
    BY <1>0, <2>1, <2>2, UpTo
  <2> QED
    BY <2>3 DEF S
<1>11. TierFacts(up, above)
  <2>1. above \in [0 .. N -> X]
    BY <1>7, <1>10
  <2>2. \A q \in Parts : above[0][q] = 0
    BY <1>9
  <2>3. \A n \in 1 .. N, q \in Parts :
          above[n][q] = IF up[q] = Null THEN 1
                        ELSE IF above[n - 1][up[q]] = 0 THEN 0 ELSE above[n - 1][up[q]] + 1
    <3> SUFFICES ASSUME NEW n \in 1 .. N, NEW q \in Parts
                 PROVE  above[n][q] = Above(above[n - 1])[q]
      OBVIOUS
    <3> HIDE DEF Above
    <3> QED
      BY <1>9
  <2> QED
    BY <2>1, <2>2, <2>3 DEF TierFacts
<1> QED
  BY <1>6, <1>11 DEF above

-----------------------------------------------------------------------------

\* The declared parts that have a parent in the catalogue.
Below(v) == {p \in items[v] : HasParent(p)}

\* The catalogue and the declarations stay as they were seeded.
Catalogued ==
    /\ parent \in [Parts -> Parts \cup {Null}]
    /\ items \in [Versions -> SUBSET Parts]
    /\ Catalogue(parent)

\* A part found n levels down has n + 2 tiers at most above and with it, so the
\* last level of the recursion is deep enough for the catalogue.
LEMMA EveryPartReached ==
    ASSUME Catalogued, NEW v, v \in Versions, Below(v) # {}, NEW p, p \in Below(v)
    PROVE  \E d \in 0 .. MaxDepth : p \in Level(v)[d]
<1> DEFINE N == Cardinality(Parts)
           level == Level(v)
<1>0. N \in Nat /\ MaxDepth \in Nat
  BY PartsAssumption, FS_CardinalityType, BoundsAssumption
<1>1. PICK above : TierFacts(parent, above) /\ Tiers(parent) = above[N]
  BY TiersAre DEF Catalogued
<1>2. /\ level[0] = {q \in Below(v) : parent[q] \notin Below(v)}
      /\ \A d \in 1 .. MaxDepth : level[d] = {q \in items[v] : parent[q] \in level[d - 1]}
  BY LevelIs DEF LevelFacts, Anchors, Children, Below
<1>3. ASSUME NEW q \in Below(v), NEW m \in 0 .. N, above[m][q] # 0
      PROVE  /\ m \in 1 .. N /\ m - 1 \in 0 .. N
             /\ parent[q] \in Parts
             /\ above[m - 1][parent[q]] \in Nat \ {0}
             /\ above[m][q] = above[m - 1][parent[q]] + 1
  <2>1. q \in Parts /\ parent[q] \in Parts /\ parent[q] # Null
    BY NullAssumption DEF Below, HasParent, Catalogued
  <2>2. m \in 1 .. N /\ m - 1 \in 0 .. N
    BY <1>0, <1>1, <1>3, <2>1 DEF TierFacts
  <2>3. above[m - 1][parent[q]] \in Nat
    BY <1>1, <2>1, <2>2 DEF TierFacts
  <2>4. above[m][q] = IF above[m - 1][parent[q]] = 0 THEN 0 ELSE above[m - 1][parent[q]] + 1
    BY <1>1, <2>1, <2>2 DEF TierFacts
  <2> QED
    BY <1>3, <2>1, <2>2, <2>3, <2>4
<1> DEFINE Reached(n) == \A q \in Below(v), m \in 0 .. N :
                            above[m][q] \in 1 .. n + 2 => \E d \in 0 .. n : q \in level[d]
           S == {n \in 0 .. MaxDepth : Reached(n)}
<1>4. 0 \in S
  <2> SUFFICES ASSUME NEW q \in Below(v), NEW m \in 0 .. N, above[m][q] \in 1 .. 2
               PROVE  q \in level[0]
    BY <1>0
  <2>1. m - 1 \in 0 .. N /\ parent[q] \in Parts /\ above[m - 1][parent[q]] = 1
    BY <1>3
  <2>2. ASSUME parent[q] \in Below(v) PROVE FALSE
    <3> DEFINE r == parent[q]
               k == m - 1
    <3>1. r \in Below(v) /\ k \in 0 .. N /\ above[k][r] = 1
      BY <2>1, <2>2
    <3> HIDE DEF r, k
    <3>2. above[k - 1][parent[r]] \in Nat \ {0} /\ above[k][r] = above[k - 1][parent[r]] + 1
      BY <1>3, <3>1
    <3> QED
      BY <3>1, <3>2
  <2> QED
    BY <1>2, <2>2
<1>5. ASSUME NEW n \in 0 .. MaxDepth, n \in S, n < MaxDepth PROVE n + 1 \in S
  <2> SUFFICES ASSUME NEW q \in Below(v), NEW m \in 0 .. N, above[m][q] \in 1 .. n + 3
               PROVE  \E d \in 0 .. n + 1 : q \in level[d]
    BY <1>0, <1>5
  <2>1. CASE parent[q] \notin Below(v)
    BY <1>0, <1>2, <2>1
  <2>2. CASE parent[q] \in Below(v)
    <3>1. m - 1 \in 0 .. N /\ above[m - 1][parent[q]] \in 1 .. n + 2
      BY <1>3
    <3>2. PICK d \in 0 .. n : parent[q] \in level[d]
      BY <1>5, <2>2, <3>1
    <3>3. q \in level[d + 1]
      BY <1>0, <1>2, <1>5, <3>2 DEF Below
    <3> QED
      BY <1>0, <3>2, <3>3
  <2> QED
    BY <2>1, <2>2
<1>6. MaxDepth \in S
  <2> HIDE DEF S
  <2>1. 0 .. MaxDepth \subseteq S
    BY <1>0, <1>4, <1>5, UpTo
  <2> QED
    BY <1>0, <2>1
<1>7. above[N][p] \in 1 .. MaxDepth + 2
  BY <1>1 DEF Catalogued, Catalogue, Below
<1> QED
  BY <1>0, <1>6, <1>7

\* The nodes are the parts that have a parent, and the roots those of them whose
\* parent is not declared.
LEMMA TreeOf ==
    ASSUME Catalogued, NEW v, v \in Versions
    PROVE  Tree(v) = {<<IF parent[p] \in Below(v) THEN parent[p] ELSE Null, p>> :
                        p \in IF Below(v) = {} THEN items[v] ELSE Below(v)}
<1> DEFINE level == Level(v)
           nodes == UNION {level[d] : d \in 0 .. MaxDepth}
           lower == UNION {level[d] : d \in 1 .. MaxDepth}
           edges == {edge \in nodes \X nodes : edge[1] = parent[edge[2]]}
<1>0. MaxDepth \in Nat
  BY BoundsAssumption
<1>1. Tree(v) = edges \cup {<<Null, p>> : p \in level[0] \ lower}
  BY DEF Tree
<1>2. /\ level[0] = IF Below(v) = {} THEN items[v] ELSE {q \in Below(v) : parent[q] \notin Below(v)}
      /\ \A d \in 1 .. MaxDepth : level[d] = {q \in items[v] : parent[q] \in level[d - 1]}
      /\ \A d \in 0 .. MaxDepth : level[d] \subseteq items[v]
  BY LevelIs DEF LevelFacts, Anchors, Children, Below
<1>3. items[v] \subseteq Parts /\ Null \notin Parts /\ Below(v) \subseteq items[v]
  BY NullAssumption DEF Catalogued, Below
<1>4. \A d \in 1 .. MaxDepth : level[d] \subseteq Below(v)
  <2> SUFFICES ASSUME NEW d \in 1 .. MaxDepth, NEW q \in level[d] PROVE q \in Below(v)
    OBVIOUS
  <2>1. q \in items[v] /\ parent[q] \in level[d - 1] /\ d - 1 \in 0 .. MaxDepth
    BY <1>0, <1>2
  <2>2. parent[q] # Null
    BY <1>2, <1>3, <2>1
  <2> QED
    BY <2>1, <2>2 DEF Below, HasParent
<1>5. CASE Below(v) = {}
  <2>1. lower = {}
    BY <1>4, <1>5
  <2>2. nodes \subseteq Parts
    BY <1>2, <1>3
  <2>3. \A q \in items[v] : parent[q] = Null
    BY <1>5 DEF Below, HasParent
  <2>4. nodes \subseteq items[v]
    BY <1>2
  <2>5. edges = {}
    BY <1>3, <2>2, <2>3, <2>4
  <2>6. level[0] = items[v]
    BY <1>2, <1>5
  <2>7. Tree(v) = {<<Null, p>> : p \in items[v]}
    BY <1>1, <2>1, <2>5, <2>6
  <2> QED
    BY <1>5, <2>7
<1>6. CASE Below(v) # {}
  <2>1. level[0] = {q \in Below(v) : parent[q] \notin Below(v)}
    BY <1>2, <1>6
  <2>2. \A d \in 0 .. MaxDepth : level[d] \subseteq Below(v)
    BY <1>0, <1>4, <2>1
  <2>3. nodes = Below(v)
    BY <1>6, <2>2, EveryPartReached
  <2>4. level[0] \ lower = level[0]
    <3> SUFFICES ASSUME NEW q \in level[0], NEW d \in 1 .. MaxDepth, q \in level[d] PROVE FALSE
      OBVIOUS
    <3>1. parent[q] \in level[d - 1] /\ d - 1 \in 0 .. MaxDepth
      BY <1>0, <1>2
    <3> QED
      BY <2>1, <2>2, <3>1
  <2>5. Tree(v) = {edge \in Below(v) \X Below(v) : edge[1] = parent[edge[2]]}
                  \cup {<<Null, p>> : p \in {q \in Below(v) : parent[q] \notin Below(v)}}
    BY <1>1, <2>1, <2>3, <2>4
  <2> QED
    BY <1>6, <2>5
<1> QED
  BY <1>5, <1>6

-----------------------------------------------------------------------------

\* get_bom_tree finds every declared part that has a parent, and each part once,
\* whatever the versions declare and however large the catalogue is, as long as no
\* part of it has more than MaxDepth + 2 tiers (product/repository.py:541-597).
THEOREM TreeCorrect == Spec => []TreeComplete
<1>1. Init => Catalogued
  BY DEF Init, Catalogued
<1>2. ASSUME Catalogued, [Next]_vars PROVE Catalogued'
  <2>1. UNCHANGED <<parent, items>>
    BY <1>2 DEF Next, vars, ReadVersion, SeeOthers, LockOthers, Write, Commit, Abort
  <2>2. Catalogue(parent) => Catalogue(parent')
    BY <2>1
  <2> QED
    BY <1>2, <2>1, <2>2 DEF Catalogued
<1>3. Catalogued => TreeComplete
  <2> SUFFICES ASSUME Catalogued, NEW v \in Versions
               PROVE  LET shown == {edge[2] : edge \in Tree(v)} IN
                      /\ {p \in items[v] : HasParent(p)} \subseteq shown
                      /\ (\A p \in items[v] : ~HasParent(p)) => items[v] \subseteq shown
                      /\ shown \subseteq items[v]
                      /\ Tree(v) = {<<IF parent[p] \in shown THEN parent[p] ELSE Null, p>> :
                                      p \in shown}
    BY DEF TreeComplete
  <2> DEFINE all == IF Below(v) = {} THEN items[v] ELSE Below(v)
             shown == {edge[2] : edge \in Tree(v)}
  <2>1. /\ Below(v) \subseteq all /\ all \subseteq items[v]
        /\ Below(v) = {} => all = items[v]
    BY DEF Below
  <2>2. Tree(v) = {<<IF parent[p] \in Below(v) THEN parent[p] ELSE Null, p>> : p \in all}
    BY TreeOf
  <2>3. shown = all
    <3> DEFINE above(p) == IF parent[p] \in Below(v) THEN parent[p] ELSE Null
    <3>1. Tree(v) = {<<above(p), p>> : p \in all}
      BY <2>2
    <3> HIDE DEF all, above
    <3>2. ASSUME NEW p \in all PROVE p \in shown
      <4>1. <<above(p), p>> \in Tree(v) /\ <<above(p), p>>[2] = p
        BY <3>1
      <4> QED
        BY <4>1
    <3>3. ASSUME NEW edge \in Tree(v) PROVE edge[2] \in all
      BY <3>1
    <3> QED
      BY <3>2, <3>3
  <2>4. ASSUME NEW p \in all PROVE parent[p] \in Below(v) <=> parent[p] \in all
    <3>1. CASE Below(v) = {}
      <4>1. p \in items[v] /\ p \notin Below(v)
        BY <3>1, <2>1
      <4>2. parent[p] = Null
        BY <4>1 DEF Below, HasParent
      <4>3. Null \notin items[v]
        BY NullAssumption DEF Catalogued
      <4> QED
        BY <3>1, <4>2, <4>3
    <3>2. CASE Below(v) # {}
      BY <3>2
    <3> QED
      BY <3>1, <3>2
  <2>5. Tree(v) = {<<IF parent[p] \in all THEN parent[p] ELSE Null, p>> : p \in all}
    <3> HIDE DEF all
    <3> QED
      BY <2>2, <2>4
  <2>6. (\A p \in items[v] : ~HasParent(p)) => Below(v) = {}
    BY DEF Below
  <2>7. Tree(v) = {<<IF parent[p] \in shown THEN parent[p] ELSE Null, p>> : p \in shown}
    <3> HIDE DEF all, shown
    <3> QED
      BY <2>3, <2>5
  <2> QED
    BY <2>1, <2>3, <2>6, <2>7 DEF Below
<1> QED
  BY <1>1, <1>2, <1>3, PTL DEF Spec
=============================================================================
