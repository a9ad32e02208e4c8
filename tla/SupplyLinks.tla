---------------------------- MODULE SupplyLinks ----------------------------
(***************************************************************************)
(* Who supplies whom, as would_create_cycle asks it of the rows parent ->  *)
(* child of the supply chain map, in whatever BOM version they are.        *)
(***************************************************************************)
EXTENDS Naturals, FiniteSets

CONSTANTS
    Suppliers,
    NoSupplier,       \* NULL
    Prime, Maker      \* the seeded root of every tree and a supplier below it

ASSUME SuppliersAssumption ==
    /\ NoSupplier \notin Suppliers
    /\ {Prime, Maker} \subseteq Suppliers /\ Prime # Maker

\* Who lies directly below whom.
Links(R) == {<<r.parent, r.child>> : r \in {q \in R : q.parent # NoSupplier}}

Children(E, S) == {t \in Suppliers : \E s \in S : <<s, t>> \in E}

\* The recursive query from s, by the links it walks: the least set that
\* holds the children of s, and theirs.
Below(E, s) ==
    {t \in Suppliers : \A S \in SUBSET Suppliers :
        Children(E, S \cup {s}) \subseteq S => t \in S}

Descendants(R, s) == LET E == Links(R) IN Below(E, s)

\* UNION ALL keeps duplicates: on a loop the query goes on for ever, unless
\* EXISTS finds the parent first.
QueryEnds(R, parent, child) ==
    \/ parent \in Descendants(R, child)
    \/ \A t \in Descendants(R, child) \cup {child} : t \notin Descendants(R, t)
=============================================================================
