--------------------------- MODULE RegulationIndex ---------------------------
(***************************************************************************)
(* The texts the compliance judges search, and the program that embeds     *)
(* them, started in the background by every boot of the API container      *)
(* while the API already serves.  A component: EventBus, which models the  *)
(* container, says when it starts, fails and is killed.                    *)
(*                                                                         *)
(* The program takes three steps of one transaction each: it embeds the    *)
(* summaries of the regulations, inserts the clauses it carries, embeds    *)
(* the clauses.  A step that raises is skipped, its transaction undone.    *)
(* An embedding the model does not deliver is replaced by a made-up        *)
(* vector, so no row is left behind for want of one.                       *)
(***************************************************************************)
EXTENDS Naturals, FiniteSets

CONSTANTS
    Regulations,   \* rows of regulations, loaded with the schema
    Searched,      \* those a judge searches: the program carries clauses of them
    Citations,     \* numbers of the clauses it carries of each
    Limits         \* how many clauses the searches of the judges ask for

ASSUME SearchedAssumption == Searched \subseteq Regulations
ASSUME CitationsAssumption ==
    /\ IsFiniteSet(Citations) /\ "summary" \notin Citations
    /\ Limits \subseteq Nat \ {0}

VARIABLES
    summary,       \* per regulation: embedding_status
    clause,        \* per carried clause: embedding_status of its row
    indexer        \* the step the program takes next

indexVars == <<summary, clause, indexer>>

SummaryStatus == {"pending", "indexed"}
ClauseStatus == {"absent", "pending", "indexed"}

\* _CLAUSE_SEED_DATA.
Carried == Searched \X Citations

IndexTypeOK ==
    /\ summary \in [Regulations -> SummaryStatus]
    /\ clause \in [Carried -> ClauseStatus]
    /\ indexer \in {"off", "summaries", "seeding", "clauses"}

InitIndex ==
    /\ summary = [r \in Regulations |-> "pending"]
    /\ clause = [c \in Carried |-> "absent"]
    /\ indexer = "off"

\* The step after a step, taken whether it succeeds or raises.
StepAfter == [summaries |-> "seeding", seeding |-> "clauses", clauses |-> "off"]

\* The pending ones, in one commit.
ReindexRegulations ==
    /\ indexer = "summaries"
    /\ summary' = [r \in Regulations |-> "indexed"]
    /\ indexer' = StepAfter[indexer]
    /\ UNCHANGED clause

\* ON CONFLICT DO UPDATE SET embedding_status = 'pending'.
SeedClausesAnew ==
    /\ indexer = "seeding"
    /\ clause' = [c \in Carried |-> "pending"]
    /\ indexer' = StepAfter[indexer]
    /\ UNCHANGED summary

\* ON CONFLICT DO NOTHING, in one commit.
SeedClauses ==
    /\ indexer = "seeding"
    /\ clause' = [c \in Carried |-> IF clause[c] = "absent" THEN "pending" ELSE clause[c]]
    /\ indexer' = StepAfter[indexer]
    /\ UNCHANGED summary

\* One commit per clause.
ReindexClausesSingly ==
    /\ indexer = "clauses"
    /\ \E c \in Carried :
        /\ clause[c] = "pending"
        /\ clause' = [clause EXCEPT ![c] = "indexed"]
    /\ UNCHANGED <<summary, indexer>>

ReindexClauses ==
    /\ indexer = "clauses"
    /\ clause' = [c \in Carried |-> IF clause[c] = "pending" THEN "indexed" ELSE clause[c]]
    /\ indexer' = StepAfter[indexer]
    /\ UNCHANGED summary

\* A step raises, or its connection breaks before the commit.
SkipStep ==
    /\ indexer # "off"
    /\ indexer' = StepAfter[indexer]
    /\ UNCHANGED <<summary, clause>>

\* A query puts the clauses of a regulation in an order, by their distance to it.
Rankings ==
    {q \in [Citations -> 1 .. Cardinality(Citations)] :
        \A c, d \in Citations : q[c] = q[d] => c = d}

\* ORDER BY distance LIMIT top_k.
Nearest(q, top_k, S) == {c \in S : Cardinality({d \in S : q[d] < q[c]}) < top_k}

\* search_regulations, in the order it looks: the nearest of the embedded
\* clauses of the regulation, else its summary, else nothing.
Found(r, q, top_k) ==
    LET embedded == {n \in Citations : <<r, n>> \in Carried /\ clause[<<r, n>>] = "indexed"}
    IN  CASE embedded # {} -> Nearest(q, top_k, embedded)
          [] embedded = {} /\ summary[r] = "indexed" -> {"summary"}
          [] OTHER -> {}
=============================================================================
