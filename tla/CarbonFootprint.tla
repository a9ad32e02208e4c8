-------------------------- MODULE CarbonFootprint ---------------------------
(***************************************************************************)
(* The factories of a supplier, the carbon footprints declared for them    *)
(* with the master form, and the judge of EU battery regulation article 7, *)
(* who weighs the declared footprints by the supply ratios while forms go  *)
(* on being submitted.  Forms of the supplier itself are serialised by its *)
(* row; those of a refiner on behalf of a mine are not.  Judgement runs    *)
(* both.                                                                   *)
(***************************************************************************)
EXTENDS Naturals, FiniteSets

CONSTANTS
    Factories,       \* the ids there may be
    Loaded,          \* the sets of factories a supplier may have at first
    Ratios,          \* the factories supply_ratio may have, as far as they exist
    Callers,         \* forms that may overlap
    Runs,            \* runs of the pipeline, each with a judge
    Answers,         \* what the model may answer a judge
    MaxForms         \* bound: forms

Verdicts == {"compliance_passed", "compliance_warning", "compliance_violation", "compliance_reject"}

ASSUME AnswersAssumption == Answers \subseteq [verdict : Verdicts, cited : BOOLEAN]
ASSUME LoadedAssumption == Loaded \subseteq SUBSET Factories /\ Ratios \subseteq SUBSET Factories
ASSUME FormsAssumption == MaxForms \in Nat

VARIABLES
    active,      \* supplier_factories with is_active
    ratio,       \* the factories in supply_ratio of the batch: seeded
    declared,    \* those with a row in factory_carbon_declarations
    form,        \* per caller: the form under way
    judge,       \* per run: the judge of article 7
    forms        \* bound counter

factoryVars == <<active, ratio, declared, form, forms>>

\* listed: the factories it updates; new: those it inserts; declares: those
\* it declares a footprint of; existing: the factories it found.
Forms == [pc : {"idle", "submitted", "written"}, own : BOOLEAN, manufacturing : BOOLEAN,
          listed : SUBSET Factories, new : SUBSET Factories, declares : SUBSET Factories,
          existing : SUBSET Factories]

NoForm == [pc |-> "idle", own |-> FALSE, manufacturing |-> FALSE, listed |-> {}, new |-> {},
           declares |-> {}, existing |-> {}]

\* torn: history, a form was committed between the two queries.
Judges == [pc : {"idle", "weighed", "counted"}, weighted : SUBSET Factories,
           missing : SUBSET Factories, torn : BOOLEAN]

NoJudge == [pc |-> "idle", weighted |-> {}, missing |-> {}, torn |-> FALSE]

Exist == DOMAIN active

FactoriesOK ==
    /\ Exist \subseteq Factories
    /\ active \in [Exist -> BOOLEAN]
    /\ ratio \subseteq Exist /\ declared \subseteq Exist
    /\ form \in [Callers -> Forms]
    /\ judge \in [Runs -> Judges]
    /\ forms \in Nat

InitFactories ==
    /\ \E some \in Loaded :
         /\ active = [f \in some |-> TRUE]
         /\ ratio \in {some \cap rows : rows \in Ratios}
         /\ declared \in SUBSET some
    /\ form = [c \in Callers |-> NoForm]
    /\ judge = [r \in Runs |-> NoJudge]
    /\ forms = 0

-----------------------------------------------------------------------------
(* submit_master_form                                                      *)

Fresh == Factories \ (Exist \cup UNION {form[c].new : c \in Callers})

\* A form of the supplier updates its row first, and keeps the next one out.
\* A form on behalf of a mine is about factories only.
Submit(c, own, manufacturing, listed, new, declares) ==
    /\ form[c].pc = "idle"
    /\ forms < MaxForms
    /\ own => \A d \in Callers : form[d].pc = "idle" \/ ~form[d].own
    /\ manufacturing => own
    /\ manufacturing \/ declares = {}
    /\ form' = [form EXCEPT ![c] =
                  [pc |-> "submitted", own |-> own, manufacturing |-> manufacturing,
                   listed |-> listed, new |-> new, declares |-> declares, existing |-> {}]]
    /\ forms' = forms + 1
    /\ UNCHANGED <<active, ratio, declared, judge>>

\* The factories are looked up and written: a listed one that is gone is
\* inserted under a new id.
WriteFactories(c) ==
    LET k == form[c]
        gone == k.listed \ Exist IN
    /\ k.pc = "submitted"
    /\ \E id \in [gone -> Fresh] :
         /\ \A f, g \in gone : id[f] = id[g] => f = g
         /\ form' = [form EXCEPT ![c] =
                       [k EXCEPT !.pc = "written", !.existing = Exist,
                                 !.listed = @ \cap Exist,
                                 !.new = @ \cup {id[f] : f \in gone},
                                 !.declares = (@ \ gone) \cup {id[f] : f \in gone \cap @}]]
    /\ UNCHANGED <<active, ratio, declared, judge, forms>>

\* What the form did not list of the factories it had found.
Stale(k) == (k.existing \ k.listed) \cap Exist

\* Everything at once.  A stale factory is deleted with its declarations, or
\* made inactive if a supply ratio refers to it.  A declaration of a factory
\* that is gone fails the form.
Commit(c) ==
    LET k == form[c]
        deleted == Stale(k) \ ratio IN
    /\ k.pc = "written"
    /\ k.declares \subseteq Exist \cup k.new
    /\ active' = [f \in (Exist \ deleted) \cup k.new |->
                    IF f \in k.new THEN TRUE ELSE active[f] /\ f \notin Stale(k)]
    /\ declared' = IF k.manufacturing
                     THEN (declared \ (deleted \cup k.listed)) \cup k.declares
                     ELSE declared \ deleted
    /\ form' = [form EXCEPT ![c] = NoForm]
    /\ judge' = [r \in Runs |-> [judge[r] EXCEPT !.torn = @ \/ judge[r].pc = "weighed"]]
    /\ UNCHANGED <<ratio, forms>>

\* An error, a declaration that cannot be inserted or a deadlock: rolled back.
Rollback(c) ==
    /\ form[c].pc # "idle"
    /\ form' = [form EXCEPT ![c] = NoForm]
    /\ UNCHANGED <<active, ratio, declared, judge, forms>>

StepForms ==
    \E c \in Callers :
        \/ \E own, manufacturing \in BOOLEAN, listed \in SUBSET Exist, new \in SUBSET Fresh :
             \E declares \in SUBSET (listed \cup new) :
                Submit(c, own, manufacturing, listed, new, declares)
        \/ WriteFactories(c)
        \/ Commit(c)
        \/ Rollback(c)

-----------------------------------------------------------------------------
(* What a judge comes back with                                            *)

Rejected == [verdict |-> "compliance_reject", review |-> TRUE]

\* _validate_cited_clauses: an answer without a clause is rejected.
Validated(answer) ==
    IF answer.cited THEN [verdict |-> answer.verdict, review |-> FALSE] ELSE Rejected

\* The model may answer anything, or fail.
Answered == {Rejected} \cup {Validated(answer) : answer \in Answers}

-----------------------------------------------------------------------------
(* judge_carbon_footprint                                                  *)

\* The mean over the factories that have a declaration.
Weigh(r) ==
    /\ judge[r].pc = "idle"
    /\ judge' = [judge EXCEPT ![r] = [NoJudge EXCEPT !.pc = "weighed", !.weighted = ratio \cap declared]]
    /\ UNCHANGED factoryVars

\* The factories that have none are counted by a query of their own.
CountMissing(r) ==
    /\ judge[r].pc = "weighed"
    /\ judge' = [judge EXCEPT ![r].pc = "counted", ![r].missing = ratio \ declared]
    /\ UNCHANGED factoryVars

\* Variant, not the code: nobody has to look at what was not declared.
CarbonOutcomesUnforced(r) == IF judge[r].weighted = {} THEN {Rejected} ELSE Answered

\* Without any declaration the model is not asked; a missing one forces a
\* review whatever it says.
CarbonOutcomes(r) ==
    IF judge[r].weighted = {} THEN {Rejected}
    ELSE {[o EXCEPT !.review = @ \/ judge[r].missing # {}] : o \in Answered}
=============================================================================
