----------------------------- MODULE Judgement ------------------------------
(***************************************************************************)
(* What the nodes of the pipeline find out and where they put it: the      *)
(* audit of the factories' places, the judges of the regulations, the risk *)
(* score and the final judgment.  BatchPipeline has the control, with all  *)
(* that can start, stop and resume a run; here a batch has one run at a    *)
(* time, which fails or not, is started again or not, and shares with the  *)
(* others the factories of CarbonFootprint and the risk profile of the     *)
(* supplier, which users of the API set as well.                           *)
(***************************************************************************)
EXTENDS CarbonFootprint, Sequences

CONSTANTS
    Destination,     \* batches.destination of each run's batch
    Zoned,           \* factories with coordinates in or near Xinjiang
    Named,           \* factories whose address names a place there
    Misplaced,       \* factories with coordinates outside their country
    Deforested,      \* factories with coordinates where forest was lost
    Patches,         \* scores the API may be asked to set
    SeededScores,    \* overall_risk_score at first
    MaxStarts,       \* bound: starts of the graph
    MaxPatches       \* bound: calls of the API

ASSUME DestinationAssumption == Destination \in [Runs -> {"EU", "US", "KR"}]
ASSUME PlacesAssumption ==
    UNION {Zoned, Named, Misplaced, Deforested} \subseteq Factories
ASSUME ScoresAssumption == Patches \subseteq 0..100 /\ SeededScores \subseteq 0..100
ASSUME BoundsAssumption == MaxStarts \in Nat /\ MaxPatches \in Nat

VARIABLES
    injected,    \* whether what route() writes into the state gets to the node
    run,         \* per run: where it is and the BatchState it carries
    geoRow,      \* per run: geo_audit_results of its batch
    stored,      \* per run: compliance_results of its batch
    told,        \* per run: the verdicts of its ComplianceCompleted events
    final,       \* per run: batch_final_judgment of its batch
    profile,     \* supplier_risk_profiles
    cached,      \* suppliers.risk_level
    lastChange,  \* the latest row of risk_score_history
    patch,       \* the call of the API under way
    overlapped,  \* history: a writer of the profile had read an older one
    starts,      \* bound counter
    patches      \* bound counter

riskVars == <<profile, cached, lastChange, overlapped>>
patchVars == <<patch, patches>>
carbonVars == <<factoryVars, judge>>
pipeVars == <<injected, run, geoRow, stored, told, final, starts>>
vars == <<carbonVars, pipeVars, riskVars, patchVars>>

\* One regulation for each kind of judge.
RegulationByDestination == [EU |-> <<"EU_BATTERY_ART7", "CSDDD", "CBAM">>,
                            US |-> <<"UFLPA", "CONFLICT_MINERALS">>,
                            KR |-> <<>>]
Stubs == {"CBAM", "CONFLICT_MINERALS"}
Regulations == {"EU_BATTERY_ART7", "CSDDD", "CBAM", "UFLPA", "CONFLICT_MINERALS"}

Levels == {"low", "medium", "high", "critical"}
Level(score) ==
    CASE score >= 70 -> "critical"
      [] score >= 50 -> "high"
      [] score >= 30 -> "medium"
      [] OTHER       -> "low"

\* partial: history, article 7 was weighed over some of the factories of the
\* batch, none of which was declared while it was.
Results == [attempt : Nat, regulation : Regulations, verdict : Verdicts, review : BOOLEAN,
            partial : BOOLEAN]
RiskTypes == {"xinjiang", "country_mismatch", "eudr_deforestation"}
Profiles == [there : BOOLEAN, score : 0..100, level : Levels]
Rated(score) == [there |-> TRUE, score |-> score, level |-> Level(score)]
NoProfile == [there |-> FALSE, score |-> 0, level |-> "low"]

RunPCs == {"ready", "judging", "stored", "scoring", "read", "judged", "stopped", "ended"}
StopStages == {"stage_geo", "stage_compliance", "stage_risk"}

\* The BatchState a run carries, and where it is.
RunStates == [pc : RunPCs, attempt : Nat, left : Seq(Regulations),
              geo : SUBSET (Factories \X RiskTypes), results : SUBSET Results,
              base : Profiles, stop : StopStages, approved : SUBSET StopStages]

NoRun(attempt) == [pc |-> "ready", attempt |-> attempt, left |-> <<>>, geo |-> {}, results |-> {},
                   base |-> NoProfile, stop |-> "stage_geo", approved |-> {}]

TypeOK ==
    /\ FactoriesOK
    /\ injected \in BOOLEAN
    /\ run \in [Runs -> RunStates]
    /\ geoRow \in [Runs -> SUBSET (Factories \X RiskTypes)]
    /\ stored \in [Runs -> SUBSET Results]
    /\ told \in [Runs -> SUBSET Results]
    /\ final \in [Runs -> [verdict : {"none", "pass", "conditional", "fail"}, attempt : Nat]]
    /\ profile \in Profiles
    /\ cached \in Levels
    /\ lastChange \in [to : Profiles, by : {"nobody", "pipeline", "api"}]
    /\ patch \in [pc : {"idle", "read"}, score : 0..100, prior : Profiles]
    /\ overlapped \in BOOLEAN
    /\ starts \in Nat
    /\ patches \in Nat

NoPatch == [pc |-> "idle", score |-> 0, prior |-> NoProfile]

Init ==
    /\ InitFactories
    /\ injected \in BOOLEAN
    /\ run = [r \in Runs |-> NoRun(0)]
    /\ geoRow = [r \in Runs |-> {}]
    /\ stored = [r \in Runs |-> {}]
    /\ told = [r \in Runs |-> {}]
    /\ final = [r \in Runs |-> [verdict |-> "none", attempt |-> 0]]
    /\ profile \in {NoProfile} \cup {Rated(n) : n \in SeededScores}
    /\ cached = profile.level
    /\ lastChange = [to |-> profile, by |-> "nobody"]
    /\ patch = NoPatch
    /\ overlapped = FALSE
    /\ starts = 0
    /\ patches = 0

-----------------------------------------------------------------------------
(* geo_audit                                                               *)

Active == {f \in Exist : active[f]}

\* check_geo_audit_risk_zone: by its coordinates a factory is found even when it
\* is no longer active.
InZone == Zoned \cap Exist

\* check_xinjiang_by_name
ByName == Named \cap Active

\* check_coordinate_authenticity
Mismatched == Misplaced \cap Active

\* check_eudr_deforestation
InForest == Deforested \cap Active

\* execute_geo_audit goes over the factories of the whole database.  One that
\* is found in the zone and by its name counts once.
Detected ==
    (InZone \cup ByName) \X {"xinjiang"}
        \cup Mismatched \X {"country_mismatch"}
        \cup InForest \X {"eudr_deforestation"}

\* What applies to a batch: its destination says.
Applicable(r) == RegulationByDestination[Destination[r]]

\* route() writes the list into the state once; the node sees the state that
\* LangGraph hands it, and takes a state without a list for an empty one.
Handed(r) == IF injected THEN Applicable(r) ELSE <<>>

\* Where the supervisor sends run r after a node that may ask for a review.
After(k, asks, stage, next) ==
    IF asks THEN [k EXCEPT !.pc = "stopped", !.stop = stage] ELSE [k EXCEPT !.pc = next]

GeoAudit(r) ==
    /\ run[r].pc = "ready"
    /\ starts < MaxStarts
    /\ starts' = starts + 1
    /\ geoRow' = [geoRow EXCEPT ![r] = Detected]
    /\ run' = [run EXCEPT ![r] = After([@ EXCEPT !.geo = Detected, !.left = Handed(r)],
                                       Detected # {}, "stage_geo", "judging")]
    /\ UNCHANGED <<carbonVars, injected, stored, told, final, riskVars, patchVars>>

-----------------------------------------------------------------------------
(* compliance                                                              *)

\* A judge comes back: the row is inserted, and committed with the others.
Judged(r, outcome, partial) ==
    run' = [run EXCEPT ![r].left = Tail(@),
                       ![r].results = @ \cup {[attempt |-> run[r].attempt,
                                               regulation |-> Head(run[r].left),
                                               verdict |-> outcome.verdict,
                                               review |-> outcome.review,
                                               partial |-> partial]}]

Judging(r, regulations) ==
    run[r].pc = "judging" /\ run[r].left # <<>> /\ Head(run[r].left) \in regulations

WeighCarbon(r) ==
    /\ Judging(r, {"EU_BATTERY_ART7"})
    /\ Weigh(r)
    /\ UNCHANGED <<pipeVars, riskVars, patchVars>>

CountCarbon(r) ==
    /\ Judging(r, {"EU_BATTERY_ART7"})
    /\ CountMissing(r)
    /\ UNCHANGED <<pipeVars, riskVars, patchVars>>

JudgeCarbon(r) ==
    /\ Judging(r, {"EU_BATTERY_ART7"})
    /\ judge[r].pc = "counted"
    /\ \E outcome \in CarbonOutcomes(r) :
         Judged(r, outcome, judge[r].weighted # ratio /\ ~judge[r].torn)
    /\ judge' = [judge EXCEPT ![r] = NoJudge]
    /\ UNCHANGED <<factoryVars, injected, geoRow, stored, told, final, starts, riskVars, patchVars>>

\* judge_uflpa, judge_generic
JudgeByModel(r) ==
    /\ Judging(r, Regulations \ (Stubs \cup {"EU_BATTERY_ART7"}))
    /\ \E outcome \in Answered : Judged(r, outcome, FALSE)
    /\ UNCHANGED <<carbonVars, injected, geoRow, stored, told, final, starts, riskVars, patchVars>>

\* _stub_passed_judge: out of scope, always passed.
JudgeStub(r) ==
    /\ Judging(r, Stubs)
    /\ Judged(r, [verdict |-> "compliance_passed", review |-> FALSE], FALSE)
    /\ UNCHANGED <<carbonVars, injected, geoRow, stored, told, final, starts, riskVars, patchVars>>

\* Nothing was handed on: no rows, no event.
SkipCompliance(r) ==
    /\ run[r].pc = "judging"
    /\ run[r].left = <<>>
    /\ run[r].results = {}
    /\ run' = [run EXCEPT ![r].pc = "scoring"]
    /\ UNCHANGED <<carbonVars, injected, geoRow, stored, told, final, starts, riskVars, patchVars>>

CommitResults(r) ==
    /\ run[r].pc = "judging"
    /\ run[r].left = <<>>
    /\ run[r].results # {}
    /\ stored' = [stored EXCEPT ![r] = @ \cup run[r].results]
    /\ run' = [run EXCEPT ![r].pc = "stored"]
    /\ UNCHANGED <<carbonVars, injected, geoRow, told, final, starts, riskVars, patchVars>>

\* Variant, not the code: the last regulation decides.
LastAsksForReview(r) ==
    LET list == Handed(r) IN
    \E row \in run[r].results : row.review /\ row.regulation = list[Len(list)]

\* any_human_review
AsksForReview(r) == \E row \in run[r].results : row.review

\* Variant, not the code: told as soon as the judges are through.
PublishBeforeCommit(r) ==
    /\ run[r].pc = "judging"
    /\ run[r].left = <<>>
    /\ run[r].results # {}
    /\ told' = [told EXCEPT ![r] = @ \cup run[r].results]
    /\ UNCHANGED <<carbonVars, injected, run, geoRow, stored, final, starts, riskVars, patchVars>>

\* ComplianceCompleted, and on to the supervisor.
Publish(r) ==
    /\ run[r].pc = "stored"
    /\ told' = [told EXCEPT ![r] = @ \cup run[r].results]
    /\ run' = [run EXCEPT ![r] = After(@, AsksForReview(r), "stage_compliance", "scoring")]
    /\ UNCHANGED <<carbonVars, injected, geoRow, stored, final, starts, riskVars, patchVars>>

-----------------------------------------------------------------------------
(* risk_scoring                                                            *)

Creating == \E r \in Runs : run[r].pc = "read" /\ ~run[r].base.there

\* A profile that is not there is inserted, which keeps others out until the
\* commit.
ReadProfile(r) ==
    /\ run[r].pc = "scoring"
    /\ profile.there \/ ~Creating
    /\ run' = [run EXCEPT ![r].pc = "read", ![r].base = profile]
    /\ UNCHANGED <<carbonVars, injected, geoRow, stored, told, final, starts, riskVars, patchVars>>

\* Somebody else has read the profile and will write it.
ReadByOthers(r) ==
    \/ patch.pc = "read"
    \/ \E s \in Runs \ {r} : run[s].pc = "read"

Least(m, n) == IF m < n THEN m ELSE n

\* compliance_result has no "verdict", so what the judges found adds nothing.
\* The mapper writes the columns that differ from what it read.  The cache in
\* suppliers is left as it is.
CommitScore(r) ==
    LET base == run[r].base
        score == Least(100, base.score + IF run[r].geo = {} THEN 0 ELSE 30)
        changed == score # base.score \/ Level(score) # base.level IN
    /\ run[r].pc = "read"
    /\ profile' = [there |-> TRUE,
                   score |-> IF score # base.score THEN score ELSE profile.score,
                   level |-> IF Level(score) # base.level THEN Level(score) ELSE profile.level]
    /\ lastChange' = IF changed
                       THEN [to |-> Rated(score), by |-> "pipeline"]
                       ELSE lastChange
    /\ overlapped' = (overlapped \/ (profile' # profile /\ ReadByOthers(r)))
    /\ run' = [run EXCEPT ![r] = After([@ EXCEPT !.base = NoProfile], Level(score) = "critical", "stage_risk", "judged")]
    /\ UNCHANGED <<carbonVars, injected, geoRow, stored, told, final, starts, cached, patchVars>>

-----------------------------------------------------------------------------
(* upsert_risk_score                                                       *)

ReadPrior(score) ==
    /\ patch.pc = "idle"
    /\ patches < MaxPatches
    /\ patch' = [pc |-> "read", score |-> score, prior |-> profile]
    /\ patches' = patches + 1
    /\ UNCHANGED <<carbonVars, pipeVars, riskVars>>

\* Variant, not the code: the prior values are read once they are replaced.
UpsertReadingLate ==
    LET new == Rated(patch.score) IN
    /\ patch.pc = "read"
    /\ ~Creating
    /\ profile' = new
    /\ cached' = new.level
    /\ overlapped' = (overlapped \/ (profile' # profile /\ \E r \in Runs : run[r].pc = "read"))
    /\ patch' = NoPatch
    /\ UNCHANGED <<carbonVars, pipeVars, lastChange, patches>>

\* Profile, cache and history are committed together; the history is of the
\* change from what was read.
Upsert ==
    LET new == Rated(patch.score) IN
    /\ patch.pc = "read"
    /\ ~Creating
    /\ profile' = new
    /\ cached' = new.level
    /\ lastChange' = IF new = patch.prior THEN lastChange ELSE [to |-> new, by |-> "api"]
    /\ overlapped' = (overlapped \/ (profile' # profile /\ \E r \in Runs : run[r].pc = "read"))
    /\ patch' = NoPatch
    /\ UNCHANGED <<carbonVars, pipeVars, patches>>

PatchFails ==
    /\ patch.pc = "read"
    /\ patch' = NoPatch
    /\ UNCHANGED <<carbonVars, pipeVars, riskVars, patches>>

-----------------------------------------------------------------------------
(* final_judgment                                                          *)

RollUp(verdicts, geo, level) ==
    IF verdicts \cap {"compliance_violation", "compliance_reject"} # {} \/ level = "critical"
      THEN "fail"
    ELSE IF "compliance_warning" \in verdicts \/ geo # {} \/ level = "high"
      THEN "conditional"
    ELSE "pass"

\* _load_verdicts: one of the stored verdicts of each regulation.
Loadable(r) ==
    LET regulations == {row.regulation : row \in stored[r]} IN
    {pick \in [regulations -> Verdicts] :
        \A reg \in regulations : \E row \in stored[r] :
            row.regulation = reg /\ row.verdict = pick[reg]}

\* Variant, not the code: the verdicts are always those of the database.
JudgedByLoaded(r) == {{pick[reg] : reg \in DOMAIN pick} : pick \in Loadable(r)}

\* The verdicts of the run, those of the database if it has none.
JudgedBy(r) ==
    IF run[r].results # {} THEN {{row.verdict : row \in run[r].results}}
    ELSE {{pick[reg] : reg \in DOMAIN pick} : pick \in Loadable(r)}

\* The risk score is read again.
FinalJudgment(r) ==
    /\ run[r].pc = "judged"
    /\ \E verdicts \in JudgedBy(r) :
         final' = [final EXCEPT ![r] = [verdict |-> RollUp(verdicts, run[r].geo, Level(profile.score)),
                                        attempt |-> run[r].attempt]]
    /\ run' = [run EXCEPT ![r].pc = "ended"]
    /\ UNCHANGED <<carbonVars, injected, geoRow, stored, told, starts, riskVars, patchVars>>

-----------------------------------------------------------------------------
(* Reviews, failures, restarts                                             *)

\* An approval goes on after the node that asked.
Approve(r) ==
    /\ run[r].pc = "stopped"
    /\ run' = [run EXCEPT ![r].pc = CASE run[r].stop = "stage_geo" -> "judging"
                                  [] run[r].stop = "stage_compliance" -> "scoring"
                                  [] OTHER -> "judged",
                          ![r].approved = @ \cup {run[r].stop}]
    /\ UNCHANGED <<carbonVars, injected, geoRow, stored, told, final, starts, riskVars, patchVars>>

\* The graph is started for the batch again, from its first node: after the
\* final judgment, or because a crash, an answer that is not a verdict or a
\* profile somebody else has inserted ended the run.  Nothing uncommitted is
\* kept.
Rerun(r) ==
    /\ run[r].pc \notin {"ready", "stopped"}
    /\ starts < MaxStarts
    /\ run' = [run EXCEPT ![r] = NoRun(@.attempt + 1)]
    /\ judge' = [judge EXCEPT ![r] = NoJudge]
    /\ UNCHANGED <<factoryVars, injected, geoRow, stored, told, final, starts, riskVars, patchVars>>

StepSupplierForms ==
    /\ StepForms
    /\ UNCHANGED <<pipeVars, riskVars, patchVars>>

Next ==
    \/ StepSupplierForms
    \/ \E score \in Patches : ReadPrior(score)
    \/ Upsert
    \/ PatchFails
    \/ \E r \in Runs :
         \/ GeoAudit(r)
         \/ WeighCarbon(r)
         \/ CountCarbon(r)
         \/ JudgeCarbon(r)
         \/ JudgeByModel(r)
         \/ JudgeStub(r)
         \/ SkipCompliance(r)
         \/ CommitResults(r)
         \/ Publish(r)
         \/ ReadProfile(r)
         \/ CommitScore(r)
         \/ FinalJudgment(r)
         \/ Approve(r)
         \/ Rerun(r)

Spec == Init /\ [][Next]_vars

-----------------------------------------------------------------------------
(* Properties                                                              *)

\* A verdict of article 7 nobody is asked to review was reached over every
\* factory of the batch, unless a form was committed between the two queries
\* of judge_carbon_footprint (agents/compliance.py:629).
UnreviewedIsComplete ==
    \A r \in Runs : \A row \in stored[r] : row.partial => row.review

\* A batch is judged "pass" only over rows of this very run that passed, and if
\* no factory was found in a place it should not be (agents/final_judgment.py:18).
\* It was judged by all the regulations that apply to its destination, or by
\* none at all: by none if LangGraph drops what route() writes, although
\* supervisor.py:17 says that nothing is passed unchecked.  Never by a part.
PassIsWhole ==
    \A r \in Runs : final[r].verdict = "pass" =>
        LET rows == {row \in stored[r] : row.attempt = final[r].attempt}
            list == Applicable(r) IN
        /\ {row.regulation : row \in rows} = IF injected THEN {list[i] : i \in DOMAIN list} ELSE {}
        /\ \A row \in rows : row.verdict = "compliance_passed"
        /\ final[r].attempt = run[r].attempt => geoRow[r] = {}

\* No final judgment over a verdict that asks for a review, or a risk of
\* place, before a reviewer has approved the stop (agents/compliance.py:1075).
ReviewedBeforeFinal ==
    \A r \in Runs : final[r].verdict # "none" /\ final[r].attempt = run[r].attempt =>
        /\ (\E row \in stored[r] : row.attempt = final[r].attempt /\ row.review)
             => "stage_compliance" \in run[r].approved
        /\ run[r].geo # {} => "stage_geo" \in run[r].approved

\* What a ComplianceCompleted event tells is in the database, whatever fails
\* after it (agents/compliance.py:1090).
ToldWhatIsStored == \A r \in Runs : told[r] \subseteq stored[r]

\* As long as no writer of the risk profile has worked from an old one, the
\* last row of the history says what the profile holds, and so does the level
\* the list of suppliers shows unless the pipeline, which does not touch the
\* list, made the last change (domains/risk/service.py:16,
\* domains/supplier/service.py:658, domains/supplier/repository.py:244).
HistoryTellsProfile ==
    profile.there /\ ~overlapped =>
        /\ lastChange.to.score = profile.score
        /\ lastChange.to.level = profile.level
        /\ \/ cached = profile.level
           \/ lastChange.by = "pipeline"
=============================================================================
