-------------------------- MODULE JudgementProofs ---------------------------
(***************************************************************************)
(* Judgement for every set of batches, factories, answers of the model and *)
(* bounds.  A run is followed by the stages it has put behind it: what it  *)
(* carries then agrees with the rows of its batch, and each stage that     *)
(* asked for a review was approved.  The risk profile is another matter:   *)
(* whoever has read it and was not overtaken still holds it.               *)
(***************************************************************************)
EXTENDS Judgement, SequenceTheorems, TLAPS

\* The stages that lie behind a run.
PastGeo(k) == k.pc # "ready" /\ (k.pc = "stopped" => k.stop # "stage_geo")
PastJudges(k) ==
    \/ k.pc \in {"stored", "scoring", "read", "judged", "ended"}
    \/ k.pc = "stopped" /\ k.stop # "stage_geo"
PastReview(k) ==
    \/ k.pc \in {"scoring", "read", "judged", "ended"}
    \/ k.pc = "stopped" /\ k.stop = "stage_risk"

\* What a form declares it has listed or inserts.
FormsKept == \A c \in Callers : form[c].pc # "idle" => form[c].declares \subseteq form[c].listed \cup form[c].new

\* What a judge of article 7 saw in two queries, none of them torn from the
\* other, is what there is to see.
JudgesSaw ==
    \A r \in Runs :
        ~judge[r].torn =>
            /\ judge[r].pc = "weighed" => judge[r].weighted = ratio \cap declared
            /\ judge[r].pc = "counted" => judge[r].weighted \cup judge[r].missing = ratio

RegulationsOf(rows) == {row.regulation : row \in rows}

Listed(list) == {list[i] : i \in DOMAIN list}

\* The verdicts of a run are its own, the partial ones ask for a review, and
\* with the regulations that are left they make up those that were handed on.
ResultsOwn(r) ==
    /\ \A row \in run[r].results : row.attempt = run[r].attempt /\ (row.partial => row.review)
    /\ run[r].pc = "ready" => run[r].results = {}
    /\ run[r].pc # "ready" => RegulationsOf(run[r].results) \cup Listed(run[r].left) = Listed(Handed(r))

\* The rows of a batch are those of the runs before, and of this run once its
\* judges are done.
RowsOwn(r) ==
    /\ \A row \in stored[r] :
         /\ row.partial => row.review
         /\ row.attempt <= run[r].attempt
         /\ row.attempt = run[r].attempt => row \in run[r].results
    /\ run[r].pc # "ready" => geoRow[r] = run[r].geo
    /\ PastJudges(run[r]) => run[r].results \subseteq stored[r] /\ run[r].left = <<>>

\* What was told is among them.
ToldOwn(r) == told[r] \subseteq stored[r]

\* A stage that asked for a review lies behind a run that has the approval.
Approved(r) ==
    /\ PastGeo(run[r]) /\ run[r].geo # {} => "stage_geo" \in run[r].approved
    /\ PastReview(run[r]) /\ AsksForReview(r) => "stage_compliance" \in run[r].approved

\* The final judgment is that of the run that ended, or of an earlier one.
FinalOwn(r) ==
    final[r].verdict # "none" =>
        /\ final[r].attempt <= run[r].attempt
        /\ final[r].attempt = run[r].attempt => run[r].pc = "ended"

\* One that is "pass" has the rows to show for it.
RowsJudged(r) == {row \in stored[r] : row.attempt = final[r].attempt}

PassOwn(r) ==
    final[r].verdict = "pass" =>
        /\ RegulationsOf(RowsJudged(r)) = Listed(Handed(r))
        /\ \A row \in RowsJudged(r) : row.verdict = "compliance_passed"
        /\ final[r].attempt = run[r].attempt => geoRow[r] = {}

RunInv(r) == ResultsOwn(r) /\ RowsOwn(r) /\ ToldOwn(r) /\ Approved(r) /\ FinalOwn(r) /\ PassOwn(r)

\* As long as nobody was overtaken, everybody who has read the profile holds
\* it, and the history is up to date.
ProfileKnown ==
    ~overlapped =>
        /\ \A r \in Runs : run[r].pc = "read" => run[r].base = profile
        /\ patch.pc = "read" => patch.prior = profile
        /\ lastChange.to.score = profile.score /\ lastChange.to.level = profile.level
        /\ cached = profile.level \/ lastChange.by = "pipeline"

IInv == TypeOK /\ FormsKept /\ JudgesSaw /\ (\A r \in Runs : RunInv(r)) /\ ProfileKnown
-----------------------------------------------------------------------------
(* Types                                                                   *)

LEMMA LevelType == \A n : Level(n) \in Levels
  BY DEF Level, Levels

LEMMA RatedType == \A n \in 0..100 : Rated(n) \in Profiles
  BY LevelType DEF Rated, Profiles

LEMMA NoProfileType == NoProfile \in Profiles
  BY DEF NoProfile, Profiles, Levels

LEMMA NoRunType == \A n \in Nat : NoRun(n) \in RunStates
  BY NoProfileType DEF NoRun, RunStates, RunPCs, StopStages

LEMMA HandedType == \A r \in Runs : Handed(r) \in Seq(Regulations)
<1> SUFFICES ASSUME NEW r \in Runs PROVE Handed(r) \in Seq(Regulations)
  OBVIOUS
<1>1. Destination[r] \in {"EU", "US", "KR"}
  BY DestinationAssumption
<1>2. <<"EU_BATTERY_ART7", "CSDDD", "CBAM">> \in Seq(Regulations)
  BY DEF Regulations
<1>3. <<"UFLPA", "CONFLICT_MINERALS">> \in Seq(Regulations)
  BY DEF Regulations
<1>4. <<>> \in Seq(Regulations)
  OBVIOUS
<1>5. RegulationByDestination[Destination[r]] \in
        {<<"EU_BATTERY_ART7", "CSDDD", "CBAM">>, <<"UFLPA", "CONFLICT_MINERALS">>, <<>>}
  <2>1. CASE Destination[r] = "EU"
    BY <2>1 DEF RegulationByDestination
  <2>2. CASE Destination[r] = "US"
    BY <2>2 DEF RegulationByDestination
  <2>3. CASE Destination[r] = "KR"
    BY <2>3 DEF RegulationByDestination
  <2> QED
    BY <1>1, <2>1, <2>2, <2>3
<1> QED
  BY <1>2, <1>3, <1>4, <1>5 DEF Handed, Applicable

\* What a judge may come back with.
Outcomes == [verdict : Verdicts, review : BOOLEAN]

LEMMA AnsweredType == Answered \subseteq Outcomes
<1>1. Rejected \in Outcomes
  BY DEF Rejected, Outcomes, Verdicts
<1>2. ASSUME NEW a \in Answers PROVE Validated(a) \in Outcomes
  <2>1. a.verdict \in Verdicts
    BY AnswersAssumption
  <2> QED
    BY <1>1, <2>1 DEF Validated, Outcomes
<1> QED
  BY <1>1, <1>2 DEF Answered

LEMMA CarbonOutcomesType == \A r : CarbonOutcomes(r) \subseteq Outcomes
<1> SUFFICES ASSUME NEW r, NEW o \in CarbonOutcomes(r) PROVE o \in Outcomes
  OBVIOUS
<1>1. CASE judge[r].weighted = {}
  <2>1. o = Rejected
    BY <1>1, Zenon DEF CarbonOutcomes
  <2> QED
    BY <2>1 DEF Rejected, Outcomes, Verdicts
<1>2. CASE judge[r].weighted # {}
  <2>1. PICK a \in Answered : o = [a EXCEPT !.review = @ \/ judge[r].missing # {}]
    BY <1>2 DEF CarbonOutcomes
  <2>2. a \in Outcomes
    BY <2>1, AnsweredType
  <2> DEFINE review == a.review \/ judge[r].missing # {}
  <2>3. review \in BOOLEAN
    OBVIOUS
  <2>4. o = [a EXCEPT !.review = review]
    BY <2>1
  <2> HIDE DEF review
  <2> QED
    BY <2>2, <2>3, <2>4 DEF Outcomes
<1> QED
  BY <1>1, <1>2

\* The supervisor leaves a run in a state a run can be in.
LEMMA AfterType ==
    ASSUME NEW k \in RunStates, NEW asks \in BOOLEAN, NEW stage \in StopStages, NEW next \in RunPCs
    PROVE  After(k, asks, stage, next) \in RunStates
  BY DEF After, RunStates, RunPCs

LEMMA InitType == Init => TypeOK
<1> SUFFICES ASSUME Init PROVE TypeOK
  OBVIOUS
<1>1. FactoriesOK
  BY LoadedAssumption DEF Init, InitFactories, FactoriesOK, Exist, Forms, NoForm, Judges, NoJudge
<1>2. run \in [Runs -> RunStates]
  BY NoRunType DEF Init
<1>3. profile \in Profiles
  BY NoProfileType, RatedType, ScoresAssumption DEF Init
<1>4. cached \in Levels /\ lastChange \in [to : Profiles, by : {"nobody", "pipeline", "api"}]
  BY <1>3 DEF Init, Profiles
<1>5. patch \in [pc : {"idle", "read"}, score : 0..100, prior : Profiles]
  BY NoProfileType DEF Init, NoPatch
<1> QED
  BY <1>1, <1>2, <1>3, <1>4, <1>5 DEF Init, TypeOK
-----------------------------------------------------------------------------
(* Forms and judges of article 7: CarbonFootprint                          *)

FormInv == FactoriesOK /\ FormsKept /\ JudgesSaw

Written(e, x, l, n, d) ==
    [e EXCEPT !.pc = "written", !.existing = x, !.listed = l, !.new = n, !.declares = d]

LEMMA WrittenForm ==
    ASSUME NEW e \in Forms, NEW x \in SUBSET Factories, NEW l \in SUBSET Factories,
           NEW n \in SUBSET Factories, NEW d \in SUBSET Factories, NEW k,
           k = Written(e, x, l, n, d)
    PROVE  k \in Forms /\ k.listed = l /\ k.new = n /\ k.declares = d
<1> DEFINE e1 == [e EXCEPT !.pc = "written"]
           e2 == [e1 EXCEPT !.existing = x]
           e3 == [e2 EXCEPT !.listed = l]
           e4 == [e3 EXCEPT !.new = n]
           e5 == [e4 EXCEPT !.declares = d]
<1>1. e1 \in Forms
  BY DEF Forms
<1>2. k = [e1 EXCEPT !.existing = x, !.listed = l, !.new = n, !.declares = d]
  BY DEF Written
<1> HIDE DEF e1
<1>3. e2 \in Forms
  BY <1>1 DEF Forms
<1>4. k = [e2 EXCEPT !.listed = l, !.new = n, !.declares = d]
  BY <1>2
<1> HIDE DEF e2
<1>5. e3 \in Forms /\ e3.listed = l
  BY <1>3 DEF Forms
<1>6. k = [e3 EXCEPT !.new = n, !.declares = d]
  BY <1>4
<1> HIDE DEF e3
<1>7. e4 \in Forms /\ e4.listed = l /\ e4.new = n
  BY <1>5 DEF Forms
<1>8. k = e5
  BY <1>6
<1> HIDE DEF e4
<1> QED
  BY <1>7, <1>8 DEF Forms

LEMMA FormsStep == ASSUME FormInv, StepForms PROVE FormInv'
<1> USE DEF FormInv
<1>1. ASSUME NEW c \in Callers, NEW own \in BOOLEAN, NEW manufacturing \in BOOLEAN,
             NEW listed \in SUBSET Exist, NEW new \in SUBSET Fresh,
             NEW declares \in SUBSET (listed \cup new),
             Submit(c, own, manufacturing, listed, new, declares)
      PROVE  FormInv'
  <2> DEFINE k == [pc |-> "submitted", own |-> own, manufacturing |-> manufacturing,
                   listed |-> listed, new |-> new, declares |-> declares, existing |-> {}]
  <2>1. form' = [form EXCEPT ![c] = k] /\ UNCHANGED <<active, ratio, declared, judge>>
    BY <1>1 DEF Submit
  <2>2. k \in Forms
    BY DEF FactoriesOK, Forms, Fresh
  <2>3. k.declares \subseteq k.listed \cup k.new
    OBVIOUS
  <2>4. forms' \in Nat
    BY <1>1 DEF Submit, FactoriesOK
  <2> HIDE DEF k
  <2>5. FactoriesOK'
    BY <2>1, <2>2, <2>4 DEF FactoriesOK, Exist
  <2>6. FormsKept'
    BY <2>1, <2>3 DEF FormsKept, FactoriesOK
  <2>7. JudgesSaw'
    BY <2>1 DEF JudgesSaw
  <2> QED
    BY <2>5, <2>6, <2>7
<1>2. ASSUME NEW c \in Callers, WriteFactories(c) PROVE FormInv'
  <2> DEFINE gone == form[c].listed \ Exist
  <2>1. PICK id \in [gone -> Fresh] :
          form' = [form EXCEPT ![c] = [form[c] EXCEPT
                     !.pc = "written", !.existing = Exist,
                     !.listed = form[c].listed \cap Exist,
                     !.new = form[c].new \cup {id[f] : f \in gone},
                     !.declares = (form[c].declares \ gone) \cup {id[f] : f \in gone \cap form[c].declares}]]
    BY <1>2 DEF WriteFactories
  <2>2. UNCHANGED <<active, ratio, declared, judge, forms>>
    BY <1>2 DEF WriteFactories
  <2>3. form[c] \in Forms /\ form[c].declares \subseteq form[c].listed \cup form[c].new
    BY <1>2 DEF FactoriesOK, FormsKept, WriteFactories
  <2> DEFINE new == form[c].new \cup {id[f] : f \in gone}
             declares == (form[c].declares \ gone) \cup {id[f] : f \in gone \cap form[c].declares}
             k == Written(form[c], Exist, form[c].listed \cap Exist, new, declares)
  <2>4. \A f \in gone : id[f] \in Factories
    BY <2>1 DEF Fresh
  <2>5. new \subseteq Factories /\ declares \subseteq Factories
    BY <2>3, <2>4 DEF Forms
  <2>6. declares \subseteq (form[c].listed \cap Exist) \cup new
    BY <2>3
  <2>7. form[c].listed \cap Exist \subseteq Factories /\ Exist \subseteq Factories
    BY <2>3 DEF Forms, FactoriesOK
  <2>8. form' = [form EXCEPT ![c] = k]
    BY <2>1 DEF Written
  <2> HIDE DEF new, declares
  <2>9. k \in Forms /\ k.declares \subseteq k.listed \cup k.new
    <3> DEFINE listed == form[c].listed \cap Exist
    <3>1. /\ listed \in SUBSET Factories /\ Exist \in SUBSET Factories
          /\ new \in SUBSET Factories /\ declares \in SUBSET Factories
      BY <2>5, <2>7
    <3>2. k = Written(form[c], Exist, listed, new, declares)
      OBVIOUS
    <3> HIDE DEF k, listed
    <3>3. k \in Forms /\ k.listed = listed /\ k.new = new /\ k.declares = declares
      BY <2>3, <3>1, <3>2, WrittenForm
    <3> QED
      BY <2>6, <3>3 DEF listed
  <2> HIDE DEF k
  <2>10. FactoriesOK'
    BY <2>2, <2>8, <2>9 DEF FactoriesOK, Exist
  <2>11. FormsKept'
    BY <2>8, <2>9 DEF FormsKept, FactoriesOK
  <2>12. JudgesSaw'
    BY <2>2 DEF JudgesSaw
  <2> QED
    BY <2>10, <2>11, <2>12
<1>3. ASSUME NEW c \in Callers, Commit(c) PROVE FormInv'
  <2> DEFINE k == form[c]
             deleted == Stale(k) \ ratio
  <2>1. k \in Forms /\ k.declares \subseteq k.listed \cup k.new /\ k.declares \subseteq Exist \cup k.new
    BY <1>3 DEF FactoriesOK, FormsKept, Commit
  <2>2. active' = [f \in (Exist \ deleted) \cup k.new |->
                     IF f \in k.new THEN TRUE ELSE active[f] /\ f \notin Stale(k)]
    BY <1>3 DEF Commit
  <2>3. Exist' = (Exist \ deleted) \cup k.new /\ active' \in [Exist' -> BOOLEAN]
    BY <2>2 DEF Exist
  <2>4. Exist' \subseteq Factories
    BY <2>1, <2>3 DEF FactoriesOK, Forms
  <2>5. ratio' = ratio /\ forms' = forms /\ ratio \subseteq Exist'
    BY <1>3, <2>3 DEF Commit, FactoriesOK
  <2>6. k.declares \cap deleted \subseteq k.new
    BY <2>1 DEF Stale
  <2>7. declared' \subseteq (declared \ deleted) \cup k.declares
    BY <1>3 DEF Commit
  <2>8. declared' \subseteq Exist'
    BY <2>1, <2>3, <2>6, <2>7 DEF FactoriesOK
  <2>9. form' = [form EXCEPT ![c] = NoForm]
    BY <1>3 DEF Commit
  <2>10. NoForm \in Forms
    BY DEF NoForm, Forms
  <2>11. judge' = [r \in Runs |-> [judge[r] EXCEPT !.torn = @ \/ judge[r].pc = "weighed"]]
    BY <1>3 DEF Commit
  <2>12. ASSUME NEW r \in Runs
         PROVE  /\ judge'[r] \in Judges
                /\ ~judge'[r].torn => judge'[r] = judge[r] /\ judge[r].pc # "weighed"
    <3> DEFINE j == judge[r]
               torn == j.torn \/ j.pc = "weighed"
    <3>1. judge'[r] = [j EXCEPT !.torn = torn]
      BY <2>11
    <3>2. torn \in BOOLEAN
      OBVIOUS
    <3>3. j \in Judges
      BY DEF FactoriesOK
    <3> HIDE DEF j
    <3>4. ~torn => j.torn = FALSE /\ j.pc # "weighed"
      BY <3>3 DEF Judges
    <3> HIDE DEF torn
    <3>5. judge'[r] \in Judges
      BY <3>1, <3>2, <3>3 DEF Judges
    <3>6. judge'[r].torn = torn
      BY <3>1, <3>3 DEF Judges
    <3>7. CASE ~torn
      <4>1. torn = FALSE
        BY <3>2, <3>7
      <4>2. judge'[r] = j
        BY <3>1, <3>3, <3>4, <3>7, <4>1 DEF Judges
      <4> QED
        BY <3>4, <3>5, <3>7, <4>2 DEF j
    <3> QED
      BY <3>5, <3>6, <3>7
  <2>13. judge' \in [Runs -> Judges]
    BY <2>11, <2>12
  <2> HIDE DEF k, deleted
  <2>14. FactoriesOK'
    BY <2>3, <2>4, <2>5, <2>8, <2>9, <2>10, <2>13 DEF FactoriesOK, Exist
  <2>15. FormsKept'
    BY <2>9 DEF FormsKept, FactoriesOK, NoForm
  <2>16. JudgesSaw'
    BY <2>5, <2>12 DEF JudgesSaw
  <2> QED
    BY <2>14, <2>15, <2>16
<1>4. ASSUME NEW c \in Callers, Rollback(c) PROVE FormInv'
  <2>1. NoForm \in Forms
    BY DEF NoForm, Forms
  <2>2. form' = [form EXCEPT ![c] = NoForm] /\ UNCHANGED <<active, ratio, declared, judge, forms>>
    BY <1>4 DEF Rollback
  <2>3. FactoriesOK'
    BY <2>1, <2>2 DEF FactoriesOK, Exist
  <2>4. FormsKept'
    BY <2>2 DEF FormsKept, FactoriesOK, NoForm
  <2>5. JudgesSaw'
    BY <2>2 DEF JudgesSaw
  <2> QED
    BY <2>3, <2>4, <2>5
<1> QED
  BY <1>1, <1>2, <1>3, <1>4 DEF StepForms

\* The judge of one run moves on.
LEMMA JudgeMoves ==
    ASSUME FormInv, NEW r \in Runs, NEW j \in Judges,
           judge' = [judge EXCEPT ![r] = j], UNCHANGED factoryVars,
           ~j.torn => /\ j.pc = "weighed" => j.weighted = ratio \cap declared
                      /\ j.pc = "counted" => j.weighted \cup j.missing = ratio
    PROVE  FormInv'
  BY DEF FormInv, FactoriesOK, FormsKept, JudgesSaw, factoryVars, Exist

LEMMA WeighStep == ASSUME FormInv, NEW r \in Runs, Weigh(r) PROVE FormInv'
<1> DEFINE j == [NoJudge EXCEPT !.pc = "weighed", !.weighted = ratio \cap declared]
<1>1. j \in Judges /\ j.pc = "weighed" /\ j.weighted = ratio \cap declared
  BY DEF NoJudge, Judges, FormInv, FactoriesOK
<1>2. judge' = [judge EXCEPT ![r] = j] /\ UNCHANGED factoryVars
  BY DEF Weigh
<1> HIDE DEF j
<1> QED
  BY <1>1, <1>2, JudgeMoves

LEMMA CountStep == ASSUME FormInv, NEW r \in Runs, CountMissing(r) PROVE FormInv'
<1> DEFINE j == [judge[r] EXCEPT !.pc = "counted", !.missing = ratio \ declared]
<1>1. judge[r] \in Judges /\ judge[r].pc = "weighed"
  BY DEF FormInv, FactoriesOK, CountMissing
<1>2. /\ j \in Judges /\ j.pc = "counted" /\ j.missing = ratio \ declared
      /\ j.weighted = judge[r].weighted /\ j.torn = judge[r].torn
  BY <1>1 DEF Judges, FormInv, FactoriesOK
<1>3. judge' = [judge EXCEPT ![r] = j] /\ UNCHANGED factoryVars
  BY DEF CountMissing, FormInv, FactoriesOK
<1>4. ~j.torn => j.weighted \cup j.missing = ratio
  BY <1>1, <1>2 DEF FormInv, JudgesSaw
<1> HIDE DEF j
<1> QED
  BY <1>2, <1>3, <1>4, JudgeMoves

LEMMA ResetStep ==
    ASSUME FormInv, NEW r \in Runs, judge' = [judge EXCEPT ![r] = NoJudge], UNCHANGED factoryVars
    PROVE  FormInv'
<1>1. NoJudge \in Judges /\ NoJudge.pc = "idle"
  BY DEF NoJudge, Judges
<1> QED
  BY <1>1, JudgeMoves

\* What a judge says of part of the factories, not torn from what it counted,
\* asks for a review.
LEMMA PartAsks ==
    ASSUME FormInv, NEW r \in Runs, judge[r].pc = "counted", NEW o \in CarbonOutcomes(r),
           judge[r].weighted # ratio, ~judge[r].torn
    PROVE  o.review
<1>1. judge[r].missing # {}
  BY DEF FormInv, JudgesSaw
<1>2. CASE judge[r].weighted = {}
  <2>1. o = Rejected
    BY <1>2, Zenon DEF CarbonOutcomes
  <2> QED
    BY <2>1 DEF Rejected
<1>3. CASE judge[r].weighted # {}
  <2>1. PICK a \in Answered : o = [a EXCEPT !.review = @ \/ judge[r].missing # {}]
    BY <1>3 DEF CarbonOutcomes
  <2>2. a \in Outcomes
    BY <2>1, AnsweredType
  <2>3. o.review = (a.review \/ judge[r].missing # {})
    BY <2>1, <2>2 DEF Outcomes
  <2> QED
    BY <1>1, <2>3
<1> QED
  BY <1>2, <1>3
-----------------------------------------------------------------------------
(* What a step leaves of the BatchState of a run                           *)

\* Only run r moves, and keeps the fields.
Moved(r) == run' \in [Runs -> RunStates] /\ \A s \in Runs \ {r} : run'[s] = run[s]

Keeps(r, fields) == \A f \in fields : run'[r][f] = run[r][f]

\* The supervisor chooses between a stop and the next node.
LEMMA AfterFields ==
    ASSUME NEW k \in RunStates, NEW asks \in BOOLEAN, NEW stage \in StopStages, NEW next \in RunPCs,
           NEW n, n = After(k, asks, stage, next)
    PROVE  /\ n.attempt = k.attempt /\ n.left = k.left /\ n.geo = k.geo /\ n.results = k.results
           /\ n.base = k.base /\ n.approved = k.approved
           /\ asks => n.pc = "stopped" /\ n.stop = stage
           /\ ~asks => n.pc = next /\ n.stop = k.stop
  BY DEF After, RunStates

LEMMA DetectedType == TypeOK => Detected \subseteq Factories \X RiskTypes
<1> SUFFICES ASSUME TypeOK PROVE Detected \subseteq Factories \X RiskTypes
  OBVIOUS
<1>1. Exist \subseteq Factories
  BY DEF TypeOK, FactoriesOK
<1>2. InZone \cup ByName \subseteq Factories /\ Mismatched \subseteq Factories /\ InForest \subseteq Factories
  BY <1>1 DEF InZone, ByName, Mismatched, InForest, Active
<1> HIDE DEF InZone, ByName, Mismatched, InForest
<1> QED
  BY <1>2 DEF Detected, RiskTypes

LEMMA HeadTail ==
    ASSUME NEW S, NEW list \in Seq(S), list # <<>>
    PROVE  Head(list) \in S /\ Tail(list) \in Seq(S) /\ Listed(list) = {Head(list)} \cup Listed(Tail(list))
<1>1. Head(list) \in S /\ Tail(list) \in Seq(S)
  OBVIOUS
<1>2. /\ Head(list) = list[1] /\ Len(list) \in Nat \ {0}
      /\ DOMAIN list = 1..Len(list) /\ DOMAIN Tail(list) = 1..(Len(list) - 1)
      /\ \A i \in 1..(Len(list) - 1) : Tail(list)[i] = list[i + 1]
  OBVIOUS
<1>3. ASSUME NEW x \in Listed(list) PROVE x \in {Head(list)} \cup Listed(Tail(list))
  <2>1. PICK i \in DOMAIN list : x = list[i]
    BY <1>3 DEF Listed
  <2>2. CASE i = 1
    BY <1>2, <2>1, <2>2
  <2>3. CASE i # 1
    <3>1. i - 1 \in DOMAIN Tail(list) /\ Tail(list)[i - 1] = x
      BY <1>2, <2>1, <2>3
    <3> QED
      BY <3>1 DEF Listed
  <2> QED
    BY <2>2, <2>3
<1>4. ASSUME NEW x \in Listed(Tail(list)) PROVE x \in Listed(list)
  <2>1. PICK i \in DOMAIN Tail(list) : x = Tail(list)[i]
    BY <1>4 DEF Listed
  <2>2. i + 1 \in DOMAIN list /\ list[i + 1] = x
    BY <1>2, <2>1
  <2> QED
    BY <2>2 DEF Listed
<1>5. Head(list) \in Listed(list)
  BY <1>2 DEF Listed
<1> QED
  BY <1>1, <1>3, <1>4, <1>5

LEMMA GeoAuditRun ==
    ASSUME TypeOK, NEW r \in Runs, GeoAudit(r)
    PROVE  /\ Moved(r) /\ Keeps(r, {"attempt", "results", "base", "approved"})
           /\ run'[r].geo = Detected /\ run'[r].left = Handed(r)
           /\ Detected # {} => run'[r].pc = "stopped" /\ run'[r].stop = "stage_geo"
           /\ Detected = {} => run'[r].pc = "judging"
<1> DEFINE list == Handed(r)
           places == Detected
           asks == places # {}
           k == [run[r] EXCEPT !.geo = places, !.left = list]
           n == After(k, asks, "stage_geo", "judging")
<1>1. run[r] \in RunStates /\ run \in [Runs -> RunStates]
  BY DEF TypeOK
<1>2. list \in Seq(Regulations) /\ places \in SUBSET (Factories \X RiskTypes) /\ asks \in BOOLEAN
  BY HandedType, DetectedType
<1>3. run' = [run EXCEPT ![r] = n]
  BY DEF GeoAudit
<1>4. "stage_geo" \in StopStages /\ "judging" \in RunPCs
  BY DEF StopStages, RunPCs
<1> HIDE DEF list, places
<1>5. /\ k \in RunStates /\ k.geo = places /\ k.left = list /\ k.attempt = run[r].attempt
      /\ k.results = run[r].results /\ k.base = run[r].base /\ k.approved = run[r].approved
  BY <1>1, <1>2 DEF RunStates
<1> HIDE DEF k, n, asks
<1>6. n \in RunStates
  BY <1>2, <1>4, <1>5, AfterType DEF n
<1>7. /\ n.attempt = k.attempt /\ n.left = k.left /\ n.geo = k.geo /\ n.results = k.results
      /\ n.base = k.base /\ n.approved = k.approved
      /\ asks => n.pc = "stopped" /\ n.stop = "stage_geo"
      /\ ~asks => n.pc = "judging"
  BY <1>2, <1>4, <1>5, AfterFields DEF n
<1> QED
  BY <1>1, <1>3, <1>5, <1>6, <1>7 DEF Moved, Keeps, asks, places, list

\* A judge's row joins the results.
LEMMA JudgedRun ==
    ASSUME TypeOK, NEW r \in Runs, run[r].left # <<>>, NEW o \in Outcomes, NEW partial \in BOOLEAN,
           Judged(r, o, partial)
    PROVE  \E row \in Results :
             /\ row.attempt = run[r].attempt /\ row.regulation = Head(run[r].left)
             /\ row.partial = partial /\ row.review = o.review
             /\ Moved(r) /\ Keeps(r, {"pc", "attempt", "geo", "base", "stop", "approved"})
             /\ run'[r].left = Tail(run[r].left)
             /\ run'[r].results = run[r].results \cup {row}
<1> DEFINE row == [attempt |-> run[r].attempt, regulation |-> Head(run[r].left),
                   verdict |-> o.verdict, review |-> o.review, partial |-> partial]
           results == run[r].results \cup {row}
           left == Tail(run[r].left)
           k == [run[r] EXCEPT !.left = left, !.results = results]
<1>1. run[r] \in RunStates /\ run \in [Runs -> RunStates]
  BY DEF TypeOK
<1>2. run[r].left \in Seq(Regulations) /\ run[r].attempt \in Nat /\ run[r].results \in SUBSET Results
  BY <1>1 DEF RunStates
<1>3. Head(run[r].left) \in Regulations /\ left \in Seq(Regulations)
  BY <1>2, HeadTail
<1>4. row \in Results
  BY <1>2, <1>3 DEF Results, Outcomes
<1>5. run' = [run EXCEPT ![r] = k]
  BY <1>1 DEF Judged
<1>6. /\ row.attempt = run[r].attempt /\ row.regulation = Head(run[r].left)
      /\ row.partial = partial /\ row.review = o.review
  OBVIOUS
<1> HIDE DEF row
<1>7. results \in SUBSET Results
  BY <1>2, <1>4
<1> HIDE DEF left
<1>8. results = run[r].results \cup {row}
  OBVIOUS
<1> HIDE DEF results
<1>9. /\ k \in RunStates /\ k.left = left /\ k.results = results /\ k.pc = run[r].pc
      /\ k.attempt = run[r].attempt /\ k.geo = run[r].geo /\ k.base = run[r].base
      /\ k.stop = run[r].stop /\ k.approved = run[r].approved
  BY <1>1, <1>3, <1>7 DEF RunStates
<1> HIDE DEF k
<1>10. Moved(r) /\ run'[r] = k
  BY <1>1, <1>5, <1>9 DEF Moved
<1> QED
  BY <1>4, <1>6, <1>8, <1>9, <1>10 DEF Keeps, left

\* A run that only goes on to the next place.
LEMMA PcRun ==
    ASSUME TypeOK, NEW r \in Runs, NEW pc \in RunPCs, run' = [run EXCEPT ![r].pc = pc]
    PROVE  /\ Moved(r) /\ Keeps(r, {"attempt", "left", "geo", "results", "base", "stop", "approved"})
           /\ run'[r].pc = pc
<1> DEFINE k == [run[r] EXCEPT !.pc = pc]
<1>1. run[r] \in RunStates /\ run \in [Runs -> RunStates]
  BY DEF TypeOK
<1>2. run' = [run EXCEPT ![r] = k]
  BY <1>1
<1>3. /\ k \in RunStates /\ k.pc = pc /\ k.attempt = run[r].attempt /\ k.left = run[r].left
      /\ k.geo = run[r].geo /\ k.results = run[r].results /\ k.base = run[r].base
      /\ k.stop = run[r].stop /\ k.approved = run[r].approved
  BY <1>1 DEF RunStates
<1> HIDE DEF k
<1> QED
  BY <1>1, <1>2, <1>3 DEF Moved, Keeps

LEMMA PublishRun ==
    ASSUME TypeOK, NEW r \in Runs, Publish(r)
    PROVE  /\ Moved(r) /\ Keeps(r, {"attempt", "left", "geo", "results", "base", "approved"})
           /\ AsksForReview(r) => run'[r].pc = "stopped" /\ run'[r].stop = "stage_compliance"
           /\ ~AsksForReview(r) => run'[r].pc = "scoring"
<1> DEFINE n == After(run[r], AsksForReview(r), "stage_compliance", "scoring")
<1>1. run[r] \in RunStates /\ run \in [Runs -> RunStates]
  BY DEF TypeOK
<1>2. "stage_compliance" \in StopStages /\ "scoring" \in RunPCs /\ AsksForReview(r) \in BOOLEAN
  BY DEF StopStages, RunPCs, AsksForReview
<1>3. run' = [run EXCEPT ![r] = n]
  BY DEF Publish
<1>4. n \in RunStates
  BY <1>1, <1>2, AfterType
<1>5. /\ n.attempt = run[r].attempt /\ n.left = run[r].left /\ n.geo = run[r].geo
      /\ n.results = run[r].results /\ n.base = run[r].base /\ n.approved = run[r].approved
      /\ AsksForReview(r) => n.pc = "stopped" /\ n.stop = "stage_compliance"
      /\ ~AsksForReview(r) => n.pc = "scoring"
  BY <1>1, <1>2, AfterFields
<1> HIDE DEF n
<1> QED
  BY <1>1, <1>3, <1>4, <1>5 DEF Moved, Keeps

LEMMA ReadProfileRun ==
    ASSUME TypeOK, NEW r \in Runs, ReadProfile(r)
    PROVE  /\ Moved(r) /\ Keeps(r, {"attempt", "left", "geo", "results", "stop", "approved"})
           /\ run'[r].pc = "read" /\ run'[r].base = profile
<1> DEFINE k == [run[r] EXCEPT !.pc = "read", !.base = profile]
<1>1. run[r] \in RunStates /\ run \in [Runs -> RunStates] /\ profile \in Profiles
  BY DEF TypeOK
<1>2. run' = [run EXCEPT ![r] = k]
  BY <1>1 DEF ReadProfile
<1>3. /\ k \in RunStates /\ k.pc = "read" /\ k.base = profile /\ k.attempt = run[r].attempt
      /\ k.left = run[r].left /\ k.geo = run[r].geo /\ k.results = run[r].results
      /\ k.stop = run[r].stop /\ k.approved = run[r].approved
  BY <1>1 DEF RunStates, RunPCs
<1> HIDE DEF k
<1> QED
  BY <1>1, <1>2, <1>3 DEF Moved, Keeps

LEMMA CommitScoreRun ==
    ASSUME TypeOK, NEW r \in Runs, CommitScore(r)
    PROVE  /\ Moved(r) /\ Keeps(r, {"attempt", "left", "geo", "results", "approved"})
           /\ run'[r].pc \in {"stopped", "judged"}
           /\ run'[r].pc = "stopped" => run'[r].stop = "stage_risk"
<1>1. run[r] \in RunStates /\ run \in [Runs -> RunStates]
  BY DEF TypeOK
<1> DEFINE k == [run[r] EXCEPT !.base = NoProfile]
<1>2. PICK asks \in BOOLEAN : run' = [run EXCEPT ![r] = After(k, asks, "stage_risk", "judged")]
  BY DEF CommitScore
<1> DEFINE n == After(k, asks, "stage_risk", "judged")
<1>3. "stage_risk" \in StopStages /\ "judged" \in RunPCs
  BY DEF StopStages, RunPCs
<1>4. /\ k \in RunStates /\ k.attempt = run[r].attempt /\ k.left = run[r].left
      /\ k.geo = run[r].geo /\ k.results = run[r].results /\ k.approved = run[r].approved
  BY <1>1, NoProfileType DEF RunStates
<1> HIDE DEF k
<1>5. n \in RunStates
  BY <1>3, <1>4, AfterType
<1>6. /\ n.attempt = k.attempt /\ n.left = k.left /\ n.geo = k.geo /\ n.results = k.results
      /\ n.approved = k.approved
      /\ asks => n.pc = "stopped" /\ n.stop = "stage_risk"
      /\ ~asks => n.pc = "judged"
  BY <1>3, <1>4, AfterFields
<1>7. run' = [run EXCEPT ![r] = n]
  BY <1>2
<1> HIDE DEF n
<1> QED
  BY <1>1, <1>4, <1>5, <1>6, <1>7 DEF Moved, Keeps

LEMMA ApproveRun ==
    ASSUME TypeOK, NEW r \in Runs, Approve(r)
    PROVE  /\ Moved(r) /\ Keeps(r, {"attempt", "left", "geo", "results", "base", "stop"})
           /\ run'[r].approved = run[r].approved \cup {run[r].stop}
           /\ run[r].stop = "stage_geo" => run'[r].pc = "judging"
           /\ run[r].stop = "stage_compliance" => run'[r].pc = "scoring"
           /\ run[r].stop = "stage_risk" => run'[r].pc = "judged"
<1> DEFINE next == CASE run[r].stop = "stage_geo" -> "judging"
                     [] run[r].stop = "stage_compliance" -> "scoring"
                     [] OTHER -> "judged"
           approved == run[r].approved \cup {run[r].stop}
           k == [run[r] EXCEPT !.pc = next, !.approved = approved]
<1>1. run[r] \in RunStates /\ run \in [Runs -> RunStates]
  BY DEF TypeOK
<1>2. run' = [run EXCEPT ![r] = k]
  BY <1>1 DEF Approve
<1>3. /\ next \in RunPCs /\ approved \in SUBSET StopStages
      /\ run[r].stop = "stage_geo" => next = "judging"
      /\ run[r].stop = "stage_compliance" => next = "scoring"
      /\ run[r].stop = "stage_risk" => next = "judged"
  BY <1>1 DEF RunStates, RunPCs
<1>4. approved = run[r].approved \cup {run[r].stop}
  OBVIOUS
<1> HIDE DEF next, approved
<1>5. /\ k \in RunStates /\ k.pc = next /\ k.approved = approved /\ k.attempt = run[r].attempt
      /\ k.left = run[r].left /\ k.geo = run[r].geo /\ k.results = run[r].results
      /\ k.base = run[r].base /\ k.stop = run[r].stop
  BY <1>1, <1>3 DEF RunStates
<1> HIDE DEF k
<1> QED
  BY <1>1, <1>2, <1>3, <1>4, <1>5 DEF Moved, Keeps

LEMMA RerunRun ==
    ASSUME TypeOK, NEW r \in Runs, Rerun(r)
    PROVE  /\ Moved(r) /\ run'[r] = NoRun(run[r].attempt + 1)
           /\ run'[r].attempt = run[r].attempt + 1 /\ run[r].attempt \in Nat
           /\ run'[r].pc = "ready" /\ run'[r].results = {}
<1>1. run[r] \in RunStates /\ run \in [Runs -> RunStates]
  BY DEF TypeOK
<1>2. run' = [run EXCEPT ![r] = NoRun(run[r].attempt + 1)]
  BY <1>1 DEF Rerun
<1>3. run[r].attempt \in Nat
  BY <1>1 DEF RunStates
<1>4. NoRun(run[r].attempt + 1) \in RunStates
  BY <1>3, NoRunType
<1> QED
  BY <1>1, <1>2, <1>3, <1>4 DEF Moved, NoRun
-----------------------------------------------------------------------------
(* The runs                                                                *)

\* What happens elsewhere leaves the batch of a run alone.
LEMMA RunKept ==
    ASSUME NEW s \in Runs, RunInv(s), UNCHANGED injected, run'[s] = run[s], geoRow'[s] = geoRow[s],
           stored'[s] = stored[s], told'[s] = told[s], final'[s] = final[s]
    PROVE  RunInv(s)'
<1>1. ResultsOwn(s)'
  BY DEF RunInv, ResultsOwn, Handed, Applicable
<1>2. RowsOwn(s)' /\ ToldOwn(s)'
  BY DEF RunInv, RowsOwn, ToldOwn
<1>3. Approved(s)' /\ FinalOwn(s)'
  BY DEF RunInv, Approved, FinalOwn, AsksForReview
<1>4. PassOwn(s)'
  BY DEF RunInv, PassOwn, RowsJudged, Handed, Applicable
<1> QED
  BY <1>1, <1>2, <1>3, <1>4 DEF RunInv

\* A run goes on with what it has, the reviews it needs behind it.
LEMMA RunGoesOn ==
    ASSUME TypeOK, NEW r \in Runs, RunInv(r), UNCHANGED <<injected, geoRow, stored, final>>,
           Keeps(r, {"attempt", "left", "geo", "results"}),
           run[r].pc \notin {"ready", "ended"}, run'[r].pc # "ready",
           PastJudges(run'[r]) => PastJudges(run[r]) \/ (run[r].results = {} /\ run[r].left = <<>>),
           Approved(r)', ToldOwn(r)'
    PROVE  RunInv(r)'
<1>1. /\ run'[r].attempt = run[r].attempt /\ run'[r].left = run[r].left
      /\ run'[r].geo = run[r].geo /\ run'[r].results = run[r].results
  BY DEF Keeps
<1>2. ResultsOwn(r)'
  BY <1>1 DEF RunInv, ResultsOwn, Handed, Applicable
<1>3. RowsOwn(r)'
  BY <1>1 DEF RunInv, RowsOwn
<1>4. FinalOwn(r)'
  BY <1>1 DEF RunInv, FinalOwn
<1>5. PassOwn(r)'
  BY <1>1 DEF RunInv, PassOwn, RowsJudged, Handed, Applicable
<1> QED
  BY <1>2, <1>3, <1>4, <1>5 DEF RunInv

LEMMA GeoAuditInv == ASSUME TypeOK, NEW r \in Runs, RunInv(r), GeoAudit(r) PROVE RunInv(r)'
<1>1. /\ run'[r].attempt = run[r].attempt /\ run'[r].results = run[r].results
      /\ run'[r].approved = run[r].approved
      /\ run'[r].geo = Detected /\ run'[r].left = Handed(r)
      /\ \/ Detected # {} /\ run'[r].pc = "stopped" /\ run'[r].stop = "stage_geo"
         \/ Detected = {} /\ run'[r].pc = "judging"
  BY GeoAuditRun DEF Keeps
<1>2. run[r].pc = "ready" /\ geoRow'[r] = Detected /\ UNCHANGED <<injected, stored, told, final>>
  BY DEF GeoAudit, TypeOK
<1>3. ResultsOwn(r)'
  BY <1>1, <1>2 DEF RunInv, ResultsOwn, Handed, Applicable, RegulationsOf
<1>4. RowsOwn(r)'
  BY <1>1, <1>2 DEF RunInv, RowsOwn, PastJudges
<1>5. ToldOwn(r)'
  BY <1>2 DEF RunInv, ToldOwn
<1>6. Approved(r)'
  BY <1>1 DEF Approved, PastGeo, PastReview
<1>7. FinalOwn(r)' /\ PassOwn(r)'
  BY <1>1, <1>2 DEF RunInv, FinalOwn, PassOwn, RowsJudged, Handed, Applicable
<1> QED
  BY <1>3, <1>4, <1>5, <1>6, <1>7 DEF RunInv

LEMMA JudgedInv ==
    ASSUME TypeOK, NEW r \in Runs, RunInv(r), run[r].pc = "judging", run[r].left # <<>>,
           NEW o \in Outcomes, NEW partial \in BOOLEAN, partial => o.review, Judged(r, o, partial),
           UNCHANGED <<injected, geoRow, stored, told, final>>
    PROVE  RunInv(r)'
<1>1. PICK row \in Results :
        /\ row.attempt = run[r].attempt /\ row.regulation = Head(run[r].left)
        /\ row.partial = partial /\ row.review = o.review
        /\ Keeps(r, {"pc", "attempt", "geo", "base", "stop", "approved"})
        /\ run'[r].left = Tail(run[r].left)
        /\ run'[r].results = run[r].results \cup {row}
  BY JudgedRun
<1>2. /\ run'[r].pc = run[r].pc /\ run'[r].attempt = run[r].attempt /\ run'[r].geo = run[r].geo
      /\ run'[r].approved = run[r].approved
  BY <1>1 DEF Keeps
<1>3. run[r].left \in Seq(Regulations)
  BY DEF TypeOK, RunStates
<1>4. Listed(run[r].left) = {Head(run[r].left)} \cup Listed(Tail(run[r].left))
  BY <1>3, HeadTail
<1>5. RegulationsOf(run'[r].results) = RegulationsOf(run[r].results) \cup {Head(run[r].left)}
  BY <1>1 DEF RegulationsOf
<1>6. ResultsOwn(r)'
  <2>1. RegulationsOf(run[r].results) \cup Listed(run[r].left) = Listed(Handed(r))
    BY DEF RunInv, ResultsOwn
  <2>2. Handed(r)' = Handed(r)
    BY DEF Handed, Applicable
  <2>3. RegulationsOf(run'[r].results) \cup Listed(run'[r].left) = Listed(Handed(r))
    BY <1>1, <1>4, <1>5, <2>1
  <2>4. \A x \in run'[r].results : x.attempt = run'[r].attempt /\ (x.partial => x.review)
    BY <1>1, <1>2 DEF RunInv, ResultsOwn
  <2> QED
    BY <1>2, <2>2, <2>3, <2>4 DEF ResultsOwn, RegulationsOf, Listed
<1>7. RowsOwn(r)' /\ ToldOwn(r)'
  BY <1>1, <1>2 DEF RunInv, RowsOwn, PastJudges, ToldOwn
<1>8. Approved(r)'
  BY <1>2 DEF RunInv, Approved, PastGeo, PastReview
<1>9. FinalOwn(r)' /\ PassOwn(r)'
  BY <1>2 DEF RunInv, FinalOwn, PassOwn, RowsJudged, Handed, Applicable
<1> QED
  BY <1>6, <1>7, <1>8, <1>9 DEF RunInv

LEMMA CommitResultsInv == ASSUME TypeOK, NEW r \in Runs, RunInv(r), CommitResults(r) PROVE RunInv(r)'
<1>1. /\ run'[r].pc = "stored" /\ run'[r].attempt = run[r].attempt /\ run'[r].left = <<>>
      /\ run'[r].geo = run[r].geo /\ run'[r].results = run[r].results
      /\ run'[r].approved = run[r].approved
  BY PcRun DEF CommitResults, Keeps, RunPCs
<1>2. /\ run[r].pc = "judging" /\ run[r].left = <<>> /\ stored'[r] = stored[r] \cup run[r].results
      /\ UNCHANGED <<injected, geoRow, told, final>>
  BY DEF CommitResults, TypeOK
<1>3. run[r].attempt \in Nat /\ final[r].attempt \in Nat
  BY DEF TypeOK, RunStates
<1>4. ResultsOwn(r)'
  BY <1>1, <1>2 DEF RunInv, ResultsOwn, Handed, Applicable
<1>5. RowsOwn(r)'
  BY <1>1, <1>2, <1>3 DEF RunInv, RowsOwn, ResultsOwn
<1>6. ToldOwn(r)'
  BY <1>2 DEF RunInv, ToldOwn
<1>7. Approved(r)'
  BY <1>1, <1>2 DEF RunInv, Approved, PastGeo, PastReview
<1>8. FinalOwn(r)'
  BY <1>1, <1>2 DEF RunInv, FinalOwn
<1>9. final[r].verdict = "pass" => final[r].attempt # run[r].attempt
  BY <1>2 DEF RunInv, FinalOwn
<1>10. final[r].verdict = "pass" => RowsJudged(r)' = RowsJudged(r)
  BY <1>2, <1>9 DEF RunInv, ResultsOwn, RowsJudged
<1>11. PassOwn(r)'
  BY <1>1, <1>2, <1>10 DEF RunInv, PassOwn, Handed, Applicable
<1> QED
  BY <1>4, <1>5, <1>6, <1>7, <1>8, <1>11 DEF RunInv

LEMMA SkipComplianceInv == ASSUME TypeOK, NEW r \in Runs, RunInv(r), SkipCompliance(r) PROVE RunInv(r)'
<1>1. /\ Keeps(r, {"attempt", "left", "geo", "results", "base", "stop", "approved"})
      /\ run'[r].pc = "scoring"
  BY PcRun DEF SkipCompliance, RunPCs
<1>2. /\ run[r].pc = "judging" /\ run[r].left = <<>> /\ run[r].results = {}
      /\ UNCHANGED <<injected, geoRow, stored, told, final>>
  BY DEF SkipCompliance
<1>3. Approved(r)'
  BY <1>1, <1>2 DEF Keeps, RunInv, Approved, PastGeo, AsksForReview
<1>4. ToldOwn(r)' /\ Keeps(r, {"attempt", "left", "geo", "results"})
  BY <1>1, <1>2 DEF RunInv, ToldOwn, Keeps
<1> QED
  BY <1>1, <1>2, <1>3, <1>4, RunGoesOn

LEMMA PublishInv == ASSUME TypeOK, NEW r \in Runs, RunInv(r), Publish(r) PROVE RunInv(r)'
<1>1. /\ Keeps(r, {"attempt", "left", "geo", "results", "approved"})
      /\ \/ AsksForReview(r) /\ run'[r].pc = "stopped" /\ run'[r].stop = "stage_compliance"
         \/ ~AsksForReview(r) /\ run'[r].pc = "scoring"
  BY PublishRun DEF Keeps
<1>2. /\ run[r].pc = "stored" /\ told'[r] = told[r] \cup run[r].results
      /\ UNCHANGED <<injected, geoRow, stored, final>>
  BY DEF Publish, TypeOK
<1>3. Approved(r)'
  BY <1>1, <1>2 DEF Keeps, RunInv, Approved, PastGeo, PastReview, AsksForReview
<1>4. ToldOwn(r)' /\ Keeps(r, {"attempt", "left", "geo", "results"})
  BY <1>1, <1>2 DEF RunInv, ToldOwn, RowsOwn, PastJudges, Keeps
<1>5. PastJudges(run[r])
  BY <1>2 DEF PastJudges
<1> QED
  BY <1>1, <1>2, <1>3, <1>4, <1>5, RunGoesOn

LEMMA ReadProfileInv == ASSUME TypeOK, NEW r \in Runs, RunInv(r), ReadProfile(r) PROVE RunInv(r)'
<1>1. /\ Keeps(r, {"attempt", "left", "geo", "results", "approved"})
      /\ run'[r].pc = "read"
  BY ReadProfileRun DEF Keeps
<1>2. run[r].pc = "scoring" /\ UNCHANGED <<injected, geoRow, stored, told, final>>
  BY DEF ReadProfile
<1>3. Approved(r)'
  BY <1>1, <1>2 DEF Keeps, RunInv, Approved, PastGeo, PastReview, AsksForReview
<1>4. ToldOwn(r)' /\ Keeps(r, {"attempt", "left", "geo", "results"})
  BY <1>1, <1>2 DEF RunInv, ToldOwn, Keeps
<1>5. PastJudges(run[r])
  BY <1>2 DEF PastJudges
<1> QED
  BY <1>1, <1>2, <1>3, <1>4, <1>5, RunGoesOn

LEMMA CommitScoreInv == ASSUME TypeOK, NEW r \in Runs, RunInv(r), CommitScore(r) PROVE RunInv(r)'
<1>1. /\ Keeps(r, {"attempt", "left", "geo", "results", "approved"})
      /\ run'[r].pc \in {"stopped", "judged"}
      /\ run'[r].pc = "stopped" => run'[r].stop = "stage_risk"
  BY CommitScoreRun
<1>2. run[r].pc = "read" /\ UNCHANGED <<injected, geoRow, stored, told, final>>
  BY DEF CommitScore
<1>3. Approved(r)'
  BY <1>1, <1>2 DEF Keeps, RunInv, Approved, PastGeo, PastReview, AsksForReview
<1>4. ToldOwn(r)' /\ Keeps(r, {"attempt", "left", "geo", "results"})
  BY <1>1, <1>2 DEF RunInv, ToldOwn, Keeps
<1>5. PastJudges(run[r])
  BY <1>2 DEF PastJudges
<1> QED
  BY <1>1, <1>2, <1>3, <1>4, <1>5, RunGoesOn

LEMMA ApproveInv == ASSUME TypeOK, NEW r \in Runs, RunInv(r), Approve(r) PROVE RunInv(r)'
<1>1. /\ Keeps(r, {"attempt", "left", "geo", "results"})
      /\ run'[r].approved = run[r].approved \cup {run[r].stop}
      /\ \/ run[r].stop = "stage_geo" /\ run'[r].pc = "judging"
         \/ run[r].stop = "stage_compliance" /\ run'[r].pc = "scoring"
         \/ run[r].stop = "stage_risk" /\ run'[r].pc = "judged"
  BY ApproveRun DEF Keeps, TypeOK, RunStates, StopStages
<1>2. run[r].pc = "stopped" /\ UNCHANGED <<injected, geoRow, stored, told, final>>
  BY DEF Approve
<1>3. Approved(r)'
  BY <1>1, <1>2 DEF Keeps, RunInv, Approved, PastGeo, PastReview, AsksForReview
<1>4. ToldOwn(r)'
  BY <1>2 DEF RunInv, ToldOwn
<1>5. run'[r].pc # "judging" => PastJudges(run[r])
  BY <1>1, <1>2 DEF PastJudges
<1>6. PastJudges(run'[r]) => PastJudges(run[r])
  BY <1>1, <1>5 DEF PastJudges
<1> QED
  BY <1>1, <1>2, <1>3, <1>4, <1>6, RunGoesOn

LEMMA RerunInv == ASSUME TypeOK, NEW r \in Runs, RunInv(r), Rerun(r) PROVE RunInv(r)'
<1>1. /\ run'[r].pc = "ready" /\ run'[r].results = {}
      /\ run'[r].attempt = run[r].attempt + 1 /\ run[r].attempt \in Nat
  BY RerunRun
<1>2. UNCHANGED <<injected, geoRow, stored, told, final>>
  BY DEF Rerun
<1>3. final[r].attempt \in Nat /\ \A row \in stored[r] : row.attempt \in Nat
  BY DEF TypeOK, Results
<1>4. ResultsOwn(r)'
  BY <1>1 DEF ResultsOwn
<1>5. RowsOwn(r)' /\ ToldOwn(r)'
  BY <1>1, <1>2, <1>3 DEF RunInv, RowsOwn, ToldOwn, PastJudges
<1>6. Approved(r)'
  BY <1>1 DEF Approved, PastGeo, PastReview
<1>7. FinalOwn(r)' /\ PassOwn(r)'
  BY <1>1, <1>2, <1>3 DEF RunInv, FinalOwn, PassOwn, RowsJudged, Handed, Applicable
<1> QED
  BY <1>4, <1>5, <1>6, <1>7 DEF RunInv

\* "pass" is given only over verdicts that are all "compliance_passed".
LEMMA PassMeans ==
    ASSUME NEW verdicts \in SUBSET Verdicts, NEW geo, NEW level, RollUp(verdicts, geo, level) = "pass"
    PROVE  geo = {} /\ \A v \in verdicts : v = "compliance_passed"
  BY DEF RollUp, Verdicts

LEMMA JudgedByType ==
    ASSUME TypeOK, NEW r \in Runs, NEW verdicts \in JudgedBy(r)
    PROVE  /\ verdicts \subseteq Verdicts
           /\ run[r].results # {} => verdicts = {row.verdict : row \in run[r].results}
<1>1. CASE run[r].results # {}
  <2>1. run[r].results \subseteq Results
    BY DEF TypeOK, RunStates
  <2>2. verdicts = {row.verdict : row \in run[r].results}
    BY <1>1 DEF JudgedBy
  <2> QED
    BY <2>1, <2>2 DEF Results
<1>2. CASE run[r].results = {}
  <2>1. PICK pick \in Loadable(r) : verdicts = {pick[reg] : reg \in DOMAIN pick}
    BY <1>2 DEF JudgedBy
  <2>2. PICK S : pick \in [S -> Verdicts]
    BY <2>1 DEF Loadable
  <2> QED
    BY <1>2, <2>1, <2>2
<1> QED
  BY <1>1, <1>2

LEMMA FinalJudgmentInv == ASSUME TypeOK, NEW r \in Runs, RunInv(r), FinalJudgment(r) PROVE RunInv(r)'
<1>1. /\ run'[r].pc = "ended" /\ run'[r].attempt = run[r].attempt /\ run'[r].left = run[r].left
      /\ run'[r].geo = run[r].geo /\ run'[r].results = run[r].results
      /\ run'[r].approved = run[r].approved
  BY PcRun DEF FinalJudgment, Keeps, RunPCs
<1>2. run[r].pc = "judged" /\ UNCHANGED <<injected, geoRow, stored, told>>
  BY DEF FinalJudgment
<1>3. PICK verdicts \in JudgedBy(r) :
        final'[r] = [verdict |-> RollUp(verdicts, run[r].geo, Level(profile.score)),
                     attempt |-> run[r].attempt]
  BY DEF FinalJudgment, TypeOK
<1>4. final'[r].attempt = run[r].attempt
  BY <1>3
<1>5. run[r].results \subseteq stored[r] /\ run[r].left = <<>> /\ geoRow[r] = run[r].geo
  BY <1>2 DEF RunInv, RowsOwn, PastJudges
<1>6. RowsJudged(r)' = run[r].results
  BY <1>2, <1>4, <1>5 DEF RunInv, RowsOwn, ResultsOwn, RowsJudged
<1>7. PassOwn(r)'
  <2> SUFFICES ASSUME final'[r].verdict = "pass"
               PROVE  /\ RegulationsOf(run[r].results) = Listed(Handed(r))
                      /\ \A row \in run[r].results : row.verdict = "compliance_passed"
                      /\ geoRow[r] = {}
    BY <1>2, <1>6 DEF PassOwn, Handed, Applicable, RegulationsOf
  <2>1. Listed(<<>>) = {}
    BY DEF Listed
  <2>2. RegulationsOf(run[r].results) = Listed(Handed(r))
    BY <1>2, <1>5, <2>1 DEF RunInv, ResultsOwn
  <2>3. RollUp(verdicts, run[r].geo, Level(profile.score)) = "pass"
    BY <1>3
  <2>4. run[r].geo = {} /\ \A v \in verdicts : v = "compliance_passed"
    BY <2>3, PassMeans, JudgedByType
  <2>5. \A row \in run[r].results : row.verdict \in verdicts
    BY JudgedByType
  <2> QED
    BY <1>5, <2>2, <2>4, <2>5
<1>8. ResultsOwn(r)'
  BY <1>1, <1>2 DEF RunInv, ResultsOwn, Handed, Applicable
<1>9. RowsOwn(r)' /\ ToldOwn(r)'
  BY <1>1, <1>2, <1>5 DEF RunInv, RowsOwn, ToldOwn
<1>10. Approved(r)'
  BY <1>1, <1>2 DEF RunInv, Approved, PastGeo, PastReview, AsksForReview
<1>11. FinalOwn(r)'
  BY <1>1, <1>4 DEF FinalOwn, TypeOK, RunStates
<1> QED
  BY <1>7, <1>8, <1>9, <1>10, <1>11 DEF RunInv

LEMMA JudgeCarbonInv ==
    ASSUME TypeOK, FormInv, NEW r \in Runs, RunInv(r), JudgeCarbon(r) PROVE RunInv(r)'
<1> DEFINE partial == judge[r].weighted # ratio /\ ~judge[r].torn
<1>1. PICK o \in CarbonOutcomes(r) : Judged(r, o, partial)
  BY DEF JudgeCarbon
<1>2. /\ run[r].pc = "judging" /\ run[r].left # <<>> /\ judge[r].pc = "counted"
      /\ UNCHANGED <<injected, geoRow, stored, told, final>>
  BY DEF JudgeCarbon, Judging
<1>3. o \in Outcomes
  BY CarbonOutcomesType
<1>4. partial => o.review
  BY <1>2, PartAsks
<1>5. partial \in BOOLEAN
  OBVIOUS
<1> HIDE DEF partial
<1> QED
  BY <1>1, <1>2, <1>3, <1>4, <1>5, JudgedInv

LEMMA JudgeByModelInv == ASSUME TypeOK, NEW r \in Runs, RunInv(r), JudgeByModel(r) PROVE RunInv(r)'
<1>1. PICK o \in Answered : Judged(r, o, FALSE)
  BY DEF JudgeByModel
<1>2. /\ run[r].pc = "judging" /\ run[r].left # <<>>
      /\ UNCHANGED <<injected, geoRow, stored, told, final>>
  BY DEF JudgeByModel, Judging
<1> QED
  BY <1>1, <1>2, AnsweredType, JudgedInv

LEMMA JudgeStubInv == ASSUME TypeOK, NEW r \in Runs, RunInv(r), JudgeStub(r) PROVE RunInv(r)'
<1> DEFINE o == [verdict |-> "compliance_passed", review |-> FALSE]
<1>1. Judged(r, o, FALSE)
  BY DEF JudgeStub
<1>2. /\ run[r].pc = "judging" /\ run[r].left # <<>>
      /\ UNCHANGED <<injected, geoRow, stored, told, final>>
  BY DEF JudgeStub, Judging
<1>3. o \in Outcomes
  BY DEF Outcomes, Verdicts
<1> HIDE DEF o
<1> QED
  BY <1>1, <1>2, <1>3, JudgedInv
-----------------------------------------------------------------------------
(* Every step                                                              *)

\* All variables but those of the forms, the judges and run r are of the
\* others, or of the batch of r.
BatchOnly(r) ==
    /\ injected' = injected
    /\ \A s \in Runs \ {r} : /\ run'[s] = run[s] /\ geoRow'[s] = geoRow[s] /\ stored'[s] = stored[s]
                             /\ told'[s] = told[s] /\ final'[s] = final[s]

BatchTypes ==
    /\ run \in [Runs -> RunStates]
    /\ geoRow \in [Runs -> SUBSET (Factories \X RiskTypes)]
    /\ stored \in [Runs -> SUBSET Results]
    /\ told \in [Runs -> SUBSET Results]
    /\ final \in [Runs -> [verdict : {"none", "pass", "conditional", "fail"}, attempt : Nat]]

StepOf(r) ==
    \/ GeoAudit(r) \/ WeighCarbon(r) \/ CountCarbon(r) \/ JudgeCarbon(r) \/ JudgeByModel(r)
    \/ JudgeStub(r) \/ SkipCompliance(r) \/ CommitResults(r) \/ Publish(r) \/ ReadProfile(r)
    \/ CommitScore(r) \/ FinalJudgment(r) \/ Approve(r) \/ Rerun(r)

LEMMA OfOneRun == ASSUME TypeOK, NEW r \in Runs, StepOf(r) PROVE BatchOnly(r) /\ BatchTypes'
<1> USE DEF BatchOnly, BatchTypes
<1>1. CASE GeoAudit(r)
  <2>1. Detected \in SUBSET (Factories \X RiskTypes)
    BY DetectedType
  <2> QED
    BY <1>1, <2>1, GeoAuditRun DEF GeoAudit, TypeOK, Moved
<1>2. CASE WeighCarbon(r) \/ CountCarbon(r)
  BY <1>2 DEF WeighCarbon, CountCarbon, pipeVars, TypeOK
<1>3. ASSUME NEW o \in Outcomes, NEW partial \in BOOLEAN, Judged(r, o, partial), run[r].left # <<>>,
             UNCHANGED <<injected, geoRow, stored, told, final>>
      PROVE  BatchOnly(r) /\ BatchTypes'
  <2>1. Moved(r)
    BY <1>3, JudgedRun
  <2> QED
    BY <1>3, <2>1 DEF TypeOK, Moved
<1>4. CASE JudgeCarbon(r)
  <2> DEFINE partial == judge[r].weighted # ratio /\ ~judge[r].torn
  <2>1. PICK o \in CarbonOutcomes(r) : Judged(r, o, partial)
    BY <1>4 DEF JudgeCarbon
  <2>2. run[r].left # <<>> /\ UNCHANGED <<injected, geoRow, stored, told, final>>
    BY <1>4 DEF JudgeCarbon, Judging
  <2>3. o \in Outcomes /\ partial \in BOOLEAN
    BY CarbonOutcomesType
  <2> HIDE DEF partial
  <2> QED
    BY <1>3, <2>1, <2>2, <2>3
<1>5. CASE JudgeByModel(r)
  BY <1>3, <1>5, AnsweredType DEF JudgeByModel, Judging
<1>6. CASE JudgeStub(r)
  <2> DEFINE o == [verdict |-> "compliance_passed", review |-> FALSE]
  <2>1. Judged(r, o, FALSE) /\ run[r].left # <<>> /\ UNCHANGED <<injected, geoRow, stored, told, final>>
    BY <1>6 DEF JudgeStub, Judging
  <2>2. o \in Outcomes
    BY DEF Outcomes, Verdicts
  <2> HIDE DEF o
  <2> QED
    BY <1>3, <2>1, <2>2
<1>7. CASE SkipCompliance(r)
  BY <1>7, PcRun DEF SkipCompliance, TypeOK, Moved, RunPCs
<1>8. CASE CommitResults(r)
  <2>1. Moved(r) /\ UNCHANGED <<injected, geoRow, told, final>>
    BY <1>8, PcRun DEF CommitResults, RunPCs
  <2>2. run[r].results \in SUBSET Results
    BY DEF TypeOK, RunStates
  <2>3. stored' = [stored EXCEPT ![r] = stored[r] \cup run[r].results]
    BY <1>8 DEF CommitResults, TypeOK
  <2> QED
    BY <2>1, <2>2, <2>3 DEF TypeOK, Moved
<1>9. CASE Publish(r)
  <2>1. Moved(r) /\ UNCHANGED <<injected, geoRow, stored, final>>
    BY <1>9, PublishRun DEF Publish
  <2>2. run[r].results \in SUBSET Results
    BY DEF TypeOK, RunStates
  <2>3. told' = [told EXCEPT ![r] = told[r] \cup run[r].results]
    BY <1>9 DEF Publish, TypeOK
  <2> QED
    BY <2>1, <2>2, <2>3 DEF TypeOK, Moved
<1>10. CASE ReadProfile(r)
  BY <1>10, ReadProfileRun DEF ReadProfile, TypeOK, Moved
<1>11. CASE CommitScore(r)
  BY <1>11, CommitScoreRun DEF CommitScore, TypeOK, Moved
<1>12. CASE FinalJudgment(r)
  <2>1. Moved(r) /\ UNCHANGED <<injected, geoRow, stored, told>>
    BY <1>12, PcRun DEF FinalJudgment, RunPCs
  <2>2. PICK verdict \in {"pass", "conditional", "fail"} :
          final' = [final EXCEPT ![r] = [verdict |-> verdict, attempt |-> run[r].attempt]]
    BY <1>12 DEF FinalJudgment, RollUp
  <2>3. run[r].attempt \in Nat
    BY DEF TypeOK, RunStates
  <2> QED
    BY <2>1, <2>2, <2>3 DEF TypeOK, Moved
<1>13. CASE Approve(r)
  BY <1>13, ApproveRun DEF Approve, TypeOK, Moved
<1>14. CASE Rerun(r)
  BY <1>14, RerunRun DEF Rerun, TypeOK, Moved
<1> QED
  BY <1>1, <1>2, <1>4, <1>5, <1>6, <1>7, <1>8, <1>9, <1>10, <1>11, <1>12, <1>13, <1>14 DEF StepOf

LEMMA OfTheRun == ASSUME TypeOK, FormInv, NEW r \in Runs, RunInv(r), StepOf(r) PROVE RunInv(r)'
<1>1. CASE WeighCarbon(r) \/ CountCarbon(r)
  BY <1>1, RunKept DEF WeighCarbon, CountCarbon, pipeVars
<1> QED
  BY <1>1, GeoAuditInv, JudgeCarbonInv, JudgeByModelInv, JudgeStubInv, SkipComplianceInv,
     CommitResultsInv, PublishInv, ReadProfileInv, CommitScoreInv, FinalJudgmentInv, ApproveInv,
     RerunInv DEF StepOf

\* The steps that are of no run.
StepOfOthers ==
    StepSupplierForms \/ (\E score \in Patches : ReadPrior(score)) \/ Upsert \/ PatchFails

LEMMA RunsStep ==
    ASSUME TypeOK, FormInv, \A r \in Runs : RunInv(r), [Next]_vars
    PROVE  BatchTypes' /\ \A r \in Runs : RunInv(r)'
<1>1. CASE StepOfOthers \/ UNCHANGED vars
  <2>1. UNCHANGED pipeVars
    BY <1>1 DEF StepOfOthers, StepSupplierForms, ReadPrior, Upsert, PatchFails, vars
  <2>2. UNCHANGED <<injected, run, geoRow, stored, told, final>>
    BY <2>1 DEF pipeVars
  <2>3. BatchTypes'
    BY <2>2 DEF BatchTypes, TypeOK
  <2> QED
    BY <2>2, <2>3, RunKept
<1>2. ASSUME NEW r \in Runs, StepOf(r) PROVE BatchTypes' /\ \A s \in Runs : RunInv(s)'
  <2>1. BatchOnly(r) /\ BatchTypes'
    BY <1>2, OfOneRun
  <2>2. RunInv(r)'
    BY <1>2, OfTheRun
  <2>3. ASSUME NEW s \in Runs \ {r} PROVE RunInv(s)'
    BY <2>1, RunKept DEF BatchOnly
  <2> QED
    BY <2>1, <2>2, <2>3
<1> QED
  BY <1>1, <1>2 DEF Next, StepOf, StepOfOthers

LEMMA FormInvStep == ASSUME FormInv, [Next]_vars PROVE FormInv'
<1>1. CASE UNCHANGED carbonVars
  BY <1>1 DEF carbonVars, factoryVars, FormInv, FactoriesOK, FormsKept, JudgesSaw, Exist
<1>2. CASE StepSupplierForms
  BY <1>2, FormsStep DEF StepSupplierForms
<1>3. CASE (\E score \in Patches : ReadPrior(score)) \/ Upsert \/ PatchFails \/ UNCHANGED vars
  BY <1>1, <1>3 DEF ReadPrior, Upsert, PatchFails, vars
<1>4. ASSUME NEW r \in Runs, StepOf(r) PROVE FormInv'
  <2>1. CASE WeighCarbon(r)
    BY <2>1, WeighStep DEF WeighCarbon
  <2>2. CASE CountCarbon(r)
    BY <2>2, CountStep DEF CountCarbon
  <2>3. CASE JudgeCarbon(r) \/ Rerun(r)
    BY <2>3, ResetStep DEF JudgeCarbon, Rerun
  <2> QED
    BY <1>1, <1>4, <2>1, <2>2, <2>3
       DEF StepOf, GeoAudit, JudgeByModel, JudgeStub, SkipCompliance, CommitResults, Publish,
           ReadProfile, CommitScore, FinalJudgment, Approve
<1> QED
  BY <1>2, <1>3, <1>4 DEF Next, StepOf
-----------------------------------------------------------------------------
(* The risk profile                                                        *)

ProfileTypes ==
    /\ profile \in Profiles
    /\ cached \in Levels
    /\ lastChange \in [to : Profiles, by : {"nobody", "pipeline", "api"}]
    /\ patch \in [pc : {"idle", "read"}, score : 0..100, prior : Profiles]
    /\ overlapped \in BOOLEAN
    /\ starts \in Nat
    /\ patches \in Nat

ProfileInv == ProfileTypes /\ ProfileKnown

\* Nobody writes the profile, and no run reads it.
LEMMA ProfileKept ==
    ASSUME ProfileInv, UNCHANGED <<riskVars, patchVars>>, starts' \in Nat,
           \A r \in Runs : run'[r].pc = "read" => run[r].pc = "read" /\ run'[r].base = run[r].base
    PROVE  ProfileInv'
  BY DEF ProfileInv, ProfileTypes, ProfileKnown, riskVars, patchVars

LEMMA NoPatchType == NoPatch \in [pc : {"idle", "read"}, score : 0..100, prior : Profiles] /\ NoPatch.pc = "idle"
  BY NoProfileType DEF NoPatch

LEMMA ReadPriorProfile ==
    ASSUME ProfileInv, NEW score \in Patches, ReadPrior(score) PROVE ProfileInv'
<1>1. /\ patch' = [pc |-> "read", score |-> score, prior |-> profile] /\ patches' = patches + 1
      /\ UNCHANGED <<run, starts, profile, cached, lastChange, overlapped>>
  BY DEF ReadPrior, pipeVars, riskVars
<1>2. score \in 0..100
  BY ScoresAssumption
<1> QED
  BY <1>1, <1>2 DEF ProfileInv, ProfileTypes, ProfileKnown

LEMMA UpsertProfile == ASSUME ProfileInv, Upsert PROVE ProfileInv'
<1> DEFINE new == Rated(patch.score)
<1>1. /\ patch.pc = "read" /\ profile' = new /\ cached' = new.level /\ patch' = NoPatch
      /\ lastChange' = IF new = patch.prior THEN lastChange ELSE [to |-> new, by |-> "api"]
      /\ overlapped' = (overlapped \/ (profile' # profile /\ \E r \in Runs : run[r].pc = "read"))
      /\ UNCHANGED <<run, starts, patches>>
  BY DEF Upsert, pipeVars
<1>2. new \in Profiles /\ new.level \in Levels
  BY RatedType DEF ProfileInv, ProfileTypes, Profiles
<1> HIDE DEF new
<1>3. ProfileTypes'
  BY <1>1, <1>2, NoPatchType DEF ProfileInv, ProfileTypes
<1>4. ASSUME ~overlapped' PROVE /\ \A r \in Runs : run[r].pc = "read" => run[r].base = new
                                /\ lastChange'.to.score = new.score /\ lastChange'.to.level = new.level
  <2>1. ~overlapped /\ (new # profile => \A r \in Runs : run[r].pc # "read")
    BY <1>1, <1>4
  <2>2. /\ \A r \in Runs : run[r].pc = "read" => run[r].base = profile
        /\ patch.prior = profile
        /\ lastChange.to.score = profile.score /\ lastChange.to.level = profile.level
    BY <1>1, <2>1 DEF ProfileInv, ProfileKnown
  <2>3. CASE new = patch.prior
    BY <1>1, <2>1, <2>2, <2>3
  <2>4. CASE new # patch.prior
    BY <1>1, <2>1, <2>2, <2>4
  <2> QED
    BY <2>3, <2>4
<1> QED
  BY <1>1, <1>3, <1>4, NoPatchType DEF ProfileInv, ProfileKnown

LEMMA PatchFailsProfile == ASSUME ProfileInv, PatchFails PROVE ProfileInv'
  BY NoPatchType DEF ProfileInv, ProfileTypes, ProfileKnown, PatchFails, pipeVars, riskVars

LEMMA ReadProfileProfile ==
    ASSUME TypeOK, ProfileInv, NEW r \in Runs, ReadProfile(r) PROVE ProfileInv'
<1>1. UNCHANGED <<starts, riskVars, patchVars>>
  BY DEF ReadProfile
<1>2. \A s \in Runs : run'[s].pc = "read" => run'[s].base = profile \/ run'[s] = run[s]
  BY ReadProfileRun DEF Moved
<1> QED
  BY <1>1, <1>2 DEF ProfileInv, ProfileTypes, ProfileKnown, riskVars, patchVars

LEMMA LeastType == \A n \in Nat : Least(100, n) \in 0..100
  BY DEF Least

LEMMA CommitScoreProfile ==
    ASSUME TypeOK, ProfileInv, NEW r \in Runs, CommitScore(r) PROVE ProfileInv'
<1> DEFINE base == run[r].base
           score == Least(100, base.score + IF run[r].geo = {} THEN 0 ELSE 30)
           level == Level(score)
           changed == score # base.score \/ level # base.level
<1>1. base \in Profiles /\ base.score \in 0..100 /\ base.level \in Levels
  BY DEF TypeOK, RunStates, Profiles
<1>2. score \in 0..100
  <2> DEFINE more == IF run[r].geo = {} THEN 0 ELSE 30
  <2>1. base.score + more \in Nat
    BY <1>1
  <2> HIDE DEF more
  <2> QED
    BY <2>1, LeastType DEF more
<1>3. level \in Levels
  BY LevelType
<1>4. /\ run[r].pc = "read"
      /\ profile' = [there |-> TRUE, score |-> IF score # base.score THEN score ELSE profile.score,
                     level |-> IF level # base.level THEN level ELSE profile.level]
      /\ lastChange' = IF changed THEN [to |-> Rated(score), by |-> "pipeline"] ELSE lastChange
      /\ overlapped' = (overlapped \/ (profile' # profile /\ ReadByOthers(r)))
      /\ UNCHANGED <<cached, starts, patch, patches>>
  BY DEF CommitScore, patchVars
<1>5. Rated(score) \in Profiles /\ Rated(score).score = score /\ Rated(score).level = level
  BY <1>2, RatedType DEF Rated
<1>6. \A s \in Runs : run'[s].pc = "read" => s # r /\ run'[s] = run[s]
  BY CommitScoreRun DEF Moved
<1> HIDE DEF score, level, base
<1>7. profile' \in Profiles
  BY <1>1, <1>2, <1>3, <1>4 DEF Profiles, ProfileInv, ProfileTypes
<1>8. lastChange' \in [to : Profiles, by : {"nobody", "pipeline", "api"}]
  BY <1>4, <1>5 DEF ProfileInv, ProfileTypes
<1>9. ProfileTypes'
  BY <1>4, <1>7, <1>8 DEF ProfileInv, ProfileTypes
<1>10. ASSUME ~overlapped' PROVE ProfileKnown'
  <2>1. ~overlapped /\ (profile' # profile => ~ReadByOthers(r))
    BY <1>4, <1>10
  <2>2. /\ base = profile
        /\ \A s \in Runs : run[s].pc = "read" => run[s].base = profile
        /\ patch.pc = "read" => patch.prior = profile
        /\ lastChange.to.score = profile.score /\ lastChange.to.level = profile.level
        /\ cached = profile.level \/ lastChange.by = "pipeline"
    BY <1>4, <2>1 DEF ProfileInv, ProfileKnown, base
  <2>3. \A s \in Runs : run'[s].pc = "read" => run'[s].base = profile'
    BY <1>6, <2>1, <2>2 DEF ReadByOthers
  <2>4. patch'.pc = "read" => patch'.prior = profile'
    BY <1>4, <2>1, <2>2 DEF ReadByOthers
  <2>5. profile'.score = score /\ profile'.level = level
    BY <1>4, <2>2
  <2>6. CASE changed
    <3>1. lastChange'.to = Rated(score) /\ lastChange'.by = "pipeline"
      BY <1>4, <2>6
    <3> QED
      BY <1>5, <2>3, <2>4, <2>5, <3>1 DEF ProfileKnown
  <2>7. CASE ~changed
    <3>1. lastChange' = lastChange /\ score = profile.score /\ level = profile.level
      BY <1>4, <2>2, <2>7
    <3> QED
      BY <1>4, <2>2, <2>3, <2>4, <2>5, <3>1 DEF ProfileKnown
  <2> QED
    BY <2>6, <2>7
<1> QED
  BY <1>9, <1>10 DEF ProfileInv, ProfileKnown

LEMMA ProfileStep == ASSUME TypeOK, ProfileInv, [Next]_vars PROVE ProfileInv'
<1>1. CASE StepSupplierForms \/ UNCHANGED vars
  BY <1>1, ProfileKept
     DEF StepSupplierForms, vars, pipeVars, riskVars, patchVars, ProfileInv, ProfileTypes
<1>2. ASSUME NEW r \in Runs, StepOf(r) PROVE ProfileInv'
  <2>1. CASE ReadProfile(r)
    BY <2>1, ReadProfileProfile
  <2>2. CASE CommitScore(r)
    BY <2>2, CommitScoreProfile
  <2>3. CASE ~ReadProfile(r) /\ ~CommitScore(r)
    <3>1. UNCHANGED <<riskVars, patchVars>>
      BY <1>2, <2>3
         DEF StepOf, GeoAudit, WeighCarbon, CountCarbon, JudgeCarbon, JudgeByModel, JudgeStub,
             SkipCompliance, CommitResults, Publish, FinalJudgment, Approve, Rerun
    <3>2. starts' = starts \/ starts' = starts + 1
      BY <1>2, <2>3
         DEF StepOf, GeoAudit, WeighCarbon, CountCarbon, JudgeCarbon, JudgeByModel, JudgeStub,
             SkipCompliance, CommitResults, Publish, FinalJudgment, Approve, Rerun, pipeVars
    <3>3. \A s \in Runs \ {r} : run'[s] = run[s]
      BY <1>2, OfOneRun DEF BatchOnly
    <3>4. run'[r].pc # "read" \/ run'[r] = run[r]
      <4>1. CASE WeighCarbon(r) \/ CountCarbon(r)
        BY <4>1 DEF WeighCarbon, CountCarbon, pipeVars
      <4>2. CASE GeoAudit(r)
        BY <4>2, GeoAuditRun
      <4>3. ASSUME NEW o \in Outcomes, NEW partial \in BOOLEAN, Judged(r, o, partial),
                   run[r].left # <<>>, run[r].pc = "judging"
            PROVE  run'[r].pc # "read"
        BY <4>3, JudgedRun DEF Keeps
      <4>4. CASE JudgeCarbon(r)
        <5> DEFINE partial == judge[r].weighted # ratio /\ ~judge[r].torn
        <5>1. PICK o \in CarbonOutcomes(r) : Judged(r, o, partial)
          BY <4>4 DEF JudgeCarbon
        <5>2. run[r].pc = "judging" /\ run[r].left # <<>>
          BY <4>4 DEF JudgeCarbon, Judging
        <5>3. o \in Outcomes /\ partial \in BOOLEAN
          BY CarbonOutcomesType
        <5> HIDE DEF partial
        <5> QED
          BY <4>3, <5>1, <5>2, <5>3
      <4>5. CASE JudgeByModel(r)
        BY <4>3, <4>5, AnsweredType DEF JudgeByModel, Judging
      <4>6. CASE JudgeStub(r)
        <5> DEFINE o == [verdict |-> "compliance_passed", review |-> FALSE]
        <5>1. Judged(r, o, FALSE) /\ run[r].pc = "judging" /\ run[r].left # <<>>
          BY <4>6 DEF JudgeStub, Judging
        <5>2. o \in Outcomes
          BY DEF Outcomes, Verdicts
        <5> HIDE DEF o
        <5> QED
          BY <4>3, <5>1, <5>2
      <4>7. CASE SkipCompliance(r) \/ CommitResults(r) \/ FinalJudgment(r)
        BY <4>7, PcRun DEF SkipCompliance, CommitResults, FinalJudgment, RunPCs
      <4>8. CASE Publish(r)
        BY <4>8, PublishRun
      <4>9. CASE Approve(r)
        BY <4>9, ApproveRun DEF TypeOK, RunStates, StopStages
      <4>10. CASE Rerun(r)
        BY <4>10, RerunRun
      <4> QED
        BY <1>2, <2>3, <4>1, <4>2, <4>4, <4>5, <4>6, <4>7, <4>8, <4>9, <4>10 DEF StepOf
    <3> QED
      BY <3>1, <3>2, <3>3, <3>4, ProfileKept DEF ProfileInv, ProfileTypes
  <2> QED
    BY <2>1, <2>2, <2>3
<1> QED
  BY <1>1, <1>2, ReadPriorProfile, UpsertProfile, PatchFailsProfile DEF Next, StepOf
-----------------------------------------------------------------------------
(* Theorems                                                                *)

LEMMA IInvInit == Init => IInv
<1> SUFFICES ASSUME Init PROVE IInv
  OBVIOUS
<1>1. TypeOK
  BY InitType
<1>2. FormsKept /\ JudgesSaw
  BY DEF Init, InitFactories, FormsKept, JudgesSaw, NoForm, NoJudge
<1>3. ASSUME NEW r \in Runs PROVE RunInv(r)
  <2>1. /\ run[r].pc = "ready" /\ run[r].results = {} /\ stored[r] = {} /\ told[r] = {}
        /\ final[r].verdict = "none"
    BY DEF Init, NoRun
  <2> QED
    BY <2>1 DEF RunInv, ResultsOwn, RowsOwn, ToldOwn, Approved, FinalOwn, PassOwn, PastGeo,
                PastJudges, PastReview
<1>4. ProfileKnown
  BY DEF Init, ProfileKnown, NoRun, NoPatch
<1> QED
  BY <1>1, <1>2, <1>3, <1>4 DEF IInv

LEMMA IInvStep == IInv /\ [Next]_vars => IInv'
<1> SUFFICES ASSUME IInv, [Next]_vars PROVE IInv'
  OBVIOUS
<1>1. TypeOK /\ FormInv /\ ProfileInv /\ \A r \in Runs : RunInv(r)
  BY DEF IInv, FormInv, ProfileInv, ProfileTypes, TypeOK
<1>2. FormInv'
  BY <1>1, FormInvStep
<1>3. BatchTypes' /\ \A r \in Runs : RunInv(r)'
  BY <1>1, RunsStep
<1>4. ProfileInv'
  BY <1>1, ProfileStep
<1>5. injected' \in BOOLEAN
  BY <1>1 DEF TypeOK, Next, StepSupplierForms, ReadPrior, Upsert, PatchFails, GeoAudit, WeighCarbon,
              CountCarbon, JudgeCarbon, JudgeByModel, JudgeStub, SkipCompliance, CommitResults,
              Publish, ReadProfile, CommitScore, FinalJudgment, Approve, Rerun, pipeVars, vars
<1>6. TypeOK'
  BY <1>2, <1>3, <1>4, <1>5 DEF TypeOK, FormInv, BatchTypes, ProfileInv, ProfileTypes
<1> QED
  BY <1>2, <1>3, <1>4, <1>6 DEF IInv, FormInv, ProfileInv

\* What the nodes leave behind and what a run carries belong together in
\* every state (agents/state.py:66).
THEOREM Invariant == Spec => []IInv
  BY IInvInit, IInvStep, PTL DEF Spec

\* A run, its rows and its verdicts are what they are declared to be
\* (agents/state.py:66).
THEOREM TypeCorrect == Spec => []TypeOK
<1>1. IInv => TypeOK
  BY DEF IInv
<1> QED
  BY <1>1, Invariant, PTL

\* A verdict of article 7 nobody is asked to review was reached over every
\* factory of the batch, or a form came between the two queries
\* (agents/compliance.py:629).
THEOREM CarbonComplete == Spec => []UnreviewedIsComplete
<1>1. IInv => UnreviewedIsComplete
  BY DEF IInv, RunInv, RowsOwn, UnreviewedIsComplete
<1> QED
  BY <1>1, Invariant, PTL

\* "pass" has a passed row of the same run for every regulation that applies, or
\* for none, and then the list was not handed on; and no risk of place
\* (agents/final_judgment.py:18).
THEOREM PassCorrect == Spec => []PassIsWhole
<1>1. IInv => PassIsWhole
  <2>1. \A r \in Runs : Listed(Handed(r)) = IF injected THEN Listed(Applicable(r)) ELSE {}
    BY DEF Handed, Listed
  <2> QED
    BY <2>1 DEF IInv, RunInv, PassOwn, RowsJudged, RegulationsOf, Listed, PassIsWhole
<1> QED
  BY <1>1, Invariant, PTL

\* A final judgment waits for the approval of each stop it rests on
\* (agents/compliance.py:1075).
THEOREM ReviewCorrect == Spec => []ReviewedBeforeFinal
<1>1. ASSUME IInv, NEW r \in Runs, final[r].verdict # "none", final[r].attempt = run[r].attempt
      PROVE  /\ (\E row \in stored[r] : row.attempt = final[r].attempt /\ row.review)
                  => "stage_compliance" \in run[r].approved
             /\ run[r].geo # {} => "stage_geo" \in run[r].approved
  <2>1. run[r].pc = "ended"
    BY <1>1 DEF IInv, RunInv, FinalOwn
  <2>2. PastGeo(run[r]) /\ PastReview(run[r])
    BY <2>1 DEF PastGeo, PastReview
  <2>3. \A row \in stored[r] : row.attempt = final[r].attempt => row \in run[r].results
    BY <1>1 DEF IInv, RunInv, RowsOwn
  <2> QED
    BY <1>1, <2>2, <2>3 DEF IInv, RunInv, Approved, AsksForReview
<1>2. IInv => ReviewedBeforeFinal
  BY <1>1 DEF ReviewedBeforeFinal
<1> QED
  BY <1>2, Invariant, PTL

\* What a ComplianceCompleted event tells is in the database
\* (agents/compliance.py:1090).
THEOREM ToldCorrect == Spec => []ToldWhatIsStored
<1>1. IInv => ToldWhatIsStored
  BY DEF IInv, RunInv, ToldOwn, ToldWhatIsStored
<1> QED
  BY <1>1, Invariant, PTL

\* The last row of the history is the profile, as long as no writer of it had
\* been overtaken (domains/risk/service.py:16).
THEOREM HistoryCorrect == Spec => []HistoryTellsProfile
<1>1. IInv => HistoryTellsProfile
  BY DEF IInv, ProfileKnown, HistoryTellsProfile
<1> QED
  BY <1>1, Invariant, PTL
=============================================================================
