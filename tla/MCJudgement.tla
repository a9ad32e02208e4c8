---------------------------- MODULE MCJudgement -----------------------------
(* Judgement for TLC: a batch for the EU, one for Korea.                  *)
EXTENDS Judgement

MCDestination == [eu |-> "EU", kr |-> "KR"]

MCAnswers == {[verdict |-> "compliance_passed", cited |-> TRUE],
              [verdict |-> "compliance_warning", cited |-> FALSE]}

MCRatios == {{"f1", "f2"}}

MCLoaded == {{"f1"}, {"f1", "f2"}}
=============================================================================
