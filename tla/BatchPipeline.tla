--------------------------- MODULE BatchPipeline ---------------------------
(***************************************************************************)
(* One batch of the compliance pipeline and everybody who works on it:     *)
(* the LangGraph graph of agents/graph.py run by event handlers and by ARQ *)
(* workers, its checkpoint, the rows of batches and hitl_reviews, the      *)
(* reviewers who decide over the HITL API and the hitl_queue job that      *)
(* carries an approval back to the graph.                                  *)
(*                                                                         *)
(* A run is one ainvoke of the graph.  It works on its own copy of the     *)
(* BatchState and writes it to the thread's checkpoint after every node,   *)
(* so runs that overlap overwrite each other's checkpoint.  The database   *)
(* steps of hitl_interrupt_node are separate actions because other runs    *)
(* and reviewers commit between them; every other node commits once.       *)
(***************************************************************************)
EXTENDS Naturals, Sequences, FiniteSets

CONSTANTS
    StartPaths,      \* what starts the graph for this batch
    Clerks,          \* decision requests that may be in flight together
    RaisingStages,   \* stages whose node may ask for a human review
    SupplierCases,   \* whether data_gateway finds suppliers in the BOM tree
    SeededStages,    \* stages of waiting batches loaded without a checkpoint
    Faults,          \* failures that may happen
    MaxDecisions,    \* bound: decision requests
    MaxFaults        \* bound: failures

EventPaths == {"SubmissionCompleted", "SubmissionApproved"}

ASSUME PathsAssumption == StartPaths \subseteq EventPaths \cup {"pipelineJob"}
ASSUME ClerksAssumption == IsFiniteSet(Clerks)
ASSUME CasesAssumption ==
    /\ RaisingStages \subseteq
         {"stage_extraction", "stage_geo", "stage_compliance", "stage_risk"}
    /\ SupplierCases \subseteq BOOLEAN
    /\ SeededStages \subseteq {"stage_compliance", "stage_risk"}
ASSUME FaultsAssumption == Faults \subseteq {"fail", "api", "restart", "redeliver"}
ASSUME BoundsAssumption == MaxDecisions \in Nat /\ MaxFaults \in Nat

Stages == {"stage_queued", "stage_extraction", "stage_geo",
           "stage_compliance", "stage_risk", "stage_judgment"}
Errors == {"none", "low_confidence", "geographical_risk", "risk_escalated"}
Reasons == {"gray_zone", "geographical_risk", "risk_escalated"}
Resolutions == {"approve", "reject"}

Runs == StartPaths \cup {"hitlJob"}
Nodes == {"supervisor", "data_gateway", "geo_audit", "compliance",
          "risk_scoring", "final_judgment", "completed", "hitl_interrupt"}

\* Inside hitl_interrupt: the batches row is locked by the UPDATE, the open
\* review was looked up, the transaction is committed.
HoldingRow == {"locked", "checked"}
InNode == Nodes \cup HoldingRow \cup {"paused"}
PCs == InNode \cup {"waiting", "starting", "ended"}

\* BatchState, as far as routing reads it: current_stage, error_reason and
\* whether extraction_result holds supplier_ids.
BatchStates == [stage : Stages, err : Errors, sids : BOOLEAN]
NoState == [stage |-> "stage_queued", err |-> "none", sids |-> FALSE]
Reviews == [reason : Reasons, stage : Stages,
            status : {"hitl_pending", "hitl_resolved"},
            resolution : Resolutions \cup {"none"}]

VARIABLES
    status,      \* batches.status
    stage,       \* batches.current_stage
    rowLock,     \* run whose open transaction has updated the batches row
    reviews,     \* rows of hitl_reviews, oldest first
    ckpt,        \* latest checkpoint of the thread: next node and BatchState
    run,         \* per run: node, BatchState, unread resume answer, fresh row
    job,         \* the job hitl_resume:{batch_id} on hitl_queue
    clerk,       \* per decision request: progress, review read, resolution
    saved,       \* results committed for the batch by geo_audit, risk_scoring
    entry,       \* history: the stage the batch began at
    approvals,   \* history: approve decisions committed
    passes,      \* history: stops passed
    decisions,   \* bound counter
    faults       \* bound counter

vars == <<status, stage, rowLock, reviews, ckpt, run, job, clerk, saved,
          entry, approvals, passes, decisions, faults>>

Batch == <<status, stage, rowLock, reviews>>
Human == <<clerk, approvals, decisions>>

\* The checkpoint "no checkpoint" has next = "none".
TypeOK ==
    /\ status \in {"batch_processing", "batch_hitl_wait", "batch_rejected"}
    /\ stage \in Stages
    /\ rowLock \in Runs \cup {"free"}
    /\ reviews \in Seq(Reviews)
    /\ ckpt \in [next : Nodes \cup {"none", "end"}, state : BatchStates]
    /\ run \in [Runs -> [pc : PCs, state : BatchStates,
                         answer : BOOLEAN, fresh : BOOLEAN]]
    /\ job \in {"absent", "queued", "running", "kept"}
    /\ clerk \in [Clerks -> [pc : {"idle", "read", "committed"},
                             review : Nat, resolution : Resolutions]]
    /\ saved \subseteq {"geo", "risk"}
    /\ entry \in Stages
    /\ approvals \in Nat
    /\ passes \in Nat
    /\ decisions \in Nat
    /\ faults \in Nat

-----------------------------------------------------------------------------
(* Initial states                                                          *)

RunAt(pc) == [pc |-> pc, state |-> NoState, answer |-> FALSE, fresh |-> FALSE]

\* A row of hitl_reviews as it is inserted.
OpenReview(reason, s) ==
    [reason |-> reason, stage |-> s, status |-> "hitl_pending", resolution |-> "none"]

\* A batch just created by submit, its start paths still to come.
FreshBatch ==
    /\ status = "batch_processing"
    /\ stage = "stage_queued"
    /\ reviews = <<>>
    /\ saved = {}
    /\ run = [r \in Runs |-> RunAt(IF r = "hitlJob" THEN "ended" ELSE "waiting")]

\* A batch loaded in batch_hitl_wait with its review, without a checkpoint and
\* without any result of the nodes that its stage has behind it.
SeededBatch ==
    \E s \in SeededStages :
        /\ status = "batch_hitl_wait"
        /\ stage = s
        /\ reviews = << OpenReview(IF s = "stage_risk" THEN "risk_escalated"
                                                       ELSE "gray_zone", s) >>
        /\ saved = {}
        /\ run = [r \in Runs |-> RunAt("ended")]

Init ==
    /\ FreshBatch \/ SeededBatch
    /\ entry = stage
    /\ rowLock = "free"
    /\ ckpt = [next |-> "none", state |-> NoState]
    /\ job = "absent"
    /\ clerk = [c \in Clerks |->
                  [pc |-> "idle", review |-> 0, resolution |-> "approve"]]
    /\ approvals = 0
    /\ passes = 0
    /\ decisions = 0
    /\ faults = 0

-----------------------------------------------------------------------------
(* The graph                                                               *)

\* Variant, not the code: the audit of coordinates is left out.
RouteWithoutGeo(s) ==
    IF s.err # "none" THEN "hitl_interrupt"
    ELSE CASE s.stage = "stage_queued"     -> "data_gateway"
           [] s.stage = "stage_extraction" -> "compliance"
           [] s.stage = "stage_compliance" -> "risk_scoring"
           [] s.stage = "stage_risk"       -> "final_judgment"
           [] s.stage = "stage_judgment"   -> "completed"

\* supervisor.route
Route(s) ==
    IF s.err # "none" THEN "hitl_interrupt"
    ELSE CASE s.stage = "stage_queued"     -> "data_gateway"
           [] s.stage = "stage_extraction" -> "geo_audit"
           [] s.stage = "stage_geo"        -> "compliance"
           [] s.stage = "stage_compliance" -> "risk_scoring"
           [] s.stage = "stage_risk"       -> "final_judgment"
           [] s.stage = "stage_judgment"   -> "completed"

\* The reason column of the review a stop asks for.
ReviewReason(err) == IF err = "low_confidence" THEN "gray_zone" ELSE err

\* The error_reason values a node of stage s may come back with.
MayRaise(s, err) == IF s \in RaisingStages THEN {"none", err} ELSE {"none"}

\* One superstep of run r: it is about to execute node next on state s and
\* the checkpoint says the same.  A resume answer nobody asked for is lost.
Superstep(r, next, s) ==
    /\ run' = [run EXCEPT ![r] = [pc |-> next, state |-> s,
                                  answer |-> FALSE, fresh |-> FALSE]]
    /\ ckpt' = [next |-> next, state |-> s]

\* Run r is over.  A finished hitl_queue job keeps its result for an hour.
Stop(r) ==
    /\ run' = [run EXCEPT ![r] = RunAt("ended")]
    /\ job' = IF r = "hitlJob" THEN "kept" ELSE job

\* start_graph: the input replaces current_stage; what the thread's
\* checkpoint holds under the other keys stays.
StartGraph(r) ==
    Superstep(r, "supervisor", [ckpt.state EXCEPT !.stage = "stage_queued"])

\* on_submission_approved reads the batch and starts nothing once the
\* batch has left stage_queued.
ReceiveEvent(r) ==
    /\ r \in EventPaths
    /\ run[r].pc = "waiting"
    /\ run' = [run EXCEPT ![r].pc =
                 IF stage = "stage_queued" THEN "starting" ELSE "ended"]
    /\ UNCHANGED <<Batch, ckpt, job, Human, saved, entry, passes, faults>>

\* The event handler goes on to start_graph; the pipeline worker's
\* start_batch_pipeline does so without looking at the batch.
Start(r) ==
    /\ run[r].pc = IF r \in EventPaths THEN "starting" ELSE "waiting"
    /\ StartGraph(r)
    /\ UNCHANGED <<Batch, job, Human, saved, entry, passes, faults>>

Supervisor(r) ==
    /\ run[r].pc = "supervisor"
    /\ Superstep(r, Route(run[r].state), run[r].state)
    /\ UNCHANGED <<Batch, job, Human, saved, entry, passes, faults>>

\* Low confidence, unconfirmed or missing fields ask for a review; without
\* suppliers there are no extraction results and the gate never passes.
DataGateway(r) ==
    /\ run[r].pc = "data_gateway"
    /\ \E err \in MayRaise("stage_extraction", "low_confidence"), found \in SupplierCases :
         /\ found \/ err = "low_confidence"
         /\ Superstep(r, "supervisor",
                      [stage |-> "stage_extraction", err |-> err, sids |-> found])
    /\ UNCHANGED <<Batch, job, Human, saved, entry, passes, faults>>

GeoAudit(r) ==
    /\ run[r].pc = "geo_audit"
    /\ \E risk \in MayRaise("stage_geo", "geographical_risk") :
         Superstep(r, "supervisor",
                   [run[r].state EXCEPT !.stage = "stage_geo",
                                        !.err = IF risk = "none" THEN @ ELSE risk])
    /\ saved' = saved \cup {"geo"}
    /\ UNCHANGED <<Batch, job, Human, entry, passes, faults>>

\* Without applicable regulations the node only moves the stage.
Compliance(r) ==
    /\ run[r].pc = "compliance"
    /\ \E err \in MayRaise("stage_compliance", "low_confidence") \cup {run[r].state.err} :
         Superstep(r, "supervisor",
                   [run[r].state EXCEPT !.stage = "stage_compliance", !.err = err])
    /\ UNCHANGED <<Batch, job, Human, saved, entry, passes, faults>>

RiskScoring(r) ==
    /\ run[r].pc = "risk_scoring"
    /\ run[r].state.sids
    /\ \E risk \in MayRaise("stage_risk", "risk_escalated") :
         Superstep(r, "supervisor",
                   [run[r].state EXCEPT !.stage = "stage_risk",
                                        !.err = IF risk = "none" THEN @ ELSE risk])
    /\ saved' = saved \cup {"risk"}
    /\ UNCHANGED <<Batch, job, Human, entry, passes, faults>>

\* "extraction_result has no supplier_ids": the ValueError ends the run and
\* the checkpoint stays at risk_scoring.
RiskScoringFails(r) ==
    /\ run[r].pc = "risk_scoring"
    /\ ~run[r].state.sids
    /\ Stop(r)
    /\ UNCHANGED <<Batch, ckpt, Human, saved, entry, passes, faults>>

FinalJudgment(r) ==
    /\ run[r].pc = "final_judgment"
    /\ rowLock = "free"
    /\ stage' = "stage_judgment"
    /\ Superstep(r, "supervisor", [run[r].state EXCEPT !.stage = "stage_judgment"])
    /\ UNCHANGED <<status, rowLock, reviews, job, Human, saved, entry, passes, faults>>

\* batch_completed is written to the BatchState, never to the batches row.
Completed(r) ==
    /\ run[r].pc = "completed"
    /\ ckpt' = [next |-> "end", state |-> run[r].state]
    /\ Stop(r)
    /\ UNCHANGED <<Batch, Human, saved, entry, passes, faults>>

-----------------------------------------------------------------------------
(* hitl_interrupt_node, replayed from its first line on resume             *)

SameStop(review, s) ==
    /\ review.reason = ReviewReason(s.err)
    /\ review.stage = s.stage

\* Variant, not the code: the update is committed at once, as trace_node would
\* do if it found the batch_id among the arguments of pause_batch_for_review.
PauseBatchCommitted(r) ==
    /\ run[r].pc = "hitl_interrupt"
    /\ rowLock = "free"
    /\ status' = "batch_hitl_wait"
    /\ run' = [run EXCEPT ![r].pc = "locked"]
    /\ UNCHANGED <<stage, rowLock, reviews, ckpt, job, Human, saved, entry, passes, faults>>

\* pause_batch_for_review: the UPDATE locks the row until the commit.
PauseBatch(r) ==
    /\ run[r].pc = "hitl_interrupt"
    /\ rowLock = "free"
    /\ rowLock' = r
    /\ run' = [run EXCEPT ![r].pc = "locked"]
    /\ UNCHANGED <<status, stage, reviews, ckpt, job, Human, saved, entry, passes, faults>>

\* create_pending_hitl_review: the lookup half of the statement.
FindReview(r) ==
    /\ run[r].pc = "locked"
    /\ run' = [run EXCEPT ![r].pc = "checked",
                 ![r].fresh = ~ \E i \in DOMAIN reviews :
                                  /\ reviews[i].status = "hitl_pending"
                                  /\ SameStop(reviews[i], run[r].state)]
    /\ UNCHANGED <<Batch, ckpt, job, Human, saved, entry, passes, faults>>

\* ... its insert, and the commit of the transaction.
CommitReview(r) ==
    /\ run[r].pc = "checked"
    /\ reviews' = IF run[r].fresh
                    THEN Append(reviews, OpenReview(ReviewReason(run[r].state.err),
                                                    run[r].state.stage))
                    ELSE reviews
    /\ status' = "batch_hitl_wait"
    /\ rowLock' = "free"
    /\ run' = [run EXCEPT ![r].pc = "paused"]
    /\ UNCHANGED <<stage, ckpt, job, Human, saved, entry, passes, faults>>

\* interrupt() without an answer ends the run; the checkpoint stays.
Interrupt(r) ==
    /\ run[r].pc = "paused"
    /\ ~run[r].answer
    /\ Stop(r)
    /\ UNCHANGED <<Batch, ckpt, Human, saved, entry, passes, faults>>

\* Variant, not the code: the batch is resumed whatever interrupt() returned.
ResumeBatchUnasked(r) ==
    /\ run[r].pc = "paused"
    /\ rowLock = "free"
    /\ status' = "batch_processing"
    /\ passes' = passes + 1
    /\ Superstep(r, "supervisor", [run[r].state EXCEPT !.err = "none"])
    /\ UNCHANGED <<stage, rowLock, reviews, job, Human, saved, entry, faults>>

\* interrupt() returns HITLApproved; resume_batch_processing has no
\* condition on the status it finds.
ResumeBatch(r) ==
    /\ run[r].pc = "paused"
    /\ run[r].answer
    /\ rowLock = "free"
    /\ status' = "batch_processing"
    /\ passes' = passes + 1
    /\ Superstep(r, "supervisor", [run[r].state EXCEPT !.err = "none"])
    /\ UNCHANGED <<stage, rowLock, reviews, job, Human, saved, entry, faults>>

-----------------------------------------------------------------------------
(* The HITL API: resolve, approve, reject and decision                     *)

\* get_by_batch_id takes any row of the batch; a resolved one is refused.
ReadReview(c) ==
    /\ clerk[c].pc = "idle"
    /\ decisions < MaxDecisions
    /\ \E i \in DOMAIN reviews, res \in Resolutions :
         /\ reviews[i].status = "hitl_pending"
         /\ clerk' = [clerk EXCEPT ![c] =
                        [pc |-> "read", review |-> i, resolution |-> res]]
    /\ decisions' = decisions + 1
    /\ UNCHANGED <<Batch, ckpt, run, job, saved, entry, approvals, passes, faults>>

Decided(c) ==
    [reviews EXCEPT ![clerk[c].review].status = "hitl_resolved",
                    ![clerk[c].review].resolution = clerk[c].resolution]

\* The review object read before is written back, whatever its row holds now.
CommitApproval(c) ==
    /\ clerk[c].pc = "read"
    /\ clerk[c].resolution = "approve"
    /\ reviews' = Decided(c)
    /\ approvals' = approvals + 1
    /\ clerk' = [clerk EXCEPT ![c].pc = "committed"]
    /\ UNCHANGED <<status, stage, rowLock, ckpt, run, job, saved, entry, passes, decisions, faults>>

\* Variant, not the code: the UPDATE without its condition on the status.
CommitRejectionAlways(c) ==
    /\ clerk[c].pc = "read"
    /\ clerk[c].resolution = "reject"
    /\ rowLock = "free"
    /\ reviews' = Decided(c)
    /\ status' = "batch_rejected"
    /\ clerk' = [clerk EXCEPT ![c].pc = "idle"]
    /\ UNCHANGED <<stage, rowLock, ckpt, run, job, saved, entry, approvals, passes, decisions, faults>>

\* Only a waiting batch is rejected; the row lock is held to the commit.
CommitRejection(c) ==
    /\ clerk[c].pc = "read"
    /\ clerk[c].resolution = "reject"
    /\ rowLock = "free"
    /\ reviews' = Decided(c)
    /\ status' = IF status = "batch_hitl_wait" THEN "batch_rejected" ELSE status
    /\ clerk' = [clerk EXCEPT ![c].pc = "idle"]
    /\ UNCHANGED <<stage, rowLock, ckpt, run, job, saved, entry, approvals, passes, decisions, faults>>

\* ARQ refuses a job id that is queued, running or has its result kept; the
\* request answers "success" all the same.
EnqueueResume(c) ==
    /\ clerk[c].pc = "committed"
    /\ job' = IF job = "absent" THEN "queued" ELSE job
    /\ clerk' = [clerk EXCEPT ![c].pc = "idle"]
    /\ UNCHANGED <<Batch, ckpt, run, saved, entry, approvals, passes, decisions, faults>>

-----------------------------------------------------------------------------
(* The hitl_queue worker                                                   *)

\* Variant, not the code: the command carries no HITLApproved answer.
ResumeThreadUnanswered ==
    /\ job = "queued"
    /\ ckpt.next \notin {"none", "end"}
    /\ job' = "running"
    /\ run' = [run EXCEPT !["hitlJob"] = [pc |-> ckpt.next, state |-> ckpt.state,
                                          answer |-> FALSE, fresh |-> FALSE]]
    /\ UNCHANGED <<Batch, ckpt, Human, saved, entry, passes, faults>>

\* resume_graph on a thread with a checkpoint: Command(resume).
ResumeThread ==
    /\ job = "queued"
    /\ ckpt.next \notin {"none", "end"}
    /\ job' = "running"
    /\ run' = [run EXCEPT !["hitlJob"] = [pc |-> ckpt.next, state |-> ckpt.state,
                                          answer |-> TRUE, fresh |-> FALSE]]
    /\ UNCHANGED <<Batch, ckpt, Human, saved, entry, passes, faults>>

\* The thread has reached END: there is nothing to execute.
ResumeFinished ==
    /\ job = "queued"
    /\ ckpt.next = "end"
    /\ job' = "kept"
    /\ UNCHANGED <<Batch, ckpt, run, Human, saved, entry, passes, faults>>

\* No checkpoint: a new invocation from the batches row, which knows the
\* stage but not the results of the nodes before it.
ResumeFromRow ==
    /\ job = "queued"
    /\ ckpt.next = "none"
    /\ rowLock = "free"
    /\ job' = "running"
    /\ status' = "batch_processing"
    /\ passes' = passes + 1
    /\ Superstep("hitlJob", "supervisor", [NoState EXCEPT !.stage = stage])
    /\ UNCHANGED <<stage, rowLock, reviews, Human, saved, entry, faults>>

\* The kept result expires and with it the job id.
ExpireResult ==
    /\ job = "kept"
    /\ job' = "absent"
    /\ UNCHANGED <<Batch, ckpt, run, Human, saved, entry, passes, faults>>

-----------------------------------------------------------------------------
(* Failures                                                                *)

FaultAllowed(f) ==
    /\ f \in Faults
    /\ faults < MaxFaults
    /\ faults' = faults + 1

\* The open transaction of run r is rolled back.
ReleaseRow(r) == rowLock' = IF rowLock = r THEN "free" ELSE rowLock

\* A node raises, the job times out or the process that hosts the handler
\* dies: the run is over and is not retried.
Fail(r) ==
    /\ FaultAllowed("fail")
    /\ run[r].pc \in InNode \cup {"starting"}
    /\ Stop(r)
    /\ ReleaseRow(r)
    /\ UNCHANGED <<status, stage, reviews, ckpt, Human, saved, entry, passes>>

\* The pipeline worker dies; ARQ runs its job again from the start.
RestartPipelineJob ==
    /\ FaultAllowed("restart")
    /\ "pipelineJob" \in StartPaths
    /\ run["pipelineJob"].pc \in InNode
    /\ run' = [run EXCEPT !["pipelineJob"] = RunAt("waiting")]
    /\ ReleaseRow("pipelineJob")
    /\ UNCHANGED <<status, stage, reviews, ckpt, job, Human, saved, entry, passes>>

\* Variant, not the code: max_tries = 1, the job is not run again.
ForgetHitlJob ==
    /\ FaultAllowed("redeliver")
    /\ job = "running"
    /\ job' = "kept"
    /\ run' = [run EXCEPT !["hitlJob"] = RunAt("ended")]
    /\ ReleaseRow("hitlJob")
    /\ UNCHANGED <<status, stage, reviews, ckpt, Human, saved, entry, passes>>

\* The hitl worker dies; ARQ runs its job again.
RedeliverHitlJob ==
    /\ FaultAllowed("redeliver")
    /\ job = "running"
    /\ job' = "queued"
    /\ run' = [run EXCEPT !["hitlJob"] = RunAt("ended")]
    /\ ReleaseRow("hitlJob")
    /\ UNCHANGED <<status, stage, reviews, ckpt, Human, saved, entry, passes>>

\* The API process dies between the commit and the enqueue.
LoseEnqueue(c) ==
    /\ FaultAllowed("api")
    /\ clerk[c].pc = "committed"
    /\ clerk' = [clerk EXCEPT ![c].pc = "idle"]
    /\ UNCHANGED <<Batch, ckpt, run, job, saved, entry, approvals, passes, decisions>>

-----------------------------------------------------------------------------

RunStep(r) ==
    \/ ReceiveEvent(r)
    \/ Start(r)
    \/ Supervisor(r)
    \/ DataGateway(r)
    \/ GeoAudit(r)
    \/ Compliance(r)
    \/ RiskScoring(r)
    \/ RiskScoringFails(r)
    \/ FinalJudgment(r)
    \/ Completed(r)
    \/ PauseBatch(r)
    \/ FindReview(r)
    \/ CommitReview(r)
    \/ Interrupt(r)
    \/ ResumeBatch(r)

ClerkStep(c) ==
    \/ ReadReview(c)
    \/ CommitApproval(c)
    \/ CommitRejection(c)
    \/ EnqueueResume(c)

WorkerStep == ResumeThread \/ ResumeFinished \/ ResumeFromRow

Fault ==
    \/ \E r \in Runs : Fail(r)
    \/ RestartPipelineJob
    \/ RedeliverHitlJob
    \/ \E c \in Clerks : LoseEnqueue(c)

Next ==
    \/ \E r \in Runs : RunStep(r)
    \/ \E c \in Clerks : ClerkStep(c)
    \/ WorkerStep
    \/ ExpireResult
    \/ Fault

Spec == Init /\ [][Next]_vars

\* Event loops and workers go on with what they have begun, a reviewer looks
\* at the queue sooner or later, and redis expires kept results.
Fairness ==
    /\ \A r \in Runs : WF_vars(RunStep(r))
    /\ \A c \in Clerks : WF_vars(ClerkStep(c))
    /\ WF_vars(WorkerStep)
    /\ WF_vars(ExpireResult)

FairSpec == Spec /\ Fairness

-----------------------------------------------------------------------------
(* Properties                                                              *)

\* At most one review is open for a stop (reason and trigger_stage), however
\* many runs reach it together: the lookup and the insert of
\* create_pending_hitl_review run under the row lock that
\* pause_batch_for_review took and the commit of hitl_interrupt_node gives up.
OnePendingPerStop ==
    \A i, j \in DOMAIN reviews :
        /\ reviews[i].status = "hitl_pending"
        /\ reviews[j].status = "hitl_pending"
        /\ reviews[i].reason = reviews[j].reason
        /\ reviews[i].stage = reviews[j].stage
        => i = j

\* The pipeline goes past a stop only by spending an approval of its own: the
\* steps of runs, workers and reviewers implement the gate.
Gate == INSTANCE HitlGate WITH phase <- status, granted <- approvals, passed <- passes
ImplementsGate == Gate!Spec

\* The stages from which the graph still comes to a check.
BeforeAudit == {"stage_queued", "stage_extraction"}
BeforeScore == BeforeAudit \cup {"stage_geo", "stage_compliance"}

\* A batch that began before a check (the geographical audit, the risk score)
\* has the final judgment on its row only when the result of that check is
\* committed, through restarts, replays and overlapping runs.  Nothing is said of
\* a batch loaded past the check: the seeded one at stage_risk is judged with no
\* audit stored, which final_judgment.py:128 takes for "no risk".
JudgedAfterChecks ==
    stage = "stage_judgment" =>
        /\ entry \in BeforeAudit => "geo" \in saved
        /\ entry \in BeforeScore => "risk" \in saved

Settled == stage = "stage_judgment" \/ status = "batch_rejected"

SomebodyActs ==
    \/ \E r \in Runs : run[r].pc # "ended"
    \/ job = "queued"
    \/ \E c \in Clerks : clerk[c].pc # "idle"
    \/ \E i \in DOMAIN reviews : reviews[i].status = "hitl_pending"

\* A batch without judgment or rejection is never left alone: a run, a queued
\* resume job, a decision request in flight or an open review will move it.
NoStranded == Settled \/ SomebodyActs

\* Once the judgment is written no late decision, replay or redelivered job
\* takes the batch out of batch_processing again.
JudgedIsFinal == [][stage = "stage_judgment" => status' = status]_vars

\* Every batch is judged or rejected in the end, and stays so.
EventuallySettled == <>[]Settled
=============================================================================
