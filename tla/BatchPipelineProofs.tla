------------------------- MODULE BatchPipelineProofs -------------------------
(***************************************************************************)
(* Invariance proofs for BatchPipeline, for every set of start paths,      *)
(* requests, raising stages and faults and every bound.                    *)
(***************************************************************************)
EXTENDS BatchPipeline, FiniteSetTheorems, TLAPS

RunRecords == [pc : PCs, state : BatchStates, answer : BOOLEAN, fresh : BOOLEAN]
Ckpts == [next : Nodes \cup {"none", "end"}, state : BatchStates]
Requests == [Clerks -> [pc : {"idle", "read", "committed"},
                        review : Nat, resolution : Resolutions]]
Jobs == {"absent", "queued", "running", "kept"}

\* A run that works on a stop, and a checkpoint that waits at one, have the
\* error_reason that supervisor.route sent them there for.
StopHasReason ==
    /\ \A r \in Runs : run[r].pc \in {"hitl_interrupt"} \cup HoldingRow
                       => run[r].state.err # "none"
    /\ ckpt.next = "hitl_interrupt" => ckpt.state.err # "none"

-----------------------------------------------------------------------------
(* The operators the actions are built from                                *)

\* The router names a node for every BatchState, and it names the stop only
\* for a state with an error_reason.
LEMMA RouteType ==
    ASSUME NEW s \in BatchStates
    PROVE  /\ Route(s) \in Nodes
           /\ Route(s) = "hitl_interrupt" => s.err # "none"
BY DEF Route, BatchStates, Stages, Errors, Nodes

\* Every error_reason a stop is entered with has a reason for the review row.
LEMMA ReviewReasonType ==
    ASSUME NEW err \in Errors, err # "none"
    PROVE  ReviewReason(err) \in Reasons
BY DEF ReviewReason, Errors, Reasons

\* A request that moves on keeps the shape of its record.
LEMMA ClerkType ==
    ASSUME TypeOK, NEW c \in Clerks, NEW pc \in {"idle", "read", "committed"}
    PROVE  [clerk EXCEPT ![c].pc = pc] \in Requests
<1>1. clerk[c] \in [pc : {"idle", "read", "committed"},
                    review : Nat, resolution : Resolutions]
  BY DEF TypeOK
<1> QED
  BY <1>1 DEF TypeOK, Requests

\* A decision written back keeps hitl_reviews a sequence of rows.
LEMMA DecidedType ==
    ASSUME TypeOK, NEW c \in Clerks
    PROVE  Decided(c) \in Seq(Reviews)
<1>1. /\ clerk[c].review \in Nat
      /\ clerk[c].resolution \in Resolutions
      /\ reviews \in Seq(Reviews)
  BY DEF TypeOK
<1>2. \A i \in 1 .. Len(reviews) : reviews[i] \in Reviews
  BY <1>1
<1>3. /\ DOMAIN Decided(c) = 1 .. Len(reviews)
      /\ \A i \in 1 .. Len(reviews) : Decided(c)[i] \in Reviews
  BY <1>1, <1>2 DEF Decided, Reviews
<1>4. Decided(c) \in [1 .. Len(reviews) -> Reviews]
  BY <1>1, <1>3 DEF Decided
<1> QED
  BY <1>1, <1>4

\* The row create_pending_hitl_review inserts is a row of hitl_reviews.
LEMMA OpenReviewType ==
    ASSUME NEW reason \in Reasons, NEW s \in Stages
    PROVE  OpenReview(reason, s) \in Reviews
BY DEF OpenReview, Reviews

\* A superstep keeps the types of the runs and of the checkpoint and the
\* reason of every stop, when the node it moves to has one.
LEMMA SuperstepType ==
    ASSUME TypeOK, StopHasReason,
           NEW r \in Runs, NEW next \in Nodes, NEW s \in BatchStates,
           next = "hitl_interrupt" => s.err # "none",
           Superstep(r, next, s)
    PROVE  /\ run' \in [Runs -> RunRecords]
           /\ ckpt' \in Ckpts
           /\ StopHasReason'
<1> USE DEF RunRecords, Ckpts
<1>1. [pc |-> next, state |-> s, answer |-> FALSE, fresh |-> FALSE] \in RunRecords
  BY DEF PCs, InNode
<1>2. run' \in [Runs -> RunRecords]
  BY <1>1 DEF TypeOK, Superstep
<1>3. ckpt' \in Ckpts
  BY DEF Superstep
<1>4. StopHasReason'
  BY DEF TypeOK, StopHasReason, Superstep, HoldingRow, Nodes
<1> QED
  BY <1>2, <1>3, <1>4

\* The same for a run that ends.
LEMMA StopType ==
    ASSUME TypeOK, StopHasReason, NEW r \in Runs, Stop(r)
    PROVE  /\ run' \in [Runs -> RunRecords]
           /\ job' \in Jobs
           /\ ckpt' = ckpt => StopHasReason'
<1> USE DEF RunRecords, Jobs
<1>1. RunAt("ended") \in RunRecords
  BY DEF RunAt, NoState, PCs, BatchStates, Stages, Errors
<1>2. run' \in [Runs -> RunRecords]
  BY <1>1 DEF TypeOK, Stop
<1>3. job' \in Jobs
  BY DEF TypeOK, Stop
<1>4. ASSUME ckpt' = ckpt
      PROVE  StopHasReason'
  BY <1>4 DEF TypeOK, StopHasReason, Stop, RunAt, HoldingRow
<1> QED
  BY <1>2, <1>3, <1>4

-----------------------------------------------------------------------------
(* Types                                                                   *)

\* The initial states have the types, and no run is at a stop yet.
LEMMA TypeInit == Init => TypeOK /\ StopHasReason
<1> SUFFICES ASSUME Init
             PROVE  TypeOK /\ StopHasReason
  OBVIOUS
<1>1. NoState \in BatchStates
  BY DEF NoState, BatchStates, Stages, Errors
<1>2. /\ RunAt("ended") \in RunRecords
      /\ RunAt("waiting") \in RunRecords
  BY <1>1 DEF RunAt, RunRecords, PCs
<1>3. run \in [Runs -> RunRecords]
  BY <1>2 DEF Init, FreshBatch, SeededBatch, RunAt
<1>4. reviews \in Seq(Reviews)
  <2>1. CASE FreshBatch
    BY <2>1 DEF FreshBatch
  <2>2. CASE SeededBatch
    <3>1. PICK s \in SeededStages :
            reviews = << OpenReview(IF s = "stage_risk" THEN "risk_escalated"
                                                        ELSE "gray_zone", s) >>
      BY <2>2 DEF SeededBatch
    <3>2. OpenReview(IF s = "stage_risk" THEN "risk_escalated" ELSE "gray_zone", s)
            \in Reviews
      BY CasesAssumption, OpenReviewType DEF Reasons, Stages
    <3> QED
      BY <3>1, <3>2
  <2> QED
    BY <2>1, <2>2 DEF Init
<1>5. /\ status \in {"batch_processing", "batch_hitl_wait", "batch_rejected"}
      /\ stage \in Stages
      /\ saved \subseteq {"geo", "risk"}
  BY CasesAssumption DEF Init, FreshBatch, SeededBatch, Stages
<1>6. TypeOK
  BY <1>1, <1>3, <1>4, <1>5 DEF Init, TypeOK, RunRecords, Resolutions
<1>7. StopHasReason
  BY DEF Init, FreshBatch, SeededBatch, RunAt, StopHasReason, HoldingRow
<1> QED
  BY <1>6, <1>7

\* Every step of a run preserves the types and the reasons of the stops.
LEMMA TypeRunStep ==
    ASSUME TypeOK, StopHasReason, NEW r \in Runs, RunStep(r)
    PROVE  TypeOK' /\ StopHasReason'
<1> USE DEF RunRecords, Ckpts, Jobs, Batch, Human
<1>0. /\ run[r] \in RunRecords
      /\ run[r].state \in BatchStates
      /\ ckpt.state \in BatchStates
  BY DEF TypeOK
<1>1. CASE ReceiveEvent(r)
  <2>1. run' \in [Runs -> RunRecords]
    <3>1. PICK pc \in PCs : run' = [run EXCEPT ![r].pc = pc]
      BY <1>1 DEF ReceiveEvent, PCs
    <3> QED
      BY <1>0, <3>1 DEF TypeOK
  <2>2. StopHasReason'
    BY <1>1 DEF ReceiveEvent, TypeOK, StopHasReason, HoldingRow
  <2> QED
    BY <1>1, <2>1, <2>2 DEF ReceiveEvent, TypeOK
<1>2. CASE Start(r)
  <2>1. [ckpt.state EXCEPT !.stage = "stage_queued"] \in BatchStates
    BY <1>0 DEF BatchStates, Stages
  <2>2. Superstep(r, "supervisor", [ckpt.state EXCEPT !.stage = "stage_queued"])
    BY <1>2 DEF Start, StartGraph
  <2>3. run' \in [Runs -> RunRecords] /\ ckpt' \in Ckpts /\ StopHasReason'
    BY <2>1, <2>2, SuperstepType DEF Nodes
  <2> QED
    BY <1>2, <2>3 DEF Start, TypeOK
<1>3. CASE Supervisor(r)
  <2>1. run' \in [Runs -> RunRecords] /\ ckpt' \in Ckpts /\ StopHasReason'
    BY <1>0, <1>3, RouteType, SuperstepType DEF Supervisor
  <2> QED
    BY <1>3, <2>1 DEF Supervisor, TypeOK
<1>4. CASE DataGateway(r)
  <2>1. PICK err \in MayRaise("stage_extraction", "low_confidence"), found \in SupplierCases :
          Superstep(r, "supervisor",
                    [stage |-> "stage_extraction", err |-> err, sids |-> found])
    BY <1>4 DEF DataGateway
  <2>2. [stage |-> "stage_extraction", err |-> err, sids |-> found] \in BatchStates
    BY CasesAssumption DEF BatchStates, Stages, Errors, MayRaise
  <2>3. run' \in [Runs -> RunRecords] /\ ckpt' \in Ckpts /\ StopHasReason'
    BY <2>1, <2>2, SuperstepType DEF Nodes
  <2> QED
    BY <1>4, <2>3 DEF DataGateway, TypeOK
<1>5. CASE GeoAudit(r)
  <2>1. PICK risk \in MayRaise("stage_geo", "geographical_risk") :
          Superstep(r, "supervisor",
                    [run[r].state EXCEPT !.stage = "stage_geo",
                                         !.err = IF risk = "none" THEN @ ELSE risk])
    BY <1>5 DEF GeoAudit
  <2>2. [run[r].state EXCEPT !.stage = "stage_geo",
                             !.err = IF risk = "none" THEN @ ELSE risk] \in BatchStates
    BY <1>0 DEF BatchStates, Stages, Errors, MayRaise
  <2>3. run' \in [Runs -> RunRecords] /\ ckpt' \in Ckpts /\ StopHasReason'
    BY <2>1, <2>2, SuperstepType DEF Nodes
  <2> QED
    BY <1>5, <2>3 DEF GeoAudit, TypeOK
<1>6. CASE Compliance(r)
  <2>1. PICK err \in MayRaise("stage_compliance", "low_confidence") \cup {run[r].state.err} :
          Superstep(r, "supervisor",
                    [run[r].state EXCEPT !.stage = "stage_compliance", !.err = err])
    BY <1>6 DEF Compliance
  <2>2. [run[r].state EXCEPT !.stage = "stage_compliance", !.err = err] \in BatchStates
    BY <1>0 DEF BatchStates, Stages, Errors, MayRaise
  <2>3. run' \in [Runs -> RunRecords] /\ ckpt' \in Ckpts /\ StopHasReason'
    BY <2>1, <2>2, SuperstepType DEF Nodes
  <2> QED
    BY <1>6, <2>3 DEF Compliance, TypeOK
<1>7. CASE RiskScoring(r)
  <2>1. PICK risk \in MayRaise("stage_risk", "risk_escalated") :
          Superstep(r, "supervisor",
                    [run[r].state EXCEPT !.stage = "stage_risk",
                                         !.err = IF risk = "none" THEN @ ELSE risk])
    BY <1>7 DEF RiskScoring
  <2>2. [run[r].state EXCEPT !.stage = "stage_risk",
                             !.err = IF risk = "none" THEN @ ELSE risk] \in BatchStates
    BY <1>0 DEF BatchStates, Stages, Errors, MayRaise
  <2>3. run' \in [Runs -> RunRecords] /\ ckpt' \in Ckpts /\ StopHasReason'
    BY <2>1, <2>2, SuperstepType DEF Nodes
  <2> QED
    BY <1>7, <2>3 DEF RiskScoring, TypeOK
<1>8. CASE RiskScoringFails(r)
  BY <1>8, StopType DEF RiskScoringFails, TypeOK
<1>9. CASE FinalJudgment(r)
  <2>1. [run[r].state EXCEPT !.stage = "stage_judgment"] \in BatchStates
    BY <1>0 DEF BatchStates, Stages
  <2>2. run' \in [Runs -> RunRecords] /\ ckpt' \in Ckpts /\ StopHasReason'
    BY <1>9, <2>1, SuperstepType DEF FinalJudgment, Nodes
  <2> QED
    BY <1>9, <2>2 DEF FinalJudgment, TypeOK, Stages
<1>10. CASE Completed(r)
  <2>1. run' \in [Runs -> RunRecords] /\ job' \in Jobs
    BY <1>10, StopType DEF Completed
  <2>2. ckpt' \in Ckpts /\ ckpt'.next # "hitl_interrupt"
    BY <1>0, <1>10 DEF Completed
  <2>3. StopHasReason'
    BY <1>10, <2>2 DEF Completed, TypeOK, StopHasReason, Stop, RunAt, HoldingRow
  <2> QED
    BY <1>10, <2>1, <2>2, <2>3 DEF Completed, TypeOK
<1>11. CASE PauseBatch(r)
  <2>1. run' \in [Runs -> RunRecords]
    BY <1>0, <1>11 DEF PauseBatch, TypeOK, PCs, InNode, HoldingRow
  <2>2. StopHasReason'
    BY <1>11 DEF PauseBatch, TypeOK, StopHasReason, HoldingRow
  <2> QED
    BY <1>11, <2>1, <2>2 DEF PauseBatch, TypeOK
<1>12. CASE FindReview(r)
  <2>1. PICK b \in BOOLEAN :
          run' = [run EXCEPT ![r].pc = "checked", ![r].fresh = b]
    BY <1>12 DEF FindReview
  <2>2. run' \in [Runs -> RunRecords]
    BY <1>0, <2>1 DEF TypeOK, PCs, InNode, HoldingRow
  <2>3. /\ run[r].pc = "locked"
        /\ ckpt' = ckpt
    BY <1>12 DEF FindReview
  <2>4. \A q \in Runs : run'[q].state = run[q].state
    BY <1>0, <2>1 DEF TypeOK
  <2>5. \A q \in Runs : q # r => run'[q].pc = run[q].pc
    BY <2>1 DEF TypeOK
  <2>6. StopHasReason'
    BY <2>3, <2>4, <2>5 DEF StopHasReason, HoldingRow
  <2> QED
    BY <1>12, <2>2, <2>6 DEF FindReview, TypeOK
<1>13. CASE CommitReview(r)
  <2>1. run' \in [Runs -> RunRecords]
    <3>1. run' = [run EXCEPT ![r].pc = "paused"]
      BY <1>13 DEF CommitReview
    <3> QED
      BY <1>0, <3>1 DEF TypeOK, PCs, InNode
  <2>2. StopHasReason'
    BY <1>13 DEF CommitReview, TypeOK, StopHasReason, HoldingRow
  <2>3. OpenReview(ReviewReason(run[r].state.err), run[r].state.stage) \in Reviews
    BY <1>0, <1>13, ReviewReasonType, OpenReviewType
       DEF CommitReview, StopHasReason, HoldingRow, BatchStates
  <2>4. reviews' \in Seq(Reviews)
    BY <1>13, <2>3 DEF CommitReview, TypeOK
  <2> QED
    BY <1>13, <2>1, <2>2, <2>4 DEF CommitReview, TypeOK
<1>14. CASE Interrupt(r)
  BY <1>14, StopType DEF Interrupt, TypeOK
<1>15. CASE ResumeBatch(r)
  <2>1. [run[r].state EXCEPT !.err = "none"] \in BatchStates
    BY <1>0 DEF BatchStates, Errors
  <2>2. run' \in [Runs -> RunRecords] /\ ckpt' \in Ckpts /\ StopHasReason'
    BY <1>15, <2>1, SuperstepType DEF ResumeBatch, Nodes
  <2> QED
    BY <1>15, <2>2 DEF ResumeBatch, TypeOK
<1> QED
  BY <1>1, <1>2, <1>3, <1>4, <1>5, <1>6, <1>7, <1>8, <1>9, <1>10, <1>11,
     <1>12, <1>13, <1>14, <1>15 DEF RunStep

\* ... every step of a decision request,
LEMMA TypeClerkStep ==
    ASSUME TypeOK, StopHasReason, NEW c \in Clerks, ClerkStep(c)
    PROVE  TypeOK' /\ StopHasReason'
<1> USE DEF Batch, Human
<1>1. StopHasReason'
  BY DEF ClerkStep, ReadReview, CommitApproval, CommitRejection, EnqueueResume,
         StopHasReason
<1>2. Decided(c) \in Seq(Reviews)
  BY DecidedType
<1>3. CASE ReadReview(c)
  BY <1>1, <1>3 DEF ReadReview, TypeOK
<1>4. CASE CommitApproval(c)
  <2>1. clerk' \in Requests
    BY <1>4, ClerkType DEF CommitApproval
  <2> QED
    BY <1>1, <1>2, <1>4, <2>1 DEF CommitApproval, TypeOK, Requests
<1>5. CASE CommitRejection(c)
  <2>1. clerk' \in Requests
    BY <1>5, ClerkType DEF CommitRejection
  <2> QED
    BY <1>1, <1>2, <1>5, <2>1 DEF CommitRejection, TypeOK, Requests
<1>6. CASE EnqueueResume(c)
  <2>1. clerk' \in Requests
    BY <1>6, ClerkType DEF EnqueueResume
  <2> QED
    BY <1>1, <1>6, <2>1 DEF EnqueueResume, TypeOK, Requests
<1> QED
  BY <1>3, <1>4, <1>5, <1>6 DEF ClerkStep

\* ... every step of the hitl_queue worker,
LEMMA TypeWorkerStep ==
    ASSUME TypeOK, StopHasReason, WorkerStep
    PROVE  TypeOK' /\ StopHasReason'
<1> USE DEF RunRecords, Ckpts, Batch, Human
<1>0. "hitlJob" \in Runs
  BY DEF Runs
<1>1. CASE ResumeThread
  <2>1. [pc |-> ckpt.next, state |-> ckpt.state, answer |-> TRUE, fresh |-> FALSE]
          \in RunRecords
    BY <1>1 DEF ResumeThread, TypeOK, PCs, InNode
  <2>2. run' \in [Runs -> RunRecords]
    BY <1>0, <1>1, <2>1 DEF ResumeThread, TypeOK
  <2>3. StopHasReason'
    BY <1>0, <1>1 DEF ResumeThread, TypeOK, StopHasReason, HoldingRow, Nodes
  <2> QED
    BY <1>1, <2>2, <2>3 DEF ResumeThread, TypeOK
<1>2. CASE ResumeFinished
  BY <1>2 DEF ResumeFinished, TypeOK, StopHasReason
<1>3. CASE ResumeFromRow
  <2>1. [NoState EXCEPT !.stage = stage] \in BatchStates
    BY DEF TypeOK, NoState, BatchStates, Stages, Errors
  <2>2. run' \in [Runs -> RunRecords] /\ ckpt' \in Ckpts /\ StopHasReason'
    BY <1>0, <1>3, <2>1, SuperstepType DEF ResumeFromRow, Nodes
  <2> QED
    BY <1>3, <2>2 DEF ResumeFromRow, TypeOK
<1> QED
  BY <1>1, <1>2, <1>3 DEF WorkerStep

\* ... and every failure.
LEMMA TypeFault ==
    ASSUME TypeOK, StopHasReason, Fault
    PROVE  TypeOK' /\ StopHasReason'
<1> USE DEF RunRecords, Jobs, Batch, Human, FaultAllowed, ReleaseRow
<1>0. /\ "hitlJob" \in Runs
      /\ RunAt("ended") \in RunRecords
      /\ RunAt("waiting") \in RunRecords
  BY DEF Runs, RunAt, NoState, PCs, BatchStates, Stages, Errors
<1>1. ASSUME NEW r \in Runs, Fail(r)
      PROVE  TypeOK' /\ StopHasReason'
  BY <1>1, StopType DEF Fail, TypeOK
<1>2. CASE RestartPipelineJob
  <2>1. run' \in [Runs -> RunRecords]
    BY <1>0, <1>2 DEF RestartPipelineJob, TypeOK
  <2>2. StopHasReason'
    BY <1>2 DEF RestartPipelineJob, TypeOK, StopHasReason, RunAt, HoldingRow
  <2> QED
    BY <1>2, <2>1, <2>2 DEF RestartPipelineJob, TypeOK
<1>3. CASE RedeliverHitlJob
  <2>1. run' \in [Runs -> RunRecords]
    BY <1>0, <1>3 DEF RedeliverHitlJob, TypeOK
  <2>2. StopHasReason'
    BY <1>3 DEF RedeliverHitlJob, TypeOK, StopHasReason, RunAt, HoldingRow
  <2> QED
    BY <1>3, <2>1, <2>2 DEF RedeliverHitlJob, TypeOK
<1>4. ASSUME NEW c \in Clerks, LoseEnqueue(c)
      PROVE  TypeOK' /\ StopHasReason'
  <2>1. clerk' \in Requests
    BY <1>4, ClerkType DEF LoseEnqueue
  <2> QED
    BY <1>4, <2>1 DEF LoseEnqueue, TypeOK, StopHasReason, Requests
<1> QED
  BY <1>1, <1>2, <1>3, <1>4 DEF Fault

\* Every step of the system preserves the types and the reasons of the stops.
LEMMA TypeStep == TypeOK /\ StopHasReason /\ [Next]_vars => TypeOK' /\ StopHasReason'
<1> SUFFICES ASSUME TypeOK, StopHasReason, [Next]_vars
             PROVE  TypeOK' /\ StopHasReason'
  OBVIOUS
<1>1. CASE ExpireResult
  BY <1>1 DEF ExpireResult, TypeOK, StopHasReason, Batch, Human
<1>2. CASE UNCHANGED vars
  BY <1>2 DEF vars, TypeOK, StopHasReason
<1> QED
  BY <1>1, <1>2, TypeRunStep, TypeClerkStep, TypeWorkerStep, TypeFault DEF Next

\* Types are kept for every value of the constants; with them, a run stands at
\* hitl_interrupt only with one of the three error_reasons that
\* _HITL_REASON_BY_ERROR and its default turn into a review reason.
THEOREM TypeCorrect == Spec => [](TypeOK /\ StopHasReason)
BY TypeInit, TypeStep, PTL DEF Spec

-----------------------------------------------------------------------------
(* The hitl_queue job and its run                                          *)

\* The resume job is marked running as long as its run is: the fixed job id
\* keeps a second resume_graph of the batch away.
WorkerAlone == job = "running" \/ run["hitlJob"].pc = "ended"

\* No step starts a second run of the resume job, or ends one without the job.
LEMMA WorkerStepAlone == TypeOK /\ WorkerAlone /\ [Next]_vars => WorkerAlone'
<1> SUFFICES ASSUME TypeOK, WorkerAlone, [Next]_vars
             PROVE  WorkerAlone'
  OBVIOUS
<1> USE DEF Batch, Human, RunAt
<1>0. /\ run \in [Runs -> RunRecords]
      /\ "hitlJob" \in Runs
  BY DEF TypeOK, RunRecords, Runs
<1>1. ASSUME NEW r \in Runs, RunStep(r)
      PROVE  WorkerAlone'
  <2>1. CASE r = "hitlJob"
    <3>1. run["hitlJob"].pc # "ended"
      BY <1>1, <2>1
         DEF RunStep, ReceiveEvent, Start, Supervisor, DataGateway, GeoAudit,
             Compliance, RiskScoring, RiskScoringFails, FinalJudgment, Completed,
             PauseBatch, FindReview, CommitReview, Interrupt, ResumeBatch, EventPaths
    <3>2. job' = job \/ Stop(r)
      BY <1>1
         DEF RunStep, ReceiveEvent, Start, Supervisor, DataGateway, GeoAudit,
             Compliance, RiskScoring, RiskScoringFails, FinalJudgment, Completed,
             PauseBatch, FindReview, CommitReview, Interrupt, ResumeBatch
    <3> QED
      BY <1>0, <2>1, <3>1, <3>2 DEF WorkerAlone, Stop
  <2>2. CASE r # "hitlJob"
    BY <1>0, <1>1, <2>2
       DEF WorkerAlone, Stop, Superstep, StartGraph,
           RunStep, ReceiveEvent, Start, Supervisor, DataGateway, GeoAudit,
           Compliance, RiskScoring, RiskScoringFails, FinalJudgment, Completed,
           PauseBatch, FindReview, CommitReview, Interrupt, ResumeBatch
  <2> QED
    BY <2>1, <2>2
<1>2. ASSUME NEW c \in Clerks, ClerkStep(c)
      PROVE  WorkerAlone'
  BY <1>2 DEF ClerkStep, ReadReview, CommitApproval, CommitRejection, EnqueueResume,
              WorkerAlone
<1>3. CASE WorkerStep
  BY <1>0, <1>3
     DEF WorkerStep, ResumeThread, ResumeFinished, ResumeFromRow, WorkerAlone
<1>4. CASE Fault
  BY <1>0, <1>4 DEF Fault, Fail, Stop, RestartPipelineJob, RedeliverHitlJob,
                    LoseEnqueue, WorkerAlone
<1>5. CASE ExpireResult
  BY <1>5 DEF ExpireResult, WorkerAlone
<1>6. CASE UNCHANGED vars
  BY <1>6 DEF vars, WorkerAlone
<1> QED
  BY <1>1, <1>2, <1>3, <1>4, <1>5, <1>6 DEF Next

-----------------------------------------------------------------------------
(* One open review per stop                                                *)

\* The row lock belongs to the run between its UPDATE and its commit.
LockOwned == \A r \in Runs : rowLock = r <=> run[r].pc \in HoldingRow

\* What the lookup found out is still true when the insert comes.
LookupHolds ==
    \A r \in Runs : run[r].pc = "checked" /\ run[r].fresh =>
        \A i \in DOMAIN reviews :
            ~ /\ reviews[i].status = "hitl_pending"
              /\ SameStop(reviews[i], run[r].state)

ReviewInv == LockOwned /\ LookupHolds /\ OnePendingPerStop

\* "free" is nobody's lock.
LEMMA FreeIsNoRun == "free" \notin Runs
BY PathsAssumption DEF Runs, EventPaths

\* A step of a run that is outside hitl_interrupt's transaction before and
\* after it, and leaves the lock and the reviews alone, changes nothing here.
LEMMA OutsideTransaction ==
    ASSUME TypeOK, ReviewInv, NEW r \in Runs,
           run[r].pc \notin HoldingRow, run'[r].pc \notin HoldingRow,
           \A q \in Runs \ {r} : run'[q] = run[q],
           rowLock' = rowLock, reviews' = reviews
    PROVE  ReviewInv'
<1>1. LockOwned'
  BY DEF ReviewInv, LockOwned
<1>2. LookupHolds'
  BY DEF ReviewInv, LookupHolds, SameStop, HoldingRow
<1>3. OnePendingPerStop'
  BY DEF ReviewInv, OnePendingPerStop
<1> QED
  BY <1>1, <1>2, <1>3 DEF ReviewInv

\* A run that is over, its transaction rolled back, holds the lock no more.
LEMMA TransactionEnds ==
    ASSUME TypeOK, ReviewInv, NEW r \in Runs,
           run'[r].pc \notin HoldingRow,
           \A q \in Runs \ {r} : run'[q] = run[q],
           ReleaseRow(r), reviews' = reviews
    PROVE  ReviewInv'
<1>1. LockOwned'
  BY FreeIsNoRun DEF ReviewInv, LockOwned, ReleaseRow
<1>2. LookupHolds'
  BY DEF ReviewInv, LookupHolds, SameStop, HoldingRow
<1>3. OnePendingPerStop'
  BY DEF ReviewInv, OnePendingPerStop
<1> QED
  BY <1>1, <1>2, <1>3 DEF ReviewInv

\* A decision closes a row and opens none.
LEMMA DecisionClosesOnly ==
    ASSUME TypeOK, ReviewInv, NEW c \in Clerks,
           reviews' = Decided(c), UNCHANGED <<run, rowLock>>
    PROVE  ReviewInv'
<1>1. DOMAIN reviews' = DOMAIN reviews
  BY DEF Decided, TypeOK
<1>2. \A i \in DOMAIN reviews :
        reviews'[i].status = "hitl_pending" => reviews'[i] = reviews[i]
  <2>1. \A i \in DOMAIN reviews : reviews[i] \in Reviews
    BY DEF TypeOK
  <2> QED
    BY <2>1 DEF Decided, Reviews
<1>3. LockOwned'
  BY DEF ReviewInv, LockOwned
<1>4. LookupHolds'
  BY <1>1, <1>2 DEF ReviewInv, LookupHolds, SameStop
<1>5. OnePendingPerStop'
  BY <1>1, <1>2 DEF ReviewInv, OnePendingPerStop
<1> QED
  BY <1>3, <1>4, <1>5 DEF ReviewInv

\* A batch starts with no review or one, and nobody holds its row.
LEMMA ReviewInit == Init => ReviewInv
<1> SUFFICES ASSUME Init
             PROVE  ReviewInv
  OBVIOUS
<1>1. \A r \in Runs : run[r].pc \in {"waiting", "ended"}
  BY DEF Init, FreshBatch, SeededBatch, RunAt
<1>2. LockOwned /\ LookupHolds
  BY <1>1, FreeIsNoRun DEF Init, LockOwned, LookupHolds, HoldingRow
<1>3. OnePendingPerStop
  <2>1. \A i, j \in DOMAIN reviews : i = j
    BY DEF Init, FreshBatch, SeededBatch
  <2> QED
    BY <2>1 DEF OnePendingPerStop
<1> QED
  BY <1>2, <1>3 DEF ReviewInv

\* A run appends a review only while it holds the row and saw none for its stop.
LEMMA ReviewRunStep ==
    ASSUME TypeOK, ReviewInv, NEW r \in Runs, RunStep(r)
    PROVE  ReviewInv'
<1> USE DEF Batch, Human
<1>0. run \in [Runs -> RunRecords]
  BY DEF TypeOK, RunRecords
<1>1. ASSUME run[r].pc \notin HoldingRow, rowLock' = rowLock, reviews' = reviews,
             NEW next \in Nodes, NEW s, Superstep(r, next, s)
      PROVE  ReviewInv'
  <2>1. /\ run'[r].pc \notin HoldingRow
        /\ \A q \in Runs \ {r} : run'[q] = run[q]
    BY <1>0, <1>1 DEF Superstep, Nodes, HoldingRow
  <2> QED
    BY <1>1, <2>1, OutsideTransaction
<1>2. ASSUME run[r].pc \notin HoldingRow, rowLock' = rowLock, reviews' = reviews,
             Stop(r)
      PROVE  ReviewInv'
  <2>1. /\ run'[r].pc \notin HoldingRow
        /\ \A q \in Runs \ {r} : run'[q] = run[q]
    BY <1>0, <1>2 DEF Stop, RunAt, HoldingRow
  <2> QED
    BY <1>2, <2>1, OutsideTransaction
<1>3. CASE ReceiveEvent(r)
  <2>1. /\ run[r].pc \notin HoldingRow
        /\ run'[r].pc \notin HoldingRow
        /\ \A q \in Runs \ {r} : run'[q] = run[q]
    BY <1>0, <1>3 DEF ReceiveEvent, HoldingRow, RunRecords
  <2> QED
    BY <1>3, <2>1, OutsideTransaction DEF ReceiveEvent
<1>4. CASE Start(r)
  BY <1>1, <1>4 DEF Start, StartGraph, Nodes, HoldingRow
<1>5. CASE Supervisor(r)
  BY <1>0, <1>1, <1>5, RouteType DEF Supervisor, RunRecords, HoldingRow
<1>6. CASE DataGateway(r)
  BY <1>1, <1>6 DEF DataGateway, Nodes, HoldingRow
<1>7. CASE GeoAudit(r)
  BY <1>1, <1>7 DEF GeoAudit, Nodes, HoldingRow
<1>8. CASE Compliance(r)
  BY <1>1, <1>8 DEF Compliance, Nodes, HoldingRow
<1>9. CASE RiskScoring(r)
  BY <1>1, <1>9 DEF RiskScoring, Nodes, HoldingRow
<1>10. CASE RiskScoringFails(r)
  BY <1>2, <1>10 DEF RiskScoringFails, HoldingRow
<1>11. CASE FinalJudgment(r)
  BY <1>1, <1>11 DEF FinalJudgment, Nodes, HoldingRow
<1>12. CASE Completed(r)
  BY <1>2, <1>12 DEF Completed, HoldingRow
<1>13. CASE PauseBatch(r)
  <2>1. /\ run'[r].pc = "locked"
        /\ \A q \in Runs \ {r} : run'[q] = run[q]
        /\ \A q \in Runs \ {r} : run[q].pc \notin HoldingRow
    BY <1>0, <1>13, FreeIsNoRun DEF PauseBatch, ReviewInv, LockOwned, RunRecords
  <2>2. LockOwned'
    BY <1>13, <2>1 DEF PauseBatch, LockOwned, HoldingRow
  <2>3. LookupHolds'
    BY <1>13, <2>1 DEF PauseBatch, LookupHolds, HoldingRow
  <2>4. OnePendingPerStop'
    BY <1>13 DEF PauseBatch, ReviewInv, OnePendingPerStop
  <2> QED
    BY <2>2, <2>3, <2>4 DEF ReviewInv
<1>14. CASE FindReview(r)
  <2>1. /\ run'[r].pc = "checked"
        /\ run'[r].state = run[r].state
        /\ run'[r].fresh <=> ~ \E i \in DOMAIN reviews :
                                  /\ reviews[i].status = "hitl_pending"
                                  /\ SameStop(reviews[i], run[r].state)
        /\ \A q \in Runs \ {r} : run'[q] = run[q]
    BY <1>0, <1>14 DEF FindReview, RunRecords
  <2>2. LockOwned'
    BY <1>14, <2>1 DEF FindReview, ReviewInv, LockOwned, HoldingRow
  <2>3. LookupHolds'
    <3>1. reviews' = reviews
      BY <1>14 DEF FindReview
    <3>2. SUFFICES ASSUME NEW q \in Runs, run'[q].pc = "checked", run'[q].fresh,
                          NEW i \in DOMAIN reviews,
                          reviews[i].status = "hitl_pending"
                   PROVE  ~SameStop(reviews[i], run'[q].state)
      BY <3>1 DEF LookupHolds, SameStop
    <3>3. CASE q = r
      BY <2>1, <3>2, <3>3
    <3>4. CASE q # r
      BY <2>1, <3>2, <3>4 DEF ReviewInv, LookupHolds
    <3> QED
      BY <3>3, <3>4
  <2>4. OnePendingPerStop'
    BY <1>14 DEF FindReview, ReviewInv, OnePendingPerStop
  <2> QED
    BY <2>2, <2>3, <2>4 DEF ReviewInv
<1>15. CASE CommitReview(r)
  <2>1. /\ run'[r].pc = "paused"
        /\ \A q \in Runs \ {r} : run'[q] = run[q]
        /\ rowLock = r
        /\ rowLock' = "free"
    BY <1>0, <1>15 DEF CommitReview, ReviewInv, LockOwned, HoldingRow, RunRecords
  <2>2. \A q \in Runs : run'[q].pc \notin HoldingRow
    BY <2>1 DEF ReviewInv, LockOwned, HoldingRow
  <2>3. LockOwned' /\ LookupHolds'
    BY <2>1, <2>2, FreeIsNoRun DEF LockOwned, LookupHolds, HoldingRow
  <2>4. CASE ~run[r].fresh
    BY <1>15, <2>3, <2>4 DEF CommitReview, ReviewInv, OnePendingPerStop
  <2>5. CASE run[r].fresh
    <3>1. reviews' = Append(reviews, OpenReview(ReviewReason(run[r].state.err),
                                                run[r].state.stage))
      BY <1>15, <2>5 DEF CommitReview
    <3>2. /\ DOMAIN reviews' = DOMAIN reviews \cup {Len(reviews) + 1}
          /\ \A i \in DOMAIN reviews : reviews'[i] = reviews[i]
          /\ reviews'[Len(reviews) + 1]
               = OpenReview(ReviewReason(run[r].state.err), run[r].state.stage)
      BY <3>1 DEF TypeOK
    <3>3. \A i \in DOMAIN reviews :
            ~ /\ reviews[i].status = "hitl_pending"
              /\ reviews[i].reason = ReviewReason(run[r].state.err)
              /\ reviews[i].stage = run[r].state.stage
      BY <1>15, <2>5 DEF CommitReview, ReviewInv, LookupHolds, SameStop
    <3>4. OnePendingPerStop'
      BY <3>2, <3>3 DEF ReviewInv, OnePendingPerStop, OpenReview
    <3> QED
      BY <2>3, <3>4 DEF ReviewInv
  <2> QED
    BY <2>4, <2>5
<1>16. CASE Interrupt(r)
  BY <1>2, <1>16 DEF Interrupt, HoldingRow
<1>17. CASE ResumeBatch(r)
  BY <1>1, <1>17 DEF ResumeBatch, Nodes, HoldingRow
<1> QED
  BY <1>3, <1>4, <1>5, <1>6, <1>7, <1>8, <1>9, <1>10, <1>11, <1>12, <1>13,
     <1>14, <1>15, <1>16, <1>17 DEF RunStep

\* ... and no request, worker or failure opens a review.
LEMMA ReviewStep == TypeOK /\ WorkerAlone /\ ReviewInv /\ [Next]_vars => ReviewInv'
<1> SUFFICES ASSUME TypeOK, WorkerAlone, ReviewInv, [Next]_vars
             PROVE  ReviewInv'
  OBVIOUS
<1> USE DEF Batch, Human
<1>0. /\ run \in [Runs -> RunRecords]
      /\ "hitlJob" \in Runs
  BY DEF TypeOK, RunRecords, Runs
<1>1. ASSUME UNCHANGED <<run, rowLock, reviews>>
      PROVE  ReviewInv'
  BY <1>1 DEF ReviewInv, LockOwned, LookupHolds, SameStop, OnePendingPerStop
<1>2. ASSUME NEW c \in Clerks, ClerkStep(c)
      PROVE  ReviewInv'
  BY <1>1, <1>2, DecisionClosesOnly
     DEF ClerkStep, ReadReview, CommitApproval, CommitRejection, EnqueueResume
<1>3. CASE WorkerStep
  <2>1. CASE ResumeFinished
    BY <1>1, <2>1 DEF ResumeFinished
  <2>2. CASE ResumeThread
    <3>1. /\ run["hitlJob"].pc = "ended"
          /\ run'["hitlJob"].pc \in Nodes
          /\ \A q \in Runs \ {"hitlJob"} : run'[q] = run[q]
      BY <1>0, <2>2 DEF ResumeThread, WorkerAlone, TypeOK
    <3> QED
      BY <1>0, <2>2, <3>1, OutsideTransaction DEF ResumeThread, Nodes, HoldingRow
  <2>3. CASE ResumeFromRow
    <3>1. /\ run["hitlJob"].pc = "ended"
          /\ run'["hitlJob"].pc = "supervisor"
          /\ \A q \in Runs \ {"hitlJob"} : run'[q] = run[q]
      BY <1>0, <2>3 DEF ResumeFromRow, Superstep, WorkerAlone
    <3> QED
      BY <1>0, <2>3, <3>1, OutsideTransaction DEF ResumeFromRow, HoldingRow
  <2> QED
    BY <1>3, <2>1, <2>2, <2>3 DEF WorkerStep
<1>4. CASE Fault
  <2>1. ASSUME NEW r \in Runs, Fail(r)
        PROVE  ReviewInv'
    <3>1. /\ run'[r].pc \notin HoldingRow
          /\ \A q \in Runs \ {r} : run'[q] = run[q]
      BY <1>0, <2>1 DEF Fail, Stop, RunAt, HoldingRow
    <3> QED
      BY <2>1, <3>1, TransactionEnds DEF Fail
  <2>2. CASE RestartPipelineJob
    <3>1. /\ "pipelineJob" \in Runs
          /\ run'["pipelineJob"].pc \notin HoldingRow
          /\ \A q \in Runs \ {"pipelineJob"} : run'[q] = run[q]
      BY <1>0, <2>2 DEF RestartPipelineJob, RunAt, HoldingRow, Runs
    <3> QED
      BY <2>2, <3>1, TransactionEnds DEF RestartPipelineJob
  <2>3. CASE RedeliverHitlJob
    <3>1. /\ run'["hitlJob"].pc \notin HoldingRow
          /\ \A q \in Runs \ {"hitlJob"} : run'[q] = run[q]
      BY <1>0, <2>3 DEF RedeliverHitlJob, RunAt, HoldingRow
    <3> QED
      BY <1>0, <2>3, <3>1, TransactionEnds DEF RedeliverHitlJob
  <2>4. ASSUME NEW c \in Clerks, LoseEnqueue(c)
        PROVE  ReviewInv'
    BY <1>1, <2>4 DEF LoseEnqueue
  <2> QED
    BY <1>4, <2>1, <2>2, <2>3, <2>4 DEF Fault
<1>5. CASE ExpireResult
  BY <1>1, <1>5 DEF ExpireResult
<1>6. CASE UNCHANGED vars
  BY <1>1, <1>6 DEF vars
<1> QED
  BY <1>2, <1>3, <1>4, <1>5, <1>6, ReviewRunStep DEF Next

\* The resume job is absent at first, and so is its run.
LEMMA WorkerAloneInit == Init => WorkerAlone
BY DEF Init, FreshBatch, SeededBatch, RunAt, Runs, WorkerAlone

\* However many runs of however many start paths reach a stop together, and
\* whatever fails, a stop has at most one open review.
THEOREM OneReviewPerStop == Spec => []OnePendingPerStop
<1>1. Init => TypeOK /\ StopHasReason /\ WorkerAlone /\ ReviewInv
  BY TypeInit, WorkerAloneInit, ReviewInit
<1>2. /\ TypeOK /\ StopHasReason /\ WorkerAlone /\ ReviewInv
      /\ [Next]_vars
      => (TypeOK /\ StopHasReason /\ WorkerAlone /\ ReviewInv)'
  BY TypeStep, WorkerStepAlone, ReviewStep
<1>3. ReviewInv => OnePendingPerStop
  BY DEF ReviewInv
<1> QED
  BY <1>1, <1>2, <1>3, PTL DEF Spec

-----------------------------------------------------------------------------
(* The gate                                                                *)

\* Approvals on their way to the graph: those committed and not enqueued, the
\* one in hitl_queue, and the one a resumed run has not used yet.
Committed == {c \in Clerks : clerk[c].pc = "committed"}
InQueue == IF job = "queued" THEN 1 ELSE 0
InHand == IF run["hitlJob"].answer THEN 1 ELSE 0

AnswerOwner == \A r \in Runs : run[r].answer => r = "hitlJob" /\ run[r].pc # "ended"
Budget == passes + InQueue + InHand + Cardinality(Committed) <= approvals

\* The requests that have committed and not enqueued are finitely many.
LEMMA CommittedFinite == IsFiniteSet(Committed) /\ Cardinality(Committed) \in Nat
<1>1. IsFiniteSet(Committed)
  BY ClerksAssumption, FS_Subset DEF Committed
<1> QED
  BY <1>1, FS_CardinalityType

\* A run's step hands out no answer; it spends one where it passes a stop.
LEMMA BudgetRunStep ==
    ASSUME TypeOK, AnswerOwner, Budget, NEW r \in Runs, RunStep(r)
    PROVE  /\ AnswerOwner'
           /\ Budget'
<1> USE DEF Batch, Human
<1>0. /\ run \in [Runs -> RunRecords]
      /\ "hitlJob" \in Runs
      /\ passes \in Nat
      /\ approvals \in Nat
  BY DEF TypeOK, RunRecords, Runs
<1>1. clerk' = clerk /\ approvals' = approvals
  BY DEF RunStep, ReceiveEvent, Start, Supervisor, DataGateway, GeoAudit,
         Compliance, RiskScoring, RiskScoringFails, FinalJudgment, Completed,
         PauseBatch, FindReview, CommitReview, Interrupt, ResumeBatch
<1>2. job' = job \/ job' = "kept"
  BY DEF Stop, RunStep, ReceiveEvent, Start, Supervisor, DataGateway, GeoAudit,
         Compliance, RiskScoring, RiskScoringFails, FinalJudgment, Completed,
         PauseBatch, FindReview, CommitReview, Interrupt, ResumeBatch
<1>3. /\ InQueue' <= InQueue
      /\ InQueue \in 0 .. 1
      /\ InQueue' \in 0 .. 1
  BY <1>2 DEF InQueue
<1>4. Cardinality(Committed') = Cardinality(Committed)
  BY <1>1 DEF Committed
<1>5. /\ \A q \in Runs \ {r} : run'[q] = run[q]
      /\ run'[r].answer => run[r].answer /\ run'[r].pc # "ended"
  <2>1. CASE Stop(r)
    BY <1>0, <2>1 DEF Stop, RunAt
  <2>2. ASSUME NEW next, NEW s, Superstep(r, next, s)
        PROVE  (/\ \A q \in Runs \ {r} : run'[q] = run[q]
                /\ run'[r].answer => run[r].answer /\ run'[r].pc # "ended")
    BY <1>0, <2>2 DEF Superstep
  <2>3. ASSUME NEW pc, pc # "ended", NEW b,
               run' = [run EXCEPT ![r].pc = pc] \/
               run' = [run EXCEPT ![r].pc = pc, ![r].fresh = b]
        PROVE  (/\ \A q \in Runs \ {r} : run'[q] = run[q]
                /\ run'[r].answer => run[r].answer /\ run'[r].pc # "ended")
    BY <1>0, <2>3 DEF RunRecords
  <2>4. CASE ReceiveEvent(r)
    <3>1. ~run[r].answer
      BY <2>4 DEF ReceiveEvent, AnswerOwner, EventPaths
    <3> QED
      BY <1>0, <2>4, <3>1 DEF ReceiveEvent, RunRecords
  <2> QED
    BY <2>1, <2>2, <2>3, <2>4
       DEF StartGraph, RunStep, Start, Supervisor, DataGateway, GeoAudit,
           Compliance, RiskScoring, RiskScoringFails, FinalJudgment, Completed,
           PauseBatch, FindReview, CommitReview, Interrupt, ResumeBatch
<1>6. AnswerOwner'
  BY <1>5 DEF AnswerOwner
<1>7. InHand \in 0 .. 1 /\ InHand' \in 0 .. 1 /\ InHand' <= InHand
  BY <1>0, <1>5 DEF InHand
<1>8. CASE ResumeBatch(r)
  <2>1. r = "hitlJob" /\ InHand = 1 /\ InHand' = 0 /\ passes' = passes + 1
    BY <1>0, <1>8 DEF ResumeBatch, Superstep, AnswerOwner, InHand
  <2>2. Budget'
    BY <1>0, <1>1, <1>3, <1>4, <2>1, CommittedFinite DEF Budget
  <2> QED
    BY <1>6, <2>2
<1>9. CASE ~ResumeBatch(r)
  <2>1. passes' = passes
    BY <1>9 DEF RunStep, ReceiveEvent, Start, Supervisor, DataGateway, GeoAudit,
         Compliance, RiskScoring, RiskScoringFails, FinalJudgment, Completed,
         PauseBatch, FindReview, CommitReview, Interrupt
  <2>2. Budget'
    BY <1>0, <1>1, <1>3, <1>4, <1>7, <2>1, CommittedFinite DEF Budget
  <2> QED
    BY <1>6, <2>2
<1> QED
  BY <1>8, <1>9

\* A decision request adds an approval to the budget or passes its own on.
LEMMA BudgetClerkStep ==
    ASSUME TypeOK, AnswerOwner, Budget, NEW c \in Clerks, ClerkStep(c) \/ LoseEnqueue(c)
    PROVE  AnswerOwner' /\ Budget'
<1> USE DEF Batch, Human
<1>0. /\ clerk \in Requests
      /\ passes \in Nat
      /\ approvals \in Nat
      /\ InQueue \in 0 .. 1
      /\ InHand \in 0 .. 1
  BY DEF TypeOK, Requests, InQueue, InHand
<1>1. AnswerOwner' /\ InHand' = InHand /\ passes' = passes
  BY DEF AnswerOwner, InHand, ClerkStep, ReadReview, CommitApproval, CommitRejection,
         EnqueueResume, LoseEnqueue
<1>2. CASE ReadReview(c) \/ CommitRejection(c)
  <2>1. Committed' = Committed /\ approvals' = approvals /\ InQueue' = InQueue
    BY <1>0, <1>2 DEF ReadReview, CommitRejection, Committed, InQueue, Requests
  <2> QED
    BY <1>1, <2>1 DEF Budget
<1>3. CASE CommitApproval(c)
  <2>1. /\ Committed' = Committed \cup {c}
        /\ c \notin Committed
        /\ approvals' = approvals + 1
        /\ InQueue' = InQueue
    BY <1>0, <1>3 DEF CommitApproval, Committed, InQueue, Requests
  <2>2. Cardinality(Committed') = Cardinality(Committed) + 1
    BY <2>1, CommittedFinite, FS_AddElement
  <2> QED
    BY <1>0, <1>1, <2>1, <2>2, CommittedFinite DEF Budget
<1>4. CASE EnqueueResume(c) \/ LoseEnqueue(c)
  <2>1. /\ Committed' = Committed \ {c}
        /\ c \in Committed
        /\ approvals' = approvals
    BY <1>0, <1>4 DEF EnqueueResume, LoseEnqueue, Committed, Requests
  <2>2. InQueue' <= InQueue + 1 /\ InQueue' \in 0 .. 1
    BY DEF InQueue
  <2>3. Cardinality(Committed') = Cardinality(Committed) - 1
    BY <2>1, CommittedFinite, FS_RemoveElement
  <2> QED
    BY <1>0, <1>1, <2>1, <2>2, <2>3, CommittedFinite DEF Budget
<1> QED
  BY <1>2, <1>3, <1>4 DEF ClerkStep

\* Every step except a redelivery keeps the budget of approvals.
LEMMA BudgetStep ==
    ASSUME "redeliver" \notin Faults
    PROVE  TypeOK /\ WorkerAlone /\ AnswerOwner /\ Budget /\ [Next]_vars
           => AnswerOwner' /\ Budget'
<1> SUFFICES ASSUME TypeOK, WorkerAlone, AnswerOwner, Budget, [Next]_vars
             PROVE  AnswerOwner' /\ Budget'
  OBVIOUS
<1> USE DEF Batch, Human
<1>0. /\ run \in [Runs -> RunRecords]
      /\ "hitlJob" \in Runs
      /\ passes \in Nat
      /\ approvals \in Nat
      /\ Cardinality(Committed) \in Nat
  BY CommittedFinite DEF TypeOK, RunRecords, Runs
<1>1. CASE WorkerStep
  <2>1. /\ clerk' = clerk
        /\ approvals' = approvals
        /\ InQueue = 1
        /\ InQueue' = 0
        /\ InHand = 0
    BY <1>1 DEF WorkerStep, ResumeThread, ResumeFinished, ResumeFromRow, InQueue,
                InHand, WorkerAlone, AnswerOwner, Runs
  <2>2. Cardinality(Committed') = Cardinality(Committed)
    BY <2>1 DEF Committed
  <2>3. CASE ResumeThread
    <3>1. passes' = passes /\ InHand' = 1 /\ AnswerOwner'
      BY <1>0, <2>3 DEF ResumeThread, InHand, AnswerOwner, TypeOK, Nodes
    <3> QED
      BY <1>0, <2>1, <2>2, <3>1 DEF Budget
  <2>4. CASE ResumeFinished
    <3>1. passes' = passes /\ InHand' = 0 /\ AnswerOwner'
      BY <2>1, <2>4 DEF ResumeFinished, InHand, AnswerOwner
    <3> QED
      BY <1>0, <2>1, <2>2, <3>1 DEF Budget
  <2>5. CASE ResumeFromRow
    <3>1. passes' = passes + 1 /\ InHand' = 0 /\ AnswerOwner'
      BY <1>0, <2>5 DEF ResumeFromRow, Superstep, InHand, AnswerOwner
    <3> QED
      BY <1>0, <2>1, <2>2, <3>1 DEF Budget
  <2> QED
    BY <1>1, <2>3, <2>4, <2>5 DEF WorkerStep
<1>2. ASSUME NEW r \in Runs, run' = [run EXCEPT ![r] = RunAt("ended")]
                              \/ run' = [run EXCEPT ![r] = RunAt("waiting")],
             clerk' = clerk, approvals' = approvals, passes' = passes,
             job' = job \/ job' = "kept"
      PROVE  AnswerOwner' /\ Budget'
  <2>1. AnswerOwner' /\ InHand' <= InHand /\ InHand \in 0 .. 1 /\ InHand' \in 0 .. 1
    BY <1>0, <1>2 DEF AnswerOwner, InHand, RunAt
  <2>2. InQueue' <= InQueue /\ InQueue \in 0 .. 1 /\ InQueue' \in 0 .. 1
    BY <1>2 DEF InQueue
  <2>3. Cardinality(Committed') = Cardinality(Committed)
    BY <1>2 DEF Committed
  <2> QED
    BY <1>0, <1>2, <2>1, <2>2, <2>3 DEF Budget
<1>3. CASE Fault
  <2>1. ASSUME NEW r \in Runs, Fail(r)
        PROVE  AnswerOwner' /\ Budget'
    BY <1>2, <2>1 DEF Fail, Stop
  <2>2. CASE RestartPipelineJob
    BY <1>2, <2>2 DEF RestartPipelineJob, Runs
  <2>3. CASE RedeliverHitlJob
    BY <2>3 DEF RedeliverHitlJob, FaultAllowed
  <2> QED
    BY <1>3, <2>1, <2>2, <2>3, BudgetClerkStep DEF Fault
<1>4. CASE ExpireResult
  <2>1. AnswerOwner' /\ InHand' = InHand /\ Committed' = Committed
    BY <1>4 DEF ExpireResult, AnswerOwner, InHand, Committed
  <2> QED
    BY <1>4, <2>1 DEF ExpireResult, Budget, InQueue
<1>5. CASE UNCHANGED vars
  <2>1. AnswerOwner' /\ InHand' = InHand /\ Committed' = Committed /\ InQueue' = InQueue
    BY <1>5 DEF vars, AnswerOwner, InHand, Committed, InQueue
  <2> QED
    BY <1>5, <2>1 DEF vars, Budget
<1> QED
  BY <1>1, <1>3, <1>4, <1>5, BudgetRunStep, BudgetClerkStep DEF Next

\* Nothing is approved and nothing is passed at first.
LEMMA BudgetInit == Init => AnswerOwner /\ Budget
<1> SUFFICES ASSUME Init
             PROVE  AnswerOwner /\ Budget
  OBVIOUS
<1>1. \A r \in Runs : ~run[r].answer
  BY DEF Init, FreshBatch, SeededBatch, RunAt
<1>2. Committed = {} /\ InQueue = 0 /\ InHand = 0
  BY <1>1 DEF Init, Committed, InQueue, InHand, Runs
<1>3. Cardinality(Committed) = 0
  BY <1>2, FS_EmptySet
<1> QED
  BY <1>1, <1>2, <1>3 DEF Init, AnswerOwner, Budget

\* Every step of the system is a step of the gate, or leaves it alone.
LEMMA GateStep ==
    TypeOK /\ WorkerAlone /\ AnswerOwner /\ Budget /\ [Next]_vars
    => [Gate!Next]_(Gate!gateVars)
<1> SUFFICES ASSUME TypeOK, WorkerAlone, AnswerOwner, Budget, [Next]_vars
             PROVE  [Gate!Next]_(Gate!gateVars)
  OBVIOUS
<1> USE DEF Batch, Human, Gate!gateVars
<1>0. /\ passes \in Nat
      /\ approvals \in Nat
      /\ Cardinality(Committed) \in Nat
      /\ InQueue \in 0 .. 1
      /\ InHand \in 0 .. 1
  BY CommittedFinite DEF TypeOK, InQueue, InHand
<1>1. ASSUME NEW r \in Runs, CommitReview(r)
      PROVE  Gate!Next
  BY <1>1 DEF CommitReview, Gate!Next, Gate!Hold
<1>2. ASSUME NEW r \in Runs, ResumeBatch(r)
      PROVE  Gate!Next
  <2>1. InHand = 1
    BY <1>2 DEF ResumeBatch, AnswerOwner, InHand
  <2>2. passes < approvals
    BY <1>0, <2>1 DEF Budget
  <2> QED
    BY <1>2, <2>2 DEF ResumeBatch, Gate!Next, Gate!Pass
<1>3. ASSUME NEW r \in Runs, RunStep(r), ~CommitReview(r), ~ResumeBatch(r)
      PROVE  UNCHANGED Gate!gateVars
  BY <1>3 DEF RunStep, ReceiveEvent, Start, Supervisor, DataGateway, GeoAudit,
              Compliance, RiskScoring, RiskScoringFails, FinalJudgment, Completed,
              PauseBatch, FindReview, Interrupt
<1>4. ASSUME NEW c \in Clerks, ClerkStep(c)
      PROVE  Gate!Next \/ UNCHANGED Gate!gateVars
  BY <1>4 DEF ClerkStep, ReadReview, CommitApproval, CommitRejection, EnqueueResume,
              Gate!Next, Gate!Grant, Gate!Reject
<1>5. CASE WorkerStep
  <2>1. CASE ResumeFromRow
    <3>1. passes < approvals
      BY <1>0, <2>1 DEF ResumeFromRow, InQueue, Budget
    <3> QED
      BY <2>1, <3>1 DEF ResumeFromRow, Gate!Next, Gate!Pass
  <2>2. CASE ResumeThread \/ ResumeFinished
    BY <2>2 DEF ResumeThread, ResumeFinished
  <2> QED
    BY <1>5, <2>1, <2>2 DEF WorkerStep
<1>6. CASE Fault
  BY <1>6 DEF Fault, Fail, RestartPipelineJob, RedeliverHitlJob, LoseEnqueue
<1>7. CASE ExpireResult
  BY <1>7 DEF ExpireResult
<1>8. CASE UNCHANGED vars
  BY <1>8 DEF vars
<1> QED
  BY <1>1, <1>2, <1>3, <1>4, <1>5, <1>6, <1>7, <1>8 DEF Next

\* As long as the hitl worker does not die with a job in its hands, the pipeline
\* passes every stop on an approval of its own: event handlers, workers, restarts,
\* lost requests and reviewers together implement the gate.
THEOREM GateImplemented ==
    ASSUME "redeliver" \notin Faults
    PROVE  Spec => ImplementsGate
<1>1. Init => /\ TypeOK /\ StopHasReason /\ WorkerAlone
              /\ AnswerOwner /\ Budget
  BY TypeInit, WorkerAloneInit, BudgetInit
<1>2. /\ TypeOK /\ StopHasReason /\ WorkerAlone /\ AnswerOwner /\ Budget
      /\ [Next]_vars
      => (TypeOK /\ StopHasReason /\ WorkerAlone /\ AnswerOwner /\ Budget)'
  BY TypeStep, WorkerStepAlone, BudgetStep
<1>3. Init => Gate!Init
  BY DEF Init, FreshBatch, SeededBatch, Gate!Init
<1>4. TypeOK /\ WorkerAlone /\ AnswerOwner /\ Budget /\ [Next]_vars
      => [Gate!Next]_(Gate!gateVars)
  BY GateStep
<1> QED
  BY <1>1, <1>2, <1>3, <1>4, PTL DEF Spec, ImplementsGate, Gate!Spec

-----------------------------------------------------------------------------
(* The judgment and what it is computed from                               *)

\* The results that lie between the stage the batch began at and stage st are
\* committed.
Backed(done, st) ==
    /\ /\ entry \in BeforeAudit
       /\ st \in {"stage_geo", "stage_compliance", "stage_risk", "stage_judgment"}
       => "geo" \in done
    /\ /\ entry \in BeforeScore
       /\ st \in {"stage_risk", "stage_judgment"}
       => "risk" \in done

\* A node works on the stage supervisor.route sends to it.
AtItsStage(node, s) ==
    /\ node = "compliance" => s.stage = "stage_geo"
    /\ node = "risk_scoring" => s.stage = "stage_compliance"
    /\ node = "final_judgment" => s.stage = "stage_risk"

CheckInv ==
    /\ Backed(saved, stage)
    /\ Backed(saved, ckpt.state.stage)
    /\ AtItsStage(ckpt.next, ckpt.state)
    /\ \A r \in Runs : /\ Backed(saved, run[r].state.stage)
                       /\ AtItsStage(run[r].pc, run[r].state)

\* supervisor.route sends a state to the node that works on its stage.
LEMMA RouteAtItsStage ==
    ASSUME NEW s \in BatchStates
    PROVE  AtItsStage(Route(s), s)
BY DEF Route, BatchStates, Stages, AtItsStage

\* A superstep to a node at its stage, with the results of that stage saved.
LEMMA SuperstepBacked ==
    ASSUME TypeOK, CheckInv, NEW r \in Runs, NEW next, NEW s,
           Superstep(r, next, s), entry' = entry, saved \subseteq saved', Backed(saved', stage'),
           Backed(saved', s.stage), AtItsStage(next, s)
    PROVE  CheckInv'
<1> DEFINE rec == [pc |-> next, state |-> s, answer |-> FALSE, fresh |-> FALSE]
<1>1. /\ run' = [run EXCEPT ![r] = rec]
      /\ ckpt' = [next |-> next, state |-> s]
  BY DEF Superstep
<1>2. run'[r] = rec /\ \A q \in Runs \ {r} : run'[q] = run[q]
  BY <1>1 DEF TypeOK
<1>3. \A q \in Runs : /\ Backed(saved', run'[q].state.stage)
                       /\ AtItsStage(run'[q].pc, run'[q].state)
  BY <1>2 DEF CheckInv, Backed, AtItsStage
<1>4. Backed(saved', ckpt'.state.stage) /\ AtItsStage(ckpt'.next, ckpt'.state)
  BY <1>1 DEF Backed
<1> QED
  BY <1>3, <1>4 DEF CheckInv, Backed, AtItsStage

\* A run that ends, or only moves on inside hitl_interrupt, keeps the invariant.
LEMMA QuietBacked ==
    ASSUME TypeOK, CheckInv, UNCHANGED <<stage, saved, entry>>,
           ckpt' = ckpt \/ (ckpt'.next = "end" /\ Backed(saved, ckpt'.state.stage)),
           \A r \in Runs :
              \/ run'[r] = run[r]
              \/ run'[r].state = NoState /\ run'[r].pc \in {"waiting", "ended"}
              \/ run'[r].state = run[r].state
                 /\ run'[r].pc \in {"starting", "ended", "locked", "checked", "paused"}
    PROVE  CheckInv'
<1>1. \A r \in Runs : /\ Backed(saved', run'[r].state.stage)
                       /\ AtItsStage(run'[r].pc, run'[r].state)
  BY DEF CheckInv, Backed, AtItsStage, NoState
<1>2. Backed(saved', ckpt'.state.stage) /\ AtItsStage(ckpt'.next, ckpt'.state)
  BY DEF CheckInv, Backed, AtItsStage
<1>3. Backed(saved', stage')
  BY DEF CheckInv, Backed
<1> QED
  BY <1>1, <1>2, <1>3 DEF CheckInv, Backed, AtItsStage

\* A batch begins with nothing between its first stage and itself.
LEMMA CheckInit == Init => CheckInv
<1> SUFFICES ASSUME Init
             PROVE  CheckInv
  OBVIOUS
<1>1. \A r \in Runs : run[r].state = NoState /\ run[r].pc \in {"waiting", "ended"}
  BY DEF Init, FreshBatch, SeededBatch, RunAt
<1>2. Backed(saved, stage)
  BY CasesAssumption DEF Init, FreshBatch, SeededBatch, Backed, BeforeAudit, BeforeScore
<1> QED
  BY <1>1, <1>2 DEF Init, CheckInv, Backed, AtItsStage, NoState

\* Every step of a run saves a result before it moves past the stage of it.
LEMMA CheckRunStep ==
    ASSUME TypeOK, CheckInv, NEW r \in Runs, RunStep(r)
    PROVE  CheckInv'
<1> USE DEF Batch, Human
<1>0. /\ run \in [Runs -> RunRecords]
      /\ run[r].state \in BatchStates
      /\ ckpt.state \in BatchStates
      /\ Backed(saved, run[r].state.stage)
      /\ AtItsStage(run[r].pc, run[r].state)
      /\ Backed(saved, stage)
  BY DEF TypeOK, RunRecords, CheckInv
<1>1. ASSUME NEW next, NEW s, Superstep(r, next, s),
             UNCHANGED <<stage, saved, entry>>, Backed(saved, s.stage), AtItsStage(next, s)
      PROVE  CheckInv'
  BY <1>0, <1>1, SuperstepBacked DEF Backed
<1>2. CASE Stop(r) /\ UNCHANGED <<stage, saved, entry>> /\
           (ckpt' = ckpt \/ (ckpt'.next = "end" /\ Backed(saved, ckpt'.state.stage)))
  BY <1>0, <1>2, QuietBacked DEF Stop, RunAt
<1>3. CASE ReceiveEvent(r) \/ PauseBatch(r) \/ FindReview(r) \/ CommitReview(r)
  <2>1. \A q \in Runs :
           \/ run'[q] = run[q]
           \/ run'[q].state = run[q].state
              /\ run'[q].pc \in {"starting", "ended", "locked", "checked", "paused"}
    BY <1>0, <1>3 DEF ReceiveEvent, PauseBatch, FindReview, CommitReview, RunRecords
  <2>2. UNCHANGED <<stage, saved, entry, ckpt>>
    BY <1>3 DEF ReceiveEvent, PauseBatch, FindReview, CommitReview
  <2> QED
    BY <2>1, <2>2, QuietBacked
<1>4. CASE Start(r)
  <2>1. [ckpt.state EXCEPT !.stage = "stage_queued"] \in BatchStates
    BY <1>0 DEF BatchStates, Stages
  <2>2. [ckpt.state EXCEPT !.stage = "stage_queued"].stage = "stage_queued"
    BY <1>0 DEF BatchStates
  <2> QED
    BY <1>1, <1>4, <2>1, <2>2 DEF Start, StartGraph, Backed, AtItsStage
<1>5. CASE Supervisor(r)
  BY <1>0, <1>1, <1>5, RouteType, RouteAtItsStage DEF Supervisor
<1>6. CASE DataGateway(r)
  <2>1. PICK err \in MayRaise("stage_extraction", "low_confidence"), found \in SupplierCases :
          Superstep(r, "supervisor",
                    [stage |-> "stage_extraction", err |-> err, sids |-> found])
    BY <1>6 DEF DataGateway
  <2>2. [stage |-> "stage_extraction", err |-> err, sids |-> found] \in BatchStates
    BY CasesAssumption DEF BatchStates, Stages, Errors, MayRaise
  <2> QED
    BY <1>1, <1>6, <2>1, <2>2 DEF DataGateway, Backed, AtItsStage
<1>7. CASE GeoAudit(r)
  <2>0. PICK risk \in MayRaise("stage_geo", "geographical_risk") :
          Superstep(r, "supervisor", [run[r].state EXCEPT !.stage = "stage_geo",
                                   !.err = IF risk = "none" THEN @ ELSE risk])
    BY <1>7 DEF GeoAudit
  <2> DEFINE s == [run[r].state EXCEPT !.stage = "stage_geo",
                                   !.err = IF risk = "none" THEN @ ELSE risk]
  <2>1. Superstep(r, "supervisor", s) /\ s.stage = "stage_geo"
    BY <1>0, <2>0 DEF BatchStates
  <2> HIDE DEF s
  <2>2. saved' = saved \cup {"geo"} /\ UNCHANGED <<stage, entry>>
    BY <1>7 DEF GeoAudit
  <2>3. Backed(saved', stage') /\ Backed(saved', s.stage) /\ AtItsStage("supervisor", s)
    BY <1>0, <2>1, <2>2 DEF Backed, AtItsStage
  <2> QED
    BY <2>1, <2>2, <2>3, SuperstepBacked
<1>8. CASE Compliance(r)
  <2>0. PICK err \in MayRaise("stage_compliance", "low_confidence") \cup {run[r].state.err} :
          Superstep(r, "supervisor", [run[r].state EXCEPT !.stage = "stage_compliance", !.err = err])
    BY <1>8 DEF Compliance
  <2> DEFINE s == [run[r].state EXCEPT !.stage = "stage_compliance", !.err = err]
  <2>1. Superstep(r, "supervisor", s) /\ s.stage = "stage_compliance"
    BY <1>0, <2>0 DEF BatchStates
  <2> HIDE DEF s
  <2>2. UNCHANGED <<saved, stage, entry>> /\ (entry \in BeforeAudit => "geo" \in saved)
    BY <1>0, <1>8 DEF Compliance, AtItsStage, Backed
  <2>3. Backed(saved', stage') /\ Backed(saved', s.stage) /\ AtItsStage("supervisor", s)
    BY <1>0, <2>1, <2>2 DEF Backed, AtItsStage
  <2> QED
    BY <2>1, <2>2, <2>3, SuperstepBacked
<1>9. CASE RiskScoring(r)
  <2>0. PICK risk \in MayRaise("stage_risk", "risk_escalated") :
          Superstep(r, "supervisor", [run[r].state EXCEPT !.stage = "stage_risk",
                                   !.err = IF risk = "none" THEN @ ELSE risk])
    BY <1>9 DEF RiskScoring
  <2> DEFINE s == [run[r].state EXCEPT !.stage = "stage_risk",
                                   !.err = IF risk = "none" THEN @ ELSE risk]
  <2>1. Superstep(r, "supervisor", s) /\ s.stage = "stage_risk"
    BY <1>0, <2>0 DEF BatchStates
  <2> HIDE DEF s
  <2>2. saved' = saved \cup {"risk"} /\ UNCHANGED <<stage, entry>> /\ (entry \in BeforeAudit => "geo" \in saved)
    BY <1>0, <1>9 DEF RiskScoring, AtItsStage, Backed
  <2>3. Backed(saved', stage') /\ Backed(saved', s.stage) /\ AtItsStage("supervisor", s)
    BY <1>0, <2>1, <2>2 DEF Backed, AtItsStage
  <2> QED
    BY <2>1, <2>2, <2>3, SuperstepBacked
<1>10. CASE FinalJudgment(r)
  <2>1. PICK s : Superstep(r, "supervisor", s) /\ s.stage = "stage_judgment"
    BY <1>0, <1>10 DEF FinalJudgment, BatchStates
  <2>2. /\ UNCHANGED <<saved, entry>> /\ stage' = "stage_judgment"
        /\ entry \in BeforeAudit => "geo" \in saved
        /\ entry \in BeforeScore => "risk" \in saved
    BY <1>0, <1>10 DEF FinalJudgment, AtItsStage, Backed
  <2>3. Backed(saved', stage') /\ Backed(saved', s.stage) /\ AtItsStage("supervisor", s)
    BY <2>1, <2>2 DEF Backed, AtItsStage
  <2> QED
    BY <2>1, <2>2, <2>3, SuperstepBacked
<1>11. CASE ResumeBatch(r)
  <2>1. [run[r].state EXCEPT !.err = "none"] \in BatchStates
    BY <1>0 DEF BatchStates, Errors
  <2>2. [run[r].state EXCEPT !.err = "none"].stage = run[r].state.stage
    BY <1>0 DEF BatchStates
  <2> QED
    BY <1>0, <1>1, <1>11, <2>1, <2>2 DEF ResumeBatch, AtItsStage
<1> QED
  BY <1>0, <1>2, <1>3, <1>4, <1>5, <1>6, <1>7, <1>8, <1>9, <1>10, <1>11
     DEF RunStep, RiskScoringFails, Completed, Interrupt

\* ... and so does every step of the system.
LEMMA CheckStep == TypeOK /\ CheckInv /\ [Next]_vars => CheckInv'
<1> SUFFICES ASSUME TypeOK, CheckInv, [Next]_vars
             PROVE  CheckInv'
  OBVIOUS
<1> USE DEF Batch, Human
<1>0. /\ run \in [Runs -> RunRecords]
      /\ "hitlJob" \in Runs
  BY DEF TypeOK, RunRecords, Runs
<1>1. ASSUME NEW c \in Clerks, ClerkStep(c) \/ LoseEnqueue(c)
      PROVE  UNCHANGED <<run, ckpt, stage, saved, entry>>
  BY <1>1 DEF ClerkStep, ReadReview, CommitApproval, CommitRejection, EnqueueResume,
              LoseEnqueue
<1>2. ASSUME UNCHANGED <<run, ckpt, stage, saved, entry>>
      PROVE  CheckInv'
  BY <1>2, QuietBacked
<1>3. CASE ResumeThread
  <2>1. /\ run'["hitlJob"].pc = ckpt.next
        /\ run'["hitlJob"].state = ckpt.state
        /\ \A q \in Runs \ {"hitlJob"} : run'[q] = run[q]
        /\ UNCHANGED <<ckpt, stage, saved, entry>>
    BY <1>0, <1>3 DEF ResumeThread
  <2> QED
    BY <2>1 DEF CheckInv, Backed, AtItsStage
<1>4. CASE ResumeFinished
  BY <1>2, <1>4 DEF ResumeFinished
<1>5. CASE ResumeFromRow
  <2>1. [NoState EXCEPT !.stage = stage].stage = stage
    BY DEF NoState
  <2>2. /\ Superstep("hitlJob", "supervisor", [NoState EXCEPT !.stage = stage])
        /\ UNCHANGED <<stage, saved, entry>>
    BY <1>5 DEF ResumeFromRow
  <2>3. Backed(saved', stage') /\ AtItsStage("supervisor", [NoState EXCEPT !.stage = stage])
    BY <2>2 DEF CheckInv, Backed, AtItsStage
  <2>4. Backed(saved', [NoState EXCEPT !.stage = stage].stage)
    BY <2>1, <2>2, <2>3 DEF Backed
  <2> QED
    BY <1>0, <2>2, <2>3, <2>4, SuperstepBacked
<1>6. ASSUME NEW r \in Runs, Fail(r)
      PROVE  CheckInv'
  BY <1>0, <1>6, QuietBacked DEF Fail, Stop, RunAt
<1>7. CASE RestartPipelineJob
  BY <1>0, <1>7, QuietBacked DEF RestartPipelineJob, RunAt
<1>8. CASE RedeliverHitlJob
  BY <1>0, <1>8, QuietBacked DEF RedeliverHitlJob, RunAt
<1>9. CASE ExpireResult
  BY <1>2, <1>9 DEF ExpireResult
<1>10. CASE UNCHANGED vars
  BY <1>2, <1>10 DEF vars
<1> QED
  BY <1>1, <1>2, <1>3, <1>4, <1>5, <1>6, <1>7, <1>8, <1>9, <1>10, CheckRunStep
     DEF Next, WorkerStep, Fault

\* A batch at stage_judgment that began before the geographical audit, or before
\* the risk score, has the result of it committed, whatever order runs, restarts
\* and replays took; a batch loaded past a check is not spoken of.
THEOREM JudgmentBacked == Spec => []JudgedAfterChecks
<1>1. Init => TypeOK /\ StopHasReason /\ CheckInv
  BY TypeInit, CheckInit
<1>2. TypeOK /\ StopHasReason /\ CheckInv /\ [Next]_vars
      => (TypeOK /\ StopHasReason /\ CheckInv)'
  BY TypeStep, CheckStep
<1>3. CheckInv => JudgedAfterChecks
  BY DEF CheckInv, Backed, JudgedAfterChecks
<1> QED
  BY <1>1, <1>2, <1>3, PTL DEF Spec

-----------------------------------------------------------------------------
(* One run at a time                                                       *)

\* One path starts the batch, and once.
OneStart ==
    /\ \A p, q \in StartPaths : p = q
    /\ "restart" \notin Faults

\* The node a run is at, for the thread: hitl_interrupt is entered and left as
\* a whole.
NodeOf(pc) == IF pc \in HoldingRow \cup {"paused"} THEN "hitl_interrupt" ELSE pc

\* A run that has the thread to itself.  The one that opened the review is left
\* at its stop with nothing to do but end.
Drives(r) == run[r].pc \in InNode /\ (r \in StartPaths => run[r].pc # "paused")

\* The thread is where the run that drives it is.
ThreadFollows ==
    \A r \in Runs : Drives(r) =>
        ckpt = [next |-> NodeOf(run[r].pc), state |-> run[r].state]

\* Nothing was put before a reviewer yet.
Untouched == reviews = <<>> /\ job = "absent" /\ \A c \in Clerks : clerk[c].pc = "idle"

\* The path that starts the batch comes first, and ends at its first stop.
StartsFirst ==
    \A r \in StartPaths :
        /\ ~run[r].answer
        /\ run[r].pc \notin {"paused", "ended"} => Untouched
        /\ run[r].pc \in {"waiting", "starting"} =>
             /\ ckpt = [next |-> "none", state |-> NoState]
             /\ status = "batch_processing"
             /\ stage = "stage_queued"

\* A node is reached by supervisor.route, and END by a judgment.
SentByRoute ==
    /\ ckpt.next \in Nodes \ {"supervisor"} => ckpt.next = Route(ckpt.state)
    /\ ckpt.next = "end" => ckpt.state.stage = "stage_judgment"

\* A thread that is at no stop has its batch in processing.
GoesOn == ckpt.next # "none" /\ ckpt.state.err = "none" => status = "batch_processing"

\* The judgment on the row is that of the thread.
JudgedThread ==
    stage = "stage_judgment" =>
        ckpt.next # "none" /\ ckpt.state.stage = "stage_judgment" /\ ckpt.state.err = "none"

\* A resume job starts from the thread, never from the outside.
ResumesOnly == run["hitlJob"].pc \notin {"waiting", "starting"}

SoleInv ==
    ThreadFollows /\ StartsFirst /\ SentByRoute /\ GoesOn /\ JudgedThread /\ ResumesOnly

\* Whoever drives the thread is alone: the other runs are over or at the stop
\* they opened.
OthersRest(r) == \A q \in Runs \ {r} : run[q].pc \in {"paused", "ended"} /\ ~Drives(q)

LEMMA DriverAlone ==
    ASSUME TypeOK, WorkerAlone, SoleInv, OneStart, NEW r \in Runs,
           run[r].pc # "ended", r \in StartPaths => run[r].pc # "paused"
    PROVE  OthersRest(r)
<1>1. "hitlJob" \notin StartPaths
  BY PathsAssumption DEF EventPaths
<1>2. CASE r \in StartPaths
  <2>1. Runs \ {r} = {"hitlJob"}
    BY <1>1, <1>2 DEF Runs, OneStart
  <2>2. run["hitlJob"].pc = "ended"
    BY <1>2 DEF SoleInv, StartsFirst, Untouched, WorkerAlone
  <2> QED
    BY <2>1, <2>2 DEF OthersRest, Drives, InNode, Nodes, HoldingRow
<1>3. CASE r = "hitlJob"
  <2>1. job = "running"
    BY <1>3 DEF WorkerAlone
  <2>2. \A q \in StartPaths : run[q].pc \in {"paused", "ended"}
    BY <2>1 DEF SoleInv, StartsFirst, Untouched
  <2> QED
    BY <1>3, <2>2 DEF OthersRest, Drives, InNode, Nodes, HoldingRow, Runs
<1> QED
  BY <1>2, <1>3 DEF Runs

\* A superstep of the run that drives the thread, to a node of the router.
LEMMA SoleSuperstep ==
    ASSUME TypeOK, SoleInv, NEW r \in Runs, OthersRest(r),
           NEW next \in Nodes, NEW s \in BatchStates, Superstep(r, next, s),
           next # "supervisor" => next = Route(s),
           s.err = "none" => status' = "batch_processing",
           stage' = "stage_judgment" => s.stage = "stage_judgment" /\ s.err = "none",
           r \in StartPaths => Untouched'
    PROVE  SoleInv'
<1>0. run \in [Runs -> RunRecords]
  BY DEF TypeOK, RunRecords
<1>1. /\ run'[r] = [pc |-> next, state |-> s, answer |-> FALSE, fresh |-> FALSE]
      /\ \A q \in Runs \ {r} : run'[q] = run[q]
      /\ ckpt' = [next |-> next, state |-> s]
  BY <1>0 DEF Superstep
<1>2. next \notin HoldingRow \cup {"paused", "waiting", "starting", "ended", "none", "end"}
  BY DEF Nodes, HoldingRow
<1>3. ThreadFollows'
  <2> SUFFICES ASSUME NEW q \in Runs, Drives(q)'
               PROVE  ckpt' = [next |-> NodeOf(run'[q].pc), state |-> run'[q].state]
    BY DEF ThreadFollows
  <2>1. q = r
    BY <1>1 DEF Drives, OthersRest
  <2> QED
    BY <1>1, <1>2, <2>1 DEF NodeOf
<1>4. StartsFirst'
  <2> SUFFICES ASSUME NEW q \in StartPaths
               PROVE  /\ ~run'[q].answer
                      /\ run'[q].pc \notin {"paused", "ended"} => Untouched'
                      /\ run'[q].pc \notin {"waiting", "starting"}
    BY DEF StartsFirst
  <2>1. CASE q = r
    BY <1>1, <1>2, <2>1
  <2>2. CASE q # r
    <3>1. q \in Runs \ {r}
      BY <2>2 DEF Runs
    <3>2. run'[q] = run[q] /\ run[q].pc \in {"paused", "ended"} /\ ~run[q].answer
      BY <1>1, <3>1 DEF OthersRest, SoleInv, StartsFirst
    <3> QED
      BY <3>2
  <2> QED
    BY <2>1, <2>2
<1>5. SentByRoute' /\ GoesOn' /\ JudgedThread'
  BY <1>1, <1>2 DEF SentByRoute, GoesOn, JudgedThread
<1>6. ResumesOnly'
  BY <1>1, <1>2 DEF ResumesOnly, SoleInv, Runs
<1> QED
  BY <1>3, <1>4, <1>5, <1>6 DEF SoleInv

\* A step that leaves the thread where it is.
LEMMA SoleStays ==
    ASSUME SoleInv, ckpt' = ckpt, stage' = stage,
           \A q \in Runs : Drives(q)' =>
              /\ Drives(q)
              /\ NodeOf(run'[q].pc) = NodeOf(run[q].pc)
              /\ run'[q].state = run[q].state,
           \A q \in StartPaths :
              /\ ~run'[q].answer
              /\ run'[q].pc \notin {"paused", "ended"} => Untouched'
              /\ run'[q].pc \in {"waiting", "starting"} =>
                   run[q].pc \in {"waiting", "starting"} /\ status' = status,
           run'["hitlJob"].pc \in {"waiting", "starting"} =>
              run["hitlJob"].pc \in {"waiting", "starting"},
           ckpt.next # "none" /\ ckpt.state.err = "none" => status' = "batch_processing"
    PROVE  SoleInv'
<1>1. ThreadFollows'
  BY DEF SoleInv, ThreadFollows
<1>2. StartsFirst'
  BY DEF SoleInv, StartsFirst
<1>3. SentByRoute' /\ GoesOn' /\ JudgedThread' /\ ResumesOnly'
  BY DEF SoleInv, SentByRoute, GoesOn, JudgedThread, ResumesOnly
<1> QED
  BY <1>1, <1>2, <1>3 DEF SoleInv

\* At first nobody drives, and the thread has no checkpoint.
LEMMA SoleInit == Init => SoleInv
<1> SUFFICES ASSUME Init
             PROVE  SoleInv
  OBVIOUS
<1>1. \A r \in Runs : run[r].pc \in {"waiting", "ended"} /\ ~run[r].answer
  BY DEF Init, FreshBatch, SeededBatch, RunAt
<1>2. \A r \in Runs : ~Drives(r)
  BY <1>1 DEF Drives, InNode, Nodes, HoldingRow
<1>3. StartsFirst
  <2>1. CASE FreshBatch
    BY <1>1, <2>1 DEF Init, FreshBatch, StartsFirst, Untouched, Runs
  <2>2. CASE SeededBatch
    BY <1>1, <2>2 DEF Init, SeededBatch, StartsFirst, RunAt, Runs
  <2> QED
    BY <2>1, <2>2 DEF Init
<1>4. stage # "stage_judgment"
  BY CasesAssumption DEF Init, FreshBatch, SeededBatch
<1>5. ckpt.next = "none"
  BY DEF Init
<1>6. ThreadFollows /\ SentByRoute /\ GoesOn /\ JudgedThread
  BY <1>2, <1>4, <1>5 DEF ThreadFollows, SentByRoute, GoesOn, JudgedThread, Nodes
<1>7. ResumesOnly
  BY DEF Init, FreshBatch, SeededBatch, RunAt, ResumesOnly, Runs
<1> QED
  BY <1>3, <1>6, <1>7 DEF SoleInv

\* A node is entered with the state supervisor.route sent it.
LEMMA NodeState ==
    ASSUME TypeOK, SoleInv, NEW r \in Runs, run[r].pc \in Nodes
    PROVE  /\ run[r].state \in BatchStates
           /\ ckpt.next = run[r].pc /\ ckpt.state = run[r].state
           /\ run[r].pc # "supervisor" => run[r].pc = Route(run[r].state)
           /\ run[r].state.err = "none" => status = "batch_processing"
<1>1. run[r].state \in BatchStates
  BY DEF TypeOK
<1>2. Drives(r) /\ NodeOf(run[r].pc) = run[r].pc
  BY DEF Drives, InNode, NodeOf, HoldingRow, Nodes
<1>3. ckpt = [next |-> run[r].pc, state |-> run[r].state]
  BY <1>2 DEF SoleInv, ThreadFollows
<1>4. ckpt.next = run[r].pc /\ ckpt.state = run[r].state
  BY <1>3
<1> QED
  BY <1>1, <1>4 DEF SoleInv, SentByRoute, GoesOn, Nodes

\* What the router sends a state to tells its error_reason and its stage.
LEMMA RouteTells ==
    ASSUME NEW s \in BatchStates
    PROVE  /\ Route(s) = "hitl_interrupt" <=> s.err # "none"
           /\ Route(s) = "data_gateway" => s.stage = "stage_queued"
           /\ Route(s) = "geo_audit" => s.stage = "stage_extraction"
           /\ Route(s) = "compliance" => s.stage = "stage_geo"
           /\ Route(s) = "risk_scoring" => s.stage = "stage_compliance"
           /\ Route(s) = "final_judgment" => s.stage = "stage_risk"
           /\ Route(s) = "completed" => s.stage = "stage_judgment"
BY DEF Route, BatchStates, Stages

\* A run that is over takes no step.
LEMMA EndedRests == ASSUME NEW r \in Runs, RunStep(r) PROVE run[r].pc # "ended"
<1>1. ReceiveEvent(r) \/ Start(r) => run[r].pc \in {"waiting", "starting"}
  BY DEF ReceiveEvent, Start
<1>2. Supervisor(r) \/ DataGateway(r) \/ GeoAudit(r) \/ Compliance(r) => run[r].pc \in Nodes
  BY Zenon DEF Supervisor, DataGateway, GeoAudit, Compliance, Nodes
<1>3. RiskScoring(r) \/ RiskScoringFails(r) \/ FinalJudgment(r) \/ Completed(r) => run[r].pc \in Nodes
  BY Zenon DEF RiskScoring, RiskScoringFails, FinalJudgment, Completed, Nodes
<1>4. PauseBatch(r) => run[r].pc = "hitl_interrupt"
  BY DEF PauseBatch
<1>5. FindReview(r) \/ CommitReview(r) => run[r].pc \in HoldingRow
  BY Zenon DEF FindReview, CommitReview, HoldingRow
<1>6. Interrupt(r) \/ ResumeBatch(r) => run[r].pc = "paused"
  BY DEF Interrupt, ResumeBatch
<1> QED
  BY <1>1, <1>2, <1>3, <1>4, <1>5, <1>6 DEF RunStep, Nodes, HoldingRow

\* A run ends, by itself or not, and the thread stays.
LEMMA SoleRunEnds ==
    ASSUME OneStart, TypeOK, SoleInv, NEW r \in Runs, r = "hitlJob" => job = "running",
           run' = [run EXCEPT ![r] = RunAt("ended")],
           UNCHANGED <<ckpt, stage, status, reviews, clerk>>
    PROVE  SoleInv'
<1>0. run \in [Runs -> RunRecords] /\ "hitlJob" \in Runs
  BY DEF TypeOK, RunRecords, Runs
<1>1. run'[r] = RunAt("ended") /\ \A q \in Runs \ {r} : run'[q] = run[q]
  BY <1>0
<1>2. \A q \in Runs : Drives(q)' => q # r /\ Drives(q)
  BY <1>1 DEF Drives, RunAt, InNode, Nodes, HoldingRow
<1>3. \A q \in Runs : Drives(q)' =>
         /\ Drives(q)
         /\ NodeOf(run'[q].pc) = NodeOf(run[q].pc)
         /\ run'[q].state = run[q].state
  BY <1>1, <1>2
<1>4. \A q \in StartPaths : run'[q].pc \in {"paused", "ended"}
  <2> SUFFICES ASSUME NEW q \in StartPaths, q # r, run[q].pc \notin {"paused", "ended"}
               PROVE  FALSE
    BY <1>1 DEF RunAt, Runs
  <2>1. job = "absent"
    BY DEF SoleInv, StartsFirst, Untouched
  <2> QED
    BY <2>1 DEF OneStart, Runs
<1>5. \A q \in StartPaths : ~run'[q].answer
  BY <1>1 DEF SoleInv, StartsFirst, RunAt, Runs
<1>6. run'["hitlJob"].pc \in {"waiting", "starting"} =>
        run["hitlJob"].pc \in {"waiting", "starting"}
  BY <1>0, <1>1 DEF RunAt
<1> QED
  BY <1>3, <1>4, <1>5, <1>6, SoleStays DEF SoleInv, GoesOn

\* Every step of the run that drives the thread keeps it to the thread.
LEMMA SoleRunStep ==
    ASSUME OneStart, TypeOK, StopHasReason, WorkerAlone, SoleInv, NEW r \in Runs, RunStep(r)
    PROVE  SoleInv'
<1> USE DEF Batch, Human
<1>0. /\ run \in [Runs -> RunRecords]
      /\ run[r].state \in BatchStates
      /\ ckpt.state \in BatchStates
      /\ "hitlJob" \in Runs \ StartPaths
  BY PathsAssumption DEF TypeOK, RunRecords, EventPaths, Runs
<1>1. ASSUME run[r].pc \in Nodes
      PROVE  /\ OthersRest(r)
             /\ r \in StartPaths => Untouched
  BY <1>1, DriverAlone DEF Nodes, SoleInv, StartsFirst
<1>2. ASSUME UNCHANGED <<reviews, job, clerk>>
      PROVE  Untouched' <=> Untouched
  BY <1>2 DEF Untouched
\* A node that works on its stage and goes back to the supervisor.
<1>3. ASSUME run[r].pc \in Nodes \ {"supervisor", "hitl_interrupt"},
             NEW s \in BatchStates, Superstep(r, "supervisor", s),
             UNCHANGED <<status, reviews, job, clerk>>,
             stage' = "stage_judgment" => s.stage = "stage_judgment" /\ s.err = "none"
      PROVE  SoleInv'
  <2>1. run[r].state.err = "none"
    BY <1>0, <1>3, NodeState, RouteTells
  <2>2. status' = "batch_processing"
    BY <1>3, <2>1, NodeState
  <2> QED
    BY <1>1, <1>2, <1>3, <2>2, SoleSuperstep DEF Nodes
\* A node before the judgment runs on a row that has none.
<1>4. ASSUME run[r].pc \in {"data_gateway", "geo_audit", "compliance", "risk_scoring", "final_judgment"}
      PROVE  stage # "stage_judgment"
  BY <1>0, <1>4, NodeState, RouteTells DEF SoleInv, JudgedThread, Nodes
\* The run ends, and the thread stays.
<1>5. ASSUME Stop(r), UNCHANGED <<ckpt, stage, status, reviews, clerk>>
      PROVE  SoleInv'
  <2>1. r = "hitlJob" => job = "running"
    BY EndedRests DEF WorkerAlone
  <2> QED
    BY <1>5, <2>1, SoleRunEnds DEF Stop
\* Inside the transaction of hitl_interrupt.
<1>6. ASSUME run[r].pc \in {"hitl_interrupt", "locked"}, NEW pc \in HoldingRow, NEW b \in BOOLEAN,
             run' = [run EXCEPT ![r].pc = pc] \/ run' = [run EXCEPT ![r].pc = pc, ![r].fresh = b],
             UNCHANGED <<ckpt, stage, status, reviews, job, clerk>>
      PROVE  SoleInv'
  <2>1. /\ run'[r].pc = pc /\ run'[r].state = run[r].state /\ run'[r].answer = run[r].answer
        /\ \A q \in Runs \ {r} : run'[q] = run[q]
    BY <1>0, <1>6 DEF RunRecords
  <2>2. \A q \in Runs : Drives(q)' =>
           /\ Drives(q)
           /\ NodeOf(run'[q].pc) = NodeOf(run[q].pc)
           /\ run'[q].state = run[q].state
    BY <1>6, <2>1 DEF Drives, NodeOf, InNode, Nodes, HoldingRow
  <2>3. \A q \in StartPaths :
           /\ ~run'[q].answer
           /\ run'[q].pc \notin {"paused", "ended"} => Untouched'
           /\ run'[q].pc \in {"waiting", "starting"} => run[q].pc \in {"waiting", "starting"}
    BY <1>2, <1>6, <2>1 DEF SoleInv, StartsFirst, Runs, HoldingRow
  <2>4. run'["hitlJob"].pc \in {"waiting", "starting"} =>
          run["hitlJob"].pc \in {"waiting", "starting"}
    BY <1>0, <1>6, <2>1 DEF HoldingRow
  <2> QED
    BY <1>6, <2>2, <2>3, <2>4, SoleStays DEF SoleInv, GoesOn
<1>7. CASE ReceiveEvent(r)
  <2>1. /\ run[r].pc = "waiting" /\ r \in StartPaths
        /\ UNCHANGED <<ckpt, stage, status, reviews, job, clerk>>
    BY <1>0, <1>7 DEF ReceiveEvent, Runs, EventPaths
  <2>2. PICK pc \in {"starting", "ended"} : run' = [run EXCEPT ![r].pc = pc]
    BY <1>7 DEF ReceiveEvent
  <2>3. /\ run'[r].pc = pc /\ run'[r].answer = run[r].answer
        /\ \A q \in Runs \ {r} : run'[q] = run[q]
    BY <1>0, <2>2 DEF RunRecords
  <2>4. \A q \in Runs : Drives(q)' => Drives(q) /\ run'[q] = run[q]
    BY <2>3 DEF Drives, InNode, Nodes, HoldingRow
  <2>5. \A q \in StartPaths :
           /\ ~run'[q].answer
           /\ run'[q].pc \notin {"paused", "ended"} => Untouched'
           /\ run'[q].pc \in {"waiting", "starting"} => run[q].pc \in {"waiting", "starting"}
    BY <1>2, <2>1, <2>3 DEF SoleInv, StartsFirst, Runs
  <2>6. run'["hitlJob"].pc \in {"waiting", "starting"} =>
          run["hitlJob"].pc \in {"waiting", "starting"}
    BY <1>0, <2>1, <2>3
  <2> QED
    BY <2>1, <2>4, <2>5, <2>6, SoleStays DEF SoleInv, GoesOn
<1>8. CASE Start(r)
  <2>1. run[r].pc \in {"waiting", "starting"}
    BY <1>8 DEF Start
  <2>2. r \in StartPaths
    BY <2>1 DEF SoleInv, ResumesOnly, Runs
  <2>3. /\ ckpt = [next |-> "none", state |-> NoState]
        /\ status = "batch_processing" /\ stage = "stage_queued" /\ Untouched
    BY <2>1, <2>2 DEF SoleInv, StartsFirst
  <2>4. OthersRest(r)
    BY <2>1, DriverAlone
  <2>5. [ckpt.state EXCEPT !.stage = "stage_queued"] \in BatchStates
    BY <1>0 DEF BatchStates, Stages
  <2>6. /\ Superstep(r, "supervisor", [ckpt.state EXCEPT !.stage = "stage_queued"])
        /\ UNCHANGED <<status, stage, reviews, job, clerk>>
    BY <1>8 DEF Start, StartGraph
  <2> QED
    BY <1>2, <2>3, <2>4, <2>5, <2>6, SoleSuperstep DEF Nodes
<1>9. CASE Supervisor(r)
  <2>1. run[r].pc = "supervisor" /\ run[r].pc \in Nodes
    BY <1>9 DEF Supervisor, Nodes
  <2>2. /\ Superstep(r, Route(run[r].state), run[r].state)
        /\ UNCHANGED <<status, stage, reviews, job, clerk>>
    BY <1>9 DEF Supervisor
  <2>3. stage = "stage_judgment" => run[r].state.stage = "stage_judgment" /\ run[r].state.err = "none"
    BY <2>1, NodeState DEF SoleInv, JudgedThread
  <2>4. run[r].state.err = "none" => status' = "batch_processing"
    BY <2>1, <2>2, NodeState
  <2>5. Route(run[r].state) \in Nodes
    BY <1>0, RouteType
  <2> QED
    BY <1>0, <1>1, <1>2, <2>1, <2>2, <2>3, <2>4, <2>5, SoleSuperstep
<1>10. CASE DataGateway(r)
  <2>1. PICK err \in MayRaise("stage_extraction", "low_confidence"), found \in SupplierCases :
          Superstep(r, "supervisor",
                    [stage |-> "stage_extraction", err |-> err, sids |-> found])
    BY <1>10 DEF DataGateway
  <2>2. [stage |-> "stage_extraction", err |-> err, sids |-> found] \in BatchStates
    BY CasesAssumption DEF BatchStates, Stages, Errors, MayRaise
  <2>3. run[r].pc = "data_gateway" /\ UNCHANGED <<status, stage, reviews, job, clerk>>
    BY <1>10 DEF DataGateway
  <2> QED
    BY <1>3, <1>4, <2>1, <2>2, <2>3 DEF Nodes
<1>11. CASE GeoAudit(r)
  <2>1. PICK risk \in MayRaise("stage_geo", "geographical_risk") :
          Superstep(r, "supervisor",
                    [run[r].state EXCEPT !.stage = "stage_geo",
                                         !.err = IF risk = "none" THEN @ ELSE risk])
    BY <1>11 DEF GeoAudit
  <2>2. [run[r].state EXCEPT !.stage = "stage_geo",
                             !.err = IF risk = "none" THEN @ ELSE risk] \in BatchStates
    BY <1>0 DEF BatchStates, Stages, Errors, MayRaise
  <2>3. run[r].pc = "geo_audit" /\ UNCHANGED <<status, stage, reviews, job, clerk>>
    BY <1>11 DEF GeoAudit
  <2>4. PICK s \in BatchStates : Superstep(r, "supervisor", s)
    BY <2>1, <2>2, Zenon
  <2> QED
    BY <1>3, <1>4, <2>3, <2>4 DEF Nodes
<1>12. CASE Compliance(r)
  <2>1. PICK err \in MayRaise("stage_compliance", "low_confidence") \cup {run[r].state.err} :
          Superstep(r, "supervisor",
                    [run[r].state EXCEPT !.stage = "stage_compliance", !.err = err])
    BY <1>12 DEF Compliance
  <2>2. [run[r].state EXCEPT !.stage = "stage_compliance", !.err = err] \in BatchStates
    BY <1>0 DEF BatchStates, Stages, Errors, MayRaise
  <2>3. run[r].pc = "compliance" /\ UNCHANGED <<status, stage, reviews, job, clerk>>
    BY <1>12 DEF Compliance
  <2>4. PICK s \in BatchStates : Superstep(r, "supervisor", s)
    BY <2>1, <2>2, Zenon
  <2> QED
    BY <1>3, <1>4, <2>3, <2>4 DEF Nodes
<1>13. CASE RiskScoring(r)
  <2>1. PICK risk \in MayRaise("stage_risk", "risk_escalated") :
          Superstep(r, "supervisor",
                    [run[r].state EXCEPT !.stage = "stage_risk",
                                         !.err = IF risk = "none" THEN @ ELSE risk])
    BY <1>13 DEF RiskScoring
  <2>2. [run[r].state EXCEPT !.stage = "stage_risk",
                             !.err = IF risk = "none" THEN @ ELSE risk] \in BatchStates
    BY <1>0 DEF BatchStates, Stages, Errors, MayRaise
  <2>3. run[r].pc = "risk_scoring" /\ UNCHANGED <<status, stage, reviews, job, clerk>>
    BY <1>13 DEF RiskScoring
  <2>4. PICK s \in BatchStates : Superstep(r, "supervisor", s)
    BY <2>1, <2>2, Zenon
  <2> QED
    BY <1>3, <1>4, <2>3, <2>4 DEF Nodes
<1>14. CASE RiskScoringFails(r)
  BY <1>5, <1>14 DEF RiskScoringFails
<1>15. CASE FinalJudgment(r)
  <2> DEFINE s == [run[r].state EXCEPT !.stage = "stage_judgment"]
  <2>1. run[r].pc = "final_judgment" /\ UNCHANGED <<status, reviews, job, clerk>>
    BY <1>15 DEF FinalJudgment
  <2>2. run[r].state.err = "none"
    BY <1>0, <2>1, NodeState, RouteTells DEF Nodes
  <2>3. s \in BatchStates /\ s.stage = "stage_judgment" /\ s.err = "none"
    BY <1>0, <2>2 DEF BatchStates, Stages
  <2>4. Superstep(r, "supervisor", s)
    BY <1>15 DEF FinalJudgment
  <2> HIDE DEF s
  <2> QED
    BY <1>3, <2>1, <2>3, <2>4 DEF Nodes
<1>16. CASE Completed(r)
  <2>1. /\ run[r].pc = "completed" /\ run[r].pc \in Nodes
        /\ ckpt' = [next |-> "end", state |-> run[r].state]
        /\ Stop(r)
        /\ UNCHANGED <<status, stage, reviews, clerk>>
    BY <1>16 DEF Completed, Nodes
  <2>2. run[r].state.stage = "stage_judgment" /\ run[r].state.err = "none"
    BY <1>0, <2>1, NodeState, RouteTells
  <2>3. OthersRest(r)
    BY <1>1, <2>1
  <2>4. run'[r] = RunAt("ended") /\ \A q \in Runs \ {r} : run'[q] = run[q]
    BY <1>0, <2>1 DEF Stop
  <2>5. \A q \in Runs : ~Drives(q)' /\ run'[q].pc \in {"paused", "ended"}
    BY <2>3, <2>4 DEF OthersRest, Drives, RunAt, InNode, Nodes, HoldingRow
  <2>6. ThreadFollows' /\ ResumesOnly'
    BY <1>0, <2>5 DEF ThreadFollows, ResumesOnly
  <2>7. StartsFirst'
    BY <2>4, <2>5 DEF StartsFirst, SoleInv, RunAt, Runs
  <2>8. status = "batch_processing"
    BY <2>1, <2>2, NodeState
  <2>9. SentByRoute' /\ GoesOn' /\ JudgedThread'
    BY <2>1, <2>2, <2>8 DEF SentByRoute, GoesOn, JudgedThread, Nodes
  <2> QED
    BY <2>6, <2>7, <2>9 DEF SoleInv
<1>17. CASE PauseBatch(r)
  <2>1. /\ run[r].pc = "hitl_interrupt"
        /\ run' = [run EXCEPT ![r].pc = "locked"]
        /\ UNCHANGED <<ckpt, stage, status, reviews, job, clerk>>
    BY <1>17 DEF PauseBatch
  <2> QED
    BY <1>6, <2>1 DEF HoldingRow
<1>18. CASE FindReview(r)
  <2>1. /\ run[r].pc = "locked"
        /\ UNCHANGED <<ckpt, stage, status, reviews, job, clerk>>
    BY <1>18 DEF FindReview
  <2>2. PICK b \in BOOLEAN : run' = [run EXCEPT ![r].pc = "checked", ![r].fresh = b]
    BY <1>18 DEF FindReview
  <2> QED
    BY <1>6, <2>1, <2>2 DEF HoldingRow
<1>19. CASE CommitReview(r)
  <2>1. /\ run[r].pc = "checked"
        /\ run' = [run EXCEPT ![r].pc = "paused"]
        /\ UNCHANGED <<ckpt, stage, job, clerk>>
    BY <1>19 DEF CommitReview
  <2>2. /\ run'[r].pc = "paused" /\ run'[r].state = run[r].state /\ run'[r].answer = run[r].answer
        /\ \A q \in Runs \ {r} : run'[q] = run[q]
    BY <1>0, <2>1 DEF RunRecords
  <2>3. OthersRest(r) /\ Drives(r)
    BY <2>1, DriverAlone DEF Drives, InNode, HoldingRow
  <2>4. \A q \in Runs : Drives(q)' =>
           /\ Drives(q)
           /\ NodeOf(run'[q].pc) = NodeOf(run[q].pc)
           /\ run'[q].state = run[q].state
    BY <2>1, <2>2, <2>3 DEF OthersRest, Drives, NodeOf, HoldingRow
  <2>5. \A q \in Runs : run'[q].pc \in {"paused", "ended"}
    BY <2>2, <2>3 DEF OthersRest
  <2>6. \A q \in StartPaths : ~run'[q].answer
    BY <2>2 DEF SoleInv, StartsFirst, Runs
  <2>7. ckpt.state.err # "none"
    <3>1. ckpt = [next |-> NodeOf(run[r].pc), state |-> run[r].state]
      BY <2>3 DEF SoleInv, ThreadFollows
    <3>2. run[r].state.err # "none"
      BY <2>1 DEF StopHasReason, HoldingRow
    <3> QED
      BY <3>1, <3>2
  <2>8. run'["hitlJob"].pc \notin {"waiting", "starting"}
    BY <1>0, <2>5
  <2>9. \A q \in StartPaths : run'[q].pc \in {"paused", "ended"}
    BY <2>5 DEF Runs
  <2> QED
    BY <2>1, <2>4, <2>6, <2>7, <2>8, <2>9, SoleStays
<1>20. CASE Interrupt(r)
  BY <1>5, <1>20 DEF Interrupt
<1>21. CASE ResumeBatch(r)
  <2>1. /\ run[r].pc = "paused" /\ run[r].answer
        /\ Superstep(r, "supervisor", [run[r].state EXCEPT !.err = "none"])
        /\ status' = "batch_processing"
        /\ UNCHANGED <<stage, reviews, job, clerk>>
    BY <1>21 DEF ResumeBatch
  <2>2. r \notin StartPaths
    BY <2>1 DEF SoleInv, StartsFirst
  <2>3. OthersRest(r)
    BY <2>1, <2>2, DriverAlone
  <2>4. ckpt.next = "hitl_interrupt"
    <3>1. Drives(r) /\ NodeOf(run[r].pc) = "hitl_interrupt"
      BY <2>1, <2>2 DEF Drives, InNode, NodeOf
    <3>2. ckpt = [next |-> "hitl_interrupt", state |-> run[r].state]
      BY <3>1 DEF SoleInv, ThreadFollows
    <3> QED
      BY <3>2
  <2>5. stage # "stage_judgment"
    BY <2>4 DEF SoleInv, JudgedThread, StopHasReason
  <2>6. [run[r].state EXCEPT !.err = "none"] \in BatchStates
    BY <1>0 DEF BatchStates, Errors
  <2> QED
    BY <2>1, <2>2, <2>3, <2>5, <2>6, SoleSuperstep DEF Nodes
<1> QED
  BY <1>7, <1>8, <1>9, <1>10, <1>11, <1>12, <1>13, <1>14, <1>15, <1>16, <1>17, <1>18,
     <1>19, <1>20, <1>21 DEF RunStep

\* ... and so does every step of the system.
LEMMA SoleStep ==
    ASSUME OneStart
    PROVE  TypeOK /\ StopHasReason /\ WorkerAlone /\ SoleInv /\ [Next]_vars => SoleInv'
<1> SUFFICES ASSUME TypeOK, StopHasReason, WorkerAlone, SoleInv, [Next]_vars
             PROVE  SoleInv'
  OBVIOUS
<1> USE DEF Batch, Human
<1>0. /\ run \in [Runs -> RunRecords]
      /\ ckpt \in Ckpts
      /\ "hitlJob" \in Runs \ StartPaths
  BY PathsAssumption DEF TypeOK, RunRecords, Ckpts, EventPaths, Runs
\* Whoever has read a review, or enqueued a job, comes after the start.
<1>1. ASSUME UNCHANGED <<run, ckpt, stage>>,
             Untouched => UNCHANGED <<status, reviews, job, clerk>>,
             status' = status \/ (status = "batch_hitl_wait" /\ status' = "batch_rejected")
      PROVE  SoleInv'
  <2>1. Untouched => Untouched' /\ status' = status
    BY <1>1 DEF Untouched
  <2>2. \A q \in StartPaths :
           /\ ~run'[q].answer
           /\ run'[q].pc \notin {"paused", "ended"} => Untouched'
           /\ run'[q].pc \in {"waiting", "starting"} =>
                run[q].pc \in {"waiting", "starting"} /\ status' = status
    BY <1>1, <2>1 DEF SoleInv, StartsFirst
  <2>3. \A q \in Runs : Drives(q)' =>
           /\ Drives(q)
           /\ NodeOf(run'[q].pc) = NodeOf(run[q].pc)
           /\ run'[q].state = run[q].state
    BY <1>1 DEF Drives
  <2>4. ckpt.next # "none" /\ ckpt.state.err = "none" => status' = "batch_processing"
    BY <1>1 DEF SoleInv, GoesOn
  <2> QED
    BY <1>1, <2>2, <2>3, <2>4, SoleStays
<1>2. ASSUME NEW c \in Clerks, ClerkStep(c) \/ LoseEnqueue(c)
      PROVE  SoleInv'
  <2>1. ~Untouched
    BY <1>2 DEF Untouched, ClerkStep, ReadReview, CommitApproval, CommitRejection,
                EnqueueResume, LoseEnqueue
  <2>2. /\ UNCHANGED <<run, ckpt, stage>>
        /\ status' = status \/ (status = "batch_hitl_wait" /\ status' = "batch_rejected")
    BY <1>2 DEF ClerkStep, ReadReview, CommitApproval, CommitRejection, EnqueueResume,
                LoseEnqueue
  <2> QED
    BY <1>1, <2>1, <2>2
<1>3. CASE ResumeFinished \/ ExpireResult
  <2>1. ~Untouched
    BY <1>3 DEF Untouched, ResumeFinished, ExpireResult
  <2>2. UNCHANGED <<run, ckpt, stage, status>>
    BY <1>3 DEF ResumeFinished, ExpireResult
  <2> QED
    BY <1>1, <2>1, <2>2
\* The worker takes a job: the start is over, and no other job runs.
<1>4. ASSUME job = "queued"
      PROVE  /\ OthersRest("hitlJob")
             /\ \A q \in StartPaths : run[q].pc \in {"paused", "ended"}
  <2>1. \A q \in StartPaths : run[q].pc \in {"paused", "ended"}
    BY <1>4 DEF SoleInv, StartsFirst, Untouched
  <2> QED
    BY <2>1 DEF OthersRest, Drives, InNode, Nodes, HoldingRow, Runs
<1>5. CASE ResumeThread
  <2>1. /\ run'["hitlJob"].pc = ckpt.next
        /\ run'["hitlJob"].state = ckpt.state
        /\ \A q \in Runs \ {"hitlJob"} : run'[q] = run[q]
        /\ ckpt.next \in Nodes
        /\ job = "queued"
        /\ UNCHANGED <<ckpt, stage, status>>
    BY <1>0, <1>5 DEF ResumeThread, Ckpts
  <2>2. ThreadFollows'
    <3> SUFFICES ASSUME NEW q \in Runs, Drives(q)'
                 PROVE  ckpt = [next |-> NodeOf(run'[q].pc), state |-> run'[q].state]
      BY <2>1 DEF ThreadFollows
    <3>1. q = "hitlJob"
      BY <1>4, <2>1 DEF OthersRest, Drives
    <3>2. NodeOf(run'[q].pc) = ckpt.next
      BY <2>1, <3>1 DEF NodeOf, Nodes, HoldingRow
    <3> QED
      BY <1>0, <2>1, <3>1, <3>2 DEF Ckpts
  <2>3. \A q \in StartPaths : run'[q] = run[q]
    BY <1>0, <2>1 DEF Runs
  <2>4. StartsFirst'
    BY <1>4, <2>1, <2>3 DEF StartsFirst, SoleInv
  <2>5. SentByRoute' /\ GoesOn' /\ JudgedThread' /\ ResumesOnly'
    BY <2>1 DEF SoleInv, SentByRoute, GoesOn, JudgedThread, ResumesOnly, Nodes
  <2> QED
    BY <2>2, <2>4, <2>5 DEF SoleInv
<1>6. CASE ResumeFromRow
  <2>1. /\ job = "queued" /\ ckpt.next = "none"
        /\ status' = "batch_processing" /\ stage' = stage
        /\ Superstep("hitlJob", "supervisor", [NoState EXCEPT !.stage = stage])
    BY <1>6 DEF ResumeFromRow
  <2>2. stage # "stage_judgment"
    BY <2>1 DEF SoleInv, JudgedThread
  <2>3. [NoState EXCEPT !.stage = stage] \in BatchStates
    BY DEF TypeOK, NoState, BatchStates, Stages, Errors
  <2> QED
    BY <1>0, <1>4, <2>1, <2>2, <2>3, SoleSuperstep DEF Nodes
<1>7. ASSUME NEW r \in Runs, Fail(r)
      PROVE  SoleInv'
  <2>1. r = "hitlJob" => job = "running"
    BY <1>7 DEF Fail, WorkerAlone, InNode, Nodes, HoldingRow
  <2> QED
    BY <1>7, <2>1, SoleRunEnds DEF Fail, Stop
<1>8. CASE RedeliverHitlJob
  BY <1>0, <1>8, SoleRunEnds DEF RedeliverHitlJob
<1>9. CASE RestartPipelineJob
  BY <1>9 DEF RestartPipelineJob, FaultAllowed, OneStart
<1>10. CASE UNCHANGED vars
  BY <1>1, <1>10 DEF vars
<1> QED
  BY <1>2, <1>3, <1>5, <1>6, <1>7, <1>8, <1>9, <1>10, SoleRunStep DEF Next, WorkerStep, Fault

\* After the judgment no stop is left to open or to pass, and none to reject.
LEMMA JudgedStatusKept ==
    ASSUME TypeOK, StopHasReason, SoleInv, [Next]_vars, stage = "stage_judgment"
    PROVE  status' = status
<1> USE DEF Batch, Human
<1>1. ckpt.next # "none" /\ ckpt.state.err = "none" /\ status = "batch_processing"
  BY DEF SoleInv, JudgedThread, GoesOn
<1>2. ASSUME NEW r \in Runs, CommitReview(r)
      PROVE  FALSE
  <2>1. run[r].pc = "checked" /\ run[r].state.err # "none"
    BY <1>2 DEF CommitReview, StopHasReason, HoldingRow
  <2>2. Drives(r)
    BY <2>1 DEF Drives, InNode, HoldingRow
  <2>3. ckpt = [next |-> NodeOf(run[r].pc), state |-> run[r].state]
    BY <2>2 DEF SoleInv, ThreadFollows
  <2> QED
    BY <1>1, <2>1, <2>3
<1>3. ASSUME NEW r \in Runs, RunStep(r), ~CommitReview(r)
      PROVE  status' = status
  BY <1>1, <1>3
     DEF RunStep, ReceiveEvent, Start, Supervisor, DataGateway, GeoAudit, Compliance,
         RiskScoring, RiskScoringFails, FinalJudgment, Completed, PauseBatch, FindReview,
         Interrupt, ResumeBatch
<1>4. ASSUME NEW c \in Clerks, ClerkStep(c)
      PROVE  status' = status
  BY <1>1, <1>4 DEF ClerkStep, ReadReview, CommitApproval, CommitRejection, EnqueueResume
<1>5. CASE WorkerStep
  BY <1>1, <1>5 DEF WorkerStep, ResumeThread, ResumeFinished, ResumeFromRow
<1>6. CASE Fault
  BY <1>6 DEF Fault, Fail, RestartPipelineJob, RedeliverHitlJob, LoseEnqueue
<1>7. CASE ExpireResult
  BY <1>7 DEF ExpireResult
<1>8. CASE UNCHANGED vars
  BY <1>8 DEF vars
<1> QED
  BY <1>2, <1>3, <1>4, <1>5, <1>6, <1>7, <1>8 DEF Next

\* If one path starts the batch, once, the status of a judged batch stays as it
\* is, whatever stages ask for a review, reviewers decide late, workers do twice
\* or failures end (hitl/service.py:101).
THEOREM JudgmentFinal ==
    ASSUME OneStart
    PROVE  Spec => JudgedIsFinal
<1>1. Init => TypeOK /\ StopHasReason /\ WorkerAlone /\ SoleInv
  BY TypeInit, WorkerAloneInit, SoleInit
<1>2. /\ TypeOK /\ StopHasReason /\ WorkerAlone /\ SoleInv
      /\ [Next]_vars
      => (TypeOK /\ StopHasReason /\ WorkerAlone /\ SoleInv)'
  BY TypeStep, WorkerStepAlone, SoleStep
<1>3. TypeOK /\ StopHasReason /\ SoleInv /\ [Next]_vars
      => [stage = "stage_judgment" => status' = status]_vars
  BY JudgedStatusKept
<1> QED
  BY <1>1, <1>2, <1>3, PTL DEF Spec, JudgedIsFinal

-----------------------------------------------------------------------------
(* Nobody leaves a batch alone                                             *)

\* One path starts the batch, one stage may ask for a review, data_gateway finds
\* the suppliers, and nothing is lost but the hitl worker.
OneStop ==
    /\ StartPaths # {}
    /\ OneStart
    /\ \A x, y \in RaisingStages : x = y
    /\ FALSE \notin SupplierCases
    /\ SeededStages \subseteq {"stage_risk"}
    /\ Faults \subseteq {"redeliver"}

\* The stages a batch has before it.
Ahead(s) ==
    CASE s = "stage_queued"     -> {"stage_extraction", "stage_geo", "stage_compliance", "stage_risk"}
      [] s = "stage_extraction" -> {"stage_geo", "stage_compliance", "stage_risk"}
      [] s = "stage_geo"        -> {"stage_compliance", "stage_risk"}
      [] s = "stage_compliance" -> {"stage_risk"}
      [] OTHER                  -> {}

\* The thread comes to a judgment with the row, has the suppliers between
\* data_gateway and risk_scoring, and an error_reason from its own stage.
ThreadSound ==
    /\ ckpt.state.stage = "stage_judgment" => stage = "stage_judgment"
    /\ ckpt.state.stage \in {"stage_extraction", "stage_geo", "stage_compliance"} => ckpt.state.sids
    /\ ckpt.state.err # "none" => ckpt.state.stage \in RaisingStages

\* A batch that was put before a reviewer meets no further stop.
StopsBehind ==
    reviews # <<>> =>
        /\ ckpt.next = "none" => stage = "stage_risk"
        /\ ckpt.next # "none" =>
             /\ RaisingStages \cap Ahead(ckpt.state.stage) = {}
             /\ ckpt.state.err # "none" => ckpt.next = "hitl_interrupt"

\* A request or a job stands for a review, a job that runs has its run, a run at
\* the stop has its answer, and a result is kept of a judgment alone.
JobCarries ==
    /\ (\E c \in Clerks : clerk[c].pc # "idle") \/ job # "absent" => reviews # <<>>
    /\ job = "running" => run["hitlJob"].pc # "ended"
    /\ run["hitlJob"].pc \in InNode /\ run["hitlJob"].state.err # "none" => run["hitlJob"].answer
    /\ job = "kept" => stage = "stage_judgment"

\* The start path opens a review where it stops.
StopOpensReview ==
    \A r \in StartPaths :
        /\ run[r].pc = "checked" => run[r].fresh
        /\ run[r].pc = "paused" => reviews # <<>>

Pending == \E i \in DOMAIN reviews : reviews[i].status = "hitl_pending"
OnItsWay == job \in {"queued", "running"}

\* Before its first review a batch has its start path, after it a review, an
\* approval on its way or its end; in processing, the approval or the judgment.
Attended ==
    /\ reviews = <<>> => stage = "stage_judgment" \/ \E r \in StartPaths : run[r].pc # "ended"
    /\ reviews # <<>> =>
         /\ Settled \/ OnItsWay \/ Committed # {} \/ Pending
         /\ status = "batch_processing" => stage = "stage_judgment" \/ OnItsWay

CareInv == ThreadSound /\ StopsBehind /\ JobCarries /\ StopOpensReview /\ Attended

\* Nobody is needed who is not there.
LEMMA CareEnough == CareInv => NoStranded
<1> SUFFICES ASSUME CareInv, ~Settled
             PROVE  SomebodyActs
  BY DEF NoStranded
<1>1. CASE reviews = <<>>
  BY <1>1 DEF CareInv, Attended, Settled, SomebodyActs, Runs
<1>2. CASE reviews # <<>>
  <2>1. CASE Committed # {} \/ Pending
    BY <2>1 DEF Committed, Pending, SomebodyActs
  <2>2. CASE OnItsWay
    BY <2>2 DEF CareInv, JobCarries, OnItsWay, SomebodyActs, Runs
  <2> QED
    BY <1>2, <2>1, <2>2 DEF CareInv, Attended
<1> QED
  BY <1>1, <1>2

\* A new batch has its start path, a seeded one its review.
LEMMA CareInit == ASSUME OneStop PROVE Init => CareInv
<1> SUFFICES ASSUME Init
             PROVE  CareInv
  OBVIOUS
<1>1. \A r \in Runs : run[r].pc \in {"waiting", "ended"}
  BY DEF Init, FreshBatch, SeededBatch, RunAt
<1>2. ThreadSound /\ StopOpensReview
  BY <1>1 DEF Init, ThreadSound, NoState, StopOpensReview, Runs
<1>3. JobCarries
  <2>1. job = "absent" /\ \A c \in Clerks : clerk[c].pc = "idle"
    BY DEF Init
  <2> QED
    BY <1>1, <2>1 DEF JobCarries, Runs, InNode, Nodes, HoldingRow
<1>4. CASE FreshBatch
  <2>1. PICK p \in StartPaths : TRUE
    BY DEF OneStop
  <2>2. run[p].pc = "waiting"
    BY <1>4, PathsAssumption DEF FreshBatch, RunAt, Runs, EventPaths
  <2>3. StopsBehind /\ Attended
    BY <1>4, <2>1, <2>2 DEF FreshBatch, StopsBehind, Attended
  <2> QED
    BY <1>2, <1>3, <2>3 DEF CareInv
<1>5. CASE SeededBatch
  <2>1. /\ stage = "stage_risk" /\ status = "batch_hitl_wait"
        /\ reviews = << OpenReview("risk_escalated", "stage_risk") >>
    BY <1>5 DEF SeededBatch, OneStop
  <2>2. reviews # <<>> /\ Pending
    BY <2>1 DEF Pending, OpenReview
  <2>3. StopsBehind /\ Attended
    BY <2>1, <2>2 DEF Init, StopsBehind, Attended
  <2> QED
    BY <1>2, <1>3, <2>3 DEF CareInv
<1> QED
  BY <1>4, <1>5 DEF Init

\* A superstep of the run that drives the thread.
LEMMA CareSuperstep ==
    ASSUME TypeOK, CareInv, NEW r \in Runs, NEW next \in Nodes, NEW s \in BatchStates,
           Superstep(r, next, s), UNCHANGED <<reviews, clerk>>,
           \/ UNCHANGED <<status, job>>
           \/ r = "hitlJob" /\ job' = "running" /\ status' = "batch_processing" /\ reviews # <<>>,
           stage = "stage_judgment" => stage' = "stage_judgment",
           s.stage = "stage_judgment" => stage' = "stage_judgment",
           s.stage \in {"stage_extraction", "stage_geo", "stage_compliance"} => s.sids,
           s.err # "none" => s.stage \in RaisingStages,
           reviews # <<>> =>
              /\ RaisingStages \cap Ahead(s.stage) = {}
              /\ s.err # "none" => next = "hitl_interrupt",
           r = "hitlJob" => s.err = "none"
    PROVE  CareInv'
<1>0. run \in [Runs -> RunRecords] /\ "hitlJob" \in Runs
  BY DEF TypeOK, RunRecords, Runs
<1>1. /\ run'[r] = [pc |-> next, state |-> s, answer |-> FALSE, fresh |-> FALSE]
      /\ \A q \in Runs \ {r} : run'[q] = run[q]
      /\ ckpt'.next = next /\ ckpt'.state = s
  BY <1>0 DEF Superstep
<1>2. next \notin HoldingRow \cup {"paused", "waiting", "starting", "ended", "none", "end"}
  BY DEF Nodes, HoldingRow
<1>3. ThreadSound'
  BY <1>1 DEF ThreadSound
<1>4. StopsBehind'
  BY <1>1, <1>2 DEF StopsBehind
<1>5. StopOpensReview'
  <2> SUFFICES ASSUME NEW q \in StartPaths
               PROVE  /\ run'[q].pc = "checked" => run'[q].fresh
                      /\ run'[q].pc = "paused" => reviews # <<>>
    BY DEF StopOpensReview
  <2>1. CASE q = r
    BY <1>1, <1>2, <2>1 DEF HoldingRow
  <2>2. CASE q # r
    BY <1>1, <2>2 DEF CareInv, StopOpensReview, Runs
  <2> QED
    BY <2>1, <2>2
<1>6. JobCarries'
  <2>1. CASE r = "hitlJob"
    BY <1>1, <1>2, <2>1 DEF CareInv, JobCarries
  <2>2. CASE r # "hitlJob"
    BY <1>0, <1>1, <2>2 DEF CareInv, JobCarries
  <2> QED
    BY <2>1, <2>2
<1>7. Attended'
  <2>1. reviews = <<>> => stage' = "stage_judgment" \/ \E q \in StartPaths : run'[q].pc # "ended"
    <3> SUFFICES ASSUME reviews = <<>>, NEW q \in StartPaths, run[q].pc # "ended"
                 PROVE  run'[q].pc # "ended"
      BY DEF CareInv, Attended
    <3> QED
      BY <1>1, <1>2 DEF Runs
  <2>2. OnItsWay => OnItsWay'
    BY DEF OnItsWay
  <2>3. status' = status \/ OnItsWay'
    BY DEF OnItsWay
  <2>4. Settled => Settled' \/ OnItsWay'
    BY <2>3 DEF Settled
  <2>5. (Pending => Pending') /\ Committed' = Committed
    BY DEF Pending, Committed
  <2> QED
    BY <2>1, <2>2, <2>3, <2>4, <2>5 DEF CareInv, Attended
<1> QED
  BY <1>3, <1>4, <1>5, <1>6, <1>7 DEF CareInv

\* A node that works on its stage and goes back to the supervisor, with an
\* error_reason only where its stage may ask for a review.
LEMMA CareNode ==
    ASSUME OneStop, TypeOK, WorkerAlone, SoleInv, CareInv, NEW r \in Runs,
           run[r].pc \in {"data_gateway", "geo_audit", "compliance", "risk_scoring"},
           NEW s \in BatchStates, Superstep(r, "supervisor", s),
           s.stage \in Ahead(run[r].state.stage),
           Ahead(s.stage) \subseteq Ahead(run[r].state.stage),
           s.err # "none" => s.stage \in RaisingStages,
           s.stage # "stage_risk" => s.sids,
           UNCHANGED <<status, stage, reviews, job, clerk>>
    PROVE  CareInv'
<1>1. ckpt.next = run[r].pc /\ ckpt.state = run[r].state /\ ckpt.next # "none"
  BY NodeState DEF Nodes
<1>2. reviews # <<>> => RaisingStages \cap Ahead(run[r].state.stage) = {}
  BY <1>1 DEF CareInv, StopsBehind
<1>3. reviews # <<>> => s.stage \notin RaisingStages /\ RaisingStages \cap Ahead(s.stage) = {}
  BY <1>2
<1>4. r = "hitlJob" => reviews # <<>>
  BY DEF WorkerAlone, CareInv, JobCarries
<1>5. s.stage # "stage_judgment"
  BY DEF Ahead
<1> QED
  BY <1>3, <1>4, <1>5, CareSuperstep DEF Nodes

\* The run of the thread ends only with the judgment, or at the stop it opened.
LEMMA CareRunStep ==
    ASSUME OneStop, TypeOK, StopHasReason, WorkerAlone, SoleInv, CareInv,
           NEW r \in Runs, RunStep(r)
    PROVE  CareInv'
<1> USE DEF Batch, Human
<1>0. /\ run \in [Runs -> RunRecords]
      /\ run[r].state \in BatchStates
      /\ ckpt.state \in BatchStates
      /\ reviews \in Seq(Reviews)
      /\ "hitlJob" \in Runs \ StartPaths
      /\ OneStart
  BY PathsAssumption DEF TypeOK, RunRecords, EventPaths, Runs, OneStop
\* The worker's run has a review behind it.
<1>1. r = "hitlJob" => reviews # <<>> /\ job = "running"
  BY EndedRests DEF WorkerAlone, CareInv, JobCarries
<1>2. CASE ReceiveEvent(r)
  <2>1. r \in StartPaths /\ run[r].pc = "waiting"
    BY <1>0, <1>2 DEF ReceiveEvent, Runs, EventPaths
  <2>2. stage = "stage_queued" /\ reviews = <<>>
    BY <2>1 DEF SoleInv, StartsFirst, Untouched
  <2>3. run' = [run EXCEPT ![r].pc = "starting"] /\ UNCHANGED <<status, stage, reviews, ckpt, job, clerk>>
    BY <1>2, <2>2 DEF ReceiveEvent
  <2>4. run'[r].pc = "starting" /\ \A q \in Runs \ {r} : run'[q] = run[q]
    BY <1>0, <2>3 DEF RunRecords
  <2>5. run'["hitlJob"] = run["hitlJob"]
    BY <1>0, <2>1, <2>4
  <2>6. ThreadSound' /\ StopsBehind' /\ JobCarries'
    BY <2>3, <2>5 DEF CareInv, ThreadSound, StopsBehind, JobCarries
  <2>7. StopOpensReview' /\ Attended'
    BY <2>1, <2>2, <2>3, <2>4 DEF CareInv, StopOpensReview, Attended, Runs
  <2> QED
    BY <2>6, <2>7 DEF CareInv
<1>3. CASE Start(r)
  <2>1. r \in StartPaths
    BY <1>3 DEF Start, SoleInv, ResumesOnly, Runs
  <2>2. run[r].pc \in {"waiting", "starting"}
    BY <1>3 DEF Start
  <2>3. ckpt.state = NoState /\ stage = "stage_queued" /\ reviews = <<>>
    BY <2>1, <2>2 DEF SoleInv, StartsFirst, Untouched
  <2> DEFINE s == [ckpt.state EXCEPT !.stage = "stage_queued"]
  <2>4. s \in BatchStates /\ s.stage = "stage_queued" /\ s.err = ckpt.state.err
    BY <1>0 DEF BatchStates, Stages
  <2>5. ckpt.state.err = "none"
    BY <2>3 DEF NoState
  <2>6. Superstep(r, "supervisor", s) /\ UNCHANGED <<status, stage, reviews, job, clerk>>
    BY <1>3 DEF Start, StartGraph
  <2> HIDE DEF s
  <2> QED
    BY <1>0, <2>1, <2>3, <2>4, <2>5, <2>6, CareSuperstep DEF Nodes
<1>4. CASE Supervisor(r)
  <2>1. run[r].pc = "supervisor" /\ run[r].pc \in Nodes
    BY <1>4 DEF Supervisor, Nodes
  <2>2. /\ Superstep(r, Route(run[r].state), run[r].state)
        /\ UNCHANGED <<status, stage, reviews, job, clerk>>
    BY <1>4 DEF Supervisor
  <2>3. ckpt.next = "supervisor" /\ ckpt.state = run[r].state
    BY <2>1, NodeState
  <2>4. Route(run[r].state) \in Nodes /\ (run[r].state.err # "none" => Route(run[r].state) = "hitl_interrupt")
    BY <1>0, RouteType, RouteTells
  <2>5. reviews # <<>> => RaisingStages \cap Ahead(run[r].state.stage) = {} /\ run[r].state.err = "none"
    BY <2>3 DEF CareInv, StopsBehind
  <2>6. /\ run[r].state.stage = "stage_judgment" => stage = "stage_judgment"
        /\ run[r].state.stage \in {"stage_extraction", "stage_geo", "stage_compliance"} => run[r].state.sids
        /\ run[r].state.err # "none" => run[r].state.stage \in RaisingStages
    BY <2>3 DEF CareInv, ThreadSound
  <2> QED
    BY <1>0, <1>1, <2>2, <2>4, <2>5, <2>6, CareSuperstep
\* The nodes, whose states are those the router sends them.
<1>5. CASE DataGateway(r)
  <2>1. run[r].pc = "data_gateway" /\ UNCHANGED <<status, stage, reviews, job, clerk>>
    BY <1>5 DEF DataGateway
  <2>2. run[r].state.stage = "stage_queued"
    BY <1>0, <2>1, NodeState, RouteTells DEF Nodes
  <2>3. PICK err \in MayRaise("stage_extraction", "low_confidence"), found \in SupplierCases :
          Superstep(r, "supervisor",
                    [stage |-> "stage_extraction", err |-> err, sids |-> found])
    BY <1>5 DEF DataGateway
  <2> DEFINE s == [stage |-> "stage_extraction", err |-> err, sids |-> found]
  <2>4. s \in BatchStates /\ s.stage = "stage_extraction" /\ s.sids
    BY CasesAssumption DEF BatchStates, Stages, Errors, MayRaise, OneStop
  <2>5. s.err # "none" => s.stage \in RaisingStages
    BY DEF MayRaise
  <2>6. Superstep(r, "supervisor", s)
    BY <2>3
  <2> HIDE DEF s
  <2>7. s.stage \in Ahead(run[r].state.stage) /\ Ahead(s.stage) \subseteq Ahead(run[r].state.stage)
    BY <2>2, <2>4 DEF Ahead
  <2> QED
    BY <2>1, <2>4, <2>5, <2>6, <2>7, CareNode
<1>6. CASE GeoAudit(r)
  <2>1. run[r].pc = "geo_audit" /\ UNCHANGED <<status, stage, reviews, job, clerk>>
    BY <1>6 DEF GeoAudit
  <2>2. run[r].state.stage = "stage_extraction" /\ run[r].state.err = "none"
    BY <1>0, <2>1, NodeState, RouteTells DEF Nodes
  <2>3. run[r].state.sids
    BY <2>1, <2>2, NodeState DEF CareInv, ThreadSound, Nodes
  <2>4. PICK risk \in MayRaise("stage_geo", "geographical_risk") :
          Superstep(r, "supervisor",
                    [run[r].state EXCEPT !.stage = "stage_geo",
                                         !.err = IF risk = "none" THEN @ ELSE risk])
    BY <1>6 DEF GeoAudit
  <2> DEFINE s == [run[r].state EXCEPT !.stage = "stage_geo",
                                       !.err = IF risk = "none" THEN @ ELSE risk]
  <2>5. s \in BatchStates /\ s.stage = "stage_geo" /\ s.err = risk /\ s.sids = run[r].state.sids
    BY <1>0, <2>2 DEF BatchStates, Stages, Errors, MayRaise
  <2>6. Superstep(r, "supervisor", s)
    BY <2>4
  <2> HIDE DEF s
  <2>7. s.err # "none" => s.stage \in RaisingStages
    BY <2>5 DEF MayRaise
  <2>8. s.stage \in Ahead(run[r].state.stage) /\ Ahead(s.stage) \subseteq Ahead(run[r].state.stage)
    BY <2>2, <2>5 DEF Ahead
  <2> QED
    BY <2>1, <2>3, <2>5, <2>6, <2>7, <2>8, CareNode
<1>7. CASE Compliance(r)
  <2>1. run[r].pc = "compliance" /\ UNCHANGED <<status, stage, reviews, job, clerk>>
    BY <1>7 DEF Compliance
  <2>2. run[r].state.stage = "stage_geo" /\ run[r].state.err = "none"
    BY <1>0, <2>1, NodeState, RouteTells DEF Nodes
  <2>3. run[r].state.sids
    BY <2>1, <2>2, NodeState DEF CareInv, ThreadSound, Nodes
  <2>4. PICK err \in MayRaise("stage_compliance", "low_confidence") \cup {run[r].state.err} :
          Superstep(r, "supervisor",
                    [run[r].state EXCEPT !.stage = "stage_compliance", !.err = err])
    BY <1>7 DEF Compliance
  <2> DEFINE s == [run[r].state EXCEPT !.stage = "stage_compliance", !.err = err]
  <2>5. s \in BatchStates /\ s.stage = "stage_compliance" /\ s.err = err /\ s.sids = run[r].state.sids
    BY <1>0, <2>2 DEF BatchStates, Stages, Errors, MayRaise
  <2>6. Superstep(r, "supervisor", s)
    BY <2>4
  <2> HIDE DEF s
  <2>7. s.err # "none" => s.stage \in RaisingStages
    BY <2>2, <2>5 DEF MayRaise
  <2>8. s.stage \in Ahead(run[r].state.stage) /\ Ahead(s.stage) \subseteq Ahead(run[r].state.stage)
    BY <2>2, <2>5 DEF Ahead
  <2> QED
    BY <2>1, <2>3, <2>5, <2>6, <2>7, <2>8, CareNode
<1>8. CASE RiskScoring(r)
  <2>1. run[r].pc = "risk_scoring" /\ UNCHANGED <<status, stage, reviews, job, clerk>>
    BY <1>8 DEF RiskScoring
  <2>2. run[r].state.stage = "stage_compliance" /\ run[r].state.err = "none"
    BY <1>0, <2>1, NodeState, RouteTells DEF Nodes
  <2>4. PICK risk \in MayRaise("stage_risk", "risk_escalated") :
          Superstep(r, "supervisor",
                    [run[r].state EXCEPT !.stage = "stage_risk",
                                         !.err = IF risk = "none" THEN @ ELSE risk])
    BY <1>8 DEF RiskScoring
  <2> DEFINE s == [run[r].state EXCEPT !.stage = "stage_risk",
                                       !.err = IF risk = "none" THEN @ ELSE risk]
  <2>5. s \in BatchStates /\ s.stage = "stage_risk" /\ s.err = risk
    BY <1>0, <2>2 DEF BatchStates, Stages, Errors, MayRaise
  <2>6. Superstep(r, "supervisor", s)
    BY <2>4
  <2> HIDE DEF s
  <2>7. s.err # "none" => s.stage \in RaisingStages
    BY <2>5 DEF MayRaise
  <2>8. s.stage \in Ahead(run[r].state.stage) /\ Ahead(s.stage) \subseteq Ahead(run[r].state.stage)
    BY <2>2, <2>5 DEF Ahead
  <2> QED
    BY <2>1, <2>5, <2>6, <2>7, <2>8, CareNode
<1>9. CASE RiskScoringFails(r)
  <2>1. run[r].pc = "risk_scoring" /\ ~run[r].state.sids
    BY <1>9 DEF RiskScoringFails
  <2>2. run[r].state.stage = "stage_compliance"
    BY <1>0, <2>1, NodeState, RouteTells DEF Nodes
  <2> QED
    BY <2>1, <2>2, NodeState DEF CareInv, ThreadSound, Nodes
<1>10. CASE FinalJudgment(r)
  <2>1. /\ run[r].pc = "final_judgment" /\ run[r].pc \in Nodes /\ run[r].pc # "supervisor"
        /\ stage' = "stage_judgment"
        /\ UNCHANGED <<status, reviews, job, clerk>>
    BY <1>10 DEF FinalJudgment, Nodes
  <2>2. run[r].state.err = "none"
    BY <1>0, <2>1, NodeState, RouteTells
  <2> DEFINE s == [run[r].state EXCEPT !.stage = "stage_judgment"]
  <2>3. s \in BatchStates /\ s.stage = "stage_judgment" /\ s.err = "none"
    BY <1>0, <2>2 DEF BatchStates, Stages
  <2>4. Superstep(r, "supervisor", s)
    BY <1>10 DEF FinalJudgment
  <2> HIDE DEF s
  <2>5. Ahead(s.stage) = {}
    BY <2>3 DEF Ahead
  <2> QED
    BY <2>1, <2>3, <2>4, <2>5, CareSuperstep DEF Nodes
<1>11. CASE Completed(r)
  <2>1. /\ run[r].pc = "completed" /\ run[r].pc \in Nodes /\ run[r].pc # "supervisor"
        /\ ckpt' = [next |-> "end", state |-> run[r].state]
        /\ Stop(r)
        /\ UNCHANGED <<status, stage, reviews, clerk>>
    BY <1>11 DEF Completed, Nodes
  <2>2. run[r].state.stage = "stage_judgment" /\ run[r].state.err = "none"
    BY <1>0, <2>1, NodeState, RouteTells
  <2>3. ckpt.state = run[r].state /\ stage = "stage_judgment"
    BY <2>1, <2>2, NodeState DEF CareInv, ThreadSound
  <2>4. run'[r] = RunAt("ended") /\ \A q \in Runs \ {r} : run'[q] = run[q]
    BY <1>0, <2>1 DEF Stop
  <2>5. ckpt'.next = "end" /\ ckpt'.state = run[r].state
    BY <2>1
  <2>6. Ahead(run[r].state.stage) = {}
    BY <2>2 DEF Ahead
  <2>7. ThreadSound' /\ StopsBehind'
    BY <2>1, <2>2, <2>3, <2>5, <2>6 DEF ThreadSound, StopsBehind
  <2>8. StopOpensReview'
    BY <2>1, <2>4 DEF CareInv, StopOpensReview, RunAt, Runs
  <2>9. JobCarries'
    <3>1. CASE r = "hitlJob"
      <4>1. run'["hitlJob"].pc = "ended" /\ job' = "kept" /\ reviews # <<>>
        BY <1>1, <2>1, <2>4, <3>1 DEF Stop, RunAt
      <4> QED
        BY <2>1, <2>3, <4>1 DEF JobCarries, InNode, Nodes, HoldingRow
    <3>2. CASE r # "hitlJob"
      <4>1. run'["hitlJob"] = run["hitlJob"] /\ job' = job
        BY <1>0, <2>1, <2>4, <3>2 DEF Stop
      <4> QED
        BY <2>1, <4>1 DEF CareInv, JobCarries
    <3> QED
      BY <3>1, <3>2
  <2>10. Attended'
    BY <2>1, <2>3 DEF Attended, Settled
  <2> QED
    BY <2>7, <2>8, <2>9, <2>10 DEF CareInv
\* hitl_interrupt: the stop is the thread's, and a run of the worker has its answer.
<1>12. ASSUME run[r].pc \in {"hitl_interrupt", "locked", "checked", "paused"}
       PROVE  /\ r \in StartPaths /\ run[r].pc # "paused" => reviews = <<>>
              /\ r \in StartPaths => run["hitlJob"].pc = "ended" \/ run[r].pc = "paused"
              /\ r = "hitlJob" \/ run[r].pc # "paused" =>
                   ckpt.next = "hitl_interrupt" /\ ckpt.state = run[r].state /\ run[r].state.err # "none"
              /\ r = "hitlJob" => run[r].answer
  <2>1. r \in StartPaths /\ run[r].pc # "paused" => Untouched
    BY <1>12 DEF SoleInv, StartsFirst
  <2>2. ASSUME r = "hitlJob" \/ run[r].pc # "paused"
        PROVE  ckpt.next = "hitl_interrupt" /\ ckpt.state = run[r].state /\ run[r].state.err # "none"
    <3>1. Drives(r) /\ NodeOf(run[r].pc) = "hitl_interrupt"
      BY <1>0, <1>12, <2>2 DEF Drives, NodeOf, InNode, Nodes, HoldingRow
    <3>2. ckpt = [next |-> "hitl_interrupt", state |-> run[r].state]
      BY <3>1 DEF SoleInv, ThreadFollows
    <3>3. ckpt.next = "hitl_interrupt" /\ ckpt.state = run[r].state
      BY <3>2
    <3> QED
      BY <3>3 DEF StopHasReason
  <2>3. run[r].pc \in InNode
    BY <1>12 DEF InNode, Nodes, HoldingRow
  <2>4. r = "hitlJob" => run[r].answer
    BY <2>2, <2>3 DEF CareInv, JobCarries
  <2> QED
    BY <2>1, <2>2, <2>4 DEF Untouched, WorkerAlone
<1>13. ASSUME run[r].pc \in {"hitl_interrupt", "locked"}, NEW pc \in HoldingRow,
              run'[r].pc = pc, run'[r].state = run[r].state, run'[r].answer = run[r].answer,
              \A q \in Runs \ {r} : run'[q] = run[q],
              pc = "checked" /\ r \in StartPaths => run'[r].fresh,
              UNCHANGED <<ckpt, stage, status, reviews, job, clerk>>
       PROVE  CareInv'
  <2>1. ThreadSound' /\ StopsBehind'
    BY <1>13 DEF CareInv, ThreadSound, StopsBehind
  <2>2. JobCarries'
    <3>1. CASE r = "hitlJob"
      BY <1>12, <1>13, <3>1 DEF CareInv, JobCarries, HoldingRow
    <3>2. CASE r # "hitlJob"
      <4>1. run'["hitlJob"] = run["hitlJob"]
        BY <1>0, <1>13, <3>2
      <4> QED
        BY <1>13, <4>1 DEF CareInv, JobCarries
    <3> QED
      BY <3>1, <3>2
  <2>3. StopOpensReview'
    BY <1>13 DEF CareInv, StopOpensReview, Runs, HoldingRow
  <2>4. \A q \in StartPaths : run[q].pc # "ended" => run'[q].pc # "ended"
    BY <1>13 DEF Runs, HoldingRow
  <2>5. Attended'
    BY <1>13, <2>4 DEF CareInv, Attended, Settled, OnItsWay, Pending, Committed
  <2> QED
    BY <2>1, <2>2, <2>3, <2>5 DEF CareInv
<1>14. CASE PauseBatch(r)
  <2>1. /\ run[r].pc = "hitl_interrupt"
        /\ run' = [run EXCEPT ![r].pc = "locked"]
        /\ UNCHANGED <<ckpt, stage, status, reviews, job, clerk>>
    BY <1>14 DEF PauseBatch
  <2>2. /\ run'[r].pc = "locked" /\ run'[r].state = run[r].state /\ run'[r].answer = run[r].answer
        /\ \A q \in Runs \ {r} : run'[q] = run[q]
    BY <1>0, <2>1 DEF RunRecords
  <2> QED
    BY <1>13, <2>1, <2>2 DEF HoldingRow
<1>15. CASE FindReview(r)
  <2>1. /\ run[r].pc = "locked"
        /\ UNCHANGED <<ckpt, stage, status, reviews, job, clerk>>
    BY <1>15 DEF FindReview
  <2>2. /\ run'[r].pc = "checked" /\ run'[r].state = run[r].state /\ run'[r].answer = run[r].answer
        /\ run'[r].fresh <=> ~ \E i \in DOMAIN reviews :
                                  /\ reviews[i].status = "hitl_pending"
                                  /\ SameStop(reviews[i], run[r].state)
        /\ \A q \in Runs \ {r} : run'[q] = run[q]
    BY <1>0, <1>15 DEF FindReview, RunRecords
  <2>3. r \in StartPaths => DOMAIN reviews = {}
    BY <1>12, <2>1
  <2> QED
    BY <1>13, <2>1, <2>2, <2>3 DEF HoldingRow
<1>16. CASE CommitReview(r)
  <2>1. /\ run[r].pc = "checked"
        /\ status' = "batch_hitl_wait"
        /\ UNCHANGED <<ckpt, stage, job, clerk>>
    BY <1>16 DEF CommitReview
  <2>2. /\ run'[r].pc = "paused" /\ run'[r].state = run[r].state /\ run'[r].answer = run[r].answer
        /\ \A q \in Runs \ {r} : run'[q] = run[q]
    BY <1>0, <1>16 DEF CommitReview, RunRecords
  <2>3. ckpt.next = "hitl_interrupt" /\ ckpt.state = run[r].state /\ run[r].state.err # "none"
    BY <1>12, <2>1
  <2>4. reviews' # <<>> /\ (r \in StartPaths => Pending')
    <3>1. CASE r \in StartPaths
      <4>1. run[r].fresh
        BY <2>1, <3>1 DEF CareInv, StopOpensReview
      <4>2. reviews' = Append(reviews, OpenReview(ReviewReason(run[r].state.err), run[r].state.stage))
        BY <1>16, <4>1 DEF CommitReview
      <4>3. Len(reviews) + 1 \in DOMAIN reviews' /\ reviews'[Len(reviews) + 1].status = "hitl_pending"
        BY <1>0, <4>2 DEF OpenReview
      <4>4. reviews' # <<>>
        BY <4>3
      <4> QED
        BY <4>3, <4>4 DEF Pending
    <3>2. CASE r = "hitlJob"
      <4>1. reviews # <<>>
        BY <1>1, <3>2
      <4>2. reviews' = reviews \/ reviews' = Append(reviews, OpenReview(ReviewReason(run[r].state.err), run[r].state.stage))
        BY <1>16 DEF CommitReview
      <4> QED
        BY <1>0, <3>2, <4>1, <4>2
    <3> QED
      BY <3>1, <3>2 DEF Runs
  <2>5. StopsBehind'
    <3>1. ckpt.state.stage \in RaisingStages
      BY <2>3 DEF CareInv, ThreadSound
    <3>2. RaisingStages \subseteq {ckpt.state.stage}
      BY <3>1 DEF OneStop
    <3>3. ckpt.state.stage \notin Ahead(ckpt.state.stage)
      BY <1>0 DEF Ahead, BatchStates, Stages
    <3> QED
      BY <2>1, <2>3, <3>2, <3>3 DEF StopsBehind
  <2>6. ThreadSound'
    BY <2>1 DEF CareInv, ThreadSound
  <2>7. JobCarries'
    <3>1. CASE r = "hitlJob"
      BY <1>12, <2>1, <2>2, <2>4, <3>1 DEF CareInv, JobCarries
    <3>2. CASE r # "hitlJob"
      <4>1. run'["hitlJob"] = run["hitlJob"]
        BY <1>0, <2>2, <3>2
      <4> QED
        BY <2>1, <2>4, <4>1 DEF CareInv, JobCarries
    <3> QED
      BY <3>1, <3>2
  <2>8. StopOpensReview'
    BY <2>2, <2>4 DEF CareInv, StopOpensReview, Runs
  <2>9. Attended'
    BY <1>1, <2>1, <2>4 DEF Attended, OnItsWay, Runs
  <2> QED
    BY <2>5, <2>6, <2>7, <2>8, <2>9 DEF CareInv
<1>17. CASE Interrupt(r)
  <2>1. run[r].pc = "paused" /\ ~run[r].answer /\ Stop(r)
        /\ UNCHANGED <<ckpt, stage, status, reviews, clerk>>
    BY <1>17 DEF Interrupt
  <2>2. r \in StartPaths
    BY <1>12, <2>1 DEF Runs
  <2>3. run'[r] = RunAt("ended") /\ (\A q \in Runs \ {r} : run'[q] = run[q]) /\ job' = job
    BY <1>0, <2>1, <2>2 DEF Stop
  <2>4. run'["hitlJob"] = run["hitlJob"]
    BY <1>0, <2>2, <2>3
  <2>5. reviews # <<>>
    BY <2>1, <2>2 DEF CareInv, StopOpensReview
  <2>6. ThreadSound' /\ StopsBehind' /\ JobCarries'
    BY <2>1, <2>3, <2>4 DEF CareInv, ThreadSound, StopsBehind, JobCarries
  <2>7. StopOpensReview'
    BY <2>1, <2>3 DEF CareInv, StopOpensReview, RunAt, Runs
  <2>8. Attended'
    BY <2>1, <2>3, <2>5 DEF CareInv, Attended, Settled, OnItsWay, Pending, Committed
  <2> QED
    BY <2>6, <2>7, <2>8 DEF CareInv
<1>18. CASE ResumeBatch(r)
  <2> DEFINE s == [run[r].state EXCEPT !.err = "none"]
  <2>1. /\ run[r].pc = "paused" /\ run[r].answer
        /\ Superstep(r, "supervisor", s)
        /\ status' = "batch_processing"
        /\ UNCHANGED <<stage, reviews, job, clerk>>
    BY <1>18 DEF ResumeBatch
  <2>2. r = "hitlJob"
    BY <2>1 DEF SoleInv, StartsFirst, Runs
  <2>3. ckpt.next = "hitl_interrupt" /\ ckpt.state = run[r].state
    BY <1>12, <2>1, <2>2
  <2>4. s \in BatchStates /\ s.err = "none" /\ s.stage = run[r].state.stage /\ s.sids = run[r].state.sids
    BY <1>0 DEF BatchStates, Errors
  <2> HIDE DEF s
  <2>5. RaisingStages \cap Ahead(s.stage) = {}
    BY <1>1, <2>2, <2>3, <2>4 DEF CareInv, StopsBehind
  <2>6. /\ s.stage = "stage_judgment" => stage = "stage_judgment"
        /\ s.stage \in {"stage_extraction", "stage_geo", "stage_compliance"} => s.sids
    BY <2>3, <2>4 DEF CareInv, ThreadSound
  <2> QED
    BY <1>1, <2>1, <2>2, <2>4, <2>5, <2>6, CareSuperstep DEF Nodes
<1> QED
  BY <1>2, <1>3, <1>4, <1>5, <1>6, <1>7, <1>8, <1>9, <1>10, <1>11, <1>14, <1>15, <1>16, <1>17,
     <1>18 DEF RunStep

\* A request leaves the batch with a review, or takes the approval on.
LEMMA CareClerkStep ==
    ASSUME TypeOK, CareInv, NEW c \in Clerks, ClerkStep(c)
    PROVE  CareInv'
<1> USE DEF Batch, Human
<1>0. clerk \in Requests /\ reviews \in Seq(Reviews) /\ clerk[c].pc \in {"idle", "read", "committed"}
  BY DEF TypeOK, Requests
<1>1. UNCHANGED <<run, ckpt, stage>>
  BY DEF ClerkStep, ReadReview, CommitApproval, CommitRejection, EnqueueResume
<1>2. reviews # <<>>
  <2>1. CASE clerk[c].pc # "idle"
    BY <2>1 DEF CareInv, JobCarries
  <2>2. CASE ReadReview(c)
    BY <2>2 DEF ReadReview
  <2> QED
    BY <2>1, <2>2 DEF ClerkStep, CommitApproval, CommitRejection, EnqueueResume
<1>3. reviews' # <<>>
  <2>1. Len(reviews) \in Nat /\ Len(reviews) # 0
    BY <1>0, <1>2
  <2>2. 1 \in DOMAIN reviews
    BY <1>0, <2>1
  <2>3. DOMAIN Decided(c) = DOMAIN reviews
    BY DEF Decided
  <2>4. Decided(c) # <<>>
    BY <2>2, <2>3
  <2> QED
    BY <1>2, <2>4 DEF ClerkStep, ReadReview, CommitApproval, CommitRejection, EnqueueResume
<1>4. ThreadSound' /\ StopsBehind' /\ StopOpensReview'
  BY <1>1, <1>2, <1>3 DEF CareInv, ThreadSound, StopsBehind, StopOpensReview
<1>5. JobCarries'
  BY <1>1, <1>3
     DEF CareInv, JobCarries, ClerkStep, ReadReview, CommitApproval, CommitRejection, EnqueueResume
<1>6. Attended'
  <2>1. CASE ReadReview(c)
    <3>1. Committed' = Committed
      BY <1>0, <2>1 DEF ReadReview, Committed, Requests
    <3> QED
      BY <1>1, <1>2, <2>1, <3>1 DEF ReadReview, CareInv, Attended, Settled, OnItsWay, Pending
  <2>2. CASE CommitApproval(c)
    <3>1. c \in Committed'
      BY <1>0, <2>2 DEF CommitApproval, Committed, Requests
    <3> QED
      BY <1>1, <1>2, <1>3, <2>2, <3>1 DEF CommitApproval, CareInv, Attended, OnItsWay
  <2>3. CASE CommitRejection(c)
    <3>1. \/ status' = "batch_rejected"
          \/ status = "batch_processing" /\ status' = status
      BY <2>3 DEF CommitRejection, TypeOK
    <3> QED
      BY <1>1, <1>2, <1>3, <2>3, <3>1 DEF CommitRejection, CareInv, Attended, Settled, OnItsWay
  <2>4. CASE EnqueueResume(c)
    <3>1. job = "kept" \/ OnItsWay'
      BY <2>4 DEF EnqueueResume, OnItsWay, TypeOK
    <3>2. job = "kept" => stage = "stage_judgment"
      BY DEF CareInv, JobCarries
    <3>3. Settled' \/ OnItsWay'
      BY <1>1, <3>1, <3>2 DEF Settled
    <3> QED
      BY <1>1, <1>2, <1>3, <2>4, <3>1, <3>2, <3>3 DEF EnqueueResume, Attended
  <2> QED
    BY <2>1, <2>2, <2>3, <2>4 DEF ClerkStep
<1> QED
  BY <1>4, <1>5, <1>6 DEF CareInv

\* ... and so does every step of the system.
LEMMA CareStep ==
    ASSUME OneStop
    PROVE  TypeOK /\ StopHasReason /\ WorkerAlone /\ SoleInv /\ CareInv /\ [Next]_vars => CareInv'
<1> SUFFICES ASSUME TypeOK, StopHasReason, WorkerAlone, SoleInv, CareInv, [Next]_vars
             PROVE  CareInv'
  OBVIOUS
<1> USE DEF Batch, Human
<1>0. /\ run \in [Runs -> RunRecords]
      /\ ckpt \in Ckpts
      /\ "hitlJob" \in Runs \ StartPaths
  BY PathsAssumption DEF TypeOK, RunRecords, Ckpts, EventPaths, Runs
\* The job moves on, and the rest stays.
<1>1. ASSUME UNCHANGED <<run, ckpt, status, stage, reviews, clerk>>,
             job # "absent" \/ job' = job,
             job' = "running" => job = "running",
             job' = "kept" => stage = "stage_judgment",
             job' = job \/ stage = "stage_judgment"
      PROVE  CareInv'
  <2>1. ThreadSound' /\ StopsBehind' /\ StopOpensReview'
    BY <1>1 DEF CareInv, ThreadSound, StopsBehind, StopOpensReview
  <2>2. JobCarries'
    BY <1>1 DEF CareInv, JobCarries
  <2>3. Attended'
    BY <1>1 DEF CareInv, Attended, Settled, OnItsWay, Pending, Committed
  <2> QED
    BY <2>1, <2>2, <2>3 DEF CareInv
<1>2. CASE ResumeFinished
  <2>1. /\ job = "queued" /\ ckpt.next = "end" /\ job' = "kept"
        /\ UNCHANGED <<run, ckpt, status, stage, reviews, clerk>>
    BY <1>2 DEF ResumeFinished
  <2>2. stage = "stage_judgment"
    BY <2>1 DEF SoleInv, SentByRoute, CareInv, ThreadSound
  <2> QED
    BY <1>1, <2>1, <2>2
<1>3. CASE ExpireResult
  <2>1. /\ job = "kept" /\ job' = "absent"
        /\ UNCHANGED <<run, ckpt, status, stage, reviews, clerk>>
    BY <1>3 DEF ExpireResult
  <2> QED
    BY <1>1, <2>1 DEF CareInv, JobCarries
<1>4. CASE ResumeThread
  <2>1. /\ run'["hitlJob"].pc = ckpt.next /\ run'["hitlJob"].answer
        /\ \A q \in Runs \ {"hitlJob"} : run'[q] = run[q]
        /\ ckpt.next \in Nodes
        /\ job = "queued" /\ job' = "running"
        /\ UNCHANGED <<ckpt, stage, status, reviews, clerk>>
    BY <1>0, <1>4 DEF ResumeThread, Ckpts
  <2>2. \A q \in StartPaths : run'[q] = run[q]
    BY <1>0, <2>1 DEF Runs
  <2>3. ThreadSound' /\ StopsBehind' /\ StopOpensReview'
    BY <2>1, <2>2 DEF CareInv, ThreadSound, StopsBehind, StopOpensReview
  <2>4. JobCarries'
    BY <2>1 DEF CareInv, JobCarries, Nodes
  <2>5. Attended'
    BY <2>1, <2>2 DEF CareInv, Attended, Settled, OnItsWay, Pending, Committed
  <2> QED
    BY <2>3, <2>4, <2>5 DEF CareInv
<1>5. CASE ResumeFromRow
  <2> DEFINE s == [NoState EXCEPT !.stage = stage]
  <2>1. /\ job = "queued" /\ ckpt.next = "none" /\ job' = "running"
        /\ status' = "batch_processing"
        /\ Superstep("hitlJob", "supervisor", s)
        /\ UNCHANGED <<stage, reviews, clerk>>
    BY <1>5 DEF ResumeFromRow
  <2>2. reviews # <<>> /\ stage = "stage_risk"
    BY <2>1 DEF CareInv, JobCarries, StopsBehind
  <2>3. s \in BatchStates /\ s.stage = stage /\ s.err = "none"
    BY DEF TypeOK, NoState, BatchStates, Stages, Errors
  <2> HIDE DEF s
  <2>4. Ahead(s.stage) = {}
    BY <2>2, <2>3 DEF Ahead
  <2> QED
    BY <1>0, <2>1, <2>2, <2>3, <2>4, CareSuperstep DEF Nodes
<1>6. CASE RedeliverHitlJob
  <2>1. /\ job = "running" /\ job' = "queued"
        /\ run' = [run EXCEPT !["hitlJob"] = RunAt("ended")]
        /\ UNCHANGED <<ckpt, status, stage, reviews, clerk>>
    BY <1>6 DEF RedeliverHitlJob
  <2>2. /\ run'["hitlJob"].pc = "ended"
        /\ \A q \in StartPaths : run'[q] = run[q]
    BY <1>0, <2>1 DEF RunAt, Runs
  <2>3. ThreadSound' /\ StopsBehind' /\ StopOpensReview'
    BY <2>1, <2>2 DEF CareInv, ThreadSound, StopsBehind, StopOpensReview
  <2>4. JobCarries'
    BY <2>1, <2>2 DEF CareInv, JobCarries, InNode, Nodes, HoldingRow
  <2>5. Attended'
    BY <2>1, <2>2 DEF CareInv, Attended, Settled, OnItsWay
  <2> QED
    BY <2>3, <2>4, <2>5 DEF CareInv
<1>7. CASE UNCHANGED vars
  BY <1>1, <1>7 DEF vars, CareInv, JobCarries
<1>8. ~RestartPipelineJob /\ (\A r \in Runs : ~Fail(r)) /\ (\A c \in Clerks : ~LoseEnqueue(c))
  BY DEF OneStop, RestartPipelineJob, Fail, LoseEnqueue, FaultAllowed
<1> QED
  BY <1>2, <1>3, <1>4, <1>5, <1>6, <1>7, <1>8, CareRunStep, CareClerkStep
     DEF Next, WorkerStep, Fault

\* A batch that one path starts and one stage may stop is never left alone while it
\* is neither judged nor rejected, however many requests decide over its review and
\* however often the hitl worker dies (infrastructure/queue.py:55).
THEOREM NeverStranded ==
    ASSUME OneStop
    PROVE  Spec => []NoStranded
<1>1. Init => TypeOK /\ StopHasReason /\ WorkerAlone /\ SoleInv /\ CareInv
  BY TypeInit, WorkerAloneInit, SoleInit, CareInit
<1>2. OneStart
  BY DEF OneStop
<1>3. /\ TypeOK /\ StopHasReason /\ WorkerAlone /\ SoleInv /\ CareInv
      /\ [Next]_vars
      => (TypeOK /\ StopHasReason /\ WorkerAlone /\ SoleInv /\ CareInv)'
  BY <1>2, TypeStep, WorkerStepAlone, SoleStep, CareStep
<1> QED
  BY <1>1, <1>3, CareEnough, PTL DEF Spec
=============================================================================
