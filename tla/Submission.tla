----------------------------- MODULE Submission -----------------------------
(***************************************************************************)
(* One data request and its submission: what suppliers and reviewers do to *)
(* its row over HTTP, the batches that submits create, and how an approval *)
(* hands a batch to the pipeline.                                          *)
(*                                                                         *)
(* transition_submission locks the row before it looks at the status.  The *)
(* submit and approve endpoints have loaded the row into their session     *)
(* before, though, and SQLAlchemy keeps the attributes of an object it has *)
(* loaded (no populate_existing, expire_on_commit is off): they decide on  *)
(* the status they saw at first.  Rework, reject and the other transitions *)
(* load the row under the lock.                                            *)
(***************************************************************************)
EXTENDS Naturals, Sequences

CONSTANTS
    Callers,     \* HTTP requests that may be served together
    Faults,      \* failures that may happen
    MaxCalls,    \* bound: HTTP requests
    MaxFaults    \* bound: failures

ASSUME FaultsAssumption == Faults \subseteq {"drop"}
ASSUME BoundsAssumption == MaxCalls \in Nat /\ MaxFaults \in Nat

Status == {"requested", "in_progress", "submitted", "review", "approved", "rework", "rejected"}

SeededStatus == Status \ {"rejected"}

\* Batches are numbered as they are created; NoBatch is NULL.
NoBatch == 0

VARIABLES
    status,      \* data_request_log.submission_status
    batchOf,     \* data_request_log.batch_id
    history,     \* submission_status_history, with the batch of the transition
    batches,     \* number of batches created for the request
    request,     \* per caller: progress, endpoint, status and batch it holds
    trigger,     \* batch in the processed_jobs row submission_approved:{request_id}
    published,   \* events that make the batch handler start a graph
    jobs,        \* start_batch_pipeline jobs enqueued, oldest first
    calls, faults   \* bound counters

Bounds == <<calls, faults>>
vars == <<status, batchOf, history, batches, request, trigger, published, jobs, Bounds>>

Rows == [from : Status, to : Status, batch : Nat]

Request == [pc : {"idle", "read", "created", "committed", "published", "checked", "recorded"},
            kind : {"submit", "approve"}, seen : Status, batch : Nat]

Events == [name : {"SubmissionCompleted", "SubmissionApproved"}, batch : Nat \ {NoBatch}]

TypeOK ==
    /\ status \in Status
    /\ batchOf \in Nat
    /\ history \in Seq(Rows)
    /\ batches \in Nat
    /\ request \in [Callers -> Request]
    /\ trigger \in Nat
    /\ published \subseteq Events
    /\ jobs \in Seq(Nat \ {NoBatch})
    /\ calls \in Nat /\ faults \in Nat

Init ==
    /\ status \in SeededStatus
    /\ batchOf = NoBatch
    /\ history = <<>>
    /\ batches = 0
    /\ request = [c \in Callers |->
                    [pc |-> "idle", kind |-> "submit", seen |-> "requested", batch |-> NoBatch]]
    /\ trigger = NoBatch
    /\ published = {}
    /\ jobs = <<>>
    /\ calls = 0 /\ faults = 0

\* SUBMISSION_TRANSITIONS
Allowed(s) ==
    CASE s = "requested"   -> {"in_progress"}
      [] s = "in_progress" -> {"submitted"}
      [] s = "submitted"   -> {"review"}
      [] s = "review"      -> {"approved", "rework", "rejected"}
      [] s = "rework"      -> {"in_progress"}
      [] OTHER             -> {}

Call == calls < MaxCalls /\ calls' = calls + 1

Move(c, pc) == request' = [request EXCEPT ![c].pc = pc]

\* The new status and its history row, written together.
WriteStatus(from, to, batch) ==
    /\ status' = to
    /\ history' = Append(history, [from |-> from, to |-> to, batch |-> batch])

-----------------------------------------------------------------------------
(* Transitions that load the row under its lock                            *)

\* Rework, reject and the transitions to in_progress and review.
UpdateStatus(c, to) ==
    /\ request[c].pc = "idle"
    /\ to \in {"in_progress", "review", "rework", "rejected"} \cap Allowed(status)
    /\ Call
    /\ WriteStatus(status, to, NoBatch)
    /\ UNCHANGED <<batchOf, batches, request, trigger, published, jobs, faults>>

-----------------------------------------------------------------------------
(* submit_data_request_endpoint                                            *)

ReadForSubmit(c) ==
    /\ request[c].pc = "idle"
    /\ Call
    /\ request' = [request EXCEPT ![c] =
                     [pc |-> "read", kind |-> "submit", seen |-> status, batch |-> NoBatch]]
    /\ UNCHANGED <<status, batchOf, history, batches, trigger, published, jobs, faults>>

\* Variant, not the code: the new batch is stored in the request at once.
CreateBatchStored(c) ==
    /\ request[c].pc = "read"
    /\ request[c].kind = "submit"
    /\ batches' = batches + 1
    /\ request' = [request EXCEPT ![c].pc = "created", ![c].batch = batches + 1]
    /\ batchOf' = batches + 1
    /\ UNCHANGED <<status, history, trigger, published, jobs, Bounds>>

\* create_batch commits on its own.
CreateBatch(c) ==
    /\ request[c].pc = "read"
    /\ request[c].kind = "submit"
    /\ batches' = batches + 1
    /\ request' = [request EXCEPT ![c].pc = "created", ![c].batch = batches + 1]
    /\ UNCHANGED <<status, batchOf, history, trigger, published, jobs, Bounds>>

\* Nothing to submit or mandatory fields missing: the batch stays behind.
RefuseSubmit(c) ==
    /\ request[c].pc = "created"
    /\ Move(c, "idle")
    /\ UNCHANGED <<status, batchOf, history, batches, trigger, published, jobs, Bounds>>

CommitSubmit(c) ==
    /\ request[c].pc = "created"
    /\ IF "submitted" \in Allowed(request[c].seen)
         THEN /\ WriteStatus(request[c].seen, "submitted", request[c].batch)
              /\ batchOf' = request[c].batch
              /\ Move(c, "committed")
         ELSE /\ Move(c, "idle")
              /\ UNCHANGED <<status, batchOf, history>>
    /\ UNCHANGED <<batches, trigger, published, jobs, Bounds>>

\* SubmissionCompleted is published: the batch handler starts a graph.
PublishCompleted(c) ==
    /\ request[c].pc = "committed"
    /\ request[c].kind = "submit"
    /\ published' = published \cup {[name |-> "SubmissionCompleted", batch |-> request[c].batch]}
    /\ Move(c, "idle")
    /\ UNCHANGED <<status, batchOf, history, batches, trigger, jobs, Bounds>>

-----------------------------------------------------------------------------
(* approve_data_request_endpoint, approve_submission                       *)

ReadForApproval(c) ==
    /\ request[c].pc = "idle"
    /\ Call
    /\ request' = [request EXCEPT ![c] =
                     [pc |-> "read", kind |-> "approve", seen |-> status, batch |-> batchOf]]
    /\ UNCHANGED <<status, batchOf, history, batches, trigger, published, jobs, faults>>

CommitApproval(c) ==
    /\ request[c].pc = "read"
    /\ request[c].kind = "approve"
    /\ IF "approved" \in Allowed(request[c].seen)
         THEN /\ WriteStatus(request[c].seen, "approved", request[c].batch)
              /\ Move(c, "committed")
         ELSE /\ Move(c, "idle")
              /\ UNCHANGED <<status, history>>
    /\ UNCHANGED <<batchOf, batches, trigger, published, jobs, Bounds>>

\* SubmissionApproved is published.  Without a batch nobody starts anything.
PublishApproved(c) ==
    /\ request[c].pc = "committed"
    /\ request[c].kind = "approve"
    /\ IF request[c].batch = NoBatch
         THEN /\ Move(c, "idle")
              /\ UNCHANGED published
         ELSE /\ Move(c, "published")
              /\ published' = published \cup
                   {[name |-> "SubmissionApproved", batch |-> request[c].batch]}
    /\ UNCHANGED <<status, batchOf, history, batches, trigger, jobs, Bounds>>

\* Variant, not the code: the trigger is looked up the wrong way round.
CheckTriggerInverted(c) ==
    /\ request[c].pc = "published"
    /\ Move(c, IF trigger = NoBatch THEN "idle" ELSE "checked")
    /\ UNCHANGED <<status, batchOf, history, batches, trigger, published, jobs, Bounds>>

\* Has the request triggered its pipeline before?
CheckTrigger(c) ==
    /\ request[c].pc = "published"
    /\ Move(c, IF trigger = NoBatch THEN "checked" ELSE "idle")
    /\ UNCHANGED <<status, batchOf, history, batches, trigger, published, jobs, Bounds>>

\* Variant, not the code: the key of the trigger is not unique.
RecordTriggerUnchecked(c) ==
    /\ request[c].pc = "checked"
    /\ trigger' = request[c].batch
    /\ Move(c, "recorded")
    /\ UNCHANGED <<status, batchOf, history, batches, published, jobs, Bounds>>

\* The key of the trigger is the primary key: a second INSERT raises.
RecordTrigger(c) ==
    /\ request[c].pc = "checked"
    /\ IF trigger = NoBatch
         THEN /\ trigger' = request[c].batch
              /\ Move(c, "recorded")
         ELSE /\ Move(c, "idle")
              /\ UNCHANGED trigger
    /\ UNCHANGED <<status, batchOf, history, batches, published, jobs, Bounds>>

EnqueuePipeline(c) ==
    /\ request[c].pc = "recorded"
    /\ jobs' = Append(jobs, request[c].batch)
    /\ Move(c, "idle")
    /\ UNCHANGED <<status, batchOf, history, batches, trigger, published, Bounds>>

-----------------------------------------------------------------------------
(* Failures                                                                *)

\* The process dies or a step raises: the caller never goes on.
DropRequest(c) ==
    /\ "drop" \in Faults
    /\ faults < MaxFaults
    /\ faults' = faults + 1
    /\ request[c].pc # "idle"
    /\ Move(c, "idle")
    /\ UNCHANGED <<status, batchOf, history, batches, trigger, published, jobs, calls>>

-----------------------------------------------------------------------------

\* What a caller does on its own once its request is in.
Serve(c) ==
    \/ CreateBatch(c)
    \/ RefuseSubmit(c)
    \/ CommitSubmit(c)
    \/ PublishCompleted(c)
    \/ CommitApproval(c)
    \/ PublishApproved(c)
    \/ CheckTrigger(c)
    \/ RecordTrigger(c)
    \/ EnqueuePipeline(c)

Next ==
    \E c \in Callers :
        \/ \E to \in Status : UpdateStatus(c, to)
        \/ ReadForSubmit(c)
        \/ ReadForApproval(c)
        \/ Serve(c)
        \/ DropRequest(c)

Spec == Init /\ [][Next]_vars

\* The event loop goes on with what it began; nobody has to call.
Fairness == \A c \in Callers : WF_vars(Serve(c))

FairSpec == Spec /\ Fairness

-----------------------------------------------------------------------------
(* Properties                                                              *)

\* An approval enqueues the pipeline once, although several approvals of one
\* review may be committed: check_and_record_pipeline_trigger lets one pass.
OneJob == Len(jobs) <= 1

\* Some submit stored b in the request; if so before row j.
SubmittedBefore(b, j) == \E i \in 1 .. j - 1 : history[i].to = "submitted" /\ history[i].batch = b

\* Only a batch that a committed submit stored is ever started, be it by an
\* event or a job, and a job only for an approval that came after that submit:
\* the batches of refused submits never run.
StartsBacked ==
    /\ \A e \in published : SubmittedBefore(e.batch, Len(history) + 1)
    /\ \A k \in DOMAIN jobs : \E j \in DOMAIN history :
         history[j].to = "approved" /\ SubmittedBefore(jobs[k], j)

\* An approval of a request with a batch gets its pipeline job in the end,
\* through repeated approvals and the error of the second trigger, unless a
\* process died or a step raised.
ApprovalEnqueued ==
    (\E j \in DOMAIN history : history[j].to = "approved" /\ history[j].batch # NoBatch)
    ~> (jobs # <<>> \/ faults > 0)

\* SUBMISSION_TRANSITIONS: nothing follows approved and rejected.
FinalIsFinal == [][(status \in {"approved", "rejected"}) => status' = status]_vars
=============================================================================
