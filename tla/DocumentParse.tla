--------------------------- MODULE DocumentParse ---------------------------
(***************************************************************************)
(* The documents of one supplier on their way to an extraction result:     *)
(* the handler that registers an uploaded file, document_parse_queue, the  *)
(* worker that claims a document and parses it, the sweeper that enqueues  *)
(* what was lost, and the supplier who confirms what was read.             *)
(*                                                                         *)
(* The worker's transaction is committed twice on the way through the      *)
(* model: parse_document commits its own extraction row, and with it the   *)
(* claim; the worker then stores a row of its own and commits it with the  *)
(* job marked done.  Jobs of one document never run together, since they   *)
(* share the ARQ job id document_parse:{document_id}.                      *)
(***************************************************************************)
EXTENDS Naturals, Sequences

CONSTANTS
    Files,        \* uploaded files; a document has the name of its file
    Deleted,      \* documents without a row that a client still asks for
    Handlers,     \* event handlers that may run together
    Faults,       \* failures that may happen
    MaxEvents,    \* bound: SupplierDocumentUploaded events
    MaxTriggers,  \* bound: requests to parse a document
    MaxFaults     \* bound: failures

ASSUME FilesAssumption == Files # {}
ASSUME DeletedAssumption == Deleted \cap Files = {}
ASSUME FaultsAssumption == Faults \subseteq {"fail", "restart", "crash"}
ASSUME BoundsAssumption == MaxEvents \in Nat /\ MaxTriggers \in Nat /\ MaxFaults \in Nat

Documents == Files \cup Deleted

VARIABLES
    docs,      \* submission_documents: rows with the file's file_url
    age,       \* uploaded_at against the sweeper's window
    handler,   \* per handler: progress, file
    job,       \* the ARQ job of a document
    worker,    \* progress of the worker that runs it
    claim,     \* processed_jobs.status as committed
    results,   \* document_extraction_results: supplier_confirmed, oldest first
    found,     \* documents the sweeper has read and still has to enqueue
    parsed,    \* history: calls of parse_document that reached their commit
    uploads, triggers, faults   \* bound counters

Bounds == <<uploads, triggers, faults>>
vars == <<docs, age, handler, job, worker, claim, results, found, parsed, Bounds>>

\* file_url is UNIQUE: a file has one row at most.
TypeOK ==
    /\ docs \in [Documents -> {0, 1}]
    /\ age \in [Documents -> {"fresh", "due", "old"}]
    /\ handler \in [Handlers -> [pc : {"idle", "checked", "committed"}, file : Files]]
    /\ job \in [Documents -> {"absent", "queued", "running", "kept"}]
    /\ worker \in [Documents -> {"idle", "claimed", "parsed"}]
    /\ claim \in [Documents -> {"none", "processing", "done", "failed"}]
    /\ results \in [Documents -> Seq(BOOLEAN)]
    /\ found \subseteq Documents
    /\ parsed \in [Documents -> Nat]
    /\ uploads \in Nat /\ triggers \in Nat /\ faults \in Nat

Init ==
    /\ docs = [d \in Documents |-> 0]
    /\ age = [d \in Documents |-> "fresh"]
    /\ handler \in [Handlers -> [pc : {"idle"}, file : {CHOOSE f \in Files : TRUE}]]
    /\ job = [d \in Documents |-> "absent"]
    /\ worker = [d \in Documents |-> "idle"]
    /\ claim = [d \in Documents |-> "none"]
    /\ results = [d \in Documents |-> <<>>]
    /\ found = {}
    /\ parsed = [d \in Documents |-> 0]
    /\ uploads = 0 /\ triggers = 0 /\ faults = 0

\* ARQ takes a job unless its id is queued, running or has its result kept.
Enqueue(d) == job' = [job EXCEPT ![d] = IF @ = "absent" THEN "queued" ELSE @]

-----------------------------------------------------------------------------
(* on_supplier_document_uploaded                                           *)

\* The event may come twice; a file that is registered is skipped.
ReceiveUpload(h, f) ==
    /\ handler[h].pc = "idle"
    /\ uploads < MaxEvents
    /\ uploads' = uploads + 1
    /\ handler' = [handler EXCEPT ![h] =
                     [pc |-> IF docs[f] = 0 THEN "checked" ELSE "idle", file |-> f]]
    /\ UNCHANGED <<docs, age, job, worker, claim, results, found, parsed, triggers, faults>>

\* The request and the document are committed together, unless another
\* handler was first: the UNIQUE index rolls both back.
RegisterUpload(h) ==
    /\ handler[h].pc = "checked"
    /\ IF docs[handler[h].file] = 0
         THEN /\ docs' = [docs EXCEPT ![handler[h].file] = 1]
              /\ handler' = [handler EXCEPT ![h].pc = "committed"]
         ELSE /\ handler' = [handler EXCEPT ![h].pc = "idle"]
              /\ UNCHANGED docs
    /\ UNCHANGED <<age, job, worker, claim, results, found, parsed, Bounds>>

EnqueueUpload(h) ==
    /\ handler[h].pc = "committed"
    /\ handler' = [handler EXCEPT ![h].pc = "idle"]
    /\ Enqueue(handler[h].file)
    /\ UNCHANGED <<docs, age, worker, claim, results, found, parsed, Bounds>>

\* trigger_document_parse_endpoint does not look at the document.
TriggerParse(d) ==
    /\ d \in Deleted \/ docs[d] = 1
    /\ triggers < MaxTriggers
    /\ triggers' = triggers + 1
    /\ Enqueue(d)
    /\ UNCHANGED <<docs, age, handler, worker, claim, results, found, parsed, uploads, faults>>

-----------------------------------------------------------------------------
(* process_document_parse                                                  *)

\* Variant, not the code: a claim that exists does not stop the worker.
ClaimAlways(d) ==
    /\ job[d] = "queued"
    /\ worker' = [worker EXCEPT ![d] = "claimed"]
    /\ job' = [job EXCEPT ![d] = "running"]
    /\ UNCHANGED <<docs, age, handler, claim, results, found, parsed, Bounds>>

\* Variant, not the code: the claim is committed before the document is read.
ClaimCommitted(d) ==
    /\ job[d] = "queued"
    /\ IF claim[d] = "none"
         THEN /\ worker' = [worker EXCEPT ![d] = "claimed"]
              /\ claim' = [claim EXCEPT ![d] = "processing"]
              /\ job' = [job EXCEPT ![d] = "running"]
         ELSE /\ job' = [job EXCEPT ![d] = "kept"]
              /\ UNCHANGED <<worker, claim>>
    /\ UNCHANGED <<docs, age, handler, results, found, parsed, Bounds>>

\* claim_job: the first one goes on with the claim uncommitted, a repeated
\* one is skipped.
Claim(d) ==
    /\ job[d] = "queued"
    /\ IF claim[d] = "none"
         THEN /\ worker' = [worker EXCEPT ![d] = "claimed"]
              /\ job' = [job EXCEPT ![d] = "running"]
         ELSE /\ job' = [job EXCEPT ![d] = "kept"]
              /\ UNCHANGED worker
    /\ UNCHANGED <<docs, age, handler, claim, results, found, parsed, Bounds>>

\* The worker is done with d and the job keeps its result.
Finish(d) ==
    /\ worker' = [worker EXCEPT ![d] = "idle"]
    /\ job' = [job EXCEPT ![d] = "kept"]

\* document_not_found: the failure is recorded with the claim.
DocumentNotFound(d) ==
    /\ worker[d] = "claimed"
    /\ docs[d] = 0
    /\ claim' = [claim EXCEPT ![d] = "failed"]
    /\ Finish(d)
    /\ UNCHANGED <<docs, age, handler, results, found, parsed, Bounds>>

\* parse_document stores what the model read and commits, the claim included.
ParseDocument(d) ==
    /\ worker[d] = "claimed"
    /\ docs[d] = 1
    /\ results' = [results EXCEPT ![d] = Append(@, FALSE)]
    /\ claim' = [claim EXCEPT ![d] = "processing"]
    /\ parsed' = [parsed EXCEPT ![d] = @ + 1]
    /\ worker' = [worker EXCEPT ![d] = "parsed"]
    /\ UNCHANGED <<docs, age, handler, job, found, Bounds>>

\* A file no model can read: parse_document returns before it stores anything.
ParseUnsupported(d) ==
    /\ worker[d] = "claimed"
    /\ docs[d] = 1
    /\ worker' = [worker EXCEPT ![d] = "parsed"]
    /\ UNCHANGED <<docs, age, handler, job, claim, results, found, parsed, Bounds>>

\* The worker stores its row, marks the job done and commits.
StoreResult(d) ==
    /\ worker[d] = "parsed"
    /\ results' = [results EXCEPT ![d] = Append(@, FALSE)]
    /\ claim' = [claim EXCEPT ![d] = "done"]
    /\ Finish(d)
    /\ UNCHANGED <<docs, age, handler, found, parsed, Bounds>>

ExpireResult(d) ==
    /\ job[d] = "kept"
    /\ job' = [job EXCEPT ![d] = "absent"]
    /\ UNCHANGED <<docs, age, handler, worker, claim, results, found, parsed, Bounds>>

-----------------------------------------------------------------------------
(* confirm_extraction_result and reenqueue_missed_documents                *)

\* The supplier confirms the latest result of the document.
Confirm(d) ==
    /\ results[d] # <<>>
    /\ results' = [results EXCEPT ![d][Len(results[d])] = TRUE]
    /\ UNCHANGED <<docs, age, handler, job, worker, claim, found, parsed, Bounds>>

\* Ten minutes, then 24 hours go by after the upload.
PassTime(d) ==
    /\ docs[d] = 1
    /\ age[d] # "old"
    /\ age' = [age EXCEPT ![d] = IF @ = "fresh" THEN "due" ELSE "old"]
    /\ UNCHANGED <<docs, handler, job, worker, claim, results, found, parsed, Bounds>>

\* Variant, not the code: the ten minutes are compared the wrong way round.
MissedRecently(d) == docs[d] = 1 /\ claim[d] = "none" /\ age[d] = "fresh"

\* Registered between ten minutes and 24 hours ago and never claimed.
Missed(d) == docs[d] = 1 /\ claim[d] = "none" /\ age[d] = "due"

\* The sweeper reads what was missed and then enqueues it one by one.
Sweep ==
    /\ found = {}
    /\ found' = {d \in Documents : Missed(d)}
    /\ found' # {}
    /\ UNCHANGED <<docs, age, handler, job, worker, claim, results, parsed, Bounds>>

EnqueueFound(d) ==
    /\ d \in found
    /\ found' = found \ {d}
    /\ Enqueue(d)
    /\ UNCHANGED <<docs, age, handler, worker, claim, results, parsed, Bounds>>

-----------------------------------------------------------------------------
(* Failures                                                                *)

FaultAllowed(f) ==
    /\ f \in Faults
    /\ faults < MaxFaults
    /\ faults' = faults + 1

\* An exception: what is not committed is rolled back, ARQ does not retry.
FailJob(d) ==
    /\ FaultAllowed("fail")
    /\ worker[d] # "idle"
    /\ Finish(d)
    /\ UNCHANGED <<docs, age, handler, claim, results, found, parsed, uploads, triggers>>

\* The worker dies; ARQ runs the job again.
RestartWorker(d) ==
    /\ FaultAllowed("restart")
    /\ worker[d] # "idle"
    /\ worker' = [worker EXCEPT ![d] = "idle"]
    /\ job' = [job EXCEPT ![d] = "queued"]
    /\ UNCHANGED <<docs, age, handler, claim, results, found, parsed, uploads, triggers>>

\* The handler's process dies between its commit and the enqueue.
CrashHandler(h) ==
    /\ FaultAllowed("crash")
    /\ handler[h].pc = "committed"
    /\ handler' = [handler EXCEPT ![h].pc = "idle"]
    /\ UNCHANGED <<docs, age, job, worker, claim, results, found, parsed, uploads, triggers>>

-----------------------------------------------------------------------------

HandlerStep(h) == RegisterUpload(h) \/ EnqueueUpload(h)

WorkerStep(d) ==
    \/ Claim(d)
    \/ DocumentNotFound(d)
    \/ ParseDocument(d)
    \/ ParseUnsupported(d)
    \/ StoreResult(d)

Next ==
    \/ \E h \in Handlers, f \in Files : ReceiveUpload(h, f)
    \/ \E h \in Handlers : HandlerStep(h) \/ CrashHandler(h)
    \/ \E d \in Documents :
         \/ WorkerStep(d)
         \/ ExpireResult(d)
         \/ TriggerParse(d)
         \/ Confirm(d)
         \/ PassTime(d)
         \/ EnqueueFound(d)
         \/ FailJob(d)
         \/ RestartWorker(d)
    \/ Sweep

Spec == Init /\ [][Next]_vars

\* Handlers, the worker and the sweeper go on, redis expires what it keeps and
\* the ten minutes of grace pass; the 24 hours need not.
Fairness ==
    /\ \A h \in Handlers : WF_vars(HandlerStep(h))
    /\ \A d \in Documents :
         /\ WF_vars(WorkerStep(d))
         /\ WF_vars(ExpireResult(d))
         /\ WF_vars(age[d] = "fresh" /\ PassTime(d))
         /\ WF_vars(EnqueueFound(d))
    /\ WF_vars(Sweep)

FairSpec == Spec /\ Fairness

-----------------------------------------------------------------------------
(* Properties                                                              *)

\* A document is read by the model once, through repeated events, triggers and
\* sweeps, retries and restarts: process_document_parse claims it first.
ParsedOnce == \A d \in Documents : parsed[d] <= 1

\* A claim that makes later jobs skip the document never hides a document
\* without a result, although an error may leave it at processing.
ClaimHasResult ==
    \A d \in Documents : claim[d] \in {"processing", "done"} => results[d] # <<>>

\* A registered document is claimed in the end, or its 24 hours go by, even if
\* the handler dies before it enqueues and jobs fail: the sweeper finds it.
EventuallyClaimed ==
    \A d \in Files : docs[d] = 1 ~> (claim[d] # "none" \/ age[d] = "old")
=============================================================================
