-------------------------- MODULE SubmissionProofs --------------------------
(***************************************************************************)
(* Theorems about Submission, for every set of callers and every bound.    *)
(***************************************************************************)
EXTENDS Submission, SequenceTheorems, TLAPS

(***************************************************************************)
(* TypeOK: every step keeps the types.  That only a batch, never NULL, is  *)
(* published or enqueued needs Carried: a caller that holds a batch to be  *)
(* published, triggered or enqueued holds one.                             *)
(***************************************************************************)
Carried ==
    \A c \in Callers :
        /\ request[c].pc \in {"published", "checked", "recorded"} => request[c].batch # NoBatch
        /\ request[c].kind = "submit" /\ request[c].pc \in {"created", "committed"}
           => request[c].batch # NoBatch
        /\ request[c].pc \in {"published", "checked", "recorded"} => request[c].kind = "approve"
        /\ request[c].pc = "created" => request[c].kind = "submit"

\* Moving on keeps a caller's record a record.
LEMMA MoveType ==
    ASSUME TypeOK, NEW c \in Callers,
           NEW pc \in {"idle", "read", "created", "committed", "published", "checked", "recorded"},
           Move(c, pc)
    PROVE  /\ request' \in [Callers -> Request]
           /\ request'[c].pc = pc
           /\ request'[c].kind = request[c].kind
           /\ request'[c].seen = request[c].seen
           /\ request'[c].batch = request[c].batch
           /\ \A d \in Callers \ {c} : request'[d] = request[d]
<1>1. request[c] \in Request
  BY DEF TypeOK
<1>2. [request[c] EXCEPT !.pc = pc] \in Request
  BY <1>1 DEF Request
<1>3. request' = [request EXCEPT ![c] = [request[c] EXCEPT !.pc = pc]]
  BY DEF Move, TypeOK
<1> QED
  BY <1>1, <1>2, <1>3 DEF TypeOK, Request

\* A status that is allowed next is a status.
LEMMA AllowedType == \A s \in Status : Allowed(s) \subseteq Status
  BY DEF Allowed, Status

\* A transition writes a status and a row.
LEMMA WriteType ==
    ASSUME TypeOK, NEW from \in Status, NEW to \in Status, NEW batch \in Nat,
           WriteStatus(from, to, batch)
    PROVE  status' \in Status /\ history' \in Seq(Rows)
<1>1. [from |-> from, to |-> to, batch |-> batch] \in Rows
  BY DEF Rows
<1> QED
  BY <1>1, AppendProperties DEF WriteStatus, TypeOK

Typed == TypeOK /\ Carried

LEMMA InitialType == Init => Typed
  BY DEF Init, Typed, TypeOK, Carried, Request, Events, NoBatch, Status, SeededStatus

\* What a read leaves in a caller's record.
LEMMA ReadType ==
    ASSUME TypeOK, NEW c \in Callers, ReadForSubmit(c) \/ ReadForApproval(c)
    PROVE  /\ request' \in [Callers -> Request]
           /\ request'[c].pc = "read"
           /\ request'[c].seen = status
           /\ request'[c].kind = "submit" => ReadForSubmit(c)
           /\ request'[c].kind = "approve" => request'[c].batch = batchOf
           /\ \A d \in Callers \ {c} : request'[d] = request[d]
<1>1. CASE ReadForSubmit(c)
  <2>1. [pc |-> "read", kind |-> "submit", seen |-> status, batch |-> NoBatch] \in Request
    BY DEF TypeOK, Request, NoBatch
  <2> QED
    BY <1>1, <2>1 DEF ReadForSubmit, TypeOK
<1>2. CASE ReadForApproval(c)
  <2>1. [pc |-> "read", kind |-> "approve", seen |-> status, batch |-> batchOf] \in Request
    BY DEF TypeOK, Request
  <2> QED
    BY <1>2, <2>1 DEF ReadForApproval, TypeOK
<1> QED
  BY <1>1, <1>2

\* What create_batch leaves in a caller's record.
LEMMA CreateType ==
    ASSUME TypeOK, NEW c \in Callers, CreateBatch(c)
    PROVE  /\ request' \in [Callers -> Request]
           /\ request'[c].pc = "created"
           /\ request'[c].kind = "submit"
           /\ request'[c].seen = request[c].seen
           /\ request'[c].batch # NoBatch
           /\ \A d \in Callers \ {c} : request'[d] = request[d]
<1>1. request[c] \in Request /\ batches \in Nat
  BY DEF TypeOK
<1>2. request[c].kind \in {"submit", "approve"} /\ request[c].seen \in Status
      /\ batches + 1 \in Nat
  BY <1>1 DEF Request
<1>3. [request[c] EXCEPT !.pc = "created", !.batch = batches + 1]
      = [pc |-> "created", kind |-> request[c].kind, seen |-> request[c].seen,
         batch |-> batches + 1]
  <2> DEFINE mid == [request[c] EXCEPT !.pc = "created"]
  <2>1. mid \in Request
    BY <1>1 DEF Request
  <2>2. mid.pc = "created" /\ mid.kind = request[c].kind /\ mid.seen = request[c].seen
    BY <1>1 DEF Request
  <2> HIDE DEF mid
  <2>3. [mid EXCEPT !.batch = batches + 1]
        = [pc |-> "created", kind |-> request[c].kind, seen |-> request[c].seen,
           batch |-> batches + 1]
    BY <2>1, <2>2 DEF Request
  <2> QED
    BY <2>3 DEF mid
<1>4. [request[c] EXCEPT !.pc = "created", !.batch = batches + 1] \in Request
  BY <1>2, <1>3 DEF Request
<1>5. request' = [request EXCEPT ![c] = [request[c] EXCEPT !.pc = "created", !.batch = batches + 1]]
  BY DEF CreateBatch, TypeOK
<1> QED
  BY <1>1, <1>2, <1>3, <1>4, <1>5 DEF CreateBatch, TypeOK, Request, NoBatch

LEMMA NextType == Typed /\ [Next]_vars => Typed'
<1> SUFFICES ASSUME TypeOK, Carried, [Next]_vars PROVE TypeOK' /\ Carried'
  BY DEF Typed
<1>1. ASSUME NEW c \in Callers, NEW to \in Status, UpdateStatus(c, to) PROVE TypeOK' /\ Carried'
  <2>1. status' \in Status /\ history' \in Seq(Rows)
    BY <1>1, WriteType DEF UpdateStatus, TypeOK, NoBatch
  <2> QED
    BY <1>1, <2>1 DEF UpdateStatus, Call, TypeOK, Carried
<1>2. ASSUME NEW c \in Callers, ReadForSubmit(c) \/ ReadForApproval(c) PROVE TypeOK' /\ Carried'
  <2>1. UNCHANGED <<status, batchOf, history, batches, trigger, published, jobs, faults>>
        /\ calls' = calls + 1
    BY <1>2 DEF ReadForSubmit, ReadForApproval, Call
  <2>2. TypeOK'
    BY <1>2, <2>1, ReadType DEF TypeOK
  <2> QED
    BY <1>2, <2>2, ReadType DEF Carried
<1>3. ASSUME NEW c \in Callers, CreateBatch(c) PROVE TypeOK' /\ Carried'
  <2>1. TypeOK'
    <3>1. batches' \in Nat /\ UNCHANGED <<status, batchOf, history, trigger, published, jobs, calls, faults>>
      BY <1>3 DEF CreateBatch, Bounds, TypeOK
    <3> QED
      BY <1>3, <3>1, CreateType DEF TypeOK
  <2>2. Carried'
    BY CreateType, <1>3 DEF Carried
  <2> QED
    BY <2>1, <2>2
<1>4. ASSUME NEW c \in Callers, RefuseSubmit(c) \/ DropRequest(c) PROVE TypeOK' /\ Carried'
  <2>1. Move(c, "idle")
    BY <1>4 DEF RefuseSubmit, DropRequest
  <2>2. TypeOK'
    BY <1>4, <2>1, MoveType DEF RefuseSubmit, DropRequest, Bounds, TypeOK
  <2> QED
    BY <2>1, <2>2, MoveType DEF Carried
<1>5. ASSUME NEW c \in Callers, CommitSubmit(c) PROVE TypeOK' /\ Carried'
  <2>1. request[c] \in Request
    BY DEF TypeOK
  <2>2. CASE "submitted" \in Allowed(request[c].seen)
    <3>1. WriteStatus(request[c].seen, "submitted", request[c].batch) /\ Move(c, "committed")
      BY <1>5, <2>2 DEF CommitSubmit
    <3>2. status' \in Status /\ history' \in Seq(Rows)
      BY <2>1, <3>1, WriteType DEF Request, Status
    <3>3. TypeOK'
      BY <1>5, <2>1, <2>2, <3>1, <3>2, MoveType DEF CommitSubmit, Bounds, TypeOK, Request
    <3>4. Carried'
      BY <1>5, <3>1, MoveType DEF CommitSubmit, Carried
    <3> QED
      BY <3>3, <3>4
  <2>3. CASE "submitted" \notin Allowed(request[c].seen)
    <3>1. Move(c, "idle") /\ UNCHANGED <<status, batchOf, history>>
      BY <1>5, <2>3 DEF CommitSubmit
    <3>2. TypeOK'
      BY <1>5, <3>1, MoveType DEF CommitSubmit, Bounds, TypeOK
    <3> QED
      BY <3>1, <3>2, MoveType DEF Carried
  <2> QED
    BY <2>2, <2>3
<1>6. ASSUME NEW c \in Callers, PublishCompleted(c) PROVE TypeOK' /\ Carried'
  <2>1. Move(c, "idle")
    BY <1>6 DEF PublishCompleted
  <2>2. [name |-> "SubmissionCompleted", batch |-> request[c].batch] \in Events
    BY <1>6 DEF PublishCompleted, Carried, TypeOK, Request, Events
  <2>3. TypeOK'
    BY <1>6, <2>1, <2>2, MoveType DEF PublishCompleted, Bounds, TypeOK
  <2> QED
    BY <2>1, <2>3, MoveType DEF Carried
<1>7. ASSUME NEW c \in Callers, CommitApproval(c) PROVE TypeOK' /\ Carried'
  <2>1. request[c] \in Request
    BY DEF TypeOK
  <2>2. CASE "approved" \in Allowed(request[c].seen)
    <3>1. WriteStatus(request[c].seen, "approved", request[c].batch) /\ Move(c, "committed")
      BY <1>7, <2>2 DEF CommitApproval
    <3>2. status' \in Status /\ history' \in Seq(Rows)
      BY <2>1, <3>1, WriteType DEF Request, Status
    <3>3. TypeOK'
      BY <1>7, <3>1, <3>2, MoveType DEF CommitApproval, Bounds, TypeOK
    <3>4. Carried'
      BY <1>7, <3>1, MoveType DEF CommitApproval, Carried
    <3> QED
      BY <3>3, <3>4
  <2>3. CASE "approved" \notin Allowed(request[c].seen)
    <3>1. Move(c, "idle") /\ UNCHANGED <<status, history>>
      BY <1>7, <2>3 DEF CommitApproval
    <3>2. TypeOK'
      BY <1>7, <3>1, MoveType DEF CommitApproval, Bounds, TypeOK
    <3> QED
      BY <3>1, <3>2, MoveType DEF Carried
  <2> QED
    BY <2>2, <2>3
<1>8. ASSUME NEW c \in Callers, PublishApproved(c) PROVE TypeOK' /\ Carried'
  <2>1. CASE request[c].batch = NoBatch
    <3>1. Move(c, "idle") /\ UNCHANGED published
      BY <1>8, <2>1 DEF PublishApproved
    <3>2. TypeOK'
      BY <1>8, <3>1, MoveType DEF PublishApproved, Bounds, TypeOK
    <3> QED
      BY <3>1, <3>2, MoveType DEF Carried
  <2>2. CASE request[c].batch # NoBatch
    <3>1. Move(c, "published")
          /\ published' = published \cup {[name |-> "SubmissionApproved", batch |-> request[c].batch]}
      BY <1>8, <2>2 DEF PublishApproved
    <3>2. [name |-> "SubmissionApproved", batch |-> request[c].batch] \in Events
      BY <2>2 DEF TypeOK, Request, Events
    <3>3. TypeOK'
      BY <1>8, <3>1, <3>2, MoveType DEF PublishApproved, Bounds, TypeOK
    <3>4. Carried'
      BY <1>8, <2>2, <3>1, MoveType DEF PublishApproved, Carried
    <3> QED
      BY <3>3, <3>4
  <2> QED
    BY <2>1, <2>2
<1>9. ASSUME NEW c \in Callers, CheckTrigger(c) PROVE TypeOK' /\ Carried'
  <2>1. Move(c, "idle") \/ Move(c, "checked")
    BY <1>9 DEF CheckTrigger
  <2>2. TypeOK'
    BY <1>9, <2>1, MoveType DEF CheckTrigger, Bounds, TypeOK
  <2> QED
    BY <1>9, <2>1, <2>2, MoveType DEF CheckTrigger, Carried
<1>10. ASSUME NEW c \in Callers, RecordTrigger(c) PROVE TypeOK' /\ Carried'
  <2>1. Move(c, "idle") \/ Move(c, "recorded")
    BY <1>10 DEF RecordTrigger
  <2>2. trigger' \in Nat
    BY <1>10 DEF RecordTrigger, TypeOK, Request
  <2>3. TypeOK'
    BY <1>10, <2>1, <2>2, MoveType DEF RecordTrigger, Bounds, TypeOK
  <2> QED
    BY <1>10, <2>1, <2>3, MoveType DEF RecordTrigger, Carried
<1>11. ASSUME NEW c \in Callers, EnqueuePipeline(c) PROVE TypeOK' /\ Carried'
  <2>1. Move(c, "idle")
    BY <1>11 DEF EnqueuePipeline
  <2>2. request[c].batch \in Nat \ {NoBatch}
    BY <1>11 DEF EnqueuePipeline, Carried, TypeOK, Request
  <2>3. jobs' \in Seq(Nat \ {NoBatch})
    BY <1>11, <2>2, AppendProperties DEF EnqueuePipeline, TypeOK
  <2>4. TypeOK'
    BY <1>11, <2>1, <2>3, MoveType DEF EnqueuePipeline, Bounds, TypeOK
  <2> QED
    BY <2>1, <2>4, MoveType DEF Carried
<1>12. CASE UNCHANGED vars
  BY <1>12 DEF vars, Bounds, TypeOK, Carried
<1> QED
  BY <1>1, <1>2, <1>3, <1>4, <1>5, <1>6, <1>7, <1>8, <1>9, <1>10, <1>11, <1>12
  DEF Next, Serve

THEOREM TypeCorrect == Spec => []TypeOK
<1>1. Typed => TypeOK
  BY DEF Typed
<1> QED
  BY <1>1, InitialType, NextType, PTL DEF Spec

(***************************************************************************)
(* OneJob: SELECT and INSERT of the trigger are apart, and two approvals   *)
(* may both find none; the INSERT lets one of them on.  Whoever is about   *)
(* to enqueue, or has, wrote the one trigger row.                          *)
(***************************************************************************)
Triggered ==
    /\ Len(jobs) <= 1
    /\ jobs # <<>> => trigger # NoBatch
    /\ \A c \in Callers : request[c].pc = "recorded" => trigger # NoBatch /\ jobs = <<>>
    /\ \A c, d \in Callers : request[c].pc = "recorded" /\ request[d].pc = "recorded" => c = d

\* A step that brings nobody to the enqueue.
LEMMA TriggeredKept ==
    ASSUME Triggered, UNCHANGED <<trigger, jobs>>,
           \A c \in Callers : request'[c].pc = "recorded" => request[c].pc = "recorded"
    PROVE  Triggered'
  BY DEF Triggered

\* Every step that writes neither trigger nor jobs is such a step.
LEMMA OtherSteps ==
    ASSUME TypeOK, NEW c \in Callers,
           \/ \E to \in Status : UpdateStatus(c, to)
           \/ ReadForSubmit(c) \/ ReadForApproval(c) \/ CreateBatch(c) \/ RefuseSubmit(c)
           \/ CommitSubmit(c) \/ PublishCompleted(c) \/ CommitApproval(c)
           \/ PublishApproved(c) \/ CheckTrigger(c) \/ DropRequest(c)
    PROVE  /\ UNCHANGED <<trigger, jobs>>
           /\ \A d \in Callers : request'[d].pc = "recorded" => request[d].pc = "recorded"
<1>1. CASE \E to \in Status : UpdateStatus(c, to)
  BY <1>1 DEF UpdateStatus
<1>2. CASE ReadForSubmit(c) \/ ReadForApproval(c)
  BY <1>2, ReadType DEF ReadForSubmit, ReadForApproval
<1>3. CASE CreateBatch(c)
  BY <1>3, CreateType DEF CreateBatch
<1>4. CASE \/ RefuseSubmit(c) \/ CommitSubmit(c) \/ PublishCompleted(c) \/ CommitApproval(c)
           \/ PublishApproved(c) \/ CheckTrigger(c) \/ DropRequest(c)
  <2>1. UNCHANGED <<trigger, jobs>>
    BY <1>4 DEF RefuseSubmit, CommitSubmit, PublishCompleted, CommitApproval, PublishApproved,
                CheckTrigger, DropRequest, Bounds
  <2>2. \E pc \in {"idle", "committed", "published", "checked"} : Move(c, pc)
    BY <1>4 DEF RefuseSubmit, CommitSubmit, PublishCompleted, CommitApproval, PublishApproved,
                CheckTrigger, DropRequest
  <2> QED
    BY <2>1, <2>2, MoveType
<1> QED
  BY <1>1, <1>2, <1>3, <1>4

LEMMA NextTriggered == Typed /\ Triggered /\ [Next]_vars => Triggered'
<1> SUFFICES ASSUME TypeOK, Carried, Triggered, [Next]_vars PROVE Triggered'
  BY DEF Typed
<1>1. ASSUME NEW c \in Callers, RecordTrigger(c) PROVE Triggered'
  <2>1. CASE trigger = NoBatch
    <3>1. Move(c, "recorded") /\ trigger' = request[c].batch /\ UNCHANGED jobs
      BY <1>1, <2>1 DEF RecordTrigger
    <3>2. request[c].batch # NoBatch
      BY <1>1 DEF RecordTrigger, Carried
    <3>3. jobs = <<>> /\ \A d \in Callers : request[d].pc # "recorded"
      BY <2>1 DEF Triggered
    <3> QED
      BY <3>1, <3>2, <3>3, MoveType DEF Triggered
  <2>2. CASE trigger # NoBatch
    <3>1. Move(c, "idle") /\ UNCHANGED <<trigger, jobs>>
      BY <1>1, <2>2 DEF RecordTrigger
    <3> QED
      BY <3>1, MoveType, TriggeredKept
  <2> QED
    BY <2>1, <2>2
<1>2. ASSUME NEW c \in Callers, EnqueuePipeline(c) PROVE Triggered'
  <2>1. request[c].pc = "recorded" /\ Move(c, "idle") /\ UNCHANGED trigger
        /\ jobs' = Append(jobs, request[c].batch)
    BY <1>2 DEF EnqueuePipeline
  <2>2. jobs = <<>> /\ trigger # NoBatch /\ \A d \in Callers \ {c} : request[d].pc # "recorded"
    BY <2>1 DEF Triggered
  <2>3. Len(jobs') = 1
    BY <2>1, <2>2
  <2>4. \A d \in Callers : request'[d].pc # "recorded"
    BY <2>1, <2>2, MoveType
  <2> QED
    BY <2>1, <2>2, <2>3, <2>4 DEF Triggered
<1>3. CASE UNCHANGED vars
  BY <1>3 DEF vars, Triggered
<1> QED
  BY <1>1, <1>2, <1>3, OtherSteps, TriggeredKept DEF Next, Serve

THEOREM OneJobPerRequest == Spec => []OneJob
<1>1. Init => Triggered
  BY DEF Init, Triggered
<1>2. Triggered => OneJob
  BY DEF Triggered, OneJob
<1> QED
  BY <1>1, <1>2, InitialType, NextType, NextTriggered, PTL DEF Spec

(***************************************************************************)
(* StartsBacked: whatever a caller or the request holds as a batch was     *)
(* stored by a submit, and what is published or enqueued comes from there. *)
(***************************************************************************)
Submitted(b) == SubmittedBefore(b, Len(history) + 1)

Approved(b) ==
    \E j \in DOMAIN history : history[j].to = "approved" /\ SubmittedBefore(b, j)

Held ==
    /\ batchOf # NoBatch => Submitted(batchOf)
    /\ \A c \in Callers :
         /\ request[c].kind = "submit" /\ request[c].pc = "committed" => Submitted(request[c].batch)
         /\ request[c].kind = "approve" /\ request[c].batch # NoBatch
            => /\ Submitted(request[c].batch)
               /\ request[c].pc \in {"committed", "published", "checked", "recorded"}
                  => Approved(request[c].batch)
    /\ \A e \in published : Submitted(e.batch)
    /\ \A k \in DOMAIN jobs : Approved(jobs[k])

\* The history only grows: what was submitted and approved stays so.
LEMMA HistoryKept ==
    ASSUME TypeOK, NEW row, history' = history \/ history' = Append(history, row)
    PROVE  /\ \A b : Submitted(b) => Submitted(b)'
           /\ \A b : Approved(b) => Approved(b)'
<1>1. CASE history' = history
  BY <1>1 DEF Submitted, Approved, SubmittedBefore
<1>2. CASE history' = Append(history, row)
  <2>1. history \in Seq(Rows) /\ Len(history) \in Nat /\ DOMAIN history = 1 .. Len(history)
    BY DEF TypeOK
  <2>2. Len(history') = Len(history) + 1 /\ DOMAIN history' = 1 .. Len(history) + 1
    BY <1>2, <2>1
  <2>3. \A i \in 1 .. Len(history) : history'[i] = history[i]
    BY <1>2, <2>1
  <2>4. ASSUME NEW b, NEW j \in 1 .. Len(history) + 1, SubmittedBefore(b, j)
        PROVE  SubmittedBefore(b, j)'
    BY <2>1, <2>3, <2>4 DEF SubmittedBefore
  <2>5. ASSUME NEW b, Submitted(b) PROVE Submitted(b)'
    BY <2>1, <2>2, <2>3, <2>5 DEF Submitted, SubmittedBefore
  <2>6. ASSUME NEW b, Approved(b) PROVE Approved(b)'
    <3>1. PICK j \in DOMAIN history : history[j].to = "approved" /\ SubmittedBefore(b, j)
      BY <2>6 DEF Approved
    <3>2. j \in DOMAIN history' /\ history'[j].to = "approved"
      BY <2>1, <2>2, <2>3, <3>1
    <3>3. SubmittedBefore(b, j)'
      BY <2>1, <2>4, <3>1
    <3> QED
      BY <3>2, <3>3 DEF Approved
  <2> QED
    BY <2>5, <2>6
<1> QED
  BY <1>1, <1>2

\* The row just written: a submit stores its batch, an approval of a
\* submitted batch approves it.
LEMMA RowWritten ==
    ASSUME TypeOK, NEW from \in Status, NEW b \in Nat
    PROVE  /\ WriteStatus(from, "submitted", b) => Submitted(b)'
           /\ WriteStatus(from, "approved", b) /\ Submitted(b) => Approved(b)'
<1>1. history \in Seq(Rows) /\ Len(history) \in Nat /\ DOMAIN history = 1 .. Len(history)
  BY DEF TypeOK
<1>2. ASSUME NEW to \in Status, WriteStatus(from, to, b)
      PROVE  /\ Len(history') = Len(history) + 1
             /\ DOMAIN history' = 1 .. Len(history) + 1
             /\ history'[Len(history) + 1].to = to
             /\ history'[Len(history) + 1].batch = b
             /\ \A i \in 1 .. Len(history) : history'[i] = history[i]
  BY <1>1, <1>2 DEF WriteStatus
<1>3. "submitted" \in Status /\ "approved" \in Status
  BY DEF Status
<1>4. ASSUME WriteStatus(from, "submitted", b) PROVE Submitted(b)'
  BY <1>1, <1>2, <1>3, <1>4 DEF Submitted, SubmittedBefore
<1>5. ASSUME WriteStatus(from, "approved", b), Submitted(b) PROVE Approved(b)'
  <2>1. SubmittedBefore(b, Len(history) + 1)'
    BY <1>1, <1>2, <1>3, <1>5 DEF Submitted, SubmittedBefore
  <2>2. /\ Len(history) + 1 \in DOMAIN history'
        /\ history'[Len(history) + 1].to = "approved"
    BY <1>1, <1>2, <1>3, <1>5
  <2>3. \E i \in 1 .. Len(history) : history'[i].to = "submitted" /\ history'[i].batch = b
    BY <1>1, <1>2, <1>3, <1>5 DEF Submitted, SubmittedBefore
  <2> QED
    BY <1>1, <2>2, <2>3 DEF Approved, SubmittedBefore
<1> QED
  BY <1>4, <1>5

\* A step that stores, publishes and enqueues nothing, and after which every
\* caller holds what it held, without having been moved past an approval.
LEMMA HeldKept ==
    ASSUME TypeOK, Held, NEW row, history' = history \/ history' = Append(history, row),
           UNCHANGED <<batchOf, published, jobs>>,
           \A c \in Callers :
             \/ request'[c].pc \in {"idle", "read", "created"} /\ request'[c].kind = "submit"
             \/ /\ request'[c].kind = request[c].kind
                /\ request'[c].batch = request[c].batch
                /\ \/ request'[c].pc \in {request[c].pc, "idle"}
                   \/ request[c].kind = "approve"
                      /\ request[c].pc \in {"committed", "published", "checked", "recorded"}
    PROVE  Held'
<1>1. /\ \A b : Submitted(b) => Submitted(b)'
      /\ \A b : Approved(b) => Approved(b)'
  BY HistoryKept
<1>2. batchOf' # NoBatch => Submitted(batchOf)'
  BY <1>1 DEF Held
<1>3. ASSUME NEW c \in Callers
      PROVE  /\ request'[c].kind = "submit" /\ request'[c].pc = "committed"
                => Submitted(request[c].batch)' /\ request'[c].batch = request[c].batch
             /\ request'[c].kind = "approve" /\ request'[c].batch # NoBatch
                => /\ Submitted(request[c].batch)' /\ request'[c].batch = request[c].batch
                   /\ request'[c].pc \in {"committed", "published", "checked", "recorded"}
                      => Approved(request[c].batch)'
  BY <1>1 DEF Held
<1> QED
  BY <1>1, <1>2, <1>3 DEF Held

LEMMA NextHeld == Typed /\ Held /\ [Next]_vars => Held'
<1> SUFFICES ASSUME TypeOK, Carried, Held, [Next]_vars PROVE Held'
  BY DEF Typed
<1>1. ASSUME NEW c \in Callers, NEW to \in Status, UpdateStatus(c, to) PROVE Held'
  <2>1. UNCHANGED <<batchOf, published, jobs, request>>
        /\ history' = Append(history, [from |-> status, to |-> to, batch |-> NoBatch])
    BY <1>1 DEF UpdateStatus, WriteStatus
  <2> QED
    BY <2>1, HeldKept
<1>2. ASSUME NEW c \in Callers, ReadForSubmit(c) PROVE Held'
  <2>1. UNCHANGED <<batchOf, published, jobs, history>>
    BY <1>2 DEF ReadForSubmit
  <2>2. request'[c].pc = "read" /\ request'[c].kind = "submit"
        /\ \A d \in Callers \ {c} : request'[d] = request[d]
    BY <1>2 DEF ReadForSubmit, TypeOK
  <2> QED
    BY <2>1, <2>2, HeldKept
<1>3. ASSUME NEW c \in Callers, ReadForApproval(c) PROVE Held'
  <2>1. UNCHANGED <<batchOf, published, jobs, history>>
    BY <1>3 DEF ReadForApproval
  <2>2. /\ request'[c].pc = "read" /\ request'[c].kind = "approve"
        /\ request'[c].batch = batchOf
        /\ \A d \in Callers \ {c} : request'[d] = request[d]
    BY <1>3 DEF ReadForApproval, TypeOK
  <2>3. /\ \A b : Submitted(b) => Submitted(b)'
        /\ \A b : Approved(b) => Approved(b)'
    BY <2>1, HistoryKept
  <2> QED
    BY <2>1, <2>2, <2>3 DEF Held
<1>4. ASSUME NEW c \in Callers, CreateBatch(c) PROVE Held'
  <2>1. UNCHANGED <<batchOf, published, jobs, history>>
    BY <1>4 DEF CreateBatch
  <2> QED
    BY <1>4, <2>1, CreateType, HeldKept
<1>5. ASSUME NEW c \in Callers, RefuseSubmit(c) \/ DropRequest(c) PROVE Held'
  <2>1. Move(c, "idle") /\ UNCHANGED <<batchOf, published, jobs, history>>
    BY <1>5 DEF RefuseSubmit, DropRequest
  <2> QED
    BY <2>1, MoveType, HeldKept
<1>6. ASSUME NEW c \in Callers, CommitSubmit(c) PROVE Held'
  <2>1. CASE "submitted" \in Allowed(request[c].seen)
    <3>1. /\ WriteStatus(request[c].seen, "submitted", request[c].batch)
          /\ Move(c, "committed") /\ batchOf' = request[c].batch
          /\ UNCHANGED <<published, jobs>>
      BY <1>6, <2>1 DEF CommitSubmit
    <3>2. request[c].seen \in Status /\ request[c].batch \in Nat
      BY DEF TypeOK, Request
    <3>3. Submitted(request[c].batch)'
      BY <3>1, <3>2, RowWritten, MoveType
    <3>4. /\ \A b : Submitted(b) => Submitted(b)'
          /\ \A b : Approved(b) => Approved(b)'
      BY <3>1, HistoryKept DEF WriteStatus
    <3>5. request[c].kind = "submit"
      BY <1>6 DEF CommitSubmit, Carried
    <3>6. batchOf' # NoBatch => Submitted(batchOf)'
      BY <3>1, <3>3, MoveType
    <3> QED
      BY <3>1, <3>3, <3>4, <3>5, <3>6, MoveType DEF Held
  <2>2. CASE "submitted" \notin Allowed(request[c].seen)
    <3>1. Move(c, "idle") /\ UNCHANGED <<batchOf, published, jobs, history>>
      BY <1>6, <2>2 DEF CommitSubmit
    <3> QED
      BY <3>1, MoveType, HeldKept
  <2> QED
    BY <2>1, <2>2
<1>7. ASSUME NEW c \in Callers, PublishCompleted(c) PROVE Held'
  <2>1. /\ request[c].kind = "submit" /\ request[c].pc = "committed" /\ Move(c, "idle")
        /\ published' = published \cup {[name |-> "SubmissionCompleted", batch |-> request[c].batch]}
        /\ UNCHANGED <<batchOf, history, jobs>>
    BY <1>7 DEF PublishCompleted
  <2>2. /\ \A b : Submitted(b) => Submitted(b)'
        /\ \A b : Approved(b) => Approved(b)'
    BY <2>1, HistoryKept
  <2>3. Submitted(request[c].batch)'
    BY <2>1, <2>2, MoveType DEF Held
  <2>4. \A e \in published' : Submitted(e.batch)'
    BY <2>1, <2>2, <2>3, MoveType DEF Held
  <2> QED
    BY <2>1, <2>2, <2>4, MoveType DEF Held
<1>8. ASSUME NEW c \in Callers, CommitApproval(c) PROVE Held'
  <2>1. CASE "approved" \in Allowed(request[c].seen)
    <3>1. /\ WriteStatus(request[c].seen, "approved", request[c].batch)
          /\ Move(c, "committed") /\ request[c].kind = "approve"
          /\ UNCHANGED <<batchOf, published, jobs>>
      BY <1>8, <2>1 DEF CommitApproval
    <3>2. request[c].seen \in Status /\ request[c].batch \in Nat
      BY DEF TypeOK, Request
    <3>3. request[c].batch # NoBatch => Submitted(request[c].batch) /\ Approved(request[c].batch)'
      BY <3>1, <3>2, RowWritten, MoveType DEF Held
    <3>4. /\ \A b : Submitted(b) => Submitted(b)'
          /\ \A b : Approved(b) => Approved(b)'
      BY <3>1, HistoryKept DEF WriteStatus
    <3> QED
      BY <3>1, <3>3, <3>4, MoveType DEF Held
  <2>2. CASE "approved" \notin Allowed(request[c].seen)
    <3>1. Move(c, "idle") /\ UNCHANGED <<batchOf, published, jobs, history>>
      BY <1>8, <2>2 DEF CommitApproval
    <3> QED
      BY <3>1, MoveType, HeldKept
  <2> QED
    BY <2>1, <2>2
<1>9. ASSUME NEW c \in Callers, PublishApproved(c) PROVE Held'
  <2>1. CASE request[c].batch = NoBatch
    <3>1. Move(c, "idle") /\ UNCHANGED <<batchOf, published, jobs, history>>
      BY <1>9, <2>1 DEF PublishApproved
    <3> QED
      BY <3>1, MoveType, HeldKept
  <2>2. CASE request[c].batch # NoBatch
    <3>1. /\ request[c].kind = "approve" /\ request[c].pc = "committed" /\ Move(c, "published")
          /\ published' = published \cup {[name |-> "SubmissionApproved", batch |-> request[c].batch]}
          /\ UNCHANGED <<batchOf, history, jobs>>
      BY <1>9, <2>2 DEF PublishApproved
    <3>2. /\ \A b : Submitted(b) => Submitted(b)'
          /\ \A b : Approved(b) => Approved(b)'
      BY <3>1, HistoryKept
    <3>3. Submitted(request[c].batch)'
      BY <2>2, <3>1, <3>2, MoveType DEF Held
    <3>4. \A e \in published' : Submitted(e.batch)'
      BY <3>1, <3>2, <3>3, MoveType DEF Held
    <3> QED
      BY <3>1, <3>2, <3>4, MoveType DEF Held
  <2> QED
    BY <2>1, <2>2
<1>10. ASSUME NEW c \in Callers, CheckTrigger(c) \/ RecordTrigger(c) PROVE Held'
  <2>1. /\ \E pc \in {"idle", "checked", "recorded"} : Move(c, pc)
        /\ request[c].pc \in {"published", "checked"}
        /\ UNCHANGED <<batchOf, published, jobs, history>>
    BY <1>10 DEF CheckTrigger, RecordTrigger
  <2>2. request[c].kind = "approve"
    BY <2>1 DEF Carried
  <2> QED
    BY <2>1, <2>2, MoveType, HeldKept
<1>11. ASSUME NEW c \in Callers, EnqueuePipeline(c) PROVE Held'
  <2>1. /\ request[c].pc = "recorded" /\ Move(c, "idle")
        /\ jobs' = Append(jobs, request[c].batch)
        /\ UNCHANGED <<batchOf, published, history>>
    BY <1>11 DEF EnqueuePipeline
  <2>2. request[c].kind = "approve" /\ request[c].batch # NoBatch
    BY <2>1 DEF Carried
  <2>3. /\ \A b : Submitted(b) => Submitted(b)'
        /\ \A b : Approved(b) => Approved(b)'
    BY <2>1, HistoryKept
  <2>4. Approved(request[c].batch)'
    BY <2>1, <2>2, <2>3, MoveType DEF Held
  <2>5. jobs \in Seq(Nat \ {NoBatch})
    BY DEF TypeOK
  <2>6. ASSUME NEW k \in DOMAIN jobs'
        PROVE  jobs'[k] = request[c].batch \/ (k \in DOMAIN jobs /\ jobs'[k] = jobs[k])
    BY <2>1, <2>5
  <2>7. ASSUME NEW k \in DOMAIN jobs' PROVE Approved(jobs[k])'
    BY <2>1, <2>3, <2>4, <2>6, MoveType DEF Held
  <2> QED
    BY <2>1, <2>3, <2>7, MoveType DEF Held
<1>12. CASE UNCHANGED vars
  BY <1>12, HeldKept DEF vars
<1> QED
  BY <1>1, <1>2, <1>3, <1>4, <1>5, <1>6, <1>7, <1>8, <1>9, <1>10, <1>11, <1>12
  DEF Next, Serve

THEOREM OnlySubmittedStarts == Spec => []StartsBacked
<1>1. Init => Held
  BY DEF Init, Held
<1>2. Held => StartsBacked
  BY DEF Held, StartsBacked, Submitted, Approved
<1> QED
  BY <1>1, <1>2, InitialType, NextType, NextHeld, PTL DEF Spec

(***************************************************************************)
(* FinalIsFinal: what an object keeps in its session only does harm when   *)
(* requests overlap.  One caller at a time decides on the status the row   *)
(* has, and SUBMISSION_TRANSITIONS is followed.                            *)
(***************************************************************************)
Fresh ==
    \A c \in Callers : request[c].pc \in {"read", "created"} => request[c].seen = status

LEMMA SequentialStep ==
    ASSUME NEW one, Callers = {one}, TypeOK, Fresh, [Next]_vars
    PROVE  /\ Fresh'
           /\ status \in {"approved", "rejected"} => status' = status
<1>1. CASE \E to \in Status : UpdateStatus(one, to)
  BY <1>1 DEF UpdateStatus, WriteStatus, Allowed, Fresh
<1>2. CASE ReadForSubmit(one) \/ ReadForApproval(one)
  <2>1. status' = status
    BY <1>2 DEF ReadForSubmit, ReadForApproval
  <2>2. request'[one].seen = status
    BY <1>2, ReadType
  <2> QED
    BY <2>1, <2>2 DEF Fresh
<1>3. CASE CreateBatch(one)
  <2>1. status' = status /\ request[one].pc = "read"
    BY <1>3 DEF CreateBatch
  <2> QED
    BY <1>3, <2>1, CreateType DEF Fresh
<1>4. CASE CommitSubmit(one) \/ CommitApproval(one)
  <2>1. request[one].seen = status
    BY <1>4 DEF CommitSubmit, CommitApproval, Fresh
  <2>2. status \in {"approved", "rejected"} => Allowed(request[one].seen) = {}
    BY <2>1 DEF Allowed
  <2>3. Move(one, "idle") \/ Move(one, "committed")
    BY <1>4 DEF CommitSubmit, CommitApproval
  <2>4. Fresh'
    BY <2>3, MoveType DEF Fresh
  <2>5. status \in {"approved", "rejected"} => status' = status
    BY <1>4, <2>2 DEF CommitSubmit, CommitApproval
  <2> QED
    BY <2>4, <2>5
<1>5. CASE \/ RefuseSubmit(one) \/ PublishCompleted(one) \/ PublishApproved(one)
           \/ CheckTrigger(one) \/ RecordTrigger(one) \/ EnqueuePipeline(one) \/ DropRequest(one)
  <2>1. status' = status
    BY <1>5 DEF RefuseSubmit, PublishCompleted, PublishApproved, CheckTrigger, RecordTrigger,
                EnqueuePipeline, DropRequest
  <2>2. \E pc \in {"idle", "published", "checked", "recorded"} : Move(one, pc)
    BY <1>5 DEF RefuseSubmit, PublishCompleted, PublishApproved, CheckTrigger, RecordTrigger,
                EnqueuePipeline, DropRequest
  <2> QED
    BY <2>1, <2>2, MoveType DEF Fresh
<1>6. CASE UNCHANGED vars
  BY <1>6 DEF vars, Fresh
<1> QED
  BY <1>1, <1>2, <1>3, <1>4, <1>5, <1>6 DEF Next, Serve

THEOREM SequentialFinal == ASSUME NEW one, Callers = {one} PROVE Spec => FinalIsFinal
<1>1. Init => Fresh
  BY DEF Init, Fresh
<1>2. TypeOK /\ Fresh /\ [Next]_vars => Fresh'
  BY SequentialStep
<1>3. TypeOK /\ Fresh /\ [Next]_vars => [(status \in {"approved", "rejected"}) => status' = status]_vars
  BY SequentialStep
<1> QED
  BY <1>1, <1>2, <1>3, TypeCorrect, PTL DEF Spec, FinalIsFinal
=============================================================================
