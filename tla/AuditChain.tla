----------------------------- MODULE AuditChain -----------------------------
(***************************************************************************)
(* The audit trail of one batch: a chain of rows that the trace_node       *)
(* decorator (infrastructure/trace.py) appends to after each traced call,  *)
(* and verify_chain (domains/audit/service.py), which reads it back.       *)
(* Traced calls of one batch run in several processes.  _write_audit reads *)
(* the last row and appends after it in one transaction that locks         *)
(* nothing, so another call may append in between.                         *)
(***************************************************************************)
EXTENDS Naturals, Sequences

CONSTANTS
    Writers,     \* traced calls that may be under way together
    Outputs,     \* hashes of what the calls return
    NoHash,      \* NULL
    MaxCalls,    \* bound: traced calls
    MaxChanges   \* bound: rows changed from outside

ASSUME NoHashAssumption == NoHash \notin Outputs
ASSUME ChainBounds == MaxCalls \in Nat /\ MaxChanges \in Nat

Hashes == Outputs \cup {NoHash}
Rows == [step : Nat \ {0}, prev : Hashes, out : Outputs]

VARIABLES
    trail,     \* rows of audit_trail, in the order they were committed
    written,   \* history: the same rows as the writers appended them
    writer,    \* per traced call: the row it is about to insert
    calls,     \* bound counter
    changes    \* rows changed from outside so far

chainVars == <<trail, written, writer, calls, changes>>

Writer == [pc : {"idle", "read"}, row : Rows]

ChainTypeOK ==
    /\ trail \in Seq(Rows)
    /\ written \in Seq(Rows)
    /\ Len(written) = Len(trail)
    /\ writer \in [Writers -> Writer]
    /\ calls \in Nat
    /\ changes \in Nat

ChainInit ==
    /\ trail = <<>>
    /\ written = <<>>
    /\ writer \in [Writers -> [pc : {"idle"},
                               row : [step : {1}, prev : {NoHash}, out : Outputs]]]
    /\ calls = 0
    /\ changes = 0

-----------------------------------------------------------------------------
(* trace_node and _write_audit                                             *)

\* Rows ORDER BY step_number DESC LIMIT 1 may return: rows with the same
\* number come in any order.
LastRows == {i \in DOMAIN trail : \A j \in DOMAIN trail : trail[j].step <= trail[i].step}

\* The row that follows the last one, for a call that returned out.
RowsAfter(out) ==
    IF trail = <<>>
      THEN {[step |-> 1, prev |-> NoHash, out |-> out]}
      ELSE {[step |-> trail[i].step + 1, prev |-> trail[i].out, out |-> out] : i \in LastRows}

\* A traced call has returned; its last row is read.
ReadLast(w) ==
    /\ writer[w].pc = "idle"
    /\ calls < MaxCalls
    /\ \E out \in Outputs : \E row \in RowsAfter(out) :
         writer' = [writer EXCEPT ![w] = [pc |-> "read", row |-> row]]
    /\ calls' = calls + 1
    /\ UNCHANGED <<trail, written, changes>>

\* Variant, not the code: the INSERT takes the number from the table.
InsertRowNumbered(w) ==
    /\ writer[w].pc = "read"
    /\ LET row == [writer[w].row EXCEPT !.step = Len(trail) + 1]
       IN  /\ trail' = Append(trail, row)
           /\ written' = Append(written, row)
    /\ writer' = [writer EXCEPT ![w].pc = "idle"]
    /\ UNCHANGED <<calls, changes>>

\* The INSERT and its commit.
InsertRow(w) ==
    /\ writer[w].pc = "read"
    /\ trail' = Append(trail, writer[w].row)
    /\ written' = Append(written, writer[w].row)
    /\ writer' = [writer EXCEPT ![w].pc = "idle"]
    /\ UNCHANGED <<calls, changes>>

\* A failure to record is printed and forgotten.
SkipRow(w) ==
    /\ writer[w].pc = "read"
    /\ writer' = [writer EXCEPT ![w].pc = "idle"]
    /\ UNCHANGED <<trail, written, calls, changes>>

\* Somebody with access to the table replaces a recorded result.
ChangeRow(i, out) ==
    /\ changes < MaxChanges
    /\ trail' = [trail EXCEPT ![i].out = out]
    /\ changes' = changes + 1
    /\ UNCHANGED <<written, writer, calls>>

ChainNext ==
    \/ \E w \in Writers : ReadLast(w) \/ InsertRow(w) \/ SkipRow(w)
    \/ \E i \in DOMAIN trail, out \in Outputs : ChangeRow(i, out)

ChainSpec == ChainInit /\ [][ChainNext]_chainVars

-----------------------------------------------------------------------------
(* verify_chain, on the rows ORDER BY step_number                          *)

Orders ==
    {ord \in [DOMAIN trail -> DOMAIN trail] :
        /\ \A i \in DOMAIN trail : \E k \in DOMAIN trail : ord[k] = i
        /\ \A k, l \in DOMAIN trail :
             k < l => ord[k] # ord[l] /\ trail[ord[k]].step <= trail[ord[l]].step}

\* Variant, not the code: the last row is not compared.
BreaksButLast(ord) ==
    {k \in DOMAIN trail \ {Len(trail)} :
        trail[ord[k]].prev # IF k = 1 THEN NoHash ELSE trail[ord[k - 1]].out}

\* Places where the chain is broken.
Breaks(ord) ==
    {k \in DOMAIN trail :
        trail[ord[k]].prev # IF k = 1 THEN NoHash ELSE trail[ord[k - 1]].out}

\* Warnings of a duplicate step_number.
Duplicates(ord) ==
    {k \in DOMAIN trail :
        \E j \in DOMAIN trail : j < k /\ trail[ord[j]].step = trail[ord[k]].step}

-----------------------------------------------------------------------------
(* Properties                                                              *)

\* Two traced calls that overlapped never break the chain without a trace of
\* it: verify_chain then also warns of a duplicate step_number, in whatever
\* order the database returns the rows.
OverlapWarned ==
    changes = 0 =>
        \A ord \in Orders : Breaks(ord) # {} => Duplicates(ord) # {}

\* A recorded result that another row was chained to cannot be replaced
\* unnoticed, whatever else the calls have appended: verify_chain reports a
\* break or a duplicate.
ChangeCaught ==
    (\E i, j \in DOMAIN trail :
        /\ trail[i].out # written[i].out
        /\ written[j].step = written[i].step + 1
        /\ written[j].prev = written[i].out)
    => \A ord \in Orders : Breaks(ord) # {} \/ Duplicates(ord) # {}

\* ChainBreak: a break in the chain is proof of tampering.
BreakMeansTampering ==
    changes = 0 => \A ord \in Orders : Breaks(ord) = {}
=============================================================================
