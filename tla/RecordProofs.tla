---------------------------- MODULE RecordProofs -----------------------------
(***************************************************************************)
(* What the system records of what it does, and tells: the audit trail     *)
(* (AuditChain), for every number of traced calls, writers, hashes and     *)
(* changes from outside, and the notices (Notification), for every number  *)
(* of users, jobs, workers, events and faults.                             *)
(***************************************************************************)
EXTENDS AuditChain, Notification, TLAPS

\* What is known of a row from the moment it is computed: it is a first row or
\* there is a row numbered just below it, whose result it recorded as long as
\* nobody has changed the table.
Follows(entry) ==
    \/ entry.step = 1 /\ entry.prev = NoHash
    \/ \E j \in DOMAIN trail :
         /\ entry.step = trail[j].step + 1
         /\ changes = 0 => entry.prev = trail[j].out

\* The strengthening of OverlapWarned.
Linked ==
    /\ \A i \in DOMAIN trail : Follows(trail[i])
    /\ \A w \in Writers : writer[w].pc = "read" => Follows(writer[w].row)

\* The strengthening of ChangeCaught: only results are ever replaced.
Recorded ==
    \A i \in DOMAIN trail : /\ trail[i].step = written[i].step
                            /\ trail[i].prev = written[i].prev

\* With one writer rows are numbered as they come.
Numbered ==
    /\ \A i \in DOMAIN trail : trail[i].step = i
    /\ \A w \in Writers : writer[w].pc = "read" => writer[w].row.step = Len(trail) + 1

-----------------------------------------------------------------------------
(* Types                                                                   *)

\* A row computed by _write_audit is a row.
LEMMA RowsAfterType ==
    ASSUME ChainTypeOK, NEW out \in Outputs, NEW entry \in RowsAfter(out)
    PROVE  entry \in Rows
<1>1. CASE trail = <<>>
    BY <1>1 DEF RowsAfter, Rows, Hashes
<1>2. CASE trail # <<>>
    <2>1. PICK i \in LastRows :
            entry = [step |-> trail[i].step + 1, prev |-> trail[i].out, out |-> out]
        BY <1>2 DEF RowsAfter
    <2>2. i \in DOMAIN trail /\ trail[i] \in Rows
        BY DEF ChainTypeOK, LastRows
    <2>. QED
        BY <2>1, <2>2 DEF Rows, Hashes
<1>. QED
    BY <1>1, <1>2

\* The state keeps its types.
THEOREM ChainTypeCorrect == ChainSpec => []ChainTypeOK
<1>1. ChainInit => ChainTypeOK
    BY DEF ChainInit, ChainTypeOK, Writer, Rows, Hashes
<1>2. ASSUME ChainTypeOK, [ChainNext]_chainVars PROVE ChainTypeOK'
    <2>. USE <1>2 DEF ChainTypeOK
    <2>1. ASSUME NEW w \in Writers, ReadLast(w) PROVE ChainTypeOK'
        <3>0. PICK out \in Outputs : \E entry \in RowsAfter(out) :
                writer' = [writer EXCEPT ![w] = [pc |-> "read", row |-> entry]]
            BY <2>1 DEF ReadLast
        <3>1. PICK entry \in RowsAfter(out) :
                writer' = [writer EXCEPT ![w] = [pc |-> "read", row |-> entry]]
            BY <3>0
        <3>2. entry \in Rows
            BY RowsAfterType
        <3>. QED
            BY <2>1, <3>1, <3>2 DEF ReadLast, Writer
    <2>2. ASSUME NEW w \in Writers, InsertRow(w) PROVE ChainTypeOK'
        <3>1. writer[w].row \in Rows
            BY DEF Writer
        <3>2. Len(Append(trail, writer[w].row)) = Len(Append(written, writer[w].row))
            BY <3>1
        <3>. QED
            BY <2>2, <3>1, <3>2 DEF InsertRow, Writer
    <2>3. ASSUME NEW w \in Writers, SkipRow(w) PROVE ChainTypeOK'
        BY <2>3 DEF SkipRow, Writer
    <2>4. ASSUME NEW i \in DOMAIN trail, NEW out \in Outputs, ChangeRow(i, out)
          PROVE  ChainTypeOK'
        <3>1. trail[i] \in Rows
            OBVIOUS
        <3>2. [trail[i] EXCEPT !.out = out] \in Rows
            BY <3>1 DEF Rows
        <3>. QED
            BY <2>4, <3>2 DEF ChangeRow
    <2>5. CASE UNCHANGED chainVars
        BY <2>5 DEF chainVars
    <2>. QED
        BY <2>1, <2>2, <2>3, <2>4, <2>5 DEF ChainNext
<1>. QED
    BY <1>1, <1>2, PTL DEF ChainSpec

-----------------------------------------------------------------------------
(* What verify_chain sees                                                  *)

\* Without duplicates, a row numbered just below another one is read just
\* before it, in whatever order the database returns the rows.
LEMMA Adjacent ==
    ASSUME ChainTypeOK, NEW ord \in Orders, Duplicates(ord) = {},
           NEW i \in DOMAIN trail, NEW k \in DOMAIN trail,
           trail[ord[k]].step = trail[i].step + 1
    PROVE  k # 1 /\ i = ord[k - 1]
<1>1. PICK l \in DOMAIN trail : ord[l] = i
    BY DEF Orders
<1>2. DOMAIN trail = 1 .. Len(trail) /\ Len(trail) \in Nat
    BY DEF ChainTypeOK
<1>3. \A m \in DOMAIN trail : ord[m] \in DOMAIN trail /\ trail[ord[m]].step \in Nat
    <2>1. \A m \in DOMAIN trail : ord[m] \in DOMAIN trail
        BY DEF Orders
    <2>2. \A m \in DOMAIN trail : trail[m] \in Rows
        BY DEF ChainTypeOK
    <2>. QED
        BY <2>1, <2>2 DEF Rows
<1>4. l < k
    <2>1. l # k
        BY <1>1, <1>3
    <2>2. ~(k < l)
        BY <1>1, <1>3 DEF Orders
    <2>. QED
        BY <1>2, <2>1, <2>2
<1>5. CASE l = k - 1
    BY <1>1, <1>2, <1>4, <1>5
<1>6. CASE l < k - 1
    <2>1. k - 1 \in DOMAIN trail /\ k - 1 < k
        BY <1>2, <1>6
    <2>2. trail[ord[l]].step <= trail[ord[k - 1]].step
        BY <1>6, <2>1 DEF Orders
    <2>3. trail[ord[k - 1]].step <= trail[ord[k]].step
        BY <2>1 DEF Orders
    <2>4. \/ trail[ord[l]].step = trail[ord[k - 1]].step
          \/ trail[ord[k - 1]].step = trail[ord[k]].step
        BY <1>1, <1>3, <2>1, <2>2, <2>3
    <2>5. k - 1 \in Duplicates(ord) \/ k \in Duplicates(ord)
        BY <1>6, <2>1, <2>4 DEF Duplicates
    <2>. QED
        BY <2>5
<1>. QED
    BY <1>2, <1>4, <1>5, <1>6

-----------------------------------------------------------------------------
(* Overlapping calls                                                       *)

\* A row computed by _write_audit follows a row of the table.
LEMMA RowsAfterFollow ==
    ASSUME ChainTypeOK, NEW out \in Outputs, NEW entry \in RowsAfter(out)
    PROVE  Follows(entry)
    BY DEF RowsAfter, LastRows, Follows

\* What a row follows stays in the table: rows are appended, and only their
\* results change.
LEMMA FollowsStable ==
    ASSUME ChainTypeOK, ChainNext, NEW entry, Follows(entry)
    PROVE  Follows(entry)'
<1>. USE DEF ChainTypeOK, Follows
<1>1. ASSUME NEW w \in Writers, ReadLast(w) PROVE Follows(entry)'
    BY <1>1 DEF ReadLast
<1>2. ASSUME NEW w \in Writers, InsertRow(w) PROVE Follows(entry)'
    <2>1. writer[w].row \in Rows
        BY DEF Writer
    <2>2. \A j \in DOMAIN trail : j \in DOMAIN trail' /\ trail'[j] = trail[j]
        BY <1>2, <2>1 DEF InsertRow
    <2>. QED
        BY <1>2, <2>2 DEF InsertRow
<1>3. ASSUME NEW w \in Writers, SkipRow(w) PROVE Follows(entry)'
    BY <1>3 DEF SkipRow
<1>4. ASSUME NEW i \in DOMAIN trail, NEW out \in Outputs, ChangeRow(i, out)
      PROVE  Follows(entry)'
    <2>1. changes' # 0
        BY <1>4 DEF ChangeRow
    <2>2. \A j \in DOMAIN trail : j \in DOMAIN trail' /\ trail'[j].step = trail[j].step
        BY <1>4 DEF ChangeRow, Rows
    <2>. QED
        BY <2>1, <2>2
<1>. QED
    BY <1>1, <1>2, <1>3, <1>4 DEF ChainNext

\* Every row, and every row about to be inserted, follows a row of the table.
LEMMA LinkedInvariant == ChainSpec => []Linked
<1>1. ChainInit => Linked
    BY DEF ChainInit, Linked
<1>2. ASSUME ChainTypeOK, Linked, [ChainNext]_chainVars PROVE Linked'
    <2>1. ASSUME NEW w \in Writers, ReadLast(w) PROVE Linked'
        <3>0. PICK out \in Outputs : \E entry \in RowsAfter(out) :
                writer' = [writer EXCEPT ![w] = [pc |-> "read", row |-> entry]]
            BY <2>1 DEF ReadLast
        <3>1. PICK entry \in RowsAfter(out) :
                writer' = [writer EXCEPT ![w] = [pc |-> "read", row |-> entry]]
            BY <3>0
        <3>2. Follows(entry)
            BY <1>2, RowsAfterFollow
        <3>3. \A v \in Writers : writer'[v].pc = "read" => Follows(writer'[v].row)
            BY <1>2, <3>1, <3>2 DEF Linked, ChainTypeOK
        <3>. QED
            BY <1>2, <2>1, <3>3 DEF Linked, Follows, ReadLast
    <2>2. ASSUME NEW w \in Writers, InsertRow(w) PROVE Linked'
        <3>1. \A entry : Follows(entry) => Follows(entry)'
            BY <1>2, <2>2, FollowsStable DEF ChainNext
        <3>2. ASSUME NEW i \in DOMAIN trail' PROVE Follows(trail[i])'
            <4>1. writer[w].row \in Rows /\ Follows(writer[w].row)
                BY <1>2, <2>2 DEF Linked, InsertRow, ChainTypeOK, Writer
            <4>2. trail'[i] \in {trail[i], writer[w].row}
                  /\ (i \notin DOMAIN trail => trail'[i] = writer[w].row)
                BY <1>2, <2>2, <4>1 DEF InsertRow, ChainTypeOK
            <4>3. Follows(trail'[i])
                BY <1>2, <2>2, <4>1, <4>2 DEF Linked, InsertRow, ChainTypeOK
            <4>. QED
                BY <3>1, <4>3 DEF Follows
        <3>3. ASSUME NEW v \in Writers, writer'[v].pc = "read" PROVE Follows(writer[v].row)'
            <4>1. writer[v].pc = "read" /\ writer'[v].row = writer[v].row
                BY <1>2, <2>2, <3>3 DEF InsertRow, ChainTypeOK, Writer
            <4>. QED
                BY <1>2, <3>1, <4>1 DEF Linked, Follows
        <3>. QED
            BY <3>2, <3>3 DEF Linked
    <2>3. ASSUME NEW w \in Writers, SkipRow(w) PROVE Linked'
        BY <1>2, <2>3 DEF Linked, SkipRow, Follows, ChainTypeOK, Writer
    <2>4. ASSUME NEW i \in DOMAIN trail, NEW out \in Outputs, ChangeRow(i, out)
          PROVE  Linked'
        <3>1. \A entry : Follows(entry) => Follows(entry)'
            BY <1>2, <2>4, FollowsStable DEF ChainNext
        <3>2. ASSUME NEW k \in DOMAIN trail' PROVE Follows(trail[k])'
            <4>1. k \in DOMAIN trail /\ trail[k] \in Rows
                BY <1>2, <2>4 DEF ChangeRow, ChainTypeOK
            <4>2. trail'[k].step = trail[k].step /\ trail'[k].prev = trail[k].prev
                BY <1>2, <2>4, <4>1 DEF ChangeRow, ChainTypeOK, Rows
            <4>3. Follows(trail'[k])
                BY <1>2, <4>1, <4>2 DEF Follows, Linked
            <4>. QED
                BY <3>1, <4>3 DEF Follows
        <3>. QED
            BY <1>2, <2>4, <3>1, <3>2 DEF Linked, ChangeRow, Follows
    <2>5. CASE UNCHANGED chainVars
        BY <1>2, <2>5 DEF chainVars, Linked, Follows
    <2>. QED
        BY <1>2, <2>1, <2>2, <2>3, <2>4, <2>5 DEF ChainNext
<1>. QED
    BY <1>1, <1>2, ChainTypeCorrect, PTL DEF ChainSpec

\* Overlapping calls never break the chain without a duplicate number, which
\* verify_chain reports, whatever the number of calls and their order.
THEOREM OverlapNoticed == ChainSpec => []OverlapWarned
<1>1. ASSUME ChainTypeOK, Linked PROVE OverlapWarned
    <2>1. SUFFICES ASSUME changes = 0, NEW ord \in Orders, Duplicates(ord) = {},
                          NEW k \in DOMAIN trail
                   PROVE  trail[ord[k]].prev = IF k = 1 THEN NoHash ELSE trail[ord[k - 1]].out
        BY DEF OverlapWarned, Breaks
    <2>2. ord[k] \in DOMAIN trail /\ Follows(trail[ord[k]])
        BY <1>1 DEF Linked, Orders
    <2>3. CASE trail[ord[k]].step = 1 /\ trail[ord[k]].prev = NoHash
        <3>1. SUFFICES ASSUME k # 1 PROVE FALSE
            BY <2>3
        <3>2. k - 1 \in DOMAIN trail /\ k - 1 < k
            BY <1>1, <3>1 DEF ChainTypeOK
        <3>3. trail[ord[k - 1]].step \in Nat \ {0}
            <4>1. ord[k - 1] \in DOMAIN trail
                BY <3>2 DEF Orders
            <4>2. trail[ord[k - 1]] \in Rows
                BY <1>1, <4>1 DEF ChainTypeOK
            <4>. QED
                BY <4>2 DEF Rows
        <3>4. trail[ord[k - 1]].step <= trail[ord[k]].step
            BY <3>2 DEF Orders
        <3>5. trail[ord[k - 1]].step = trail[ord[k]].step
            BY <2>3, <3>3, <3>4
        <3>. QED
            BY <2>1, <3>2, <3>5 DEF Duplicates
    <2>4. ASSUME NEW j \in DOMAIN trail, trail[ord[k]].step = trail[j].step + 1,
                 trail[ord[k]].prev = trail[j].out
          PROVE  trail[ord[k]].prev = IF k = 1 THEN NoHash ELSE trail[ord[k - 1]].out
        BY <1>1, <2>1, <2>4, Adjacent
    <2>. QED
        BY <2>1, <2>2, <2>3, <2>4 DEF Follows
<1>. QED
    BY <1>1, ChainTypeCorrect, LinkedInvariant, PTL

-----------------------------------------------------------------------------
(* Changes from outside                                                    *)

\* Numbers and recorded predecessors are never touched.
LEMMA RecordedInvariant == ChainSpec => []Recorded
<1>1. ChainInit => Recorded
    BY DEF ChainInit, Recorded
<1>2. ASSUME ChainTypeOK, Recorded, [ChainNext]_chainVars PROVE Recorded'
    <2>. USE <1>2 DEF ChainTypeOK, Recorded
    <2>1. ASSUME NEW w \in Writers, ReadLast(w) PROVE Recorded'
        BY <2>1 DEF ReadLast
    <2>2. ASSUME NEW w \in Writers, InsertRow(w) PROVE Recorded'
        <3>1. writer[w].row \in Rows
            BY DEF Writer
        <3>. QED
            BY <2>2, <3>1 DEF InsertRow
    <2>3. ASSUME NEW w \in Writers, SkipRow(w) PROVE Recorded'
        BY <2>3 DEF SkipRow
    <2>4. ASSUME NEW i \in DOMAIN trail, NEW out \in Outputs, ChangeRow(i, out)
          PROVE  Recorded'
        BY <2>4 DEF ChangeRow, Rows
    <2>5. CASE UNCHANGED chainVars
        BY <2>5 DEF chainVars
    <2>. QED
        BY <2>1, <2>2, <2>3, <2>4, <2>5 DEF ChainNext
<1>. QED
    BY <1>1, <1>2, ChainTypeCorrect, PTL DEF ChainSpec

\* A replaced result that another row recorded is always reported.
THEOREM ChangeNoticed == ChainSpec => []ChangeCaught
<1>1. ASSUME ChainTypeOK, Recorded PROVE ChangeCaught
    <2>1. SUFFICES ASSUME NEW i \in DOMAIN trail, NEW j \in DOMAIN trail,
                          trail[i].out # written[i].out,
                          written[j].step = written[i].step + 1,
                          written[j].prev = written[i].out,
                          NEW ord \in Orders, Duplicates(ord) = {}
                   PROVE  Breaks(ord) # {}
        BY DEF ChangeCaught
    <2>2. PICK k \in DOMAIN trail : ord[k] = j
        BY DEF Orders
    <2>3. trail[ord[k]].step = trail[i].step + 1 /\ trail[ord[k]].prev = written[i].out
        BY <1>1, <2>1, <2>2 DEF Recorded
    <2>4. k # 1 /\ i = ord[k - 1]
        BY <1>1, <2>1, <2>3, Adjacent
    <2>5. k \in Breaks(ord)
        BY <2>1, <2>3, <2>4 DEF Breaks
    <2>. QED
        BY <2>5
<1>. QED
    BY <1>1, ChainTypeCorrect, RecordedInvariant, PTL

-----------------------------------------------------------------------------
(* One call at a time                                                      *)

\* When traced calls do not overlap, rows are numbered as they come.
LEMMA NumberedInvariant ==
    ASSUME \A v, w \in Writers : v = w
    PROVE  ChainSpec => []Numbered
<1>1. ChainInit => Numbered
    BY DEF ChainInit, Numbered
<1>2. ASSUME ChainTypeOK, Numbered, [ChainNext]_chainVars PROVE Numbered'
    <2>. USE <1>2 DEF ChainTypeOK, Numbered
    <2>1. ASSUME NEW w \in Writers, ReadLast(w) PROVE Numbered'
        <3>0. PICK out \in Outputs : \E entry \in RowsAfter(out) :
                writer' = [writer EXCEPT ![w] = [pc |-> "read", row |-> entry]]
            BY <2>1 DEF ReadLast
        <3>1. PICK entry \in RowsAfter(out) :
                writer' = [writer EXCEPT ![w] = [pc |-> "read", row |-> entry]]
            BY <3>0
        <3>2. entry.step = Len(trail) + 1
            <4>1. CASE trail = <<>>
                BY <4>1 DEF RowsAfter
            <4>2. CASE trail # <<>>
                <5>1. Len(trail) \in DOMAIN trail
                    BY <4>2
                <5>2. \A i \in LastRows : i = Len(trail)
                    BY <5>1 DEF LastRows
                <5>. QED
                    BY <4>2, <5>1, <5>2 DEF RowsAfter, LastRows
            <4>. QED
                BY <4>1, <4>2
        <3>. QED
            BY <2>1, <3>1, <3>2 DEF ReadLast
    <2>2. ASSUME NEW w \in Writers, InsertRow(w) PROVE Numbered'
        <3>1. writer[w].row \in Rows
            BY DEF Writer
        <3>2. \A v \in Writers : writer'[v].pc = "idle"
            BY <2>2 DEF InsertRow, Writer
        <3>. QED
            BY <2>2, <3>1, <3>2 DEF InsertRow
    <2>3. ASSUME NEW w \in Writers, SkipRow(w) PROVE Numbered'
        BY <2>3 DEF SkipRow, Writer
    <2>4. ASSUME NEW i \in DOMAIN trail, NEW out \in Outputs, ChangeRow(i, out)
          PROVE  Numbered'
        BY <2>4 DEF ChangeRow, Rows
    <2>5. CASE UNCHANGED chainVars
        BY <2>5 DEF chainVars
    <2>. QED
        BY <2>1, <2>2, <2>3, <2>4, <2>5 DEF ChainNext
<1>. QED
    BY <1>1, <1>2, ChainTypeCorrect, PTL DEF ChainSpec

\* When traced calls do not overlap, what verify_chain calls a break is one.
THEOREM SequentialChain ==
    ASSUME \A v, w \in Writers : v = w
    PROVE  ChainSpec => []BreakMeansTampering
<1>1. ASSUME ChainTypeOK, Numbered, OverlapWarned PROVE BreakMeansTampering
    <2>1. SUFFICES ASSUME changes = 0, NEW ord \in Orders PROVE Breaks(ord) = {}
        BY DEF BreakMeansTampering
    <2>2. Duplicates(ord) = {}
        BY <1>1 DEF Duplicates, Numbered, Orders
    <2>. QED
        BY <1>1, <2>1, <2>2 DEF OverlapWarned
<1>. QED
    BY <1>1, ChainTypeCorrect, NumberedInvariant, OverlapNoticed, PTL

-----------------------------------------------------------------------------
(* Notices                                                                 *)

(***************************************************************************)
(* MailOnce: a worker comes to the mail only with the insert that found no *)
(* row, rows stay, and an invitation is sent by whoever claimed it.  What  *)
(* the queue holds does not matter, so the proof does not ask.             *)
(***************************************************************************)
\* A worker is about to mail the notice of a key.
Mailing(w, k) == running[w].key = k /\ running[w].at = "mail"

\* A notice is mailed by one worker, which inserted its row, and not again.
MailKeyed ==
    /\ mails \in [Keys -> Nat]
    /\ row = [k \in Keys |-> row[k]]
    /\ running = [w \in Slots |-> running[w]]
    /\ \A w \in Slots : running[w] = [key |-> running[w].key, at |-> running[w].at]
    /\ \A k \in Keys :
         /\ mails[k] <= 1
         /\ mails[k] = 1 => row[k] # "none"
         /\ \A w \in Slots : Mailing(w, k) => mails[k] = 0 /\ row[k] # "none"
         /\ \A v, w \in Slots : Mailing(v, k) /\ Mailing(w, k) => v = w

\* An invitation to be sent was claimed and not sent; a sent one is claimed.
MailClaimed ==
    /\ day \in Days
    /\ claims \subseteq Suppliers \X Days /\ sending \subseteq claims
    /\ posted \in [Suppliers \X Days -> Nat]
    /\ \A c \in Suppliers \X Days :
         /\ posted[c] <= 1
         /\ posted[c] = 1 => c \in claims
         /\ c \in sending => posted[c] = 0

LEMMA InitMail == Init => MailKeyed /\ MailClaimed
<1> SUFFICES ASSUME Init PROVE MailKeyed /\ MailClaimed
  OBVIOUS
<1>1. MailKeyed
  <2>1. /\ running = [w \in Slots |-> running[w]] /\ row = [k \in Keys |-> row[k]]
        /\ mails \in [Keys -> Nat]
    BY DEF Init
  <2>2. \A w \in Slots : running[w] = Idle
    BY DEF Init
  <2>3. \A k \in Keys : mails[k] = 0
    BY DEF Init
  <2> QED
    BY <2>1, <2>2, <2>3 DEF MailKeyed, Mailing, Idle
<1>2. MailClaimed
  BY BoundsAssumption DEF Init, MailClaimed, Days
<1> QED
  BY <1>1, <1>2

\* Only the steps of the worker on its row and mail concern the notices.
LEMMA KeyedStays == MailKeyed /\ UNCHANGED workerVars => MailKeyed'
  BY DEF MailKeyed, Mailing, workerVars

\* A worker that lets go of its job, or takes one, does not mail.
LEMMA KeyedMoves ==
    ASSUME MailKeyed, NEW w \in Slots, NEW key, NEW at, at # "mail",
           running' = [running EXCEPT ![w] = [key |-> key, at |-> at]], UNCHANGED <<row, mails>>
    PROVE  MailKeyed'
<1>1. \A v \in Slots : running'[v] = IF v = w THEN [key |-> key, at |-> at] ELSE running[v]
  BY DEF MailKeyed
<1>2. running' = [v \in Slots |-> running'[v]]
  BY DEF MailKeyed
<1>3. \A v \in Slots : running'[v] = [key |-> running'[v].key, at |-> running'[v].at]
  BY <1>1 DEF MailKeyed
<1>4. \A k : \A v \in Slots : Mailing(v, k)' => Mailing(v, k)
  BY <1>1 DEF Mailing
<1> QED
  BY <1>2, <1>3, <1>4 DEF MailKeyed

LEMMA InsertKeyed == ASSUME MailKeyed, NEW w \in Slots, Insert(w) PROVE MailKeyed'
<1> DEFINE k == running[w].key
           new == row[k] = "none"
<1>1. /\ row' = IF new \/ Resurfaces(k) THEN [row EXCEPT ![k] = "pending"] ELSE row
      /\ running' = [running EXCEPT ![w] = IF new /\ ByMail(k) THEN [key |-> k, at |-> "mail"] ELSE Idle]
      /\ mails' = mails
  BY DEF Insert
<1>2. \A v \in Slots : running'[v] = IF v = w THEN IF new /\ ByMail(k) THEN [key |-> k, at |-> "mail"] ELSE Idle
                                     ELSE running[v]
  BY <1>1 DEF MailKeyed
<1>3. \A v \in Slots : running'[v] = [key |-> running'[v].key, at |-> running'[v].at]
  BY <1>2 DEF MailKeyed, Idle
<1>4. running' = [v \in Slots |-> running'[v]]
  BY <1>1 DEF MailKeyed
<1>5. row' = [l \in Keys |-> row'[l]]
  BY <1>1 DEF MailKeyed
<1>6. \A l \in Keys : row[l] # "none" => row'[l] # "none"
  BY <1>1 DEF MailKeyed
<1>7. ASSUME NEW v \in Slots, NEW l \in Keys, Mailing(v, l)'
      PROVE  (v = w /\ l = k /\ new) \/ (v # w /\ Mailing(v, l))
  BY <1>2, <1>7 DEF Mailing, Idle
<1>8. k \in Keys => row'[k] # "none"
  BY <1>1 DEF MailKeyed
<1>9. ASSUME NEW l \in Keys
      PROVE  /\ mails'[l] <= 1
             /\ mails'[l] = 1 => row'[l] # "none"
             /\ \A v \in Slots : Mailing(v, l)' => mails'[l] = 0 /\ row'[l] # "none"
             /\ \A u, v \in Slots : Mailing(u, l)' /\ Mailing(v, l)' => u = v
  <2>1. mails[l] \in Nat /\ mails[l] <= 1
    BY DEF MailKeyed
  <2>2. mails'[l] = 1 => row'[l] # "none"
    BY <1>1, <1>6 DEF MailKeyed
  <2>3. ASSUME NEW v \in Slots, Mailing(v, l)' PROVE mails'[l] = 0 /\ row'[l] # "none"
    <3>1. CASE v = w /\ l = k /\ new
      <4>1. row[l] = "none" /\ row'[l] # "none"
        BY <1>8, <3>1
      <4>2. mails[l] # 1
        BY <4>1 DEF MailKeyed
      <4> QED
        BY <1>1, <2>1, <4>1, <4>2
    <3>2. CASE Mailing(v, l)
      BY <1>1, <1>6, <3>2 DEF MailKeyed
    <3> QED
      BY <1>7, <2>3, <3>1, <3>2
  <2>4. ASSUME NEW u \in Slots, NEW v \in Slots, Mailing(u, l)', Mailing(v, l)' PROVE u = v
    BY <1>7, <2>4 DEF MailKeyed
  <2> QED
    BY <1>1, <2>1, <2>2, <2>3, <2>4
<1> QED
  BY <1>1, <1>3, <1>4, <1>5, <1>9 DEF MailKeyed

LEMMA SendKeyed == ASSUME MailKeyed, NEW w \in Slots, SendMail(w) PROVE MailKeyed'
<1> DEFINE k == running[w].key
<1>1. running[w] = [key |-> k, at |-> running[w].at]
  BY DEF MailKeyed
<1>2. CASE running' = [running EXCEPT ![w] = Idle] /\ UNCHANGED mails
  <2>1. UNCHANGED row
    BY DEF SendMail
  <2> QED
    BY <1>2, <2>1, KeyedMoves DEF Idle
<1>3. CASE mails' = [mails EXCEPT ![k] = mails[k] + 1] /\ running' = [running EXCEPT ![w].at = "mark"]
  <2>1. running[w].at = "mail" /\ row' = row
    BY DEF SendMail
  <2>2. \A v \in Slots : running'[v] = IF v = w THEN [key |-> k, at |-> "mark"] ELSE running[v]
    BY <1>1, <1>3 DEF MailKeyed
  <2>3. running' = [v \in Slots |-> running'[v]]
    BY <1>3 DEF MailKeyed
  <2>4. \A v \in Slots : running'[v] = [key |-> running'[v].key, at |-> running'[v].at]
    BY <2>2 DEF MailKeyed
  <2>5. ASSUME NEW v \in Slots, NEW l, Mailing(v, l)' PROVE v # w /\ Mailing(v, l)
    BY <2>2, <2>5 DEF Mailing
  <2>6. mails' \in [Keys -> Nat]
    <3>1. k \in Keys => mails[k] + 1 \in Nat
      BY DEF MailKeyed
    <3> QED
      BY <1>3, <3>1 DEF MailKeyed
  <2>7. ASSUME NEW l \in Keys
        PROVE  /\ mails'[l] <= 1
               /\ mails'[l] = 1 => row'[l] # "none"
               /\ \A v \in Slots : Mailing(v, l)' => mails'[l] = 0 /\ row'[l] # "none"
               /\ \A u, v \in Slots : Mailing(u, l)' /\ Mailing(v, l)' => u = v
    <3>1. CASE l = k
      <4>1. Mailing(w, l)
        BY <2>1, <3>1 DEF Mailing
      <4>2. mails[l] = 0 /\ row[l] # "none" /\ \A v \in Slots : Mailing(v, l) => v = w
        BY <4>1 DEF MailKeyed
      <4>3. mails'[l] = 1 /\ row'[l] # "none"
        BY <1>3, <2>1, <3>1, <4>2 DEF MailKeyed
      <4>4. \A v \in Slots : ~Mailing(v, l)'
        BY <2>5, <4>2
      <4> QED
        BY <4>3, <4>4
    <3>2. CASE l # k
      <4>1. mails'[l] = mails[l] /\ row'[l] = row[l]
        BY <1>3, <2>1, <3>2 DEF MailKeyed
      <4> QED
        BY <2>5, <4>1 DEF MailKeyed
    <3> QED
      BY <3>1, <3>2
  <2> QED
    BY <2>1, <2>3, <2>4, <2>6, <2>7 DEF MailKeyed
<1> QED
  BY <1>2, <1>3 DEF SendMail

LEMMA MarkKeyed == ASSUME MailKeyed, NEW w \in Slots, MarkSent(w) PROVE MailKeyed'
<1>1. row' = [row EXCEPT ![running[w].key] = "sent"] /\ mails' = mails
  BY DEF MarkSent
<1>2. running' = [running EXCEPT ![w] = Idle]
  BY DEF MarkSent
<1>3. running' = [v \in Slots |-> running'[v]] /\ row' = [k \in Keys |-> row'[k]]
  BY <1>1, <1>2 DEF MailKeyed
<1>4. \A v \in Slots : running'[v] = IF v = w THEN Idle ELSE running[v]
  BY <1>2 DEF MailKeyed
<1>5. \A v \in Slots : running'[v] = [key |-> running'[v].key, at |-> running'[v].at]
  BY <1>4 DEF MailKeyed, Idle
<1>6. \A k : \A v \in Slots : Mailing(v, k)' => Mailing(v, k)
  BY <1>4 DEF Mailing, Idle
<1>7. \A k \in Keys : row[k] # "none" => row'[k] # "none"
  BY <1>1 DEF MailKeyed
<1> QED
  BY <1>1, <1>3, <1>5, <1>6, <1>7 DEF MailKeyed

LEMMA RestartKeyed == ASSUME MailKeyed, RestartWorker PROVE MailKeyed'
<1>1. running' = [w \in Slots |-> Idle] /\ UNCHANGED <<row, mails>>
  BY DEF RestartWorker
<1>2. \A k : \A w \in Slots : ~Mailing(w, k)'
  BY <1>1 DEF Mailing, Idle
<1>3. \A w \in Slots : running'[w] = [key |-> running'[w].key, at |-> running'[w].at]
  BY <1>1 DEF Idle
<1> QED
  BY <1>1, <1>2, <1>3 DEF MailKeyed

LEMMA ReadKeyed == ASSUME MailKeyed, NEW k \in Keys, Read(k) PROVE MailKeyed'
<1>1. row' = [row EXCEPT ![k] = "read"] /\ UNCHANGED <<running, mails>>
  BY DEF Read
<1>2. row' = [l \in Keys |-> row'[l]] /\ \A l \in Keys : row[l] # "none" => row'[l] # "none"
  BY <1>1 DEF MailKeyed
<1> QED
  BY <1>1, <1>2 DEF MailKeyed, Mailing

LEMMA KeyedStep == MailKeyed /\ [Next]_vars => MailKeyed'
<1> SUFFICES ASSUME MailKeyed, [Next]_vars PROVE MailKeyed'
  OBVIOUS
<1>1. ASSUME NEW w \in Slots, Take(w) PROVE MailKeyed'
  BY <1>1, KeyedMoves DEF Take
<1>2. ASSUME NEW w \in Slots, JobFails(w) PROVE MailKeyed'
  BY <1>2, KeyedMoves DEF JobFails, Idle
<1>3. ASSUME NEW s \in Suppliers,
             \/ FinalValidationReady(s) \/ MasterFormSubmission(s) \/ AiSynthesisReady(s)
             \/ OnboardingReviewNeeded(s) \/ SourceChangeDeclared(s) \/ SupplierCorrection(s)
             \/ SupplierInvited(s) \/ Register(s)
             \/ \E r \in Requests : CreateRequest(r, s)
      PROVE  UNCHANGED workerVars
  BY <1>3 DEF FinalValidationReady, MasterFormSubmission, AiSynthesisReady, OnboardingReviewNeeded,
              SourceChangeDeclared, SupplierCorrection, SupplierInvited, Register, CreateRequest,
              TellPrime, workerVars
<1>4. ASSUME NEW r \in Requests, SupplierSubmission(r) \/ TellOfRequest(r) \/ TellOfRequestFails(r)
      PROVE  UNCHANGED workerVars
  BY <1>4 DEF SupplierSubmission, TellPrime, TellOfRequest, TellOfRequestFails, workerVars
<1>5. ASSUME NEW c, SendInvitation(c) \/ LoseInvitation(c) PROVE UNCHANGED workerVars
  BY <1>5 DEF SendInvitation, LoseInvitation, workerVars
<1>6. ASSUME NextDay \/ SendReminders \/ SendRemindersFails PROVE UNCHANGED workerVars
  BY <1>6 DEF NextDay, SendReminders, SendRemindersFails, workerVars
<1>7. UNCHANGED vars => UNCHANGED workerVars
  BY DEF vars, workerVars
<1>8. UNCHANGED workerVars => MailKeyed'
  BY KeyedStays
<1>9. ASSUME NEW w \in Slots, Run(w) PROVE MailKeyed'
  BY <1>1, <1>9, InsertKeyed, SendKeyed, MarkKeyed DEF Run
<1>10. ASSUME NEW k \in Keys, Read(k) PROVE MailKeyed'
  BY <1>10, ReadKeyed
<1>11. RestartWorker => MailKeyed'
  BY RestartKeyed
<1> QED
  BY <1>2, <1>3, <1>4, <1>5, <1>6, <1>7, <1>8, <1>9, <1>10, <1>11 DEF Next

LEMMA ClaimedStep == MailClaimed /\ [Next]_vars => MailClaimed'
<1> SUFFICES ASSUME MailClaimed, [Next]_vars PROVE MailClaimed'
  OBVIOUS
<1>1. ASSUME NEW s \in Suppliers, SupplierInvited(s) PROVE MailClaimed'
  <2>1. <<s, day>> \in Suppliers \X Days /\ day' = day /\ posted' = posted
    BY <1>1 DEF SupplierInvited, MailClaimed
  <2>2. claims' = claims \cup {<<s, day>>}
    BY <1>1 DEF SupplierInvited
  <2>3. sending' = IF <<s, day>> \in claims THEN sending ELSE sending \cup {<<s, day>>}
    BY <1>1 DEF SupplierInvited
  <2>4. <<s, day>> \notin claims => posted[<<s, day>>] = 0
    BY <2>1 DEF MailClaimed
  <2> QED
    BY <2>1, <2>2, <2>3, <2>4 DEF MailClaimed
<1>2. ASSUME NEW c \in sending, SendInvitation(c) PROVE MailClaimed'
  <2>1. c \in Suppliers \X Days /\ c \in claims /\ posted[c] = 0
    BY DEF MailClaimed
  <2>2. sending' = sending \ {c} /\ UNCHANGED <<day, claims>>
    BY <1>2 DEF SendInvitation
  <2>3. posted' = posted \/ posted' = [posted EXCEPT ![c] = 1]
    BY <1>2, <2>1 DEF SendInvitation
  <2> QED
    BY <2>1, <2>2, <2>3 DEF MailClaimed
<1>3. ASSUME NEW c \in sending, LoseInvitation(c) PROVE MailClaimed'
  BY <1>3 DEF LoseInvitation, MailClaimed
<1>4. NextDay => MailClaimed'
  <2>1. NextDay => day' \in Days /\ UNCHANGED inviteVars
    BY BoundsAssumption DEF NextDay, MailClaimed, Days
  <2> QED
    BY <2>1 DEF MailClaimed, inviteVars
<1>5. ASSUME NEW s \in Suppliers,
             \/ FinalValidationReady(s) \/ MasterFormSubmission(s) \/ AiSynthesisReady(s)
             \/ OnboardingReviewNeeded(s) \/ SourceChangeDeclared(s) \/ SupplierCorrection(s)
             \/ Register(s)
             \/ \E r \in Requests : CreateRequest(r, s)
      PROVE  UNCHANGED <<day, inviteVars>>
  BY <1>5 DEF FinalValidationReady, MasterFormSubmission, AiSynthesisReady, OnboardingReviewNeeded,
              SourceChangeDeclared, SupplierCorrection, Register, CreateRequest, TellPrime, inviteVars
<1>6. ASSUME NEW r \in Requests, SupplierSubmission(r) \/ TellOfRequest(r) \/ TellOfRequestFails(r)
      PROVE  UNCHANGED <<day, inviteVars>>
  BY <1>6 DEF SupplierSubmission, TellPrime, TellOfRequest, TellOfRequestFails, inviteVars
<1>7. ASSUME NEW w \in Slots, Run(w) \/ JobFails(w) PROVE UNCHANGED <<day, inviteVars>>
  BY <1>7 DEF Run, Take, Insert, SendMail, MarkSent, JobFails, inviteVars
<1>8. RestartWorker \/ SendReminders \/ SendRemindersFails => UNCHANGED <<day, inviteVars>>
  BY DEF RestartWorker, SendReminders, SendRemindersFails, inviteVars
<1>9. ASSUME NEW k \in Keys, Read(k) PROVE UNCHANGED <<day, inviteVars>>
  BY <1>9 DEF Read, inviteVars
<1>10. UNCHANGED vars => UNCHANGED <<day, inviteVars>>
  BY DEF vars, inviteVars
<1>11. UNCHANGED <<day, inviteVars>> => MailClaimed'
  BY DEF MailClaimed, inviteVars
<1> QED
  BY <1>1, <1>2, <1>3, <1>4, <1>5, <1>6, <1>7, <1>8, <1>9, <1>10, <1>11 DEF Next

\* No notice and no invitation of a day is mailed twice, however many jobs,
\* workers, deaths and repeated events there are.
THEOREM MailOnceCorrect == Spec => []MailOnce
<1>1. MailKeyed /\ MailClaimed => MailOnce
  BY DEF MailKeyed, MailClaimed, MailOnce
<1> QED
  BY <1>1, InitMail, KeyedStep, ClaimedStep, PTL DEF Spec
==============================================================================
