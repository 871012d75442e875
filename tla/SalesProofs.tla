----------------------------- MODULE SalesProofs -----------------------------
(***************************************************************************)
(* Proofs about how an account sells.                                        *)
(*                                                                           *)
(* PortalBroadcasts, for any number of broadcasts, customers, senders,       *)
(* changes and faults: an opt-out is respected, every message too many has   *)
(* cost a fault, and what is finished stays finished.                        *)
(*                                                                           *)
(* ShopConversation, for any products, options and catalogues: the customer  *)
(* is told of the product and the options that the message is about.  The    *)
(* two share no state.                                                       *)
(***************************************************************************)
EXTENDS PortalBroadcasts, ShopConversation, FiniteSetTheorems, TLAPS

-----------------------------------------------------------------------------
(* Broadcasts: the inductive invariant *)

Draft == [pc: {"none", "allowed", "sized", "selected", "approving"}, chosen: SUBSET Customers]
Row == [status: {"NONE", "PENDING", "SENDING", "SENT", "FAILED", "SKIPPED"},
        lease: {"none", "live", "past"}, attempts: Nat]
SenderState == [pc: {"idle", "claim", "check", "send", "finish"}, job: Recipients \cup {NoJob},
                tries: Nat, approved: BOOLEAN,
                outcome: {"none", "SENT", "SKIPPED", "FAILED", "retryable"}]

PeopleTyped ==
  /\ known \subseteq Customers /\ consent \in [Customers -> {"NONE", "OPTED_IN", "OPTED_OUT"}]
  /\ stopping \subseteq Customers /\ stopped \subseteq Customers
OfficeTyped ==
  /\ template \in {"APPROVED", "PAUSED"} /\ access \in BOOLEAN /\ changes \in Nat
  /\ draft \in [Broadcasts -> Draft] /\ skipping \subseteq Broadcasts
RowsTyped == broadcast \in [Broadcasts -> Statuses] /\ recipient \in [Recipients -> Row]
SendersTyped ==
  /\ sender \in [Senders -> SenderState]
  /\ accepted \in [Recipients -> Nat] /\ late \in [Customers -> Nat] /\ faults \in Nat
Typed == PeopleTyped /\ OfficeTyped /\ RowsTyped /\ SendersTyped

\* A sender has a job from its claim to its end.
Busy(s) == sender[s].pc \in {"check", "send", "finish"}
JobsHeld ==
  \A s \in Senders :
    /\ IF Busy(s) THEN sender[s].job \in Recipients ELSE sender[s].job = NoJob
    /\ sender[s].pc = "finish" => sender[s].outcome # "none"

\* Before create there is no row, and after it no other create.
Drafted ==
  \A b \in Broadcasts :
    /\ draft[b].pc \in {"allowed", "sized", "selected"} => broadcast[b] = "NONE"
    /\ broadcast[b] = "NONE" => \A r \in OfBroadcasts({b}) : recipient[r] = NoRow /\ accepted[r] = 0

\* A row that a sender has taken shows it for good.
Taken ==
  /\ \A r \in Recipients : recipient[r].status = "SENDING" => recipient[r].attempts > 0
  /\ \A s \in Senders : Busy(s) =>
       recipient[sender[s].job].attempts > 0 /\ broadcast[sender[s].job[1]] # "NONE"

\* Without faults a recipient has one sender, under a live lease.
HeldAlone ==
  /\ \A s \in Senders : Busy(s) =>
       recipient[sender[s].job].status = "SENDING" /\ recipient[sender[s].job].lease = "live"
  /\ \A s, t \in Senders : Busy(s) /\ Busy(t) /\ sender[s].job = sender[t].job => s = t

\* The sends that have asked for the consent of c, before it was withdrawn.
Sending(c) == {s \in Senders : sender[s].pc = "send" /\ sender[s].job[2] = c}
OptOut(c) ==
  IF consent[c] = "OPTED_OUT" THEN late[c] + Cardinality(Sending(c)) <= Cardinality(Senders)
  ELSE late[c] = 0

\* The messages r may get without another fault: those accepted, those of senders that may
\* still send or retry, and that of a row which may be claimed again.
Hopes(r) ==
  {s \in Senders : /\ sender[s].job = r
                   /\ \/ sender[s].pc \in {"check", "send"}
                      \/ sender[s].pc = "finish" /\ sender[s].outcome = "retryable"}
Waiting(r) ==
  \/ recipient[r].status = "PENDING"
  \/ recipient[r].status = "SENDING" /\ (recipient[r].lease = "past" \/ ~InHand(r))
Sendable(r) == accepted[r] + Cardinality(Hopes(r)) + (IF Waiting(r) THEN 1 ELSE 0)
Promised == {x \in Recipients \X Nat : 2 <= x[2] /\ x[2] <= Sendable(x[1])}
RepeatsPaid == IsFiniteSet(Promised) /\ Cardinality(Promised) <= faults

BroadcastInd ==
  /\ Typed /\ JobsHeld /\ Drafted /\ Taken
  /\ faults = 0 => HeldAlone
  /\ FinishedIsFinished
  /\ \A c \in Customers : OptOut(c)
  /\ RepeatsPaid

-----------------------------------------------------------------------------
(* What each step does to its sender and its row *)

\* One sender moves.
Alone(s) == s \in Senders /\ sender' \in [Senders -> SenderState]
            /\ \A t \in Senders \ {s} : sender'[t] = sender[t]
\* One row changes.
OneRow(r) == r \in Recipients /\ recipient' \in [Recipients -> Row]
             /\ \A q \in Recipients \ {r} : recipient'[q] = recipient[q]

LEMMA Fields ==
  ASSUME Typed
  PROVE  /\ \A s \in Senders : /\ sender[s] \in SenderState
                               /\ sender[s].pc \in {"idle", "claim", "check", "send", "finish"}
                               /\ sender[s].tries \in Nat /\ sender[s].approved \in BOOLEAN
                               /\ sender[s].outcome \in {"none", "SENT", "SKIPPED", "FAILED", "retryable"}
         /\ \A r \in Recipients : /\ recipient[r] \in Row /\ recipient[r].attempts \in Nat
                                  /\ r[1] \in Broadcasts /\ r[2] \in Customers
                                  /\ accepted[r] \in Nat
         /\ \A b \in Broadcasts : draft[b] \in Draft /\ broadcast[b] \in Statuses
         /\ \A c \in Customers : late[c] \in Nat
BY DEF Typed, SendersTyped, RowsTyped, OfficeTyped, SenderState, Row, Recipients

LEMMA NoJobIsNone == NoJob \notin Recipients
BY DEF NoJob, Recipients

LEMMA GotoMoves ==
  ASSUME Typed, NEW s \in Senders, NEW pc \in {"idle", "claim"}, Goto(s, pc)
  PROVE  Alone(s) /\ sender'[s].pc = pc /\ sender'[s].job = NoJob /\ ~Busy(s)'
<1> DEFINE r == [IdleSender EXCEPT !.pc = pc]
<1>1. r \in SenderState /\ r.pc = pc /\ r.job = NoJob BY DEF IdleSender, SenderState
<1>2. sender' = [sender EXCEPT ![s] = r] BY DEF Goto
<1> HIDE DEF r
<1> QED BY <1>1, <1>2 DEF Alone, Typed, SendersTyped, Busy

LEMMA AfterSendMoves ==
  ASSUME Typed, NEW s \in Senders, NEW outcome \in {"SENT", "FAILED", "retryable"},
         AfterSend(s, outcome)
  PROVE  /\ Alone(s) /\ sender'[s].pc = "finish" /\ sender'[s].job = sender[s].job
         /\ sender'[s].outcome = outcome
<1> DEFINE r == [sender[s] EXCEPT !.pc = "finish", !.outcome = outcome]
<1>1. /\ r \in SenderState /\ r.pc = "finish" /\ r.job = sender[s].job /\ r.outcome = outcome
  BY Fields DEF SenderState
<1>2. sender' = [sender EXCEPT ![s] = r] BY Fields DEF AfterSend, Typed, SendersTyped, SenderState
<1> HIDE DEF r
<1> QED BY <1>1, <1>2 DEF Alone, Typed, SendersTyped

\* The sender that asks goes on to the send only if it may.
LEMMA CheckMoves ==
  ASSUME Typed, JobsHeld, NEW s \in Senders, CheckConsent(s)
  PROVE  /\ Alone(s) /\ sender[s].pc = "check" /\ sender'[s].job = sender[s].job
         /\ sender[s].job \in Recipients
         /\ \/ sender'[s].pc = "send" /\ consent[sender[s].job[2]] = "OPTED_IN"
            \/ sender'[s].pc = "finish" /\ sender'[s].outcome \in {"SKIPPED", "FAILED"}
<1> DEFINE verdict == CASE consent[sender[s].job[2]] # "OPTED_IN" -> "SKIPPED"
                        [] ~sender[s].approved -> "FAILED"
                        [] OTHER -> "none"
           pc == IF verdict = "none" THEN "send" ELSE "finish"
           r == [sender[s] EXCEPT !.pc = pc, !.outcome = verdict, !.approved = FALSE]
<1>1. /\ verdict \in {"SKIPPED", "FAILED", "none"}
      /\ verdict = "none" => consent[sender[s].job[2]] = "OPTED_IN"
  OBVIOUS
<1>2. sender' = [sender EXCEPT ![s].pc = pc, ![s].outcome = verdict, ![s].approved = FALSE]
      /\ sender[s].pc = "check"
  BY DEF CheckConsent
<1> HIDE DEF verdict
<1>3. pc \in {"send", "finish"} /\ (pc = "send" => verdict = "none")
      /\ (pc = "finish" => verdict # "none")
  OBVIOUS
<1> HIDE DEF pc
<1>4. r \in SenderState /\ r.pc = pc /\ r.job = sender[s].job /\ r.outcome = verdict
  BY <1>1, <1>3, Fields DEF SenderState
<1>5. sender' = [sender EXCEPT ![s] = r] BY <1>2, Fields DEF Typed, SendersTyped, SenderState
<1>6. sender[s].job \in Recipients BY <1>2 DEF JobsHeld, Busy
<1> HIDE DEF r
<1>7. Alone(s) /\ sender'[s] = r BY <1>4, <1>5 DEF Alone, Typed, SendersTyped
<1> QED BY <1>1, <1>2, <1>3, <1>4, <1>6, <1>7

LEMMA ClaimMoves ==
  ASSUME Typed, NEW s \in Senders, NEW r \in Recipients, Claim(s, r)
  PROVE  /\ Alone(s) /\ sender[s].pc = "claim" /\ sender'[s].pc = "check" /\ sender'[s].job = r
         /\ sender'[s].outcome = "none"
         /\ OneRow(r) /\ recipient[r].status = "PENDING" /\ broadcast[r[1]] = "SENDING"
         /\ recipient'[r].status = "SENDING" /\ recipient'[r].lease = "live"
         /\ recipient'[r].attempts = recipient[r].attempts + 1
<1> DEFINE n == recipient[r].attempts + 1
           row == [status |-> "SENDING", lease |-> "live", attempts |-> n]
           new == [pc |-> "check", job |-> r, tries |-> n,
                   approved |-> template = "APPROVED", outcome |-> "none"]
<1>1. n \in Nat BY Fields
<1>2. row \in Row /\ new \in SenderState
  <2> HIDE DEF n
  <2>1. (template = "APPROVED") \in BOOLEAN OBVIOUS
  <2> QED BY <1>1, <2>1 DEF Row, SenderState
<1>3. recipient' = [recipient EXCEPT ![r] = row] /\ sender' = [sender EXCEPT ![s] = new]
  BY DEF Claim
<1>4. /\ row.status = "SENDING" /\ row.lease = "live" /\ row.attempts = recipient[r].attempts + 1
      /\ new.pc = "check" /\ new.job = r /\ new.outcome = "none"
  OBVIOUS
<1> HIDE DEF row, new
<1>5. Alone(s) /\ sender'[s] = new BY <1>2, <1>3 DEF Alone, Typed, SendersTyped
<1>6. OneRow(r) /\ recipient'[r] = row BY <1>2, <1>3 DEF OneRow, Typed, RowsTyped
<1> QED BY <1>4, <1>5, <1>6 DEF Claim, Claimable

\* finish writes its row by id, whoever has it now.
LEMMA FinishMoves ==
  ASSUME Typed, JobsHeld, NEW s \in Senders, Finish(s)
  PROVE  LET r == sender[s].job IN
         /\ Alone(s) /\ sender[s].pc = "finish" /\ sender'[s].pc = "claim" /\ sender'[s].job = NoJob
         /\ ~Busy(s)' /\ OneRow(r) /\ recipient'[r].attempts = recipient[r].attempts
         /\ \/ sender[s].outcome = "retryable" /\ recipient'[r].status = "PENDING"
            \/ recipient'[r].status \in {"SENT", "SKIPPED", "FAILED"}
<1> DEFINE r == sender[s].job
           status == IF Retry(s) THEN "PENDING"
                     ELSE IF sender[s].outcome = "retryable" THEN "FAILED" ELSE sender[s].outcome
           lease == IF Retry(s) THEN "live" ELSE "none"
           row == [recipient[r] EXCEPT !.status = status, !.lease = lease]
<1>1. sender[s].pc = "finish" /\ r \in Recipients /\ sender[s].outcome # "none"
  BY DEF Finish, JobsHeld, Busy
<1>2. /\ status \in {"PENDING", "SENT", "SKIPPED", "FAILED"} /\ lease \in {"live", "none"}
      /\ status = "PENDING" => sender[s].outcome = "retryable"
  BY <1>1, Fields DEF Retry
<1>3. /\ recipient' = [recipient EXCEPT ![r].status = status, ![r].lease = lease]
      /\ Goto(s, "claim")
  BY DEF Finish
<1> HIDE DEF status, lease
<1>4. row \in Row /\ row.status = status /\ row.attempts = recipient[r].attempts
  BY <1>1, <1>2, Fields DEF Row
<1>5. recipient' = [recipient EXCEPT ![r] = row] BY <1>1, <1>3, Fields DEF Typed, RowsTyped, Row
<1> HIDE DEF row
<1>6. OneRow(r) /\ recipient'[r] = row BY <1>1, <1>4, <1>5 DEF OneRow, Typed, RowsTyped
<1>7. /\ Alone(s) /\ sender'[s].pc = "claim" /\ sender'[s].job = NoJob /\ ~Busy(s)'
  BY <1>3, GotoMoves
<1> QED BY <1>1, <1>2, <1>4, <1>6, <1>7

\* The rows that wait are skipped, and nothing else of them changes.
LEMMA SkippedRows ==
  ASSUME Typed, NEW set
  PROVE  /\ Skipped(set) \in [Recipients -> Row]
         /\ \A r \in Recipients :
              \/ r \in set /\ recipient[r].status = "PENDING" /\ Skipped(set)[r].status = "SKIPPED"
                   /\ Skipped(set)[r].attempts = recipient[r].attempts
              \/ ~(r \in set /\ recipient[r].status = "PENDING") /\ Skipped(set)[r] = recipient[r]
<1>1. \A r \in Recipients : LET row == [recipient[r] EXCEPT !.status = "SKIPPED"] IN
        row \in Row /\ row.status = "SKIPPED" /\ row.attempts = recipient[r].attempts
  BY Fields DEF Row
<1> QED BY <1>1, Fields DEF Skipped

LEMMA SweepMoves ==
  ASSUME Typed, NEW s \in Senders, Sweep(s)
  PROVE  /\ Alone(s) /\ sender[s].pc = "idle" /\ sender'[s].pc = "claim" /\ sender'[s].job = NoJob
         /\ ~Busy(s)' /\ recipient' \in [Recipients -> Row]
         /\ \A r \in Recipients :
              \/ /\ recipient[r].status = "SENDING" /\ recipient[r].lease = "past"
                 /\ recipient'[r].status = "PENDING"
                 /\ recipient'[r].attempts = recipient[r].attempts
              \/ /\ ~(recipient[r].status = "SENDING" /\ recipient[r].lease = "past")
                 /\ recipient'[r] = recipient[r]
<1>1. \A r \in Recipients : LET row == [recipient[r] EXCEPT !.status = "PENDING", !.lease = "none"] IN
        row \in Row /\ row.status = "PENDING" /\ row.attempts = recipient[r].attempts
  BY Fields DEF Row
<1>2. Alone(s) /\ sender'[s].pc = "claim" /\ sender'[s].job = NoJob /\ ~Busy(s)'
  BY GotoMoves DEF Sweep
<1> QED BY <1>1, <1>2, Fields DEF Sweep

LEMMA LeaseMoves ==
  ASSUME Typed, NEW r \in Recipients, LeaseRunsOut(r)
  PROVE  /\ OneRow(r) /\ recipient[r].lease = "live" /\ recipient'[r].lease = "past"
         /\ recipient'[r].status = recipient[r].status
         /\ recipient'[r].attempts = recipient[r].attempts
<1> DEFINE row == [recipient[r] EXCEPT !.lease = "past"]
<1>1. /\ row \in Row /\ row.lease = "past" /\ row.status = recipient[r].status
      /\ row.attempts = recipient[r].attempts
  BY Fields DEF Row
<1>2. recipient' = [recipient EXCEPT ![r] = row] BY Fields DEF LeaseRunsOut
<1> HIDE DEF row
<1> QED BY <1>1, <1>2 DEF OneRow, Typed, RowsTyped, LeaseRunsOut

\* create fills the rows of its broadcast.
LEMMA CreateMoves ==
  ASSUME Typed, NEW b \in Broadcasts, Create(b)
  PROVE  /\ recipient' \in [Recipients -> Row] /\ broadcast' \in [Broadcasts -> Statuses]
         /\ \A r \in Recipients :
              \/ recipient'[r] = recipient[r]
              \/ /\ r \in OfBroadcasts({b}) /\ recipient'[r].status = "PENDING"
                 /\ recipient'[r].lease = "none"
         /\ broadcast'[b] \in {"PENDING_APPROVAL", "SENDING"}
         /\ \A a \in Broadcasts \ {b} : broadcast'[a] = broadcast[a]
<1> DEFINE row == [NoRow EXCEPT !.status = "PENDING"]
<1>1. row \in Row /\ row.status = "PENDING" /\ row.lease = "none" BY DEF NoRow, Row
<1>2. recipient' = [r \in Recipients |-> IF r[1] = b /\ r[2] \in draft[b].chosen
                                         THEN row ELSE recipient[r]]
  BY DEF Create
<1> HIDE DEF row
<1>3. /\ recipient' \in [Recipients -> Row]
      /\ \A r \in Recipients : \/ recipient'[r] = recipient[r]
                               \/ r \in OfBroadcasts({b}) /\ recipient'[r] = row
  BY <1>1, <1>2, Fields DEF OfBroadcasts
<1>4. /\ broadcast' \in [Broadcasts -> Statuses] /\ broadcast'[b] \in {"PENDING_APPROVAL", "SENDING"}
      /\ \A a \in Broadcasts \ {b} : broadcast'[a] = broadcast[a]
  BY DEF Create, Typed, RowsTyped, Statuses
<1> QED BY <1>1, <1>3, <1>4

\* A draft of create or review moves on.
LEMMA DraftMoves ==
  ASSUME Typed, NEW b \in Broadcasts,
         ReadAccess(b) \/ Estimate(b) \/ SelectAudience(b) \/ Create(b) \/ CheckApproval(b) \/ Approve(b)
  PROVE  /\ draft' \in [Broadcasts -> Draft] /\ \A a \in Broadcasts \ {b} : draft'[a] = draft[a]
         /\ draft'[b].pc \in {"allowed", "sized", "selected"} => broadcast[b] = "NONE" \/
              draft[b].pc \in {"allowed", "sized", "selected"}
         /\ Create(b) \/ Approve(b) => draft'[b].pc = "none"
<1>1. draft \in [Broadcasts -> Draft] /\ draft[b] \in Draft BY DEF Typed, OfficeTyped
<1>2. OptedIn \subseteq Customers BY DEF OptedIn
<1>3. NoDraft \in Draft /\ NoDraft.pc = "none" BY DEF NoDraft, Draft
<1> DEFINE New(pc) == [draft[b] EXCEPT !.pc = pc]
           picked == [NoDraft EXCEPT !.pc = "selected", !.chosen = OptedIn]
<1>4. \A pc \in {"none", "allowed", "sized", "approving"} : New(pc) \in Draft /\ New(pc).pc = pc
  BY <1>1 DEF Draft
<1>5. picked \in Draft /\ picked.pc = "selected" BY <1>2 DEF Draft, NoDraft
<1> HIDE DEF New, picked
<1>6. CASE ReadAccess(b)
  <2>1. draft' = [draft EXCEPT ![b] = New("allowed")] BY <1>1, <1>6 DEF ReadAccess, New, Draft
  <2> QED BY <1>1, <1>4, <1>6, <2>1 DEF ReadAccess, Create, Approve
<1>7. CASE Estimate(b)
  <2>1. PICK pc \in {"sized", "none"} : draft' = [draft EXCEPT ![b].pc = pc] BY <1>7 DEF Estimate
  <2>2. draft' = [draft EXCEPT ![b] = New(pc)] BY <1>1, <2>1 DEF New, Draft
  <2> QED BY <1>1, <1>4, <1>7, <2>2 DEF Estimate, Create, Approve
<1>8. CASE SelectAudience(b)
  <2>1. draft' = [draft EXCEPT ![b] = picked] BY <1>8 DEF SelectAudience, picked
  <2> QED BY <1>1, <1>5, <1>8, <2>1 DEF SelectAudience, Create, Approve
<1>9. CASE Create(b) \/ Approve(b)
  <2>1. draft' = [draft EXCEPT ![b] = NoDraft] BY <1>9 DEF Create, Approve
  <2> QED BY <1>1, <1>3, <2>1
<1>10. CASE CheckApproval(b)
  <2>1. draft' = [draft EXCEPT ![b] = New("approving")] BY <1>1, <1>10 DEF CheckApproval, New, Draft
  <2> QED BY <1>1, <1>4, <1>10, <2>1 DEF CheckApproval, Create, Approve
<1> QED BY <1>6, <1>7, <1>8, <1>9, <1>10

\* The provider takes one message for the customer of the job.
LEMMA SendMoves ==
  ASSUME Typed, JobsHeld, NEW s \in Senders, NEW lost \in BOOLEAN, SendAccepted(s, lost)
  PROVE  LET r == sender[s].job IN
         /\ r \in Recipients /\ r[2] \in Customers
         /\ Alone(s) /\ sender[s].pc = "send" /\ sender'[s].pc = "finish" /\ sender'[s].job = r
         /\ sender'[s].outcome \in {"SENT", "retryable"}
         /\ \/ faults' = faults /\ sender'[s].outcome = "SENT"
            \/ faults' = faults + 1
         /\ accepted' \in [Recipients -> Nat] /\ accepted'[r] = accepted[r] + 1
         /\ \A q \in Recipients \ {r} : accepted'[q] = accepted[q]
         /\ late' \in [Customers -> Nat]
         /\ late'[r[2]] = late[r[2]] + (IF consent[r[2]] = "OPTED_OUT" THEN 1 ELSE 0)
         /\ \A c \in Customers \ {r[2]} : late'[c] = late[c]
<1> DEFINE r == sender[s].job
           c == r[2]
           outcome == IF lost THEN "retryable" ELSE "SENT"
           n == accepted[r] + 1
           one == IF consent[c] = "OPTED_OUT" THEN 1 ELSE 0
           l == late[c] + one
<1>1. r \in Recipients /\ c \in Customers /\ sender[s].pc = "send"
  BY Fields DEF SendAccepted, JobsHeld, Busy
<1>2. n \in Nat /\ l \in Nat BY <1>1, Fields
<1>3. /\ accepted' = [accepted EXCEPT ![r] = n] /\ late' = [late EXCEPT ![c] = l]
      /\ AfterSend(s, outcome) /\ (IF lost THEN faults' = faults + 1 ELSE faults' = faults)
  BY DEF SendAccepted, Fault
<1>4. outcome \in {"SENT", "FAILED", "retryable"} OBVIOUS
<1>5. /\ Alone(s) /\ sender'[s].pc = "finish" /\ sender'[s].job = r /\ sender'[s].outcome = outcome
  <2> HIDE DEF outcome
  <2> QED BY <1>3, <1>4, AfterSendMoves
<1> HIDE DEF n, l
<1>6. /\ accepted' \in [Recipients -> Nat] /\ accepted'[r] = n
      /\ \A q \in Recipients \ {r} : accepted'[q] = accepted[q]
  BY <1>1, <1>2, <1>3 DEF Typed, SendersTyped
<1>7. /\ late' \in [Customers -> Nat] /\ late'[c] = l /\ \A d \in Customers \ {c} : late'[d] = late[d]
  <2> HIDE DEF c
  <2> QED BY <1>1, <1>2, <1>3 DEF Typed, SendersTyped
<1> QED BY <1>1, <1>3, <1>5, <1>6, <1>7 DEF n, l

-----------------------------------------------------------------------------
(* Types, and the jobs of the senders *)

LEMMA JobsKept ==
  ASSUME JobsHeld, NEW s, Alone(s), sender'[s].pc = "finish" => sender'[s].outcome # "none",
         IF Busy(s)' THEN sender'[s].job \in Recipients ELSE sender'[s].job = NoJob
  PROVE  JobsHeld'
BY DEF JobsHeld, Alone, Busy

LEMMA FaultIsCounted ==
  ASSUME Typed, NEW kind, Fault(kind) PROVE faults' \in Nat /\ faults' = faults + 1 /\ faults' > 0
BY DEF Typed, SendersTyped, Fault

LEMMA TypesStep == ASSUME Typed, JobsHeld, Next PROVE Typed' /\ JobsHeld'
<1> USE DEF Typed, JobsHeld
<1>1. ASSUME NEW c \in Customers,
             ImportConsent(c) \/ HandleStop(c) \/ SkipStopped(c) \/ StopFails(c)
      PROVE  Typed' /\ JobsHeld'
  <2>1. UNCHANGED <<office, broadcast, sender, ghosts>>
    BY <1>1 DEF ImportConsent, HandleStop, SkipStopped, StopFails, rows
  <2>2. PeopleTyped'
    BY <1>1 DEF ImportConsent, HandleStop, SkipStopped, StopFails, PeopleTyped
  <2>3. recipient' \in [Recipients -> Row]
    BY <1>1, SkippedRows DEF ImportConsent, HandleStop, SkipStopped, StopFails, RowsTyped, rows
  <2>4. faults' \in Nat
    BY <1>1 DEF ImportConsent, HandleStop, SkipStopped, StopFails, SendersTyped, Fault
  <2> QED BY <2>1, <2>2, <2>3, <2>4 DEF OfficeTyped, RowsTyped, SendersTyped, office, ghosts, Busy
<1>2. ASSUME NEW b \in Broadcasts,
             ReadAccess(b) \/ Estimate(b) \/ SelectAudience(b) \/ Create(b) \/ CheckApproval(b) \/ Approve(b)
      PROVE  Typed' /\ JobsHeld'
  <2>1. draft' \in [Broadcasts -> Draft] BY <1>2, DraftMoves
  <2>2. UNCHANGED <<people, template, access, changes, skipping, sender, ghosts, faults>>
    BY <1>2 DEF ReadAccess, Estimate, SelectAudience, Create, CheckApproval, Approve, rows
  <2>3. broadcast' \in [Broadcasts -> Statuses] /\ recipient' \in [Recipients -> Row]
    <3>1. CASE Create(b) BY <3>1, CreateMoves
    <3>2. CASE ~Create(b)
      BY <1>2, <3>2 DEF ReadAccess, Estimate, SelectAudience, CheckApproval, Approve, rows,
                         RowsTyped, Statuses
    <3> QED BY <3>1, <3>2
  <2> QED BY <2>1, <2>2, <2>3 DEF PeopleTyped, OfficeTyped, RowsTyped, SendersTyped, people, ghosts, Busy
<1>3. ASSUME NEW b \in Broadcasts, SkipRecipients(b) \/ \E status \in {"REJECTED", "CANCELLED"} :
                                     RejectOrCancel(b, status)
      PROVE  Typed' /\ JobsHeld'
  <2>1. UNCHANGED <<people, template, access, changes, draft, sender, ghosts, faults>>
    BY <1>3 DEF SkipRecipients, RejectOrCancel
  <2>2. skipping' \subseteq Broadcasts /\ broadcast' \in [Broadcasts -> Statuses]
    BY <1>3 DEF SkipRecipients, RejectOrCancel, OfficeTyped, RowsTyped, Statuses
  <2>3. recipient' \in [Recipients -> Row]
    BY <1>3, SkippedRows DEF SkipRecipients, RejectOrCancel, RowsTyped
  <2> QED BY <2>1, <2>2, <2>3 DEF PeopleTyped, OfficeTyped, RowsTyped, SendersTyped, people, ghosts, Busy
<1>4. ASSUME NEW allowed \in BOOLEAN, SetAccess(allowed) PROVE Typed' /\ JobsHeld'
  <2>1. UNCHANGED <<people, template, draft, skipping, sender, ghosts, faults>>
        /\ access' \in BOOLEAN /\ changes' \in Nat
    BY <1>4 DEF SetAccess, OfficeTyped
  <2>2. broadcast' \in [Broadcasts -> Statuses] /\ recipient' \in [Recipients -> Row]
    BY <1>4, SkippedRows DEF SetAccess, RowsTyped, Statuses
  <2> QED BY <2>1, <2>2 DEF PeopleTyped, OfficeTyped, RowsTyped, SendersTyped, people, ghosts, Busy
<1>5. ASSUME NEW status \in {"APPROVED", "PAUSED"}, SyncTemplates(status) PROVE Typed' /\ JobsHeld'
  BY <1>5 DEF SyncTemplates, PeopleTyped, OfficeTyped, RowsTyped, SendersTyped, people, rows, ghosts, Busy
<1>6. ASSUME NEW s \in Senders, SenderStep(s) \/ Abort(s) PROVE Typed' /\ JobsHeld'
  <2>1. UNCHANGED <<people, office>>
    BY <1>6 DEF SenderStep, Sweep, CheckConsent, Finish, Complete, Claim, SendAccepted, SendRefused, Abort
  <2>2. broadcast' \in [Broadcasts -> Statuses]
    BY <1>6 DEF SenderStep, Sweep, CheckConsent, Finish, Complete, Claim, SendAccepted, SendRefused,
                Abort, RowsTyped, Statuses, rows
  <2>3. Alone(s) /\ JobsHeld' /\ recipient' \in [Recipients -> Row]
        /\ accepted' \in [Recipients -> Nat] /\ late' \in [Customers -> Nat] /\ faults' \in Nat
    <3>1. CASE Sweep(s) BY <3>1, SweepMoves, JobsKept DEF Sweep, SendersTyped, ghosts, Busy
    <3>2. CASE CheckConsent(s)
      BY <3>2, CheckMoves, JobsKept DEF CheckConsent, SendersTyped, RowsTyped, ghosts, rows, Busy
    <3>3. CASE Finish(s)
      BY <3>3, FinishMoves, JobsKept DEF Finish, SendersTyped, ghosts, Busy, OneRow
    <3>4. CASE Complete(s)
      BY <3>4, GotoMoves, JobsKept DEF Complete, SendersTyped, RowsTyped, ghosts, Busy
    <3>5. ASSUME NEW r \in Recipients, Claim(s, r) PROVE <2>3!:
      BY <3>5, ClaimMoves, JobsKept DEF Claim, SendersTyped, ghosts, Busy, OneRow
    <3>6. ASSUME NEW lost \in BOOLEAN, SendAccepted(s, lost) PROVE <2>3!:
      <4>1. /\ Alone(s) /\ sender'[s].pc = "finish" /\ sender'[s].job \in Recipients
            /\ sender'[s].outcome \in {"SENT", "retryable"}
            /\ accepted' \in [Recipients -> Nat] /\ late' \in [Customers -> Nat]
            /\ (faults' = faults \/ faults' = faults + 1)
        BY <3>6, SendMoves
      <4>2. JobsHeld' BY <4>1, JobsKept DEF Busy
      <4> QED BY <3>6, <4>1, <4>2 DEF SendAccepted, SendersTyped, RowsTyped, rows
    <3>7. ASSUME NEW outcome \in {"retryable", "FAILED"}, SendRefused(s, outcome) PROVE <2>3!:
      BY <3>7, AfterSendMoves, JobsKept DEF SendRefused, SendersTyped, RowsTyped, rows, ghosts, Busy
    <3>8. CASE Abort(s)
      BY <3>8, GotoMoves, JobsKept, FaultIsCounted DEF Abort, SendersTyped, RowsTyped, rows, ghosts, Busy
    <3> QED BY <1>6, <3>1, <3>2, <3>3, <3>4, <3>5, <3>6, <3>7, <3>8 DEF SenderStep
  <2> QED BY <2>1, <2>2, <2>3 DEF PeopleTyped, OfficeTyped, RowsTyped, SendersTyped, people, office, Alone
<1>7. ASSUME NEW r \in Recipients, LeaseRunsOut(r) PROVE Typed' /\ JobsHeld'
  <2>1. OneRow(r) BY <1>7, LeaseMoves
  <2>2. faults' \in Nat BY <1>7, FaultIsCounted DEF LeaseRunsOut, SendersTyped
  <2> QED BY <1>7, <2>1, <2>2 DEF LeaseRunsOut, PeopleTyped, OfficeTyped, RowsTyped, SendersTyped,
                                  people, office, ghosts, Busy, OneRow
<1> QED BY <1>1, <1>2, <1>3, <1>4, <1>5, <1>6, <1>7 DEF Next

-----------------------------------------------------------------------------
(* Rows and their broadcasts only go forward *)

\* A cancelled or rejected broadcast whose recipients have been skipped.
Over(b) == broadcast[b] \in {"CANCELLED", "REJECTED"} /\ b \notin skipping
\* An opt-out stays; nothing but a sender completes a broadcast; the rows that wait are
\* skipped when one is over.
Lasting ==
  /\ \A c \in Customers : consent[c] = "OPTED_OUT" => consent'[c] = "OPTED_OUT"
  /\ \A b \in Broadcasts :
       /\ broadcast'[b] = "COMPLETED" => broadcast[b] = "COMPLETED"
       /\ Over(b)' => Over(b) \/ \A r \in Recipients : r[1] = b => recipient'[r].status # "PENDING"

\* The steps of customers and of the office leave senders and messages alone, and skip
\* rows that wait.
Quiet ==
  /\ UNCHANGED <<sender, accepted, late>> /\ faults' >= faults
  /\ Lasting
  /\ \A r \in Recipients :
       \/ recipient'[r] = recipient[r]
       \/ /\ recipient[r].status = "PENDING" /\ recipient'[r].status = "SKIPPED"
          /\ recipient'[r].attempts = recipient[r].attempts
  /\ \A b \in Broadcasts :
       /\ broadcast[b] = "NONE" <=> broadcast'[b] = "NONE"
       /\ draft'[b].pc \in {"allowed", "sized", "selected"} => broadcast[b] = "NONE"

LEMMA RowsStart ==
  ASSUME Typed, Drafted
  PROVE  /\ NoRow.status = "NONE" /\ NoRow.lease = "none" /\ NoRow.attempts = 0
         /\ \A r \in Recipients : broadcast[r[1]] = "NONE" => recipient[r] = NoRow /\ accepted[r] = 0
         /\ \A b \in Broadcasts : draft[b].pc \in {"allowed", "sized", "selected"} => broadcast[b] = "NONE"
BY Fields DEF NoRow, Drafted, OfBroadcasts

LEMMA Kinds ==
  ASSUME Typed, Drafted, Next
  PROVE  \/ Quiet
         \/ \E b \in Broadcasts : Create(b)
         \/ \E s \in Senders : SenderStep(s) \/ Abort(s)
         \/ \E r \in Recipients : LeaseRunsOut(r)
<1>1. ASSUME UNCHANGED recipient \/ \E set : recipient' = Skipped(set)
      PROVE  \A r \in Recipients :
               \/ recipient'[r] = recipient[r]
               \/ /\ recipient[r].status = "PENDING" /\ recipient'[r].status = "SKIPPED"
                  /\ recipient'[r].attempts = recipient[r].attempts
  BY <1>1, SkippedRows
<1>2. faults \in Nat /\ \A b \in Broadcasts : draft[b].pc \in {"allowed", "sized", "selected"} => broadcast[b] = "NONE"
  BY RowsStart DEF Typed, SendersTyped
<1>3. ASSUME NEW c \in Customers,
             ImportConsent(c) \/ HandleStop(c) \/ SkipStopped(c) \/ StopFails(c)
      PROVE  Quiet
  <2>1. UNCHANGED <<sender, accepted, late, broadcast, draft, skipping>> /\ (faults' = faults \/ faults' = faults + 1)
    BY <1>3 DEF ImportConsent, HandleStop, SkipStopped, StopFails, office, rows, ghosts, Fault
  <2>2. UNCHANGED recipient \/ \E set : recipient' = Skipped(set)
    BY <1>3 DEF ImportConsent, HandleStop, SkipStopped, StopFails, rows
  <2>3. \A d \in Customers : consent[d] = "OPTED_OUT" => consent'[d] = "OPTED_OUT"
    BY <1>3 DEF ImportConsent, HandleStop, SkipStopped, StopFails, Typed, PeopleTyped
  <2>4. Lasting BY <2>1, <2>3 DEF Lasting, Over
  <2> QED BY <1>1, <1>2, <2>1, <2>2, <2>4 DEF Quiet
<1>4. ASSUME NEW b \in Broadcasts,
             ReadAccess(b) \/ Estimate(b) \/ SelectAudience(b) \/ CheckApproval(b) \/ Approve(b)
      PROVE  Quiet
  <2>1. /\ \A a \in Broadcasts \ {b} : draft'[a] = draft[a]
        /\ draft'[b].pc \in {"allowed", "sized", "selected"} => broadcast[b] = "NONE"
    BY <1>2, <1>4, DraftMoves
  <2>2. UNCHANGED <<recipient, sender, accepted, late, faults, consent, skipping>>
    BY <1>4 DEF ReadAccess, Estimate, SelectAudience, CheckApproval, Approve, rows, ghosts, people
  <2>3. \A a \in Broadcasts :
          \/ broadcast'[a] = broadcast[a]
          \/ broadcast[a] = "PENDING_APPROVAL" /\ broadcast'[a] = "SENDING"
    BY <1>4 DEF ReadAccess, Estimate, SelectAudience, CheckApproval, Approve, rows, Typed, RowsTyped
  <2>4. Lasting BY <2>2, <2>3 DEF Lasting, Over
  <2> QED BY <1>1, <1>2, <2>1, <2>2, <2>3, <2>4 DEF Quiet
<1>5. ASSUME NEW b \in Broadcasts, SkipRecipients(b) \/ \E status \in {"REJECTED", "CANCELLED"} :
                                     RejectOrCancel(b, status)
      PROVE  Quiet
  <2>1. \A a \in Broadcasts : broadcast[a] = "NONE" <=> broadcast'[a] = "NONE"
    BY <1>5 DEF SkipRecipients, RejectOrCancel, Unfinished, Typed, RowsTyped
  <2>2. UNCHANGED <<draft, sender, accepted, late, faults, consent>>
    BY <1>5 DEF SkipRecipients, RejectOrCancel, ghosts, people
  <2>3. UNCHANGED recipient \/ \E set : recipient' = Skipped(set)
    BY <1>5 DEF SkipRecipients, RejectOrCancel
  <2>4. CASE SkipRecipients(b)
    <3>1. broadcast' = broadcast /\ skipping' = skipping \ {b} BY <2>4 DEF SkipRecipients
    <3>2. \A r \in Recipients : r[1] = b => recipient'[r].status # "PENDING"
      BY <2>4, SkippedRows DEF SkipRecipients, OfBroadcasts
    <3>3. Lasting BY <2>2, <3>1, <3>2 DEF Lasting, Over
    <3> QED BY <1>1, <1>2, <2>1, <2>2, <2>3, <3>3 DEF Quiet
  <2>5. CASE ~SkipRecipients(b)
    <3>1. /\ skipping' = skipping \cup {b} /\ broadcast'[b] # "COMPLETED"
          /\ \A a \in Broadcasts \ {b} : broadcast'[a] = broadcast[a]
      BY <1>5, <2>5 DEF RejectOrCancel, Typed, RowsTyped
    <3>2. Lasting BY <2>2, <3>1 DEF Lasting, Over
    <3> QED BY <1>1, <1>2, <2>1, <2>2, <2>3, <3>2 DEF Quiet
  <2> QED BY <2>4, <2>5
<1>6. ASSUME NEW allowed \in BOOLEAN, SetAccess(allowed) PROVE Quiet
  <2>1. \A a \in Broadcasts : broadcast[a] = "NONE" <=> broadcast'[a] = "NONE"
    BY <1>6 DEF SetAccess, Unfinished
  <2>2. UNCHANGED <<draft, skipping, sender, accepted, late, faults, consent>>
    BY <1>6 DEF SetAccess, ghosts, people
  <2>3. UNCHANGED recipient \/ \E set : recipient' = Skipped(set) BY <1>6 DEF SetAccess
  <2>4. ASSUME NEW a \in Broadcasts
        PROVE  \/ broadcast'[a] = broadcast[a]
               \/ /\ broadcast'[a] = "CANCELLED"
                  /\ \A r \in Recipients : r[1] = a => recipient'[r].status # "PENDING"
    BY <1>6, SkippedRows DEF SetAccess, OfBroadcasts
  <2>5. Lasting BY <2>2, <2>4 DEF Lasting, Over
  <2> QED BY <1>1, <1>2, <2>1, <2>2, <2>3, <2>5 DEF Quiet
<1>7. ASSUME NEW status \in {"APPROVED", "PAUSED"}, SyncTemplates(status) PROVE Quiet
  <2>1. UNCHANGED <<broadcast, recipient, draft, skipping, sender, accepted, late, faults, consent>>
    BY <1>7 DEF SyncTemplates, rows, ghosts, people
  <2>2. Lasting BY <2>1 DEF Lasting, Over
  <2> QED BY <1>2, <2>1, <2>2 DEF Quiet
<1> QED BY <1>3, <1>4, <1>5, <1>6, <1>7 DEF Next

\* A sender that has not taken a row works on the row of its job, if at all, or sets free
\* rows that others have.
Works(s) ==
  /\ Alone(s) /\ UNCHANGED draft /\ recipient' \in [Recipients -> Row]
  /\ \A b \in Broadcasts : broadcast[b] = "NONE" <=> broadcast'[b] = "NONE"
  /\ Busy(s)' => Busy(s) /\ sender'[s].job = sender[s].job
  /\ \A r \in Recipients : r # sender[s].job \/ ~Busy(s) => accepted'[r] = accepted[r]
  /\ \A r \in Recipients :
       \/ recipient'[r] = recipient[r]
       \/ /\ Busy(s) /\ r = sender[s].job
          /\ recipient'[r].status # "SENDING" /\ recipient'[r].attempts = recipient[r].attempts
       \/ /\ recipient[r].status = "SENDING"
          /\ recipient'[r].status # "SENDING" /\ recipient'[r].attempts = recipient[r].attempts

LEMMA SenderWorks ==
  ASSUME Typed, JobsHeld, NEW s \in Senders, SenderStep(s) \/ Abort(s)
  PROVE  Works(s) \/ \E r \in Recipients : Claim(s, r)
<1>1. UNCHANGED draft
  BY DEF SenderStep, Sweep, CheckConsent, Finish, Complete, Claim, SendAccepted, SendRefused,
         Abort, office
<1>2. \A b \in Broadcasts : broadcast[b] = "NONE" <=> broadcast'[b] = "NONE"
  BY DEF SenderStep, Sweep, CheckConsent, Finish, Complete, Claim, SendAccepted, SendRefused,
         Abort, rows
<1>a. recipient \in [Recipients -> Row] BY DEF Typed, RowsTyped
<1>3. CASE Sweep(s)
  <2>1. accepted' = accepted BY <1>3 DEF Sweep, ghosts
  <2>2. \A r \in Recipients :
          \/ recipient'[r] = recipient[r]
          \/ /\ recipient[r].status = "SENDING" /\ recipient'[r].status # "SENDING"
             /\ recipient'[r].attempts = recipient[r].attempts
    BY <1>3, SweepMoves
  <2>3. Alone(s) /\ ~Busy(s)' /\ recipient' \in [Recipients -> Row] BY <1>3, SweepMoves
  <2> QED BY <1>1, <1>2, <2>1, <2>2, <2>3 DEF Works
<1>4. CASE CheckConsent(s)
  <2>1. Alone(s) /\ Busy(s) /\ sender'[s].job = sender[s].job BY <1>4, CheckMoves DEF Busy
  <2>2. UNCHANGED <<recipient, accepted>> BY <1>4 DEF CheckConsent, rows, ghosts
  <2> QED BY <1>1, <1>2, <1>a, <2>1, <2>2 DEF Works
<1>5. CASE Finish(s)
  <2>1. PICK r \in Recipients : r = sender[s].job BY <1>5 DEF Finish, JobsHeld, Busy
  <2>2. /\ Alone(s) /\ Busy(s) /\ ~Busy(s)' /\ OneRow(r)
        /\ recipient'[r].attempts = recipient[r].attempts /\ recipient'[r].status # "SENDING"
    BY <1>5, <2>1, FinishMoves DEF Busy
  <2>3. accepted' = accepted BY <1>5 DEF Finish, ghosts
  <2> QED BY <1>1, <1>2, <2>1, <2>2, <2>3 DEF Works, OneRow
<1>6. CASE Complete(s) \/ Abort(s)
  <2>1. Alone(s) /\ ~Busy(s)' BY <1>6, GotoMoves DEF Complete, Abort
  <2>2. UNCHANGED <<recipient, accepted>> BY <1>6 DEF Complete, Abort, rows, ghosts
  <2> QED BY <1>1, <1>2, <1>a, <2>1, <2>2 DEF Works
<1>7. ASSUME NEW lost \in BOOLEAN, SendAccepted(s, lost) PROVE Works(s)
  <2>1. PICK r \in Recipients : r = sender[s].job BY <1>7, SendMoves
  <2>2. /\ Alone(s) /\ Busy(s) /\ sender'[s].job = r
        /\ \A q \in Recipients \ {r} : accepted'[q] = accepted[q]
    BY <1>7, <2>1, SendMoves DEF Busy
  <2>3. recipient' = recipient BY <1>7 DEF SendAccepted, rows
  <2> QED BY <1>1, <1>2, <1>a, <2>1, <2>2, <2>3 DEF Works
<1>8. ASSUME NEW outcome \in {"retryable", "FAILED"}, SendRefused(s, outcome) PROVE Works(s)
  <2>1. Alone(s) /\ Busy(s) /\ sender'[s].job = sender[s].job
    BY <1>8, AfterSendMoves DEF SendRefused, Busy
  <2>2. UNCHANGED <<recipient, accepted>> BY <1>8 DEF SendRefused, rows, ghosts
  <2> QED BY <1>1, <1>2, <1>a, <2>1, <2>2 DEF Works
<1> QED BY <1>3, <1>4, <1>5, <1>6, <1>7, <1>8 DEF SenderStep

LEMMA OnwardStep ==
  ASSUME Typed, JobsHeld, Drafted, Taken, Typed', JobsHeld', Next PROVE Drafted' /\ Taken'
<1> DEFINE Empty(r) == recipient[r] = NoRow /\ accepted[r] = 0
<1>1. /\ \A r \in Recipients : r[1] \in Broadcasts /\ recipient[r].attempts \in Nat
      /\ \A b \in Broadcasts : \A r \in OfBroadcasts({b}) : r \in Recipients /\ r[1] = b
  BY Fields DEF OfBroadcasts
<1>2. /\ NoRow.status = "NONE" /\ NoRow.lease = "none" /\ NoRow.attempts = 0
      /\ \A r \in Recipients : broadcast[r[1]] = "NONE" => Empty(r)
      /\ \A b \in Broadcasts : draft[b].pc \in {"allowed", "sized", "selected"} => broadcast[b] = "NONE"
  BY RowsStart
<1>3. /\ \A r \in Recipients : recipient[r].status = "SENDING" => recipient[r].attempts > 0
      /\ \A s \in Senders : Busy(s) => /\ sender[s].job \in Recipients
                                       /\ recipient[sender[s].job].attempts > 0
                                       /\ broadcast[sender[s].job[1]] # "NONE"
  BY DEF Taken, JobsHeld
<1>4. SUFFICES /\ \A b \in Broadcasts : draft'[b].pc \in {"allowed", "sized", "selected"} =>
                                          broadcast'[b] = "NONE"
               /\ \A r \in Recipients : broadcast'[r[1]] = "NONE" => Empty(r)'
               /\ \A r \in Recipients : recipient'[r].status = "SENDING" => recipient'[r].attempts > 0
               /\ \A s \in Senders : Busy(s)' => /\ recipient'[sender'[s].job].attempts > 0
                                                 /\ broadcast'[sender'[s].job[1]] # "NONE"
  BY <1>1, <1>4 DEF Drafted, Taken, OfBroadcasts
<1>5. CASE Quiet
  <2>1. \A r \in Recipients : recipient'[r].attempts = recipient[r].attempts BY <1>5 DEF Quiet
  <2>2. \A b \in Broadcasts : draft'[b].pc \in {"allowed", "sized", "selected"} => broadcast'[b] = "NONE"
    BY <1>5 DEF Quiet
  <2>3. \A r \in Recipients : broadcast'[r[1]] = "NONE" => Empty(r)' BY <1>1, <1>2, <1>5 DEF Quiet
  <2>4. \A r \in Recipients : recipient'[r].status = "SENDING" => recipient'[r].attempts > 0
    BY <1>3, <1>5, <2>1 DEF Quiet
  <2>5. \A s \in Senders : Busy(s)' => Busy(s) /\ sender'[s].job = sender[s].job
    BY <1>5 DEF Quiet, Busy
  <2>6. \A r \in Recipients : broadcast[r[1]] # "NONE" => broadcast'[r[1]] # "NONE"
    BY <1>1, <1>5 DEF Quiet
  <2>7. \A s \in Senders : Busy(s)' => /\ recipient'[sender'[s].job].attempts > 0
                                       /\ broadcast'[sender'[s].job[1]] # "NONE"
    BY <1>3, <2>1, <2>5, <2>6
  <2> QED BY <2>2, <2>3, <2>4, <2>7
<1>6. ASSUME NEW b \in Broadcasts, Create(b) PROVE <1>4!1
  <2>1. /\ \A a \in Broadcasts \ {b} : draft'[a] = draft[a] /\ broadcast'[a] = broadcast[a]
        /\ draft'[b].pc = "none" /\ broadcast'[b] # "NONE" /\ broadcast[b] = "NONE"
        /\ UNCHANGED <<sender, accepted>>
    <3>1. draft[b].pc = "selected" /\ UNCHANGED <<sender, accepted>> BY <1>6 DEF Create, ghosts
    <3>2. broadcast[b] = "NONE" BY <1>2, <3>1
    <3>3. draft'[b].pc = "none" /\ \A a \in Broadcasts \ {b} : draft'[a] = draft[a] BY <1>6, DraftMoves
    <3>4. broadcast'[b] # "NONE" /\ \A a \in Broadcasts \ {b} : broadcast'[a] = broadcast[a]
      BY <1>6, CreateMoves
    <3> QED BY <3>1, <3>2, <3>3, <3>4
  <2>2. \A r \in Recipients :
          \/ recipient'[r] = recipient[r]
          \/ r[1] = b /\ recipient'[r].status = "PENDING"
    BY <1>6, CreateMoves DEF OfBroadcasts
  <2>3. \A r \in Recipients : r[1] # b => recipient'[r] = recipient[r] BY <2>2
  <2>4. \A s \in Senders : Busy(s)' => Busy(s) /\ sender'[s].job = sender[s].job
    BY <2>1 DEF Busy
  <2>5. \A s \in Senders : Busy(s) => sender[s].job[1] # b /\ sender[s].job[1] \in Broadcasts
    BY <1>1, <1>3, <2>1
  <2> QED BY <1>1, <1>2, <1>3, <2>1, <2>2, <2>3, <2>4, <2>5
<1>7. ASSUME NEW s \in Senders, NEW r \in Recipients, Claim(s, r) PROVE <1>4!1
  <2>1. /\ Alone(s) /\ sender'[s].job = r /\ OneRow(r)
        /\ recipient[r].status = "PENDING" /\ broadcast[r[1]] = "SENDING"
        /\ recipient'[r].attempts = recipient[r].attempts + 1
    BY <1>7, ClaimMoves
  <2>2. UNCHANGED <<draft, broadcast, accepted>> BY <1>7 DEF Claim, office, ghosts
  <2>3. recipient'[r].attempts > 0 BY <1>1, <2>1
  <2>4. \A q \in Recipients : recipient'[q].attempts >= recipient[q].attempts
    BY <1>1, <2>1 DEF OneRow
  <2>5. \A q \in Recipients : broadcast'[q[1]] = "NONE" => Empty(q)'
    BY <1>2, <2>1, <2>2 DEF OneRow
  <2>6. \A q \in Recipients : recipient'[q].status = "SENDING" => recipient'[q].attempts > 0
    BY <1>3, <2>1, <2>3 DEF OneRow
  <2>7. ASSUME NEW t \in Senders, Busy(t)'
        PROVE  recipient'[sender'[t].job].attempts > 0 /\ broadcast'[sender'[t].job[1]] # "NONE"
    <3>1. CASE t = s BY <2>1, <2>2, <2>3, <3>1
    <3>2. CASE t # s
      <4>1. sender'[t] = sender[t] /\ Busy(t) BY <2>1, <2>7, <3>2 DEF Alone, Busy
      <4>2. PICK q \in Recipients : q = sender[t].job BY <1>3, <4>1
      <4>3. recipient'[q].attempts > 0 /\ broadcast[q[1]] # "NONE"
        BY <1>3, <2>1, <2>3, <4>1, <4>2 DEF OneRow
      <4> QED BY <2>2, <4>1, <4>2, <4>3
    <3> QED BY <3>1, <3>2
  <2> QED BY <1>2, <2>2, <2>5, <2>6, <2>7
<1>8. ASSUME NEW s \in Senders, Works(s) PROVE <1>4!1
  <2>1. \A r \in Recipients : recipient'[r].attempts = recipient[r].attempts BY <1>8 DEF Works
  <2>2. \A b \in Broadcasts : draft'[b].pc \in {"allowed", "sized", "selected"} => broadcast'[b] = "NONE"
    BY <1>2, <1>8 DEF Works
  <2>3. \A r \in Recipients : broadcast'[r[1]] = "NONE" => Empty(r)'
    <3> SUFFICES ASSUME NEW r \in Recipients, broadcast'[r[1]] = "NONE" PROVE Empty(r)'
      OBVIOUS
    <3>1. broadcast[r[1]] = "NONE" BY <1>1, <1>8 DEF Works
    <3>2. Empty(r) /\ (Busy(s) => r # sender[s].job) BY <1>2, <1>3, <3>1
    <3> QED BY <1>2, <1>8, <3>2 DEF Works
  <2>4. \A r \in Recipients : recipient'[r].status = "SENDING" => recipient'[r].attempts > 0
    BY <1>3, <1>8, <2>1 DEF Works
  <2>5. \A t \in Senders : Busy(t)' => Busy(t) /\ sender'[t].job = sender[t].job
    BY <1>8 DEF Works, Alone, Busy
  <2>6. \A r \in Recipients : broadcast[r[1]] # "NONE" => broadcast'[r[1]] # "NONE"
    BY <1>1, <1>8 DEF Works
  <2>7. \A t \in Senders : Busy(t)' => /\ recipient'[sender'[t].job].attempts > 0
                                       /\ broadcast'[sender'[t].job[1]] # "NONE"
    BY <1>3, <2>1, <2>5, <2>6
  <2> QED BY <2>2, <2>3, <2>4, <2>7
<1>9. ASSUME NEW r \in Recipients, LeaseRunsOut(r) PROVE <1>4!1
  <2>1. /\ OneRow(r) /\ recipient[r].lease = "live" /\ recipient'[r].status = recipient[r].status
        /\ recipient'[r].attempts = recipient[r].attempts
    BY <1>9, LeaseMoves
  <2>2. UNCHANGED <<draft, broadcast, sender, accepted>> BY <1>9 DEF LeaseRunsOut, office, ghosts
  <2>3. \A q \in Recipients : /\ recipient'[q].status = recipient[q].status
                              /\ recipient'[q].attempts = recipient[q].attempts
                              /\ recipient[q] = NoRow => recipient'[q] = NoRow
    BY <1>2, <2>1 DEF OneRow
  <2> QED BY <1>2, <1>3, <2>2, <2>3 DEF Busy
<1> QED BY <1>5, <1>6, <1>7, <1>8, <1>9, Kinds, SenderWorks

-----------------------------------------------------------------------------
(* A recipient has one sender while nothing goes wrong *)

\* Senders keep their jobs, and the rows of these keep their leases.
LEMMA HoldersStay ==
  ASSUME HeldAlone,
         \A t \in Senders : Busy(t)' =>
           /\ Busy(t) /\ sender'[t].job = sender[t].job
           /\ recipient'[sender[t].job].status = recipient[sender[t].job].status
           /\ recipient'[sender[t].job].lease = recipient[sender[t].job].lease
  PROVE  HeldAlone'
BY DEF HeldAlone

\* Nobody has faults' = 0 after a fault.
LEMMA HeldStep ==
  ASSUME Typed, JobsHeld, Drafted, Taken, faults = 0 => HeldAlone, Next
  PROVE  faults' >= faults /\ (faults' = 0 => HeldAlone')
<1>1. /\ faults \in Nat
      /\ \A t \in Senders : Busy(t) => sender[t].job \in Recipients /\ broadcast[sender[t].job[1]] # "NONE"
  BY DEF Typed, SendersTyped, JobsHeld, Taken
<1>2. CASE Quiet
  <2>1. faults' >= faults BY <1>2 DEF Quiet
  <2>2. \A t \in Senders : Busy(t)' => Busy(t) /\ sender'[t].job = sender[t].job
    BY <1>2 DEF Quiet, Busy
  <2>3. ASSUME HeldAlone, NEW t \in Senders, Busy(t)
        PROVE  recipient'[sender[t].job] = recipient[sender[t].job]
    <3>1. PICK r \in Recipients : r = sender[t].job BY <1>1, <2>3
    <3>2. recipient[r].status = "SENDING" BY <2>3, <3>1 DEF HeldAlone
    <3> QED BY <1>2, <3>1, <3>2 DEF Quiet
  <2>4. HeldAlone => HeldAlone' BY <2>2, <2>3, HoldersStay
  <2> QED BY <1>1, <2>1, <2>4
<1>3. ASSUME NEW b \in Broadcasts, Create(b)
      PROVE  faults' >= faults /\ (faults' = 0 => HeldAlone')
  <2>1. UNCHANGED <<sender, faults>> /\ broadcast[b] = "NONE" BY <1>3 DEF Create, Drafted
  <2>2. \A t \in Senders : Busy(t)' => Busy(t) /\ sender'[t].job = sender[t].job
    BY <2>1 DEF Busy
  <2>3. ASSUME NEW t \in Senders, Busy(t) PROVE recipient'[sender[t].job] = recipient[sender[t].job]
    <3>1. PICK r \in Recipients : r = sender[t].job BY <1>1, <2>3
    <3>2. r[1] # b BY <1>1, <2>1, <2>3, <3>1
    <3> QED BY <1>3, <3>1, <3>2, CreateMoves DEF OfBroadcasts
  <2>4. HeldAlone => HeldAlone' BY <2>2, <2>3, HoldersStay
  <2> QED BY <1>1, <2>1, <2>4
<1>4. ASSUME NEW s \in Senders, NEW r \in Recipients, Claim(s, r)
      PROVE  faults' >= faults /\ (faults' = 0 => HeldAlone')
  <2>1. faults' = faults BY <1>4 DEF Claim
  <2>2. /\ Alone(s) /\ sender'[s].job = r /\ OneRow(r) /\ recipient[r].status = "PENDING"
        /\ recipient'[r].status = "SENDING" /\ recipient'[r].lease = "live"
    BY <1>4, ClaimMoves
  <2>3. ASSUME HeldAlone PROVE HeldAlone'
    <3>1. \A t \in Senders : Busy(t) => sender[t].job # r BY <2>2, <2>3 DEF HeldAlone
    <3>2. \A t \in Senders \ {s} : /\ sender'[t] = sender[t] /\ (Busy(t)' <=> Busy(t))
                                   /\ Busy(t) => recipient'[sender[t].job] = recipient[sender[t].job]
      BY <1>1, <2>2, <3>1 DEF Alone, OneRow, Busy
    <3>3. ASSUME NEW t \in Senders, Busy(t)'
          PROVE  recipient'[sender'[t].job].status = "SENDING" /\ recipient'[sender'[t].job].lease = "live"
      <4>1. CASE t = s BY <2>2, <4>1
      <4>2. CASE t # s BY <2>3, <3>2, <3>3, <4>2 DEF HeldAlone
      <4> QED BY <4>1, <4>2
    <3>4. ASSUME NEW t \in Senders, NEW u \in Senders, Busy(t)', Busy(u)', sender'[t].job = sender'[u].job
          PROVE  t = u
      <4>1. CASE t # s /\ u # s BY <2>3, <3>2, <3>4, <4>1 DEF HeldAlone
      <4>2. CASE t = s /\ u # s BY <2>2, <3>1, <3>2, <3>4, <4>2
      <4>3. CASE t # s /\ u = s BY <2>2, <3>1, <3>2, <3>4, <4>3
      <4> QED BY <4>1, <4>2, <4>3
    <3> QED BY <3>3, <3>4 DEF HeldAlone
  <2> QED BY <1>1, <2>1, <2>3
<1>5. ASSUME NEW s \in Senders, SenderStep(s) \/ Abort(s), Works(s)
      PROVE  faults' >= faults /\ (faults' = 0 => HeldAlone')
  <2>1. faults' = faults \/ (faults' = faults + 1)
    BY <1>5 DEF SenderStep, Sweep, CheckConsent, Finish, Complete, Claim, SendAccepted, SendRefused,
                Abort, Fault
  <2>2. \A t \in Senders : Busy(t)' => Busy(t) /\ sender'[t].job = sender[t].job
    BY <1>5 DEF Works, Alone, Busy
  <2>3. ASSUME HeldAlone, NEW t \in Senders, Busy(t)'
        PROVE  recipient'[sender[t].job] = recipient[sender[t].job]
    <3>1. PICK r \in Recipients : r = sender[t].job BY <1>1, <2>2, <2>3
    <3>2. /\ recipient[r].lease = "live"
          /\ Busy(s) /\ r = sender[s].job => t = s
      BY <2>2, <2>3, <3>1 DEF HeldAlone
    <3>3. CASE Sweep(s) BY <3>1, <3>2, <3>3, SweepMoves
    <3>4. CASE Finish(s)
      <4>1. sender[s].job \in Recipients /\ OneRow(sender[s].job) /\ ~Busy(s)' /\ Busy(s)
        BY <3>4, FinishMoves DEF Finish, JobsHeld, Busy
      <4>2. r # sender[s].job BY <2>3, <3>2, <4>1
      <4> QED BY <3>1, <4>1, <4>2 DEF OneRow
    <3>5. CASE ~Sweep(s) /\ ~Finish(s)
      <4>1. recipient' = recipient \/ \E q \in Recipients : Claim(s, q)
        BY <1>5, <3>5 DEF SenderStep, CheckConsent, Complete, SendAccepted, SendRefused, Abort, rows
      <4>2. ASSUME NEW q \in Recipients, Claim(s, q) PROVE recipient'[r] = recipient[r]
        BY <1>5, <4>2, ClaimMoves DEF Works, Busy
      <4> QED BY <3>1, <4>1, <4>2
    <3> QED BY <3>3, <3>4, <3>5
  <2>4. HeldAlone => HeldAlone' BY <2>2, <2>3, HoldersStay
  <2> QED BY <1>1, <2>1, <2>4
<1>6. ASSUME NEW r \in Recipients, LeaseRunsOut(r)
      PROVE  faults' >= faults /\ (faults' = 0 => HeldAlone')
  <2>1. sender' = sender /\ OneRow(r) BY <1>6, LeaseMoves DEF LeaseRunsOut
  <2>2. CASE recipient[r].status = "SENDING" /\ InHand(r)
    <3>1. faults' = faults + 1 BY <1>6, <2>2 DEF LeaseRunsOut, Fault
    <3> QED BY <1>1, <3>1
  <2>3. CASE ~(recipient[r].status = "SENDING" /\ InHand(r))
    <3>1. faults' = faults BY <1>6, <2>3 DEF LeaseRunsOut
    <3>2. \A t \in Senders : Busy(t)' => Busy(t) /\ sender'[t].job = sender[t].job
      BY <2>1 DEF Busy
    <3>3. ASSUME HeldAlone, NEW t \in Senders, Busy(t)
          PROVE  recipient'[sender[t].job] = recipient[sender[t].job]
      <4>1. sender[t].job # r BY <2>3, <3>3 DEF HeldAlone, InHand
      <4> QED BY <1>1, <2>1, <3>3, <4>1 DEF OneRow
    <3>4. HeldAlone => HeldAlone' BY <3>2, <3>3, HoldersStay
    <3> QED BY <1>1, <3>1, <3>4
  <2> QED BY <2>2, <2>3
<1> QED BY <1>2, <1>3, <1>4, <1>5, <1>6, Kinds, SenderWorks

-----------------------------------------------------------------------------
(* What is finished stays finished *)

Closed(b) == broadcast[b] = "COMPLETED" => ~Open(b)
Emptied(b) ==
  Over(b) => \A r \in OfBroadcasts({b}) : recipient[r].status = "PENDING" => recipient[r].attempts > 0

LEMMA FinishedParts ==
  FinishedIsFinished <=> (faults = 0 => \A b \in Broadcasts : Closed(b) /\ Emptied(b))
BY DEF FinishedIsFinished, Closed, Emptied, Over

LEMMA FinishedStep ==
  ASSUME Typed, JobsHeld, Drafted, Taken, HeldAlone, Typed', Next,
         \A b \in Broadcasts : Closed(b) /\ Emptied(b)
  PROVE  \A b \in Broadcasts : Closed(b)' /\ Emptied(b)'
<1> SUFFICES ASSUME NEW b \in Broadcasts PROVE Closed(b)' /\ Emptied(b)'
  OBVIOUS
<1> USE DEF Closed, Emptied, Open
<1>1. /\ OfBroadcasts({b}) = {r \in Recipients : r[1] = b}
      /\ \A r \in Recipients : r[1] \in Broadcasts
  BY Fields DEF OfBroadcasts
<1>2. CASE Quiet
  <2>1. broadcast'[b] = "COMPLETED" => broadcast[b] = "COMPLETED" BY <1>2 DEF Quiet, Lasting
  <2>2. \A r \in Recipients : recipient'[r] = recipient[r] \/ recipient'[r].status = "SKIPPED"
    BY <1>2 DEF Quiet
  <2>3. Closed(b)' BY <1>1, <2>1, <2>2
  <2>4. Over(b)' => Over(b) \/ \A r \in Recipients : r[1] = b => recipient'[r].status # "PENDING"
    BY <1>2 DEF Quiet, Lasting
  <2>5. Emptied(b)' BY <1>1, <2>2, <2>4
  <2> QED BY <2>3, <2>5
<1>3. ASSUME NEW a \in Broadcasts, Create(a) PROVE Closed(b)' /\ Emptied(b)'
  <2>1. /\ \A r \in Recipients : r[1] # a => recipient'[r] = recipient[r]
        /\ broadcast'[a] \in {"PENDING_APPROVAL", "SENDING"}
        /\ a # b => broadcast'[b] = broadcast[b]
    BY <1>3, CreateMoves DEF OfBroadcasts
  <2>2. skipping' = skipping BY <1>3 DEF Create
  <2> QED BY <1>1, <2>1, <2>2 DEF Over
<1>4. ASSUME NEW s \in Senders, NEW q \in Recipients, Claim(s, q) PROVE Closed(b)' /\ Emptied(b)'
  <2>1. OneRow(q) /\ broadcast[q[1]] = "SENDING" /\ recipient'[q].status = "SENDING"
    BY <1>4, ClaimMoves
  <2>2. UNCHANGED <<broadcast, skipping>> BY <1>4 DEF Claim, office
  <2> QED BY <1>1, <2>1, <2>2 DEF Over, OneRow
<1>5. ASSUME NEW s \in Senders, SenderStep(s) \/ Abort(s), Works(s) PROVE Closed(b)' /\ Emptied(b)'
  <2>1. skipping' = skipping
    BY <1>5 DEF SenderStep, Sweep, CheckConsent, Finish, Complete, Claim, SendAccepted, SendRefused,
                Abort, office
  <2>2. /\ Over(b)' => Over(b)
        /\ \/ broadcast'[b] = broadcast[b]
           \/ recipient' = recipient /\ ~Open(b)
    <3>1. CASE Complete(s) BY <2>1, <3>1 DEF Complete, Over
    <3>2. CASE ~Complete(s)
      <4>1. broadcast' = broadcast
        BY <1>5, <3>2 DEF SenderStep, Sweep, CheckConsent, Finish, Claim, SendAccepted,
                          SendRefused, Abort, rows
      <4> QED BY <2>1, <4>1 DEF Over
    <3> QED BY <3>1, <3>2
  <2>3. \A r \in Recipients :
          \/ recipient'[r] = recipient[r]
          \/ recipient[r].status = "SENDING" /\ recipient'[r].attempts = recipient[r].attempts
    BY <1>5 DEF Works, HeldAlone
  <2>4. Closed(b)' BY <1>1, <2>2, <2>3
  <2>5. Emptied(b)' BY <1>1, <2>2, <2>3 DEF Taken
  <2> QED BY <2>4, <2>5
<1>6. ASSUME NEW q \in Recipients, LeaseRunsOut(q) PROVE Closed(b)' /\ Emptied(b)'
  <2>1. \A r \in Recipients : /\ recipient'[r].status = recipient[r].status
                              /\ recipient'[r].attempts = recipient[r].attempts
    BY <1>6, LeaseMoves DEF OneRow
  <2>2. UNCHANGED <<broadcast, skipping>> BY <1>6 DEF LeaseRunsOut, office
  <2> QED BY <1>1, <2>1, <2>2 DEF Over
<1> QED BY <1>2, <1>3, <1>4, <1>5, <1>6, Kinds, SenderWorks

-----------------------------------------------------------------------------
(* An opt-out is respected *)

LEMMA SendingIsFinite ==
  ASSUME NEW c
  PROVE  /\ IsFiniteSet(Sending(c)) /\ Cardinality(Sending(c)) \in Nat
         /\ Cardinality(Senders) \in Nat /\ Cardinality(Sending(c)) <= Cardinality(Senders)
<1>1. Sending(c) \subseteq Senders BY DEF Sending
<1> QED BY <1>1, SendersAssumption, FS_Subset, FS_CardinalityType

\* Whom it does not concern has an opt-out as before.
LEMMA OptOutStays ==
  ASSUME Typed, Typed', NEW c \in Customers, OptOut(c), late'[c] = late[c],
         consent[c] = "OPTED_OUT" => consent'[c] = "OPTED_OUT" /\ Sending(c)' \subseteq Sending(c)
  PROVE  OptOut(c)'
<1>1. late[c] \in Nat /\ late'[c] \in Nat BY DEF Typed, SendersTyped
<1>2. /\ IsFiniteSet(Sending(c)) /\ Cardinality(Sending(c)) \in Nat /\ Cardinality(Senders) \in Nat
      /\ Cardinality(Sending(c)) <= Cardinality(Senders)
  BY SendingIsFinite
<1>3. Cardinality(Sending(c)') \in Nat /\ Cardinality(Sending(c)') <= Cardinality(Senders)
  <2>1. Sending(c)' \subseteq Senders BY DEF Sending
  <2> QED BY <2>1, SendersAssumption, FS_Subset, FS_CardinalityType
<1>4. CASE consent[c] = "OPTED_OUT"
  <2>1. Cardinality(Sending(c)') <= Cardinality(Sending(c)) BY <1>2, <1>4, FS_Subset
  <2> QED BY <1>1, <1>2, <1>3, <1>4, <2>1 DEF OptOut
<1>5. CASE consent[c] # "OPTED_OUT"
  <2>1. late'[c] = 0 BY <1>5 DEF OptOut
  <2> QED BY <1>2, <1>3, <2>1 DEF OptOut
<1> QED BY <1>4, <1>5

LEMMA OptOutStep ==
  ASSUME Typed, JobsHeld, Drafted, Typed', Next, NEW c \in Customers, OptOut(c)
  PROVE  OptOut(c)'
<1>1. CASE Quiet
  <2>1. sender' = sender /\ late' = late BY <1>1 DEF Quiet
  <2>2. consent[c] = "OPTED_OUT" => consent'[c] = "OPTED_OUT" BY <1>1 DEF Quiet, Lasting
  <2>3. Sending(c)' = Sending(c) BY <2>1 DEF Sending
  <2> QED BY <2>1, <2>2, <2>3, OptOutStays
<1>2. ASSUME UNCHANGED <<consent, late, sender>> PROVE OptOut(c)'
  <2>1. Sending(c)' = Sending(c) BY <1>2 DEF Sending
  <2> QED BY <1>2, <2>1, OptOutStays
<1>3. ASSUME NEW s \in Senders, UNCHANGED <<consent, late>>, Alone(s), sender'[s].pc # "send"
      PROVE  OptOut(c)'
  <2>1. Sending(c)' \subseteq Sending(c) BY <1>3 DEF Sending, Alone
  <2> QED BY <1>3, <2>1, OptOutStays
<1>4. ASSUME NEW b \in Broadcasts, Create(b) PROVE OptOut(c)'
  BY <1>2, <1>4 DEF Create, people, ghosts
<1>5. ASSUME NEW s \in Senders, SenderStep(s) \/ Abort(s) PROVE OptOut(c)'
  <2>1. consent' = consent
    BY <1>5 DEF SenderStep, Sweep, CheckConsent, Finish, Complete, Claim, SendAccepted, SendRefused,
                Abort, people
  <2>2. CASE Sweep(s) \/ Finish(s) \/ Complete(s) \/ Abort(s)
    <3>1. late' = late BY <2>2 DEF Sweep, Finish, Complete, Abort, ghosts
    <3>2. Alone(s) /\ sender'[s].pc # "send"
      BY <2>2, SweepMoves, FinishMoves, GotoMoves DEF Complete, Abort
    <3> QED BY <1>3, <2>1, <3>1, <3>2
  <2>3. ASSUME NEW r \in Recipients, Claim(s, r) PROVE OptOut(c)'
    <3>1. late' = late /\ Alone(s) /\ sender'[s].pc # "send" BY <2>3, ClaimMoves DEF Claim, ghosts
    <3> QED BY <1>3, <2>1, <3>1
  <2>4. ASSUME NEW outcome \in {"retryable", "FAILED"}, SendRefused(s, outcome) PROVE OptOut(c)'
    <3>1. late' = late /\ Alone(s) /\ sender'[s].pc # "send"
      BY <2>4, AfterSendMoves DEF SendRefused, ghosts
    <3> QED BY <1>3, <2>1, <3>1
  <2>5. CASE CheckConsent(s)
    <3>1. late' = late BY <2>5 DEF CheckConsent, ghosts
    <3>2. /\ Alone(s) /\ sender'[s].job = sender[s].job
          /\ sender'[s].pc = "send" => consent[sender[s].job[2]] = "OPTED_IN"
      BY <2>5, CheckMoves
    <3>3. consent[c] = "OPTED_OUT" => Sending(c)' \subseteq Sending(c)
      BY <3>2 DEF Sending, Alone
    <3> QED BY <2>1, <3>1, <3>3, OptOutStays
  <2>6. ASSUME NEW lost \in BOOLEAN, SendAccepted(s, lost) PROVE OptOut(c)'
    <3> DEFINE d == sender[s].job[2]
    <3>1. /\ Alone(s) /\ sender[s].pc = "send" /\ sender'[s].pc = "finish" /\ d \in Customers
          /\ late'[d] = late[d] + (IF consent[d] = "OPTED_OUT" THEN 1 ELSE 0)
          /\ \A e \in Customers \ {d} : late'[e] = late[e]
      BY <2>6, SendMoves
    <3>2. Sending(c)' \subseteq Sending(c) BY <3>1 DEF Sending, Alone
    <3>3. CASE c # d BY <2>1, <3>1, <3>2, <3>3, OptOutStays
    <3>4. CASE c = d /\ consent[c] # "OPTED_OUT"
      <4>1. late'[c] = late[c] BY <3>1, <3>4, Fields
      <4> QED BY <2>1, <3>4, <4>1, OptOutStays
    <3>5. CASE c = d /\ consent[c] = "OPTED_OUT"
      <4>1. s \in Sending(c) BY <3>1, <3>5 DEF Sending
      <4>2. Sending(c)' = Sending(c) \ {s} BY <3>1 DEF Sending, Alone
      <4>3. /\ IsFiniteSet(Sending(c)) /\ Cardinality(Sending(c)) \in Nat
            /\ Cardinality(Senders) \in Nat
        BY SendingIsFinite
      <4>4. Cardinality(Sending(c)') = Cardinality(Sending(c)) - 1
        BY <4>1, <4>2, <4>3, FS_RemoveElement
      <4>5. late[c] \in Nat /\ late'[c] = late[c] + 1 BY <3>1, <3>5, Fields
      <4>6. late[c] + Cardinality(Sending(c)) <= Cardinality(Senders) BY <3>5 DEF OptOut
      <4>7. late'[c] + Cardinality(Sending(c)') <= Cardinality(Senders)
        BY <4>3, <4>4, <4>5, <4>6
      <4> QED BY <2>1, <3>5, <4>7 DEF OptOut
    <3> QED BY <3>3, <3>4, <3>5
  <2> QED BY <1>5, <2>2, <2>3, <2>4, <2>5, <2>6 DEF SenderStep
<1>6. ASSUME NEW r \in Recipients, LeaseRunsOut(r) PROVE OptOut(c)'
  BY <1>2, <1>6 DEF LeaseRunsOut, people, ghosts
<1> QED BY <1>1, <1>4, <1>5, <1>6, Kinds

-----------------------------------------------------------------------------
(* Every message too many is paid for by a fault *)

LEMMA HopesAreFinite ==
  ASSUME NEW r
  PROVE  /\ IsFiniteSet(Hopes(r)) /\ Cardinality(Hopes(r)) \in Nat
         /\ IsFiniteSet(Hopes(r)') /\ Cardinality(Hopes(r)') \in Nat
<1>1. Hopes(r) \subseteq Senders /\ Hopes(r)' \subseteq Senders BY DEF Hopes
<1> QED BY <1>1, SendersAssumption, FS_Subset, FS_CardinalityType

LEMMA SendableIsNat ==
  ASSUME Typed, Typed', NEW r \in Recipients
  PROVE  Sendable(r) \in Nat /\ Sendable(r)' \in Nat
<1>1. accepted[r] \in Nat /\ accepted'[r] \in Nat BY DEF Typed, SendersTyped
<1> QED BY <1>1, HopesAreFinite DEF Sendable

LEMMA NothingMore ==
  ASSUME Typed, Typed', NEW r \in Recipients, accepted'[r] = accepted[r],
         Hopes(r)' \subseteq Hopes(r), Waiting(r)' => Waiting(r)
  PROVE  Sendable(r)' <= Sendable(r)
<1>1. accepted[r] \in Nat BY Fields
<1>2. /\ Cardinality(Hopes(r)') <= Cardinality(Hopes(r))
      /\ Cardinality(Hopes(r)) \in Nat /\ Cardinality(Hopes(r)') \in Nat
  BY HopesAreFinite, FS_Subset
<1> QED BY <1>1, <1>2 DEF Sendable

LEMMA PromisesKept ==
  ASSUME Typed, Typed', RepeatsPaid, faults' >= faults,
         \A r \in Recipients : Sendable(r)' <= Sendable(r) \/ Sendable(r)' <= 1
  PROVE  RepeatsPaid'
<1>1. Promised' \subseteq Promised
  <2> SUFFICES ASSUME NEW x \in Recipients \X Nat, 2 <= x[2], x[2] <= Sendable(x[1])'
               PROVE  x \in Promised
    BY DEF Promised
  <2>1. x[1] \in Recipients /\ x[2] \in Nat OBVIOUS
  <2>2. Sendable(x[1]) \in Nat /\ Sendable(x[1])' \in Nat BY <2>1, SendableIsNat
  <2>3. Sendable(x[1])' <= Sendable(x[1]) \/ Sendable(x[1])' <= 1 BY <2>1
  <2>4. x[2] <= Sendable(x[1]) BY <2>1, <2>2, <2>3
  <2> QED BY <2>4 DEF Promised
<1>2. /\ IsFiniteSet(Promised') /\ Cardinality(Promised') <= Cardinality(Promised)
      /\ Cardinality(Promised) \in Nat /\ Cardinality(Promised') \in Nat
      /\ Cardinality(Promised) <= faults
  BY <1>1, FS_Subset, FS_CardinalityType DEF RepeatsPaid
<1>3. faults \in Nat /\ faults' \in Nat BY DEF Typed, SendersTyped
<1> QED BY <1>2, <1>3 DEF RepeatsPaid

LEMMA OnePromiseMore ==
  ASSUME Typed, Typed', RepeatsPaid, faults' = faults + 1, NEW r \in Recipients,
         Sendable(r)' <= Sendable(r) + 1,
         \A q \in Recipients \ {r} : Sendable(q)' <= Sendable(q)
  PROVE  RepeatsPaid'
<1> DEFINE more == <<r, Sendable(r) + 1>>
<1>1. Promised' \subseteq Promised \cup {more}
  <2> SUFFICES ASSUME NEW x \in Recipients \X Nat, 2 <= x[2], x[2] <= Sendable(x[1])', x # more
               PROVE  x \in Promised
    BY DEF Promised
  <2>1. x[1] \in Recipients /\ x[2] \in Nat /\ x = <<x[1], x[2]>> OBVIOUS
  <2>2. Sendable(x[1]) \in Nat /\ Sendable(x[1])' \in Nat BY <2>1, SendableIsNat
  <2>3. CASE x[1] = r
    <3>1. x[2] # Sendable(r) + 1 BY <2>1, <2>3
    <3>2. Sendable(r) \in Nat /\ Sendable(r)' \in Nat /\ x[2] <= Sendable(r)' BY <2>2, <2>3, SendableIsNat
    <3>3. x[2] <= Sendable(r) BY <2>1, <3>1, <3>2
    <3> QED BY <2>3, <3>3 DEF Promised
  <2>4. CASE x[1] # r
    <3>1. x[2] <= Sendable(x[1]) BY <2>1, <2>2, <2>4
    <3> QED BY <3>1 DEF Promised
  <2> QED BY <2>3, <2>4
<1> HIDE DEF more
<1>2. /\ IsFiniteSet(Promised) /\ Cardinality(Promised) \in Nat /\ Cardinality(Promised) <= faults
  BY FS_CardinalityType DEF RepeatsPaid
<1>3. /\ IsFiniteSet(Promised \cup {more})
      /\ Cardinality(Promised \cup {more}) \in Nat
      /\ Cardinality(Promised \cup {more}) <= Cardinality(Promised) + 1
  <2>1. /\ IsFiniteSet(Promised \cup {more})
        /\ Cardinality(Promised \cup {more}) =
             IF more \in Promised THEN Cardinality(Promised) ELSE Cardinality(Promised) + 1
    BY <1>2, FS_AddElement, Zenon
  <2> QED BY <1>2, <2>1
<1>4. /\ IsFiniteSet(Promised') /\ Cardinality(Promised') \in Nat
      /\ Cardinality(Promised') <= Cardinality(Promised \cup {more})
  BY <1>1, <1>3, FS_Subset, FS_CardinalityType
<1>5. faults \in Nat BY DEF Typed, SendersTyped
<1> QED BY <1>2, <1>3, <1>4, <1>5 DEF RepeatsPaid

\* A sender that keeps its job: whoever else has a row has it still.
LEMMA HandsKept ==
  ASSUME NEW s \in Senders, Alone(s), NEW r, sender'[s].job = sender[s].job
  PROVE  InHand(r)' <=> InHand(r)
BY DEF InHand, Alone

LEMMA OthersInHand ==
  ASSUME NEW s \in Senders, Alone(s), NEW r, sender[s].job # r, sender'[s].job # r
  PROVE  (InHand(r)' <=> InHand(r)) /\ Hopes(r)' = Hopes(r)
BY DEF InHand, Alone, Hopes

LEMMA PaidStep ==
  ASSUME Typed, JobsHeld, Drafted, Taken, RepeatsPaid, Typed', JobsHeld', Next
  PROVE  RepeatsPaid'
<1>0. /\ faults \in Nat
      /\ \A t \in Senders : Busy(t) => sender[t].job \in Recipients /\ broadcast[sender[t].job[1]] # "NONE"
      /\ \A t \in Senders : ~Busy(t) => sender[t].job = NoJob
      /\ NoJob \notin Recipients
  BY NoJobIsNone DEF Typed, SendersTyped, JobsHeld, Taken
<1>1. CASE Quiet
  <2>1. sender' = sender /\ accepted' = accepted /\ faults' >= faults BY <1>1 DEF Quiet
  <2>2. ASSUME NEW r \in Recipients PROVE Sendable(r)' <= Sendable(r)
    <3>1. Hopes(r)' = Hopes(r) /\ (InHand(r)' <=> InHand(r)) BY <2>1 DEF Hopes, InHand
    <3>2. Waiting(r)' => Waiting(r) BY <1>1, <3>1 DEF Quiet, Waiting
    <3> QED BY <2>1, <3>1, <3>2, NothingMore
  <2> QED BY <2>1, <2>2, PromisesKept
<1>2. ASSUME NEW b \in Broadcasts, Create(b) PROVE RepeatsPaid'
  <2>1. UNCHANGED <<sender, accepted, faults>> /\ broadcast[b] = "NONE"
    <3>1. draft[b].pc = "selected" /\ UNCHANGED <<sender, accepted, faults>> BY <1>2 DEF Create, ghosts
    <3> QED BY <3>1, RowsStart
  <2>2. ASSUME NEW r \in Recipients PROVE Sendable(r)' <= Sendable(r) \/ Sendable(r)' <= 1
    <3>1. Hopes(r)' = Hopes(r) /\ (InHand(r)' <=> InHand(r)) BY <2>1 DEF Hopes, InHand
    <3>2. CASE r[1] # b
      <4>1. recipient'[r] = recipient[r] BY <1>2, <3>2, CreateMoves DEF OfBroadcasts
      <4>2. Waiting(r)' => Waiting(r) BY <3>1, <4>1 DEF Waiting
      <4> QED BY <2>1, <3>1, <4>2, NothingMore
    <3>3. CASE r[1] = b
      <4>1. accepted'[r] = 0 BY <2>1, <3>3, RowsStart
      <4>2. Hopes(r) = {}
        <5>1. \A t \in Senders : Busy(t) => sender[t].job # r BY <1>0, <2>1, <3>3
        <5> QED BY <5>1 DEF Hopes, Busy
      <4>3. Cardinality(Hopes(r)') = 0 BY <3>1, <4>2, FS_EmptySet
      <4> QED BY <4>1, <4>3 DEF Sendable
    <3> QED BY <3>2, <3>3
  <2> QED BY <1>0, <2>1, <2>2, PromisesKept
<1>3. ASSUME NEW s \in Senders, NEW r \in Recipients, Claim(s, r) PROVE RepeatsPaid'
  <2>1. /\ Alone(s) /\ sender[s].pc = "claim" /\ sender'[s].pc = "check" /\ sender'[s].job = r
        /\ OneRow(r) /\ recipient[r].status = "PENDING"
        /\ recipient'[r].status = "SENDING" /\ recipient'[r].lease = "live"
    BY <1>3, ClaimMoves
  <2>2. UNCHANGED <<accepted, faults>> BY <1>3 DEF Claim, ghosts
  <2>3. sender[s].job = NoJob BY <1>0, <2>1 DEF Busy
  <2>4. Sendable(r)' <= Sendable(r)
    <3>1. s \notin Hopes(r) /\ Hopes(r)' = Hopes(r) \cup {s}
      BY <1>0, <2>1, <2>3 DEF Hopes, Alone
    <3>2. Waiting(r) /\ ~Waiting(r)'
      <4>1. InHand(r)' BY <2>1 DEF InHand
      <4> QED BY <2>1, <4>1 DEF Waiting
    <3>3. Cardinality(Hopes(r)') = Cardinality(Hopes(r)) + 1 /\ Cardinality(Hopes(r)) \in Nat
      BY <3>1, HopesAreFinite, FS_AddElement
    <3>4. accepted[r] \in Nat BY Fields
    <3> QED BY <2>2, <3>2, <3>3, <3>4 DEF Sendable
  <2>5. ASSUME NEW q \in Recipients \ {r} PROVE Sendable(q)' <= Sendable(q)
    <3>1. (InHand(q)' <=> InHand(q)) /\ Hopes(q)' = Hopes(q) BY <1>0, <2>1, <2>3, OthersInHand
    <3>2. Waiting(q)' => Waiting(q) BY <2>1, <3>1 DEF Waiting, OneRow
    <3> QED BY <2>2, <3>1, <3>2, NothingMore
  <2> QED BY <1>0, <2>2, <2>4, <2>5, PromisesKept
<1>4. ASSUME NEW s \in Senders, Sweep(s) \/ Complete(s) PROVE RepeatsPaid'
  <2>1. /\ Alone(s) /\ sender'[s].job = NoJob /\ sender[s].pc \in {"idle", "claim"}
    BY <1>4, SweepMoves, GotoMoves DEF Complete
  <2>2. UNCHANGED <<accepted, faults>> BY <1>4 DEF Sweep, Complete, ghosts
  <2>3. \A r \in Recipients : \/ recipient'[r] = recipient[r]
                              \/ recipient[r].status = "SENDING" /\ recipient[r].lease = "past"
    BY <1>4, SweepMoves DEF Complete
  <2>4. sender[s].job = NoJob BY <1>0, <2>1 DEF Busy
  <2>5. ASSUME NEW q \in Recipients PROVE Sendable(q)' <= Sendable(q)
    <3>1. (InHand(q)' <=> InHand(q)) /\ Hopes(q)' = Hopes(q) BY <1>0, <2>1, <2>4, OthersInHand
    <3>2. Waiting(q)' => Waiting(q) BY <2>3, <3>1 DEF Waiting
    <3> QED BY <2>2, <3>1, <3>2, NothingMore
  <2> QED BY <1>0, <2>2, <2>5, PromisesKept
\* The answer to a question or to a send without a message keeps the job.
<1>5. ASSUME NEW s \in Senders, UNCHANGED <<recipient, accepted, faults>>, Alone(s),
             sender'[s].job = sender[s].job, sender[s].pc \in {"check", "send"}
      PROVE  RepeatsPaid'
  <2>1. ASSUME NEW q \in Recipients PROVE Sendable(q)' <= Sendable(q)
    <3>1. InHand(q)' <=> InHand(q) BY <1>5, HandsKept
    <3>2. Hopes(q)' \subseteq Hopes(q) BY <1>5 DEF Hopes, Alone
    <3>3. Waiting(q)' => Waiting(q) BY <1>5, <3>1 DEF Waiting
    <3> QED BY <1>5, <3>2, <3>3, NothingMore
  <2> QED BY <1>0, <1>5, <2>1, PromisesKept
<1>6. ASSUME NEW s \in Senders, CheckConsent(s) PROVE RepeatsPaid'
  <2>1. Alone(s) /\ sender[s].pc = "check" /\ sender'[s].job = sender[s].job BY <1>6, CheckMoves
  <2>2. UNCHANGED <<recipient, accepted, faults>> BY <1>6 DEF CheckConsent, rows, ghosts
  <2> QED BY <1>5, <2>1, <2>2
<1>7. ASSUME NEW s \in Senders, NEW outcome \in {"retryable", "FAILED"}, SendRefused(s, outcome)
      PROVE  RepeatsPaid'
  <2>1. Alone(s) /\ sender[s].pc = "send" /\ sender'[s].job = sender[s].job
    BY <1>7, AfterSendMoves DEF SendRefused
  <2>2. UNCHANGED <<recipient, accepted, faults>> BY <1>7 DEF SendRefused, rows, ghosts
  <2> QED BY <1>5, <2>1, <2>2
<1>8. ASSUME NEW s \in Senders, NEW lost \in BOOLEAN, SendAccepted(s, lost) PROVE RepeatsPaid'
  <2>1. PICK r \in Recipients : r = sender[s].job BY <1>8, SendMoves
  <2>2. /\ Alone(s) /\ sender[s].pc = "send" /\ sender'[s].pc = "finish" /\ sender'[s].job = r
        /\ \/ faults' = faults /\ sender'[s].outcome = "SENT"
           \/ faults' = faults + 1
        /\ accepted'[r] = accepted[r] + 1
        /\ \A q \in Recipients \ {r} : accepted'[q] = accepted[q]
    BY <1>8, <2>1, SendMoves
  <2>3. recipient' = recipient BY <1>8 DEF SendAccepted, rows
  <2>4. \A q \in Recipients : (InHand(q)' <=> InHand(q)) /\ (Waiting(q)' <=> Waiting(q))
    BY <2>1, <2>2, <2>3, HandsKept DEF Waiting
  <2>5. \A q \in Recipients \ {r} : Sendable(q)' <= Sendable(q)
    <3> SUFFICES ASSUME NEW q \in Recipients \ {r} PROVE Sendable(q)' <= Sendable(q)
      OBVIOUS
    <3>1. Hopes(q)' = Hopes(q) BY <2>1, <2>2, OthersInHand
    <3> QED BY <2>2, <2>4, <3>1, NothingMore
  <2>6. s \in Hopes(r) BY <2>1, <2>2 DEF Hopes
  <2>7. accepted[r] \in Nat /\ Cardinality(Hopes(r)) \in Nat /\ Cardinality(Hopes(r)') \in Nat
    BY Fields, HopesAreFinite
  <2>8. CASE faults' = faults /\ sender'[s].outcome = "SENT"
    <3>1. Hopes(r)' = Hopes(r) \ {s} BY <2>2, <2>8 DEF Hopes, Alone
    <3>2. Cardinality(Hopes(r)') = Cardinality(Hopes(r)) - 1
      BY <2>6, <3>1, HopesAreFinite, FS_RemoveElement
    <3>3. Sendable(r)' <= Sendable(r) BY <2>2, <2>4, <2>7, <3>2 DEF Sendable
    <3> QED BY <1>0, <2>5, <2>8, <3>3, PromisesKept
  <2>9. CASE faults' = faults + 1
    <3>1. Hopes(r)' \subseteq Hopes(r) BY <2>1, <2>2 DEF Hopes, Alone
    <3>2. Cardinality(Hopes(r)') <= Cardinality(Hopes(r)) BY <3>1, HopesAreFinite, FS_Subset
    <3>3. Sendable(r)' <= Sendable(r) + 1 BY <2>2, <2>4, <2>7, <3>2 DEF Sendable
    <3> QED BY <2>5, <2>9, <3>3, OnePromiseMore
  <2> QED BY <2>2, <2>8, <2>9
<1>9. ASSUME NEW s \in Senders, Finish(s) PROVE RepeatsPaid'
  <2>1. PICK r \in Recipients : r = sender[s].job BY <1>9 DEF Finish, JobsHeld, Busy
  <2>2. /\ Alone(s) /\ sender[s].pc = "finish" /\ sender'[s].job = NoJob /\ OneRow(r)
        /\ \/ sender[s].outcome = "retryable" /\ recipient'[r].status = "PENDING"
           \/ recipient'[r].status \in {"SENT", "SKIPPED", "FAILED"}
    BY <1>9, <2>1, FinishMoves
  <2>3. UNCHANGED <<accepted, faults>> BY <1>9 DEF Finish, ghosts
  <2>4. Hopes(r)' = Hopes(r) \ {s} BY <1>0, <2>1, <2>2 DEF Hopes, Alone
  <2>5. ASSUME NEW q \in Recipients \ {r} PROVE Sendable(q)' <= Sendable(q)
    <3>1. (InHand(q)' <=> InHand(q)) /\ Hopes(q)' = Hopes(q) BY <1>0, <2>1, <2>2, OthersInHand
    <3>2. Waiting(q)' => Waiting(q) BY <2>2, <3>1 DEF Waiting, OneRow
    <3> QED BY <2>3, <3>1, <3>2, NothingMore
  <2>6. Sendable(r)' <= Sendable(r)
    <3>1. CASE sender[s].outcome = "retryable" /\ recipient'[r].status = "PENDING"
      <4>1. s \in Hopes(r) BY <2>1, <2>2, <3>1 DEF Hopes
      <4>2. /\ Cardinality(Hopes(r)') = Cardinality(Hopes(r)) - 1
            /\ Cardinality(Hopes(r)) \in Nat
        BY <2>4, <4>1, HopesAreFinite, FS_RemoveElement
      <4>3. accepted[r] \in Nat BY Fields
      <4> QED BY <2>3, <4>2, <4>3 DEF Sendable
    <3>2. CASE recipient'[r].status \in {"SENT", "SKIPPED", "FAILED"}
      <4>1. ~Waiting(r)' BY <3>2 DEF Waiting
      <4> QED BY <2>3, <2>4, <4>1, NothingMore
    <3> QED BY <2>2, <3>1, <3>2
  <2> QED BY <1>0, <2>3, <2>5, <2>6, PromisesKept
<1>10. ASSUME NEW s \in Senders, Abort(s) PROVE RepeatsPaid'
  <2>1. /\ Alone(s) /\ sender'[s].job = NoJob /\ sender'[s].pc = "idle"
        /\ faults' = faults + 1 /\ UNCHANGED <<recipient, accepted>>
    BY <1>10, GotoMoves DEF Abort, Fault, rows, ghosts
  <2>2. ASSUME NEW q \in Recipients, q # sender[s].job PROVE Sendable(q)' <= Sendable(q)
    <3>1. (InHand(q)' <=> InHand(q)) /\ Hopes(q)' = Hopes(q) BY <1>0, <2>1, <2>2, OthersInHand
    <3>2. Waiting(q)' => Waiting(q) BY <2>1, <3>1 DEF Waiting
    <3> QED BY <2>1, <3>1, <3>2, NothingMore
  <2>3. CASE sender[s].job \in Recipients
    <3>1. PICK r \in Recipients : r = sender[s].job BY <2>3
    <3>2. Hopes(r)' \subseteq Hopes(r) BY <2>1 DEF Hopes, Alone
    <3>3. /\ Cardinality(Hopes(r)') <= Cardinality(Hopes(r)) /\ accepted[r] \in Nat
          /\ Cardinality(Hopes(r)) \in Nat /\ Cardinality(Hopes(r)') \in Nat
      BY <3>2, Fields, HopesAreFinite, FS_Subset
    <3>4. Sendable(r)' <= Sendable(r) + 1 BY <2>1, <3>3 DEF Sendable
    <3> QED BY <2>1, <2>2, <3>1, <3>4, OnePromiseMore
  <2>4. CASE sender[s].job \notin Recipients
    <3>1. \A q \in Recipients : Sendable(q)' <= Sendable(q) BY <2>2, <2>4
    <3> QED BY <1>0, <2>1, <3>1, PromisesKept
  <2> QED BY <2>3, <2>4
<1>11. ASSUME NEW r \in Recipients, LeaseRunsOut(r) PROVE RepeatsPaid'
  <2>1. /\ UNCHANGED <<sender, accepted>> /\ OneRow(r) /\ recipient'[r].status = recipient[r].status
    BY <1>11, LeaseMoves DEF LeaseRunsOut, ghosts
  <2>2. \A q \in Recipients : Hopes(q)' = Hopes(q) /\ (InHand(q)' <=> InHand(q))
    BY <2>1 DEF Hopes, InHand
  <2>3. ASSUME NEW q \in Recipients \ {r} PROVE Sendable(q)' <= Sendable(q)
    <3>1. Waiting(q)' => Waiting(q) BY <2>1, <2>2 DEF Waiting, OneRow
    <3> QED BY <2>1, <2>2, <3>1, NothingMore
  <2>4. CASE recipient[r].status = "SENDING" /\ InHand(r)
    <3>1. faults' = faults + 1 BY <1>11, <2>4 DEF LeaseRunsOut, Fault
    <3>2. accepted[r] \in Nat /\ Cardinality(Hopes(r)) \in Nat BY Fields, HopesAreFinite
    <3>3. Sendable(r)' <= Sendable(r) + 1 BY <2>1, <2>2, <3>2 DEF Sendable
    <3> QED BY <2>3, <3>1, <3>3, OnePromiseMore
  <2>5. CASE ~(recipient[r].status = "SENDING" /\ InHand(r))
    <3>1. faults' = faults BY <1>11, <2>5 DEF LeaseRunsOut
    <3>2. Waiting(r)' => Waiting(r) BY <2>1, <2>2, <2>5 DEF Waiting
    <3>3. Sendable(r)' <= Sendable(r) BY <2>1, <2>2, <3>2, NothingMore
    <3> QED BY <1>0, <2>3, <3>1, <3>3, PromisesKept
  <2> QED BY <2>4, <2>5
<1> QED BY <1>1, <1>2, <1>3, <1>4, <1>6, <1>7, <1>8, <1>9, <1>10, <1>11, Kinds DEF SenderStep

\* The messages too many are among those promised.
LEMMA RepeatsArePromised ==
  ASSUME Typed, RepeatsPaid PROVE DuplicatesNeedFaults
<1>1. Repeats \subseteq Promised
  <2> SUFFICES ASSUME NEW x \in Repeats PROVE x \in Promised
    OBVIOUS
  <2>1. PICK r \in Recipients : x \in {r} \X (2..accepted[r]) BY DEF Repeats
  <2>2. accepted[r] \in Nat BY Fields
  <2>3. x = <<r, x[2]>> /\ x[2] \in Nat /\ 2 <= x[2] /\ x[2] <= accepted[r] BY <2>1, <2>2
  <2>4. accepted[r] <= Sendable(r) /\ Sendable(r) \in Nat BY <2>2, HopesAreFinite DEF Sendable
  <2>5. x[1] = r /\ x \in Recipients \X Nat BY <2>3
  <2>6. x[2] <= Sendable(x[1]) BY <2>2, <2>3, <2>4, <2>5
  <2> QED BY <2>3, <2>5, <2>6 DEF Promised
<1>2. /\ IsFiniteSet(Repeats) /\ Cardinality(Repeats) <= Cardinality(Promised)
      /\ Cardinality(Repeats) \in Nat /\ Cardinality(Promised) \in Nat
  BY <1>1, FS_Subset, FS_CardinalityType DEF RepeatsPaid
<1> QED BY <1>2 DEF RepeatsPaid, DuplicatesNeedFaults, Typed, SendersTyped

-----------------------------------------------------------------------------
(* The theorems *)

LEMMA InitInd == Init => BroadcastInd
<1> SUFFICES ASSUME Init PROVE BroadcastInd
  OBVIOUS
<1>1. NoDraft \in Draft /\ NoDraft.pc = "none" BY DEF NoDraft, Draft
<1>2. IdleSender \in SenderState /\ IdleSender.pc = "idle" /\ IdleSender.job = NoJob
  BY DEF IdleSender, SenderState
<1>3. NoRow \in Row /\ NoRow.status = "NONE" BY DEF NoRow, Row
<1>4. /\ known \subseteq Customers /\ stopping = {} /\ stopped = {} /\ template = "APPROVED"
      /\ access = TRUE /\ changes = 0 /\ skipping = {} /\ faults = 0
      /\ consent \in [Customers -> {"NONE", "OPTED_IN", "OPTED_OUT"}]
      /\ \A c \in Customers : consent[c] # "OPTED_OUT"
  BY PeopleAssumption DEF Init
<1>5. /\ draft = [b \in Broadcasts |-> NoDraft] /\ broadcast = [b \in Broadcasts |-> "NONE"]
      /\ recipient = [r \in Recipients |-> NoRow] /\ sender = [s \in Senders |-> IdleSender]
      /\ accepted = [r \in Recipients |-> 0] /\ late = [c \in Customers |-> 0]
  BY DEF Init
<1>6. Typed
  <2>1. PeopleTyped /\ OfficeTyped BY <1>1, <1>4, <1>5 DEF PeopleTyped, OfficeTyped
  <2>2. RowsTyped /\ SendersTyped BY <1>2, <1>3, <1>4, <1>5 DEF RowsTyped, SendersTyped, Statuses
  <2> QED BY <2>1, <2>2 DEF Typed
<1>7. \A s \in Senders : ~Busy(s) /\ sender[s].job = NoJob BY <1>2, <1>5 DEF Busy
<1>8. JobsHeld /\ Taken /\ HeldAlone
  <2>1. \A s \in Senders : sender[s].pc # "finish" BY <1>2, <1>5
  <2>2. \A r \in Recipients : recipient[r].status # "SENDING" BY <1>3, <1>5
  <2> QED BY <1>7, <2>1, <2>2 DEF JobsHeld, Taken, HeldAlone
<1>9. Drafted BY <1>1, <1>5 DEF Drafted, OfBroadcasts
<1>10. FinishedIsFinished BY <1>5 DEF FinishedIsFinished
<1>11. \A c \in Customers : OptOut(c) BY <1>4, <1>5 DEF OptOut
<1>12. RepeatsPaid
  <2>1. ASSUME NEW r \in Recipients PROVE Sendable(r) = 0
    <3>1. Hopes(r) = {} BY <1>7 DEF Hopes, Busy
    <3>2. ~Waiting(r) /\ accepted[r] = 0 BY <1>3, <1>5 DEF Waiting
    <3> QED BY <3>1, <3>2, FS_EmptySet DEF Sendable
  <2>2. Promised = {} BY <2>1 DEF Promised
  <2> QED BY <1>4, <2>2, FS_EmptySet DEF RepeatsPaid
<1> QED BY <1>6, <1>8, <1>9, <1>10, <1>11, <1>12 DEF BroadcastInd

LEMMA StepInd == BroadcastInd /\ [Next]_vars => BroadcastInd'
<1> SUFFICES ASSUME BroadcastInd, [Next]_vars PROVE BroadcastInd'
  OBVIOUS
<1>1. /\ Typed /\ JobsHeld /\ Drafted /\ Taken /\ RepeatsPaid
      /\ faults = 0 => HeldAlone
      /\ \A c \in Customers : OptOut(c)
      /\ faults = 0 => \A b \in Broadcasts : Closed(b) /\ Emptied(b)
  BY FinishedParts DEF BroadcastInd
<1>2. CASE Next
  <2>1. Typed' /\ JobsHeld' BY <1>1, <1>2, TypesStep
  <2>2. Drafted' /\ Taken' BY <1>1, <1>2, <2>1, OnwardStep
  <2>3. faults' >= faults /\ (faults' = 0 => HeldAlone') BY <1>1, <1>2, HeldStep
  <2>4. FinishedIsFinished'
    <3>1. ASSUME faults' = 0 PROVE faults = 0 BY <1>1, <2>3, <3>1 DEF Typed, SendersTyped
    <3>2. ASSUME faults = 0 PROVE \A b \in Broadcasts : Closed(b)' /\ Emptied(b)'
      BY <1>1, <1>2, <2>1, <3>2, FinishedStep
    <3>3. faults' = 0 => \A b \in Broadcasts : Closed(b)' /\ Emptied(b)' BY <3>1, <3>2
    <3> QED BY <3>3 DEF FinishedIsFinished, Closed, Emptied, Over
  <2>5. \A c \in Customers : OptOut(c)' BY <1>1, <1>2, <2>1, OptOutStep
  <2>6. RepeatsPaid' BY <1>1, <1>2, <2>1, PaidStep
  <2> QED BY <2>1, <2>2, <2>3, <2>4, <2>5, <2>6 DEF BroadcastInd
<1>3. CASE UNCHANGED vars
  <2>1. UNCHANGED <<known, consent, stopping, stopped, template, access, changes, draft, skipping,
                    broadcast, recipient, sender, accepted, late, faults>>
    BY <1>3 DEF vars, people, office, rows, ghosts
  <2>2. Typed' BY <1>1, <2>1 DEF Typed, PeopleTyped, OfficeTyped, RowsTyped, SendersTyped
  <2>3. JobsHeld' /\ Drafted' /\ Taken' /\ (faults' = 0 => HeldAlone')
    BY <1>1, <2>1 DEF JobsHeld, Drafted, Taken, HeldAlone, Busy
  <2>4. FinishedIsFinished' BY <2>1 DEF BroadcastInd, FinishedIsFinished, Open
  <2>5. \A c \in Customers : OptOut(c)'
    <3>1. \A c \in Customers : Sending(c)' = Sending(c) BY <2>1 DEF Sending
    <3> QED BY <1>1, <2>1, <3>1 DEF OptOut
  <2>6. RepeatsPaid'
    <3>1. \A r \in Recipients : Sendable(r)' <= Sendable(r)
      <4> SUFFICES ASSUME NEW r \in Recipients PROVE Sendable(r)' <= Sendable(r)
        OBVIOUS
      <4>1. Hopes(r)' = Hopes(r) /\ (InHand(r)' <=> InHand(r)) BY <2>1 DEF Hopes, InHand
      <4>2. Waiting(r)' => Waiting(r) BY <2>1, <4>1 DEF Waiting
      <4> QED BY <1>1, <2>1, <2>2, <4>1, <4>2, NothingMore
    <3>2. faults' >= faults BY <1>1, <2>1 DEF Typed, SendersTyped
    <3> QED BY <1>1, <2>2, <3>1, <3>2, PromisesKept
  <2> QED BY <2>2, <2>3, <2>4, <2>5, <2>6 DEF BroadcastInd
<1> QED BY <1>2, <1>3

\* The invariant holds in every state: a sender has a row it has taken, alone unless a
\* fault has happened; every message that may still go out too many is paid for.
THEOREM BroadcastInductive == Spec => []BroadcastInd
BY InitInd, StepInd, PTL DEF Spec

\* Every variable has its type, and a sender has a job exactly between its claim and its end.
THEOREM BroadcastTypes == Spec => [](Typed /\ JobsHeld)
<1>1. BroadcastInd => Typed /\ JobsHeld BY DEF BroadcastInd
<1> QED BY <1>1, BroadcastInductive, PTL

\* Once an opt-out is recorded, at most one message per process goes out, that of a send
\* that had asked before, whatever is retried, recovered or created afterwards.
THEOREM OptOutsHold == Spec => []OptOutIsRespected
<1>1. BroadcastInd => OptOutIsRespected
  <2> SUFFICES ASSUME BroadcastInd, NEW c \in Customers PROVE late[c] <= Cardinality(Senders)
    BY DEF OptOutIsRespected
  <2>1. OptOut(c) /\ late[c] \in Nat BY Fields DEF BroadcastInd
  <2>2. Cardinality(Sending(c)) \in Nat /\ Cardinality(Senders) \in Nat BY SendingIsFinite
  <2> QED BY <2>1, <2>2 DEF OptOut
<1> QED BY <1>1, BroadcastInductive, PTL

\* A second message of a broadcast to a customer has cost a crash, a lost answer or a lease
\* outlived: claims, sweeps, retries and cancellations alone cannot cause one.
THEOREM RepeatsCostFaults == Spec => []DuplicatesNeedFaults
<1>1. BroadcastInd => DuplicatesNeedFaults BY RepeatsArePromised DEF BroadcastInd
<1> QED BY <1>1, BroadcastInductive, PTL

\* Without faults nobody waits in a completed broadcast, and in one cancelled or rejected
\* only recipients that a sender had taken.
THEOREM FinishedStays == Spec => []FinishedIsFinished
<1>1. BroadcastInd => FinishedIsFinished BY DEF BroadcastInd
<1> QED BY <1>1, BroadcastInductive, PTL

-----------------------------------------------------------------------------
(* The shop: the inductive invariant *)

AnswerKinds == {"none", "fact", "choice", "first", "list", "comparison", "order"}
ContextFields == {"selected", "colour", "size", "viewed", "compared"}

ContextTyped ==
  /\ DOMAIN ctx = ContextFields
  /\ ctx.selected \in Maybe(Products) /\ ctx.viewed \in Seq(Products)
SaidTyped == said.n \in {0, 1} /\ said.kind \in AnswerKinds

\* The product in the context is the one the customer was last told of alone.
Remembers ==
  /\ alone # Unsure => ctx.selected \in {None, alone}
  /\ said.kind = "fact" => ctx.selected = alone

\* The list in the context is the one the customer can see.
Shows ==
  said.kind = "choice" =>
    /\ ctx.selected = None
    /\ DOMAIN said.shown = DOMAIN ctx.viewed
    /\ \A i \in DOMAIN ctx.viewed : said.shown[i].product = ctx.viewed[i]

ShopInd == ContextTyped /\ SaidTyped /\ Remembers /\ Shows

\* What a message is, as far as its interpretation goes.
LEMMA MessageKinds ==
  ASSUME NEW m \in Messages
  PROVE  /\ m.intent \in Questions \cup {"SEARCH", "RECOMMENDATION", "COMPARE"}
         /\ m.about \in {"it", "words", "category", "named", "place", "pair"}
         /\ m.about = "place" => m.what \in Nat \ {0}
         /\ m.about = "named" => m.what \in Products
<1> DEFINE Of(intents, abouts, whats) ==
      m.intent \in intents /\ m.about \in abouts /\ m.what \in whats
<1>1. Cardinality(Products) \in Nat BY CatalogueAssumption, FS_CardinalityType
<1>2. \A intents, abouts, whats, comparatives :
        m \in Message(intents, abouts, whats, comparatives) => Of(intents, abouts, whats)
  BY DEF Message
<1>3. \/ Of(Questions, {"it", "words", "category"}, {None})
      \/ Of(Questions, {"named"}, Products)
      \/ Of(Questions, {"place"}, 1..Cardinality(Products))
      \/ Of({"PRICE"}, {"it", "category"}, {None})
      \/ Of({"PRICE"}, {"named"}, Products)
      \/ Of({"SEARCH", "RECOMMENDATION"}, {"it", "words", "category"}, {None})
      \/ Of({"COMPARE"}, {"it", "pair", "category"}, {None})
      \/ Of({"COMPARE"}, {"named"}, Products)
  <2> HIDE DEF Of
  <2> QED BY <1>2 DEF Messages
<1> QED BY <1>1, <1>3 DEF Questions

\* A search finds a list of products on sale.
LEMMA FoundList ==
  ASSUME NEW colour, NEW size, NEW list \in Found(colour, size)
  PROVE  /\ list \in Seq(OnSale) /\ list \in Seq(Products)
         /\ Len(list) \in Nat /\ DOMAIN list = 1..Len(list)
         /\ \A i \in DOMAIN list : list[i] \in OnSale
<1> DEFINE S == {p \in OnSale : Given(colour, size) => Matching(p, colour, size) # {}}
<1>1. S \subseteq OnSale /\ S \subseteq Products /\ OnSale \subseteq Products BY DEF OnSale
<1>2. Cardinality(S) \in Nat BY <1>1, CatalogueAssumption, FS_Subset, FS_CardinalityType
<1>3. PICK n \in 0..Cardinality(S) : list \in [1..n -> S] BY DEF Found, Lists
<1>4. n \in Nat BY <1>2
<1> HIDE DEF S
<1>5. list \in Seq(S) BY <1>3, <1>4
<1> QED BY <1>1, <1>3, <1>4, <1>5

\* A fact is of the product it is asked of.
LEMMA FactProduct ==
  ASSUME NEW p, NEW colour, NEW size
  PROVE  Fact(p, colour, size).product = p
  BY DEF Fact, Told

LEMMA FactsProducts ==
  ASSUME NEW list, NEW colour, NEW size
  PROVE  /\ DOMAIN Facts(list, colour, size) = DOMAIN list
         /\ \A i \in DOMAIN list : Facts(list, colour, size)[i] = Fact(list[i], colour, size)
  BY DEF Facts

\* The record of an answer.
LEMMA Says ==
  ASSUME NEW m, NEW kind, NEW shown, Answer(m, kind, shown)
  PROVE  said'.n = 1 - said.n /\ said'.kind = kind /\ said'.shown = shown /\ said'.msg = m
  BY DEF Answer

-----------------------------------------------------------------------------
(* The steps of the shop *)

LEMMA SelectedContext ==
  ASSUME ContextTyped, NEW told, NEW colour, NEW size, told.product \in Products,
         NEW c, c = Selecting(told, colour, size)
  PROVE  /\ DOMAIN c = ContextFields /\ c.selected = told.product /\ c.viewed = ctx.viewed
  BY DEF ContextTyped, ContextFields, Selecting

LEMMA OneToldOf ==
  ASSUME ShopInd, NEW m, NEW p \in Products, NEW c1, NEW s1, NEW colour, NEW size,
         TellOne(m, Fact(p, c1, s1), colour, size)
  PROVE  ShopInd'
<1>1. said'.n = 1 - said.n /\ said'.kind = "fact" BY Says DEF TellOne
<1>2. Fact(p, c1, s1).product = p BY FactProduct
<1>3. /\ DOMAIN ctx' = ContextFields /\ ctx'.selected = p /\ ctx'.viewed = ctx.viewed
  BY <1>2, SelectedContext DEF TellOne, ShopInd
<1>4. alone' = p BY <1>2 DEF TellOne
<1> QED BY <1>1, <1>3, <1>4 DEF ShopInd, ContextTyped, SaidTyped, AnswerKinds, Remembers, Shows, Maybe

LEMMA ListOffered ==
  ASSUME ShopInd, NEW m, NEW colour, NEW size, NEW list \in Seq(Products),
         Offer(m, Facts(list, colour, size))
  PROVE  ShopInd'
<1> DEFINE facts == Facts(list, colour, size)
<1>1. said'.n = 1 - said.n /\ said'.kind = "choice" /\ said'.shown = facts BY Says DEF Offer
<1>2. DOMAIN facts = DOMAIN list /\ \A i \in DOMAIN list : facts[i].product = list[i]
  BY FactsProducts, FactProduct
<1> DEFINE viewed == [i \in DOMAIN facts |-> facts[i].product]
<1> HIDE DEF facts
<1>3. viewed = list
  <2>1. viewed = [i \in DOMAIN list |-> list[i]] BY <1>2
  <2> QED BY <2>1
<1>4. ctx' = Deselected(viewed) /\ alone' = alone BY DEF Offer, facts
<1> HIDE DEF viewed
<1>5. DOMAIN ctx' = ContextFields /\ ctx'.selected = None /\ ctx'.viewed = list
  BY <1>3, <1>4 DEF Deselected, EmptyContext, ContextFields
<1> QED BY <1>1, <1>2, <1>4, <1>5
        DEF ShopInd, ContextTyped, SaidTyped, AnswerKinds, Remembers, Shows, Maybe

\* An answer that leaves the context alone, or only its comparison.
LEMMA NothingLearnt ==
  ASSUME ShopInd, NEW m, NEW kind \in AnswerKinds \ {"fact", "choice"}, NEW shown, Answer(m, kind, shown),
         DOMAIN ctx' = ContextFields, ctx'.selected \in {None, ctx.selected},
         ctx'.viewed \in Seq(Products), alone' \in {alone, Unsure}
  PROVE  ShopInd'
<1>1. said'.n = 1 - said.n /\ said'.kind = kind BY Says
<1> QED BY <1>1 DEF ShopInd, ContextTyped, SaidTyped, Remembers, Shows, Maybe

LEMMA NotFoundInd ==
  ASSUME ShopInd, NEW m, NotFound(m)
  PROVE  ShopInd'
<1>1. "none" \in AnswerKinds \ {"fact", "choice"} BY DEF AnswerKinds
<1> QED BY <1>1, NothingLearnt DEF NotFound, ShopInd, ContextTyped

LEMMA SearchInd ==
  ASSUME ShopInd, NEW m \in Messages, Search(m)
  PROVE  ShopInd'
<1>1. PICK list \in Found(Colour(m), Size(m)) :
        LET facts == Facts(list, Colour(m), Size(m)) IN
          IF Len(list) = 1
          THEN /\ Answer(m, "fact", facts) /\ alone' = list[1]
               /\ ctx' = [Deselected(list) EXCEPT !.selected = list[1]]
          ELSE Offer(m, facts)
  BY DEF Search
<1>2. /\ list \in Seq(Products) /\ DOMAIN list = 1..Len(list)
      /\ \A i \in DOMAIN list : list[i] \in OnSale
  BY FoundList
<1>3. CASE Len(list) = 1
  <2>1. list[1] \in Products BY <1>2, <1>3
  <2>2. said'.n = 1 - said.n /\ said'.kind = "fact" BY <1>1, <1>3, Says
  <2>3. alone' = list[1] /\ ctx' = [Deselected(list) EXCEPT !.selected = list[1]] BY <1>1, <1>3
  <2>4. DOMAIN ctx' = ContextFields /\ ctx'.selected = list[1] /\ ctx'.viewed = list
    BY <2>3 DEF Deselected, EmptyContext, ContextFields
  <2> QED BY <1>2, <2>1, <2>2, <2>3, <2>4
          DEF ShopInd, ContextTyped, SaidTyped, AnswerKinds, Remembers, Shows, Maybe
<1>4. CASE Len(list) # 1 BY <1>1, <1>2, <1>4, ListOffered
<1> QED BY <1>3, <1>4

LEMMA RecommendInd ==
  ASSUME ShopInd, NEW m \in Messages, Recommend(m)
  PROVE  ShopInd'
<1>1. CASE NotFound(m) BY <1>1, NotFoundInd
<1>2. ASSUME NEW p \in OnSale, NEW told \in Recommended(p, m.colour, m.size),
             Answer(m, "fact", <<told>>), alone' = p,
             ctx' = [Selecting(told, None, None) EXCEPT
                       !.viewed = IF p \in ToSet(@) THEN @ ELSE Append(@, p)]
      PROVE  ShopInd'
  <2>1. told.product = p BY <1>2 DEF Recommended, Told
  <2>2. p \in Products BY <1>2 DEF OnSale
  <2> DEFINE c == Selecting(told, None, None)
  <2>3. DOMAIN c = ContextFields /\ c.selected = p /\ c.viewed = ctx.viewed
    BY <2>1, <2>2, SelectedContext DEF ShopInd
  <2>a. ctx' = [c EXCEPT !.viewed = IF p \in ToSet(@) THEN @ ELSE Append(@, p)] BY <1>2
  <2> HIDE DEF c
  <2>4. DOMAIN ctx' = ContextFields /\ ctx'.selected = p /\ ctx'.viewed \in Seq(Products)
    <3>1. DOMAIN ctx' = ContextFields /\ ctx'.selected = p
      BY <2>3, <2>a DEF ContextFields
    <3>2. ctx'.viewed \in {ctx.viewed, Append(ctx.viewed, p)} BY <2>3, <2>a DEF ContextFields
    <3>3. Append(ctx.viewed, p) \in Seq(Products) BY <2>2 DEF ShopInd, ContextTyped
    <3> QED BY <3>1, <3>2, <3>3 DEF ShopInd, ContextTyped
  <2>5. said'.n = 1 - said.n /\ said'.kind = "fact" BY <1>2, Says
  <2> QED BY <1>2, <2>2, <2>4, <2>5
          DEF ShopInd, ContextTyped, SaidTyped, AnswerKinds, Remembers, Shows, Maybe
<1> QED BY <1>1, <1>2 DEF Recommend

LEMMA CompareInd ==
  ASSUME ShopInd, NEW m \in Messages, Compare(m)
  PROVE  ShopInd'
<1>1. CASE NotFound(m) BY <1>1, NotFoundInd
<1>2. CASE ~NotFound(m)
  <2>1. PICK facts : /\ Answer(m, "comparison", facts) /\ alone' = alone
                     /\ ctx' = [ctx EXCEPT !.compared =
                                  [i \in DOMAIN facts |-> <<facts[i].product, facts[i].price>>]]
    BY <1>2 DEF Compare
  <2>2. /\ DOMAIN ctx' = ContextFields /\ ctx'.selected = ctx.selected
        /\ ctx'.viewed = ctx.viewed
    BY <2>1 DEF ShopInd, ContextTyped, ContextFields
  <2>3. "comparison" \in AnswerKinds \ {"fact", "choice"} BY DEF AnswerKinds
  <2>4. ctx.viewed \in Seq(Products) BY DEF ShopInd, ContextTyped
  <2> QED BY <2>1, <2>2, <2>3, <2>4, NothingLearnt
<1> QED BY <1>1, <1>2

LEMMA AskProductInd ==
  ASSUME ShopInd, NEW m \in Messages, AskProduct(m)
  PROVE  ShopInd'
<1>1. \E p \in Products : \E colour, size : TellOne(m, Fact(p, colour, size), colour, size)
  BY DEF AskProduct, OnSale
<1> QED BY <1>1, OneToldOf

\* A category, or words that name no product: nothing, one product, or a choice.
LEMMA SeveralCases ==
  ASSUME NEW m, AskSeveral(m)
  PROVE  \/ NotFound(m)
         \/ \E p \in OnSale : \/ TellOne(m, Fact(p, m.colour, m.size), m.colour, m.size)
                              \/ TellOne(m, Fact(p, None, None), m.colour, m.size)
         \/ \E list \in Found(None, None) : Offer(m, Facts(list, None, None))
         \/ \E shown : Answer(m, "first", shown) /\ alone' = Unsure /\ ctx' = ctx
         \/ \E shown : Answer(m, "list", shown) /\ ctx' = ctx /\ alone' = alone
<1> DEFINE asked == m.intent \in {"PRICE", "BUY"}
<1>1. PICK list \in Found(None, None) :
        LET facts == Facts(list, None, None) IN
          CASE list = <<>> -> NotFound(m)
            [] Len(list) = 1 ->
                 TellOne(m, IF asked THEN Fact(list[1], m.colour, m.size) ELSE facts[1],
                         m.colour, m.size)
            [] Len(list) > 1 /\ asked -> Offer(m, facts)
            [] Len(list) > 1 /\ m.intent = "DETAIL" ->
                 Answer(m, "first", <<facts[1]>>) /\ alone' = Unsure /\ UNCHANGED ctx
            [] Len(list) > 1 /\ m.intent = "ATTRIBUTE" ->
                 Answer(m, "list", facts) /\ UNCHANGED <<ctx, alone>>
  BY DEF AskSeveral
<1> DEFINE facts == Facts(list, None, None)
<1>2. /\ Len(list) \in Nat /\ DOMAIN list = 1..Len(list)
      /\ \A i \in DOMAIN list : list[i] \in OnSale
  BY FoundList
<1>3. m.intent \in {"PRICE", "BUY", "DETAIL", "ATTRIBUTE"} BY DEF AskSeveral, Questions
<1>4. (list = <<>>) => Len(list) = 0 OBVIOUS
<1>5. CASE list = <<>> BY <1>1, <1>5
<1>6. CASE Len(list) = 1
  <2>1. list # <<>> /\ list[1] \in OnSale BY <1>2, <1>4, <1>6
  <2>2. TellOne(m, IF asked THEN Fact(list[1], m.colour, m.size) ELSE facts[1], m.colour, m.size)
    BY <1>1, <1>6, <2>1
  <2>3. facts[1] = Fact(list[1], None, None) BY <1>2, <1>6, FactsProducts
  <2> HIDE DEF facts, asked
  <2> QED BY <2>1, <2>2, <2>3
<1>7. CASE Len(list) # 1 /\ Len(list) # 0
  <2>1. list # <<>> /\ Len(list) > 1 BY <1>2, <1>4, <1>7
  <2> QED BY <1>1, <1>3, <1>7, <2>1
<1>8. Len(list) = 0 => list = <<>>
  <2>1. list \in Seq(OnSale) BY FoundList
  <2> QED BY <2>1
<1> QED BY <1>5, <1>6, <1>7, <1>8

LEMMA AskSeveralInd ==
  ASSUME ShopInd, NEW m \in Messages, AskSeveral(m)
  PROVE  ShopInd'
<1>1. /\ DOMAIN ctx = ContextFields /\ ctx.viewed \in Seq(Products) /\ OnSale \subseteq Products
      /\ {"first", "list"} \subseteq AnswerKinds \ {"fact", "choice"}
  BY DEF ShopInd, ContextTyped, AnswerKinds, OnSale
<1>2. CASE NotFound(m) BY <1>2, NotFoundInd
<1>3. ASSUME NEW p \in OnSale,
             \/ TellOne(m, Fact(p, m.colour, m.size), m.colour, m.size)
             \/ TellOne(m, Fact(p, None, None), m.colour, m.size)
      PROVE  ShopInd'
  BY <1>1, <1>3, OneToldOf
<1>4. ASSUME NEW list \in Found(None, None), Offer(m, Facts(list, None, None)) PROVE ShopInd'
  BY <1>4, FoundList, ListOffered
<1>5. ASSUME NEW shown, Answer(m, "first", shown) /\ alone' = Unsure /\ ctx' = ctx PROVE ShopInd'
  BY <1>1, <1>5, NothingLearnt
<1>6. ASSUME NEW shown, Answer(m, "list", shown) /\ ctx' = ctx /\ alone' = alone PROVE ShopInd'
  BY <1>1, <1>6, NothingLearnt
<1> QED BY <1>2, <1>3, <1>4, <1>5, <1>6, SeveralCases

LEMMA OrderInd ==
  ASSUME ShopInd, NEW m \in Messages, Order(m)
  PROVE  ShopInd'
<1>1. ctx' = EmptyContext /\ alone' = alone /\ \E shown : Answer(m, "order", shown) BY DEF Order
<1>2. DOMAIN ctx' = ContextFields /\ ctx'.selected = None /\ ctx'.viewed = <<>>
  BY <1>1 DEF EmptyContext, ContextFields
<1>3. "order" \in AnswerKinds \ {"fact", "choice"} /\ <<>> \in Seq(Products) BY DEF AnswerKinds
<1> QED BY <1>1, <1>2, <1>3, NothingLearnt

LEMMA ShopStep ==
  ASSUME ShopInd, [ShopNext]_shopVars
  PROVE  ShopInd'
<1>1. CASE UNCHANGED shopVars
  BY <1>1 DEF shopVars, ShopInd, ContextTyped, SaidTyped, Remembers, Shows
<1>2. CASE Publish
  BY <1>2 DEF Publish, ShopInd, ContextTyped, SaidTyped, Remembers, Shows
<1>3. CASE Turn
  <2>1. PICK m \in Messages :
          \/ Search(m) \/ Recommend(m) \/ Compare(m)
          \/ AskProduct(m) \/ AskUnknown(m) \/ AskSeveral(m) \/ Order(m)
    BY <1>3 DEF Turn
  <2>2. CASE AskUnknown(m) BY <2>2, NotFoundInd DEF AskUnknown
  <2> QED BY <2>1, <2>2, SearchInd, RecommendInd, CompareInd, AskProductInd, AskSeveralInd, OrderInd
<1> QED BY <1>1, <1>2, <1>3 DEF ShopNext

LEMMA ShopStart == ShopInit => ShopInd
<1> SUFFICES ASSUME ShopInit PROVE ShopInd
  OBVIOUS
<1>1. DOMAIN ctx = ContextFields /\ ctx.selected = None /\ ctx.viewed = <<>>
  BY DEF ShopInit, EmptyContext, ContextFields
<1>2. said.n = 0 /\ said.kind = "none" BY DEF ShopInit, NoAnswer
<1>3. <<>> \in Seq(Products) OBVIOUS
<1> QED BY <1>1, <1>2, <1>3 DEF ShopInd, ContextTyped, SaidTyped, AnswerKinds, Remembers, Shows, Maybe

\* The steps keep what the context remembers: its product is the one told of last, and its
\* list the one on offer.
LEMMA ShopInductive == ShopSpec => []ShopInd
  BY ShopStart, ShopStep, PTL DEF ShopSpec

-----------------------------------------------------------------------------
(* What a turn answers *)

\* Every branch answers the message it was given.
LEMMA AnswersItsMessage ==
  ASSUME NEW m,
         \/ Search(m) \/ Recommend(m) \/ Compare(m)
         \/ AskProduct(m) \/ AskUnknown(m) \/ AskSeveral(m) \/ Order(m)
  PROVE  said'.msg = m
<1>1. ASSUME \E kind, shown : Answer(m, kind, shown) PROVE said'.msg = m BY <1>1, Says
<1>2. ASSUME NotFound(m) PROVE said'.msg = m BY <1>2, Says DEF NotFound
<1>3. ASSUME \E told, colour, size : TellOne(m, told, colour, size) PROVE said'.msg = m
  BY <1>3, Says DEF TellOne
<1>4. ASSUME \E facts : Offer(m, facts) PROVE said'.msg = m BY <1>4, Says DEF Offer
<1>5. CASE Search(m) BY <1>1, <1>4, <1>5 DEF Search
<1>6. CASE Recommend(m) BY <1>1, <1>2, <1>6 DEF Recommend
<1>7. CASE Compare(m) BY <1>1, <1>2, <1>7 DEF Compare
<1>8. CASE AskProduct(m) BY <1>3, <1>8 DEF AskProduct
<1>9. CASE AskUnknown(m) BY <1>2, <1>9 DEF AskUnknown
<1>10. CASE AskSeveral(m) BY <1>10, SeveralCases, Says DEF TellOne, Offer, NotFound
<1>11. CASE Order(m) BY <1>1, <1>11 DEF Order
<1> QED BY <1>5, <1>6, <1>7, <1>8, <1>9, <1>10, <1>11

\* Only questions and orders are plain, and they are no comparisons.
LEMMA PlainTurn ==
  ASSUME ShopNext, Answered, NEW m, m = said'.msg, Plain(m)
  PROVE  /\ m \in Messages
         /\ AskProduct(m) \/ AskUnknown(m) \/ AskSeveral(m) \/ Order(m)
<1>1. Turn BY DEF ShopNext, Publish, Answered
<1>2. PICK n \in Messages :
        \/ Search(n) \/ Recommend(n) \/ Compare(n)
        \/ AskProduct(n) \/ AskUnknown(n) \/ AskSeveral(n) \/ Order(n)
  BY <1>1 DEF Turn
<1>3. n = m BY <1>2, AnswersItsMessage
<1>4. ~Search(m) /\ ~Recommend(m) /\ ~Compare(m)
  BY DEF Plain, Questions, Search, Recommend, Compare, ComparesList, Comparative
<1> QED BY <1>2, <1>3, <1>4

\* The one product told of is one on sale, of the options asked for if it was named.
LEMMA AskedAfresh ==
  ASSUME NEW m, Plain(m), m.about \in {"named", "words"}, AskProduct(m)
  PROVE  \E p \in OnSale : /\ m.about = "named" => p = m.what
                           /\ said'.shown = <<Fact(p, m.colour, m.size)>>
<1> DEFINE target == Target(m)
<1>1. target = IF m.about = "named" THEN m.what ELSE None BY DEF Plain, Target
<1>2. ~Inherits(m) BY DEF Inherits, Explicit
<1>3. OwnOptions(m, target) BY <1>1 DEF OwnOptions
<1>4. LookupColour(m, target) = m.colour /\ LookupSize(m, target) = m.size
  BY <1>2, <1>3 DEF LookupColour, LookupSize, Colour, Size
<1>5. PICK p \in IF m.about = "words" THEN OnSale ELSE {target} \cap OnSale :
        TellOne(m, Fact(p, LookupColour(m, target), LookupSize(m, target)),
                LookupColour(m, target), LookupSize(m, target))
  BY DEF AskProduct
<1>6. p \in OnSale /\ (m.about = "named" => p = m.what) BY <1>1, <1>5
<1>7. TellOne(m, Fact(p, m.colour, m.size), m.colour, m.size) BY <1>4, <1>5
<1> QED BY <1>6, <1>7, Says DEF TellOne

LEMMA NamedStep ==
  ASSUME [ShopNext]_shopVars, Answered, NEW m, m = said'.msg, Plain(m),
         m.about \in {"named", "words"}, said'.kind = "fact"
  PROVE  \E p \in OnSale :
           \/ (m.about = "named" => p = m.what) /\ said'.shown = <<Fact(p, m.colour, m.size)>>
           \/ m.about = "words" /\ said'.shown = <<Fact(p, None, None)>>
<1>1. ShopNext BY DEF Answered, shopVars
<1>2. CASE AskProduct(m) BY <1>2, AskedAfresh
<1>3. CASE AskUnknown(m) BY <1>3, Says DEF AskUnknown, NotFound
<1>4. CASE Order(m)
  <2>1. \E shown : Answer(m, "order", shown) BY <1>4 DEF Order
  <2>2. said'.kind = "order" BY <2>1, Says
  <2> QED BY <2>2
<1>5. CASE AskSeveral(m)
  <2>1. m.about = "words" BY <1>5 DEF AskSeveral
  <2>2. CASE NotFound(m) \/ (\E facts : Offer(m, facts))
             \/ (\E shown : Answer(m, "first", shown) \/ Answer(m, "list", shown))
    <3>1. \E shown : \E kind \in {"none", "choice", "first", "list"} : Answer(m, kind, shown)
      BY <2>2 DEF NotFound, Offer
    <3>2. said'.kind \in {"none", "choice", "first", "list"} BY <3>1, Says
    <3> QED BY <3>2
  <2>3. ASSUME NEW p \in OnSale,
               \/ TellOne(m, Fact(p, m.colour, m.size), m.colour, m.size)
               \/ TellOne(m, Fact(p, None, None), m.colour, m.size)
        PROVE  said'.shown = <<Fact(p, m.colour, m.size)>> \/ said'.shown = <<Fact(p, None, None)>>
    BY <2>3, Says DEF TellOne
  <2> QED BY <1>5, <2>1, <2>2, <2>3, SeveralCases
<1> QED BY <1>1, <1>2, <1>3, <1>4, <1>5, PlainTurn

\* Whatever was talked of before, what is told of a product that the message names or describes
\* is of the options that this message asks for (TurnDecision, resolveProductContext).
THEOREM NamedProductsAreFresh == ShopSpec => NamedProductStartsFresh
<1>1. [ShopNext]_shopVars =>
        [LET m == said'.msg IN
           Answered /\ Plain(m) /\ m.about \in {"named", "words"} /\ said'.kind = "fact" =>
             \E p \in OnSale :
               \/ (m.about = "named" => p = m.what) /\ said'.shown = <<Fact(p, m.colour, m.size)>>
               \/ m.about = "words" /\ said'.shown = <<Fact(p, None, None)>>]_shopVars
  BY NamedStep
<1> QED BY <1>1, PTL DEF ShopSpec, NamedProductStartsFresh

\* A question without a name is about the selected product or the one at a place of the list.
LEMMA FollowUp ==
  ASSUME ShopInd, NEW m \in Messages, Plain(m), m.about \in {"it", "place"},
         NEW told, told = {said'.shown[i].product : i \in DOMAIN said'.shown},
         AskProduct(m) \/ AskUnknown(m)
  PROVE  told = {Target(m)} \cap OnSale /\ said'.kind \in {"fact", "none"}
<1>1. CASE AskProduct(m)
  <2> DEFINE target == Target(m)
  <2>1. PICK p \in {target} \cap OnSale : \E colour, size :
          TellOne(m, Fact(p, colour, size), colour, size)
    BY <1>1 DEF AskProduct
  <2>2. PICK fact : fact.product = p /\ said'.shown = <<fact>> /\ said'.kind = "fact"
    BY <2>1, FactProduct, Says DEF TellOne
  <2>3. told = {p} BY <2>2
  <2> QED BY <2>1, <2>2, <2>3
<1>2. CASE AskUnknown(m)
  <2>1. said'.shown = <<>> /\ said'.kind = "none" /\ Target(m) \notin OnSale
    BY <1>2, Says DEF AskUnknown, NotFound
  <2>2. told = {} BY <2>1
  <2> QED BY <2>1, <2>2
<1> QED BY <1>1, <1>2

\* An order that names nothing is of the selected product.
LEMMA FollowUpOrder ==
  ASSUME NEW m, m.about = "it", Order(m),
         NEW told, told = {said'.shown[i].product : i \in DOMAIN said'.shown}
  PROVE  told \subseteq {ctx.selected} \cap OnSale /\ said'.kind = "order"
<1>1. \/ \E p \in {ctx.selected} \cap OnSale : \E c, s : Answer(m, "order", <<Fact(p, c, s)>>)
      \/ Answer(m, "order", <<>>)
  BY DEF Order
<1>2. CASE Answer(m, "order", <<>>)
  <2>1. said'.shown = <<>> /\ said'.kind = "order" BY <1>2, Says
  <2> QED BY <2>1
<1>3. ASSUME NEW p \in {ctx.selected} \cap OnSale, NEW fact, fact.product = p,
             Answer(m, "order", <<fact>>)
      PROVE  told \subseteq {ctx.selected} \cap OnSale /\ said'.kind = "order"
  <2>1. said'.shown = <<fact>> /\ said'.kind = "order" BY <1>3, Says
  <2> QED BY <1>3, <2>1
<1> QED BY <1>1, <1>2, <1>3, FactProduct

LEMMA FollowUpStep ==
  ASSUME ShopInd, [ShopNext]_shopVars, Answered, NEW m, m = said'.msg, Plain(m),
         NEW told, told = {said'.shown[i].product : i \in DOMAIN said'.shown}
  PROVE  /\ m.about = "it" /\ alone # Unsure =>
              /\ told \subseteq {alone}
              /\ said.kind = "fact" /\ said'.kind # "order" => told = {alone} \cap OnSale
         /\ m.about = "place" /\ said.kind = "choice" /\ said'.kind # "order" =>
              told = {said.shown[i].product : i \in DOMAIN said.shown \cap {m.what}} \cap OnSale
<1>0. ShopNext BY DEF Answered, shopVars
<1>1. /\ m \in Messages
      /\ m.about \in {"it", "place"} => AskProduct(m) \/ AskUnknown(m) \/ Order(m)
  BY <1>0, PlainTurn DEF AskSeveral
<1>n. None \notin OnSale BY NoneAssumption DEF OnSale
<1>2. ASSUME m.about = "it", alone # Unsure
      PROVE  /\ told \subseteq {alone}
             /\ said.kind = "fact" /\ said'.kind # "order" => told = {alone} \cap OnSale
  <2>1. Target(m) = ctx.selected BY <1>2 DEF Target, Plain
  <2>2. ctx.selected \in {None, alone} /\ (said.kind = "fact" => ctx.selected = alone)
    BY <1>2 DEF ShopInd, Remembers
  <2>3. CASE AskProduct(m) \/ AskUnknown(m)
    <3>1. told = {ctx.selected} \cap OnSale BY <1>1, <1>2, <2>1, <2>3, FollowUp
    <3> QED BY <1>n, <2>2, <3>1
  <2>4. CASE Order(m)
    <3>1. told \subseteq {ctx.selected} \cap OnSale /\ said'.kind = "order"
      BY <1>2, <2>4, FollowUpOrder
    <3> QED BY <1>n, <2>2, <3>1
  <2> QED BY <1>1, <1>2, <2>3, <2>4
<1>3. ASSUME m.about = "place", said.kind = "choice", said'.kind # "order"
      PROVE  told = {said.shown[i].product : i \in DOMAIN said.shown \cap {m.what}} \cap OnSale
  <2>1. AskProduct(m) \/ AskUnknown(m)
    <3>1. Order(m) => said'.kind = "order" BY Says DEF Order
    <3> QED BY <1>1, <1>3, <3>1
  <2>2. told = {Target(m)} \cap OnSale BY <1>1, <1>3, <2>1, FollowUp
  <2>3. m.what \in Nat \ {0} BY <1>1, <1>3, MessageKinds
  <2>4. /\ ctx.selected = None /\ ctx.viewed \in Seq(Products)
        /\ DOMAIN said.shown = DOMAIN ctx.viewed
        /\ \A i \in DOMAIN ctx.viewed : said.shown[i].product = ctx.viewed[i]
    BY <1>3 DEF ShopInd, Shows, ContextTyped
  <2>5. DOMAIN ctx.viewed = 1..Len(ctx.viewed) /\ Len(ctx.viewed) \in Nat BY <2>4
  <2>6. Target(m) = IF ctx.viewed # <<>>
                    THEN IF m.what <= Len(ctx.viewed) THEN ctx.viewed[m.what] ELSE None
                    ELSE ctx.selected
    BY <1>3 DEF Target, Plain
  <2>7. CASE m.what \in DOMAIN said.shown
    <3>1. m.what <= Len(ctx.viewed) /\ ctx.viewed # <<>> BY <2>3, <2>4, <2>5, <2>7
    <3>2. Target(m) = said.shown[m.what].product BY <2>4, <2>6, <2>7, <3>1
    <3>3. {said.shown[i].product : i \in DOMAIN said.shown \cap {m.what}} = {Target(m)}
      BY <2>7, <3>2
    <3> QED BY <2>2, <3>3
  <2>8. CASE m.what \notin DOMAIN said.shown
    <3>1. ~(m.what <= Len(ctx.viewed)) BY <2>3, <2>4, <2>5, <2>8
    <3>2. Target(m) = None BY <2>4, <2>6, <3>1
    <3>3. {said.shown[i].product : i \in DOMAIN said.shown \cap {m.what}} = {} BY <2>8
    <3> QED BY <1>n, <2>2, <3>2, <3>3
  <2> QED BY <2>7, <2>8
<1> QED BY <1>2, <1>3

\* A message that names nothing is answered about the product told of last or about none, and
\* "the second one" of a list on offer is the second of that list, whatever was published
\* in between (Target, resolveProductContext).
THEOREM FollowUpsKeepTheProduct == ShopSpec => FollowUpKeepsTheProduct
<1>1. ShopInd /\ [ShopNext]_shopVars =>
        [LET m == said'.msg
             told == {said'.shown[i].product : i \in DOMAIN said'.shown}
         IN Answered /\ Plain(m) =>
              /\ m.about = "it" /\ alone # Unsure =>
                   /\ told \subseteq {alone}
                   /\ said.kind = "fact" /\ said'.kind # "order" => told = {alone} \cap OnSale
              /\ m.about = "place" /\ said.kind = "choice" /\ said'.kind # "order" =>
                   told = {said.shown[i].product : i \in DOMAIN said.shown \cap {m.what}}
                            \cap OnSale]_shopVars
  BY FollowUpStep
<1> QED BY <1>1, ShopStart, ShopStep, PTL DEF ShopSpec, FollowUpKeepsTheProduct
=============================================================================
