-------------------------- MODULE MerchantOutbound --------------------------
(***************************************************************************)
(* The queue of manual merchant messages: PostgresOutboundQueue and          *)
(* WhatsAppOutboundWorker (WhatsAppOutboundQueue.ts), together with the      *)
(* receipts of what it sends.  There is one message row and one              *)
(* "WhatsAppOutboundJob" row per message, and the number of the message is   *)
(* the order of createdAt.                                                   *)
(*                                                                           *)
(* Unlike the inbound queue this one has no heartbeat, no SENDING mark and   *)
(* no fence: completeJob and failJob write by job id alone.  `expired` says  *)
(* that lockedAt is older than leaseSeconds.  A send takes less than a lease *)
(* unless the handler is held up, which is the fault "stall".                *)
(***************************************************************************)
EXTENDS DeliveryReceipts

CONSTANTS
  Slots,       \* concurrent calls of the handler: polls may overlap
  Process,     \* Slots -> the process a call runs in
  MaxAttempts, \* the row's maxAttempts
  MaxSends     \* bound on the ids the provider gives out for one message

ASSUME MerchantAssumption ==
  /\ Messages \subseteq Nat \ {0} /\ Ids = Messages \X (1..MaxSends)
  /\ \A id \in Ids : Owner[id] = id[1]
ASSUME SlotsAssumption == \A s \in Slots : Process[s] \in Processes
ASSUME AttemptsAssumption == MaxAttempts \in Nat \ {0} /\ MaxSends \in Nat

VARIABLES
  job,      \* the job table
  slot,     \* the calls of the handler
  sends,    \* how often the provider has accepted a message
  draining, \* processes whose shutdown() has been called
  heldUp    \* messages a call of which was held up past its lease

queueVars == <<job, slot, sends, draining, heldUp>>
merchantVars == <<vars, queueVars>>

NoJob == 0
\* A call is idle, sending or reporting; result is what sendTextMessage told processJob:
\* accepted (with the provider's id), retryable, final or unknown.
IdleSlot == [pc |-> "idle", job |-> NoJob, attempt |-> 0, result |-> "none", id |-> NoId]

MerchantInit ==
  /\ Init
  /\ job = [m \in Messages |-> [status |-> "ABSENT", attempts |-> 0, expired |-> FALSE]]
  /\ slot = [s \in Slots |-> IdleSlot]
  /\ sends = [m \in Messages |-> 0]
  /\ draining = {} /\ heldUp = {}

-----------------------------------------------------------------------------
(* The portal, the clock and the claim *)

\* The portal has inserted the message row as PENDING before; it enqueues with a
\* dedupeKey, and a repeated key leaves the row alone.
Enqueue(m) ==
  /\ job[m].status = "ABSENT"
  /\ job' = [job EXCEPT ![m].status = "PENDING"]
  /\ UNCHANGED <<vars, slot, sends, draining, heldUp>>

\* Some call still works on the current claim of m.
InHand(m) == \E s \in Slots : slot[s].job = m /\ slot[s].attempt = job[m].attempts

LeaseRunsOut(m) ==
  /\ job[m].status = "PROCESSING" /\ ~job[m].expired
  /\ ~InHand(m)
  /\ job' = [job EXCEPT ![m].expired = TRUE]
  /\ UNCHANGED <<vars, slot, sends, draining, heldUp>>

\* A call is held up past its lease.
Stall(m) ==
  /\ job[m].status = "PROCESSING" /\ ~job[m].expired
  /\ InHand(m)
  /\ Fault("stall")
  /\ job' = [job EXCEPT ![m].expired = TRUE]
  /\ UNCHANGED <<receiptVars, slot, sends, draining>>
  /\ heldUp' = heldUp \cup {m}

\* Fault: a lease that ran out is left alone.
ClaimableOnlyPending(m) == job[m].status = "PENDING"

\* Fault: the lease is not looked at.
ClaimableWithoutLease(m) == job[m].status \in {"PENDING", "PROCESSING"}

Claimable(m) == job[m].status = "PENDING" \/ (job[m].status = "PROCESSING" /\ job[m].expired)

\* A row that another transaction is writing is passed over (SKIP LOCKED).
BeingWritten(m) == \E s \in Slots : slot[s].job = m /\ slot[s].pc = "reporting"

Claim(s) ==
  /\ slot[s].pc = "idle" /\ Process[s] \notin draining
  /\ \E m \in Messages :
       /\ Claimable(m)
       /\ \A n \in Messages : n < m /\ Claimable(n) => BeingWritten(n)
       /\ job' = [job EXCEPT ![m] = [status |-> "PROCESSING", attempts |-> @.attempts + 1,
                                     expired |-> FALSE]]
       /\ slot' = [slot EXCEPT ![s] = [IdleSlot EXCEPT !.pc = "sending", !.job = m,
                                                       !.attempt = job[m].attempts + 1]]
  /\ UNCHANGED <<vars, sends, draining, heldUp>>

-----------------------------------------------------------------------------
(* processJob *)

Return(s) == slot' = [slot EXCEPT ![s] = IdleSlot]

Report(s, result, id) ==
  slot' = [slot EXCEPT ![s] = [@ EXCEPT !.pc = "reporting", !.result = result, !.id = id]]

\* Meta accepts the message; the answer may be lost or unreadable.
SendAccepted(s) ==
  LET m == slot[s].job IN
    /\ slot[s].pc = "sending"
    /\ sends[m] < MaxSends
    /\ sends' = [sends EXCEPT ![m] = @ + 1]
    /\ \/ Report(s, "accepted", <<m, sends[m] + 1>>)
       \/ Report(s, "unknown", NoId)
    /\ UNCHANGED <<vars, job, draining, heldUp>>

\* Meta refuses it (a rate limit or a missing token is retryable), or the request
\* got lost before it arrived.
SendRefused(s) ==
  /\ slot[s].pc = "sending"
  /\ \E result \in {"retryable", "final", "unknown"} : Report(s, result, NoId)
  /\ UNCHANGED <<vars, job, sends, draining, heldUp>>

\* Fault: the job is completed in one transaction, the message in another one
\* that never comes.
CompleteForgetsMessage(s) ==
  LET m == slot[s].job IN
    /\ slot[s].pc = "reporting" /\ slot[s].result = "accepted"
    /\ job' = [job EXCEPT ![m] = [@ EXCEPT !.status = "COMPLETED", !.expired = FALSE]]
    /\ Return(s)
    /\ UNCHANGED <<vars, sends, draining, heldUp>>

\* completeJob: no condition on the row's status, its owner or the message's status.
CompleteJob(s) ==
  LET m == slot[s].job IN
    /\ slot[s].pc = "reporting" /\ slot[s].result = "accepted"
    /\ job' = [job EXCEPT ![m] = [@ EXCEPT !.status = "COMPLETED", !.expired = FALSE]]
    /\ LinkMessage(Process[s], m, slot[s].id)
    /\ Return(s)
    /\ UNCHANGED <<linkVars, correlated, unrecorded, faults, sends, draining, heldUp>>

\* Its transaction fails: processJob's catch turns the error into a final failure.
CompleteFails(s) ==
  /\ slot[s].pc = "reporting" /\ slot[s].result = "accepted"
  /\ Fault("db")
  /\ Report(s, "final", NoId)
  /\ UNCHANGED <<receiptVars, job, sends, draining, heldUp>>

\* Fault: an unknown outcome is tried again like a refusal.
RetryUnknown(s) ==
  slot[s].result \in {"retryable", "unknown"} /\ job[slot[s].job].attempts < MaxAttempts

ShouldRetry(s) == slot[s].result = "retryable" /\ job[slot[s].job].attempts < MaxAttempts

FailedStatus(s) == IF slot[s].result = "unknown" THEN "DELIVERY_UNKNOWN" ELSE "FAILED"

FailJob(s) ==
  LET m == slot[s].job IN
    /\ slot[s].pc = "reporting" /\ slot[s].result # "accepted"
    /\ job' = [job EXCEPT ![m] = [@ EXCEPT !.expired = FALSE,
                 !.status = IF ShouldRetry(s) THEN "PENDING" ELSE "FAILED"]]
    /\ msg' = IF ShouldRetry(s) THEN msg
              ELSE [msg EXCEPT ![m].status = FailedStatus(s)]
    /\ Return(s)
    /\ UNCHANGED <<linkVars, correlated, linker, unrecorded, relinked, faults>>
    /\ UNCHANGED <<sends, draining, heldUp>>

\* The error leaves the poll callback; the row stays PROCESSING until its lease runs out.
FailJobFails(s) ==
  /\ slot[s].pc = "reporting" /\ slot[s].result # "accepted"
  /\ Fault("db")
  /\ Return(s)
  /\ UNCHANGED <<receiptVars, job, sends, draining, heldUp>>

-----------------------------------------------------------------------------
(* Processes *)

CallsOf(p) == {s \in Slots : Process[s] = p}

MerchantCrash(p) ==
  /\ Fault("crash")
  /\ ReceiptsCrash(p)
  /\ slot' = [s \in Slots |-> IF s \in CallsOf(p) THEN IdleSlot ELSE slot[s]]
  /\ UNCHANGED <<job, sends, draining, heldUp>>

\* shutdown: no new claims or sweeps; it waits for the calls under way.
Shutdown(p) ==
  /\ p \notin draining
  /\ Fault("drain")
  /\ draining' = draining \cup {p}
  /\ UNCHANGED <<receiptVars, job, slot, sends, heldUp>>

\* The drained process ends, and the platform starts it again.
Restart(p) ==
  /\ p \in draining
  /\ \A s \in CallsOf(p) : slot[s].pc = "idle"
  /\ \A id \in Ids : At(p, id, "idle")
  /\ draining' = draining \ {p}
  /\ ReceiptsCrash(p)
  /\ UNCHANGED <<faults, job, slot, sends, heldUp>>

-----------------------------------------------------------------------------

\* The provider only reports on what it has accepted.
ReceiptArrives(r) == r.id[2] <= sends[r.id[1]] /\ Ingest(r)

SlotStep(s) ==
  Claim(s) \/ SendAccepted(s) \/ SendRefused(s) \/ CompleteJob(s) \/ FailJob(s)

ReceiptNext ==
  \/ \E r \in Receipt : ReceiptArrives(r)
  \/ Age
  \/ \E p \in Processes, id \in Ids : ReconcileStep(p, id) \/ LinkerFails(p, id)
  \/ \E p \in Processes : (p \notin draining /\ SweepRead(p)) \/ SweepApply(p) \/ SweepFails(p)

QueueNext ==
  \/ \E m \in Messages : Enqueue(m) \/ LeaseRunsOut(m) \/ Stall(m)
  \/ \E s \in Slots : SlotStep(s) \/ CompleteFails(s) \/ FailJobFails(s)
  \/ \E p \in Processes : MerchantCrash(p) \/ Shutdown(p) \/ Restart(p)

MerchantNext ==
  \/ ReceiptNext /\ UNCHANGED queueVars
  \/ QueueNext

MerchantSpec == MerchantInit /\ [][MerchantNext]_merchantVars

\* Timers run as long as their process does; a lease that nobody works on runs
\* out; a drained process is started again.
MerchantFair ==
  /\ MerchantSpec
  /\ \A s \in Slots : WF_merchantVars(SlotStep(s))
  /\ \A m \in Messages : WF_merchantVars(LeaseRunsOut(m))
  /\ \A p \in Processes : WF_merchantVars(Restart(p))
  /\ \A p \in Processes, id \in Ids : WF_merchantVars(ReconcileStep(p, id) /\ UNCHANGED queueVars)

-----------------------------------------------------------------------------
(* Properties *)

\* Job and message tell the same story: the two rows change in one transaction,
\* and nobody but the holder of the claim changes them, unless a call was held up
\* past its lease (WhatsAppOutboundQueue.ts 208-252, 270-323).
JobAndMessageAgree ==
  \A m \in Messages \ heldUp :
    /\ job[m].status = "COMPLETED" <=> msg[m].ext # NoId
    /\ job[m].status = "FAILED" <=> msg[m].ext = NoId /\ msg[m].status # "PENDING"

\* Retries alone never send a message twice: a second acceptance needs a fault.
\* Only refusals are retried, an unknown outcome never is.  There is no SENDING mark: what
\* a process had sent when it died is claimed and sent again.
DuplicatesNeedFaults == \A m \in Messages : sends[m] <= 1 + faults

\* "DELIVERED or READ must NEVER later become FAILED" (WhatsAppDeliveryStateMachine.ts:8):
\* completeJob and failJob write the status unconditionally, yet no status turns back by
\* them, or by the receipts they race with, unless a call was held up past its lease.  Until
\* then the lease alone sees to it that the message is still PENDING.
OnlyHeldUpTurnBack == [][\A m \in Messages \ heldUp : NeverBack(m)]_merchantVars

\* Every message that was enqueued is finally sent, failed or held as unknown.
EveryMessageSettles ==
  \A m \in Messages : job[m].status = "PENDING" ~> job[m].status \in {"COMPLETED", "FAILED"}

=============================================================================
