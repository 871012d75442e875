---------------------------- MODULE InboundQueue ----------------------------
(***************************************************************************)
(* The durable inbound queue: PostgresMessageQueue (MessageQueue.ts) driving *)
(* WhatsAppWorker.processJob.  A row of "WhatsAppMessageJob" is claimed      *)
(* under a lease, the handler commits a conversation turn, marks the row     *)
(* SENDING just before it talks to the provider, and the result is written   *)
(* back fenced on the claim (lockedBy, attempts).                            *)
(*                                                                           *)
(* Time is abstracted to one flag per row: `expired` says that lockedAt is   *)
(* older than the lease, `ready` that availableAt has passed.  A renewal of  *)
(* an unexpired lease therefore leaves the flag as it is.  The order of the  *)
(* job numbers is the order of (createdAt, id).                              *)
(*                                                                           *)
(* An operator marked "Fault:" is a defect the code does not have.  It stands *)
(* before the definition it would replace, and PROJECT.json says which        *)
(* property catches it.                                                       *)
(***************************************************************************)
EXTENDS Naturals, FiniteSets

CONSTANTS
  Jobs,        \* job numbers, in the order of (createdAt, id)
  Partition,   \* Jobs -> partition key (tenant:account:wa_id)
  QrJobs,      \* the jobs that are answered over the QR transport
  Slots,       \* concurrent worker loops
  NoOne,       \* lockedBy = null
  Process,     \* Slots -> the worker process (workerId) a loop runs in
  MaxAttempts, \* the row's maxAttempts
  FaultKinds,  \* which faults may happen: "crash", "stall", "drain", and a database
               \* error: "record" in RecordProviderId, "db" in any other statement
  MaxFaults    \* bound on the number of faults in a behaviour

ASSUME JobsAssumption == Jobs \subseteq Nat \ {0} /\ QrJobs \subseteq Jobs
ASSUME AttemptsAssumption == MaxAttempts \in Nat \ {0}
ASSUME ProcessAssumption == NoOne \notin {Process[s] : s \in Slots}
ASSUME FaultsAssumption ==
  MaxFaults \in Nat /\ FaultKinds \subseteq {"crash", "stall", "drain", "record", "db"}

Processes == {Process[s] : s \in Slots}
NoJob == 0                    \* what an idle loop holds in the place of a job

VARIABLES
  row,       \* the job table
  slot,      \* local state of every worker loop
  reply,     \* what the turn for a job has committed: "none", "silent" or "text"
  linked,    \* the assistant message of a job carries the provider's id
  delivered, \* how often the provider has accepted the answer to a job
  draining,  \* processes whose shutdown() has been called
  faults     \* faults so far

vars == <<row, slot, reply, linked, delivered, draining, faults>>

Statuses == {"ABSENT", "PENDING", "PROCESSING", "COMPLETED", "FAILED"}
Outbounds == {"PENDING", "SENDING", "SENT", "FAILED", "UNKNOWN"}
Row == [status: Statuses, attempts: Nat, lockedBy: Processes \cup {NoOne},
        expired: BOOLEAN, ready: BOOLEAN, outbound: Outbounds,
        hasId: BOOLEAN, linkPending: BOOLEAN]

Pcs == {"idle", "claiming", "handling", "replying", "sending", "sent", "rejected",
        "completing", "linking", "clearing", "failing", "requeueing"}
\* `result` is the outcome of the handler, and later what failJob has decided.
Results == {"none", "silent", "blocked", "sent", "unknown", "retry", "exhausted", "uncertain"}
Slot == [pc: Pcs, job: Jobs \cup {NoJob}, attempt: Nat, lost: BOOLEAN, result: Results]

AbsentRow == [status |-> "ABSENT", attempts |-> 0, lockedBy |-> NoOne, expired |-> FALSE,
              ready |-> TRUE, outbound |-> "PENDING", hasId |-> FALSE, linkPending |-> FALSE]
IdleSlot == [pc |-> "idle", job |-> NoJob, attempt |-> 0, lost |-> FALSE, result |-> "none"]

Init ==
  /\ row = [j \in Jobs |-> AbsentRow]
  /\ slot = [s \in Slots |-> IdleSlot]
  /\ reply = [j \in Jobs |-> "none"]
  /\ linked = [j \in Jobs |-> FALSE]
  /\ delivered = [j \in Jobs |-> 0]
  /\ draining = {}
  /\ faults = 0

-----------------------------------------------------------------------------
(* Helpers *)

Terminal == {"COMPLETED", "FAILED"}

\* The fence of every write of a result: the row is still this loop's claim.
OwnsClaim(s) ==
  LET r == row[slot[s].job] IN
    /\ r.status = "PROCESSING"
    /\ r.lockedBy = Process[s]
    /\ r.attempts = slot[s].attempt

\* renewLease also requires that the lease has not run out.
CanRenew(s) == OwnsClaim(s) /\ ~row[slot[s].job].expired

Renewed(r, sending) ==
  [r EXCEPT !.expired = FALSE, !.outbound = IF sending THEN "SENDING" ELSE @]

\* Some loop still works on the current claim of j and keeps its heartbeat going.
Heartbeating(j) ==
  \E s \in Slots : /\ slot[s].job = j
                   /\ slot[s].attempt = row[j].attempts
                   /\ ~slot[s].lost

Goto(s, pc) == slot' = [slot EXCEPT ![s].pc = pc]
Finish(s, result) == slot' = [slot EXCEPT ![s] = [@ EXCEPT !.pc = "completing", !.result = result]]
Idle(s) == slot' = [slot EXCEPT ![s] = IdleSlot]

Fault(kind) == kind \in FaultKinds /\ faults < MaxFaults /\ faults' = faults + 1

-----------------------------------------------------------------------------
(* The producer and the clock *)

\* enqueue: a duplicate wamid is acknowledged without a write, hence a stutter.
Enqueue(j) ==
  /\ row[j].status = "ABSENT"
  /\ \A i \in Jobs : Partition[i] = Partition[j] /\ i < j => row[i].status # "ABSENT"
  /\ row' = [row EXCEPT ![j].status = "PENDING"]
  /\ UNCHANGED <<slot, reply, linked, delivered, draining, faults>>

\* A lease nobody renews runs out.
LeaseRunsOut(j) ==
  /\ row[j].status = "PROCESSING" /\ ~row[j].expired
  /\ ~Heartbeating(j)
  /\ row' = [row EXCEPT ![j].expired = TRUE]
  /\ UNCHANGED <<slot, reply, linked, delivered, draining, faults>>

\* A live loop can be held up past its lease (blocked event loop, slow database).
Stall(j) ==
  /\ row[j].status = "PROCESSING" /\ ~row[j].expired
  /\ Heartbeating(j)
  /\ Fault("stall")
  /\ row' = [row EXCEPT ![j].expired = TRUE]
  /\ UNCHANGED <<slot, reply, linked, delivered, draining>>

BackoffElapses(j) ==
  /\ row[j].status = "PENDING" /\ ~row[j].ready
  /\ row' = [row EXCEPT ![j].ready = TRUE]
  /\ UNCHANGED <<slot, reply, linked, delivered, draining, faults>>

-----------------------------------------------------------------------------
(* claimNextJob: a sweep of abandoned sends, then the claim transaction *)

Swept(r) ==
  IF r.status = "PROCESSING" /\ r.outbound = "SENDING" /\ r.expired
  THEN [r EXCEPT !.status = "FAILED", !.outbound = "UNKNOWN"]
  ELSE r

Sweep(s) ==
  /\ slot[s].pc = "idle"
  /\ Process[s] \notin draining
  /\ row' = [j \in Jobs |-> Swept(row[j])]
  /\ Goto(s, "claiming")
  /\ UNCHANGED <<reply, linked, delivered, draining, faults>>

\* Fault: an expired row is claimed again although its send may have gone out.
ClaimableWhileSending(j) ==
  /\ \/ row[j].status = "PENDING" /\ (row[j].attempts = 0 \/ row[j].ready)
     \/ row[j].status = "PROCESSING" /\ row[j].expired
  /\ \A i \in Jobs : Partition[i] = Partition[j] /\ i < j => row[i].status # "PENDING"

\* Fault: the check for another active job of the partition is missing.
ClaimableBesideActive(j) ==
  /\ \/ row[j].status = "PENDING" /\ (row[j].attempts = 0 \/ row[j].ready)
     \/ row[j].status = "PROCESSING" /\ row[j].outbound # "SENDING" /\ row[j].expired
  /\ \A i \in Jobs : Partition[i] = Partition[j] /\ i < j => row[i].status # "PENDING"

\* Fault: the check for an earlier job that waits for its retry is missing.
ClaimableOutOfOrder(j) ==
  /\ \/ row[j].status = "PENDING" /\ (row[j].attempts = 0 \/ row[j].ready)
     \/ row[j].status = "PROCESSING" /\ row[j].outbound # "SENDING" /\ row[j].expired
  /\ \A i \in Jobs \ {j} : Partition[i] = Partition[j] =>
        ~(row[i].status = "PROCESSING" /\ ~row[i].expired)

\* Fault: an expired lease is never taken over.
ClaimableOnlyPending(j) ==
  /\ row[j].status = "PENDING" /\ (row[j].attempts = 0 \/ row[j].ready)
  /\ \A i \in Jobs : Partition[i] = Partition[j] /\ i < j => row[i].status # "PENDING"

Claimable(j) ==
  /\ \/ row[j].status = "PENDING" /\ (row[j].attempts = 0 \/ row[j].ready)
     \/ row[j].status = "PROCESSING" /\ row[j].outbound # "SENDING" /\ row[j].expired
  /\ \A i \in Jobs : Partition[i] = Partition[j] /\ i < j => row[i].status # "PENDING"
  /\ \A i \in Jobs \ {j} : Partition[i] = Partition[j] =>
        ~(row[i].status = "PROCESSING" /\ ~row[i].expired)

\* FOR UPDATE SKIP LOCKED passes over a row that a concurrent statement is updating.
BeingWritten(j) ==
  \E s \in Slots : slot[s].job = j /\ slot[s].pc \in {"rejected", "completing", "requeueing"}

Claimed(r, p) ==
  [r EXCEPT !.status = "PROCESSING", !.lockedBy = p, !.attempts = @ + 1, !.expired = FALSE]

Claim(s, j) ==
  /\ slot[s].pc = "claiming"
  /\ Claimable(j)
  /\ \A i \in Jobs : i < j /\ Claimable(i) => BeingWritten(i)
  /\ row' = [row EXCEPT ![j] = Claimed(@, Process[s])]
  /\ slot' = [slot EXCEPT ![s] = [pc |-> "handling", job |-> j, attempt |-> row[j].attempts + 1,
                                  lost |-> FALSE, result |-> "none"]]
  /\ UNCHANGED <<reply, linked, delivered, draining, faults>>

ClaimNothing(s) ==
  /\ slot[s].pc = "claiming"
  /\ \/ (\A i \in Jobs : Claimable(i) => BeingWritten(i)) /\ UNCHANGED faults
     \/ Fault("db")
  /\ Idle(s)
  /\ UNCHANGED <<row, reply, linked, delivered, draining>>

-----------------------------------------------------------------------------
(* The handler: WhatsAppWorker.processJob *)

\* The guard, before or after the turn, blocks the reply: for good (human takeover,
\* paused, policy) or until a circuit breaker or a rate limit clears.
Suppress(s) ==
  /\ slot[s].pc \in {"handling", "replying"}
  /\ Goto(s, "rejected") \/ Finish(s, "blocked")
  /\ UNCHANGED <<row, reply, linked, delivered, draining, faults>>

Throw(s) ==
  /\ slot[s].pc \in {"handling", "replying"}
  /\ Goto(s, "failing")
  /\ UNCHANGED <<row, reply, linked, delivered, draining, faults>>

\* handleMessage commits a turn, or returns the response of one that was committed.
Turn(s) ==
  LET j == slot[s].job IN
    /\ slot[s].pc = "handling"
    /\ \E r \in {"silent", "text"} :
         /\ reply[j] \in {"none", r}
         /\ reply' = [reply EXCEPT ![j] = r]
         /\ IF r = "silent" THEN Finish(s, "silent") ELSE Goto(s, "replying")
    /\ UNCHANGED <<row, linked, delivered, draining, faults>>

\* A second version conflict: the customer is asked to write again, and nothing is
\* committed, so that no message row stands for what is sent.
TurnConflicts(s) ==
  /\ slot[s].pc = "handling"
  /\ reply[slot[s].job] = "none"
  /\ Goto(s, "replying")
  /\ UNCHANGED <<row, reply, linked, delivered, draining, faults>>

\* The budget refuses the turn: no allowance, or the message was reserved by an attempt
\* that never ended.  The response is empty, also of a turn that was committed.
TurnRefused(s) ==
  /\ slot[s].pc = "handling"
  /\ Finish(s, "silent")
  /\ UNCHANGED <<row, reply, linked, delivered, draining, faults>>

\* beforeDelivery: refuse after a lost heartbeat, else renew and mark SENDING.
MarkSending(s) ==
  /\ slot[s].pc = "replying"
  /\ ~slot[s].lost /\ CanRenew(s)
  /\ row' = [row EXCEPT ![slot[s].job] = Renewed(@, TRUE)]
  /\ Goto(s, "sending")
  /\ UNCHANGED <<reply, linked, delivered, draining, faults>>

MarkRefused(s) ==
  /\ slot[s].pc = "replying"
  /\ \/ (slot[s].lost \/ ~CanRenew(s)) /\ UNCHANGED faults
     \/ Fault("db")
  /\ Goto(s, "failing")
  /\ UNCHANGED <<row, reply, linked, delivered, draining>>

Accept(j) == delivered' = [delivered EXCEPT ![j] = @ + 1]

\* routeOutbound: accepted; refused with a retryable or a final error; no answer
\* (Meta reports DELIVERY_UNKNOWN, QR an ordinary final error); or it throws
\* before the transport is reached.
Send(s) ==
  LET j == slot[s].job IN
    /\ slot[s].pc = "sending"
    /\ \/ Accept(j) /\ Goto(s, "sent")
       \/ Goto(s, "rejected") /\ UNCHANGED delivered
       \/ Finish(s, "blocked") /\ UNCHANGED delivered
       \/ /\ Accept(j) \/ UNCHANGED delivered
          /\ Finish(s, IF j \in QrJobs THEN "blocked" ELSE "unknown")
       \/ Goto(s, "failing") /\ UNCHANGED delivered
    /\ UNCHANGED <<row, reply, linked, draining, faults>>

\* updateOutboundAssistantMessage: the id is written on the message of the turn, if there is one.
HasMessage(j) == reply[j] = "text"
LinkMessage(j) == linked' = IF HasMessage(j) THEN [linked EXCEPT ![j] = TRUE] ELSE linked

\* The worker's own attempt; an error is only logged.
RecordProviderId(s) ==
  /\ slot[s].pc = "sent"
  /\ \/ LinkMessage(slot[s].job) /\ UNCHANGED faults
     \/ Fault("record") /\ UNCHANGED linked
  /\ Finish(s, "sent")
  /\ UNCHANGED <<row, reply, delivered, draining>>

\* The heartbeat gives up after one renewal that fails or matches no row.
Heartbeat(s) ==
  /\ slot[s].pc \notin {"idle", "claiming", "linking", "clearing"} /\ ~slot[s].lost
  /\ \/ /\ CanRenew(s)
        /\ row' = [row EXCEPT ![slot[s].job] = Renewed(@, FALSE)]
        /\ UNCHANGED <<slot, faults>>
     \/ /\ (~CanRenew(s) /\ UNCHANGED faults) \/ Fault("db")
        /\ slot' = [slot EXCEPT ![s].lost = TRUE]
        /\ UNCHANGED row
  /\ UNCHANGED <<reply, linked, delivered, draining>>

-----------------------------------------------------------------------------
(* Writing the result back *)

\* A retryable failure first takes the SENDING mark off the row.
ClearSending(s) ==
  /\ slot[s].pc = "rejected"
  /\ \/ /\ row' = IF OwnsClaim(s) THEN [row EXCEPT ![slot[s].job].outbound = "FAILED"] ELSE row
        /\ UNCHANGED faults
     \/ Fault("db") /\ UNCHANGED row
  /\ Goto(s, "failing")
  /\ UNCHANGED <<reply, linked, delivered, draining>>

\* Fault: DELIVERY_UNKNOWN is recorded like a refusal.
CompletedUnknownAsFailed(r, result) ==
  [r EXCEPT !.status = "COMPLETED",
            !.outbound = IF result \in {"unknown", "blocked"} THEN "FAILED" ELSE "SENT",
            !.hasId = (result = "sent"), !.linkPending = (result = "sent")]

Completed(r, result) ==
  [r EXCEPT !.status = IF result = "unknown" THEN "FAILED" ELSE "COMPLETED",
            !.outbound = CASE result = "unknown" -> "UNKNOWN"
                           [] result = "blocked" -> "FAILED"
                           [] OTHER -> "SENT",
            !.hasId = (result = "sent"),
            !.linkPending = (result = "sent")]

CompleteJob(s) ==
  /\ slot[s].pc = "completing"
  /\ IF OwnsClaim(s)
     THEN /\ row' = [row EXCEPT ![slot[s].job] = Completed(@, slot[s].result)]
          /\ IF slot[s].result = "sent" THEN Goto(s, "linking") ELSE Idle(s)
     ELSE UNCHANGED row /\ Idle(s)
  /\ UNCHANGED <<reply, linked, delivered, draining, faults>>

CompleteFails(s) ==
  /\ slot[s].pc = "completing"
  /\ Fault("db")
  /\ Goto(s, "failing")
  /\ UNCHANGED <<row, reply, linked, delivered, draining>>

\* linkCompletedOutboundMessage, right after completeJob and from the periodic sweep: it
\* reads the job, links the message, and clears the marker in a statement of its own.
\* Without a message it gives up and the marker stays.  Linking twice is the same here as
\* linking once; what a second link does to the message's status is in DeliveryReceipts.
LinkToDo(j) == row[j].status = "COMPLETED" /\ row[j].linkPending /\ row[j].hasId


LinkOutbound(j) ==
  LinkToDo(j) /\ (linked[j] \/ HasMessage(j)) /\ linked' = [linked EXCEPT ![j] = TRUE]

ClearMarker(j) ==
  row' = IF row[j].status = "COMPLETED" THEN [row EXCEPT ![j].linkPending = FALSE] ELSE row

LinkAfterComplete(s) ==
  LET j == slot[s].job IN
    /\ slot[s].pc = "linking"
    /\ \/ LinkOutbound(j) /\ Goto(s, "clearing") /\ UNCHANGED faults
       \/ /\ ~LinkToDo(j) \/ ~(linked[j] \/ HasMessage(j))
          /\ Idle(s) /\ UNCHANGED <<linked, faults>>
       \/ Fault("db") /\ Idle(s) /\ UNCHANGED linked
    /\ UNCHANGED <<row, reply, delivered, draining>>

ClearAfterLink(s) ==
  /\ slot[s].pc = "clearing"
  /\ \/ ClearMarker(slot[s].job) /\ UNCHANGED faults
     \/ Fault("db") /\ UNCHANGED row
  /\ Idle(s)
  /\ UNCHANGED <<reply, linked, delivered, draining>>

\* The sweep of links in some process.  It keeps nothing between its steps that could
\* get stale: a message that is linked stays so, and its marker may be cleared.
ReconcileLink(j) ==
  /\ LinkOutbound(j)
  /\ UNCHANGED <<row, slot, reply, delivered, draining, faults>>

ReconcileClear(j) ==
  /\ LinkToDo(j) /\ linked[j]
  /\ ClearMarker(j)
  /\ UNCHANGED <<slot, reply, linked, delivered, draining, faults>>

\* Fault: a row that may have been sent is retried like any other.
FailVerdictResends(r) == IF r.attempts >= MaxAttempts THEN "exhausted" ELSE "retry"

FailVerdict(r) ==
  IF r.outbound = "SENDING" THEN "uncertain"
  ELSE IF r.attempts >= MaxAttempts THEN "exhausted" ELSE "retry"

\* failJob reads the row without the fence ...
FailRead(s) ==
  LET r == row[slot[s].job] IN
    /\ slot[s].pc = "failing"
    /\ slot' = [slot EXCEPT ![s] = [@ EXCEPT !.pc = "requeueing", !.result = FailVerdict(r)]]
    /\ UNCHANGED <<row, reply, linked, delivered, draining, faults>>

Requeued(r, result) ==
  [r EXCEPT !.status = IF result = "retry" THEN "PENDING" ELSE "FAILED",
            !.outbound = IF result = "uncertain" THEN "UNKNOWN" ELSE @,
            !.ready = FALSE, !.lockedBy = NoOne, !.expired = FALSE]

\* ... and writes what it decided under the fence.
FailWrite(s) ==
  /\ slot[s].pc = "requeueing"
  /\ row' = IF OwnsClaim(s)
            THEN [row EXCEPT ![slot[s].job] = Requeued(@, slot[s].result)]
            ELSE row
  /\ Idle(s)
  /\ UNCHANGED <<reply, linked, delivered, draining, faults>>

\* A database error inside failJob ends the loop and leaves the row to its lease.
FailJobFails(s) ==
  /\ slot[s].pc \in {"failing", "requeueing"}
  /\ Fault("db")
  /\ Idle(s)
  /\ UNCHANGED <<row, reply, linked, delivered, draining>>

-----------------------------------------------------------------------------
(* Process life cycle *)

Crash(p) ==
  /\ Fault("crash")
  /\ slot' = [s \in Slots |-> IF Process[s] = p THEN IdleSlot ELSE slot[s]]
  /\ draining' = draining \ {p}
  /\ UNCHANGED <<row, reply, linked, delivered>>

\* shutdown: no new claims, the active loops run to their end.
Shutdown(p) ==
  /\ p \notin draining
  /\ Fault("drain")
  /\ draining' = draining \cup {p}
  /\ UNCHANGED <<row, slot, reply, linked, delivered>>

Restart(p) ==
  /\ p \in draining
  /\ \A s \in Slots : Process[s] = p => slot[s].pc = "idle"
  /\ draining' = draining \ {p}
  /\ UNCHANGED <<row, slot, reply, linked, delivered, faults>>

-----------------------------------------------------------------------------
Handle(s) == Suppress(s) \/ Throw(s) \/ Turn(s) \/ TurnConflicts(s) \/ TurnRefused(s)
             \/ MarkSending(s) \/ MarkRefused(s) \/ Send(s) \/ RecordProviderId(s)
WriteBack(s) == ClearSending(s) \/ CompleteJob(s) \/ CompleteFails(s) \/ LinkAfterComplete(s)
                \/ ClearAfterLink(s) \/ FailRead(s) \/ FailWrite(s) \/ FailJobFails(s)
Poll(s) == Sweep(s) \/ ClaimNothing(s) \/ \E j \in Jobs : Claim(s, j)
SlotStep(s) == Poll(s) \/ Handle(s) \/ WriteBack(s)

SweepLink(j) == ReconcileLink(j) \/ ReconcileClear(j)
Time(j) == LeaseRunsOut(j) \/ BackoffElapses(j)

Next ==
  \/ \E j \in Jobs : Enqueue(j) \/ Time(j) \/ Stall(j) \/ SweepLink(j)
  \/ \E s \in Slots : SlotStep(s) \/ Heartbeat(s)
  \/ \E p \in Processes : Crash(p) \/ Shutdown(p) \/ Restart(p)

Spec == Init /\ [][Next]_vars

\* The poll timer runs every loop again and again, a drained process is started
\* again by the platform, the clock moves on, and the sweep of links is periodic.
Fairness ==
  /\ \A s \in Slots : WF_vars(SlotStep(s))
  /\ \A j \in Jobs : WF_vars(Time(j)) /\ WF_vars(SweepLink(j))
  /\ \A p \in Processes : WF_vars(Restart(p))
FairSpec == Spec /\ Fairness

-----------------------------------------------------------------------------
(* Properties *)

RowsTyped == row \in [Jobs -> Row]
LoopsTyped ==
  /\ slot \in [Slots -> Slot]
  /\ \A s \in Slots : (slot[s].job = NoJob) <=> slot[s].pc \in {"idle", "claiming"}
RestTyped ==
  /\ reply \in [Jobs -> {"none", "silent", "text"}]
  /\ linked \in [Jobs -> BOOLEAN]
  /\ delivered \in [Jobs -> Nat]
  /\ draining \subseteq Processes
  /\ faults \in 0 .. MaxFaults

\* Every variable stays in its domain, and a loop holds a job exactly while it works on one.
TypeOK == RowsTyped /\ LoopsTyped /\ RestTyped

\* However claims, crashes, stalls and retries interleave, the customer gets the answer
\* to one inbound message at most once ("Do not send again blindly").
AtMostOneDelivery == \A j \in Jobs : delivered[j] <= 1

\* What the table says of a finished job is true of the provider: a recorded provider
\* id means the answer went out, and a Meta job recorded as failed without UNKNOWN, or
\* one still waiting to be tried again, never reached the customer.
TruthfulOutcome ==
  \A j \in Jobs :
    /\ row[j].hasId => delivered[j] = 1
    /\ row[j].status = "PENDING" => delivered[j] = 0
    /\ row[j].status \in Terminal /\ row[j].outbound = "FAILED" /\ j \notin QrJobs
         => delivered[j] = 0

\* Two jobs of one conversation never run at the same time under valid leases.
OneLiveJobPerPartition ==
  \A i, j \in Jobs :
    /\ Partition[i] = Partition[j]
    /\ row[i].status = "PROCESSING" /\ ~row[i].expired
    /\ row[j].status = "PROCESSING" /\ ~row[j].expired
    => i = j

\* Answers of one conversation reach the customer in the order of its messages
\* ("Guarantees strict FIFO per partitionKey").
DeliveryInOrder ==
  [][\A i, j \in Jobs :
       Partition[i] = Partition[j] /\ i < j /\ delivered'[i] > delivered[i]
         => delivered[j] = 0]_vars

\* A job that cleared its link marker has its answer linked to the provider's id, so
\* that delivery receipts find it.
LinkMarkerHonest ==
  \A j \in Jobs : row[j].hasId /\ ~row[j].linkPending => linked[j]

\* Crashed and stuck jobs are recovered: every accepted message is finally answered or given up.
EveryJobSettles == \A j \in Jobs : row[j].status = "PENDING" ~> row[j].status \in Terminal

\* A sent answer of a committed turn is finally linked to the provider's id and leaves the
\* sweep's list, also after a failed record and a crash between completing the job and
\* linking it ("Retry links saved after a successful provider send"): every job comes to
\* owe its link at most once, and again and again none is owed.  What is sent after a second
\* version conflict has no message to link, and stays in the list.
LinkOwed(j) == row[j].hasId /\ HasMessage(j) /\ (row[j].linkPending \/ ~linked[j])

-----------------------------------------------------------------------------
(* The inductive invariant behind AtMostOneDelivery and TruthfulOutcome *)

Active(s) == slot[s].pc \notin {"idle", "claiming"}

\* The row still carries the claim number this loop took.
Current(s) ==
  /\ row[slot[s].job].status = "PROCESSING"
  /\ row[slot[s].job].attempts = slot[s].attempt

\* What the outbound mark of a row says about deliveries so far.
RowInv(j) ==
  LET r == row[j] IN
    /\ delivered[j] \in {0, 1}
    /\ r.status \in {"ABSENT", "PENDING"} => delivered[j] = 0 /\ r.outbound # "SENDING"
    /\ r.status = "PROCESSING" /\ r.outbound # "SENDING" => delivered[j] = 0
    /\ r.status \in Terminal => r.outbound # "SENDING"
    /\ r.hasId => r.status = "COMPLETED" /\ r.outbound = "SENT" /\ delivered[j] = 1
    /\ r.status \in Terminal /\ ~r.hasId /\ r.outbound \in {"PENDING", "SENT"} => delivered[j] = 0
    /\ r.status \in Terminal /\ r.outbound = "FAILED" /\ j \notin QrJobs => delivered[j] = 0

\* Where a loop stands limits what its row and the provider can have seen: only the
\* one loop between the mark and the send may still deliver.
LoopInv(s) ==
  LET j == slot[s].job
      r == row[j]
      pc == slot[s].pc
      result == slot[s].result
  IN Active(s) =>
    /\ r.status # "ABSENT" /\ slot[s].attempt <= r.attempts
    /\ pc \in {"handling", "replying"} /\ Current(s) => r.outbound # "SENDING"
    /\ pc = "sending" =>
         /\ delivered[j] = 0
         /\ \/ Current(s) /\ r.outbound = "SENDING"
            \/ r.status \in Terminal /\ r.outbound = "UNKNOWN" /\ ~r.hasId
    /\ pc = "sent" => delivered[j] = 1
    /\ pc = "rejected" /\ Current(s) => delivered[j] = 0
    /\ pc = "completing" =>
         /\ result \in {"silent", "blocked", "sent", "unknown"}
         /\ result = "sent" => delivered[j] = 1
         /\ result = "silent" /\ Current(s) => delivered[j] = 0
         /\ result = "blocked" /\ Current(s) /\ j \notin QrJobs => delivered[j] = 0
    /\ pc = "requeueing" =>
         /\ result \in {"uncertain", "exhausted", "retry"}
         /\ Current(s) => (result = "uncertain" <=> r.outbound = "SENDING")

\* Claims of one job are told apart by their number, and one loop at most may send.
PairInv(s, t) ==
  s # t /\ Active(s) /\ Active(t) /\ slot[s].job = slot[t].job =>
    /\ slot[s].attempt # slot[t].attempt
    /\ ~(slot[s].pc = "sending" /\ slot[t].pc = "sending")

Core ==
  /\ \A j \in Jobs : RowInv(j)
  /\ \A s \in Slots : LoopInv(s)
  /\ \A s, t \in Slots : PairInv(s, t)

Ind == TypeOK /\ Core

-----------------------------------------------------------------------------
(* Refinement of the contract *)

Verdict(r) ==
  CASE r.status = "ABSENT" -> "absent"
    [] r.status \in {"PENDING", "PROCESSING"} -> "open"
    [] r.status \in Terminal /\ r.hasId -> "sent"
    [] r.status \in Terminal /\ ~r.hasId /\ r.outbound = "SENT" -> "silent"
    [] r.status \in Terminal /\ ~r.hasId /\ r.outbound = "UNKNOWN" -> "unknown"
    [] OTHER -> "rejected"

Contract == INSTANCE DeliveryContract WITH
  Ambiguous <- QrJobs, verdict <- [j \in Jobs |-> Verdict(row[j])]

\* The queue, its leases and its retries implement the delivery contract: a verdict is
\* final and, unless it is UNKNOWN, agrees with what the customer received.
ImplementsContract == Contract!Spec
=============================================================================
