------------------------- MODULE InboundQueueProofs -------------------------
(***************************************************************************)
(* Proofs about InboundQueue for any number of jobs, loops, processes,      *)
(* attempts and faults.                                                     *)
(***************************************************************************)
EXTENDS InboundQueue, TLAPS

-----------------------------------------------------------------------------
(* Type correctness *)

LEMMA InitType == Init => TypeOK
<1> SUFFICES ASSUME Init PROVE TypeOK
  OBVIOUS
<1>1. RowsTyped
  BY DEF Init, RowsTyped, AbsentRow, Row, Statuses, Outbounds
<1>2. LoopsTyped
  BY DEF Init, LoopsTyped, IdleSlot, NoJob, Slot, Pcs, Results
<1>3. RestTyped
  BY FaultsAssumption DEF Init, RestTyped
<1> QED BY <1>1, <1>2, <1>3 DEF TypeOK

\* What a loop may become: the four ways in which the actions change `slot`.
LEMMA GotoType ==
  ASSUME LoopsTyped, NEW s \in Slots, NEW pc \in Pcs \ {"idle", "claiming"},
         slot[s].pc \notin {"idle", "claiming"}, Goto(s, pc)
  PROVE  LoopsTyped'
<1> DEFINE new == [slot[s] EXCEPT !.pc = pc]
<1>1. new \in Slot /\ new.job = slot[s].job /\ new.pc = pc
  BY DEF LoopsTyped, Slot
<1>2. slot' = [slot EXCEPT ![s] = new]
  BY DEF Goto
<1> QED BY <1>1, <1>2 DEF LoopsTyped

LEMMA FinishType ==
  ASSUME LoopsTyped, NEW s \in Slots, NEW result \in Results,
         slot[s].pc \notin {"idle", "claiming"}, Finish(s, result)
  PROVE  LoopsTyped'
<1> DEFINE new == [slot[s] EXCEPT !.pc = "completing", !.result = result]
<1>1. new \in Slot /\ new.job = slot[s].job /\ new.pc = "completing"
  BY DEF LoopsTyped, Slot, Pcs
<1>2. slot' = [slot EXCEPT ![s] = new]
  BY DEF Finish
<1> QED BY <1>1, <1>2 DEF LoopsTyped

LEMMA IdleType ==
  ASSUME LoopsTyped, NEW s \in Slots, Idle(s)
  PROVE  LoopsTyped'
<1>1. IdleSlot \in Slot /\ IdleSlot.job = NoJob /\ IdleSlot.pc = "idle"
  BY DEF IdleSlot, Slot, NoJob, Pcs, Results
<1> QED BY <1>1 DEF LoopsTyped, Idle

LEMMA HoldsJob ==
  ASSUME LoopsTyped, NEW s \in Slots, slot[s].pc \notin {"idle", "claiming"}
  PROVE  /\ slot[s].job \in Jobs
         /\ slot[s].attempt \in Nat
         /\ slot[s].pc \in Pcs
  BY DEF LoopsTyped, Slot

\* Rows keep their type under every update the actions make.
LEMMA RowValues ==
  ASSUME NEW r \in Row
  PROVE  /\ [r EXCEPT !.status = "PENDING"] \in Row
         /\ [r EXCEPT !.expired = TRUE] \in Row
         /\ [r EXCEPT !.ready = TRUE] \in Row
         /\ [r EXCEPT !.outbound = "FAILED"] \in Row
         /\ [r EXCEPT !.linkPending = FALSE] \in Row
         /\ Swept(r) \in Row
         /\ Renewed(r, TRUE) \in Row /\ Renewed(r, FALSE) \in Row
<1>1. [r EXCEPT !.status = "PENDING"] \in Row BY DEF Row, Statuses
<1>2. [r EXCEPT !.expired = TRUE] \in Row BY DEF Row
<1>3. [r EXCEPT !.ready = TRUE] \in Row BY DEF Row
<1>4. [r EXCEPT !.outbound = "FAILED"] \in Row BY DEF Row, Outbounds
<1>5. [r EXCEPT !.linkPending = FALSE] \in Row BY DEF Row
<1>6. Swept(r) \in Row BY DEF Row, Swept, Statuses, Outbounds
<1>7. Renewed(r, TRUE) \in Row /\ Renewed(r, FALSE) \in Row BY DEF Row, Renewed, Outbounds
<1> QED BY <1>1, <1>2, <1>3, <1>4, <1>5, <1>6, <1>7

LEMMA ClaimedType ==
  ASSUME NEW r \in Row, NEW p \in Processes
  PROVE  Claimed(r, p) \in Row
<1>1. r.attempts + 1 \in Nat BY DEF Row
<1>2. "PROCESSING" \in Statuses BY DEF Statuses
<1> QED BY <1>1, <1>2 DEF Claimed, Row

LEMMA ResultType ==
  ASSUME NEW r \in Row, NEW res \in Results
  PROVE  Completed(r, res) \in Row /\ Requeued(r, res) \in Row
<1>1. Completed(r, res) \in Row BY DEF Row, Completed, Statuses, Outbounds
<1>2. Requeued(r, res) \in Row BY DEF Row, Requeued, Statuses, Outbounds
<1> QED BY <1>1, <1>2

LEMMA RowUpdate ==
  ASSUME RowsTyped, NEW j \in Jobs, NEW r \in Row, row' = [row EXCEPT ![j] = r]
  PROVE  RowsTyped'
  BY DEF RowsTyped

LEMMA EnvironmentType ==
  ASSUME TypeOK, NEW j \in Jobs,
         Enqueue(j) \/ Time(j) \/ Stall(j) \/ SweepLink(j)
  PROVE  TypeOK'
<1> DEFINE r == row[j]
<1>0. r \in Row /\ RowsTyped /\ LoopsTyped /\ RestTyped BY DEF TypeOK, RowsTyped
<1>1. CASE Enqueue(j)
  <2>1. RowsTyped' BY <1>0, <1>1, RowValues, RowUpdate DEF Enqueue
  <2> QED BY <1>0, <1>1, <2>1 DEF Enqueue, TypeOK, LoopsTyped, RestTyped
<1>2. CASE LeaseRunsOut(j)
  <2>1. RowsTyped' BY <1>0, <1>2, RowValues, RowUpdate DEF LeaseRunsOut
  <2> QED BY <1>0, <1>2, <2>1 DEF LeaseRunsOut, TypeOK, LoopsTyped, RestTyped
<1>3. CASE BackoffElapses(j)
  <2>1. RowsTyped' BY <1>0, <1>3, RowValues, RowUpdate DEF BackoffElapses
  <2> QED BY <1>0, <1>3, <2>1 DEF BackoffElapses, TypeOK, LoopsTyped, RestTyped
<1>4. CASE Stall(j)
  <2>1. RowsTyped' BY <1>0, <1>4, RowValues, RowUpdate DEF Stall
  <2> QED BY <1>0, <1>4, <2>1, FaultsAssumption DEF Stall, Fault, TypeOK, LoopsTyped, RestTyped
<1>5. CASE ReconcileLink(j)
  BY <1>0, <1>5 DEF ReconcileLink, LinkOutbound, TypeOK, RowsTyped, LoopsTyped, RestTyped
<1>6. CASE ReconcileClear(j)
  <2>1. row' = [row EXCEPT ![j].linkPending = FALSE]
    BY <1>6 DEF ReconcileClear, ClearMarker, LinkToDo
  <2>2. RowsTyped' BY <1>0, <2>1, RowValues, RowUpdate
  <2> QED BY <1>0, <1>6, <2>2 DEF ReconcileClear, TypeOK, LoopsTyped, RestTyped
<1> QED BY <1>1, <1>2, <1>3, <1>4, <1>5, <1>6 DEF Time, SweepLink

LEMMA PollType ==
  ASSUME TypeOK, NEW s \in Slots, Poll(s)
  PROVE  TypeOK'
<1>0. RowsTyped /\ LoopsTyped /\ RestTyped BY DEF TypeOK
<1>1. CASE Sweep(s)
  <2>1. RowsTyped'
    <3>1. \A j \in Jobs : row[j] \in Row /\ Swept(row[j]) \in Row
      BY <1>0, RowValues DEF RowsTyped
    <3> QED BY <1>1, <3>1 DEF Sweep, RowsTyped
  <2>2. LoopsTyped'
    <3> DEFINE new == [slot[s] EXCEPT !.pc = "claiming"]
    <3>1. new \in Slot /\ new.job = slot[s].job /\ new.pc = "claiming"
      BY <1>0 DEF LoopsTyped, Slot, Pcs
    <3>2. slot' = [slot EXCEPT ![s] = new] /\ slot[s].pc = "idle"
      BY <1>1 DEF Sweep, Goto
    <3> QED BY <1>0, <3>1, <3>2 DEF LoopsTyped
  <2> QED BY <1>0, <1>1, <2>1, <2>2 DEF Sweep, TypeOK, RestTyped
<1>2. CASE ClaimNothing(s)
  <2>1. LoopsTyped' BY <1>0, <1>2, IdleType DEF ClaimNothing
  <2> QED BY <1>0, <1>2, <2>1, FaultsAssumption
          DEF ClaimNothing, Fault, TypeOK, RowsTyped, RestTyped
<1>3. ASSUME NEW j \in Jobs, Claim(s, j) PROVE TypeOK'
  <2>0. row[j] \in Row /\ Process[s] \in Processes BY <1>0 DEF RowsTyped, Processes
  <2>1. RowsTyped' BY <1>0, <1>3, <2>0, ClaimedType, RowUpdate DEF Claim
  <2>2. LoopsTyped'
    <3> DEFINE new == [pc |-> "handling", job |-> j, attempt |-> row[j].attempts + 1,
                       lost |-> FALSE, result |-> "none"]
    <3>1. row[j].attempts + 1 \in Nat BY <2>0 DEF Row
    <3>2. new \in Slot BY <3>1 DEF Slot, Pcs, Results
    <3>3. new.job # NoJob /\ new.pc = "handling" BY JobsAssumption DEF NoJob
    <3>4. slot' = [slot EXCEPT ![s] = new] BY <1>3 DEF Claim
    <3> QED BY <1>0, <3>2, <3>3, <3>4 DEF LoopsTyped
  <2> QED BY <1>0, <1>3, <2>1, <2>2 DEF Claim, TypeOK, RestTyped
<1> QED BY <1>1, <1>2, <1>3 DEF Poll

LEMMA HandleType ==
  ASSUME TypeOK, NEW s \in Slots, Handle(s)
  PROVE  TypeOK'
<1> DEFINE j == slot[s].job
<1>0. RowsTyped /\ LoopsTyped /\ RestTyped BY DEF TypeOK
<1>a. {"rejected", "failing", "replying", "sending", "sent", "completing"}
        \subseteq Pcs \ {"idle", "claiming"}
  BY DEF Pcs
<1>b. {"blocked", "silent", "sent", "unknown"} \subseteq Results
  BY DEF Results
<1>1. CASE Suppress(s)
  <2>1. LoopsTyped' BY <1>0, <1>1, <1>a, <1>b, GotoType, FinishType DEF Suppress
  <2> QED BY <1>0, <1>1, <2>1 DEF Suppress, TypeOK, RowsTyped, RestTyped
<1>2. CASE Throw(s)
  <2>1. LoopsTyped' BY <1>0, <1>2, <1>a, GotoType DEF Throw
  <2> QED BY <1>0, <1>2, <2>1 DEF Throw, TypeOK, RowsTyped, RestTyped
<1>3. CASE Turn(s)
  <2>1. LoopsTyped' BY <1>0, <1>3, <1>a, <1>b, GotoType, FinishType DEF Turn
  <2>2. RestTyped' BY <1>0, <1>3 DEF Turn, RestTyped
  <2> QED BY <1>0, <1>3, <2>1, <2>2 DEF Turn, TypeOK, RowsTyped
<1>4. CASE MarkSending(s)
  <2>0. j \in Jobs BY <1>0, <1>4, HoldsJob DEF MarkSending
  <2>1. LoopsTyped' BY <1>0, <1>4, <1>a, GotoType DEF MarkSending
  <2>2. row[j] \in Row BY <1>0, <2>0 DEF RowsTyped
  <2>3. RowsTyped' BY <1>0, <1>4, <2>0, <2>2, RowValues, RowUpdate DEF MarkSending
  <2> QED BY <1>0, <1>4, <2>1, <2>3 DEF MarkSending, TypeOK, RestTyped
<1>5. CASE MarkRefused(s)
  <2>1. LoopsTyped' BY <1>0, <1>5, <1>a, GotoType DEF MarkRefused
  <2> QED BY <1>0, <1>5, <2>1, FaultsAssumption
          DEF MarkRefused, Fault, TypeOK, RowsTyped, RestTyped
<1>6. CASE Send(s)
  <2>0. j \in Jobs BY <1>0, <1>6, HoldsJob DEF Send
  <2>1. LoopsTyped'
    <3>1. slot[s].pc \notin {"idle", "claiming"} BY <1>6 DEF Send
    <3>2. \/ Goto(s, "sent") \/ Goto(s, "rejected") \/ Goto(s, "failing")
          \/ Finish(s, "blocked") \/ Finish(s, "unknown")
      BY <1>6 DEF Send
    <3> QED BY <1>0, <3>1, <3>2, <1>a, <1>b, GotoType, FinishType
  <2>2. delivered' \in [Jobs -> Nat]
    <3>1. delivered[j] + 1 \in Nat BY <1>0, <2>0 DEF RestTyped
    <3>2. delivered' = delivered \/ Accept(j) BY <1>6 DEF Send
    <3> QED BY <1>0, <2>0, <3>1, <3>2 DEF Accept, RestTyped
  <2> QED BY <1>0, <1>6, <2>1, <2>2 DEF Send, TypeOK, RowsTyped, RestTyped
<1>7. CASE RecordProviderId(s)
  <2>1. LoopsTyped' BY <1>0, <1>7, <1>a, <1>b, FinishType DEF RecordProviderId
  <2>2. linked' \in [Jobs -> BOOLEAN]
    <3>1. linked' = linked \/ linked' = [linked EXCEPT ![j] = TRUE]
      BY <1>7 DEF RecordProviderId, LinkMessage
    <3> QED BY <1>0, <3>1 DEF RestTyped
  <2>3. faults' \in 0 .. MaxFaults
    BY <1>0, <1>7, FaultsAssumption DEF RecordProviderId, Fault, RestTyped
  <2> QED BY <1>0, <1>7, <2>1, <2>2, <2>3 DEF RecordProviderId, TypeOK, RowsTyped, RestTyped
<1>8. CASE TurnConflicts(s)
  <2>1. LoopsTyped' BY <1>0, <1>8, <1>a, GotoType DEF TurnConflicts
  <2> QED BY <1>0, <1>8, <2>1 DEF TurnConflicts, TypeOK, RowsTyped, RestTyped
<1>9. CASE TurnRefused(s)
  <2>1. LoopsTyped' BY <1>0, <1>9, <1>a, <1>b, FinishType DEF TurnRefused
  <2> QED BY <1>0, <1>9, <2>1 DEF TurnRefused, TypeOK, RowsTyped, RestTyped
<1> QED BY <1>1, <1>2, <1>3, <1>4, <1>5, <1>6, <1>7, <1>8, <1>9 DEF Handle

LEMMA HeartbeatType ==
  ASSUME TypeOK, NEW s \in Slots, Heartbeat(s)
  PROVE  TypeOK'
<1> DEFINE j == slot[s].job
<1>0. RowsTyped /\ LoopsTyped /\ RestTyped BY DEF TypeOK
<1>1. j \in Jobs BY <1>0, HoldsJob DEF Heartbeat
<1>2. RowsTyped'
  <2>1. row[j] \in Row BY <1>0, <1>1 DEF RowsTyped
  <2>2. row' = row \/ row' = [row EXCEPT ![j] = Renewed(row[j], FALSE)] BY DEF Heartbeat
  <2> QED BY <1>0, <1>1, <2>1, <2>2, RowValues DEF RowsTyped
<1>3. LoopsTyped'
  <2> DEFINE new == [slot[s] EXCEPT !.lost = TRUE]
  <2>1. new \in Slot /\ new.job = slot[s].job /\ new.pc = slot[s].pc
    BY <1>0 DEF LoopsTyped, Slot
  <2>2. slot' = slot \/ slot' = [slot EXCEPT ![s] = new] BY DEF Heartbeat
  <2> QED BY <1>0, <2>1, <2>2 DEF LoopsTyped
<1>4. faults' \in 0 .. MaxFaults
  <2>1. faults' = faults \/ Fault("db") BY DEF Heartbeat
  <2> QED BY <1>0, <2>1, FaultsAssumption DEF Fault, RestTyped
<1> QED BY <1>0, <1>2, <1>3, <1>4 DEF Heartbeat, TypeOK, RestTyped

LEMMA WriteBackType ==
  ASSUME TypeOK, NEW s \in Slots, WriteBack(s)
  PROVE  TypeOK'
<1> DEFINE j == slot[s].job
<1>0. RowsTyped /\ LoopsTyped /\ RestTyped BY DEF TypeOK
<1>a. {"failing", "linking", "clearing"} \subseteq Pcs \ {"idle", "claiming"} BY DEF Pcs
<1>b. slot[s].pc \notin {"idle", "claiming"}
  BY DEF WriteBack, ClearSending, CompleteJob, CompleteFails, LinkAfterComplete, ClearAfterLink,
         FailRead, FailWrite, FailJobFails
<1>c. j \in Jobs /\ slot[s].result \in Results BY <1>0, <1>b, HoldsJob DEF LoopsTyped, Slot
<1>d. row[j] \in Row BY <1>0, <1>c DEF RowsTyped
<1>1. CASE ClearSending(s)
  <2>1. LoopsTyped' BY <1>0, <1>1, <1>a, <1>b, GotoType DEF ClearSending
  <2>2. row' = row \/ row' = [row EXCEPT ![j] = [row[j] EXCEPT !.outbound = "FAILED"]]
    BY <1>1 DEF ClearSending
  <2>3. RowsTyped' BY <1>0, <1>c, <1>d, <2>2, RowValues DEF RowsTyped
  <2> QED BY <1>0, <1>1, <2>1, <2>3, FaultsAssumption DEF ClearSending, Fault, TypeOK, RestTyped
<1>2. CASE CompleteJob(s)
  <2>1. LoopsTyped' BY <1>0, <1>2, <1>a, <1>b, GotoType, IdleType DEF CompleteJob
  <2>2. row' = row \/ row' = [row EXCEPT ![j] = Completed(row[j], slot[s].result)]
    BY <1>2 DEF CompleteJob
  <2>3. RowsTyped' BY <1>0, <1>c, <1>d, <2>2, ResultType DEF RowsTyped
  <2> QED BY <1>0, <1>2, <2>1, <2>3 DEF CompleteJob, TypeOK, RestTyped
<1>3. CASE CompleteFails(s)
  <2>1. LoopsTyped' BY <1>0, <1>3, <1>a, <1>b, GotoType DEF CompleteFails
  <2> QED BY <1>0, <1>3, <2>1, FaultsAssumption
          DEF CompleteFails, Fault, TypeOK, RowsTyped, RestTyped
<1>4. CASE LinkAfterComplete(s)
  <2>1. LoopsTyped' BY <1>0, <1>4, <1>a, <1>b, GotoType, IdleType DEF LinkAfterComplete
  <2>2. linked' \in [Jobs -> BOOLEAN]
    <3>1. linked' = linked \/ linked' = [linked EXCEPT ![j] = TRUE]
      BY <1>4 DEF LinkAfterComplete, LinkOutbound
    <3> QED BY <1>0, <3>1 DEF RestTyped
  <2>3. faults' \in 0 .. MaxFaults
    BY <1>0, <1>4, FaultsAssumption DEF LinkAfterComplete, Fault, RestTyped
  <2> QED BY <1>0, <1>4, <2>1, <2>2, <2>3 DEF LinkAfterComplete, TypeOK, RowsTyped, RestTyped
<1>5. CASE FailRead(s)
  <2> DEFINE new == [slot[s] EXCEPT !.pc = "requeueing", !.result = FailVerdict(row[j])]
  <2>1. FailVerdict(row[j]) \in Results BY DEF FailVerdict, Results
  <2>2. new \in Slot /\ new.job = slot[s].job /\ new.pc = "requeueing"
    BY <1>0, <2>1 DEF LoopsTyped, Slot, Pcs
  <2>3. slot' = [slot EXCEPT ![s] = new] BY <1>5 DEF FailRead
  <2>4. LoopsTyped' BY <1>0, <1>b, <2>2, <2>3 DEF LoopsTyped
  <2> QED BY <1>0, <1>5, <2>4 DEF FailRead, TypeOK, RowsTyped, RestTyped
<1>6. CASE FailWrite(s)
  <2>1. LoopsTyped' BY <1>0, <1>6, IdleType DEF FailWrite
  <2>2. row' = row \/ row' = [row EXCEPT ![j] = Requeued(row[j], slot[s].result)]
    BY <1>6 DEF FailWrite
  <2>3. RowsTyped' BY <1>0, <1>c, <1>d, <2>2, ResultType DEF RowsTyped
  <2> QED BY <1>0, <1>6, <2>1, <2>3 DEF FailWrite, TypeOK, RestTyped
<1>7. CASE FailJobFails(s)
  <2>1. LoopsTyped' BY <1>0, <1>7, IdleType DEF FailJobFails
  <2> QED BY <1>0, <1>7, <2>1, FaultsAssumption
          DEF FailJobFails, Fault, TypeOK, RowsTyped, RestTyped
<1>8. CASE ClearAfterLink(s)
  <2>1. LoopsTyped' BY <1>0, <1>8, IdleType DEF ClearAfterLink
  <2>2. row' = row \/ row' = [row EXCEPT ![j] = [row[j] EXCEPT !.linkPending = FALSE]]
    BY <1>8 DEF ClearAfterLink, ClearMarker
  <2>3. RowsTyped' BY <1>0, <1>c, <1>d, <2>2, RowValues DEF RowsTyped
  <2> QED BY <1>0, <1>8, <2>1, <2>3, FaultsAssumption DEF ClearAfterLink, Fault, TypeOK, RestTyped
<1> QED BY <1>1, <1>2, <1>3, <1>4, <1>5, <1>6, <1>7, <1>8 DEF WriteBack

LEMMA ProcessType ==
  ASSUME TypeOK, NEW p \in Processes, Crash(p) \/ Shutdown(p) \/ Restart(p)
  PROVE  TypeOK'
<1>0. RowsTyped /\ LoopsTyped /\ RestTyped BY DEF TypeOK
<1>1. CASE Crash(p)
  <2>1. IdleSlot \in Slot /\ IdleSlot.job = NoJob /\ IdleSlot.pc = "idle"
    BY DEF IdleSlot, Slot, NoJob, Pcs, Results
  <2>2. LoopsTyped' BY <1>0, <1>1, <2>1 DEF Crash, LoopsTyped
  <2> QED BY <1>0, <1>1, <2>2, FaultsAssumption
          DEF Crash, Fault, TypeOK, RowsTyped, RestTyped
<1>2. CASE Shutdown(p)
  BY <1>0, <1>2, FaultsAssumption DEF Shutdown, Fault, TypeOK, RowsTyped, LoopsTyped, RestTyped
<1>3. CASE Restart(p)
  BY <1>0, <1>3 DEF Restart, TypeOK, RowsTyped, LoopsTyped, RestTyped
<1> QED BY <1>1, <1>2, <1>3

LEMMA StepType == TypeOK /\ [Next]_vars => TypeOK'
<1> SUFFICES ASSUME TypeOK, [Next]_vars PROVE TypeOK'
  OBVIOUS
<1>1. CASE UNCHANGED vars
  BY <1>1 DEF TypeOK, RowsTyped, LoopsTyped, RestTyped, vars
<1>2. CASE Next
  BY <1>2, EnvironmentType, PollType, HandleType, HeartbeatType, WriteBackType, ProcessType
     DEF Next, SlotStep
<1> QED BY <1>1, <1>2

\* The job table, the loops' local state and the counters never leave their domains,
\* and a loop holds a job exactly while it is past a successful claim.
THEOREM TypeCorrect == Spec => []TypeOK
  BY InitType, StepType, PTL DEF Spec

-----------------------------------------------------------------------------
(* At most one delivery *)

LEMMA InitInd == Init => Ind
<1> SUFFICES ASSUME Init PROVE Ind
  OBVIOUS
<1>1. TypeOK BY InitType
<1>2. \A j \in Jobs : RowInv(j) BY DEF Init, RowInv, AbsentRow, Terminal
<1>3. \A s \in Slots : ~Active(s) BY DEF Init, Active, IdleSlot
<1> QED BY <1>1, <1>2, <1>3 DEF Ind, Core, LoopInv, PairInv

\* What is typed, in the form the steps below use it.
LEMMA TypedRow ==
  ASSUME TypeOK, NEW j \in Jobs
  PROVE  row[j] \in Row /\ row[j].attempts \in Nat /\ delivered[j] \in Nat
  BY DEF TypeOK, RowsTyped, RestTyped, Row

LEMMA TypedLoop ==
  ASSUME TypeOK, NEW s \in Slots
  PROVE  /\ slot[s] \in Slot /\ slot[s].attempt \in Nat
         /\ Active(s) => slot[s].job \in Jobs
  BY DEF TypeOK, LoopsTyped, Slot, Active

\* The fields of a loop after each kind of change, and that no other loop is touched.
LEMMA GotoFields ==
  ASSUME LoopsTyped, NEW s \in Slots, NEW pc, Goto(s, pc)
  PROVE  /\ slot'[s].pc = pc /\ slot'[s].job = slot[s].job
         /\ slot'[s].attempt = slot[s].attempt /\ slot'[s].result = slot[s].result
         /\ \A t \in Slots \ {s} : slot'[t] = slot[t]
<1>1. slot' = [slot EXCEPT ![s] = [slot[s] EXCEPT !.pc = pc]] BY DEF Goto
<1>2. slot'[s] = [slot[s] EXCEPT !.pc = pc] BY <1>1 DEF LoopsTyped
<1>3. slot[s] \in Slot BY DEF LoopsTyped
<1>4. \A t \in Slots \ {s} : slot'[t] = slot[t] BY <1>1 DEF LoopsTyped
<1> QED BY <1>2, <1>3, <1>4 DEF Slot

LEMMA FinishFields ==
  ASSUME LoopsTyped, NEW s \in Slots, NEW result, Finish(s, result)
  PROVE  /\ slot'[s].pc = "completing" /\ slot'[s].job = slot[s].job
         /\ slot'[s].attempt = slot[s].attempt /\ slot'[s].result = result
         /\ \A t \in Slots \ {s} : slot'[t] = slot[t]
<1> DEFINE new == [slot[s] EXCEPT !.pc = "completing", !.result = result]
<1>1. slot' = [slot EXCEPT ![s] = new] BY DEF Finish
<1>2. slot'[s] = new BY <1>1 DEF LoopsTyped
<1>3. slot[s] \in Slot BY DEF LoopsTyped
<1>4. \A t \in Slots \ {s} : slot'[t] = slot[t] BY <1>1 DEF LoopsTyped
<1> QED BY <1>2, <1>3, <1>4 DEF Slot

\* The fields the invariant speaks of are untouched in every row.
SameRows ==
  \A i \in Jobs : /\ row'[i].status = row[i].status /\ row'[i].attempts = row[i].attempts
                 /\ row'[i].outbound = row[i].outbound /\ row'[i].hasId = row[i].hasId
OnlyLoop(s) == \A t \in Slots \ {s} : slot'[t] = slot[t]
SameClaim(s) == slot'[s].job = slot[s].job /\ slot'[s].attempt = slot[s].attempt

LEMMA SameRowInv ==
  ASSUME Ind, SameRows, delivered' = delivered
  PROVE  \A i \in Jobs : RowInv(i)'
  BY DEF Ind, Core, SameRows, RowInv

LEMMA OtherLoopInv ==
  ASSUME Ind, SameRows, delivered' = delivered,
         NEW t \in Slots, slot'[t] = slot[t]
  PROVE  LoopInv(t)'
<1>1. LoopInv(t) BY DEF Ind, Core
<1>2. Active(t) => slot[t].job \in Jobs BY TypedLoop DEF Ind
<1> QED BY <1>1, <1>2 DEF SameRows, LoopInv, Current, Active

\* A loop takes a step of its own that neither writes a row nor marks it SENDING.
LEMMA LoopMoves ==
  ASSUME Ind, NEW s \in Slots, Active(s), SameRows, delivered' = delivered,
         OnlyLoop(s), SameClaim(s), slot'[s].pc # "sending" \/ slot[s].pc = "sending", LoopInv(s)'
  PROVE  Core'
<1>1. \A i \in Jobs : RowInv(i)' BY SameRowInv
<1>2. \A t \in Slots : LoopInv(t)' BY OtherLoopInv DEF OnlyLoop
<1>3. ASSUME NEW t \in Slots, NEW u \in Slots PROVE PairInv(t, u)'
  <2>1. PairInv(t, u) BY DEF Ind, Core
  <2> QED BY <2>1 DEF PairInv, Active, OnlyLoop, SameClaim
<1> QED BY <1>1, <1>2, <1>3 DEF Core

LEMMA LoopIdles ==
  ASSUME Ind, NEW s \in Slots, SameRows, delivered' = delivered,
         OnlyLoop(s), slot'[s].pc \in {"idle", "claiming"}
  PROVE  Core'
<1>1. \A i \in Jobs : RowInv(i)' BY SameRowInv
<1>2. LoopInv(s)' BY DEF LoopInv, Active
<1>3. \A t \in Slots : LoopInv(t)' BY <1>2, OtherLoopInv DEF OnlyLoop
<1>4. ASSUME NEW t \in Slots, NEW u \in Slots PROVE PairInv(t, u)'
  <2>1. PairInv(t, u) BY DEF Ind, Core
  <2> QED BY <2>1 DEF PairInv, Active, OnlyLoop
<1> QED BY <1>1, <1>3, <1>4 DEF Core

\* While a row is PROCESSING, no loop but the one with its current claim may write or send.
LEMMA OthersAreStale ==
  ASSUME Ind, NEW s \in Slots, Active(s), Current(s),
         NEW v \in Slots \ {s}, Active(v), slot[v].job = slot[s].job
  PROVE  slot[v].attempt # row[slot[s].job].attempts /\ slot[v].pc # "sending"
<1>1. LoopInv(v) /\ PairInv(s, v) BY DEF Ind, Core
<1> QED BY <1>1 DEF LoopInv, PairInv, Current, Terminal

\* The holder of the current claim writes its row and moves on.
LEMMA OwnerWrites ==
  ASSUME Ind, NEW s \in Slots, NEW j \in Jobs, slot[s].job = j, Active(s), Current(s),
         \A i \in Jobs \ {j} : row'[i] = row[i],
         row'[j].attempts = row[j].attempts, row'[j].status # "ABSENT",
         delivered' = delivered, OnlyLoop(s),
         slot'[s].pc \in {"idle", "claiming"} \/ SameClaim(s),
         RowInv(j)', LoopInv(s)'
  PROVE  Core'
<1>0. TypeOK BY DEF Ind
<1>1. \A i \in Jobs : RowInv(i)'
  <2>1. ASSUME NEW i \in Jobs, i # j PROVE RowInv(i)'
    <3>1. RowInv(i) BY DEF Ind, Core
    <3> QED BY <2>1, <3>1 DEF RowInv
  <2>2. RowInv(j)' OBVIOUS
  <2> QED BY <2>1, <2>2
<1>2. ASSUME NEW t \in Slots PROVE LoopInv(t)'
  <2>1. CASE t = s BY <2>1
  <2>2. CASE t # s
    <3>1. LoopInv(t) BY DEF Ind, Core
    <3>2. Active(t) => slot[t].job \in Jobs BY <1>0, TypedLoop
    <3>3. slot'[t] = slot[t] BY <2>2 DEF OnlyLoop
    <3>4. CASE slot[t].job = j
      <4>1. Active(t) => slot[t].attempt # row[j].attempts /\ slot[t].pc # "sending"
        BY <2>2, <3>4, OthersAreStale
      <4> QED BY <3>1, <3>3, <3>4, <4>1 DEF LoopInv, Current, Active
    <3>5. CASE slot[t].job # j
      BY <3>1, <3>2, <3>3, <3>5 DEF LoopInv, Current, Active
    <3> QED BY <3>4, <3>5
  <2> QED BY <2>1, <2>2
<1>3. ASSUME NEW t \in Slots, NEW u \in Slots PROVE PairInv(t, u)'
  <2>1. PairInv(t, u) BY DEF Ind, Core
  <2>2. \A v \in Slots \ {s} : Active(v) /\ slot[v].job = j => slot[v].pc # "sending"
    BY OthersAreStale
  <2>3. CASE t = s /\ u # s BY <2>1, <2>2, <2>3 DEF PairInv, Active, OnlyLoop, SameClaim
  <2>4. CASE u = s /\ t # s BY <2>1, <2>2, <2>4 DEF PairInv, Active, OnlyLoop, SameClaim
  <2>5. CASE t # s /\ u # s BY <2>1, <2>5 DEF PairInv, Active, OnlyLoop
  <2>6. CASE t = u BY <2>6 DEF PairInv
  <2> QED BY <2>3, <2>4, <2>5, <2>6
<1> QED BY <1>1, <1>2, <1>3 DEF Core

-----------------------------------------------------------------------------
(* The steps of the environment keep the invariant *)

LEMMA EnqueueInd ==
  ASSUME Ind, NEW j \in Jobs, Enqueue(j)
  PROVE  Core'
<1>0. TypeOK /\ RowsTyped BY DEF Ind, TypeOK
<1>1. /\ row'[j] = [row[j] EXCEPT !.status = "PENDING"]
      /\ \A i \in Jobs \ {j} : row'[i] = row[i]
      /\ row[j].status = "ABSENT" /\ slot' = slot /\ delivered' = delivered
  BY <1>0 DEF Enqueue, RowsTyped
<1>2. /\ row'[j].status = "PENDING" /\ row'[j].attempts = row[j].attempts
      /\ row'[j].outbound = row[j].outbound /\ row'[j].hasId = row[j].hasId
  BY <1>0, <1>1, TypedRow DEF Row
<1>3. ASSUME NEW i \in Jobs PROVE RowInv(i)'
  <2>1. RowInv(i) BY DEF Ind, Core
  <2> QED BY <2>1, <1>1, <1>2 DEF RowInv, Terminal
<1>4. ASSUME NEW t \in Slots PROVE LoopInv(t)'
  <2>1. LoopInv(t) BY DEF Ind, Core
  <2>2. Active(t) => slot[t].job \in Jobs /\ slot[t].job # j
    BY <1>0, <1>1, <2>1, TypedLoop DEF LoopInv
  <2> QED BY <1>1, <2>1, <2>2 DEF LoopInv, Current, Active
<1>5. \A t, u \in Slots : PairInv(t, u)' BY <1>1 DEF Ind, Core, PairInv, Active
<1> QED BY <1>3, <1>4, <1>5 DEF Core

LEMMA EnvironmentInd ==
  ASSUME Ind, NEW j \in Jobs, Time(j) \/ Stall(j) \/ SweepLink(j)
  PROVE  Core'
<1>0. TypeOK /\ RowsTyped BY DEF Ind, TypeOK
<1>1. slot' = slot /\ delivered' = delivered
  BY DEF Time, LeaseRunsOut, BackoffElapses, Stall, SweepLink, ReconcileLink, ReconcileClear
<1>2. \/ row' = row
      \/ row' = [row EXCEPT ![j] = [row[j] EXCEPT !.expired = TRUE]]
      \/ row' = [row EXCEPT ![j] = [row[j] EXCEPT !.ready = TRUE]]
      \/ row' = [row EXCEPT ![j] = [row[j] EXCEPT !.linkPending = FALSE]]
  BY DEF Time, LeaseRunsOut, BackoffElapses, Stall, SweepLink, ReconcileLink, ReconcileClear,
         ClearMarker
<1>3. SameRows BY <1>0, <1>2, TypedRow DEF SameRows, RowsTyped, Row
<1>4. \A t \in Slots : LoopInv(t)' BY <1>1, <1>3, OtherLoopInv
<1>5. \A t, u \in Slots : PairInv(t, u)' BY <1>1 DEF Ind, Core, PairInv, Active
<1> QED BY <1>1, <1>3, <1>4, <1>5, SameRowInv DEF Core

LEMMA CrashInd ==
  ASSUME Ind, NEW p \in Processes, Crash(p)
  PROVE  Core'
<1>1. SameRows /\ delivered' = delivered BY DEF Crash, SameRows
<1>2. \A t \in Slots : slot'[t] = slot[t] \/ slot'[t] = IdleSlot BY DEF Crash
<1>3. ASSUME NEW t \in Slots PROVE LoopInv(t)'
  <2>1. CASE slot'[t] = slot[t] BY <1>1, <2>1, OtherLoopInv
  <2>2. CASE slot'[t] = IdleSlot BY <2>2 DEF LoopInv, Active, IdleSlot
  <2> QED BY <1>2, <2>1, <2>2
<1>4. ASSUME NEW t \in Slots, NEW u \in Slots PROVE PairInv(t, u)'
  <2>1. PairInv(t, u) BY DEF Ind, Core
  <2> QED BY <1>2, <2>1 DEF PairInv, Active, IdleSlot
<1> QED BY <1>1, <1>3, <1>4, SameRowInv DEF Core

-----------------------------------------------------------------------------
(* The steps of a loop keep the invariant *)

LEMMA MarkSendingInd ==
  ASSUME Ind, NEW s \in Slots, NEW j \in Jobs, slot[s].job = j, MarkSending(s)
  PROVE  Core'
<1>0. TypeOK /\ LoopsTyped /\ RowsTyped BY DEF Ind, TypeOK
<1>1. Active(s) BY DEF MarkSending, Active
<1>2. Current(s) /\ slot[s].pc = "replying" BY DEF MarkSending, CanRenew, OwnsClaim, Current
<1>3. LoopInv(s) /\ RowInv(j) BY <1>1 DEF Ind, Core
<1>4. row[j].status = "PROCESSING" /\ delivered[j] = 0
  BY <1>1, <1>2, <1>3 DEF LoopInv, RowInv, Current
<1>5. row'[j] = Renewed(row[j], TRUE) /\ \A i \in Jobs \ {j} : row'[i] = row[i]
  BY <1>0, <1>1 DEF MarkSending, RowsTyped
<1>6. row'[j].status = row[j].status /\ row'[j].attempts = row[j].attempts
      /\ row'[j].outbound = "SENDING" /\ row'[j].hasId = row[j].hasId
  BY <1>0, <1>1, <1>5, TypedRow DEF Renewed, Row
<1>7. SameClaim(s) /\ OnlyLoop(s) /\ slot'[s].pc = "sending" /\ delivered' = delivered
  BY <1>0, GotoFields DEF MarkSending, SameClaim, OnlyLoop
<1>8. RowInv(j)' BY <1>3, <1>4, <1>6, <1>7 DEF RowInv, Terminal
<1>9. LoopInv(s)' BY <1>1, <1>2, <1>3, <1>4, <1>6, <1>7 DEF LoopInv, Current, Active, SameClaim
<1> QED BY <1>1, <1>2, <1>4, <1>5, <1>6, <1>7, <1>8, <1>9, OwnerWrites

LEMMA SweepInd ==
  ASSUME Ind, NEW s \in Slots, Sweep(s)
  PROVE  Core'
<1>0. TypeOK /\ LoopsTyped BY DEF Ind, TypeOK
<1>1. /\ slot'[s].pc = "claiming" /\ delivered' = delivered
      /\ OnlyLoop(s)
  BY <1>0, GotoFields DEF Sweep, OnlyLoop
<1>2. ASSUME NEW i \in Jobs
      PROVE  \/ row'[i] = row[i]
             \/ /\ row[i].status = "PROCESSING" /\ row[i].outbound = "SENDING"
                /\ row'[i].status = "FAILED" /\ row'[i].outbound = "UNKNOWN"
                /\ row'[i].attempts = row[i].attempts /\ row'[i].hasId = row[i].hasId
  <2>1. row'[i] = Swept(row[i]) BY DEF Sweep
  <2>2. row[i] \in Row BY <1>0, TypedRow
  <2> QED BY <2>1, <2>2 DEF Swept, Row
<1>3. ASSUME NEW i \in Jobs PROVE RowInv(i)'
  <2>1. RowInv(i) BY DEF Ind, Core
  <2> QED BY <1>1, <1>2, <2>1 DEF RowInv, Terminal
<1>4. ASSUME NEW t \in Slots PROVE LoopInv(t)'
  <2>1. CASE t = s BY <1>1, <2>1 DEF LoopInv, Active
  <2>2. CASE t # s
    <3>1. LoopInv(t) BY DEF Ind, Core
    <3>2. slot'[t] = slot[t] BY <1>1, <2>2 DEF OnlyLoop
    <3>3. Active(t) => slot[t].job \in Jobs BY <1>0, TypedLoop
    <3>4. Active(t) => RowInv(slot[t].job) BY <3>3 DEF Ind, Core
    <3> QED BY <1>1, <1>2, <3>1, <3>2, <3>3, <3>4 DEF LoopInv, RowInv, Current, Active, Terminal
  <2> QED BY <2>1, <2>2
<1>5. ASSUME NEW t \in Slots, NEW u \in Slots PROVE PairInv(t, u)'
  <2>1. PairInv(t, u) BY DEF Ind, Core
  <2> QED BY <1>1, <2>1 DEF PairInv, Active, OnlyLoop
<1> QED BY <1>3, <1>4, <1>5 DEF Core

LEMMA ClaimInd ==
  ASSUME Ind, NEW s \in Slots, NEW j \in Jobs, Claim(s, j)
  PROVE  Core'
<1>0. TypeOK /\ LoopsTyped /\ RowsTyped BY DEF Ind, TypeOK
<1>1. row[j].status \in {"PENDING", "PROCESSING"} /\ row[j].outbound # "SENDING"
  <2>1. RowInv(j) BY DEF Ind, Core
  <2> QED BY <2>1 DEF Claim, Claimable, RowInv
<1>2. /\ row'[j].status = "PROCESSING" /\ row'[j].attempts = row[j].attempts + 1
      /\ row'[j].outbound = row[j].outbound /\ row'[j].hasId = row[j].hasId
      /\ \A i \in Jobs \ {j} : row'[i] = row[i]
  <2>1. row'[j] = Claimed(row[j], Process[s]) BY <1>0 DEF Claim, RowsTyped
  <2>2. row[j] \in Row BY <1>0, TypedRow
  <2>3. \A i \in Jobs \ {j} : row'[i] = row[i] BY <1>0 DEF Claim, RowsTyped
  <2> QED BY <2>1, <2>2, <2>3 DEF Claimed, Row
<1>3. /\ slot'[s].pc = "handling" /\ slot'[s].job = j /\ slot'[s].attempt = row[j].attempts + 1
      /\ OnlyLoop(s) /\ delivered' = delivered /\ row[j].attempts \in Nat
  BY <1>0, TypedRow DEF Claim, LoopsTyped, OnlyLoop
<1>4. ASSUME NEW i \in Jobs PROVE RowInv(i)'
  <2>1. RowInv(i) BY DEF Ind, Core
  <2> QED BY <1>1, <1>2, <1>3, <2>1 DEF RowInv, Terminal
\* Every other claim of this row is older than the new one.
<1>5. ASSUME NEW t \in Slots \ {s}, Active(t), slot[t].job = j
      PROVE  slot[t].attempt < row'[j].attempts /\ slot[t].pc # "sending"
  <2>1. LoopInv(t) /\ slot[t].attempt \in Nat BY <1>0, TypedLoop DEF Ind, Core
  <2> QED BY <1>1, <1>2, <1>3, <1>5, <2>1 DEF LoopInv, Terminal, Current
<1>6. ASSUME NEW t \in Slots PROVE LoopInv(t)'
  <2>1. CASE t = s BY <1>1, <1>2, <1>3, <2>1 DEF LoopInv, Current, Active
  <2>2. CASE t # s
    <3>1. LoopInv(t) BY DEF Ind, Core
    <3>2. slot'[t] = slot[t] /\ slot[t].attempt \in Nat
      BY <1>0, <1>3, <2>2, TypedLoop DEF OnlyLoop
    <3>3. Active(t) => slot[t].job \in Jobs BY <1>0, TypedLoop
    <3>4. CASE slot[t].job = j
      BY <1>2, <1>3, <1>5, <2>2, <3>1, <3>2, <3>4 DEF LoopInv, Current, Active
    <3>5. CASE slot[t].job # j
      BY <1>2, <1>3, <3>1, <3>2, <3>3, <3>5 DEF LoopInv, Current, Active
    <3> QED BY <3>4, <3>5
  <2> QED BY <2>1, <2>2
<1>7. ASSUME NEW t \in Slots, NEW u \in Slots PROVE PairInv(t, u)'
  <2>1. PairInv(t, u) BY DEF Ind, Core
  <2>2. \A v \in Slots \ {s} : Active(v) /\ slot[v].job = j => slot[v].attempt # row'[j].attempts
    <3>1. \A v \in Slots : slot[v].attempt \in Nat BY <1>0, TypedLoop
    <3> QED BY <1>2, <1>3, <1>5, <3>1
  <2>3. CASE t = s /\ u # s BY <1>2, <1>3, <2>2, <2>3 DEF PairInv, Active, OnlyLoop
  <2>4. CASE u = s /\ t # s BY <1>2, <1>3, <2>2, <2>4 DEF PairInv, Active, OnlyLoop
  <2>5. CASE t # s /\ u # s BY <1>3, <2>1, <2>5 DEF PairInv, Active, OnlyLoop
  <2>6. CASE t = u BY <2>6 DEF PairInv
  <2> QED BY <2>3, <2>4, <2>5, <2>6
<1> QED BY <1>4, <1>6, <1>7 DEF Core

\* A loop that gives up its job keeps the invariant whatever it leaves in the table.
LEMMA IdleFields ==
  ASSUME LoopsTyped, NEW s \in Slots, Idle(s)
  PROVE  slot'[s].pc = "idle" /\ OnlyLoop(s)
  BY DEF LoopsTyped, Idle, IdleSlot, OnlyLoop

LEMMA HandleInd ==
  ASSUME Ind, NEW s \in Slots, Handle(s), ~MarkSending(s), ~Send(s)
  PROVE  Core'
<1> DEFINE j == slot[s].job
<1>0. LoopsTyped /\ TypeOK BY DEF Ind, TypeOK
<1>1. Active(s) /\ j \in Jobs
  BY <1>0, TypedLoop DEF Handle, Suppress, Throw, Turn, TurnConflicts, TurnRefused, MarkRefused,
                         RecordProviderId, Active
<1>2. SameRows /\ delivered' = delivered
  BY DEF Handle, Suppress, Throw, Turn, TurnConflicts, TurnRefused, MarkRefused, RecordProviderId,
         SameRows
<1>3. LoopInv(s) /\ RowInv(j) BY <1>1 DEF Ind, Core
\* After a change of pc alone to a value the invariant says little of.
<1>4. ASSUME NEW pc \in {"rejected", "failing", "replying"}, Goto(s, pc),
             slot[s].pc \in {"handling", "replying"}
      PROVE  Core'
  <2>1. SameClaim(s) /\ OnlyLoop(s) /\ slot'[s].pc = pc
    BY <1>0, <1>4, GotoFields DEF SameClaim, OnlyLoop
  <2>2. LoopInv(s)'
    BY <1>1, <1>2, <1>3, <1>4, <2>1 DEF LoopInv, RowInv, Current, Active, SameRows, SameClaim
  <2> QED BY <1>1, <1>2, <2>1, <2>2, LoopMoves
<1>5. ASSUME NEW result \in {"blocked", "silent"}, Finish(s, result),
             slot[s].pc \in {"handling", "replying"}
      PROVE  Core'
  <2>1. /\ SameClaim(s) /\ OnlyLoop(s)
        /\ slot'[s].pc = "completing" /\ slot'[s].result = result
    BY <1>0, <1>5, FinishFields DEF SameClaim, OnlyLoop
  <2>2. LoopInv(s)'
    BY <1>1, <1>2, <1>3, <1>5, <2>1 DEF LoopInv, RowInv, Current, Active, SameRows, SameClaim
  <2> QED BY <1>1, <1>2, <2>1, <2>2, LoopMoves
<1>6. CASE Suppress(s) BY <1>4, <1>5, <1>6 DEF Suppress
<1>7. CASE Throw(s) BY <1>4, <1>7 DEF Throw
<1>8. CASE Turn(s) BY <1>4, <1>5, <1>8 DEF Turn
<1>9. CASE MarkRefused(s) BY <1>4, <1>9 DEF MarkRefused
<1>10. CASE RecordProviderId(s)
  <2>1. /\ SameClaim(s) /\ OnlyLoop(s)
        /\ slot'[s].pc = "completing" /\ slot'[s].result = "sent"
    BY <1>0, <1>10, FinishFields DEF RecordProviderId, SameClaim, OnlyLoop
  <2>2. slot[s].pc = "sent" BY <1>10 DEF RecordProviderId
  <2>3. LoopInv(s)'
    BY <1>1, <1>2, <1>3, <2>1, <2>2 DEF LoopInv, Current, Active, SameRows, SameClaim
  <2> QED BY <1>1, <1>2, <2>1, <2>3, LoopMoves
<1>11. CASE TurnConflicts(s) BY <1>4, <1>11 DEF TurnConflicts
<1>12. CASE TurnRefused(s) BY <1>5, <1>12 DEF TurnRefused
<1> QED BY <1>6, <1>7, <1>8, <1>9, <1>10, <1>11, <1>12 DEF Handle

\* The send itself: the only step that delivers, and only one loop can be at it.
LEMMA SendInd ==
  ASSUME Ind, NEW s \in Slots, Send(s)
  PROVE  Core'
<1> DEFINE j == slot[s].job
<1>0. LoopsTyped /\ TypeOK /\ RestTyped BY DEF Ind, TypeOK
<1>1. Active(s) /\ j \in Jobs /\ slot[s].pc = "sending" BY <1>0, TypedLoop DEF Send, Active
<1>2. LoopInv(s) /\ RowInv(j) BY <1>1 DEF Ind, Core
<1>3. /\ delivered[j] = 0 /\ ~row[j].hasId
      /\ \/ Current(s) /\ row[j].outbound = "SENDING"
         \/ row[j].status \in Terminal /\ row[j].outbound = "UNKNOWN"
  BY <1>1, <1>2 DEF LoopInv, RowInv
<1>4. row' = row BY DEF Send
<1>5. /\ delivered'[j] \in {0, 1}
      /\ \A i \in Jobs \ {j} : delivered'[i] = delivered[i]
  <2>1. delivered' = delivered \/ Accept(j) BY DEF Send
  <2> QED BY <1>0, <1>1, <1>3, <2>1 DEF Accept, RestTyped
<1>6. /\ SameClaim(s) /\ OnlyLoop(s)
      /\ \/ slot'[s].pc = "sent" /\ delivered'[j] = 1
         \/ slot'[s].pc \in {"rejected", "failing"} /\ delivered'[j] = 0
         \/ /\ slot'[s].pc = "completing"
            /\ slot'[s].result = "blocked" /\ (j \in QrJobs \/ delivered'[j] = 0)
         \/ slot'[s].pc = "completing" /\ slot'[s].result = "unknown"
  <2>1. CASE Accept(j) /\ Goto(s, "sent")
    BY <1>0, <1>1, <1>3, <2>1, GotoFields DEF Accept, SameClaim, OnlyLoop, RestTyped
  <2>2. CASE (Goto(s, "rejected") \/ Goto(s, "failing")) /\ UNCHANGED delivered
    BY <1>0, <1>3, <2>2, GotoFields DEF SameClaim, OnlyLoop
  <2>3. CASE Finish(s, "blocked") /\ UNCHANGED delivered
    BY <1>0, <1>3, <2>3, FinishFields DEF SameClaim, OnlyLoop
  <2>4. CASE Finish(s, IF j \in QrJobs THEN "blocked" ELSE "unknown")
    BY <1>0, <2>4, FinishFields DEF SameClaim, OnlyLoop
  <2> QED BY <2>1, <2>2, <2>3, <2>4 DEF Send
<1>7. ASSUME NEW i \in Jobs PROVE RowInv(i)'
  <2>1. RowInv(i) BY DEF Ind, Core
  <2>2. CASE i = j
    <3>1. row[j].status = "PROCESSING" \/ row[j].status \in Terminal BY <1>3 DEF Current
    <3> QED BY <1>2, <1>3, <1>4, <1>5, <2>2, <3>1 DEF RowInv, Terminal, Current
  <2>3. CASE i # j BY <1>4, <1>5, <2>1, <2>3 DEF RowInv
  <2> QED BY <2>2, <2>3
\* Another loop on this row is neither current nor sending.
<1>8. ASSUME NEW t \in Slots \ {s}, Active(t), slot[t].job = j
      PROVE  ~(Current(t) /\ row[j].status = "PROCESSING") /\ slot[t].pc # "sending"
  <2>1. PairInv(s, t) BY DEF Ind, Core
  <2> QED BY <1>1, <1>3, <1>8, <2>1 DEF PairInv, Current, Terminal
<1>9. ASSUME NEW t \in Slots PROVE LoopInv(t)'
  <2>1. CASE t = s BY <1>1, <1>2, <1>4, <1>6, <2>1 DEF LoopInv, Current, Active, SameClaim
  <2>2. CASE t # s
    <3>1. LoopInv(t) BY DEF Ind, Core
    <3>2. slot'[t] = slot[t] BY <1>6, <2>2 DEF OnlyLoop
    <3>3. Active(t) => slot[t].job \in Jobs BY <1>0, TypedLoop
    <3>4. CASE slot[t].job = j
      BY <1>3, <1>4, <1>5, <1>8, <2>2, <3>1, <3>2, <3>4 DEF LoopInv, Current, Active
    <3>5. CASE slot[t].job # j
      BY <1>4, <1>5, <3>1, <3>2, <3>3, <3>5 DEF LoopInv, Current, Active
    <3> QED BY <3>4, <3>5
  <2> QED BY <2>1, <2>2
<1>10. ASSUME NEW t \in Slots, NEW u \in Slots PROVE PairInv(t, u)'
  <2>1. PairInv(t, u) BY DEF Ind, Core
  <2> QED BY <1>1, <1>6, <2>1 DEF PairInv, Active, OnlyLoop, SameClaim
<1> QED BY <1>7, <1>9, <1>10 DEF Core

LEMMA HeartbeatInd ==
  ASSUME Ind, NEW s \in Slots, Heartbeat(s)
  PROVE  Core'
<1> DEFINE j == slot[s].job
<1>0. LoopsTyped /\ RowsTyped /\ TypeOK BY DEF Ind, TypeOK
<1>1. Active(s) /\ j \in Jobs BY <1>0, TypedLoop DEF Heartbeat, Active
<1>2. SameRows /\ delivered' = delivered
  <2> DEFINE new == Renewed(row[j], FALSE)
  <2>1. (row' = row \/ row' = [row EXCEPT ![j] = new]) /\ delivered' = delivered BY DEF Heartbeat
  <2>2. row[j] \in Row BY <1>0, <1>1, TypedRow
  <2>3. new.status = row[j].status /\ new.attempts = row[j].attempts
        /\ new.outbound = row[j].outbound /\ new.hasId = row[j].hasId
    BY <2>2 DEF Renewed, Row
  <2> HIDE DEF new
  <2>4. \A i \in Jobs : row'[i] = row[i] \/ (i = j /\ row'[i] = new)
    BY <1>0, <1>1, <2>1 DEF RowsTyped
  <2> QED BY <2>1, <2>3, <2>4 DEF SameRows
<1>3. SameClaim(s) /\ OnlyLoop(s) /\ slot'[s].pc = slot[s].pc /\ slot'[s].result = slot[s].result
  <2> DEFINE new == [slot[s] EXCEPT !.lost = TRUE]
  <2>1. slot' = slot \/ slot' = [slot EXCEPT ![s] = new] BY DEF Heartbeat
  <2>2. slot[s] \in Slot BY <1>0, TypedLoop
  <2>3. new.pc = slot[s].pc /\ new.job = slot[s].job /\ new.attempt = slot[s].attempt
        /\ new.result = slot[s].result
    BY <2>2 DEF Slot
  <2> QED BY <1>0, <2>1, <2>3 DEF LoopsTyped, SameClaim, OnlyLoop
<1>4. LoopInv(s) BY DEF Ind, Core
<1>5. LoopInv(s)' BY <1>1, <1>2, <1>3, <1>4 DEF LoopInv, Current, Active, SameRows, SameClaim
<1> QED BY <1>1, <1>2, <1>3, <1>5, LoopMoves

LEMMA WriteBackInd ==
  ASSUME Ind, NEW s \in Slots, NEW j \in Jobs, slot[s].job = j, WriteBack(s)
  PROVE  Core'
<1>0. LoopsTyped /\ RowsTyped /\ TypeOK BY DEF Ind, TypeOK
<1>1. Active(s)
  BY DEF WriteBack, ClearSending, CompleteJob, CompleteFails, LinkAfterComplete, ClearAfterLink,
         FailRead, FailWrite, FailJobFails, Active
<1>2. row[j] \in Row BY <1>0, TypedRow
<1>3. LoopInv(s) /\ RowInv(j) BY DEF Ind, Core
<1>4. delivered' = delivered
  BY DEF WriteBack, ClearSending, CompleteJob, CompleteFails, LinkAfterComplete, ClearAfterLink,
         FailRead, FailWrite, FailJobFails
<1>5. OwnsClaim(s) => Current(s) BY DEF OwnsClaim, Current
<1>6. CASE ClearSending(s)
  <2>1. SameClaim(s) /\ OnlyLoop(s) /\ slot'[s].pc = "failing"
    BY <1>0, <1>6, GotoFields DEF ClearSending, SameClaim, OnlyLoop
  <2>2. CASE row' = row
    <3>1. LoopInv(s)' BY <1>1, <1>3, <1>4, <2>1, <2>2 DEF LoopInv, Active, SameClaim
    <3> QED BY <1>1, <1>4, <2>1, <2>2, <3>1, LoopMoves DEF SameRows
  <2>3. CASE OwnsClaim(s) /\ row' = [row EXCEPT ![j].outbound = "FAILED"]
    <3> DEFINE new == [row[j] EXCEPT !.outbound = "FAILED"]
    <3>1. row'[j] = new /\ \A i \in Jobs \ {j} : row'[i] = row[i]
      BY <1>0, <1>2, <2>3 DEF RowsTyped
    <3>2. new.status = row[j].status /\ new.attempts = row[j].attempts
          /\ new.outbound = "FAILED" /\ new.hasId = row[j].hasId
      BY <1>2 DEF Row
    <3>3. row[j].status = "PROCESSING" /\ delivered[j] = 0
      BY <1>1, <1>3, <1>5, <1>6, <2>3 DEF LoopInv, Current, ClearSending
    <3>4. RowInv(j)' BY <1>3, <1>4, <3>1, <3>2, <3>3 DEF RowInv, Terminal
    <3>5. LoopInv(s)'
      BY <1>1, <1>3, <1>4, <2>1, <3>1, <3>2, <3>3 DEF LoopInv, Active, SameClaim
    <3> QED BY <1>1, <1>2, <1>4, <1>5, <2>1, <2>3, <3>1, <3>2, <3>3, <3>4, <3>5, OwnerWrites
  <2> QED BY <1>6, <2>2, <2>3 DEF ClearSending
<1>7. CASE CompleteJob(s)
  <2> DEFINE result == slot[s].result
  <2>1. CASE ~OwnsClaim(s)
    <3>1. OnlyLoop(s) /\ slot'[s].pc = "idle" /\ row' = row
      BY <1>0, <1>7, <2>1, IdleFields DEF CompleteJob
    <3> QED BY <1>4, <3>1, LoopIdles DEF SameRows
  <2>2. CASE OwnsClaim(s)
    <3>1. OnlyLoop(s) /\ (slot'[s].pc = "idle" \/ (slot'[s].pc = "linking" /\ SameClaim(s)))
      <4>1. CASE Goto(s, "linking") BY <1>0, <4>1, GotoFields DEF SameClaim, OnlyLoop
      <4>2. CASE Idle(s)
        <5>1. LoopsTyped BY <1>0
        <5>2. slot'[s].pc = "idle" /\ OnlyLoop(s) BY ONLY <5>1, <4>2, IdleFields
        <5> QED BY <5>2
      <4> QED BY <1>7, <2>2, <4>1, <4>2 DEF CompleteJob
    <3>2. row'[j] = Completed(row[j], result) /\ \A i \in Jobs \ {j} : row'[i] = row[i]
      BY <1>0, <1>2, <1>7, <2>2 DEF CompleteJob, RowsTyped
    <3>3. /\ row'[j].attempts = row[j].attempts
          /\ row'[j].status = IF result = "unknown" THEN "FAILED" ELSE "COMPLETED"
          /\ row'[j].outbound = CASE result = "unknown" -> "UNKNOWN"
                                   [] result = "blocked" -> "FAILED"
                                   [] OTHER -> "SENT"
          /\ row'[j].hasId = (result = "sent")
      BY <1>2, <3>2 DEF Completed, Row
    <3>4. /\ result \in {"silent", "blocked", "sent", "unknown"}
          /\ result = "sent" => delivered[j] = 1
          /\ result = "silent" => delivered[j] = 0
          /\ result = "blocked" /\ j \notin QrJobs => delivered[j] = 0
      BY <1>1, <1>3, <1>5, <1>7, <2>2 DEF LoopInv, CompleteJob
    <3>5. RowInv(j)' BY <1>3, <1>4, <3>3, <3>4 DEF RowInv, Terminal
    <3>6. LoopInv(s)'
      <4>1. CASE slot'[s].pc = "idle" BY <4>1 DEF LoopInv, Active
      <4>2. CASE slot'[s].pc = "linking" /\ SameClaim(s)
        BY <1>1, <1>3, <3>3, <4>2 DEF LoopInv, Active, SameClaim
      <4> QED BY <3>1, <4>1, <4>2
    <3> QED BY <1>1, <1>2, <1>4, <1>5, <2>2, <3>1, <3>2, <3>3, <3>5, <3>6, OwnerWrites
  <2> QED BY <2>1, <2>2
<1>8. CASE CompleteFails(s)
  <2>1. SameClaim(s) /\ OnlyLoop(s) /\ slot'[s].pc = "failing" /\ row' = row
    BY <1>0, <1>8, GotoFields DEF CompleteFails, SameClaim, OnlyLoop
  <2>2. LoopInv(s)' BY <1>1, <1>3, <1>4, <2>1 DEF LoopInv, Active, SameClaim
  <2> QED BY <1>1, <1>4, <2>1, <2>2, LoopMoves DEF SameRows
<1>9. CASE LinkAfterComplete(s)
  <2>1. row' = row BY <1>9 DEF LinkAfterComplete
  <2>2. CASE Idle(s)
    <3>1. OnlyLoop(s) /\ slot'[s].pc = "idle" BY <1>0, <2>2, IdleFields
    <3> QED BY <1>4, <2>1, <3>1, LoopIdles DEF SameRows
  <2>3. CASE Goto(s, "clearing")
    <3>1. SameClaim(s) /\ OnlyLoop(s) /\ slot'[s].pc = "clearing"
      BY <1>0, <2>3, GotoFields DEF SameClaim, OnlyLoop
    <3>2. LoopInv(s)' BY <1>1, <1>3, <1>4, <2>1, <3>1 DEF LoopInv, Active, SameClaim
    <3> QED BY <1>1, <1>4, <2>1, <3>1, <3>2, LoopMoves DEF SameRows
  <2> QED BY <1>9, <2>2, <2>3 DEF LinkAfterComplete
<1>10. CASE FailRead(s)
  <2> DEFINE new == [slot[s] EXCEPT !.pc = "requeueing", !.result = FailVerdict(row[j])]
  <2>1. slot' = [slot EXCEPT ![s] = new] /\ row' = row BY <1>10 DEF FailRead
  <2>2. slot[s] \in Slot BY <1>0, TypedLoop
  <2>3. new.pc = "requeueing" /\ new.result = FailVerdict(row[j])
        /\ new.job = j /\ new.attempt = slot[s].attempt
    BY <2>2 DEF Slot
  <2>4. SameClaim(s) /\ OnlyLoop(s) /\ slot'[s].pc = "requeueing"
        /\ slot'[s].result = FailVerdict(row[j])
    BY <1>0, <2>1, <2>3 DEF LoopsTyped, SameClaim, OnlyLoop
  <2>5. LoopInv(s)'
    BY <1>1, <1>3, <1>4, <2>1, <2>4 DEF LoopInv, Active, SameClaim, FailVerdict
  <2> QED BY <1>1, <1>4, <2>1, <2>4, <2>5, LoopMoves DEF SameRows
<1>11. CASE FailWrite(s)
  <2>1. OnlyLoop(s) /\ slot'[s].pc = "idle" BY <1>0, <1>11, IdleFields DEF FailWrite
  <2>2. CASE ~OwnsClaim(s)
    <3>1. row' = row BY <1>11, <2>2 DEF FailWrite
    <3> QED BY <1>4, <2>1, <3>1, LoopIdles DEF SameRows
  <2>3. CASE OwnsClaim(s)
    <3> DEFINE result == slot[s].result
    <3>1. row'[j] = Requeued(row[j], result) /\ \A i \in Jobs \ {j} : row'[i] = row[i]
      BY <1>0, <1>2, <1>11, <2>3 DEF FailWrite, RowsTyped
    <3>2. /\ row'[j].attempts = row[j].attempts /\ row'[j].hasId = row[j].hasId
          /\ row'[j].status = IF result = "retry" THEN "PENDING" ELSE "FAILED"
          /\ row'[j].outbound = IF result = "uncertain" THEN "UNKNOWN" ELSE row[j].outbound
      BY <1>2, <3>1 DEF Requeued, Row
    <3>3. /\ result \in {"uncertain", "exhausted", "retry"}
          /\ result = "uncertain" <=> row[j].outbound = "SENDING"
          /\ row[j].status = "PROCESSING"
      BY <1>1, <1>3, <1>5, <1>11, <2>3 DEF LoopInv, FailWrite, Current
    <3>4. RowInv(j)' BY <1>3, <1>4, <3>2, <3>3 DEF RowInv, Terminal
    <3>5. LoopInv(s)' BY <2>1 DEF LoopInv, Active
    <3> QED BY <1>1, <1>2, <1>4, <1>5, <2>1, <2>3, <3>1, <3>2, <3>4, <3>5, OwnerWrites
  <2> QED BY <2>2, <2>3
<1>12. CASE FailJobFails(s)
  <2>1. OnlyLoop(s) /\ slot'[s].pc = "idle" /\ row' = row
    BY <1>0, <1>12, IdleFields DEF FailJobFails
  <2> QED BY <1>4, <2>1, LoopIdles DEF SameRows
<1>13. CASE ClearAfterLink(s)
  <2>1. OnlyLoop(s) /\ slot'[s].pc = "idle" BY <1>0, <1>13, IdleFields DEF ClearAfterLink
  <2>2. SameRows
    <3>1. row' = row \/ row' = [row EXCEPT ![j] = [row[j] EXCEPT !.linkPending = FALSE]]
      BY <1>13 DEF ClearAfterLink, ClearMarker
    <3> QED BY <1>0, <1>2, <3>1 DEF SameRows, RowsTyped, Row
  <2> QED BY <1>4, <2>1, <2>2, LoopIdles
<1> QED BY <1>6, <1>7, <1>8, <1>9, <1>10, <1>11, <1>12, <1>13 DEF WriteBack

LEMMA StepInd == Ind /\ [Next]_vars => Ind'
<1> SUFFICES ASSUME Ind, [Next]_vars PROVE Core'
  BY StepType DEF Ind
<1>1. CASE UNCHANGED vars
  BY <1>1 DEF Ind, Core, RowInv, LoopInv, PairInv, Current, Active, vars
<1>2. ASSUME NEW s \in Slots, SlotStep(s) PROVE Core'
  <2>1. CASE Sweep(s) BY <2>1, SweepInd
  <2>2. CASE ClaimNothing(s)
    <3>1. OnlyLoop(s) /\ slot'[s].pc = "idle" /\ row' = row /\ delivered' = delivered
      BY <2>2, IdleFields DEF ClaimNothing, Ind, TypeOK
    <3> QED BY <3>1, LoopIdles DEF SameRows
  <2>3. ASSUME NEW j \in Jobs, Claim(s, j) PROVE Core' BY <2>3, ClaimInd
  <2>4. CASE Handle(s)
    <3>1. MarkSending(s) => slot[s].job \in Jobs BY TypedLoop DEF MarkSending, Ind, Active
    <3> QED BY <2>4, <3>1, HandleInd, MarkSendingInd, SendInd
  <2>5. CASE WriteBack(s)
    <3>1. slot[s].pc \notin {"idle", "claiming"}
      BY <2>5 DEF WriteBack, ClearSending, CompleteJob, CompleteFails, LinkAfterComplete,
                  ClearAfterLink, FailRead, FailWrite, FailJobFails
    <3>2. slot[s].job \in Jobs BY <3>1, TypedLoop DEF Ind, Active
    <3> QED BY <2>5, <3>2, WriteBackInd
  <2> QED BY <1>2, <2>1, <2>2, <2>3, <2>4, <2>5 DEF SlotStep, Poll
<1>3. ASSUME NEW s \in Slots, Heartbeat(s) PROVE Core' BY <1>3, HeartbeatInd
<1>4. ASSUME NEW j \in Jobs, Enqueue(j) \/ Time(j) \/ Stall(j) \/ SweepLink(j) PROVE Core'
  BY <1>4, EnqueueInd, EnvironmentInd
<1>5. ASSUME NEW p \in Processes, Crash(p) \/ Shutdown(p) \/ Restart(p) PROVE Core'
  <2>1. CASE Crash(p) BY <2>1, CrashInd
  <2>2. CASE Shutdown(p) \/ Restart(p)
    <3>1. row' = row /\ slot' = slot /\ delivered' = delivered BY <2>2 DEF Shutdown, Restart
    <3> QED BY <3>1 DEF Ind, Core, RowInv, LoopInv, PairInv, Current, Active
  <2> QED BY <1>5, <2>1, <2>2
<1> QED BY <1>1, <1>2, <1>3, <1>4, <1>5 DEF Next

\* The inductive invariant holds in every reachable state.
THEOREM Inductive == Spec => []Ind
  BY InitInd, StepInd, PTL DEF Spec

\* No interleaving of claims, lost leases, crashes and retries gives the customer the
\* answer to one inbound message twice.
THEOREM DeliveredAtMostOnce == Spec => []AtMostOneDelivery
<1>1. Ind => AtMostOneDelivery BY DEF Ind, Core, RowInv, AtMostOneDelivery
<1> QED BY <1>1, Inductive, PTL

\* A recorded provider id, a Meta failure that is not UNKNOWN, and a job that still
\* waits for another try each tell the truth about what the customer has received.
THEOREM OutcomesAreTruthful == Spec => []TruthfulOutcome
<1>1. Ind => TruthfulOutcome BY DEF Ind, Core, RowInv, TruthfulOutcome
<1> QED BY <1>1, Inductive, PTL

-----------------------------------------------------------------------------
(* Leases and link markers: two invariants that stand on their own *)

Live(i) == row[i].status = "PROCESSING" /\ ~row[i].expired
SameLink(i) == row'[i].hasId = row[i].hasId /\ row'[i].linkPending = row[i].linkPending
\* The step takes the link marker off row i.
Unmarks(i) == ReconcileClear(i) \/ \E s \in Slots : slot[s].job = i /\ ClearAfterLink(s)
\* The step gives row i neither a new lease nor a new link state.
Keeps(i) == SameLink(i) /\ (Live(i)' => Live(i))

LEMMA RowAt ==
  ASSUME RowsTyped, NEW j \in Jobs, NEW new, row' = [row EXCEPT ![j] = new], NEW i \in Jobs
  PROVE  row'[i] = IF i = j THEN new ELSE row[i]
  BY DEF RowsTyped

\* Only a claim starts a lease: every renewal is of a lease that has not run out.
LEMMA EnvironmentRows ==
  ASSUME TypeOK, NEW j \in Jobs, NEW i \in Jobs,
         Enqueue(j) \/ Time(j) \/ Stall(j) \/ SweepLink(j)
  PROVE  Keeps(i) \/ (i = j /\ Unmarks(i) /\ (Live(i)' => Live(i)))
<1>0. RowsTyped /\ row[j] \in Row BY TypedRow DEF TypeOK
<1>1. CASE Enqueue(j)
  <2> DEFINE new == [row[j] EXCEPT !.status = "PENDING"]
  <2>1. row' = [row EXCEPT ![j] = new] BY <1>1 DEF Enqueue
  <2>2. row'[i] = IF i = j THEN new ELSE row[i] BY <1>0, <2>1, RowAt
  <2> QED BY <1>0, <2>2 DEF Keeps, SameLink, Live, Row
<1>2. CASE LeaseRunsOut(j) \/ Stall(j)
  <2> DEFINE new == [row[j] EXCEPT !.expired = TRUE]
  <2>1. row' = [row EXCEPT ![j] = new] BY <1>2 DEF LeaseRunsOut, Stall
  <2>2. row'[i] = IF i = j THEN new ELSE row[i] BY <1>0, <2>1, RowAt
  <2> QED BY <1>0, <2>2 DEF Keeps, SameLink, Live, Row
<1>3. CASE BackoffElapses(j)
  <2> DEFINE new == [row[j] EXCEPT !.ready = TRUE]
  <2>1. row' = [row EXCEPT ![j] = new] BY <1>3 DEF BackoffElapses
  <2>2. row'[i] = IF i = j THEN new ELSE row[i] BY <1>0, <2>1, RowAt
  <2> QED BY <1>0, <2>2 DEF Keeps, SameLink, Live, Row
<1>4. CASE ReconcileLink(j) BY <1>4 DEF ReconcileLink, Keeps, SameLink, Live
<1>5. CASE ReconcileClear(j)
  <2> DEFINE new == [row[j] EXCEPT !.linkPending = FALSE]
  <2>1. row' = [row EXCEPT ![j] = new] BY <1>5 DEF ReconcileClear, ClearMarker, LinkToDo
  <2>2. row'[i] = IF i = j THEN new ELSE row[i] BY <1>0, <2>1, RowAt
  <2>3. i = j => Unmarks(i) BY ONLY <1>5 DEF Unmarks
  <2>4. Live(i)' => Live(i) BY <1>0, <2>2 DEF Live, Row
  <2>5. i # j => Keeps(i) BY <2>2 DEF Keeps, SameLink, Live
  <2> QED BY ONLY <2>3, <2>4, <2>5
<1> QED BY <1>1, <1>2, <1>3, <1>4, <1>5 DEF Time, SweepLink

LEMMA LoopRows ==
  ASSUME TypeOK, NEW s \in Slots, NEW j \in Jobs, slot[s].job = j, NEW i \in Jobs,
         Handle(s) \/ WriteBack(s) \/ Heartbeat(s)
  PROVE  \/ Keeps(i)
         \/ i = j /\ Unmarks(i) /\ (Live(i)' => Live(i))
         \/ /\ ~Live(i)' /\ row'[i].hasId = row'[i].linkPending
<1>0. RowsTyped /\ row[j] \in Row BY TypedRow DEF TypeOK
<1>1. CASE row' = row BY <1>1 DEF Keeps, SameLink, Live
<1>2. ASSUME NEW sending \in BOOLEAN, CanRenew(s), row' = [row EXCEPT ![j] = Renewed(row[j], sending)]
      PROVE  Keeps(i)
  <2> DEFINE new == Renewed(row[j], sending)
  <2>1. row'[i] = IF i = j THEN new ELSE row[i] BY <1>0, <1>2, RowAt
  <2>2. new.hasId = row[j].hasId /\ new.linkPending = row[j].linkPending
        /\ new.status = row[j].status /\ ~new.expired
    BY <1>0 DEF Renewed, Row
  <2>3. Live(j) BY <1>2 DEF CanRenew, OwnsClaim, Live
  <2> QED BY <2>1, <2>2, <2>3 DEF Keeps, SameLink, Live
<1>3. CASE ClearSending(s) /\ row' # row
  <2> DEFINE new == [row[j] EXCEPT !.outbound = "FAILED"]
  <2>1. row' = [row EXCEPT ![j] = new] BY <1>3 DEF ClearSending
  <2>2. row'[i] = IF i = j THEN new ELSE row[i] BY <1>0, <2>1, RowAt
  <2> QED BY <1>0, <2>2 DEF Keeps, SameLink, Live, Row
<1>4. CASE CompleteJob(s) /\ row' # row
  <2> DEFINE new == Completed(row[j], slot[s].result)
  <2>1. row' = [row EXCEPT ![j] = new] BY <1>4 DEF CompleteJob
  <2>2. row'[i] = IF i = j THEN new ELSE row[i] BY <1>0, <2>1, RowAt
  <2>3. new.status # "PROCESSING" /\ new.hasId = new.linkPending BY <1>0 DEF Completed, Row
  <2> QED BY <2>2, <2>3 DEF Keeps, SameLink, Live
<1>5. CASE ClearAfterLink(s) /\ row' # row
  <2> DEFINE new == [row[j] EXCEPT !.linkPending = FALSE]
  <2>1. row' = [row EXCEPT ![j] = new] BY <1>5 DEF ClearAfterLink, ClearMarker
  <2>2. row'[i] = IF i = j THEN new ELSE row[i] BY <1>0, <2>1, RowAt
  <2>3. i = j => Unmarks(i) BY <1>5 DEF Unmarks
  <2>4. Live(i)' => Live(i) BY <1>0, <2>2 DEF Live, Row
  <2>5. i # j => Keeps(i) BY <2>2 DEF Keeps, SameLink, Live
  <2> QED BY ONLY <2>3, <2>4, <2>5
<1>6. CASE FailWrite(s) /\ row' # row
  <2> DEFINE new == Requeued(row[j], slot[s].result)
  <2>1. row' = [row EXCEPT ![j] = new] BY <1>6 DEF FailWrite
  <2>2. row'[i] = IF i = j THEN new ELSE row[i] BY <1>0, <2>1, RowAt
  <2>3. new.status # "PROCESSING" /\ new.hasId = row[j].hasId /\ new.linkPending = row[j].linkPending
    BY <1>0 DEF Requeued, Row
  <2> QED BY <2>2, <2>3 DEF Keeps, SameLink, Live
<1>7. CASE MarkSending(s) BY <1>2, <1>7 DEF MarkSending
<1>8. CASE Heartbeat(s) BY <1>1, <1>2, <1>8 DEF Heartbeat
<1>9. CASE Handle(s) /\ ~MarkSending(s)
  <2>1. row' = row BY <1>9 DEF Handle, Suppress, Throw, Turn, TurnConflicts, TurnRefused,
                               MarkRefused, Send, RecordProviderId
  <2> QED BY <1>1, <2>1
<1>10. CASE CompleteFails(s) \/ LinkAfterComplete(s) \/ FailRead(s) \/ FailJobFails(s)
  BY <1>1, <1>10 DEF CompleteFails, LinkAfterComplete, FailRead, FailJobFails
<1> QED BY <1>1, <1>3, <1>4, <1>5, <1>6, <1>7, <1>8, <1>9, <1>10 DEF WriteBack

LEMMA Works ==
  ASSUME NEW s \in Slots, Handle(s) \/ WriteBack(s) \/ Heartbeat(s)
  PROVE  Active(s)
<1>1. CASE Handle(s)
  BY <1>1 DEF Handle, Suppress, Throw, Turn, TurnConflicts, TurnRefused, MarkSending, MarkRefused,
              Send, RecordProviderId, Active
<1>2. CASE WriteBack(s)
  BY <1>2 DEF WriteBack, ClearSending, CompleteJob, CompleteFails, LinkAfterComplete,
              ClearAfterLink, FailRead, FailWrite, FailJobFails, Active
<1>3. CASE Heartbeat(s) BY <1>3 DEF Heartbeat, Active
<1> QED BY <1>1, <1>2, <1>3

\* No step takes a link away.
LEMMA LinksStay ==
  ASSUME linked \in [Jobs -> BOOLEAN], [Next]_vars, NEW i \in Jobs, linked[i]
  PROVE  linked'[i]
<1>1. CASE UNCHANGED vars BY <1>1 DEF vars
<1>2. ASSUME NEW s \in Slots, SlotStep(s) PROVE linked'[i]
  <2>1. CASE Poll(s) BY <2>1 DEF Poll, Sweep, ClaimNothing, Claim
  <2>2. CASE Handle(s)
    BY <2>2 DEF Handle, Suppress, Throw, Turn, TurnConflicts, TurnRefused, MarkSending,
                MarkRefused, Send, RecordProviderId, LinkMessage
  <2>3. CASE WriteBack(s)
    BY <2>3 DEF WriteBack, ClearSending, CompleteJob, CompleteFails, LinkAfterComplete,
                ClearAfterLink, FailRead, FailWrite, FailJobFails, LinkOutbound
  <2> QED BY <1>2, <2>1, <2>2, <2>3 DEF SlotStep
<1>3. ASSUME NEW s \in Slots, Heartbeat(s) PROVE linked'[i] BY <1>3 DEF Heartbeat
<1>4. ASSUME NEW j \in Jobs, Enqueue(j) \/ Time(j) \/ Stall(j) \/ SweepLink(j)
      PROVE  linked'[i]
  BY <1>4 DEF Enqueue, Time, LeaseRunsOut, BackoffElapses, Stall, SweepLink, ReconcileLink,
              ReconcileClear, LinkOutbound
<1>5. ASSUME NEW p \in Processes, Crash(p) \/ Shutdown(p) \/ Restart(p) PROVE linked'[i]
  BY <1>5 DEF Crash, Shutdown, Restart
<1> QED BY <1>1, <1>2, <1>3, <1>4, <1>5 DEF Next

LEMMA PollRows ==
  ASSUME TypeOK, NEW s \in Slots, Poll(s), NEW i \in Jobs
  PROVE  SameLink(i) /\ (Live(i)' => Live(i) \/ Claim(s, i))
<1>0. RowsTyped /\ row[i] \in Row BY TypedRow DEF TypeOK
<1>1. CASE Sweep(s)
  <2>1. row'[i] = Swept(row[i]) BY <1>1 DEF Sweep
  <2> QED BY <1>0, <2>1 DEF Swept, SameLink, Live, Row
<1>2. CASE ClaimNothing(s) BY <1>2 DEF ClaimNothing, SameLink, Live
<1>3. ASSUME NEW j \in Jobs, Claim(s, j) PROVE SameLink(i) /\ (Live(i)' => Live(i) \/ Claim(s, i))
  <2> DEFINE new == Claimed(row[j], Process[s])
  <2>1. row' = [row EXCEPT ![j] = new] BY <1>3 DEF Claim
  <2>2. row'[i] = IF i = j THEN new ELSE row[i] BY <1>0, <2>1, RowAt
  <2>3. SameLink(i) BY <1>0, <2>2 DEF Claimed, SameLink, Row
  <2>4. i # j => (Live(i)' => Live(i)) BY <2>2 DEF Live
  <2>5. i = j => Claim(s, i) BY ONLY <1>3
  <2> QED BY ONLY <2>3, <2>4, <2>5
<1> QED BY <1>1, <1>2, <1>3 DEF Poll

LEMMA StepRows ==
  ASSUME TypeOK, [Next]_vars, NEW i \in Jobs
  PROVE  \/ SameLink(i) \/ Unmarks(i) \/ row'[i].hasId = row'[i].linkPending
<1>1. CASE UNCHANGED vars BY <1>1 DEF vars, SameLink
<1>2. ASSUME NEW s \in Slots, Handle(s) \/ WriteBack(s) \/ Heartbeat(s)
      PROVE  SameLink(i) \/ Unmarks(i) \/ row'[i].hasId = row'[i].linkPending
  <2>1. slot[s].job \in Jobs BY <1>2, Works, TypedLoop
  <2> QED BY <1>2, <2>1, LoopRows DEF Keeps
<1>3. ASSUME NEW s \in Slots, Poll(s) PROVE SameLink(i) BY <1>3, PollRows
<1>4. ASSUME NEW j \in Jobs, Enqueue(j) \/ Time(j) \/ Stall(j) \/ SweepLink(j)
      PROVE  SameLink(i) \/ Unmarks(i)
  BY <1>4, EnvironmentRows DEF Keeps
<1>5. ASSUME NEW p \in Processes, Crash(p) \/ Shutdown(p) \/ Restart(p) PROVE SameLink(i)
  BY <1>5 DEF Crash, Shutdown, Restart, SameLink
<1> QED BY <1>1, <1>2, <1>3, <1>4, <1>5 DEF Next, SlotStep

LEMMA StepLeases ==
  ASSUME TypeOK, [Next]_vars, NEW i \in Jobs, Live(i)', ~Live(i)
  PROVE  \E s \in Slots : Claim(s, i)
<1>1. CASE UNCHANGED vars BY <1>1 DEF vars, Live
<1>2. ASSUME NEW s \in Slots, Handle(s) \/ WriteBack(s) \/ Heartbeat(s) PROVE FALSE
  <2>1. slot[s].job \in Jobs BY <1>2, Works, TypedLoop
  <2> QED BY <1>2, <2>1, LoopRows DEF Keeps
<1>3. ASSUME NEW s \in Slots, Poll(s) PROVE Claim(s, i) BY <1>3, PollRows
<1>4. ASSUME NEW j \in Jobs, Enqueue(j) \/ Time(j) \/ Stall(j) \/ SweepLink(j) PROVE FALSE
  BY <1>4, EnvironmentRows DEF Keeps
<1>5. ASSUME NEW p \in Processes, Crash(p) \/ Shutdown(p) \/ Restart(p) PROVE FALSE
  BY <1>5 DEF Crash, Shutdown, Restart, Live
<1> QED BY <1>1, <1>2, <1>3, <1>4, <1>5 DEF Next, SlotStep

\* Two jobs of one conversation never run under valid leases at the same time: a claim
\* sees every other lease of the partition, and no lease comes back once it has run out.
THEOREM OneLeasePerConversation == Spec => []OneLiveJobPerPartition
<1>1. Init => OneLiveJobPerPartition BY DEF Init, OneLiveJobPerPartition, AbsentRow
<1>2. TypeOK /\ OneLiveJobPerPartition /\ [Next]_vars => OneLiveJobPerPartition'
  <2> SUFFICES ASSUME TypeOK, OneLiveJobPerPartition, [Next]_vars,
                      NEW i \in Jobs, NEW j \in Jobs, i # j, Partition[i] = Partition[j],
                      Live(i)', Live(j)'
               PROVE  FALSE
    BY DEF OneLiveJobPerPartition, Live
  <2>0. RowsTyped BY DEF TypeOK
  <2>1. ~(Live(i) /\ Live(j)) BY DEF OneLiveJobPerPartition, Live
  <2>2. ASSUME NEW s \in Slots, NEW a \in Jobs, NEW b \in Jobs, a # b, Partition[a] = Partition[b],
               Claim(s, a), Live(b)'
        PROVE  FALSE
    <3>1. ~Live(b) BY <2>2 DEF Claim, Claimable, Live
    <3>2. row'[b] = row[b] BY <2>0, <2>2 DEF Claim, RowsTyped
    <3> QED BY <2>2, <3>1, <3>2 DEF Live
  <2>3. CASE ~Live(i)
    <3>1. PICK s \in Slots : Claim(s, i) BY <2>3, StepLeases
    <3> QED BY <2>2, <3>1
  <2>4. CASE ~Live(j)
    <3>1. PICK s \in Slots : Claim(s, j) BY <2>4, StepLeases
    <3> QED BY <2>2, <3>1
  <2> QED BY <2>1, <2>3, <2>4
<1> QED BY <1>1, <1>2, TypeCorrect, PTL DEF Spec

\* A loop that is about to clear a marker has seen or made the link.
ClearingIsLinked == \A s \in Slots : slot[s].pc = "clearing" => linked[slot[s].job]

LEMMA ToClearing ==
  ASSUME TypeOK, [Next]_vars, NEW s \in Slots, slot'[s].pc = "clearing"
  PROVE  /\ slot'[s].job = slot[s].job
         /\ slot[s].pc = "clearing" \/ LinkOutbound(slot[s].job)
<1>0. LoopsTyped BY DEF TypeOK
<1>1. CASE slot'[s] = slot[s] BY <1>1
<1>2. CASE slot'[s] # slot[s]
  <2>1. ASSUME NEW t \in Slots, SlotStep(t) PROVE t = s /\ LinkAfterComplete(s)
    <3>1. ASSUME NEW pc, Goto(t, pc) PROVE t = s /\ pc = "clearing"
      BY <1>0, <1>2, <3>1, GotoFields
    <3>2. ASSUME NEW result, Finish(t, result) PROVE FALSE
      BY <1>0, <1>2, <3>2, FinishFields
    <3>3. ASSUME Idle(t) PROVE FALSE BY <1>0, <1>2, <3>3 DEF Idle, IdleSlot, LoopsTyped
    <3>4. CASE Poll(t) BY <1>0, <1>2, <3>1, <3>3, <3>4 DEF Poll, Sweep, ClaimNothing, Claim,
                                                           LoopsTyped
    <3>5. ASSUME Handle(t) PROVE FALSE
      <4>1. \/ \E pc \in {"rejected", "failing", "replying", "sending", "sent"} : Goto(t, pc)
            \/ \E result : Finish(t, result)
        BY <3>5 DEF Handle, Suppress, Throw, Turn, TurnConflicts, TurnRefused, MarkSending,
                    MarkRefused, Send, RecordProviderId
      <4> QED BY <3>1, <3>2, <4>1
    <3>6. ASSUME FailRead(t) PROVE FALSE
      <4> DEFINE new == [slot[t] EXCEPT !.pc = "requeueing", !.result = FailVerdict(row[slot[t].job])]
      <4>1. slot' = [slot EXCEPT ![t] = new] BY <3>6 DEF FailRead
      <4>2. new.pc = "requeueing" BY <1>0 DEF LoopsTyped, Slot
      <4> QED BY <1>0, <1>2, <4>1, <4>2 DEF LoopsTyped
    <3>7. CASE WriteBack(t)
      BY <3>1, <3>3, <3>6, <3>7 DEF WriteBack, ClearSending, CompleteJob, CompleteFails,
                                    LinkAfterComplete, ClearAfterLink, FailWrite, FailJobFails
    <3> QED BY <2>1, <3>4, <3>5, <3>7 DEF SlotStep
  <2>2. ASSUME NEW t \in Slots, Heartbeat(t)
        PROVE  slot'[s].pc = slot[s].pc /\ slot'[s].job = slot[s].job
    <3> DEFINE new == [slot[t] EXCEPT !.lost = TRUE]
    <3>1. slot' = slot \/ slot' = [slot EXCEPT ![t] = new] BY <2>2 DEF Heartbeat
    <3>2. new.pc = slot[t].pc /\ new.job = slot[t].job BY <1>0 DEF LoopsTyped, Slot
    <3> QED BY <1>0, <3>1, <3>2 DEF LoopsTyped
  <2>3. ASSUME NEW p \in Processes, Crash(p) \/ Shutdown(p) \/ Restart(p) PROVE FALSE
    BY <1>2, <2>3 DEF Crash, Shutdown, Restart, IdleSlot
  <2>4. ASSUME NEW j \in Jobs, Enqueue(j) \/ Time(j) \/ Stall(j) \/ SweepLink(j) PROVE FALSE
    BY <1>2, <2>4 DEF Enqueue, Time, LeaseRunsOut, BackoffElapses, Stall, SweepLink,
                      ReconcileLink, ReconcileClear
  <2>5. LinkAfterComplete(s) => LinkOutbound(slot[s].job) /\ slot'[s].job = slot[s].job
    BY <1>0, GotoFields DEF LinkAfterComplete, Idle, IdleSlot, LoopsTyped
  <2> QED BY <1>2, <2>1, <2>2, <2>3, <2>4, <2>5 DEF Next, vars
<1> QED BY <1>1, <1>2

LEMMA ClearingStaysLinked == TypeOK /\ ClearingIsLinked /\ [Next]_vars => ClearingIsLinked'
<1> SUFFICES ASSUME TypeOK, ClearingIsLinked, [Next]_vars, NEW s \in Slots, slot'[s].pc = "clearing"
             PROVE  linked'[slot'[s].job]
  BY DEF ClearingIsLinked
<1>0. linked \in [Jobs -> BOOLEAN] /\ slot[s].pc \in {"clearing"} \cup Pcs
  BY DEF TypeOK, RestTyped, LoopsTyped, Slot
<1>1. slot'[s].job = slot[s].job /\ (slot[s].pc = "clearing" \/ LinkOutbound(slot[s].job))
  BY ToClearing
<1>2. slot'[s].job \in Jobs BY StepType, HoldsJob DEF TypeOK, LoopsTyped, Slot
<1>3. CASE slot[s].pc = "clearing"
  <2>1. linked[slot[s].job] BY <1>3 DEF ClearingIsLinked
  <2> QED BY <1>0, <1>1, <1>2, <2>1, LinksStay
<1>4. CASE LinkOutbound(slot[s].job) BY <1>0, <1>1, <1>2, <1>4 DEF LinkOutbound
<1> QED BY <1>1, <1>3, <1>4

\* An answer whose link marker is gone is linked to the provider's id.
THEOREM ClearedMarkersAreLinked == Spec => []LinkMarkerHonest
<1>1. Init => LinkMarkerHonest /\ ClearingIsLinked
  BY DEF Init, LinkMarkerHonest, ClearingIsLinked, AbsentRow, IdleSlot
<1>2. TypeOK /\ ClearingIsLinked /\ LinkMarkerHonest /\ [Next]_vars => LinkMarkerHonest'
  <2> SUFFICES ASSUME TypeOK, ClearingIsLinked, LinkMarkerHonest, [Next]_vars,
                      NEW i \in Jobs, row'[i].hasId, ~row'[i].linkPending
               PROVE  linked'[i]
    BY DEF LinkMarkerHonest
  <2>0. linked \in [Jobs -> BOOLEAN] BY DEF TypeOK, RestTyped
  <2>1. linked[i] => linked'[i] BY <2>0, LinksStay
  <2>2. CASE SameLink(i) BY <2>1, <2>2 DEF SameLink, LinkMarkerHonest
  <2>3. CASE Unmarks(i)
    <3>1. linked[i] BY <2>3 DEF Unmarks, ReconcileClear, ClearAfterLink, ClearingIsLinked
    <3> QED BY <2>1, <3>1
  <2>4. CASE row'[i].hasId = row'[i].linkPending BY <2>4
  <2> QED BY <2>2, <2>3, <2>4, StepRows
<1> QED BY <1>1, <1>2, ClearingStaysLinked, TypeCorrect, PTL DEF Spec

-----------------------------------------------------------------------------
(* The queue implements the delivery contract *)

\* What the contract sees of the rows.
Record == [j \in Jobs |-> Verdict(row[j])]

\* A step of the queue either leaves the verdict of a job alone or concludes it.
Told(j) == Verdict(row'[j]) = Verdict(row[j])
Concludes(j) ==
  Verdict(row[j]) = "open" /\ Contract!Truthful(j, Verdict(row'[j]), delivered[j])
Settles == delivered' = delivered /\ \A j \in Jobs : Told(j) \/ Concludes(j)

LEMMA VerdictValues ==
  ASSUME NEW r \in Row
  PROVE  /\ Verdict(r) \in Contract!Verdicts
         /\ Verdict(r) = "absent" <=> r.status = "ABSENT"
         /\ Verdict(r) = "open" <=> r.status \in {"PENDING", "PROCESSING"}
  BY DEF Row, Statuses, Verdict, Terminal, Contract!Verdicts

\* Leases, attempts and markers do not show in the verdict, nor does the outbound mark
\* of a job that is still worked on.
LEMMA SameVerdict ==
  ASSUME NEW r \in Row, NEW new \in Row, new.status = r.status,
         \/ new.hasId = r.hasId /\ new.outbound = r.outbound
         \/ r.status \in {"PENDING", "PROCESSING"}
  PROVE  Verdict(new) = Verdict(r)
  BY DEF Verdict, Terminal

LEMMA OneRowSettles ==
  ASSUME RowsTyped, RowsTyped', NEW j \in Jobs, NEW new, row' = [row EXCEPT ![j] = new],
         delivered' = delivered,
         \/ Verdict(new) = Verdict(row[j])
         \/ Verdict(row[j]) = "open" /\ Contract!Truthful(j, Verdict(new), delivered[j])
  PROVE  Settles
<1>1. row'[j] = new BY DEF RowsTyped
<1>2. \A i \in Jobs \ {j} : row'[i] = row[i] BY DEF RowsTyped
<1>3. \A i \in Jobs \ {j} : Told(i) BY <1>2 DEF Told
<1>4. Told(j) \/ Concludes(j) BY <1>1 DEF Told, Concludes
<1> QED BY <1>3, <1>4 DEF Settles

LEMMA NoRowSettles ==
  ASSUME row' = row, delivered' = delivered
  PROVE  Settles
  BY DEF Settles, Told

LEMMA EnvironmentSettles ==
  ASSUME TypeOK, TypeOK', NEW j \in Jobs, Time(j) \/ Stall(j) \/ SweepLink(j)
  PROVE  Settles
<1>0. RowsTyped /\ RowsTyped' /\ row[j] \in Row /\ row'[j] \in Row BY TypedRow DEF TypeOK, RowsTyped
<1>1. delivered' = delivered
  BY DEF Time, LeaseRunsOut, BackoffElapses, Stall, SweepLink, ReconcileLink, ReconcileClear
<1>2. CASE row' = row BY <1>1, <1>2, NoRowSettles
<1>3. CASE row' # row
  <2>1. PICK new : row' = [row EXCEPT ![j] = new] /\ new.status = row[j].status
                   /\ new.hasId = row[j].hasId /\ new.outbound = row[j].outbound
    BY <1>0, <1>3 DEF Time, LeaseRunsOut, BackoffElapses, Stall, SweepLink, ReconcileLink,
                      ReconcileClear, ClearMarker, Row
  <2>2. row'[j] = new BY <1>0, <2>1 DEF RowsTyped
  <2>3. Verdict(new) = Verdict(row[j]) BY <1>0, <2>1, <2>2, SameVerdict
  <2> QED BY <1>0, <1>1, <2>1, <2>3, OneRowSettles
<1> QED BY <1>2, <1>3

LEMMA PollSettles ==
  ASSUME Ind, TypeOK', NEW s \in Slots, Poll(s)
  PROVE  Settles
<1>0. TypeOK /\ RowsTyped /\ RowsTyped' BY DEF Ind, TypeOK
<1>1. CASE Sweep(s)
  <2>1. ASSUME NEW i \in Jobs PROVE Told(i) \/ Concludes(i)
    <3>1. row'[i] = Swept(row[i]) /\ row[i] \in Row BY <1>0, <1>1, <2>1, TypedRow DEF Sweep
    <3>2. CASE Swept(row[i]) = row[i] BY <3>1, <3>2 DEF Told
    <3>3. CASE Swept(row[i]) # row[i]
      <4>1. row[i].status = "PROCESSING" BY <3>3 DEF Swept
      <4>2. ~row[i].hasId BY <2>1, <4>1 DEF Ind, Core, RowInv
      <4>3. /\ row'[i].status = "FAILED" /\ row'[i].outbound = "UNKNOWN"
            /\ row'[i].hasId = row[i].hasId
        BY <3>1, <3>3 DEF Swept, Row
      <4>4. Verdict(row'[i]) = "unknown" BY <4>2, <4>3 DEF Verdict, Terminal
      <4>5. Verdict(row[i]) = "open" BY <4>1 DEF Verdict, Terminal
      <4> QED BY <4>4, <4>5 DEF Concludes, Contract!Truthful
    <3> QED BY <3>2, <3>3
  <2>2. delivered' = delivered BY <1>1 DEF Sweep
  <2> QED BY <2>1, <2>2 DEF Settles
<1>2. CASE ClaimNothing(s) BY <1>2, NoRowSettles DEF ClaimNothing
<1>3. ASSUME NEW j \in Jobs, Claim(s, j) PROVE Settles
  <2> DEFINE new == Claimed(row[j], Process[s])
  <2>0. row[j] \in Row BY <1>0, <1>3, TypedRow
  <2>1. row' = [row EXCEPT ![j] = new] /\ delivered' = delivered BY <1>3 DEF Claim
  <2>2. Verdict(row[j]) = "open" BY <1>3 DEF Claim, Claimable, Verdict, Terminal
  <2>3. Verdict(new) = "open" BY <2>0 DEF Claimed, Row, Verdict, Terminal
  <2> QED BY <1>0, <1>3, <2>1, <2>2, <2>3, OneRowSettles
<1> QED BY <1>1, <1>2, <1>3 DEF Poll

\* Everything a loop does but sending concerns the contract only where it writes the row.
LEMMA LoopSettles ==
  ASSUME Ind, TypeOK', NEW s \in Slots, Handle(s) \/ WriteBack(s) \/ Heartbeat(s),
         delivered' = delivered
  PROVE  Settles
<1> DEFINE j == slot[s].job
<1>0. /\ TypeOK /\ RowsTyped /\ RowsTyped' /\ j \in Jobs
      /\ row[j] \in Row /\ Active(s) /\ slot[s].result \in Results
  BY Works, TypedLoop, TypedRow DEF Ind, TypeOK, LoopsTyped, Slot
<1>i. LoopInv(s) /\ RowInv(j) BY <1>0 DEF Ind, Core
<1>1. CASE row' = row BY <1>1, NoRowSettles
<1>2. ASSUME NEW new, row' = [row EXCEPT ![j] = new], new.status = row[j].status,
             \/ new.hasId = row[j].hasId /\ new.outbound = row[j].outbound
             \/ row[j].status = "PROCESSING"
      PROVE  Settles
  <2>1. row'[j] = new BY <1>0, <1>2 DEF RowsTyped
  <2>2. new \in Row BY <1>0, <2>1 DEF RowsTyped
  <2>3. Verdict(new) = Verdict(row[j]) BY <1>0, <1>2, <2>2, SameVerdict
  <2> QED BY <1>0, <1>2, <2>3, OneRowSettles
<1>3. CASE row' = [row EXCEPT ![j] = Renewed(@, TRUE)] /\ CanRenew(s)
  <2>1. Renewed(row[j], TRUE).status = row[j].status BY <1>0 DEF Renewed, Row
  <2> QED BY <1>2, <1>3, <2>1 DEF CanRenew, OwnsClaim
<1>4. CASE row' = [row EXCEPT ![j] = Renewed(@, FALSE)] /\ CanRenew(s)
  <2>1. Renewed(row[j], FALSE).status = row[j].status BY <1>0 DEF Renewed, Row
  <2> QED BY <1>2, <1>4, <2>1 DEF CanRenew, OwnsClaim
<1>5. CASE ClearSending(s)
  <2> DEFINE new == [row[j] EXCEPT !.outbound = "FAILED"]
  <2>1. row' = row \/ (row' = [row EXCEPT ![j] = new] /\ OwnsClaim(s)) BY <1>5 DEF ClearSending
  <2>2. new.status = row[j].status BY <1>0 DEF Row
  <2> QED BY <1>1, <1>2, <2>1, <2>2 DEF OwnsClaim
<1>6. CASE CompleteJob(s) /\ OwnsClaim(s)
  <2> DEFINE result == slot[s].result
             new == Completed(row[j], result)
  <2>1. row' = [row EXCEPT ![j] = new] BY <1>6 DEF CompleteJob
  <2>2. Current(s) /\ Verdict(row[j]) = "open" BY <1>6 DEF OwnsClaim, Current, Verdict, Terminal
  <2>3. /\ result \in {"silent", "blocked", "sent", "unknown"}
        /\ result = "sent" => delivered[j] = 1
        /\ result = "silent" => delivered[j] = 0
        /\ result = "blocked" /\ j \notin QrJobs => delivered[j] = 0
    BY <1>0, <1>6, <1>i, <2>2 DEF LoopInv, CompleteJob
  <2>4. Verdict(new) = IF result = "blocked" THEN "rejected" ELSE result
    BY <1>0, <2>3 DEF Completed, Row, Verdict, Terminal
  <2>5. Contract!Truthful(j, Verdict(new), delivered[j])
    BY <2>3, <2>4 DEF Contract!Truthful
  <2> QED BY <1>0, <2>1, <2>2, <2>5, OneRowSettles
<1>7. CASE FailWrite(s) /\ OwnsClaim(s)
  <2> DEFINE result == slot[s].result
             new == Requeued(row[j], result)
  <2>1. row' = [row EXCEPT ![j] = new] BY <1>7 DEF FailWrite
  <2>2. Current(s) /\ Verdict(row[j]) = "open" BY <1>7 DEF OwnsClaim, Current, Verdict, Terminal
  <2>3. /\ result \in {"uncertain", "exhausted", "retry"}
        /\ result = "uncertain" <=> row[j].outbound = "SENDING"
    BY <1>0, <1>7, <1>i, <2>2 DEF LoopInv, FailWrite
  <2>4. row[j].status = "PROCESSING" BY <2>2 DEF Current
  <2>5. ~row[j].hasId /\ (row[j].outbound # "SENDING" => delivered[j] = 0)
    BY <1>i, <2>4 DEF RowInv
  <2>6. CASE result = "retry"
    <3>1. Verdict(new) = "open" BY <1>0, <2>6 DEF Requeued, Row, Verdict, Terminal
    <3> QED BY <1>0, <2>1, <2>2, <3>1, OneRowSettles
  <2>7. CASE result = "uncertain"
    <3>1. Verdict(new) = "unknown" BY <1>0, <2>5, <2>7 DEF Requeued, Row, Verdict, Terminal
    <3>2. Contract!Truthful(j, Verdict(new), delivered[j]) BY <3>1 DEF Contract!Truthful
    <3> QED BY <1>0, <2>1, <2>2, <3>2, OneRowSettles
  <2>8. CASE result = "exhausted"
    <3>1. delivered[j] = 0 BY <2>3, <2>5, <2>8
    <3>2. new.status = "FAILED" /\ new.hasId = row[j].hasId
      BY <1>0, <2>8 DEF Requeued, Row
    <3>3. Verdict(new) \in {"silent", "unknown", "rejected"}
      BY <2>5, <3>2 DEF Verdict, Terminal
    <3>4. Contract!Truthful(j, Verdict(new), delivered[j]) BY <3>1, <3>3 DEF Contract!Truthful
    <3> QED BY <1>0, <2>1, <2>2, <3>4, OneRowSettles
  <2> QED BY <2>3, <2>6, <2>7, <2>8
<1>8. CASE ClearAfterLink(s)
  <2> DEFINE new == [row[j] EXCEPT !.linkPending = FALSE]
  <2>1. row' = row \/ row' = [row EXCEPT ![j] = new] BY <1>8 DEF ClearAfterLink, ClearMarker
  <2>2. new.status = row[j].status /\ new.hasId = row[j].hasId /\ new.outbound = row[j].outbound
    BY <1>0 DEF Row
  <2> QED BY <1>1, <1>2, <2>1, <2>2
<1>9. CASE Handle(s)
  <2>1. CASE MarkSending(s) BY <1>3, <2>1 DEF MarkSending
  <2>2. CASE ~MarkSending(s)
    BY <1>1, <1>9, <2>2 DEF Handle, Suppress, Throw, Turn, TurnConflicts, TurnRefused,
                            MarkRefused, Send, RecordProviderId
  <2> QED BY <2>1, <2>2
<1>10. CASE Heartbeat(s) BY <1>1, <1>4, <1>10 DEF Heartbeat
<1>11. CASE (CompleteJob(s) \/ FailWrite(s)) /\ ~OwnsClaim(s)
  BY <1>1, <1>11 DEF CompleteJob, FailWrite
<1>12. CASE CompleteFails(s) \/ LinkAfterComplete(s) \/ FailRead(s) \/ FailJobFails(s)
  BY <1>1, <1>12 DEF CompleteFails, LinkAfterComplete, FailRead, FailJobFails
<1> QED BY <1>5, <1>6, <1>7, <1>8, <1>9, <1>10, <1>11, <1>12 DEF WriteBack

\* A delivery: the row of the loop that sends is open, or the sweep gave it up as unknown.
LEMMA SendDelivers ==
  ASSUME Ind, TypeOK', NEW s \in Slots, Handle(s) \/ WriteBack(s) \/ Heartbeat(s),
         delivered' # delivered
  PROVE  Contract!Deliver(slot[s].job)
<1> DEFINE j == slot[s].job
<1>1. Send(s)
  BY DEF Handle, WriteBack, Heartbeat, Suppress, Throw, Turn, TurnConflicts, TurnRefused,
         MarkSending, MarkRefused, RecordProviderId, ClearSending, CompleteJob, CompleteFails,
         LinkAfterComplete, ClearAfterLink, FailRead, FailWrite, FailJobFails
<1>2. Accept(j) /\ row' = row /\ slot[s].pc = "sending" BY <1>1 DEF Send
<1>3. TypeOK /\ j \in Jobs /\ Active(s) /\ row[j] \in Row
  BY Works, TypedLoop, TypedRow DEF Ind
<1>4. LoopInv(s) BY DEF Ind, Core
<1>5. /\ delivered[j] = 0
      /\ \/ Current(s) /\ row[j].outbound = "SENDING"
         \/ row[j].status \in Terminal /\ row[j].outbound = "UNKNOWN" /\ ~row[j].hasId
  BY <1>2, <1>3, <1>4 DEF LoopInv
<1>6. Verdict(row[j]) \in {"open", "unknown"} BY <1>5 DEF Current, Verdict, Terminal
<1>7. delivered' = [delivered EXCEPT ![j] = 1] BY <1>2, <1>5 DEF Accept
<1>8. Record[j] \in {"open", "unknown"} /\ Record' = Record BY <1>2, <1>3, <1>6 DEF Record
<1> QED BY <1>5, <1>7, <1>8 DEF Contract!Deliver, Record

\* A step that only settles jobs is a Conclude of the contract, also when it settles none.
LEMMA SettlesConcludes ==
  ASSUME TypeOK, TypeOK', Settles
  PROVE  Contract!Conclude
<1>1. Record' \in [Jobs -> Contract!Verdicts]
  <2>1. \A j \in Jobs : Verdict(row'[j]) \in Contract!Verdicts
    BY VerdictValues DEF TypeOK, RowsTyped
  <2> QED BY <2>1 DEF Record
<1>2. \A j \in Jobs : Record'[j] # Record[j] =>
         Record[j] = "open" /\ Contract!Truthful(j, Record'[j], delivered[j])
  BY DEF Settles, Told, Concludes, Record
<1>3. delivered' = delivered BY DEF Settles
<1> QED BY <1>1, <1>2, <1>3 DEF Contract!Conclude, Record

LEMMA EnqueueAccepts ==
  ASSUME TypeOK, NEW j \in Jobs, Enqueue(j)
  PROVE  Contract!Accept(j)
<1> DEFINE new == [row[j] EXCEPT !.status = "PENDING"]
<1>0. RowsTyped /\ row[j] \in Row BY TypedRow DEF TypeOK
<1>1. row' = [row EXCEPT ![j] = new] BY DEF Enqueue
<1>2. Verdict(row[j]) = "absent" BY DEF Enqueue, Verdict, Terminal
<1>3. Verdict(new) = "open" BY <1>0 DEF Row, Verdict, Terminal
<1>4. \A i \in Jobs : row'[i] = IF i = j THEN new ELSE row[i] BY <1>0, <1>1, RowAt
<1>5. Record[j] = "absent" BY <1>2 DEF Record
<1>6. Record' = [Record EXCEPT ![j] = "open"] BY <1>3, <1>4 DEF Record
<1> QED BY <1>5, <1>6 DEF Contract!Accept, Enqueue, Record

LEMMA StepContract ==
  ASSUME Ind, [Next]_vars
  PROVE  [Contract!Next]_<<Record, delivered>>
<1>0. TypeOK /\ TypeOK' BY StepType DEF Ind
<1>s. ASSUME Settles PROVE Contract!Next BY <1>0, <1>s, SettlesConcludes DEF Contract!Next
<1>1. CASE UNCHANGED vars BY <1>1 DEF vars, Record
<1>2. ASSUME NEW j \in Jobs, Enqueue(j) PROVE Contract!Next
  BY <1>0, <1>2, EnqueueAccepts DEF Contract!Next
<1>3. ASSUME NEW j \in Jobs, Time(j) \/ Stall(j) \/ SweepLink(j) PROVE Contract!Next
  BY <1>0, <1>3, <1>s, EnvironmentSettles
<1>4. ASSUME NEW s \in Slots, Poll(s) PROVE Contract!Next BY <1>0, <1>4, <1>s, PollSettles
<1>5. ASSUME NEW s \in Slots, Handle(s) \/ WriteBack(s) \/ Heartbeat(s) PROVE Contract!Next
  <2>1. slot[s].job \in Jobs BY <1>0, <1>5, Works, TypedLoop
  <2>2. CASE delivered' = delivered BY <1>0, <1>5, <1>s, <2>2, LoopSettles
  <2>3. CASE delivered' # delivered BY <1>0, <1>5, <2>1, <2>3, SendDelivers DEF Contract!Next
  <2> QED BY <2>2, <2>3
<1>6. ASSUME NEW p \in Processes, Crash(p) \/ Shutdown(p) \/ Restart(p) PROVE Contract!Next
  BY <1>6, <1>s, NoRowSettles DEF Crash, Shutdown, Restart
<1> QED BY <1>1, <1>2, <1>3, <1>4, <1>5, <1>6 DEF Next, SlotStep

\* The queue, its leases, its retries and its faults implement the delivery contract: a
\* verdict is final and, unless it is UNKNOWN, agrees with what the customer received.
THEOREM QueueImplementsContract == Spec => ImplementsContract
<1>1. Init => Contract!Init
  BY DEF Init, Contract!Init, AbsentRow, Verdict, Terminal
<1>2. Ind /\ [Next]_vars => [Contract!Next]_<<Record, delivered>>
  BY StepContract
<1> QED BY <1>1, <1>2, Inductive, PTL DEF Spec, ImplementsContract, Contract!Spec, Record

-----------------------------------------------------------------------------
(* The order of the answers of a conversation, while no live loop loses its lease *)

\* No worker is held up past its lease and none loses the database; crashes, shutdowns
\* and lost links may happen.
LeasesAreKept == FaultKinds \cap {"stall", "db"} = {}

\* A loop that has written its result and is at the link of the message.
Linking(s) == slot[s].pc \in {"linking", "clearing"}
USE DEF Linking

\* A loop that works on a job holds the job's lease.
HoldsLease(s) ==
  Active(s) /\ ~Linking(s) =>
    OwnsClaim(s) /\ ~row[slot[s].job].expired /\ ~slot[s].lost

\* Left behind by a crash between the mark and the result: the next sweep gives it up.
Abandoned(i) ==
  row[i].status = "PROCESSING" /\ row[i].outbound = "SENDING" /\ row[i].expired
Settled(i) == row[i].status \in Terminal \/ Abandoned(i)
Begun(j) == row[j].status \notin {"ABSENT", "PENDING"}

\* No message is begun before those it follows can no longer be answered.
Ordered(i, j) ==
  /\ row[j].status # "ABSENT" => row[i].status # "ABSENT"
  /\ Begun(j) => Settled(i)
InOrder == \A i, j \in Jobs : Partition[i] = Partition[j] /\ i < j => Ordered(i, j)

OrderInd == Ind /\ (\A s \in Slots : HoldsLease(s)) /\ InOrder

LEMMA OrderInit == Init => OrderInd
<1> SUFFICES ASSUME Init PROVE OrderInd
  OBVIOUS
<1>1. \A s \in Slots : HoldsLease(s) BY DEF Init, HoldsLease, Active, IdleSlot
<1>2. InOrder BY DEF Init, InOrder, Ordered, Begun, AbsentRow
<1> QED BY <1>1, <1>2, InitInd DEF OrderInd

LEMMA NoFault ==
  ASSUME LeasesAreKept
  PROVE  ~Fault("stall") /\ ~Fault("db")
  BY DEF LeasesAreKept, Fault

\* One loop at most works on a job.
LEMMA OneWorker ==
  ASSUME OrderInd, NEW s \in Slots, NEW t \in Slots, Active(s), Active(t),
         ~Linking(s), ~Linking(t), slot[s].job = slot[t].job
  PROVE  s = t
<1>1. slot[s].attempt = slot[t].attempt BY DEF OrderInd, HoldsLease, OwnsClaim
<1>2. PairInv(s, t) BY DEF OrderInd, Ind, Core
<1> QED BY <1>1, <1>2 DEF PairInv

\* What a step must leave of the row of a loop that rests.
KeepsLease(i) ==
  row[i].status = "PROCESSING" /\ ~row[i].expired =>
    /\ row'[i].status = "PROCESSING" /\ ~row'[i].expired
    /\ row'[i].lockedBy = row[i].lockedBy /\ row'[i].attempts = row[i].attempts

LEMMA RestingLoop ==
  ASSUME OrderInd, NEW t \in Slots, slot'[t] = slot[t],
         Active(t) /\ ~Linking(t) => KeepsLease(slot[t].job)
  PROVE  HoldsLease(t)'
  BY DEF OrderInd, HoldsLease, Active, OwnsClaim, KeepsLease

LEMMA SameLease ==
  ASSUME NEW i \in Jobs, row'[i] = row[i]
  PROVE  KeepsLease(i)
  BY DEF KeepsLease

\* How the row of a message moves on.
Fate(i) ==
  /\ row[i].status # "ABSENT" => row'[i].status # "ABSENT"
  /\ row[i].status = "ABSENT" /\ row'[i].status # "ABSENT" => Enqueue(i)
  /\ Settled(i) => Settled(i)'
  /\ Begun(i)' => Begun(i) \/ \E s \in Slots : Claim(s, i)

LEMMA SameFate ==
  ASSUME NEW i \in Jobs, row'[i] = row[i]
  PROVE  Fate(i)
  BY DEF Fate, Settled, Abandoned, Begun

LEMMA FinishedFate ==
  ASSUME NEW i \in Jobs, row[i].status \in Terminal, row'[i].status \in Terminal
  PROVE  Fate(i)
  BY DEF Fate, Settled, Begun, Terminal

LEMMA EnvironmentOrder ==
  ASSUME OrderInd, LeasesAreKept, NEW j \in Jobs,
         Enqueue(j) \/ Time(j) \/ Stall(j) \/ SweepLink(j)
  PROVE  (\A t \in Slots : HoldsLease(t)') /\ (\A i \in Jobs : Fate(i))
<1>0. TypeOK /\ RowsTyped /\ row[j] \in Row /\ slot' = slot
  BY TypedRow DEF OrderInd, Ind, TypeOK, Enqueue, Time, LeaseRunsOut, BackoffElapses, Stall,
                    SweepLink, ReconcileLink, ReconcileClear
<1>1. ~Stall(j) BY NoFault DEF Stall
<1>2. ASSUME NEW new, row' = [row EXCEPT ![j] = new], Fate(j),
             \A t \in Slots : Active(t) /\ ~Linking(t) /\ slot[t].job = j => KeepsLease(j)
      PROVE  (\A t \in Slots : HoldsLease(t)') /\ (\A i \in Jobs : Fate(i))
  <2>1. \A i \in Jobs \ {j} : row'[i] = row[i] BY <1>0, <1>2 DEF RowsTyped
  <2>2. \A i \in Jobs : Fate(i) BY <1>2, <2>1, SameFate
  <2>3. ASSUME NEW t \in Slots PROVE HoldsLease(t)'
    <3>1. Active(t) => slot[t].job \in Jobs BY <1>0, TypedLoop
    <3>2. Active(t) /\ ~Linking(t) => KeepsLease(slot[t].job)
      BY <1>2, <2>1, <3>1, SameLease
    <3> QED BY <1>0, <3>2, RestingLoop
  <2> QED BY <2>2, <2>3
<1>3. CASE Enqueue(j)
  <2> DEFINE new == [row[j] EXCEPT !.status = "PENDING"]
  <2>1. row' = [row EXCEPT ![j] = new] BY <1>3 DEF Enqueue
  <2>2. row'[j] = new /\ new.status = "PENDING" BY <1>0, <2>1 DEF RowsTyped, Row
  <2>3. row[j].status = "ABSENT" BY <1>3 DEF Enqueue
  <2>4. Fate(j) BY <1>3, <2>2, <2>3 DEF Fate, Settled, Abandoned, Begun, Terminal
  <2>5. KeepsLease(j) BY <2>3 DEF KeepsLease
  <2> QED BY <1>2, <2>1, <2>4, <2>5
<1>4. CASE LeaseRunsOut(j)
  <2> DEFINE new == [row[j] EXCEPT !.expired = TRUE]
  <2>1. row' = [row EXCEPT ![j] = new] BY <1>4 DEF LeaseRunsOut
  <2>2. /\ row'[j] = new /\ new.status = row[j].status /\ new.outbound = row[j].outbound
        /\ new.expired = TRUE /\ row[j].status = "PROCESSING"
    BY <1>0, <1>4, <2>1 DEF RowsTyped, Row, LeaseRunsOut
  <2>3. Fate(j) BY <2>2 DEF Fate, Settled, Abandoned, Begun, Terminal
  <2>4. ASSUME NEW t \in Slots, Active(t), ~Linking(t), slot[t].job = j PROVE FALSE
    <3>1. Heartbeating(j) BY <2>4 DEF OrderInd, HoldsLease, OwnsClaim, Heartbeating
    <3> QED BY <1>4, <3>1 DEF LeaseRunsOut
  <2> QED BY <1>2, <2>1, <2>3, <2>4
<1>5. CASE BackoffElapses(j)
  <2> DEFINE new == [row[j] EXCEPT !.ready = TRUE]
  <2>1. row' = [row EXCEPT ![j] = new] BY <1>5 DEF BackoffElapses
  <2>2. row'[j] = new /\ new.status = row[j].status /\ row[j].status = "PENDING"
    BY <1>0, <1>5, <2>1 DEF RowsTyped, Row, BackoffElapses
  <2>3. Fate(j) BY <2>2 DEF Fate, Settled, Abandoned, Begun, Terminal
  <2>4. KeepsLease(j) BY <2>2 DEF KeepsLease
  <2> QED BY <1>2, <2>1, <2>3, <2>4
<1>6. CASE ReconcileClear(j)
  <2> DEFINE new == [row[j] EXCEPT !.linkPending = FALSE]
  <2>1. row' = [row EXCEPT ![j] = new] BY <1>6 DEF ReconcileClear, ClearMarker, LinkToDo
  <2>2. row'[j] = new /\ new.status = row[j].status /\ row[j].status = "COMPLETED"
    BY <1>0, <1>6, <2>1 DEF RowsTyped, Row, ReconcileClear, LinkToDo
  <2>3. Fate(j) BY <2>2 DEF Fate, Settled, Abandoned, Begun, Terminal
  <2>4. KeepsLease(j) BY <2>2 DEF KeepsLease
  <2> QED BY <1>2, <2>1, <2>3, <2>4
<1>7. CASE ReconcileLink(j)
  <2>1. row' = row BY <1>7 DEF ReconcileLink
  <2>2. \A t \in Slots : HoldsLease(t)' BY <1>0, <2>1 DEF OrderInd, HoldsLease, Active, OwnsClaim
  <2> QED BY <2>1, <2>2, SameFate
<1> QED BY <1>1, <1>3, <1>4, <1>5, <1>6, <1>7 DEF Time, SweepLink

LEMMA PollOrder ==
  ASSUME OrderInd, LeasesAreKept, NEW s \in Slots, Poll(s)
  PROVE  (\A t \in Slots : HoldsLease(t)') /\ (\A i \in Jobs : Fate(i))
<1>0. TypeOK /\ RowsTyped /\ LoopsTyped BY DEF OrderInd, Ind, TypeOK
<1>1. CASE Sweep(s)
  <2>1. ASSUME NEW i \in Jobs PROVE Fate(i) /\ KeepsLease(i)
    <3>1. row'[i] = Swept(row[i]) /\ row[i] \in Row BY <1>0, <1>1, TypedRow DEF Sweep
    <3>2. CASE Swept(row[i]) = row[i] BY <3>1, <3>2, SameFate, SameLease
    <3>3. CASE Swept(row[i]) # row[i]
      <4>1. row[i].status = "PROCESSING" /\ row[i].expired BY <3>3 DEF Swept
      <4>2. row'[i].status = "FAILED" BY <3>1, <3>3 DEF Swept, Row
      <4> QED BY <4>1, <4>2 DEF Fate, Settled, Begun, Terminal, KeepsLease
    <3> QED BY <3>2, <3>3
  <2>2. ASSUME NEW t \in Slots PROVE HoldsLease(t)'
    <3>1. CASE t = s
      <4>1. slot'[s].pc = "claiming" BY <1>0, <1>1 DEF Sweep, Goto, LoopsTyped, Slot
      <4> QED BY <3>1, <4>1 DEF HoldsLease, Active
    <3>2. CASE t # s
      <4>1. slot'[t] = slot[t] BY <1>0, <1>1, <3>2 DEF Sweep, Goto, LoopsTyped
      <4>2. Active(t) => slot[t].job \in Jobs BY <1>0, TypedLoop
      <4> QED BY <2>1, <4>1, <4>2, RestingLoop
    <3> QED BY <3>1, <3>2
  <2> QED BY <2>1, <2>2
<1>2. CASE ClaimNothing(s)
  <2>1. row' = row /\ Idle(s) BY <1>2 DEF ClaimNothing
  <2>2. \A i \in Jobs : Fate(i) /\ KeepsLease(i) BY <2>1, SameFate, SameLease
  <2>3. ASSUME NEW t \in Slots PROVE HoldsLease(t)'
    <3>1. CASE t = s BY <1>0, <2>1, <3>1 DEF Idle, IdleSlot, LoopsTyped, HoldsLease, Active
    <3>2. CASE t # s
      <4>1. slot'[t] = slot[t] BY <1>0, <2>1, <3>2 DEF Idle, LoopsTyped
      <4>2. Active(t) => slot[t].job \in Jobs BY <1>0, TypedLoop
      <4> QED BY <2>2, <4>1, <4>2, RestingLoop
    <3> QED BY <3>1, <3>2
  <2> QED BY <2>2, <2>3
<1>3. ASSUME NEW j \in Jobs, Claim(s, j)
      PROVE  (\A t \in Slots : HoldsLease(t)') /\ (\A i \in Jobs : Fate(i))
  <2> DEFINE new == Claimed(row[j], Process[s])
  <2>0. row[j] \in Row /\ row[j].attempts \in Nat BY <1>0, <1>3, TypedRow DEF Row
  <2>1. row' = [row EXCEPT ![j] = new] BY <1>3 DEF Claim
  <2>2. row'[j] = new /\ \A i \in Jobs \ {j} : row'[i] = row[i]
    BY <1>0, <2>1 DEF RowsTyped
  <2>3. /\ new.status = "PROCESSING" /\ new.lockedBy = Process[s] /\ new.expired = FALSE
        /\ new.attempts = row[j].attempts + 1
    BY <2>0 DEF Claimed, Row
  <2>4. \/ row[j].status = "PENDING"
        \/ row[j].status = "PROCESSING" /\ row[j].outbound # "SENDING" /\ row[j].expired
    BY <1>3 DEF Claim, Claimable
  <2>5. Fate(j) BY <1>3, <2>2, <2>3, <2>4 DEF Fate, Settled, Abandoned, Begun, Terminal
  <2>6. KeepsLease(j) BY <2>4 DEF KeepsLease
  <2>7. ASSUME NEW t \in Slots PROVE HoldsLease(t)'
    <3>1. CASE t = s
      <4>1. slot'[s] = [pc |-> "handling", job |-> j, attempt |-> row[j].attempts + 1,
                        lost |-> FALSE, result |-> "none"]
        BY <1>0, <1>3 DEF Claim, LoopsTyped
      <4> QED BY <2>2, <2>3, <3>1, <4>1 DEF HoldsLease, OwnsClaim
    <3>2. CASE t # s
      <4>1. slot'[t] = slot[t] BY <1>0, <1>3, <3>2 DEF Claim, LoopsTyped
      <4>2. Active(t) => slot[t].job \in Jobs BY <1>0, TypedLoop
      <4>3. Active(t) => KeepsLease(slot[t].job) BY <2>2, <2>6, <4>2, SameLease
      <4> QED BY <4>1, <4>3, RestingLoop
    <3> QED BY <3>1, <3>2
  <2>8. \A i \in Jobs : Fate(i) BY <2>2, <2>5, SameFate
  <2> QED BY <2>7, <2>8
<1> QED BY <1>1, <1>2, <1>3 DEF Poll

\* A loop that works: it keeps its claim or gives it up with its row.
LEMMA LoopOrder ==
  ASSUME OrderInd, LeasesAreKept, NEW s \in Slots, Handle(s) \/ WriteBack(s) \/ Heartbeat(s)
  PROVE  (\A t \in Slots : HoldsLease(t)') /\ (\A i \in Jobs : Fate(i))
<1> DEFINE j == slot[s].job
<1>0. TypeOK /\ RowsTyped /\ LoopsTyped /\ Active(s) /\ j \in Jobs /\ row[j] \in Row
  BY Works, TypedLoop, TypedRow DEF OrderInd, Ind, TypeOK
<1>f. ~Fault("stall") /\ ~Fault("db") BY NoFault
<1>l. ~Linking(s) =>
        /\ OwnsClaim(s) /\ CanRenew(s) /\ ~slot[s].lost
        /\ row[j].status = "PROCESSING" /\ ~row[j].expired
  BY <1>0 DEF OrderInd, HoldsLease, CanRenew, OwnsClaim
\* A write that keeps the claim, or none.
<1>1. ASSUME ~Linking(s), NEW new,
             row' = [row EXCEPT ![j] = new] /\ new.status = "PROCESSING" /\ new.expired = FALSE
               /\ new.lockedBy = row[j].lockedBy /\ new.attempts = row[j].attempts,
             \A t \in Slots \ {s} : slot'[t] = slot[t],
             slot'[s].job = j, slot'[s].attempt = slot[s].attempt, slot'[s].lost = slot[s].lost
      PROVE  (\A t \in Slots : HoldsLease(t)') /\ (\A i \in Jobs : Fate(i))
  <2>1. row'[j] = new /\ \A i \in Jobs \ {j} : row'[i] = row[i] BY <1>0, <1>1 DEF RowsTyped
  <2>2. Fate(j) BY <1>1, <1>l, <2>1 DEF Fate, Settled, Abandoned, Begun, Terminal
  <2>3. KeepsLease(j) BY <1>1, <2>1 DEF KeepsLease
  <2>4. HoldsLease(s)' BY <1>1, <1>l, <2>1 DEF HoldsLease, OwnsClaim
  <2>5. ASSUME NEW t \in Slots, t # s PROVE HoldsLease(t)'
    <3>1. Active(t) => slot[t].job \in Jobs BY <1>0, <2>5, TypedLoop
    <3>2. Active(t) => KeepsLease(slot[t].job) BY <2>1, <2>3, <3>1, SameLease
    <3> QED BY <1>1, <2>5, <3>2, RestingLoop
  <2> QED BY <2>1, <2>2, <2>4, <2>5, SameFate
\* A write that gives the claim up.
<1>2. ASSUME ~Linking(s), NEW new,
             row' = [row EXCEPT ![j] = new] /\ new.status \in {"PENDING"} \cup Terminal,
             \A t \in Slots \ {s} : slot'[t] = slot[t],
             slot'[s].pc \in {"linking", "clearing", "idle"}
      PROVE  (\A t \in Slots : HoldsLease(t)') /\ (\A i \in Jobs : Fate(i))
  <2>1. row'[j] = new /\ \A i \in Jobs \ {j} : row'[i] = row[i] BY <1>0, <1>2 DEF RowsTyped
  <2>2. Fate(j) BY <1>2, <1>l, <2>1 DEF Fate, Settled, Abandoned, Begun, Terminal
  <2>4. HoldsLease(s)' BY <1>2 DEF HoldsLease, Active
  <2>5. ASSUME NEW t \in Slots, t # s PROVE HoldsLease(t)'
    <3>1. Active(t) => slot[t].job \in Jobs BY <1>0, <2>5, TypedLoop
    <3>2. CASE slot[t].job # j
      <4>1. Active(t) => KeepsLease(slot[t].job) BY <2>1, <3>1, <3>2, SameLease
      <4> QED BY <1>2, <2>5, <4>1, RestingLoop
    <3>3. CASE slot[t].job = j
      <4>1. Active(t) => Linking(t) BY <1>0, <1>2, <2>5, <3>3, OneWorker
      <4> QED BY <1>2, <2>5, <4>1 DEF HoldsLease, Active
    <3> QED BY <3>2, <3>3
  <2> QED BY <2>1, <2>2, <2>4, <2>5, SameFate
\* A step that leaves the rows alone.
<1>3. ASSUME row' = row, \A t \in Slots \ {s} : slot'[t] = slot[t],
             \/ ~Linking(s) /\ slot'[s].job = j /\ slot'[s].attempt = slot[s].attempt
                /\ slot'[s].lost = slot[s].lost
             \/ slot'[s].pc \in {"clearing", "idle"}
      PROVE  (\A t \in Slots : HoldsLease(t)') /\ (\A i \in Jobs : Fate(i))
  <2>1. \A i \in Jobs : Fate(i) /\ KeepsLease(i) BY <1>3, SameFate, SameLease
  <2>2. HoldsLease(s)' BY <1>3, <1>l DEF HoldsLease, OwnsClaim, Active
  <2>3. ASSUME NEW t \in Slots, t # s PROVE HoldsLease(t)'
    <3>1. Active(t) => slot[t].job \in Jobs BY <1>0, <2>3, TypedLoop
    <3> QED BY <1>3, <2>1, <2>3, <3>1, RestingLoop
  <2> QED BY <2>1, <2>2, <2>3
<1>4. ASSUME NEW pc, Goto(s, pc)
      PROVE  /\ \A t \in Slots \ {s} : slot'[t] = slot[t]
             /\ slot'[s].job = j /\ slot'[s].attempt = slot[s].attempt
             /\ slot'[s].lost = slot[s].lost /\ slot'[s].pc = pc
  BY <1>0, <1>4 DEF Goto, LoopsTyped, Slot
<1>5. ASSUME NEW result, Finish(s, result)
      PROVE  /\ \A t \in Slots \ {s} : slot'[t] = slot[t]
             /\ slot'[s].job = j /\ slot'[s].attempt = slot[s].attempt
             /\ slot'[s].lost = slot[s].lost
  BY <1>0, <1>5 DEF Finish, LoopsTyped, Slot
<1>6. ASSUME Idle(s)
      PROVE  (\A t \in Slots \ {s} : slot'[t] = slot[t]) /\ slot'[s].pc = "idle"
  BY <1>0, <1>6 DEF Idle, LoopsTyped, IdleSlot
<1>7. CASE Handle(s)
  <2>1. ~Linking(s)
    BY <1>7 DEF Handle, Suppress, Throw, Turn, TurnConflicts, TurnRefused, MarkSending,
                MarkRefused, Send, RecordProviderId
  <2>2. CASE MarkSending(s)
    <3> DEFINE new == Renewed(row[j], TRUE)
    <3>1. row' = [row EXCEPT ![j] = new] /\ Goto(s, "sending") BY <2>2 DEF MarkSending
    <3>2. /\ new.status = "PROCESSING" /\ new.expired = FALSE
          /\ new.lockedBy = row[j].lockedBy /\ new.attempts = row[j].attempts
      BY <1>0, <1>l, <2>1 DEF Renewed, Row
    <3> HIDE DEF new
    <3> QED BY <1>1, <1>4, <2>1, <3>1, <3>2
  <2>3. CASE ~MarkSending(s)
    <3>1. row' = row /\ ((\E pc : Goto(s, pc)) \/ (\E result : Finish(s, result)))
      BY <1>7, <2>3 DEF Handle, Suppress, Throw, Turn, TurnConflicts, TurnRefused, MarkRefused,
                        Send, RecordProviderId
    <3> QED BY <1>3, <1>4, <1>5, <2>1, <3>1
  <2> QED BY <2>2, <2>3
<1>8. CASE Heartbeat(s)
  <2> DEFINE new == Renewed(row[j], FALSE)
  <2>1. ~Linking(s) BY <1>8 DEF Heartbeat
  <2>2. row' = [row EXCEPT ![j] = new] /\ slot' = slot BY <1>8, <1>f, <1>l, <2>1 DEF Heartbeat
  <2>3. /\ new.status = "PROCESSING" /\ new.expired = FALSE
        /\ new.lockedBy = row[j].lockedBy /\ new.attempts = row[j].attempts
    BY <1>0, <1>l, <2>1 DEF Renewed, Row
  <2> HIDE DEF new
  <2> QED BY <1>1, <2>1, <2>2, <2>3
<1>9. CASE ClearSending(s)
  <2> DEFINE new == [row[j] EXCEPT !.outbound = "FAILED"]
  <2>1. ~Linking(s) BY <1>9 DEF ClearSending
  <2>2. row' = [row EXCEPT ![j] = new] /\ Goto(s, "failing")
    BY <1>9, <1>f, <1>l, <2>1 DEF ClearSending
  <2>3. /\ new.status = "PROCESSING" /\ new.expired = FALSE
        /\ new.lockedBy = row[j].lockedBy /\ new.attempts = row[j].attempts
    BY <1>0, <1>l, <2>1 DEF Row
  <2> HIDE DEF new
  <2> QED BY <1>1, <1>4, <2>1, <2>2, <2>3
<1>10. CASE CompleteJob(s)
  <2> DEFINE new == Completed(row[j], slot[s].result)
  <2>1. ~Linking(s) BY <1>10 DEF CompleteJob
  <2>2. row' = [row EXCEPT ![j] = new] /\ (Goto(s, "linking") \/ Idle(s))
    BY <1>10, <1>l, <2>1 DEF CompleteJob
  <2>3. new.status \in Terminal BY <1>0 DEF Completed, Row, Terminal
  <2> HIDE DEF new
  <2> QED BY <1>2, <1>4, <1>6, <2>1, <2>2, <2>3
<1>11. CASE FailWrite(s)
  <2> DEFINE new == Requeued(row[j], slot[s].result)
  <2>1. ~Linking(s) BY <1>11 DEF FailWrite
  <2>2. row' = [row EXCEPT ![j] = new] /\ Idle(s) BY <1>11, <1>l, <2>1 DEF FailWrite
  <2>3. new.status \in {"PENDING"} \cup Terminal BY <1>0 DEF Requeued, Row, Terminal
  <2> HIDE DEF new
  <2> QED BY <1>2, <1>6, <2>1, <2>2, <2>3
<1>12. CASE FailRead(s)
  <2> DEFINE new == [slot[s] EXCEPT !.pc = "requeueing", !.result = FailVerdict(row[j])]
  <2>1. slot' = [slot EXCEPT ![s] = new] /\ row' = row /\ ~Linking(s)
    BY <1>12 DEF FailRead
  <2>2. slot'[s] = new /\ \A t \in Slots \ {s} : slot'[t] = slot[t]
    BY <1>0, <2>1 DEF LoopsTyped
  <2>3. new.job = j /\ new.attempt = slot[s].attempt /\ new.lost = slot[s].lost
    BY <1>0 DEF LoopsTyped, Slot
  <2> HIDE DEF new
  <2> QED BY <1>3, <2>1, <2>2, <2>3
<1>13. CASE ClearAfterLink(s)
  <2>1. Idle(s) BY <1>13 DEF ClearAfterLink
  <2>2. CASE row' = row BY <1>3, <1>6, <2>1, <2>2
  <2>3. CASE row' # row
    <3> DEFINE new == [row[j] EXCEPT !.linkPending = FALSE]
    <3>1. row' = [row EXCEPT ![j] = new] /\ row[j].status = "COMPLETED"
      BY <1>13, <2>3 DEF ClearAfterLink, ClearMarker
    <3>2. row'[j] = new /\ new.status = row[j].status /\ \A i \in Jobs \ {j} : row'[i] = row[i]
      BY <1>0, <3>1 DEF RowsTyped, Row
    <3>a. row[j].status = "COMPLETED" /\ row'[j].status = "COMPLETED" BY <3>1, <3>2
    <3>3. Fate(j) BY <1>0, <3>a, FinishedFate DEF Terminal
    <3>4. KeepsLease(j) BY <3>1 DEF KeepsLease
    <3>5. ASSUME NEW t \in Slots PROVE HoldsLease(t)'
      <4>1. CASE t = s BY <1>6, <2>1, <4>1 DEF HoldsLease, Active
      <4>2. CASE t # s
        <5>1. Active(t) => slot[t].job \in Jobs BY <1>0, TypedLoop
        <5>2. Active(t) => KeepsLease(slot[t].job) BY <3>2, <3>4, <5>1, SameLease
        <5> QED BY <1>6, <2>1, <4>2, <5>2, RestingLoop
      <4> QED BY <4>1, <4>2
    <3> QED BY <3>2, <3>3, <3>5, SameFate
  <2> QED BY <2>2, <2>3
<1>14. CASE CompleteFails(s) \/ FailJobFails(s)
  BY <1>14, <1>f DEF CompleteFails, FailJobFails
<1>15. CASE LinkAfterComplete(s)
  <2>1. row' = row /\ (Idle(s) \/ Goto(s, "clearing")) BY <1>15 DEF LinkAfterComplete
  <2> QED BY <1>3, <1>4, <1>6, <2>1
<1> QED BY <1>7, <1>8, <1>9, <1>10, <1>11, <1>12, <1>13, <1>14, <1>15 DEF WriteBack

LEMMA ProcessOrder ==
  ASSUME OrderInd, NEW p \in Processes, Crash(p) \/ Shutdown(p) \/ Restart(p)
  PROVE  (\A t \in Slots : HoldsLease(t)') /\ (\A i \in Jobs : Fate(i))
<1>0. TypeOK BY DEF OrderInd, Ind
<1>1. row' = row BY DEF Crash, Shutdown, Restart
<1>2. \A i \in Jobs : Fate(i) /\ KeepsLease(i) BY <1>1, SameFate, SameLease
<1>3. ASSUME NEW t \in Slots PROVE HoldsLease(t)'
  <2>1. slot'[t] = IdleSlot \/ slot'[t] = slot[t] BY DEF Crash, Shutdown, Restart
  <2>2. CASE slot'[t] = IdleSlot BY <2>2 DEF IdleSlot, HoldsLease, Active
  <2>3. CASE slot'[t] = slot[t]
    <3>1. Active(t) => slot[t].job \in Jobs BY <1>0, TypedLoop
    <3> QED BY <1>2, <2>3, <3>1, RestingLoop
  <2> QED BY <2>1, <2>2, <2>3
<1> QED BY <1>2, <1>3

\* A claim passes over no message that could still be answered: an earlier one that is
\* claimable goes first unless it is being written, and then its loop holds the lease.
LEMMA ClaimInOrder ==
  ASSUME OrderInd, NEW s \in Slots, NEW j \in Jobs, Claim(s, j),
         NEW i \in Jobs, Partition[i] = Partition[j], i < j
  PROVE  Settled(i)
<1>1. i # j BY JobsAssumption
<1>2. /\ row[j].status = "PENDING" \/ (row[j].status = "PROCESSING" /\ row[j].expired)
      /\ \A k \in Jobs : Partition[k] = Partition[j] /\ k < j => row[k].status # "PENDING"
      /\ \A k \in Jobs \ {j} : Partition[k] = Partition[j] =>
            ~(row[k].status = "PROCESSING" /\ ~row[k].expired)
  BY DEF Claim, Claimable
<1>3. row[i].status # "ABSENT" BY <1>2 DEF OrderInd, InOrder, Ordered
<1>4. row[i].status \in Statuses BY TypedRow DEF OrderInd, Ind, Row
<1>5. CASE row[i].status = "PROCESSING"
  <2>1. row[i].expired BY <1>1, <1>2, <1>5
  <2>2. CASE row[i].outbound = "SENDING" BY <1>5, <2>1, <2>2 DEF Settled, Abandoned
  <2>3. CASE row[i].outbound # "SENDING"
    <3>1. ASSUME NEW k \in Jobs, Partition[k] = Partition[i], k < i
          PROVE  row[k].status # "PENDING"
      <4>1. k < j BY <3>1, JobsAssumption
      <4> QED BY <1>2, <3>1, <4>1
    <3>2. ASSUME NEW k \in Jobs \ {i}, Partition[k] = Partition[i]
          PROVE  ~(row[k].status = "PROCESSING" /\ ~row[k].expired)
      BY <1>2, <3>2
    <3>3. Claimable(i) BY <1>5, <2>1, <2>3, <3>1, <3>2 DEF Claimable
    <3>4. PICK t \in Slots : slot[t].job = i /\ slot[t].pc \in {"rejected", "completing", "requeueing"}
      BY <3>3 DEF Claim, BeingWritten
    <3>5. ~row[i].expired BY <3>4 DEF OrderInd, HoldsLease, Active
    <3> QED BY <2>1, <3>5
  <2> QED BY <2>2, <2>3
<1> QED BY <1>1, <1>2, <1>3, <1>4, <1>5 DEF Settled, Statuses, Terminal

LEMMA StepOrder ==
  ASSUME OrderInd, LeasesAreKept, [Next]_vars
  PROVE  OrderInd'
<1>1. Ind' BY StepInd DEF OrderInd
<1>2. (\A t \in Slots : HoldsLease(t)') /\ (\A i \in Jobs : Fate(i))
  <2>1. CASE Next
    <3>1. \/ \E j \in Jobs : Enqueue(j) \/ Time(j) \/ Stall(j) \/ SweepLink(j)
          \/ \E s \in Slots : Poll(s)
          \/ \E s \in Slots : Handle(s) \/ WriteBack(s) \/ Heartbeat(s)
          \/ \E p \in Processes : Crash(p) \/ Shutdown(p) \/ Restart(p)
      BY <2>1 DEF Next, SlotStep
    <3> QED BY <3>1, EnvironmentOrder, PollOrder, LoopOrder, ProcessOrder
  <2>2. CASE UNCHANGED vars
    <3>1. row' = row /\ slot' = slot BY <2>2 DEF vars
    <3>2. \A t \in Slots : HoldsLease(t)' BY <3>1 DEF OrderInd, HoldsLease, Active, OwnsClaim
    <3> QED BY <3>1, <3>2, SameFate
  <2> QED BY <2>1, <2>2
<1>3. ASSUME NEW i \in Jobs, NEW j \in Jobs, Partition[i] = Partition[j], i < j
      PROVE  Ordered(i, j)'
  <2>1. Ordered(i, j) /\ Fate(i) /\ Fate(j) BY <1>2, <1>3 DEF OrderInd, InOrder
  <2>2. row'[j].status # "ABSENT" => row'[i].status # "ABSENT"
    BY <1>3, <2>1 DEF Ordered, Fate, Enqueue
  <2>3. ASSUME Begun(j)' PROVE Settled(i)
    <3>1. CASE Begun(j) BY <2>1, <3>1 DEF Ordered
    <3>2. CASE \E s \in Slots : Claim(s, j) BY <1>3, <3>2, ClaimInOrder
    <3> QED BY <2>1, <2>3, <3>1, <3>2 DEF Fate
  <2>4. Begun(j)' => Settled(i)' BY <2>1, <2>3 DEF Fate
  <2> QED BY <2>2, <2>4 DEF Ordered
<1> QED BY <1>1, <1>2, <1>3 DEF OrderInd, InOrder

\* Only the loop that stands before the transport can reach the customer, and it holds
\* the lease of its message, so no later message has been begun.
LEMMA StepInOrder ==
  ASSUME OrderInd, [Next]_vars, NEW i \in Jobs, NEW j \in Jobs,
         Partition[i] = Partition[j], i < j, delivered'[i] > delivered[i]
  PROVE  delivered[j] = 0
<1>0. TypeOK /\ delivered \in [Jobs -> Nat] BY DEF OrderInd, Ind, TypeOK, RestTyped
<1>1. delivered' # delivered BY <1>0
<1>2. PICK s \in Slots : Send(s)
  BY <1>1 DEF Next, SlotStep, Poll, Handle, WriteBack, Time, Enqueue, LeaseRunsOut,
              BackoffElapses, Stall, SweepLink, ReconcileLink, ReconcileClear, Sweep,
              ClaimNothing, Claim, Suppress, Throw, Turn, TurnConflicts, TurnRefused, MarkSending,
              MarkRefused, RecordProviderId, Heartbeat, ClearSending, CompleteJob, CompleteFails,
              LinkAfterComplete, ClearAfterLink, FailRead, FailWrite, FailJobFails, Crash,
              Shutdown, Restart, vars
<1>3. slot[s].pc = "sending" /\ slot[s].job = i
  <2>1. slot[s].pc = "sending" /\ (Accept(slot[s].job) \/ delivered' = delivered)
    BY <1>2 DEF Send
  <2>2. CASE slot[s].job # i
    <3>1. delivered'[i] = delivered[i] BY <1>0, <2>1, <2>2 DEF Accept
    <3> QED BY <1>0, <3>1
  <2> QED BY <2>1, <2>2
<1>4. row[i].status = "PROCESSING" /\ ~row[i].expired
  BY <1>3 DEF OrderInd, HoldsLease, OwnsClaim, Active
<1>5. ~Begun(j) BY <1>4 DEF OrderInd, InOrder, Ordered, Settled, Abandoned, Terminal
<1> QED BY <1>5 DEF Begun, OrderInd, Ind, Core, RowInv

\* Strict first-in first-out, for any number of messages, loops, processes, attempts and
\* crashes, as long as no worker is stalled past its lease and none loses the database.
THEOREM AnswersLeaveInOrder == LeasesAreKept => (Spec => DeliveryInOrder)
<1> SUFFICES ASSUME LeasesAreKept PROVE Spec => DeliveryInOrder
  OBVIOUS
<1>1. OrderInd /\ [Next]_vars => OrderInd' BY StepOrder
<1>2. OrderInd /\ [Next]_vars =>
        [\A i, j \in Jobs :
           Partition[i] = Partition[j] /\ i < j /\ delivered'[i] > delivered[i]
             => delivered[j] = 0]_vars
  BY StepInOrder
<1> QED BY OrderInit, <1>1, <1>2, PTL DEF Spec, DeliveryInOrder
=============================================================================
