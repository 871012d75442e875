-------------------------- MODULE DeliveryReceipts --------------------------
(***************************************************************************)
(* Delivery receipts: WhatsAppWebhookRouter stores what Meta reports about a *)
(* provider id, and WhatsAppDeliveryReceiptProcessor brings it to the        *)
(* message that carries the id: at once when a queue links a message         *)
(* (reconcileReceiptsForProviderId), and in a periodic sweep of every        *)
(* process (reconcilePendingReceipts).                                       *)
(*                                                                           *)
(* Messages are linked here as the inbound queue links its answers: the      *)
(* worker that sent one records the id; if that fails, the loop that has     *)
(* completed the job and the sweeps of links in every process do it, each    *)
(* after a look whether it is done.  The look and the write are two          *)
(* statements, and the write asks for nothing.  MerchantOutbound brings the  *)
(* links of the other queue.                                                 *)
(*                                                                           *)
(* A receipt is an id and a kind: the unique dedupeKey makes one row of it.  *)
(* `log` holds the rows in the order of (createdAt, id), so a position in it *)
(* stands for the keyset cursor of the sweep.                                *)
(***************************************************************************)
EXTENDS Naturals, Sequences, FiniteSets

CONSTANTS
  Messages,   \* outgoing messages
  NoMessage,  \* the owner of an id that no message of ours will ever carry
  Ids,        \* provider message ids
  Owner,      \* Ids -> the message the provider gave the id to, or NoMessage
  NoId,       \* externalId = null
  Processes,  \* the processes that link messages and run a sweep
  SweepLimit, \* how many receipts a sweep inspects
  MaxReceipts,\* bound on the number of receipts
  MaxAged,    \* bound on the receipts that get older than the sweep's window
  FaultKinds, \* which faults may happen; "record" in the worker's write of an id,
              \* "db" in any other statement, "crash"
  MaxFaults   \* bound on the number of faults in a behaviour

ASSUME OwnerAssumption == NoId \notin Ids /\ Owner \in [Ids -> Messages \cup {NoMessage}]
ASSUME NobodyAssumption == NoMessage \notin Messages
ASSUME LimitAssumption == SweepLimit \in Nat \ {0} /\ MaxReceipts \in Nat /\ MaxAged \in Nat
ASSUME FaultsAssumption == MaxFaults \in Nat

VARIABLES
  msg,        \* per message: its deliveryStatus and externalId
  log,        \* the receipts in the order of their arrival
  correlated, \* the receipts whose row says correlated
  linker,     \* per process and id: how far it is with linking and reconciling the id
  unrecorded, \* ids that the worker could not write on the message it had sent
  relinked,   \* messages on which a link was written over a link (read by no action)
  sweep,      \* per process: cursor, and the rows of `log` its sweep still has to apply
  aged,       \* how many of the first receipts are outside the two-hour window
  faults      \* faults so far

receiptVars == <<msg, log, correlated, linker, unrecorded, relinked, sweep, aged>>
vars == <<receiptVars, faults>>

Kinds == {"SENT", "DELIVERED", "READ", "FAILED"}
Statuses == Kinds \cup {"PENDING", "DELIVERY_UNKNOWN"}
Receipt == [id: Ids, kind: Kinds]
Message == [status: Statuses, ext: Ids \cup {NoId}]
\* A linker is about to write the link, to query the receipts of the id, or to apply those left.
Linker == [pc: {"idle", "writing", "querying", "applying"}, left: SUBSET Receipt]
SweepState == [cursor: Nat, batch: SUBSET Nat]

IdleLinker == [pc |-> "idle", left |-> {}]
NoSweep == [cursor |-> 0, batch |-> {}]

Init ==
  /\ msg = [m \in Messages |-> [status |-> "PENDING", ext |-> NoId]]
  /\ log = <<>>
  /\ correlated = {}
  /\ linker = [p \in Processes |-> [id \in Ids |-> IdleLinker]]
  /\ unrecorded = {} /\ relinked = {}
  /\ sweep = [p \in Processes |-> NoSweep]
  /\ aged = 0
  /\ faults = 0

Logged == {log[i] : i \in DOMAIN log}
ReceiptsOf(id) == {r \in Logged : r.id = id}
Linked(id) == \E m \in Messages : msg[m].ext = id

Fault(kind) == kind \in FaultKinds /\ faults < MaxFaults /\ faults' = faults + 1

-----------------------------------------------------------------------------
(* The delivery state machine *)

\* ALLOWED_DELIVERY_TRANSITIONS
Allowed ==
  [PENDING          |-> {"SENT", "DELIVERED", "READ", "FAILED", "DELIVERY_UNKNOWN"},
   SENT             |-> {"DELIVERED", "READ", "FAILED", "DELIVERY_UNKNOWN"},
   DELIVERED        |-> {"READ"},
   READ             |-> {},
   FAILED           |-> {},
   DELIVERY_UNKNOWN |-> {"SENT", "DELIVERED", "READ", "FAILED"}]

\* Fault: only the successor in the ladder is accepted, no fast-forward.
TransitionOneStep(current, target) ==
  \/ target \in Allowed[current] /\ target # "READ"
  \/ current = "DELIVERED" /\ target = "READ"

\* Fault: the table is not asked.
TransitionToAny(current, target) == current # target

CanTransition(current, target) == current # target /\ target \in Allowed[current]

\* applyReceipt: one transaction that locks the message row.
ApplyReceipt(r) ==
  \/ /\ ~Linked(r.id)
     /\ UNCHANGED <<msg, correlated>>
  \/ \E m \in Messages :
       /\ msg[m].ext = r.id
       /\ msg' = IF CanTransition(msg[m].status, r.kind)
                 THEN [msg EXCEPT ![m].status = r.kind] ELSE msg
       /\ correlated' = correlated \cup {r}

-----------------------------------------------------------------------------
(* The webhook *)

\* Meta never reports both a failure and a delivery of one message, but it may
\* report the rest in any order, or leave some of it out.
Truthful(r) ==
  LET told == {s.kind : s \in ReceiptsOf(r.id)} IN
    IF r.kind = "FAILED" THEN told \cap {"DELIVERED", "READ"} = {}
    ELSE r.kind \in {"DELIVERED", "READ"} => "FAILED" \notin told

\* A duplicate is acknowledged without a write, hence a stutter.
Ingest(r) ==
  /\ Len(log) < MaxReceipts
  /\ r \notin Logged /\ Truthful(r)
  /\ log' = Append(log, r)
  /\ UNCHANGED <<msg, correlated, linker, unrecorded, relinked, sweep, aged, faults>>

\* The first receipts get older than two hours.
Age ==
  /\ aged < MaxAged /\ aged < Len(log)
  /\ aged' = aged + 1
  /\ UNCHANGED <<msg, log, correlated, linker, unrecorded, relinked, sweep, faults>>

-----------------------------------------------------------------------------
(* Linking a message to its id, then reconcileReceiptsForProviderId *)

linkVars == <<log, sweep, aged>>
At(p, id, pc) == linker[p][id].pc = pc
Goto(p, id, pc) == linker' = [linker EXCEPT ![p][id] = [pc |-> pc, left |-> {}]]

\* The write of a link: SENT and the id, whatever the message says by now.
LinkMessage(p, m, id) ==
  /\ msg' = [msg EXCEPT ![m] = [status |-> "SENT", ext |-> id]]
  /\ relinked' = IF msg[m].ext = NoId THEN relinked ELSE relinked \cup {m}
  /\ Goto(p, id, "querying")

\* The provider accepts an answer of the inbound queue at most once (AtMostOneDelivery):
\* its message is the owner of one id.
AnswerIds ==
  {id \in Ids : Owner[id] \in Messages /\ \A other \in Ids : Owner[other] = Owner[id] => other = id}

\* The worker that has sent the answer links it before it completes the job, so that
\* nobody else is at it yet.
ToRecord(id) == id \in AnswerIds \ unrecorded /\ ~Linked(id)

Record(p, id) ==
  /\ ToRecord(id)
  /\ LinkMessage(p, Owner[id], id)
  /\ UNCHANGED <<linkVars, correlated, unrecorded, faults>>

RecordFails(id) ==
  /\ ToRecord(id)
  /\ Fault("record")
  /\ unrecorded' = unrecorded \cup {id}
  /\ UNCHANGED <<linkVars, msg, correlated, linker, relinked>>

\* linkCompletedOutboundMessage, after completeJob or from the sweep of links: what is
\* linked already is only reconciled again.
LookUp(p, id) ==
  /\ At(p, id, "idle")
  /\ \/ Linked(id) /\ id \in AnswerIds /\ Goto(p, id, "querying")
     \/ ~Linked(id) /\ id \in unrecorded /\ Goto(p, id, "writing")
  /\ UNCHANGED <<linkVars, msg, correlated, unrecorded, relinked, faults>>

WriteLink(p, id) ==
  /\ At(p, id, "writing")
  /\ LinkMessage(p, Owner[id], id)
  /\ UNCHANGED <<linkVars, correlated, unrecorded, faults>>

ReconcileRead(p, id) ==
  /\ At(p, id, "querying")
  /\ linker' = [linker EXCEPT ![p][id] =
                  [pc |-> "applying", left |-> ReceiptsOf(id) \ correlated]]
  /\ UNCHANGED <<linkVars, msg, correlated, unrecorded, relinked, faults>>

\* The linker after r has been applied; it ends with its last receipt.
CrossedOff(p, id, r) ==
  IF linker[p][id].left = {r} THEN IdleLinker
  ELSE [linker[p][id] EXCEPT !.left = linker[p][id].left \ {r}]

\* providerTimestamp counts whole seconds: receipts may tie, and any may come first.
ReconcileApply(p, id) ==
  /\ At(p, id, "applying")
  /\ \E r \in linker[p][id].left :
       /\ ApplyReceipt(r)
       /\ linker' = [linker EXCEPT ![p][id] = CrossedOff(p, id, r)]
  /\ UNCHANGED <<linkVars, unrecorded, relinked, faults>>

ReconcileDone(p, id) ==
  /\ At(p, id, "applying") /\ linker[p][id].left = {}
  /\ Goto(p, id, "idle")
  /\ UNCHANGED <<linkVars, msg, correlated, unrecorded, relinked, faults>>

\* An error of any statement ends the linker; it is caught and logged.
LinkerFails(p, id) ==
  /\ ~At(p, id, "idle")
  /\ Fault("db")
  /\ Goto(p, id, "idle")
  /\ UNCHANGED <<linkVars, msg, correlated, unrecorded, relinked>>

-----------------------------------------------------------------------------
(* reconcilePendingReceipts *)

\* What a query that starts after position `from` finds: the first SweepLimit rows.
Waiting(from) == {i \in DOMAIN log : i > from /\ i > aged /\ log[i] \notin correlated}
FirstOf(found) == {i \in found : Cardinality({j \in found : j <= i}) <= SweepLimit}

\* Fault: every sweep starts at the oldest receipt.
CursorForgotten(batch, c) == c = 0

\* The cursor after a query: at its last row, or back to the start at the end.
NextCursor(batch, c) ==
  IF Cardinality(batch) < SweepLimit THEN c = 0
  ELSE c \in batch /\ \A i \in batch : i <= c

\* The cursor moves before the first receipt is applied.
SweepRead(p) ==
  LET batch == FirstOf(Waiting(sweep[p].cursor)) IN
    /\ sweep[p].batch = {}
    /\ \E c \in 0..Len(log) :
         /\ NextCursor(batch, c)
         /\ sweep' = [sweep EXCEPT ![p] = [cursor |-> c, batch |-> batch]]
    /\ UNCHANGED <<msg, log, correlated, linker, unrecorded, relinked, aged, faults>>

SweepApply(p) ==
  \E i \in sweep[p].batch :
    /\ \A j \in sweep[p].batch : i <= j
    /\ ApplyReceipt(log[i])
    /\ sweep' = [sweep EXCEPT ![p].batch = @ \ {i}]
    /\ UNCHANGED <<log, linker, unrecorded, relinked, aged, faults>>

\* An error ends the sweep; the rest of its batch waits until the cursor wraps.
SweepFails(p) ==
  /\ sweep[p].batch # {}
  /\ Fault("db")
  /\ sweep' = [sweep EXCEPT ![p].batch = {}]
  /\ UNCHANGED <<msg, log, correlated, linker, unrecorded, relinked, aged>>

\* The process dies and starts again: cursor and unfinished work are gone.
ReceiptsCrash(p) ==
  /\ sweep' = [sweep EXCEPT ![p] = NoSweep]
  /\ linker' = [linker EXCEPT ![p] = [id \in Ids |-> IdleLinker]]
  /\ UNCHANGED <<msg, log, correlated, unrecorded, relinked, aged>>

Crash(p) == Fault("crash") /\ ReceiptsCrash(p)

-----------------------------------------------------------------------------

LinkStep(p, id) == Record(p, id) \/ LookUp(p, id) \/ WriteLink(p, id)
ReconcileStep(p, id) == ReconcileRead(p, id) \/ ReconcileApply(p, id) \/ ReconcileDone(p, id)
SweepStep(p) == SweepRead(p) \/ SweepApply(p)

Next ==
  \/ \E r \in Receipt : Ingest(r)
  \/ Age
  \/ \E p \in Processes, id \in Ids : LinkStep(p, id) \/ ReconcileStep(p, id) \/ LinkerFails(p, id)
  \/ \E id \in Ids : RecordFails(id)
  \/ \E p \in Processes : SweepStep(p) \/ SweepFails(p) \/ Crash(p)

Spec == Init /\ [][Next]_vars

\* startWorker runs the sweep on a timer for as long as the process lives.  The
\* reconciliation after a link gets no fairness: the sweep has to do without it.
FairSpec == Spec /\ \A p \in Processes : WF_vars(SweepStep(p))

-----------------------------------------------------------------------------
(* Properties *)

\* Every variable keeps its type, and an id is only ever linked to its owner.
TypeOK ==
  /\ msg \in [Messages -> Message]
  /\ \A m \in Messages : msg[m].ext \in Ids => Owner[msg[m].ext] = m
  /\ log \in Seq(Receipt)
  /\ correlated \subseteq Logged
  /\ linker \in [Processes -> [Ids -> Linker]]
  /\ \A p \in Processes, id \in Ids : linker[p][id].left \subseteq ReceiptsOf(id)
  /\ unrecorded \subseteq AnswerIds /\ relinked \subseteq Messages
  /\ sweep \in [Processes -> SweepState]
  /\ \A p \in Processes : /\ sweep[p].cursor \in 0..Len(log)
                          /\ sweep[p].batch \subseteq DOMAIN log
  /\ aged \in 0..Len(log)
  /\ faults \in 0..MaxFaults

\* The ladder of the architecture document: a failure excludes a delivery.
Rank == [SENT |-> 1, DELIVERED |-> 2, READ |-> 3, FAILED |-> 4]

\* What is known of a linked message: that it was accepted, and its receipts.
Known(m) == {"SENT"} \cup {r.kind : r \in {s \in correlated : s.id = msg[m].ext}}

\* A linked message shows the best of what was correlated to it, no more and, unless a
\* second linker has written over it, no less, whatever the order, the overlap and the
\* staleness of the appliers: applyReceipt neither loses evidence nor invents it.
StatusIsBestEvidence ==
  \A m \in Messages : msg[m].ext # NoId =>
    /\ msg[m].status \in Known(m)
    /\ m \notin relinked => \A k \in Known(m) : Rank[k] <= Rank[msg[m].status]

\* What the state machine asks of a step: "DELIVERED must NEVER become FAILED, SENT, or
\* PENDING" (WhatsAppDeliveryStateMachine.ts:36).
NeverBack(m) ==
  /\ msg[m].status = "DELIVERED" => msg'[m].status \in {"DELIVERED", "READ"}
  /\ msg[m].status \in {"READ", "FAILED"} => msg'[m].status = msg[m].status

\* No receipt, sweep, reconciliation or first link turns a status back, in any order.  It takes
\* two linkers that have both looked before the first one wrote, and for that the worker must
\* have failed to record the id.  The receipt that the second writes over is not applied again.
OnlyRelinksTurnBack ==
  [][\A m \in Messages : NeverBack(m) \/ (m \in relinked' /\ faults > 0)]_vars

\* A receipt of a linked message is finally correlated, although foreign receipts
\* fill the sweep's window, unless it gets older than that window.
EveryReceiptCounts ==
  \A i \in 1..MaxReceipts :
    (i \in DOMAIN log /\ Linked(log[i].id))
      ~> (i <= aged \/ (i \in DOMAIN log /\ log[i] \in correlated))
=============================================================================
