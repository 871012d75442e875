---------------------------- MODULE OutboundProofs ----------------------------
(***************************************************************************)
(* Proofs about what leaves through the merchant's queue, for any number of  *)
(* messages, ids, processes, receipts, calls, attempts and faults.           *)
(*                                                                           *)
(* DeliveryReceipts: a linked message shows the best of the receipts         *)
(* correlated to it, and only a second link turns a status back.             *)
(* MerchantOutbound, which extends it: the two rows of a message agree and    *)
(* its status never falls back unless a call of it was held up, and every    *)
(* repeated send is paid for by a fault.                                     *)
(***************************************************************************)
EXTENDS MerchantOutbound, TLAPS, FiniteSetTheorems

-----------------------------------------------------------------------------
(* Delivery receipts *)

\* The provider told no contradiction about an id.
Exclusive ==
  \A r, s \in Logged :
    r.id = s.id /\ r.kind = "FAILED" => s.kind \notin {"DELIVERED", "READ"}

\* A correlated receipt has found its message.
CorrelatedIsLinked == \A r \in correlated : Linked(r.id)

\* Only a message that has not been linked yet is still pending.
PendingIsUnlinked == \A m \in Messages : msg[m].status = "PENDING" <=> msg[m].ext = NoId

\* Only after the worker has failed to record an id does anybody else write its link.
LinkersFollowFault ==
  /\ unrecorded # {} => faults > 0
  /\ \A p \in Processes, id \in Ids : At(p, id, "writing") => id \in unrecorded

Ind ==
  /\ TypeOK /\ Exclusive /\ CorrelatedIsLinked /\ PendingIsUnlinked /\ StatusIsBestEvidence
  /\ LinkersFollowFault

\* The properties of the constants that the proofs use.
LEMMA Constants ==
  /\ NoId \notin Ids /\ Owner \in [Ids -> Messages \cup {NoMessage}]
  /\ NoMessage \notin Messages
  /\ SweepLimit \in Nat \ {0} /\ MaxReceipts \in Nat /\ MaxAged \in Nat /\ MaxFaults \in Nat
BY OwnerAssumption, NobodyAssumption, LimitAssumption, FaultsAssumption

\* A receipt that arrives is added to the rows of the log.
LEMMA LogGrows ==
  ASSUME TypeOK, NEW r \in Receipt, log' = Append(log, r)
  PROVE  /\ log' \in Seq(Receipt) /\ Logged' = Logged \cup {r}
         /\ Len(log') = Len(log) + 1 /\ DOMAIN log \subseteq DOMAIN log'
<1>1. log \in Seq(Receipt)
  BY DEF TypeOK
<1>2. log' \in Seq(Receipt) /\ Len(log') = Len(log) + 1 /\ Len(log) \in Nat
  BY <1>1
<1>3. DOMAIN log = 1..Len(log) /\ DOMAIN log' = 1..Len(log) + 1
  BY <1>1, <1>2
<1>4. \A i \in 1..Len(log) : log'[i] = log[i]
  BY <1>1
<1>5. log'[Len(log) + 1] = r
  BY <1>1
<1>6. Logged' = Logged \cup {r}
  BY <1>2, <1>3, <1>4, <1>5 DEF Logged
<1> QED
  BY <1>2, <1>3, <1>6

\* The rows of the log are receipts.
LEMMA LoggedAreReceipts ==
  ASSUME TypeOK PROVE Logged \subseteq Receipt /\ DOMAIN log = 1..Len(log) /\ Len(log) \in Nat
<1>1. log \in Seq(Receipt)
  BY DEF TypeOK
<1> QED
  BY <1>1 DEF Logged

LEMMA InitInd == Init => Ind
<1> SUFFICES ASSUME Init PROVE Ind
  OBVIOUS
<1> USE Constants DEF Init
<1>1. Logged = {}
  BY DEF Logged
<1>2. \A m \in Messages : msg[m] = [status |-> "PENDING", ext |-> NoId]
  OBVIOUS
<1>3. TypeOK
  <2>1. msg \in [Messages -> Message]
    BY DEF Message, Statuses
  <2>2. log \in Seq(Receipt) /\ Len(log) = 0
    OBVIOUS
  <2>3. /\ linker \in [Processes -> [Ids -> Linker]]
        /\ \A p \in Processes, id \in Ids : linker[p][id].left = {}
    BY DEF Linker, IdleLinker
  <2>4. sweep \in [Processes -> SweepState]
    BY DEF SweepState, NoSweep
  <2>5. \A p \in Processes : sweep[p].cursor = 0 /\ sweep[p].batch = {}
    BY DEF NoSweep
  <2> QED
    BY <1>1, <1>2, <2>1, <2>2, <2>3, <2>4, <2>5 DEF TypeOK
<1>4. Exclusive /\ CorrelatedIsLinked
  BY <1>1 DEF Exclusive, CorrelatedIsLinked
<1>5. PendingIsUnlinked /\ StatusIsBestEvidence
  BY <1>2 DEF PendingIsUnlinked, StatusIsBestEvidence
<1>6. LinkersFollowFault
  BY DEF LinkersFollowFault, At, IdleLinker
<1> QED
  BY <1>3, <1>4, <1>5, <1>6 DEF Ind

\* An id belongs to one message only.
LEMMA OneMessagePerId ==
  ASSUME TypeOK, NEW m \in Messages, NEW n \in Messages, NEW id \in Ids,
         msg[m].ext = id, msg[n].ext = id
  PROVE  m = n
BY DEF TypeOK

-----------------------------------------------------------------------------
(* Types *)

\* The steps of the webhook, of the reconciliations and of the sweeps.
ReceiptAction ==
  \/ \E r \in Receipt : Ingest(r)
  \/ Age
  \/ \E p \in Processes, id \in Ids : ReconcileStep(p, id) \/ LinkerFails(p, id)
  \/ \E p \in Processes : SweepStep(p) \/ SweepFails(p)

\* A step of one linker leaves the others as they are, and makes none ready to write.
LEMMA LinkerUpdate ==
  ASSUME TypeOK, NEW p \in Processes, NEW id \in Ids, NEW new \in Linker,
         linker' = [linker EXCEPT ![p][id] = new],
         new.left \subseteq ReceiptsOf(id)
  PROVE  /\ linker' \in [Processes -> [Ids -> Linker]]
         /\ \A q \in Processes, i \in Ids :
              /\ linker'[q][i].left \subseteq ReceiptsOf(i)
              /\ linker'[q][i] = linker[q][i] \/ (q = p /\ i = id /\ linker'[q][i] = new)
<1>1. /\ linker \in [Processes -> [Ids -> Linker]]
      /\ \A q \in Processes, i \in Ids : linker[q][i].left \subseteq ReceiptsOf(i)
  BY DEF TypeOK
<1>2. linker' \in [Processes -> [Ids -> Linker]] /\ linker'[p][id] = new
  BY <1>1
<1>3. ASSUME NEW q \in Processes, NEW i \in Ids, q # p \/ i # id
      PROVE  linker'[q][i] = linker[q][i]
  BY <1>1, <1>3
<1> QED
  BY <1>1, <1>2, <1>3

\* What a linker does next, with nothing read yet.
LEMMA GotoLinker ==
  ASSUME NEW pc \in {"idle", "writing", "querying", "applying"}
  PROVE  LET new == [pc |-> pc, left |-> {}] IN new \in Linker /\ new.left = {} /\ new.pc = pc
BY DEF Linker

\* One application of a receipt touches the status of the message that carries its id.
LEMMA Applied ==
  ASSUME TypeOK, NEW r \in Logged, ApplyReceipt(r)
  PROVE  /\ msg' \in [Messages -> Message] /\ correlated' \subseteq Logged
         /\ \A m \in Messages :
              /\ msg'[m].ext = msg[m].ext
              /\ msg'[m].status # msg[m].status => msg[m].ext \in Ids /\ msg'[m].status \in Kinds
<1>1. r.id \in Ids /\ r.kind \in Kinds /\ msg \in [Messages -> Message] /\ correlated \subseteq Logged
  BY LoggedAreReceipts DEF TypeOK, Receipt
<1>2. CASE UNCHANGED <<msg, correlated>>
  BY <1>1, <1>2
<1>3. CASE \E m \in Messages :
             /\ msg[m].ext = r.id
             /\ msg' = IF CanTransition(msg[m].status, r.kind)
                       THEN [msg EXCEPT ![m].status = r.kind] ELSE msg
             /\ correlated' = correlated \cup {r}
  BY <1>1, <1>3 DEF Message, Statuses
<1> QED
  BY <1>2, <1>3 DEF ApplyReceipt

\* The table of transitions lets no receipt turn a status back.
LEMMA AppliedForward ==
  ASSUME TypeOK, NEW r, ApplyReceipt(r) PROVE \A m \in Messages : NeverBack(m)
<1>1. msg \in [Messages -> Message]
  BY DEF TypeOK
<1>2. \A m \in Messages : msg'[m] = msg[m] => NeverBack(m)
  BY DEF NeverBack
<1>3. ASSUME NEW m \in Messages, CanTransition(msg[m].status, r.kind),
             msg' = [msg EXCEPT ![m].status = r.kind]
      PROVE  \A n \in Messages : NeverBack(n)
  <2>1. msg'[m].status = r.kind /\ \A n \in Messages \ {m} : msg'[n] = msg[n]
    BY <1>1, <1>3 DEF Message
  <2>2. NeverBack(m)
    BY <1>3, <2>1 DEF CanTransition, Allowed, NeverBack
  <2> QED
    BY <1>2, <2>1, <2>2
<1> QED
  BY <1>2, <1>3 DEF ApplyReceipt

\* A fault is counted within its bound.
LEMMA FaultCounted ==
  ASSUME TypeOK, NEW kind, Fault(kind) PROVE faults' \in 0..MaxFaults /\ faults' = faults + 1
<1>1. faults \in 0..MaxFaults /\ MaxFaults \in Nat /\ faults < MaxFaults /\ faults' = faults + 1
  BY Constants DEF TypeOK, Fault
<1> QED
  BY <1>1

\* A step of the appliers and the counters that leaves the log alone.
LEMMA BookkeepingType ==
  ASSUME TypeOK, log' = log, msg' \in [Messages -> Message], correlated' \subseteq Logged,
         \A m \in Messages : msg'[m].ext = msg[m].ext,
         linker' \in [Processes -> [Ids -> Linker]],
         \A p \in Processes, id \in Ids : linker'[p][id].left \subseteq ReceiptsOf(id),
         unrecorded' \subseteq AnswerIds, relinked' = relinked,
         sweep' \in [Processes -> SweepState],
         \A p \in Processes : sweep'[p].cursor \in 0..Len(log) /\ sweep'[p].batch \subseteq DOMAIN log,
         aged' \in 0..Len(log), faults' \in 0..MaxFaults
  PROVE  TypeOK'
<1>1. Logged' = Logged
  BY DEF Logged
<1> QED
  BY <1>1 DEF TypeOK, ReceiptsOf

\* Some receipt of the log is applied.
Applies == \E r \in Logged : ApplyReceipt(r) /\ UNCHANGED log

LEMMA ReceiptsKeepTypes ==
  ASSUME TypeOK, ReceiptAction
  PROVE  TypeOK' /\ (Applies \/ UNCHANGED <<msg, log, correlated>> \/ \E r \in Receipt : Ingest(r))
<1> USE Constants
<1>0. /\ linker \in [Processes -> [Ids -> Linker]] /\ sweep \in [Processes -> SweepState]
      /\ \A p \in Processes, id \in Ids : linker[p][id].left \subseteq ReceiptsOf(id)
      /\ unrecorded \subseteq AnswerIds
      /\ \A p \in Processes : sweep[p].cursor \in 0..Len(log) /\ sweep[p].batch \subseteq DOMAIN log
      /\ aged \in 0..Len(log) /\ faults \in 0..MaxFaults
      /\ Len(log) \in Nat /\ DOMAIN log = 1..Len(log) /\ Logged \subseteq Receipt
      /\ msg \in [Messages -> Message] /\ correlated \subseteq Logged
  BY LoggedAreReceipts DEF TypeOK
<1>1. ASSUME NEW r \in Receipt, Ingest(r) PROVE TypeOK'
  <2>1. /\ log' \in Seq(Receipt) /\ Logged' = Logged \cup {r}
        /\ Len(log') = Len(log) + 1 /\ DOMAIN log \subseteq DOMAIN log'
    BY <1>1, LogGrows DEF Ingest
  <2>2. 0..Len(log) \subseteq 0..Len(log')
    BY <1>0, <2>1
  <2>3. \A id \in Ids : ReceiptsOf(id) \subseteq ReceiptsOf(id)'
    BY <2>1 DEF ReceiptsOf
  <2> QED
    BY <1>1, <2>1, <2>2, <2>3 DEF TypeOK, Ingest
<1>2. CASE Age
  BY <1>0, <1>2, BookkeepingType DEF Age
<1>3. ASSUME NEW p \in Processes, NEW id \in Ids, ReconcileRead(p, id)
      PROVE  TypeOK' /\ UNCHANGED <<msg, log, correlated>>
  <2> DEFINE found == ReceiptsOf(id) \ correlated
             new == [pc |-> "applying", left |-> found]
  <2>1. linker' = [linker EXCEPT ![p][id] = new]
    BY <1>3 DEF ReconcileRead
  <2>2. found \subseteq Receipt /\ found \subseteq ReceiptsOf(id)
    BY <1>0 DEF ReceiptsOf
  <2> HIDE DEF found
  <2>3. new \in Linker /\ new.left = found
    BY <2>2 DEF Linker
  <2> HIDE DEF new
  <2>4. linker' \in [Processes -> [Ids -> Linker]]
        /\ \A q \in Processes, i \in Ids : linker'[q][i].left \subseteq ReceiptsOf(i)
    BY <2>1, <2>2, <2>3, LinkerUpdate
  <2> QED
    BY <1>0, <1>3, <2>4, BookkeepingType DEF ReconcileRead, linkVars
<1>4. ASSUME NEW p \in Processes, NEW id \in Ids, ReconcileApply(p, id)
      PROVE  TypeOK' /\ Applies
  <2>1. PICK r \in linker[p][id].left :
          /\ ApplyReceipt(r)
          /\ linker' = [linker EXCEPT ![p][id] = CrossedOff(p, id, r)]
    BY <1>4 DEF ReconcileApply
  <2>2. r \in Logged /\ UNCHANGED <<log, sweep, aged, unrecorded, relinked, faults>>
    BY <1>0, <1>4, <2>1 DEF ReconcileApply, linkVars, ReceiptsOf
  <2>3. linker[p][id] \in Linker
    BY <1>0
  <2> DEFINE left == linker[p][id].left \ {r}
             new == CrossedOff(p, id, r)
  <2>4. left \in SUBSET Receipt /\ left \subseteq linker[p][id].left
    BY <2>3 DEF Linker
  <2>5. new = IF linker[p][id].left = {r} THEN IdleLinker ELSE [linker[p][id] EXCEPT !.left = left]
    BY DEF CrossedOff
  <2> HIDE DEF left
  <2>6. new \in Linker /\ new.left \subseteq linker[p][id].left
    BY <2>3, <2>4, <2>5 DEF Linker, IdleLinker
  <2> HIDE DEF new
  <2>7. new.left \subseteq ReceiptsOf(id)
    BY <1>0, <2>6
  <2>8. linker' \in [Processes -> [Ids -> Linker]]
        /\ \A q \in Processes, i \in Ids : linker'[q][i].left \subseteq ReceiptsOf(i)
    <3>1. linker' = [linker EXCEPT ![p][id] = new]
      BY <2>1 DEF new
    <3> QED
      BY <2>6, <2>7, <3>1, LinkerUpdate
  <2> QED
    BY <1>0, <2>1, <2>2, <2>8, Applied, BookkeepingType DEF Applies
<1>5. ASSUME NEW p \in Processes, NEW id \in Ids, ReconcileDone(p, id) \/ LinkerFails(p, id)
      PROVE  TypeOK' /\ UNCHANGED <<msg, log, correlated>>
  <2>1. /\ Goto(p, id, "idle") /\ faults' \in 0..MaxFaults
        /\ UNCHANGED <<msg, log, correlated, sweep, aged, unrecorded, relinked>>
    BY <1>0, <1>5, FaultCounted DEF ReconcileDone, LinkerFails, linkVars
  <2>2. linker' \in [Processes -> [Ids -> Linker]]
        /\ \A q \in Processes, i \in Ids : linker'[q][i].left \subseteq ReceiptsOf(i)
    BY <2>1, GotoLinker, LinkerUpdate DEF Goto
  <2> QED
    BY <1>0, <2>1, <2>2, BookkeepingType
<1>6. ASSUME NEW p \in Processes, SweepRead(p)
      PROVE  TypeOK' /\ UNCHANGED <<msg, log, correlated>>
  <2> DEFINE batch == FirstOf(Waiting(sweep[p].cursor))
  <2>1. batch \subseteq DOMAIN log
    BY DEF FirstOf, Waiting
  <2>2. PICK c \in 0..Len(log) : sweep' = [sweep EXCEPT ![p] = [cursor |-> c, batch |-> batch]]
    BY <1>6 DEF SweepRead
  <2> HIDE DEF batch
  <2>3. sweep' \in [Processes -> SweepState]
        /\ \A q \in Processes : sweep'[q].cursor \in 0..Len(log) /\ sweep'[q].batch \subseteq DOMAIN log
    BY <1>0, <2>1, <2>2 DEF SweepState
  <2> QED
    BY <1>0, <1>6, <2>3, BookkeepingType DEF SweepRead
<1>7. ASSUME NEW p \in Processes, SweepApply(p)
      PROVE  TypeOK' /\ Applies
  <2>1. PICK i \in sweep[p].batch :
          /\ ApplyReceipt(log[i])
          /\ sweep' = [sweep EXCEPT ![p].batch = @ \ {i}]
          /\ UNCHANGED <<log, linker, unrecorded, relinked, aged, faults>>
    BY <1>7 DEF SweepApply
  <2>2. log[i] \in Logged
    BY <1>0, <2>1 DEF Logged
  <2>3. sweep' \in [Processes -> SweepState]
        /\ \A q \in Processes : sweep'[q].cursor \in 0..Len(log) /\ sweep'[q].batch \subseteq DOMAIN log
    BY <1>0, <2>1 DEF SweepState
  <2> QED
    BY <1>0, <2>1, <2>2, <2>3, Applied, BookkeepingType DEF Applies
<1>8. ASSUME NEW p \in Processes, SweepFails(p)
      PROVE  TypeOK' /\ UNCHANGED <<msg, log, correlated>>
  <2>1. sweep' \in [Processes -> SweepState] /\ faults' \in 0..MaxFaults
        /\ \A q \in Processes : sweep'[q].cursor \in 0..Len(log) /\ sweep'[q].batch \subseteq DOMAIN log
    BY <1>0, <1>8, FaultCounted DEF SweepFails, SweepState
  <2> QED
    BY <1>0, <1>8, <2>1, BookkeepingType DEF SweepFails
<1> QED
  BY <1>1, <1>2, <1>3, <1>4, <1>5, <1>6, <1>7, <1>8 DEF ReceiptAction, ReconcileStep, SweepStep, Age

\* A process that dies or ends leaves no sweep and no reconciliation behind.
LEMMA CrashKeepsTypes ==
  ASSUME TypeOK, NEW p \in Processes, ReceiptsCrash(p), faults' \in 0..MaxFaults
  PROVE  TypeOK'
<1>1. IdleLinker \in Linker /\ IdleLinker.left = {} /\ NoSweep \in SweepState
      /\ NoSweep.cursor = 0 /\ NoSweep.batch = {}
  BY DEF IdleLinker, Linker, NoSweep, SweepState
<1>2. sweep' \in [Processes -> SweepState]
      /\ \A q \in Processes : sweep'[q].cursor \in 0..Len(log) /\ sweep'[q].batch \subseteq DOMAIN log
  BY <1>1, LoggedAreReceipts DEF ReceiptsCrash, TypeOK
<1>3. linker' \in [Processes -> [Ids -> Linker]]
      /\ \A q \in Processes, i \in Ids : linker'[q][i].left \subseteq ReceiptsOf(i)
  <2>1. linker \in [Processes -> [Ids -> Linker]]
    BY DEF TypeOK
  <2>2. [id \in Ids |-> IdleLinker] \in [Ids -> Linker]
    BY <1>1
  <2>3. linker' \in [Processes -> [Ids -> Linker]]
    BY <2>1, <2>2 DEF ReceiptsCrash
  <2>4. ASSUME NEW q \in Processes, NEW i \in Ids
        PROVE  linker'[q][i] = IdleLinker \/ linker'[q][i] = linker[q][i]
    BY <2>1 DEF ReceiptsCrash
  <2> QED
    BY <1>1, <2>3, <2>4 DEF TypeOK
<1> QED
  BY <1>2, <1>3, BookkeepingType DEF ReceiptsCrash, TypeOK

\* A message gets an id of its own.
LEMMA LinkKeepsTypes ==
  ASSUME TypeOK, NEW p \in Processes, NEW m \in Messages, NEW id \in Ids, Owner[id] = m,
         LinkMessage(p, m, id), UNCHANGED <<linkVars, correlated, unrecorded, faults>>
  PROVE  /\ TypeOK' /\ msg'[m] = [status |-> "SENT", ext |-> id]
         /\ \A n \in Messages \ {m} : msg'[n] = msg[n]
         /\ \A q \in Processes, i \in Ids : linker'[q][i] = linker[q][i] \/ ~At(q, i, "writing")'
         /\ Logged' = Logged
<1>1. msg \in [Messages -> Message] /\ Logged' = Logged
  BY DEF TypeOK, Logged, linkVars
<1>2. /\ msg' \in [Messages -> Message] /\ msg'[m] = [status |-> "SENT", ext |-> id]
      /\ \A n \in Messages \ {m} : msg'[n] = msg[n]
  BY <1>1 DEF LinkMessage, Message, Statuses, Kinds
<1>3. \A n \in Messages : msg'[n].ext \in Ids => Owner[msg'[n].ext] = n
  BY <1>2 DEF TypeOK
<1> DEFINE new == [pc |-> "querying", left |-> {}]
<1>4. /\ linker' = [linker EXCEPT ![p][id] = new]
      /\ new \in Linker /\ new.left = {} /\ new.pc # "writing"
  BY GotoLinker DEF LinkMessage, Goto
<1> HIDE DEF new
<1>5. /\ linker' \in [Processes -> [Ids -> Linker]]
      /\ \A q \in Processes, i \in Ids :
           /\ linker'[q][i].left \subseteq ReceiptsOf(i)
           /\ linker'[q][i] = linker[q][i] \/ (q = p /\ i = id /\ linker'[q][i] = new)
  BY <1>4, LinkerUpdate
<1>6. \A q \in Processes, i \in Ids : linker'[q][i] = linker[q][i] \/ ~At(q, i, "writing")'
  BY <1>4, <1>5 DEF At
<1>7. relinked' \subseteq Messages
  BY DEF LinkMessage, TypeOK
<1> QED
  BY <1>1, <1>2, <1>3, <1>5, <1>6, <1>7 DEF TypeOK, linkVars, ReceiptsOf

-----------------------------------------------------------------------------
(* Evidence *)

\* A step that leaves messages and correlation alone, and only adds to the log a
\* receipt that contradicts nothing, keeps the evidence.
LEMMA EvidenceUntouched ==
  ASSUME Ind, UNCHANGED <<msg, correlated, relinked>>
  PROVE  CorrelatedIsLinked' /\ PendingIsUnlinked' /\ StatusIsBestEvidence'
BY DEF Ind, CorrelatedIsLinked, PendingIsUnlinked, StatusIsBestEvidence, Known, Linked

\* One application of a receipt of the log.
LEMMA ApplyKeepsEvidence ==
  ASSUME Ind, NEW r \in Logged, ApplyReceipt(r), UNCHANGED <<log, relinked>>
  PROVE  /\ msg' \in [Messages -> Message]
         /\ \A m \in Messages : msg'[m].ext = msg[m].ext /\ NeverBack(m)
         /\ correlated' \subseteq Logged
         /\ CorrelatedIsLinked' /\ PendingIsUnlinked' /\ StatusIsBestEvidence'
<1> USE Constants
<1>0. r \in Receipt /\ msg \in [Messages -> Message] /\ correlated \subseteq Logged /\ TypeOK
  BY LoggedAreReceipts DEF Ind, TypeOK
<1>1. CASE ~Linked(r.id) /\ UNCHANGED <<msg, correlated>>
  BY <1>0, <1>1, EvidenceUntouched DEF NeverBack
<1>2. CASE \E m \in Messages :
             /\ msg[m].ext = r.id
             /\ msg' = IF CanTransition(msg[m].status, r.kind)
                       THEN [msg EXCEPT ![m].status = r.kind] ELSE msg
             /\ correlated' = correlated \cup {r}
  <2>1. PICK m \in Messages :
             /\ msg[m].ext = r.id
             /\ msg' = IF CanTransition(msg[m].status, r.kind)
                       THEN [msg EXCEPT ![m].status = r.kind] ELSE msg
             /\ correlated' = correlated \cup {r}
    BY <1>2
  <2>2. r.id \in Ids /\ r.kind \in Kinds
    BY <1>0 DEF Receipt
  <2>3. \A n \in Messages : n # m => msg'[n] = msg[n] /\ msg[n].ext # r.id
    BY <1>0, <2>1, <2>2, OneMessagePerId
  <2>4. /\ msg'[m].ext = msg[m].ext
        /\ msg'[m].status = IF CanTransition(msg[m].status, r.kind) THEN r.kind ELSE msg[m].status
    BY <1>0, <2>1 DEF Message
  <2>5. msg' \in [Messages -> Message]
    BY <1>0, <2>1, <2>2 DEF Message, Statuses
  <2>6. Linked(r.id)'
    BY <2>1, <2>4 DEF Linked
  <2>7. CorrelatedIsLinked'
    <3>1. \A s \in correlated : Linked(s.id)'
      BY <2>3, <2>4 DEF Ind, CorrelatedIsLinked, Linked
    <3> QED
      BY <2>1, <2>6, <3>1 DEF CorrelatedIsLinked
  <2>8. /\ msg[m].ext # NoId /\ msg[m].status # "PENDING" /\ msg[m].status \in Known(m)
        /\ m \notin relinked => \A k \in Known(m) : Rank[k] <= Rank[msg[m].status]
    BY <2>1, <2>2 DEF Ind, PendingIsUnlinked, StatusIsBestEvidence
  <2>9. Known(m)' = Known(m) \cup {r.kind}
    BY <2>1, <2>4 DEF Known
  <2>10. \A n \in Messages : n # m => Known(n)' = Known(n)
    BY <2>1, <2>3 DEF Known
  <2>11. Known(m) \subseteq Kinds
    BY <1>0, LoggedAreReceipts DEF Known, Receipt, Kinds
  <2>12. msg[m].status = "SENT" \/ \E s \in correlated : s.id = r.id /\ s.kind = msg[m].status
    BY <2>1, <2>8 DEF Known
  <2>13. /\ msg[m].status = "FAILED" => r.kind \notin {"DELIVERED", "READ"}
         /\ msg[m].status \in {"DELIVERED", "READ"} => r.kind # "FAILED"
    <3>1. \A s \in correlated : s.id = r.id =>
             /\ s.kind = "FAILED" => r.kind \notin {"DELIVERED", "READ"}
             /\ s.kind \in {"DELIVERED", "READ"} => r.kind # "FAILED"
      BY <1>0 DEF Ind, Exclusive
    <3> QED
      BY <2>12, <3>1
  <2>14. /\ msg'[m].status \in Known(m)'
         /\ Rank[msg[m].status] <= Rank[msg'[m].status]
         /\ Rank[r.kind] <= Rank[msg'[m].status]
         /\ NeverBack(m)
    <3>1. CASE CanTransition(msg[m].status, r.kind)
      <4>1. msg'[m].status = r.kind
        BY <2>4, <3>1
      <4>2. msg[m].status \in Kinds /\ r.kind \in Allowed[msg[m].status]
        BY <2>8, <2>11, <3>1 DEF CanTransition
      <4>3. \/ msg[m].status = "SENT" /\ r.kind \in {"DELIVERED", "READ", "FAILED"}
            \/ msg[m].status = "DELIVERED" /\ r.kind = "READ"
        BY <2>2, <4>2 DEF Kinds, Allowed
      <4>4. Rank[msg[m].status] <= Rank[r.kind] /\ Rank[r.kind] <= Rank[r.kind]
        BY <4>3 DEF Rank
      <4>5. NeverBack(m)
        BY <4>1, <4>3 DEF NeverBack
      <4> QED
        BY <2>9, <4>1, <4>4, <4>5
    <3>2. CASE ~CanTransition(msg[m].status, r.kind)
      <4>1. msg'[m].status = msg[m].status
        BY <2>4, <3>2
      <4>2. msg[m].status \in Kinds
            /\ (r.kind = msg[m].status \/ r.kind \notin Allowed[msg[m].status])
        BY <2>8, <2>11, <3>2 DEF CanTransition
      <4>3. Rank[r.kind] <= Rank[msg[m].status]
        BY <2>2, <2>13, <4>2 DEF Kinds, Allowed, Rank
      <4>4. Rank[msg[m].status] <= Rank[msg[m].status]
        BY <4>2 DEF Kinds, Rank
      <4> QED
        BY <2>8, <2>9, <4>1, <4>3, <4>4 DEF NeverBack
    <3> QED
      BY <3>1, <3>2
  <2>15. m \notin relinked => \A k \in Known(m)' : Rank[k] <= Rank[msg'[m].status]
    <3> SUFFICES ASSUME m \notin relinked, NEW k \in Known(m), k # r.kind
                 PROVE  Rank[k] <= Rank[msg'[m].status]
      BY <2>9, <2>14
    <3>1. Rank[k] <= Rank[msg[m].status]
      BY <2>8
    <3>2. Rank[k] \in Nat /\ Rank[msg[m].status] \in Nat /\ Rank[msg'[m].status] \in Nat
      BY <2>2, <2>8, <2>9, <2>11, <2>14 DEF Rank, Kinds
    <3> QED
      BY <2>14, <3>1, <3>2
  <2>16. StatusIsBestEvidence'
    <3> SUFFICES ASSUME NEW n \in Messages, msg'[n].ext # NoId
                 PROVE  /\ msg'[n].status \in Known(n)'
                        /\ n \notin relinked => \A k \in Known(n)' : Rank[k] <= Rank[msg'[n].status]
      BY DEF StatusIsBestEvidence
    <3>1. CASE n = m
      BY <2>14, <2>15, <3>1
    <3>2. CASE n # m
      BY <2>3, <2>10, <3>2 DEF Ind, StatusIsBestEvidence
    <3> QED
      BY <3>1, <3>2
  <2>17. PendingIsUnlinked'
    <3>1. msg'[m].status # "PENDING"
      BY <2>2, <2>4, <2>8 DEF Kinds
    <3> QED
      BY <2>3, <2>4, <2>8, <3>1 DEF Ind, PendingIsUnlinked
  <2>18. \A n \in Messages : msg'[n].ext = msg[n].ext /\ NeverBack(n)
    BY <2>3, <2>4, <2>14 DEF NeverBack
  <2> QED
    BY <1>0, <2>1, <2>5, <2>7, <2>16, <2>17, <2>18
<1> QED
  BY <1>1, <1>2 DEF ApplyReceipt

\* The message of an answer's id carries no other id.
LEMMA AnswerHasOneId ==
  ASSUME TypeOK, NEW id \in AnswerIds
  PROVE  id \in Ids /\ Owner[id] \in Messages /\ msg[Owner[id]].ext \in {NoId, id}
BY DEF TypeOK, Message, AnswerIds

\* A link of an answer, the first one or another one by a linker.
Links(p, id) ==
  /\ id \in AnswerIds
  /\ LinkMessage(p, Owner[id], id)
  /\ UNCHANGED <<linkVars, correlated, unrecorded, faults>>
  /\ msg[Owner[id]].ext = NoId \/ faults > 0

LEMMA LinkInd ==
  ASSUME Ind, NEW p \in Processes, NEW id \in Ids, Links(p, id)
  PROVE  Ind' /\ \A n \in Messages : NeverBack(n) \/ (n \in relinked' /\ faults > 0)
<1> USE Constants
<1> DEFINE m == Owner[id]
<1>1. TypeOK /\ m \in Messages /\ msg[m].ext \in {NoId, id}
  BY AnswerHasOneId DEF Ind, Links
<1>2. /\ TypeOK' /\ msg'[m] = [status |-> "SENT", ext |-> id] /\ Logged' = Logged
      /\ \A n \in Messages : n # m => msg'[n] = msg[n]
      /\ \A q \in Processes, i \in Ids : linker'[q][i] = linker[q][i] \/ ~At(q, i, "writing")'
  BY <1>1, LinkKeepsTypes DEF Links
<1>3. /\ correlated' = correlated /\ unrecorded' = unrecorded /\ faults' = faults
      /\ relinked \subseteq relinked' /\ (msg[m].ext # NoId => m \in relinked')
  BY DEF Links, LinkMessage
<1> HIDE DEF m
<1>4. Exclusive'
  BY <1>2 DEF Ind, Exclusive
<1>5. CorrelatedIsLinked'
  <2> SUFFICES ASSUME NEW r \in correlated PROVE Linked(r.id)'
    BY <1>3 DEF CorrelatedIsLinked
  <2>1. PICK n \in Messages : msg[n].ext = r.id
    BY DEF Ind, CorrelatedIsLinked, Linked
  <2>2. r.id # NoId
    BY <1>1, LoggedAreReceipts DEF Receipt, TypeOK
  <2> QED
    BY <1>1, <1>2, <2>1, <2>2 DEF Linked
<1>6. PendingIsUnlinked'
  BY <1>2 DEF Ind, PendingIsUnlinked
<1>7. ASSUME msg[m].ext = NoId PROVE Known(m)' = {"SENT"}
  <2>1. \A n \in Messages : msg[n].ext # id
    BY <1>1, <1>7 DEF TypeOK, m
  <2>2. \A r \in correlated : r.id # id
    BY <2>1 DEF Ind, CorrelatedIsLinked, Linked
  <2> QED
    BY <1>2, <1>3, <2>2 DEF Known
<1>8. StatusIsBestEvidence'
  <2> SUFFICES ASSUME NEW n \in Messages, msg'[n].ext # NoId
               PROVE  /\ msg'[n].status \in Known(n)'
                      /\ n \notin relinked' => \A k \in Known(n)' : Rank[k] <= Rank[msg'[n].status]
    BY DEF StatusIsBestEvidence
  <2>1. CASE n = m
    <3>1. msg'[m].status = "SENT" /\ "SENT" \in Known(m)'
      BY <1>2 DEF Known
    <3>2. Rank["SENT"] <= Rank["SENT"]
      BY DEF Rank
    <3> QED
      BY <1>3, <1>7, <2>1, <3>1, <3>2
  <2>2. CASE n # m
    <3>1. Known(n)' = Known(n)
      BY <1>2, <1>3, <2>2 DEF Known
    <3> QED
      BY <1>2, <1>3, <2>2, <3>1 DEF Ind, StatusIsBestEvidence
  <2> QED
    BY <2>1, <2>2
<1>9. LinkersFollowFault'
  BY <1>2, <1>3 DEF Ind, LinkersFollowFault, At
<1>10. ASSUME NEW n \in Messages PROVE NeverBack(n) \/ (n \in relinked' /\ faults > 0)
  <2>1. CASE n # m
    BY <1>2, <2>1 DEF NeverBack
  <2>2. CASE n = m /\ msg[m].ext = NoId
    BY <2>2 DEF Ind, PendingIsUnlinked, NeverBack
  <2>3. CASE n = m /\ msg[m].ext # NoId
    BY <1>3, <2>3 DEF Links, m
  <2> QED
    BY <2>1, <2>2, <2>3
<1> QED
  BY <1>2, <1>4, <1>5, <1>6, <1>8, <1>9, <1>10 DEF Ind

\* The worker is the first to link; a linker of an id it failed to record may come too late.
LEMMA LinkStepLinks ==
  ASSUME Ind, NEW p \in Processes, NEW id \in Ids, Record(p, id) \/ WriteLink(p, id)
  PROVE  Links(p, id)
<1>1. CASE Record(p, id)
  <2>1. id \in AnswerIds /\ ~Linked(id)
    BY <1>1 DEF Record, ToRecord
  <2>2. msg[Owner[id]].ext = NoId
    BY <2>1, AnswerHasOneId DEF Ind, Linked
  <2> QED
    BY <1>1, <2>1, <2>2 DEF Record, Links
<1>2. CASE WriteLink(p, id)
  BY <1>2 DEF WriteLink, Links, Ind, LinkersFollowFault, TypeOK
<1> QED
  BY <1>1, <1>2

\* What comes before a link: the worker's write fails, or somebody looks whether it is done.
LEMMA LookingInd ==
  ASSUME Ind, NEW id \in Ids, RecordFails(id) \/ \E p \in Processes : LookUp(p, id)
  PROVE  TypeOK' /\ LinkersFollowFault' /\ UNCHANGED <<msg, log, correlated, relinked>>
<1>0. TypeOK /\ LinkersFollowFault
  BY DEF Ind
<1>1. UNCHANGED <<msg, log, correlated, relinked, sweep, aged>>
  BY DEF RecordFails, LookUp, linkVars
<1>2. CASE RecordFails(id)
  <2>1. /\ faults' \in 0..MaxFaults /\ faults' = faults + 1 /\ faults' > 0
        /\ unrecorded' = unrecorded \cup {id} /\ id \in AnswerIds /\ linker' = linker
    BY <1>0, <1>2, FaultCounted, Constants DEF RecordFails, ToRecord, TypeOK
  <2>2. TypeOK'
    BY <1>0, <1>1, <2>1, BookkeepingType DEF TypeOK
  <2>3. LinkersFollowFault'
    BY <1>0, <2>1 DEF LinkersFollowFault, At
  <2> QED
    BY <1>1, <2>2, <2>3
<1>3. ASSUME NEW p \in Processes, LookUp(p, id)
      PROVE  TypeOK' /\ LinkersFollowFault'
  <2>1. PICK pc \in {"querying", "writing"} :
          Goto(p, id, pc) /\ (pc = "writing" => id \in unrecorded)
    BY <1>3 DEF LookUp
  <2> DEFINE new == [pc |-> pc, left |-> {}]
  <2>2. linker' = [linker EXCEPT ![p][id] = new] /\ new \in Linker /\ new.left = {} /\ new.pc = pc
    BY <2>1, GotoLinker DEF Goto
  <2> HIDE DEF new
  <2>3. /\ linker' \in [Processes -> [Ids -> Linker]]
        /\ \A q \in Processes, i \in Ids :
             /\ linker'[q][i].left \subseteq ReceiptsOf(i)
             /\ linker'[q][i] = linker[q][i] \/ (q = p /\ i = id /\ linker'[q][i] = new)
    BY <1>0, <2>2, LinkerUpdate
  <2>4. unrecorded' = unrecorded /\ faults' = faults
    BY <1>3 DEF LookUp
  <2>5. TypeOK'
    BY <1>0, <1>1, <2>3, <2>4, BookkeepingType DEF TypeOK
  <2>6. LinkersFollowFault'
    BY <1>0, <2>1, <2>2, <2>3, <2>4 DEF LinkersFollowFault, At
  <2> QED
    BY <2>5, <2>6
<1> QED
  BY <1>1, <1>2, <1>3

\* No step of a receipt or of a process makes a linker ready to write.
LEMMA FollowFaultKept ==
  ASSUME Ind, ReceiptAction \/ \E p \in Processes : Crash(p)
  PROVE  LinkersFollowFault' /\ relinked' = relinked
<1>1. unrecorded' = unrecorded /\ relinked' = relinked /\ (faults' = faults \/ faults' = faults + 1)
  BY DEF ReceiptAction, Ingest, Age, ReconcileStep, ReconcileRead, ReconcileApply, ReconcileDone,
         LinkerFails, SweepStep, SweepRead, SweepApply, SweepFails, Crash, ReceiptsCrash, Fault
<1>2. faults \in Nat /\ linker \in [Processes -> [Ids -> Linker]]
  BY Constants DEF Ind, TypeOK
<1>3. ASSUME NEW q \in Processes, NEW i \in Ids, At(q, i, "writing")'
      PROVE  linker'[q][i] = linker[q][i]
  <2>1. CASE linker' = linker
    BY <2>1
  <2>2. CASE \E p \in Processes : Crash(p)
    BY <1>2, <1>3, <2>2 DEF Crash, ReceiptsCrash, At, IdleLinker
  <2>3. ASSUME NEW p \in Processes, NEW id \in Ids, ReconcileStep(p, id) \/ LinkerFails(p, id)
        PROVE  linker'[q][i] = linker[q][i]
    <3>1. ASSUME NEW new, linker' = [linker EXCEPT ![p][id] = new], new.pc # "writing"
          PROVE  linker'[q][i] = linker[q][i]
      BY <1>2, <1>3, <3>1 DEF At
    <3>2. CASE ReconcileRead(p, id)
      <4> DEFINE new == [pc |-> "applying", left |-> ReceiptsOf(id) \ correlated]
      <4>1. linker' = [linker EXCEPT ![p][id] = new] /\ new.pc = "applying"
        BY <3>2 DEF ReconcileRead
      <4> HIDE DEF new
      <4> QED BY <3>1, <4>1
    <3>3. CASE ReconcileDone(p, id) \/ LinkerFails(p, id)
      <4> DEFINE new == [pc |-> "idle", left |-> {}]
      <4>1. linker' = [linker EXCEPT ![p][id] = new] /\ new.pc = "idle"
        BY <3>3 DEF ReconcileDone, LinkerFails, Goto
      <4> HIDE DEF new
      <4> QED BY <3>1, <4>1
    <3>4. CASE ReconcileApply(p, id)
      <4>1. PICK r \in linker[p][id].left :
              linker' = [linker EXCEPT ![p][id] = CrossedOff(p, id, r)]
        BY <3>4 DEF ReconcileApply
      <4>2. linker[p][id] \in Linker /\ linker[p][id].pc = "applying"
        BY <1>2, <3>4 DEF ReconcileApply, At
      <4>3. CrossedOff(p, id, r).pc # "writing"
        BY <4>2 DEF CrossedOff, IdleLinker, Linker
      <4> QED BY <3>1, <4>1, <4>3
    <3> QED BY <2>3, <3>2, <3>3, <3>4 DEF ReconcileStep
  <2>4. linker' = linker \/ (\E p \in Processes : Crash(p))
        \/ \E p \in Processes, id \in Ids : ReconcileStep(p, id) \/ LinkerFails(p, id)
    BY DEF ReceiptAction, Ingest, Age, SweepStep, SweepRead, SweepApply, SweepFails
  <2> QED
    BY <2>1, <2>2, <2>3, <2>4
<1> QED
  BY <1>1, <1>2, <1>3 DEF Ind, LinkersFollowFault, At

\* The provider contradicts nothing it told before, whatever receipt arrives.
LEMMA IngestExclusive ==
  ASSUME Ind, NEW r \in Receipt, Ingest(r)
  PROVE  Exclusive'
<1>1. Logged' = Logged \cup {r}
  BY LogGrows DEF Ind, Ingest
<1>2. \A s \in Logged : s.id = r.id =>
         /\ r.kind = "FAILED" => s.kind \notin {"DELIVERED", "READ"}
         /\ s.kind = "FAILED" => r.kind \notin {"DELIVERED", "READ"}
  BY DEF Ingest, Truthful, ReceiptsOf
<1>3. r.kind = "FAILED" => r.kind \notin {"DELIVERED", "READ"}
  OBVIOUS
<1> QED
  BY <1>1, <1>2, <1>3 DEF Ind, Exclusive

\* Every step keeps the inductive invariant, and only a second link turns a status back.
LEMMA NextInd ==
  ASSUME Ind, [Next]_vars
  PROVE  Ind' /\ \A m \in Messages : NeverBack(m) \/ (m \in relinked' /\ faults > 0)
<1>0. TypeOK
  BY DEF Ind
<1>1. msg' = msg => \A m \in Messages : NeverBack(m)
  BY DEF NeverBack
<1>2. CASE TypeOK' /\ LinkersFollowFault' /\ UNCHANGED <<msg, log, correlated, relinked>>
  <2>1. Exclusive'
    BY <1>2 DEF Ind, Exclusive, Logged
  <2> QED
    BY <1>1, <1>2, <2>1, EvidenceUntouched DEF Ind
<1>3. CASE TypeOK' /\ LinkersFollowFault' /\ relinked' = relinked /\ Applies
  <2>1. Exclusive'
    BY <1>3 DEF Ind, Exclusive, Logged, Applies
  <2> QED
    BY <1>3, <2>1, ApplyKeepsEvidence DEF Ind, Applies
<1>4. CASE TypeOK' /\ LinkersFollowFault' /\ \E r \in Receipt : Ingest(r)
  <2>1. Exclusive' /\ UNCHANGED <<msg, correlated, relinked>>
    BY <1>4, IngestExclusive DEF Ingest
  <2> QED
    BY <1>1, <1>4, <2>1, EvidenceUntouched DEF Ind
<1>5. CASE ReceiptAction
  BY <1>0, <1>2, <1>3, <1>4, <1>5, FollowFaultKept, ReceiptsKeepTypes
<1>6. ASSUME NEW p \in Processes, NEW id \in Ids, Record(p, id) \/ WriteLink(p, id)
      PROVE  Ind' /\ \A m \in Messages : NeverBack(m) \/ (m \in relinked' /\ faults > 0)
  BY <1>6, LinkStepLinks, LinkInd
<1>7. ASSUME NEW id \in Ids, RecordFails(id) \/ \E p \in Processes : LookUp(p, id)
      PROVE  Ind' /\ \A m \in Messages : NeverBack(m)
  BY <1>1, <1>2, <1>7, LookingInd
<1>8. ASSUME NEW p \in Processes, Crash(p)
      PROVE  Ind' /\ \A m \in Messages : NeverBack(m)
  <2>1. faults' \in 0..MaxFaults
    BY <1>0, <1>8, FaultCounted DEF Crash
  <2>2. TypeOK' /\ UNCHANGED <<msg, log, correlated>>
    BY <1>0, <1>8, <2>1, CrashKeepsTypes DEF Crash, ReceiptsCrash
  <2> QED
    BY <1>1, <1>2, <1>8, <2>2, FollowFaultKept
<1>9. CASE UNCHANGED vars
  <2>1. TypeOK' /\ LinkersFollowFault'
    BY <1>9 DEF Ind, vars, receiptVars, TypeOK, Logged, ReceiptsOf, LinkersFollowFault, At
  <2> QED
    BY <1>1, <1>2, <1>9, <2>1 DEF vars, receiptVars
<1> QED
  BY <1>5, <1>6, <1>7, <1>8, <1>9 DEF Next, ReceiptAction, LinkStep

THEOREM Inductive == Spec => []Ind
<1> QED
  BY InitInd, NextInd, PTL DEF Spec

\* Rows, cursors and batches keep their types, whatever crashes.
THEOREM TypeCorrect == Spec => []TypeOK
<1>1. Ind => TypeOK
  BY DEF Ind
<1> QED
  BY <1>1, Inductive, PTL

\* A linked message always shows the best of what was correlated to it: applyReceipt
\* loses no evidence and invents none, however sweeps and reconciliations overlap.
THEOREM EvidenceIsKept == Spec => []StatusIsBestEvidence
<1>1. Ind => StatusIsBestEvidence
  BY DEF Ind
<1> QED
  BY <1>1, Inductive, PTL

\* Receipts come in any order, sweeps and reconciliations overlap and hold stale batches,
\* links are written without a look at the status: only a link over a link turns a
\* status back, and for that the worker must have failed to record the id.
THEOREM StatusTurnsBackOnlyByRelinks == Spec => OnlyRelinksTurnBack
<1>1. Ind /\ [Next]_vars
        => [\A m \in Messages : NeverBack(m) \/ (m \in relinked' /\ faults > 0)]_vars
  BY NextInd
<1> QED
  BY <1>1, Inductive, PTL DEF Spec, OnlyRelinksTurnBack

-----------------------------------------------------------------------------
(* The merchant's queue: the inductive invariant *)

JobStatuses == {"ABSENT", "PENDING", "PROCESSING", "COMPLETED", "FAILED"}
Results == {"none", "accepted", "retryable", "final", "unknown"}
JobRow == [status: JobStatuses, attempts: Nat, expired: BOOLEAN]
Slot == [pc: {"idle", "sending", "reporting"}, job: Nat, attempt: Nat, result: Results,
         id: Ids \cup {NoId}]

\* A call that was accepted holds an id of its message.
SlotTyped(s) ==
  LET t == slot[s] IN
    /\ IF t.pc = "idle" THEN t.job = NoJob ELSE t.job \in Messages
    /\ t.pc # "reporting" => t.result = "none"
    /\ t.result = "accepted" => t.id \in Ids /\ Owner[t.id] = t.job

QueueTyped ==
  /\ job \in [Messages -> JobRow]
  /\ slot \in [Slots -> Slot] /\ \A s \in Slots : SlotTyped(s)
  /\ sends \in [Messages -> Nat]
  /\ draining \subseteq Processes /\ heldUp \subseteq Messages

\* Only one call works on a message, under its current claim.
Alone(m) ==
  /\ \A s \in Slots : slot[s].job = m =>
       job[m].status = "PROCESSING" /\ ~job[m].expired /\ slot[s].attempt = job[m].attempts
  /\ \A s, t \in Slots : slot[s].job = m /\ slot[t].job = m => s = t

Agree(m) ==
  /\ job[m].status = "COMPLETED" <=> msg[m].ext # NoId
  /\ job[m].status = "FAILED" <=> msg[m].ext = NoId /\ msg[m].status # "PENDING"

\* The calls that may still send, or have the message sent again, and the claim to come.
OpenCalls(m) ==
  {s \in Slots : slot[s].job = m /\ (slot[s].pc = "sending" \/ slot[s].result = "retryable")}
ClaimToCome(m) ==
  \/ job[m].status \in {"ABSENT", "PENDING"}
  \/ job[m].status = "PROCESSING" /\ (job[m].expired \/ ~InHand(m))
Credit(m) == IF ClaimToCome(m) THEN 1 ELSE 0

\* What was sent and what may still be sent is paid for: once by the message, the rest by faults.
PaidFor(m) ==
  /\ IsFiniteSet(OpenCalls(m))
  /\ sends[m] + Cardinality(OpenCalls(m)) + Credit(m) <= 1 + faults

MerchantInd ==
  /\ TypeOK /\ QueueTyped
  /\ \A m \in Messages \ heldUp : Alone(m) /\ Agree(m)
  /\ \A m \in Messages : PaidFor(m)

-----------------------------------------------------------------------------
(* Counting *)

LEMMA MessageNumbers == Messages \subseteq Nat /\ NoJob \notin Messages /\ NoId \notin Ids
  BY MerchantAssumption, OwnerAssumption DEF NoJob

LEMMA CreditIsBit == \A m : Credit(m) \in {0, 1} /\ (Credit(m))' \in {0, 1}
  BY DEF Credit

\* Open calls that end, or a fault that lets a claim come back.
LEMMA Fewer ==
  ASSUME NEW m \in Messages, PaidFor(m), OpenCalls(m)' \subseteq OpenCalls(m),
         sends[m] \in Nat, sends'[m] = sends[m], faults \in Nat, faults' \in Nat,
         \/ faults <= faults' /\ (ClaimToCome(m)' => ClaimToCome(m))
         \/ faults' = faults + 1
  PROVE  PaidFor(m)'
<1>1. /\ IsFiniteSet(OpenCalls(m)') /\ Cardinality(OpenCalls(m)') <= Cardinality(OpenCalls(m))
      /\ Cardinality(OpenCalls(m)) \in Nat /\ Cardinality(OpenCalls(m)') \in Nat
  BY FS_Subset, FS_CardinalityType DEF PaidFor
<1>2. \/ faults <= faults' /\ (Credit(m))' <= Credit(m)
      \/ faults' = faults + 1 /\ (Credit(m))' <= Credit(m) + 1
  BY DEF Credit
<1>3. sends[m] + Cardinality(OpenCalls(m)) + Credit(m) <= 1 + faults BY DEF PaidFor
<1>4. sends'[m] + Cardinality(OpenCalls(m)') + (Credit(m))' <= 1 + faults'
  BY <1>1, <1>2, <1>3, CreditIsBit
<1> QED BY <1>1, <1>4 DEF PaidFor

\* An open call that has sent, or that asks for another claim.
LEMMA OneFewer ==
  ASSUME NEW m \in Messages, PaidFor(m), NEW s \in OpenCalls(m),
         OpenCalls(m)' \subseteq OpenCalls(m) \ {s},
         sends[m] \in Nat, faults \in Nat, faults' = faults,
         \/ sends'[m] = sends[m]
         \/ sends'[m] = sends[m] + 1 /\ (ClaimToCome(m)' => ClaimToCome(m))
  PROVE  PaidFor(m)'
<1>1. /\ IsFiniteSet(OpenCalls(m) \ {s})
      /\ Cardinality(OpenCalls(m) \ {s}) = Cardinality(OpenCalls(m)) - 1
      /\ Cardinality(OpenCalls(m)) \in Nat
  BY FS_RemoveElement, FS_CardinalityType DEF PaidFor
<1>2. /\ IsFiniteSet(OpenCalls(m)') /\ Cardinality(OpenCalls(m)') <= Cardinality(OpenCalls(m) \ {s})
      /\ Cardinality(OpenCalls(m)') \in Nat
  BY <1>1, FS_Subset, FS_CardinalityType
<1>3. \/ sends'[m] = sends[m] /\ (Credit(m))' <= Credit(m) + 1
      \/ sends'[m] = sends[m] + 1 /\ (Credit(m))' <= Credit(m)
  BY DEF Credit
<1>4. sends[m] + Cardinality(OpenCalls(m)) + Credit(m) <= 1 + faults BY DEF PaidFor
<1>5. sends'[m] + Cardinality(OpenCalls(m)') + (Credit(m))' <= 1 + faults'
  BY <1>1, <1>2, <1>3, <1>4, CreditIsBit
<1> QED BY <1>2, <1>5 DEF PaidFor

\* The claim that was to come.
LEMMA OneMore ==
  ASSUME NEW m \in Messages, PaidFor(m), NEW s, OpenCalls(m)' \subseteq OpenCalls(m) \cup {s},
         sends[m] \in Nat, sends'[m] = sends[m], faults \in Nat, faults' = faults,
         ClaimToCome(m), ~ClaimToCome(m)'
  PROVE  PaidFor(m)'
<1>1. /\ IsFiniteSet(OpenCalls(m) \cup {s})
      /\ Cardinality(OpenCalls(m) \cup {s}) <= Cardinality(OpenCalls(m)) + 1
      /\ Cardinality(OpenCalls(m)) \in Nat /\ Cardinality(OpenCalls(m) \cup {s}) \in Nat
  BY FS_AddElement, FS_CardinalityType DEF PaidFor
<1>2. /\ IsFiniteSet(OpenCalls(m)') /\ Cardinality(OpenCalls(m)') <= Cardinality(OpenCalls(m) \cup {s})
      /\ Cardinality(OpenCalls(m)') \in Nat
  BY <1>1, FS_Subset, FS_CardinalityType
<1>3. Credit(m) = 1 /\ (Credit(m))' = 0 BY DEF Credit
<1>4. sends[m] + Cardinality(OpenCalls(m)) + Credit(m) <= 1 + faults BY DEF PaidFor
<1>5. sends'[m] + Cardinality(OpenCalls(m)') + (Credit(m))' <= 1 + faults'
  BY <1>1, <1>2, <1>3, <1>4
<1> QED BY <1>2, <1>5 DEF PaidFor

-----------------------------------------------------------------------------
(* Types *)

LEMMA SlotUpdate ==
  ASSUME QueueTyped, NEW s \in Slots, NEW t \in Slot, slot' = [slot EXCEPT ![s] = t],
         IF t.pc = "idle" THEN t.job = NoJob ELSE t.job \in Messages,
         t.pc # "reporting" => t.result = "none",
         t.result = "accepted" => t.id \in Ids /\ Owner[t.id] = t.job
  PROVE  /\ slot' \in [Slots -> Slot] /\ slot'[s] = t /\ \A u \in Slots \ {s} : slot'[u] = slot[u]
         /\ \A u \in Slots : SlotTyped(u)'
<1>1. slot' \in [Slots -> Slot] /\ slot'[s] = t /\ \A u \in Slots \ {s} : slot'[u] = slot[u]
  BY DEF QueueTyped
<1> QED BY <1>1 DEF QueueTyped, SlotTyped

LEMMA JobUpdate ==
  ASSUME QueueTyped, NEW m \in Messages, NEW r \in JobRow, job' = [job EXCEPT ![m] = r]
  PROVE  job' \in [Messages -> JobRow] /\ job'[m] = r /\ \A n \in Messages \ {m} : job'[n] = job[n]
  BY DEF QueueTyped

LEMMA IdleIsTyped ==
  /\ IdleSlot \in Slot /\ IdleSlot.pc = "idle" /\ IdleSlot.job = NoJob /\ IdleSlot.result = "none"
  BY DEF IdleSlot, Slot, NoJob, Results

LEMMA Fields ==
  ASSUME QueueTyped
  PROVE  /\ \A m \in Messages :
              /\ job[m] \in JobRow /\ job[m].status \in JobStatuses /\ job[m].attempts \in Nat
              /\ job[m].expired \in BOOLEAN /\ sends[m] \in Nat
         /\ \A s \in Slots :
              /\ slot[s] \in Slot /\ SlotTyped(s) /\ slot[s].attempt \in Nat /\ slot[s].job \in Nat
              /\ slot[s].result \in Results /\ slot[s].pc \in {"idle", "sending", "reporting"}
              /\ slot[s].id \in Ids \cup {NoId}
  BY DEF QueueTyped, JobRow, Slot

LEMMA ReceiptsUntouched ==
  ASSUME TypeOK, UNCHANGED receiptVars, faults' \in 0..MaxFaults PROVE TypeOK'
  BY DEF TypeOK, receiptVars, Logged, ReceiptsOf

LEMMA FaultsAreNat == ASSUME TypeOK PROVE faults \in 0..MaxFaults /\ 0..MaxFaults \subseteq Nat
  BY Constants DEF TypeOK

LEMMA MerchantInitInd == MerchantInit => MerchantInd
<1> SUFFICES ASSUME MerchantInit PROVE MerchantInd
  OBVIOUS
<1>1. TypeOK BY InitInd DEF MerchantInit, Ind
<1>2. /\ \A m \in Messages : /\ job[m].status = "ABSENT" /\ sends[m] = 0 /\ msg[m].ext = NoId
                             /\ msg[m].status = "PENDING" /\ job[m] \in JobRow
      /\ \A s \in Slots : slot[s] = IdleSlot /\ slot[s].job = NoJob /\ SlotTyped(s)
  BY IdleIsTyped DEF MerchantInit, Init, JobRow, JobStatuses, SlotTyped
<1>3. QueueTyped BY <1>2, IdleIsTyped DEF QueueTyped, MerchantInit
<1>4. \A m \in Messages : Alone(m) /\ Agree(m)
  BY <1>2, MessageNumbers DEF Alone, Agree
<1>5. ASSUME NEW m \in Messages PROVE PaidFor(m)
  <2>1. OpenCalls(m) = {} BY <1>2, MessageNumbers DEF OpenCalls
  <2>2. Credit(m) = 1 BY <1>2 DEF Credit, ClaimToCome
  <2>3. faults = 0 /\ sends[m] = 0 BY <1>2 DEF MerchantInit, Init
  <2> QED BY <2>1, <2>2, <2>3, FS_EmptySet DEF PaidFor
<1> QED BY <1>1, <1>3, <1>4, <1>5 DEF MerchantInd

-----------------------------------------------------------------------------
(* The steps *)

\* A step of the queue for one message leaves the others as they were.
Untouched(n) ==
  /\ job'[n] = job[n] /\ msg'[n] = msg[n] /\ sends'[n] = sends[n]
  /\ \A s \in Slots : slot[s].job = n \/ slot'[s].job = n => slot'[s] = slot[s]

LEMMA OtherMessages ==
  ASSUME MerchantInd, NEW n \in Messages, Untouched(n), heldUp \subseteq heldUp',
         faults' \in Nat, faults <= faults'
  PROVE  PaidFor(n)' /\ (n \notin heldUp' => Alone(n)' /\ Agree(n)')
<1>1. faults \in Nat /\ sends[n] \in Nat /\ PaidFor(n) BY FaultsAreNat, Fields DEF MerchantInd
<1>2. OpenCalls(n)' \subseteq OpenCalls(n) /\ (ClaimToCome(n)' => ClaimToCome(n))
  BY DEF OpenCalls, ClaimToCome, Untouched, InHand
<1>3. PaidFor(n)' BY <1>1, <1>2, Fewer DEF Untouched
<1>4. ASSUME n \notin heldUp' PROVE Alone(n)' /\ Agree(n)'
  <2>1. Alone(n) /\ Agree(n) BY <1>4 DEF MerchantInd
  <2> QED BY <2>1 DEF Alone, Agree, Untouched
<1> QED BY <1>3, <1>4

\* Receipts correlate to linked messages only, and never change an id.
LEMMA ReceiptsStep ==
  ASSUME MerchantInd, ReceiptNext, UNCHANGED queueVars
  PROVE  MerchantInd'
<1>1. ReceiptAction BY DEF ReceiptNext, ReceiptAction, ReceiptArrives, SweepStep
<1>2. TypeOK /\ QueueTyped BY DEF MerchantInd
<1>3. TypeOK' /\ (Applies \/ UNCHANGED msg)
  BY <1>1, <1>2, ReceiptsKeepTypes DEF Ingest
<1>4. \A m \in Messages :
        /\ msg'[m].ext = msg[m].ext
        /\ msg'[m].status # msg[m].status => msg[m].ext \in Ids
  BY <1>2, <1>3, Applied DEF Applies
<1>5. faults \in Nat /\ faults' \in Nat /\ faults <= faults'
  <2>1. faults' = faults \/ faults' = faults + 1
    BY <1>1 DEF ReceiptAction, Ingest, Age, ReconcileStep, ReconcileRead, ReconcileApply,
                ReconcileDone, LinkerFails, SweepStep, SweepRead, SweepApply, SweepFails, Fault
  <2> QED BY <1>2, <2>1, FaultsAreNat
<1>6. QueueTyped' BY <1>2 DEF QueueTyped, queueVars, SlotTyped
<1>7. ASSUME NEW m \in Messages \ heldUp PROVE Alone(m)' /\ Agree(m)'
  <2>1. Alone(m) /\ Agree(m) BY <1>7 DEF MerchantInd
  <2>2. Alone(m)' BY <2>1 DEF Alone, queueVars
  <2>3. msg[m].ext = NoId => msg'[m].status = msg[m].status
    BY <1>4, MessageNumbers
  <2> QED BY <1>4, <2>1, <2>2, <2>3 DEF Agree, queueVars
<1>8. ASSUME NEW m \in Messages PROVE PaidFor(m)'
  <2>1. OpenCalls(m)' \subseteq OpenCalls(m) /\ (ClaimToCome(m)' => ClaimToCome(m))
    BY DEF OpenCalls, ClaimToCome, InHand, queueVars
  <2>2. PaidFor(m) /\ sends[m] \in Nat /\ sends'[m] = sends[m]
    BY <1>2, Fields DEF MerchantInd, queueVars
  <2> QED BY <1>5, <2>1, <2>2, Fewer
<1> QED BY <1>3, <1>6, <1>7, <1>8 DEF MerchantInd, queueVars

\* The portal and the clock.
LEMMA ClockStep ==
  ASSUME MerchantInd, NEW m \in Messages, Enqueue(m) \/ LeaseRunsOut(m) \/ Stall(m)
  PROVE  MerchantInd'
<1>0. TypeOK /\ QueueTyped BY DEF MerchantInd
<1>1. UNCHANGED <<receiptVars, slot, sends, draining>> /\ msg' = msg
  BY DEF Enqueue, LeaseRunsOut, Stall, vars, receiptVars
<1>2. PICK r \in JobRow :
        /\ job' = [job EXCEPT ![m] = r] /\ r.attempts = job[m].attempts
        /\ \/ job[m].status = "ABSENT" /\ r.status = "PENDING" /\ heldUp' = heldUp /\ faults' = faults
           \/ /\ job[m].status = "PROCESSING" /\ r.status = "PROCESSING" /\ ~InHand(m)
              /\ heldUp' = heldUp /\ faults' = faults
           \/ /\ job[m].status = "PROCESSING" /\ r.status = "PROCESSING"
              /\ Fault("stall") /\ heldUp' = heldUp \cup {m}
  <2>1. CASE Enqueue(m)
    <3>1. [job[m] EXCEPT !.status = "PENDING"] \in JobRow
      BY <1>0, Fields DEF JobRow, JobStatuses
    <3> QED BY <1>0, <2>1, <3>1, Fields DEF Enqueue, JobRow, vars
  <2>2. CASE LeaseRunsOut(m) \/ Stall(m)
    <3>1. /\ [job[m] EXCEPT !.expired = TRUE] \in JobRow
          /\ [job[m] EXCEPT !.expired = TRUE].status = job[m].status
          /\ [job[m] EXCEPT !.expired = TRUE].attempts = job[m].attempts
      BY <1>0, Fields DEF JobRow
    <3> QED BY <1>0, <2>2, <3>1 DEF LeaseRunsOut, Stall, vars
  <2> QED BY <2>1, <2>2
<1>3. job' \in [Messages -> JobRow] /\ job'[m] = r /\ \A n \in Messages \ {m} : job'[n] = job[n]
  BY <1>0, <1>2, JobUpdate
<1>4. faults' \in 0..MaxFaults /\ (faults' = faults \/ faults' = faults + 1)
  BY <1>0, <1>2, FaultCounted DEF TypeOK
<1>5. faults \in Nat /\ faults' \in Nat /\ faults <= faults'
  BY <1>0, <1>4, FaultsAreNat
<1>6. TypeOK' BY <1>0, <1>1, <1>4, ReceiptsUntouched
<1>7. QueueTyped' BY <1>0, <1>1, <1>2, <1>3 DEF QueueTyped, SlotTyped
<1>8. \A n \in Messages \ {m} : PaidFor(n)' /\ (n \notin heldUp' => Alone(n)' /\ Agree(n)')
  BY <1>1, <1>2, <1>3, <1>5, OtherMessages DEF Untouched
<1>9. PaidFor(m)'
  <2>1. OpenCalls(m)' = OpenCalls(m) /\ InHand(m)' = InHand(m)
    BY <1>1, <1>2, <1>3 DEF OpenCalls, InHand
  <2>2. (ClaimToCome(m)' => ClaimToCome(m)) \/ faults' = faults + 1
    BY <1>2, <1>3, <2>1 DEF ClaimToCome, Fault
  <2> QED BY <1>0, <1>1, <1>5, <2>1, <2>2, Fewer, Fields DEF MerchantInd
<1>10. ASSUME m \notin heldUp' PROVE Alone(m)' /\ Agree(m)'
  <2>1. Alone(m) /\ Agree(m) BY <1>2, <1>10 DEF MerchantInd
  <2>2. CASE job[m].status = "ABSENT" /\ r.status = "PENDING"
    BY <1>1, <1>3, <2>1, <2>2 DEF Alone, Agree
  <2>3. CASE job[m].status = "PROCESSING" /\ r.status = "PROCESSING" /\ ~InHand(m)
    <3>1. \A s \in Slots : slot[s].job # m BY <2>1, <2>3 DEF Alone, InHand
    <3> QED BY <1>1, <1>3, <2>1, <2>3, <3>1 DEF Alone, Agree
  <2> QED BY <1>2, <1>10, <2>2, <2>3
<1> QED BY <1>6, <1>7, <1>8, <1>9, <1>10 DEF MerchantInd

\* A claim: nobody works on the message any more, unless a call of it was held up.
LEMMA ClaimStep == ASSUME MerchantInd, NEW s \in Slots, Claim(s) PROVE MerchantInd'
<1>0. TypeOK /\ QueueTyped BY DEF MerchantInd
<1>1. PICK m \in Messages :
        /\ Claimable(m)
        /\ job' = [job EXCEPT ![m] = [status |-> "PROCESSING", attempts |-> @.attempts + 1,
                                      expired |-> FALSE]]
        /\ slot' = [slot EXCEPT ![s] = [IdleSlot EXCEPT !.pc = "sending", !.job = m,
                                                        !.attempt = job[m].attempts + 1]]
  BY DEF Claim
<1> DEFINE r == [status |-> "PROCESSING", attempts |-> job[m].attempts + 1, expired |-> FALSE]
           t == [IdleSlot EXCEPT !.pc = "sending", !.job = m, !.attempt = job[m].attempts + 1]
<1>2. r \in JobRow /\ r.status = "PROCESSING" /\ r.attempts = job[m].attempts + 1 /\ ~r.expired
  BY <1>0, Fields DEF JobRow, JobStatuses
<1>3. t \in Slot /\ t.pc = "sending" /\ t.job = m /\ t.attempt = job[m].attempts + 1 /\ t.result = "none"
  <2>1. m \in Nat /\ job[m].attempts + 1 \in Nat BY <1>0, Fields, MessageNumbers
  <2> QED BY <2>1 DEF IdleSlot, Slot, Results
<1>4. job' = [job EXCEPT ![m] = r] /\ slot' = [slot EXCEPT ![s] = t] BY <1>1
<1> HIDE DEF r, t
<1>5. job' \in [Messages -> JobRow] /\ job'[m] = r /\ \A n \in Messages \ {m} : job'[n] = job[n]
  BY <1>0, <1>2, <1>4, JobUpdate
<1>6. /\ slot' \in [Slots -> Slot] /\ slot'[s] = t /\ \A u \in Slots \ {s} : slot'[u] = slot[u]
      /\ \A u \in Slots : SlotTyped(u)'
  BY <1>0, <1>3, <1>4, SlotUpdate
<1>7. UNCHANGED <<vars, sends, draining, heldUp>> /\ msg' = msg /\ faults' = faults
      /\ slot[s].pc = "idle" /\ slot[s].job = NoJob
  BY <1>0, Fields DEF Claim, vars, receiptVars, SlotTyped
<1>8. faults \in Nat BY <1>0, FaultsAreNat
<1>9. TypeOK' BY <1>0, <1>7, ReceiptsUntouched, FaultsAreNat DEF vars
<1>10. QueueTyped' BY <1>0, <1>5, <1>6, <1>7 DEF QueueTyped
<1>11. \A n \in Messages \ {m} : PaidFor(n)' /\ (n \notin heldUp' => Alone(n)' /\ Agree(n)')
  BY <1>3, <1>5, <1>6, <1>7, <1>8, MessageNumbers, OtherMessages DEF Untouched
<1>12. PaidFor(m)'
  <2>1. OpenCalls(m)' \subseteq OpenCalls(m) \cup {s} BY <1>6 DEF OpenCalls
  <2>2. ClaimToCome(m) BY <1>1 DEF Claimable, ClaimToCome
  <2>3. ~ClaimToCome(m)' BY <1>2, <1>3, <1>5, <1>6 DEF ClaimToCome, InHand
  <2> QED BY <1>0, <1>7, <1>8, <2>1, <2>2, <2>3, OneMore, Fields DEF MerchantInd
<1>13. ASSUME m \notin heldUp' PROVE Alone(m)' /\ Agree(m)'
  <2>1. Alone(m) /\ Agree(m) BY <1>7, <1>13 DEF MerchantInd
  <2>2. \A u \in Slots : slot[u].job # m BY <1>1, <2>1 DEF Alone, Claimable
  <2>3. Alone(m)' BY <1>2, <1>3, <1>5, <1>6, <2>2 DEF Alone
  <2>4. job[m].status \in {"PENDING", "PROCESSING"} BY <1>1 DEF Claimable
  <2> QED BY <1>2, <1>5, <1>7, <2>1, <2>3, <2>4 DEF Agree
<1> QED BY <1>7, <1>9, <1>10, <1>11, <1>12, <1>13 DEF MerchantInd

\* A call that goes on to report: it sends at most once, and the provider gives out a new id.
LEMMA ReportStep ==
  ASSUME MerchantInd, NEW s \in Slots, SendAccepted(s) \/ SendRefused(s) \/ CompleteFails(s)
  PROVE  MerchantInd'
<1>0. TypeOK /\ QueueTyped BY DEF MerchantInd
<1>1. PICK m \in Messages : slot[s].job = m /\ slot[s].pc # "idle" /\ slot[s] \in Slot
  BY <1>0, Fields DEF SendAccepted, SendRefused, CompleteFails, SlotTyped
<1> DEFINE Sent == /\ sends' = [sends EXCEPT ![m] = @ + 1] /\ slot[s].pc = "sending"
                   /\ faults' = faults
           NotSent == sends' = sends /\ slot[s].pc = "sending" /\ faults' = faults
           Undone == sends' = sends /\ slot[s].pc = "reporting" /\ Fault("db")
<1>2. PICK result \in Results, id \in Ids \cup {NoId} :
        /\ Report(s, result, id)
        /\ result = "accepted" => id \in Ids /\ Owner[id] = m
        /\ \/ Sent /\ result # "retryable"
           \/ NotSent
           \/ Undone /\ result # "retryable"
  <2>1. CASE SendAccepted(s)
    <3>1. sends[m] + 1 \in 1..MaxSends
      BY <1>0, <1>1, <2>1, Fields, AttemptsAssumption DEF SendAccepted
    <3>2. <<m, sends[m] + 1>> \in Ids /\ Owner[<<m, sends[m] + 1>>] = m
      BY <1>1, <3>1, MerchantAssumption
    <3>3. Sent BY <1>1, <2>1 DEF SendAccepted, vars
    <3>4. CASE Report(s, "accepted", <<m, sends[m] + 1>>) BY <3>2, <3>3, <3>4 DEF Results
    <3>5. CASE Report(s, "unknown", NoId) BY <3>3, <3>5 DEF Results
    <3> QED BY <1>1, <2>1, <3>4, <3>5 DEF SendAccepted
  <2>2. CASE SendRefused(s)
    <3>1. PICK result \in {"retryable", "final", "unknown"} : Report(s, result, NoId)
      BY <2>2 DEF SendRefused
    <3>2. NotSent BY <2>2 DEF SendRefused, vars
    <3> QED BY <3>1, <3>2 DEF Results
  <2>3. CASE CompleteFails(s)
    BY <2>3 DEF CompleteFails, Results
  <2> QED BY <2>1, <2>2, <2>3
<1> DEFINE t == [slot[s] EXCEPT !.pc = "reporting", !.result = result, !.id = id]
<1>3. /\ t \in Slot /\ t.pc = "reporting" /\ t.job = m /\ t.attempt = slot[s].attempt
      /\ t.result = result /\ t.id = id
  BY <1>1, <1>2 DEF Slot
<1>4. slot' = [slot EXCEPT ![s] = t] BY <1>2 DEF Report
<1> HIDE DEF t
<1>5. /\ slot' \in [Slots -> Slot] /\ slot'[s] = t /\ \A u \in Slots \ {s} : slot'[u] = slot[u]
      /\ \A u \in Slots : SlotTyped(u)'
  BY <1>0, <1>1, <1>2, <1>3, <1>4, SlotUpdate
<1>6. /\ UNCHANGED <<receiptVars, job, draining, heldUp>> /\ msg' = msg
      /\ faults' \in 0..MaxFaults /\ faults \in Nat /\ faults' \in Nat /\ faults <= faults'
      /\ \/ faults' = faults
         \/ faults' = faults + 1
  <2>1. UNCHANGED <<receiptVars, job, draining, heldUp>>
    BY DEF SendAccepted, SendRefused, CompleteFails, vars
  <2>2. /\ faults' \in 0..MaxFaults
        /\ \/ faults' = faults
           \/ faults' = faults + 1
    BY <1>0, <1>2, FaultCounted DEF TypeOK
  <2> QED BY <1>0, <2>1, <2>2, FaultsAreNat DEF receiptVars
<1>7. /\ sends' \in [Messages -> Nat]
      /\ \A n \in Messages \ {m} : sends'[n] = sends[n]
      /\ \/ sends'[m] = sends[m]
         \/ sends'[m] = sends[m] + 1
  <2>1. sends[m] \in Nat /\ sends[m] + 1 \in Nat BY <1>0, <1>1, Fields
  <2> QED BY <1>0, <1>1, <1>2, <2>1 DEF QueueTyped
<1>8. TypeOK' BY <1>0, <1>6, ReceiptsUntouched
<1>9. QueueTyped' BY <1>0, <1>5, <1>6, <1>7 DEF QueueTyped
<1>10. \A n \in Messages \ {m} : PaidFor(n)' /\ (n \notin heldUp' => Alone(n)' /\ Agree(n)')
  BY <1>1, <1>3, <1>5, <1>6, <1>7, OtherMessages DEF Untouched
<1>11. \A u \in Slots : slot'[u].job = slot[u].job /\ slot'[u].attempt = slot[u].attempt
  BY <1>1, <1>3, <1>5
<1>12. PaidFor(m)'
  <2>1. ClaimToCome(m)' = ClaimToCome(m) BY <1>6, <1>11 DEF ClaimToCome, InHand
  <2>2. PaidFor(m) /\ sends[m] \in Nat BY <1>0, <1>1, Fields DEF MerchantInd
  <2>3. CASE Sent /\ result # "retryable"
    <3>1. s \in OpenCalls(m) BY <1>1, <2>3 DEF OpenCalls
    <3>2. OpenCalls(m)' \subseteq OpenCalls(m) \ {s} BY <1>1, <1>3, <1>5, <2>3 DEF OpenCalls
    <3>3. sends'[m] = sends[m] + 1 BY <1>0, <1>1, <2>3 DEF QueueTyped
    <3> QED BY <1>1, <1>6, <2>1, <2>2, <2>3, <3>1, <3>2, <3>3, OneFewer
  <2>4. CASE NotSent \/ (Undone /\ result # "retryable")
    <3>1. OpenCalls(m)' \subseteq OpenCalls(m) BY <1>1, <1>3, <1>5, <2>4 DEF OpenCalls
    <3>2. sends'[m] = sends[m] BY <2>4
    <3> QED BY <1>1, <1>6, <2>1, <2>2, <3>1, <3>2, Fewer
  <2> QED BY <1>2, <2>3, <2>4
<1>13. ASSUME m \notin heldUp' PROVE Alone(m)' /\ Agree(m)'
  <2>1. Alone(m) /\ Agree(m) BY <1>1, <1>6, <1>13 DEF MerchantInd
  <2> QED BY <1>6, <1>11, <2>1 DEF Alone, Agree
<1> QED BY <1>6, <1>8, <1>9, <1>10, <1>12, <1>13 DEF MerchantInd

\* A call that ends.  Only a refusal or a lost transaction has the message claimed again.
LEMMA EndStep ==
  ASSUME MerchantInd, NEW s \in Slots, CompleteJob(s) \/ FailJob(s) \/ FailJobFails(s)
  PROVE  MerchantInd'
<1>0. TypeOK /\ QueueTyped BY DEF MerchantInd
<1>1. PICK m \in Messages : slot[s].job = m /\ slot[s].pc = "reporting" /\ slot[s] \in Slot
  BY <1>0, Fields DEF CompleteJob, FailJob, FailJobFails, SlotTyped
<1> DEFINE Completed(r) == /\ r.status = "COMPLETED" /\ msg'[m].ext \in Ids /\ faults' = faults
           Failed(r) == /\ r.status = "FAILED" /\ msg'[m].ext = msg[m].ext /\ faults' = faults
                        /\ msg'[m].status \in {"FAILED", "DELIVERY_UNKNOWN"}
           Again(r) == /\ r.status = "PENDING" /\ slot[s].result = "retryable" /\ msg' = msg
                       /\ faults' = faults
           Lost(r) == r = job[m] /\ msg' = msg /\ faults' = faults + 1
<1>2. PICK r \in JobRow :
        /\ job' = [job EXCEPT ![m] = r]
        /\ TypeOK' /\ \A n \in Messages \ {m} : msg'[n] = msg[n]
        /\ Completed(r) \/ Failed(r) \/ Again(r) \/ Lost(r)
  <2>1. CASE CompleteJob(s)
    <3> DEFINE r == [job[m] EXCEPT !.status = "COMPLETED", !.expired = FALSE]
    <3>1. r \in JobRow /\ r.status = "COMPLETED" BY <1>0, Fields DEF JobRow, JobStatuses
    <3>2. job' = [job EXCEPT ![m] = r] BY <1>0, <1>1, <2>1 DEF CompleteJob, QueueTyped
    <3>3. PICK id \in Ids : id = slot[s].id /\ Owner[id] = m
      BY <1>0, <1>1, <2>1, Fields DEF CompleteJob, SlotTyped
    <3>4. /\ LinkMessage(Process[s], m, id) /\ Process[s] \in Processes
          /\ UNCHANGED <<linkVars, correlated, unrecorded, faults>>
      BY <1>1, <2>1, <3>3, SlotsAssumption DEF CompleteJob
    <3>5. /\ TypeOK' /\ msg'[m] = [status |-> "SENT", ext |-> id]
          /\ \A n \in Messages \ {m} : msg'[n] = msg[n]
      BY <1>0, <3>3, <3>4, LinkKeepsTypes
    <3>6. Completed(r) BY <3>1, <3>4, <3>5
    <3> HIDE DEF r
    <3> QED BY <3>1, <3>2, <3>5, <3>6
  <2>2. CASE FailJob(s)
    <3> DEFINE r == [job[m] EXCEPT !.expired = FALSE,
                       !.status = IF ShouldRetry(s) THEN "PENDING" ELSE "FAILED"]
    <3>1. r \in JobRow /\ r.status = IF ShouldRetry(s) THEN "PENDING" ELSE "FAILED"
      BY <1>0, Fields DEF JobRow, JobStatuses
    <3>2. job' = [job EXCEPT ![m] = r] BY <1>0, <1>1, <2>2 DEF FailJob, QueueTyped
    <3>3. /\ UNCHANGED <<log, correlated, linker, unrecorded, relinked, sweep, aged, faults>>
          /\ msg' = IF ShouldRetry(s) THEN msg ELSE [msg EXCEPT ![m].status = FailedStatus(s)]
      BY <1>1, <2>2 DEF FailJob, linkVars
    <3>4. FailedStatus(s) \in {"FAILED", "DELIVERY_UNKNOWN"} BY DEF FailedStatus
    <3>5. /\ msg' \in [Messages -> Message] /\ \A n \in Messages : msg'[n].ext = msg[n].ext
          /\ \A n \in Messages \ {m} : msg'[n] = msg[n]
          /\ ~ShouldRetry(s) => msg'[m].status \in {"FAILED", "DELIVERY_UNKNOWN"}
      BY <1>0, <3>3, <3>4 DEF TypeOK, Message, Statuses, Kinds
    <3>6. TypeOK' BY <1>0, <3>3, <3>5, BookkeepingType DEF TypeOK
    <3> HIDE DEF r
    <3>7. CASE ShouldRetry(s) BY <3>1, <3>2, <3>3, <3>6, <3>7 DEF ShouldRetry
    <3>8. CASE ~ShouldRetry(s) BY <3>1, <3>2, <3>3, <3>5, <3>6, <3>8
    <3> QED BY <3>7, <3>8
  <2>3. CASE FailJobFails(s)
    <3>1. job[m] \in JobRow /\ job' = [job EXCEPT ![m] = job[m]]
      BY <1>0, <2>3 DEF FailJobFails, QueueTyped
    <3>2. faults' \in 0..MaxFaults /\ faults' = faults + 1
      BY <1>0, <2>3, FaultCounted DEF FailJobFails
    <3>3. UNCHANGED receiptVars BY <2>3 DEF FailJobFails
    <3>4. TypeOK' BY <1>0, <3>2, <3>3, ReceiptsUntouched
    <3> QED BY <3>1, <3>2, <3>3, <3>4 DEF receiptVars
  <2> QED BY <2>1, <2>2, <2>3
<1>3. job' \in [Messages -> JobRow] /\ job'[m] = r /\ \A n \in Messages \ {m} : job'[n] = job[n]
  BY <1>0, <1>2, JobUpdate
<1>4. slot' = [slot EXCEPT ![s] = IdleSlot] /\ UNCHANGED <<sends, draining, heldUp>>
  BY DEF CompleteJob, FailJob, FailJobFails, Return
<1>5. /\ slot' \in [Slots -> Slot] /\ slot'[s] = IdleSlot /\ \A u \in Slots \ {s} : slot'[u] = slot[u]
      /\ \A u \in Slots : SlotTyped(u)'
  BY <1>0, <1>4, IdleIsTyped, SlotUpdate
<1>6. faults \in Nat /\ faults' \in Nat /\ faults <= faults'
  BY <1>0, <1>2, FaultsAreNat
<1>7. QueueTyped' BY <1>0, <1>3, <1>4, <1>5 DEF QueueTyped
<1>8. \A n \in Messages \ {m} : PaidFor(n)' /\ (n \notin heldUp' => Alone(n)' /\ Agree(n)')
  BY <1>1, <1>2, <1>3, <1>4, <1>5, <1>6, IdleIsTyped, MessageNumbers, OtherMessages DEF Untouched
<1>9. PaidFor(m)'
  <2>1. OpenCalls(m)' \subseteq OpenCalls(m) \ {s}
    BY <1>5, IdleIsTyped, MessageNumbers DEF OpenCalls
  <2>2. PaidFor(m) /\ sends[m] \in Nat /\ sends'[m] = sends[m]
    BY <1>0, <1>4, Fields DEF MerchantInd
  <2>3. CASE Completed(r) \/ Failed(r) \/ Lost(r)
    <3>1. (faults' = faults /\ ~ClaimToCome(m)') \/ faults' = faults + 1
      BY <1>3, <2>3 DEF ClaimToCome
    <3> QED BY <1>6, <2>1, <2>2, <3>1, Fewer
  <2>4. CASE Again(r)
    <3>1. s \in OpenCalls(m) BY <1>1, <2>4 DEF OpenCalls
    <3> QED BY <1>6, <2>1, <2>2, <2>4, <3>1, OneFewer
  <2> QED BY <1>2, <2>3, <2>4
<1>10. ASSUME m \notin heldUp' PROVE Alone(m)' /\ Agree(m)'
  <2>1. Alone(m) /\ Agree(m) BY <1>4, <1>10 DEF MerchantInd
  <2>2. \A u \in Slots : slot'[u].job # m
    BY <1>1, <1>5, <2>1, IdleIsTyped, MessageNumbers DEF Alone
  <2>3. Alone(m)' BY <2>2 DEF Alone
  <2>4. job[m].status = "PROCESSING" /\ msg[m].ext = NoId /\ msg[m].status = "PENDING"
    BY <1>1, <2>1 DEF Alone, Agree
  <2>5. Agree(m)' BY <1>2, <1>3, <2>4, MessageNumbers DEF Agree
  <2> QED BY <2>3, <2>5
<1> QED BY <1>2, <1>4, <1>7, <1>8, <1>9, <1>10 DEF MerchantInd

\* A process that dies, drains or starts again: its calls are gone, its messages keep their rows.
LEMMA ProcessStep ==
  ASSUME MerchantInd, NEW p \in Processes, MerchantCrash(p) \/ Shutdown(p) \/ Restart(p)
  PROVE  MerchantInd'
<1>0. TypeOK /\ QueueTyped BY DEF MerchantInd
<1>1. /\ UNCHANGED <<job, sends, heldUp>> /\ msg' = msg /\ draining' \subseteq Processes
      /\ faults' = faults \/ (MerchantCrash(p) /\ Fault("crash")) \/ (Shutdown(p) /\ Fault("drain"))
  BY <1>0 DEF MerchantCrash, Shutdown, Restart, ReceiptsCrash, receiptVars, QueueTyped
<1>2. /\ faults' \in 0..MaxFaults
      /\ \/ faults' = faults
         \/ faults' = faults + 1
  BY <1>0, <1>1, FaultCounted DEF TypeOK
<1>3. TypeOK'
  <2>1. CASE MerchantCrash(p) \/ Restart(p)
    BY <1>0, <1>2, <2>1, CrashKeepsTypes DEF MerchantCrash, Restart
  <2>2. CASE Shutdown(p) BY <1>0, <1>2, <2>2, ReceiptsUntouched DEF Shutdown
  <2> QED BY <2>1, <2>2
<1>4. /\ slot' \in [Slots -> Slot]
      /\ \A s \in Slots : slot'[s] = slot[s] \/ slot'[s] = IdleSlot
      /\ \/ slot' = slot
         \/ faults' = faults + 1
  <2>1. CASE MerchantCrash(p)
    BY <1>0, <2>1, FaultCounted, IdleIsTyped DEF MerchantCrash, QueueTyped
  <2>2. CASE Shutdown(p) \/ Restart(p)
    BY <1>0, <2>2 DEF Shutdown, Restart, QueueTyped
  <2> QED BY <2>1, <2>2
<1>5. \A s \in Slots : SlotTyped(s)'
  <2> SUFFICES ASSUME NEW s \in Slots PROVE SlotTyped(s)'
    OBVIOUS
  <2>1. CASE slot'[s] = slot[s] BY <1>0, <2>1 DEF QueueTyped, SlotTyped
  <2>2. CASE slot'[s] = IdleSlot BY <2>2, IdleIsTyped DEF SlotTyped
  <2> QED BY <1>4, <2>1, <2>2
<1>6. QueueTyped' BY <1>0, <1>1, <1>4, <1>5 DEF QueueTyped
<1>7. ASSUME NEW m \in Messages PROVE PaidFor(m)'
  <2>1. OpenCalls(m)' \subseteq OpenCalls(m)
    BY <1>4, IdleIsTyped, MessageNumbers DEF OpenCalls
  <2>2. PaidFor(m) /\ sends[m] \in Nat /\ sends'[m] = sends[m] /\ faults \in Nat /\ faults' \in Nat
    BY <1>0, <1>1, <1>2, Fields, FaultsAreNat DEF MerchantInd
  <2>3. CASE faults' = faults + 1 BY <2>1, <2>2, <2>3, Fewer
  <2>4. CASE faults' = faults /\ slot' = slot
    <3>1. ClaimToCome(m)' = ClaimToCome(m) BY <1>1, <2>4 DEF ClaimToCome, InHand
    <3> QED BY <2>1, <2>2, <2>4, <3>1, Fewer
  <2> QED BY <1>2, <1>4, <2>3, <2>4
<1>8. ASSUME NEW m \in Messages \ heldUp' PROVE Alone(m)' /\ Agree(m)'
  <2>1. Alone(m) /\ Agree(m) /\ m # NoJob BY <1>1, <1>8, MessageNumbers DEF MerchantInd
  <2>2. Alone(m)'
    <3>1. \A s \in Slots : slot'[s].job = m => slot'[s] = slot[s] BY <1>4, <2>1, IdleIsTyped
    <3> QED BY <1>1, <2>1, <3>1 DEF Alone
  <2> QED BY <1>1, <2>1, <2>2 DEF Agree
<1> QED BY <1>3, <1>6, <1>7, <1>8 DEF MerchantInd

LEMMA MerchantStepInd == MerchantInd /\ [MerchantNext]_merchantVars => MerchantInd'
<1> SUFFICES ASSUME MerchantInd, [MerchantNext]_merchantVars PROVE MerchantInd'
  OBVIOUS
<1>1. CASE ReceiptNext /\ UNCHANGED queueVars BY <1>1, ReceiptsStep
<1>2. CASE QueueNext
  BY <1>2, ClockStep, ClaimStep, ReportStep, EndStep, ProcessStep DEF QueueNext, SlotStep
<1>3. CASE UNCHANGED merchantVars
  <2>1. UNCHANGED vars /\ UNCHANGED queueVars BY <1>3 DEF merchantVars
  <2>2. TypeOK' BY <2>1, ReceiptsUntouched, FaultsAreNat DEF MerchantInd, vars
  <2>3. QueueTyped' BY <2>1 DEF MerchantInd, QueueTyped, SlotTyped, queueVars
  <2>4. \A m \in Messages \ heldUp : Alone(m)' /\ Agree(m)'
    BY <2>1 DEF MerchantInd, Alone, Agree, queueVars, vars, receiptVars
  <2>5. \A m \in Messages : PaidFor(m)'
    BY <2>1 DEF MerchantInd, PaidFor, OpenCalls, Credit, ClaimToCome, InHand, queueVars, vars
  <2> QED BY <2>1, <2>2, <2>3, <2>4, <2>5 DEF MerchantInd, queueVars
<1> QED BY <1>1, <1>2, <1>3 DEF MerchantNext

-----------------------------------------------------------------------------
(* The theorems *)

\* The invariant holds in every state the queue and the receipts reach together.
THEOREM MerchantInductive == MerchantSpec => []MerchantInd
<1> QED BY MerchantInitInd, MerchantStepInd, PTL DEF MerchantSpec

\* Rows, calls and receipts keep their types, and no row carries an id of another message.
THEOREM MerchantTypes == MerchantSpec => [](TypeOK /\ QueueTyped)
<1>1. MerchantInd => TypeOK /\ QueueTyped BY DEF MerchantInd
<1> QED BY <1>1, MerchantInductive, PTL

\* The job row and the message row tell one story, as long as no call of the message
\* was held up past its lease: completeJob and failJob check no owner, the lease has to.
THEOREM RowsAgree == MerchantSpec => []JobAndMessageAgree
<1>1. MerchantInd => JobAndMessageAgree BY DEF MerchantInd, Agree, JobAndMessageAgree
<1> QED BY <1>1, MerchantInductive, PTL

\* The provider accepts a message once, and once more for every fault at the most.
THEOREM RepeatsNeedFaults == MerchantSpec => []DuplicatesNeedFaults
<1>1. MerchantInd => DuplicatesNeedFaults
  <2> SUFFICES ASSUME MerchantInd, NEW m \in Messages PROVE sends[m] <= 1 + faults
    BY DEF DuplicatesNeedFaults
  <2>1. PaidFor(m) /\ sends[m] \in Nat /\ faults \in Nat
    BY Fields, FaultsAreNat DEF MerchantInd
  <2>2. Cardinality(OpenCalls(m)) \in Nat BY <2>1, FS_CardinalityType DEF PaidFor
  <2>3. Credit(m) \in Nat BY CreditIsBit
  <2> QED BY <2>1, <2>2, <2>3 DEF PaidFor
<1> QED BY <1>1, MerchantInductive, PTL

\* completeJob and failJob ask neither for an owner nor for the message's status, and the
\* receipts race with them.  The lease alone keeps a status from falling back, unless a
\* call of the message was held up past it.
THEOREM OnlyStalledTurnBack == MerchantSpec => OnlyHeldUpTurnBack
<1>1. ASSUME MerchantInd, MerchantNext, NEW m \in Messages \ heldUp PROVE NeverBack(m)
  <2>0. TypeOK /\ QueueTyped
    BY <1>1 DEF MerchantInd
  <2>1. CASE msg'[m] = msg[m]
    BY <2>1 DEF NeverBack
  <2>2. CASE ReceiptNext
    <3>1. ReceiptAction BY <2>2 DEF ReceiptNext, ReceiptAction, ReceiptArrives, SweepStep
    <3>2. Applies \/ UNCHANGED msg BY <2>0, <3>1, ReceiptsKeepTypes DEF Ingest
    <3> QED BY <2>0, <2>1, <3>2, AppliedForward DEF Applies
  <2>3. CASE \E s \in Slots : CompleteJob(s) \/ FailJob(s)
    <3>1. PICK s \in Slots : CompleteJob(s) \/ FailJob(s) BY <2>3
    <3>2. CASE slot[s].job = m
      <4>1. Alone(m) /\ Agree(m) BY <1>1 DEF MerchantInd
      <4>2. msg[m].status = "PENDING" BY <3>2, <4>1 DEF Alone, Agree
      <4> QED BY <4>2 DEF NeverBack
    <3>3. CASE slot[s].job # m
      <4>1. msg \in [Messages -> Message] BY <2>0 DEF TypeOK
      <4>2. msg'[m] = msg[m]
        BY <1>1, <3>1, <3>3, <4>1 DEF CompleteJob, FailJob, LinkMessage
      <4> QED BY <2>1, <4>2
    <3> QED BY <3>2, <3>3
  <2>4. CASE QueueNext /\ ~\E s \in Slots : CompleteJob(s) \/ FailJob(s)
    <3>1. UNCHANGED msg
      BY <2>4 DEF QueueNext, SlotStep, Enqueue, LeaseRunsOut, Stall, Claim, SendAccepted,
                  SendRefused, CompleteFails, FailJobFails, MerchantCrash, Shutdown, Restart,
                  ReceiptsCrash, receiptVars, vars
    <3> QED BY <2>1, <3>1
  <2> QED BY <1>1, <2>2, <2>3, <2>4 DEF MerchantNext
<1>2. MerchantInd /\ [MerchantNext]_merchantVars
        => [\A m \in Messages \ heldUp : NeverBack(m)]_merchantVars
  BY <1>1
<1> QED BY <1>2, MerchantInductive, PTL DEF MerchantSpec, OnlyHeldUpTurnBack
=============================================================================
