---------------------------- MODULE PortalBudget ----------------------------
(***************************************************************************)
(* The usage ledger of one portal account (PortalBudget.ts): every message,  *)
(* model call and voice note is a "PortalUsageEntry", reserved before the    *)
(* work and settled after it, and a "PortalUsageBucket" per month adds the   *)
(* entries up.  Customer messages arrive as jobs of the inbound queue, whose *)
(* worker transcribes a voice note (transcribeVoice) and then runs the turn  *)
(* (runTurn around the conversation engine).  A job whose worker dies, stalls *)
(* past its lease or throws is handled again by another attempt.             *)
(*                                                                           *)
(* Money is counted in units.  Every transaction locks the profile, so each  *)
(* is one action; the steps between them belong to one attempt.              *)
(***************************************************************************)
EXTENDS Integers, FiniteSets, FiniteSetsExt

CONSTANTS
  Messages,      \* external message ids
  VoiceNotes,    \* those that carry a voice note
  Attempts,      \* Messages -> attempts of the inbound queue at the message
  Kinds,         \* paid operations inside a turn: "llm", "embedding", "image"
  PerTurn,       \* Kinds -> how many of them one turn may make
  MaxOps,        \* the sum of PerTurn
  Cost,          \* Kinds \cup {"audio"} -> units reserved for one operation
  Overrun,       \* by how much a receipt of a model may exceed its reservation
  FirstCeiling,  \* monthly ceiling of the plan the account starts with
  Ceilings,      \* monthly ceilings an administrator may set
  MaxMessages,   \* limits.messages of the plan
  Months,        \* bound on the calendar
  MaxChanges,    \* bound on the administrator's changes
  FaultKinds,    \* "crash", "stall" (the lease runs out under a live attempt), "db"
  MaxFaults      \* bound on the number of faults in a behaviour

ASSUME LedgerAssumption ==
  /\ VoiceNotes \subseteq Messages /\ Kinds \subseteq {"llm", "embedding", "image"}
  /\ Attempts \in [Messages -> Nat] /\ MaxOps \in Nat /\ Months \in Nat \ {0}
  /\ Overrun \in Nat /\ Ceilings \subseteq Nat /\ FirstCeiling \in Ceilings
  /\ Cost \in [Kinds \cup {"audio"} -> Nat \ {0}]
ASSUME AllowanceAssumption ==
  PerTurn \in [Kinds -> Nat] /\ MaxOps = SumFunctionOnSet(PerTurn, Kinds)

Calls == UNION {{m} \X (1..Attempts[m]) : m \in Messages}
MessageKey(m) == <<m, 0, "message">>
AudioKey(m) == <<m, 0, "audio">>
OpKeys == Messages \X (1..MaxOps) \X Kinds
Keys == {MessageKey(m) : m \in Messages} \cup {AudioKey(m) : m \in VoiceNotes} \cup OpKeys
NoKey == <<>>
Unknown == -1     \* the charge `null` of finish

VARIABLES
  entry,     \* the ledger: one row per dedupeKey
  bucket,    \* the monthly totals
  profile,   \* status and monthly ceiling of the account, and the highest one it ever had
  month,     \* the current UTC month
  call,      \* local state of each attempt at a message
  asked,     \* how often a provider has been called for a key
  changes,   \* changes the administrator has made
  faults     \* faults so far

vars == <<entry, bucket, profile, month, call, asked, changes, faults>>

NoEntry == [status |-> "NONE", month |-> 1, reserved |-> 0, charged |-> 0, text |-> FALSE]
Pcs == {"idle", "voice", "settle", "voiceMessage", "voiceAudio", "load", "check", "listen",
        "heard", "voiceEnd", "look", "begin", "work", "paid", "end", "throw",
        "answered", "silent", "failed", "dead"}
\* `reservation`: the id runTurn holds; `why`: what made the account refuse a turn.
IdleCall == [pc |-> "idle", seq |-> 0, used |-> [k \in Kinds |-> 0], timedOut |-> FALSE,
             key |-> NoKey, charge |-> "none", why |-> "none"]

Init ==
  /\ entry = [k \in Keys |-> NoEntry]
  /\ bucket = [p \in 1..Months |-> [spent |-> 0, reserved |-> 0, messages |-> 0]]
  /\ profile = [status |-> "ACTIVE", ceiling |-> FirstCeiling, peak |-> FirstCeiling]
  /\ month = 1
  /\ call = [c \in Calls |-> IdleCall]
  /\ asked = [k \in Keys |-> 0]
  /\ changes = 0
  /\ faults = 0

-----------------------------------------------------------------------------
(* The ledger *)

Fault(kind) == kind \in FaultKinds /\ faults < MaxFaults /\ faults' = faults + 1

Goto(c, pc) == call' = [call EXCEPT ![c].pc = pc]
\* An attempt that has ended keeps nothing.
End(c, pc, why) == call' = [call EXCEPT ![c] = [IdleCall EXCEPT !.pc = pc, !.why = why]]

\* Fault: what is reserved but not yet spent is forgotten.
ExhaustedBySpending(k, amount) ==
  LET b == bucket[month] IN
    \/ k[3] = "message" /\ b.messages >= MaxMessages
    \/ b.spent + amount > profile.ceiling

Exhausted(k, amount) ==
  LET b == bucket[month] IN
    \/ k[3] = "message" /\ b.messages >= MaxMessages
    \/ b.spent + b.reserved + amount > profile.ceiling

\* Why reserve refuses a key with 402, or "none".
Refusal(k, amount, allowCompleted) ==
  IF profile.status # "ACTIVE" THEN "inactive"
  ELSE IF entry[k].status # "NONE" /\ ~(allowCompleted /\ entry[k].status = "COMPLETED")
       THEN "reserved"
  ELSE IF entry[k].status = "NONE" /\ Exhausted(k, amount) THEN "exhausted"
  ELSE "none"

\* The inserts of reserve; a completed row is handed out again as it is.
Reserve(k, amount) ==
  IF entry[k].status = "COMPLETED" THEN UNCHANGED <<entry, bucket>>
  ELSE /\ entry' = [entry EXCEPT ![k] = [NoEntry EXCEPT !.status = "RESERVED", !.month = month,
                                                        !.reserved = amount]]
       /\ bucket' = [bucket EXCEPT ![month].reserved = @ + amount,
                                   ![month].messages = @ + (IF k[3] = "message" THEN 1 ELSE 0)]

\* finish: `charge` is a number of units, or Unknown for a missing receipt.
Charge(k, charge) == IF charge = Unknown THEN entry[k].reserved ELSE charge

\* Fault: the charge goes to the current month, not to that of the row.
SettleInThisMonth(k, charge, text) ==
  IF entry[k].status # "RESERVED" THEN UNCHANGED <<entry, bucket>>
  ELSE /\ entry' = [entry EXCEPT ![k] =
                      [@ EXCEPT !.status = IF charge = Unknown THEN "UNKNOWN" ELSE "COMPLETED",
                                !.charged = Charge(k, charge), !.text = text]]
       /\ bucket' = [bucket EXCEPT ![entry[k].month].reserved = @ - entry[k].reserved,
                                   ![month].spent = @ + Charge(k, charge)]

Settle(k, charge, text) ==
  IF entry[k].status # "RESERVED" THEN UNCHANGED <<entry, bucket>>
  ELSE /\ entry' = [entry EXCEPT ![k] =
                      [@ EXCEPT !.status = IF charge = Unknown THEN "UNKNOWN" ELSE "COMPLETED",
                                !.charged = Charge(k, charge), !.text = text]]
       /\ bucket' = [bucket EXCEPT ![entry[k].month].reserved = @ - entry[k].reserved,
                                   ![entry[k].month].spent = @ + Charge(k, charge)]

-----------------------------------------------------------------------------
(* The jobs of the inbound queue *)

\* A later attempt needs the earlier ones to have thrown, died or lost their lease,
\* and none of them to have completed the job.
MayStart(c) ==
  /\ call[c].pc = "idle"
  /\ \A i \in 1..(c[2] - 1) : call[<<c[1], i>>].pc \notin {"idle", "answered", "silent"}

Start(c) ==
  /\ MayStart(c)
  /\ IF c[2] > 1 /\ call[<<c[1], c[2] - 1>>].pc \notin {"failed", "dead"}
     THEN Fault("stall") ELSE faults' = faults
  /\ Goto(c, IF c[1] \in VoiceNotes THEN "voice" ELSE "look")
  /\ UNCHANGED <<entry, bucket, profile, month, asked, changes>>

Crash(c) ==
  /\ call[c].pc \notin {"idle", "answered", "silent", "failed", "dead"}
  /\ Fault("crash")
  /\ End(c, "dead", "none")
  /\ UNCHANGED <<entry, bucket, profile, month, asked, changes>>

-----------------------------------------------------------------------------
(* transcribeVoice: its failures leave the turn to answer without the text *)

\* The read of the earlier entry. `old`: it was made more than 180 seconds ago.
VoiceLook(c, old) ==
  LET e == entry[AudioKey(c[1])] IN
    /\ call[c].pc = "voice"
    /\ Goto(c, IF profile.status # "ACTIVE" THEN "look"
               ELSE IF e.status = "NONE" THEN "voiceMessage"
               ELSE IF e.status = "RESERVED" /\ old THEN "settle"
               ELSE "look")
    /\ UNCHANGED <<entry, bucket, profile, month, asked, changes, faults>>

\* An interrupted transcription is charged in full and not repeated.
SettleInterrupted(c) ==
  /\ call[c].pc = "settle"
  /\ Settle(AudioKey(c[1]), Unknown, FALSE)
  /\ Goto(c, "look")
  /\ UNCHANGED <<profile, month, asked, changes, faults>>

\* The reservations of the message and of the recording at its longest.
VoiceReserve(c) ==
  LET k == IF call[c].pc = "voiceMessage" THEN MessageKey(c[1]) ELSE AudioKey(c[1])
      amount == IF k[3] = "message" THEN 0 ELSE Cost["audio"]
  IN /\ call[c].pc \in {"voiceMessage", "voiceAudio"}
     /\ IF Refusal(k, amount, k[3] = "message") = "none"
        THEN Reserve(k, amount) /\ Goto(c, IF k[3] = "message" THEN "voiceAudio" ELSE "load")
        ELSE /\ Goto(c, IF k[3] = "message" THEN "look" ELSE "voiceEnd")
             /\ UNCHANGED <<entry, bucket>>
     /\ UNCHANGED <<profile, month, asked, changes, faults>>

\* Downloading and measuring the recording.
Load(c, ok) ==
  /\ call[c].pc = "load"
  /\ call' = [call EXCEPT ![c] = [@ EXCEPT !.pc = IF ok THEN "check" ELSE "heard",
                                           !.charge = IF ok THEN "none" ELSE "nothing"]]
  /\ UNCHANGED <<entry, bucket, profile, month, asked, changes, faults>>

\* The last look at the profile and the reservation before the provider is paid.
CheckAllowance(c) ==
  LET e == entry[AudioKey(c[1])]
      ok == /\ profile.status = "ACTIVE"
            /\ e.status = "RESERVED"
            /\ bucket[e.month].spent + bucket[e.month].reserved <= profile.ceiling
  IN /\ call[c].pc = "check"
     /\ call' = [call EXCEPT ![c] = [@ EXCEPT !.pc = IF ok THEN "listen" ELSE "heard",
                                              !.charge = IF ok THEN "none" ELSE "nothing"]]
     /\ UNCHANGED <<entry, bucket, profile, month, asked, changes, faults>>

\* The provider is called; the answer has a plausible duration, or none, or fails.
Transcribe(c, charge) ==
  /\ call[c].pc = "listen"
  /\ asked' = [asked EXCEPT ![AudioKey(c[1])] = @ + 1]
  /\ call' = [call EXCEPT ![c] = [@ EXCEPT !.pc = "heard", !.charge = charge]]
  /\ UNCHANGED <<entry, bucket, profile, month, changes, faults>>

\* Fault: an attempt that failed is never charged.
BilledOnSuccess(c) ==
  CASE call[c].charge = "nothing" \/ call[c].charge = "failed" -> 0
    [] call[c].charge = "short" -> 1
    [] OTHER -> Unknown

\* What the receipt of the attempt costs the account.
Billed(c) ==
  CASE call[c].charge = "nothing" -> 0
    [] call[c].charge = "short" -> 1
    [] OTHER -> Unknown

FinishVoice(c) ==
  /\ call[c].pc = "heard"
  /\ Settle(AudioKey(c[1]), Billed(c), call[c].charge \in {"short", "noReceipt"})
  /\ call' = [call EXCEPT ![c] = [@ EXCEPT !.pc = "voiceEnd", !.charge = "none"]]
  /\ UNCHANGED <<profile, month, asked, changes, faults>>

\* The settlement after an answer fails: the catch settles it as a failed attempt.
FinishVoiceFails(c) ==
  /\ call[c].pc = "heard" /\ call[c].charge \in {"short", "noReceipt"}
  /\ Fault("db")
  /\ call' = [call EXCEPT ![c].charge = "failed"]
  /\ UNCHANGED <<entry, bucket, profile, month, asked, changes>>

\* The runTurn around a transcription settles its message, whatever happened.
VoiceEnd(c) ==
  /\ call[c].pc = "voiceEnd"
  /\ Settle(MessageKey(c[1]), 0, FALSE)
  /\ Goto(c, "look")
  /\ UNCHANGED <<profile, month, asked, changes, faults>>

-----------------------------------------------------------------------------
(* runTurn around the conversation engine *)

LookUpProfile(c) ==
  /\ call[c].pc = "look"
  /\ IF profile.status = "ACTIVE" THEN Goto(c, "begin") ELSE End(c, "silent", "inactive")
  /\ UNCHANGED <<entry, bucket, profile, month, asked, changes, faults>>

\* A refused turn returns the empty reply, and the worker completes the job with it.
BeginTurn(c) ==
  LET why == Refusal(MessageKey(c[1]), 0, TRUE) IN
    /\ call[c].pc = "begin"
    /\ IF why = "none" THEN Reserve(MessageKey(c[1]), 0) /\ Goto(c, "work")
       ELSE End(c, "silent", why) /\ UNCHANGED <<entry, bucket>>
    /\ UNCHANGED <<profile, month, asked, changes, faults>>

\* A wrapped provider reserves under the next key of the turn.  Past the allowance of the
\* turn, or after a timeout of the model, it fails at once and nothing changes.  The
\* engine answers around the error of a refused operation.
ReserveOp(c, kind) ==
  LET k == <<c[1], call[c].seq + 1, kind>>
      ok == Refusal(k, Cost[kind], FALSE) = "none"
  IN /\ call[c].pc = "work"
     /\ call[c].used[kind] < PerTurn[kind]
     /\ ~(kind = "llm" /\ call[c].timedOut)
     /\ IF ok THEN Reserve(k, Cost[kind]) ELSE UNCHANGED <<entry, bucket>>
     /\ asked' = [asked EXCEPT ![k] = @ + (IF ok THEN 1 ELSE 0)]
     /\ call' = [call EXCEPT ![c].seq = @ + 1, ![c].used[kind] = @ + 1,
                             ![c].pc = IF ok THEN "paid" ELSE @,
                             ![c].key = IF ok THEN k ELSE @]
     /\ UNCHANGED <<profile, month, changes, faults>>

\* The receipts of a model; embeddings and images never bring one.
Receipts(kind) ==
  IF kind = "llm" THEN {0, Cost[kind] + Overrun, Unknown} ELSE {Unknown}

BackToWork(c, timeout) ==
  call' = [call EXCEPT ![c].pc = "work", ![c].key = NoKey, ![c].timedOut = @ \/ timeout]

FinishOp(c, charge, timeout) ==
  /\ call[c].pc = "paid"
  /\ charge \in Receipts(call[c].key[3])
  /\ timeout => call[c].key[3] = "llm" /\ charge = Unknown
  /\ Settle(call[c].key, charge, FALSE)
  /\ BackToWork(c, timeout)
  /\ UNCHANGED <<profile, month, asked, changes, faults>>

\* The database refuses the settlement in the `finally`: the error replaces the answer.
FinishOpFails(c) ==
  /\ call[c].pc = "paid"
  /\ Fault("db")
  /\ call' = [call EXCEPT ![c] = [@ EXCEPT !.pc = "throw", !.key = NoKey]]
  /\ UNCHANGED <<entry, bucket, profile, month, asked, changes>>

\* The engine has its reply, or a statement of its own has failed and it throws; the
\* message is settled in both cases.
EngineEnds(c, ok) ==
  /\ call[c].pc = "work"
  /\ IF ok THEN faults' = faults ELSE Fault("db")
  /\ Goto(c, IF ok THEN "end" ELSE "throw")
  /\ UNCHANGED <<entry, bucket, profile, month, asked, changes>>

EndTurn(c) ==
  /\ call[c].pc \in {"end", "throw"}
  /\ Settle(MessageKey(c[1]), 0, FALSE)
  /\ End(c, IF call[c].pc = "end" THEN "answered" ELSE "failed", "none")
  /\ UNCHANGED <<profile, month, asked, changes, faults>>

-----------------------------------------------------------------------------
(* The administrator and the calendar *)

\* updateAccount under the profile lock: a new ceiling, a suspension, its end.
ChangeAccount(status, ceiling) ==
  /\ changes < MaxChanges
  /\ <<status, ceiling>> # <<profile.status, profile.ceiling>>
  /\ profile' = [status |-> status, ceiling |-> ceiling, peak |-> Max({profile.peak, ceiling})]
  /\ changes' = changes + 1
  /\ UNCHANGED <<entry, bucket, month, call, asked, faults>>

NextMonth ==
  /\ month < Months
  /\ month' = month + 1
  /\ UNCHANGED <<entry, bucket, profile, call, asked, changes, faults>>

CallStep(c) ==
  \/ \E old \in BOOLEAN : VoiceLook(c, old)
  \/ SettleInterrupted(c) \/ VoiceReserve(c)
  \/ \E ok \in BOOLEAN : Load(c, ok)
  \/ CheckAllowance(c)
  \/ \E charge \in {"short", "noReceipt", "failed"} : Transcribe(c, charge)
  \/ FinishVoice(c) \/ VoiceEnd(c) \/ LookUpProfile(c) \/ BeginTurn(c)
  \/ \E kind \in Kinds : ReserveOp(c, kind)
  \/ \E kind \in Kinds, timeout \in BOOLEAN :
       \E charge \in Receipts(kind) : FinishOp(c, charge, timeout)
  \/ \E ok \in BOOLEAN : EngineEnds(c, ok)
  \/ EndTurn(c)

Next ==
  \/ \E c \in Calls : Start(c) \/ Crash(c) \/ CallStep(c) \/ FinishVoiceFails(c) \/ FinishOpFails(c)
  \/ \E status \in {"ACTIVE", "SUSPENDED"}, ceiling \in Ceilings : ChangeAccount(status, ceiling)
  \/ NextMonth

Spec == Init /\ [][Next]_vars

-----------------------------------------------------------------------------
(* Properties *)

Rows(p) == {k \in Keys : entry[k].status # "NONE" /\ entry[k].month = p}
Open(p) == {k \in Rows(p) : entry[k].status = "RESERVED"}
Reserved == [k \in Keys |-> entry[k].reserved]
Charged == [k \in Keys |-> entry[k].charged]

\* The monthly totals are the sums of the ledger's rows, across months, crashes,
\* retries and settlements by another attempt: nothing is reserved or spent
\* without a row, and each row is settled once (reserve, finish).
TotalsMatchLedger ==
  \A p \in 1..Months :
    /\ bucket[p].reserved = SumFunctionOnSet(Reserved, Open(p))
    /\ bucket[p].spent = SumFunctionOnSet(Charged, Rows(p))
    /\ bucket[p].messages = Cardinality({k \in Rows(p) : k[3] = "message"})

\* However many turns run at once, what is spent and promised never exceeds the highest
\* ceiling the account has had, except by what receipts exceed their reservations
\* (docs/ADMIN_CLIENT_PORTALS_PLAN_2026-09-13.md:112).
Excess == [k \in Keys |-> Max({0, entry[k].charged - entry[k].reserved})]
NoOverspend ==
  \A p \in 1..Months :
    bucket[p].spent + bucket[p].reserved <= profile.peak + SumFunctionOnSet(Excess, Rows(p))

\* A provider is asked at most once under a key, and its work is always held against the
\* account: the row stays reserved or charged, whoever died or retried
\* (docs/security-critical-fixes-2026-09-28.md:15).
PaidOnce ==
  \A k \in Keys : asked[k] > 0 =>
    /\ asked[k] = 1
    /\ \/ entry[k].status = "RESERVED"
       \/ entry[k].status = "UNKNOWN" /\ entry[k].charged = entry[k].reserved
       \/ entry[k].status = "COMPLETED" /\ (k[3] = "audio" => entry[k].charged > 0)

\* docs/WEB_WORKER_ARCHITECTURE.md:172: when a process exits under a job, another worker
\* recovers the job.  Here: a job is completed without a reply only because the account
\* is inactive or its allowance is exhausted.
RecoveredIsHandled ==
  \A c \in Calls : call[c].pc = "silent" => call[c].why \in {"inactive", "exhausted"}
=============================================================================
