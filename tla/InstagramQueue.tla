---------------------------- MODULE InstagramQueue ----------------------------
(***************************************************************************)
(* Instagram direct messages: InstagramService.ts.  A webhook stores a row   *)
(* of "InstagramInboundJob" per message; every process runs tick() on a      *)
(* timer, one job at a time: it writes off abandoned sends, claims the       *)
(* oldest job under a lease of 90 seconds, lets the engine make the answer,  *)
(* saves it, checks the account and the conversation's owner, marks the row  *)
(* SENDING and calls Meta.  Every write of a claim is fenced by `attempts`   *)
(* and by a lease that has not run out (updateOwned).                        *)
(*                                                                           *)
(* One account is modelled.  The order of the job numbers is the order of    *)
(* (createdAt, id).  `expired` says that leaseUntil has passed, `ready` that *)
(* nextAttemptAt has.  An account may answer when its connection is enabled  *)
(* and CONNECTED and its profile ACTIVE and entitled; the code reads the     *)
(* connection and the profile together, one fact here.  `human` and `closed` *)
(* hold the number of the change that made them so, 0 when they are not.     *)
(***************************************************************************)
EXTENDS Naturals

CONSTANTS
  Jobs,        \* job numbers
  Senders,     \* Instagram users who write to the account
  Sender,      \* Jobs -> Senders
  Processes,   \* the processes that run tick()
  MaxAttempts, \* claims a job may have (8 in the code)
  MaxChanges,  \* bound on takeovers, returns, and changes of the account
  FaultKinds,  \* "crash"; "stall": a live claim outlives its lease; "db": a statement
               \* fails; "conflict": a turn loses its version twice
  MaxFaults    \* bound on the faults in a behaviour

ASSUME JobsAssumption == Jobs \subseteq Nat \ {0} /\ Sender \in [Jobs -> Senders]
ASSUME BoundsAssumption == MaxAttempts \in Nat \ {0} /\ MaxChanges \in Nat /\ MaxFaults \in Nat
ASSUME FaultsAssumption == FaultKinds \subseteq {"crash", "stall", "db", "conflict"}

VARIABLES
  row,       \* the job table
  loop,      \* tick() of every process
  committed, \* what the conversation holds for a message: "none", "silent" or "reply"
  delivered, \* how often Meta has accepted the answer to a message
  linked,    \* the stored answer carries Meta's message id
  human,     \* per sender: a person has the conversation (HUMAN_ACTIVE)
  closed,    \* the account may not answer
  changes, faults

vars == <<row, loop, committed, delivered, linked, human, closed, changes, faults>>

NoJob == 0

\* text, the responseText: null, empty ("silent"), the engine's answer ("reply"), or its
\* request to send the message again ("resend").
AbsentRow == [status |-> "ABSENT", attempts |-> 0, expired |-> FALSE, ready |-> TRUE, text |-> "null"]

\* pc: the step of tick() that comes next; lost: ownershipLost; sent: sendStarted; account,
\* owner: the number of changes when each was last looked at.
IdleLoop == [pc |-> "idle", job |-> NoJob, attempt |-> 0, lost |-> FALSE, text |-> "null",
             sent |-> FALSE, account |-> 0, owner |-> 0]

Init ==
  /\ row = [j \in Jobs |-> AbsentRow]
  /\ loop = [p \in Processes |-> IdleLoop]
  /\ committed = [j \in Jobs |-> "none"]
  /\ delivered = [j \in Jobs |-> 0]
  /\ linked = [j \in Jobs |-> FALSE]
  /\ human = [c \in Senders |-> 0]
  /\ closed = 0 /\ changes = 0 /\ faults = 0

-----------------------------------------------------------------------------
(* Helpers *)

Same(j) == {i \in Jobs : Sender[i] = Sender[j]}
Customer(p) == Sender[loop[p].job]
Live == {"PENDING", "PROCESSING", "SENDING"}

Fault(kind) == kind \in FaultKinds /\ faults < MaxFaults /\ faults' = faults + 1
Goto(p, pc) == loop' = [loop EXCEPT ![p].pc = pc]
Idle(p) == loop' = [loop EXCEPT ![p] = IdleLoop]

\* The fence of updateOwned, apart from the status it asks for.
Owns(p) ==
  LET r == row[loop[p].job] IN ~loop[p].lost /\ r.attempts = loop[p].attempt /\ ~r.expired

\* updateOwned: the write w of a row in the given status, then `next`; else `otherwise`.
UpdateOwned(p, status, w, next, otherwise) ==
  IF Owns(p) /\ row[loop[p].job].status = status
  THEN row' = [row EXCEPT ![loop[p].job] = w] /\ next
  ELSE UNCHANGED row /\ otherwise

\* What the catch block writes for a claim: after the SENDING mark nothing is tried again.
Failed(p) ==
  [row[loop[p].job] EXCEPT
     !.status = IF loop[p].sent \/ loop[p].attempt >= MaxAttempts THEN "FAILED" ELSE "PENDING",
     !.expired = FALSE, !.ready = FALSE]

-----------------------------------------------------------------------------
(* The webhook, the people and the clock *)

\* ingest: a repeated message is skipped by its unique id, hence a stutter.
Receive(j) ==
  /\ row[j].status = "ABSENT"
  /\ \A i \in Same(j) : i < j => row[i].status # "ABSENT"
  /\ closed = 0
  /\ row' = [row EXCEPT ![j].status = "PENDING"]
  /\ UNCHANGED <<loop, committed, delivered, linked, human, closed, changes, faults>>

Change == changes < MaxChanges /\ changes' = changes + 1

ChangeOwner(c) ==
  /\ Change
  /\ human' = [human EXCEPT ![c] = IF @ = 0 THEN changes' ELSE 0]
  /\ UNCHANGED <<row, loop, committed, delivered, linked, closed, faults>>

ChangeAccount ==
  /\ Change
  /\ closed' = IF closed = 0 THEN changes' ELSE 0
  /\ UNCHANGED <<row, loop, committed, delivered, linked, human, faults>>

BackoffElapses(j) ==
  /\ row[j].status = "PENDING" /\ ~row[j].ready
  /\ row' = [row EXCEPT ![j].ready = TRUE]
  /\ UNCHANGED <<loop, committed, delivered, linked, human, closed, changes, faults>>

\* The heartbeat of the claim renews its lease, unless it has seen the claim lost.
Heartbeating(j) ==
  \E p \in Processes : loop[p].job = j /\ loop[p].attempt = row[j].attempts /\ ~loop[p].lost

LeaseRunsOut(j) ==
  /\ row[j].status \in {"PROCESSING", "SENDING"} /\ ~row[j].expired
  /\ ~Heartbeating(j)
  /\ row' = [row EXCEPT ![j].expired = TRUE]
  /\ UNCHANGED <<loop, committed, delivered, linked, human, closed, changes, faults>>

\* A blocked process does not renew in time.
Stall(j) ==
  /\ row[j].status \in {"PROCESSING", "SENDING"} /\ ~row[j].expired
  /\ Heartbeating(j) /\ Fault("stall")
  /\ row' = [row EXCEPT ![j].expired = TRUE]
  /\ UNCHANGED <<loop, committed, delivered, linked, human, closed, changes>>

-----------------------------------------------------------------------------
(* tick: the sweep and the claim *)

\* Fault: an abandoned send is taken up again.
SweptToPending(r) ==
  IF r.status = "SENDING" /\ r.expired THEN [r EXCEPT !.status = "PENDING", !.expired = FALSE] ELSE r

Swept(r) ==
  IF r.status = "SENDING" /\ r.expired THEN [r EXCEPT !.status = "FAILED", !.expired = FALSE] ELSE r

Sweep(p) ==
  /\ loop[p].pc = "idle"
  /\ row' = [j \in Jobs |-> Swept(row[j])]
  /\ Goto(p, "claiming")
  /\ UNCHANGED <<committed, delivered, linked, human, closed, changes, faults>>

\* Fault: only a claim that still runs holds the sender's later messages back.
ClaimableOutOfOrder(j) ==
  /\ \/ row[j].status = "PENDING" /\ row[j].ready
     \/ row[j].status = "PROCESSING" /\ row[j].expired
  /\ row[j].attempts < MaxAttempts
  /\ \A i \in Same(j) \ {j} : row[i].status \in {"PROCESSING", "SENDING"} => row[i].expired

\* Fault: a claim that has run out is not taken over.
ClaimableWhenPending(j) ==
  /\ row[j].status = "PENDING" /\ row[j].ready
  /\ row[j].attempts < MaxAttempts
  /\ \A i \in Same(j) : i < j => row[i].status \notin Live

Claimable(j) ==
  /\ \/ row[j].status = "PENDING" /\ row[j].ready
     \/ row[j].status = "PROCESSING" /\ row[j].expired
  /\ row[j].attempts < MaxAttempts
  /\ \A i \in Same(j) \ {j} : row[i].status \in {"PROCESSING", "SENDING"} => row[i].expired
  /\ \A i \in Same(j) : i < j => row[i].status \notin Live

Claim(p, j) ==
  /\ loop[p].pc = "claiming"
  /\ Claimable(j) /\ \A i \in Jobs : Claimable(i) => j <= i
  /\ row' = [row EXCEPT ![j].status = "PROCESSING", ![j].attempts = @ + 1, ![j].expired = FALSE]
  /\ loop' = [loop EXCEPT ![p] = [IdleLoop EXCEPT !.pc = "scoping", !.job = j,
                                    !.attempt = row[j].attempts + 1, !.text = row[j].text]]
  /\ UNCHANGED <<committed, delivered, linked, human, closed, changes, faults>>

ClaimNothing(p) ==
  /\ loop[p].pc = "claiming"
  /\ \A j \in Jobs : ~Claimable(j)
  /\ Idle(p)
  /\ UNCHANGED <<row, committed, delivered, linked, human, closed, changes, faults>>

\* A renewal that finds the claim gone, or fails, marks the lease as lost.
Heartbeat(p) ==
  /\ loop[p].job # NoJob /\ ~loop[p].lost
  /\ IF Owns(p) /\ row[loop[p].job].status \in {"PROCESSING", "SENDING"}
     THEN Fault("db") ELSE UNCHANGED faults
  /\ loop' = [loop EXCEPT ![p].lost = TRUE]
  /\ UNCHANGED <<row, committed, delivered, linked, human, closed, changes>>

-----------------------------------------------------------------------------
(* tick: a claimed job *)

\* The claimed row is out of scope: it is skipped.
ReadScope(p) ==
  /\ loop[p].pc = "scoping"
  /\ Goto(p, IF closed # 0 THEN "skipping"
             ELSE IF loop[p].text = "null" THEN "asking"
             ELSE IF loop[p].text = "silent" THEN "completing" ELSE "checking")
  /\ UNCHANGED <<row, committed, delivered, linked, human, closed, changes, faults>>

Skip(p) ==
  /\ loop[p].pc = "skipping"
  /\ UpdateOwned(p, "PROCESSING", [row[loop[p].job] EXCEPT !.status = "SKIPPED"], TRUE, TRUE)
  /\ Idle(p)
  /\ UNCHANGED <<committed, delivered, linked, human, closed, changes, faults>>

ReadOwner(p) ==
  /\ loop[p].pc = "asking"
  /\ Goto(p, IF human[Customer(p)] # 0 THEN "recording" ELSE "turning")
  /\ UNCHANGED <<row, committed, delivered, linked, human, closed, changes, faults>>

\* recordInboundMessage stores the message unless it is stored already.
Record(p) ==
  /\ loop[p].pc = "recording"
  /\ committed' = [committed EXCEPT ![loop[p].job] = IF @ = "none" THEN "silent" ELSE @]
  /\ loop' = [loop EXCEPT ![p].pc = "saving", ![p].text = "silent"]
  /\ UNCHANGED <<row, delivered, linked, human, closed, changes, faults>>

\* handleMessage returns what an earlier turn of the message has committed; it only stores
\* the message for a person who has the conversation; after two version conflicts it asks
\* the customer to write again and commits nothing.
Turn(p) ==
  LET j == loop[p].job IN
    /\ loop[p].pc = "turning"
    /\ \E t \in {"silent", "reply", "resend"} :
         /\ IF t = "resend"
            THEN committed[j] = "none" /\ human[Customer(p)] = 0 /\ Fault("conflict") /\ UNCHANGED committed
            ELSE /\ committed[j] # "none" => t = committed[j]
                 /\ committed[j] = "none" /\ human[Customer(p)] # 0 => t = "silent"
                 /\ committed' = [committed EXCEPT ![j] = t]
                 /\ UNCHANGED faults
         /\ loop' = [loop EXCEPT ![p].pc = "saving", ![p].text = t]
    /\ UNCHANGED <<row, delivered, linked, human, closed, changes>>

\* The budget refuses the turn: no allowance, or the message was reserved by an attempt
\* that never ended.  The response is empty, also of a turn that was committed.
TurnRefused(p) ==
  /\ loop[p].pc = "turning"
  /\ loop' = [loop EXCEPT ![p].pc = "saving", ![p].text = "silent"]
  /\ UNCHANGED <<row, committed, delivered, linked, human, closed, changes, faults>>

Save(p) ==
  /\ loop[p].pc = "saving"
  /\ UpdateOwned(p, "PROCESSING", [row[loop[p].job] EXCEPT !.text = loop[p].text],
       Goto(p, IF loop[p].text = "silent" THEN "completing" ELSE "checking"), Idle(p))
  /\ UNCHANGED <<committed, delivered, linked, human, closed, changes, faults>>

CheckBeforeSending(p) ==
  /\ loop[p].pc = "checking"
  /\ Goto(p, IF closed # 0 \/ human[Customer(p)] # 0 THEN "skipping" ELSE "marking")
  /\ UNCHANGED <<row, committed, delivered, linked, human, closed, changes, faults>>

\* The mark starts a new lease, which `expired` does not tell from the old one.
MarkSending(p) ==
  /\ loop[p].pc = "marking"
  /\ UpdateOwned(p, "PROCESSING", [row[loop[p].job] EXCEPT !.status = "SENDING"],
       loop' = [loop EXCEPT ![p].pc = "token", ![p].sent = TRUE], Idle(p))
  /\ UNCHANGED <<committed, delivered, linked, human, closed, changes, faults>>

-----------------------------------------------------------------------------
(* sendText, and the end of the job *)

\* token: the stored token, or a new one; asking for it or saving it may fail.
ResolveToken(p) ==
  /\ loop[p].pc = "token"
  /\ Goto(p, "account") \/ Goto(p, "failing")
  /\ UNCHANGED <<row, committed, delivered, linked, human, closed, changes, faults>>

CheckAccount(p) ==
  /\ loop[p].pc = "account"
  /\ IF closed = 0 THEN loop' = [loop EXCEPT ![p].pc = "owner", ![p].account = changes]
                   ELSE Goto(p, "failing")
  /\ UNCHANGED <<row, committed, delivered, linked, human, closed, changes, faults>>

\* Fault: the owner is not asked again after the token.
CheckOwnerNoMore(p) ==
  /\ loop[p].pc = "owner"
  /\ loop' = [loop EXCEPT ![p].pc = "posting", ![p].owner = changes]
  /\ UNCHANGED <<row, committed, delivered, linked, human, closed, changes, faults>>

CheckOwner(p) ==
  /\ loop[p].pc = "owner"
  /\ IF human[Customer(p)] = 0 THEN loop' = [loop EXCEPT ![p].pc = "posting", ![p].owner = changes]
                               ELSE Goto(p, "failing")
  /\ UNCHANGED <<row, committed, delivered, linked, human, closed, changes, faults>>

\* Meta accepts the answer, or it does not; its response may be lost either way.
Post(p) ==
  /\ loop[p].pc = "posting"
  /\ \/ /\ delivered' = [delivered EXCEPT ![loop[p].job] = @ + 1]
        /\ Goto(p, "linking") \/ Goto(p, "failing")
     \/ UNCHANGED delivered /\ Goto(p, "failing")
  /\ UNCHANGED <<row, committed, linked, human, closed, changes, faults>>

\* recordOutboundAssistantMessage finds nothing to link for an answer that is not stored.
Link(p) ==
  /\ loop[p].pc = "linking"
  /\ linked' = [linked EXCEPT ![loop[p].job] = (committed[loop[p].job] = "reply")]
  /\ Goto(p, "completing")
  /\ UNCHANGED <<row, committed, delivered, human, closed, changes, faults>>

Complete(p) ==
  /\ loop[p].pc = "completing"
  /\ UpdateOwned(p, IF loop[p].sent THEN "SENDING" ELSE "PROCESSING",
       [row[loop[p].job] EXCEPT !.status = "COMPLETED"], TRUE, TRUE)
  /\ Idle(p)
  /\ UNCHANGED <<committed, delivered, linked, human, closed, changes, faults>>

\* The engine may fail on its own; any other step of the try block only by the database.
Throw(p) ==
  /\ \/ loop[p].pc = "turning" /\ UNCHANGED faults
     \/ /\ loop[p].pc \in {"scoping", "skipping", "asking", "recording", "saving", "checking",
                           "marking", "account", "owner", "linking", "completing"}
        /\ Fault("db")
  /\ Goto(p, "failing")
  /\ UNCHANGED <<row, committed, delivered, linked, human, closed, changes>>

Fail(p) ==
  /\ loop[p].pc = "failing"
  /\ UpdateOwned(p, IF loop[p].sent THEN "SENDING" ELSE "PROCESSING", Failed(p), TRUE, TRUE)
  /\ Idle(p)
  /\ UNCHANGED <<committed, delivered, linked, human, closed, changes, faults>>

\* The process ends.  An error outside the try block does the same: nobody handles the
\* rejected promise of tick().
Crash(p) ==
  /\ \/ loop[p].pc # "idle" /\ Fault("crash")
     \/ loop[p].pc \in {"claiming", "failing"} /\ Fault("db")
  /\ Idle(p)
  /\ UNCHANGED <<row, committed, delivered, linked, human, closed, changes>>

-----------------------------------------------------------------------------
Tick(p) ==
  \/ Sweep(p) \/ (\E j \in Jobs : Claim(p, j)) \/ ClaimNothing(p)
  \/ ReadScope(p) \/ Skip(p) \/ ReadOwner(p) \/ Record(p) \/ Turn(p) \/ TurnRefused(p)
  \/ Save(p) \/ CheckBeforeSending(p) \/ MarkSending(p) \/ ResolveToken(p) \/ CheckAccount(p)
  \/ CheckOwner(p) \/ Post(p) \/ Link(p) \/ Complete(p) \/ Throw(p) \/ Fail(p)

Clock == \E j \in Jobs : BackoffElapses(j) \/ LeaseRunsOut(j)

Next ==
  \/ \E j \in Jobs : Receive(j)
  \/ \E c \in Senders : ChangeOwner(c)
  \/ ChangeAccount
  \/ Clock
  \/ \E j \in Jobs : Stall(j)
  \/ \E p \in Processes : Tick(p) \/ Heartbeat(p) \/ Crash(p)

Spec == Init /\ [][Next]_vars

\* A tick that has begun goes on, the timer starts the next one, and time passes.
FairSpec ==
  /\ Spec
  /\ \A p \in Processes : WF_vars(Tick(p))
  /\ \A j \in Jobs : WF_vars(BackoffElapses(j)) /\ WF_vars(LeaseRunsOut(j))

-----------------------------------------------------------------------------
(* Properties *)

\* Whatever crashes, is taken over or comes late: a customer never gets an answer twice, a
\* job that is retried or skipped has sent nothing, and a completed one has sent the answer
\* it saved, linked if the conversation holds it; a turn without an answer saves an empty one.  ("A send interrupted after reaching Meta has an
\* unknown outcome. Never replay it automatically": tick.)
TruthfulOutcome ==
  \A j \in Jobs :
    /\ delivered[j] <= 1
    /\ row[j].status \in {"PENDING", "PROCESSING", "SKIPPED"} => delivered[j] = 0
    /\ row[j].status = "COMPLETED" =>
         /\ delivered[j] = (IF row[j].text = "silent" THEN 0 ELSE 1)
         /\ row[j].text = "reply" => linked[j]

\* The answers of one customer leave in the order of the messages; only an answer that was
\* written off as unknown, by a worker held up past its lease, may still come late.
AnswersInOrder ==
  [][\A j \in Jobs : delivered'[j] # delivered[j] =>
       row[j].status = "FAILED" \/ \A i \in Same(j) : i > j => delivered[i] = 0]_vars

\* When the request to Meta is made, the account may answer and no person has the
\* conversation, unless that changed after sendText looked: the earlier looks, the saved
\* answer and the token do not count.
HumanIsHeard ==
  \A p \in Processes : loop[p].pc = "posting" =>
    /\ closed = 0 \/ closed > loop[p].account
    /\ human[Customer(p)] = 0 \/ human[Customer(p)] > loop[p].owner

\* A process died in the last attempt of a job: no claim takes it again and no sweep ends it.
Abandoned(j) == row[j].status = "PROCESSING" /\ row[j].attempts = MaxAttempts /\ row[j].expired

\* Every stored message is completed, skipped or failed at last, or stands behind a message
\* of the same customer that was abandoned in its last attempt.
MessagesSettle ==
  \A j \in Jobs :
    row[j].status # "ABSENT" ~>
      row[j].status \in {"COMPLETED", "FAILED", "SKIPPED"} \/ \E i \in Same(j) : i <= j /\ Abandoned(i)
=============================================================================
