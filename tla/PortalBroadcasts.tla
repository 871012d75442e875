-------------------------- MODULE PortalBroadcasts --------------------------
(***************************************************************************)
(* Template broadcasts of one portal account (PortalBroadcasts.ts): drafts    *)
(* checked against the plan and the consents, the administrator's review,  *)
(* cancellation, and the senders, one per worker process, that take           *)
(* recipients under a two-minute lease.  Customers give consent by an import  *)
(* of the merchant and withdraw it by a STOP message, which the inbound       *)
(* worker shows to handleInbound (bootstrap.ts).                              *)
(*                                                                           *)
(* There is one template, whose status at Meta changes freely.               *)
(* `access` stands for "the plan includes broadcasts and the administrator's  *)
(* switch is on".  A lease is "live", "past" or "none"; a send takes less     *)
(* than a lease unless the process is held up (the fault "stall").            *)
(***************************************************************************)
EXTENDS FiniteSets, Integers

CONSTANTS
  Broadcasts,     \* the broadcasts a merchant may create
  Customers,
  Senders,        \* processes with a running sender
  NeedsApproval,  \* BROADCAST_REQUIRE_APPROVAL
  MaxTries,       \* sends of one recipient before a retryable error is final
  Subscribed,     \* customers already opted in; the others have no "Customer" row
  MaxChanges,     \* bound on the changes of access and template
  FaultKinds, MaxFaults

ASSUME TriesAssumption == MaxTries \in Nat \ {0}
ASSUME ChangesAssumption == MaxChanges \in Nat
ASSUME FaultAssumption == MaxFaults \in Nat /\ FaultKinds \subseteq {"crash", "stall", "lost", "db"}
ASSUME SendersAssumption == IsFiniteSet(Senders)
ASSUME PeopleAssumption == NeedsApproval \in BOOLEAN /\ Subscribed \subseteq Customers

VARIABLES
  known,      \* customers with a row
  consent,    \* "MarketingConsent" of each customer
  stopping,   \* customers whose STOP is between its two statements
  stopped,    \* customers whose STOP the worker has passed on and gone beyond
  template,   \* the template's status, as last synchronised
  access,     \* the plan module and the switch
  changes,    \* how often the two have changed
  draft,      \* create and review: what each has read so far
  broadcast,  \* the broadcast rows' status
  skipping,   \* broadcasts cancelled or rejected whose recipients are not yet skipped
  recipient,  \* the recipient rows
  sender,
  accepted,   \* messages the provider has accepted, per recipient
  late,       \* those accepted after the customer's opt-out was recorded
  faults

people == <<known, consent, stopping, stopped>>
office == <<template, access, changes, draft, skipping>>
rows == <<broadcast, recipient>>
ghosts == <<accepted, late>>
vars == <<people, office, rows, sender, ghosts, faults>>

Recipients == Broadcasts \X Customers
NoJob == <<>>
Statuses == {"NONE", "PENDING_APPROVAL", "SENDING", "COMPLETED", "CANCELLED", "REJECTED"}
Unfinished == {"PENDING_APPROVAL", "SENDING"}
NoDraft == [pc |-> "none", chosen |-> {}]
IdleSender == [pc |-> "idle", job |-> NoJob, tries |-> 0, approved |-> FALSE, outcome |-> "none"]
NoRow == [status |-> "NONE", lease |-> "none", attempts |-> 0]

Init ==
  /\ known = Subscribed
  /\ consent = [c \in Customers |-> IF c \in Subscribed THEN "OPTED_IN" ELSE "NONE"]
  /\ stopping = {} /\ stopped = {}
  /\ template = "APPROVED" /\ access = TRUE /\ changes = 0
  /\ draft = [b \in Broadcasts |-> NoDraft]
  /\ broadcast = [b \in Broadcasts |-> "NONE"]
  /\ skipping = {}
  /\ recipient = [r \in Recipients |-> NoRow]
  /\ sender = [s \in Senders |-> IdleSender]
  /\ accepted = [r \in Recipients |-> 0]
  /\ late = [c \in Customers |-> 0]
  /\ faults = 0

Fault(kind) == kind \in FaultKinds /\ faults < MaxFaults /\ faults' = faults + 1

OptedIn == {c \in Customers : consent[c] = "OPTED_IN"}

\* UPDATE "BroadcastRecipient" SET status='SKIPPED' ... WHERE status='PENDING'
Skipped(set) ==
  [r \in Recipients |-> IF r \in set /\ recipient[r].status = "PENDING"
                        THEN [recipient[r] EXCEPT !.status = "SKIPPED"] ELSE recipient[r]]
OfBroadcasts(set) == {r \in Recipients : r[1] \in set}
OfCustomer(c) == {r \in Recipients : r[2] = c}

-----------------------------------------------------------------------------
(* Customers and consent *)

\* One phone of importConsent: an opt-out stays.
ImportConsent(c) ==
  /\ known' = known \cup {c}
  /\ consent' = [consent EXCEPT ![c] = IF @ = "OPTED_OUT" THEN @ ELSE "OPTED_IN"]
  /\ UNCHANGED <<stopping, stopped, office, rows, sender, ghosts, faults>>

\* handleInbound sees a STOP: nothing without a row, else setConsent.
HandleStop(c) ==
  /\ c \notin stopped \cup stopping
  /\ IF c \in known
     THEN /\ consent' = [consent EXCEPT ![c] = "OPTED_OUT"]
          /\ stopping' = stopping \cup {c} /\ stopped' = stopped
     ELSE stopped' = stopped \cup {c} /\ UNCHANGED <<consent, stopping>>
  /\ UNCHANGED <<known, office, rows, sender, ghosts, faults>>

SkipStopped(c) ==
  /\ c \in stopping
  /\ recipient' = Skipped(OfCustomer(c))
  /\ stopping' = stopping \ {c} /\ stopped' = stopped \cup {c}
  /\ UNCHANGED <<known, consent, office, broadcast, sender, ghosts, faults>>

\* A statement of handleInbound fails: the worker logs a warning and goes on.
StopFails(c) ==
  /\ c \notin stopped
  /\ Fault("db")
  /\ stopping' = stopping \ {c} /\ stopped' = stopped \cup {c}
  /\ UNCHANGED <<known, consent, office, rows, sender, ghosts>>

-----------------------------------------------------------------------------
(* Creating a broadcast *)

\* requireAccess, after the template check.  The monthly allowance that it reads is left
\* out: it takes two creations at once to overdraw it.
ReadAccess(b) ==
  /\ draft[b].pc = "none" /\ broadcast[b] = "NONE"
  /\ template = "APPROVED" /\ access
  /\ draft' = [draft EXCEPT ![b].pc = "allowed"]
  /\ UNCHANGED <<people, template, access, changes, skipping, rows, sender, ghosts, faults>>

\* estimate counts the audience; an empty one ends the request.
Estimate(b) ==
  /\ draft[b].pc = "allowed"
  /\ draft' = [draft EXCEPT ![b].pc = IF template = "APPROVED" /\ OptedIn # {} THEN "sized" ELSE "none"]
  /\ UNCHANGED <<people, template, access, changes, skipping, rows, sender, ghosts, faults>>

SelectAudience(b) ==
  /\ draft[b].pc = "sized"
  /\ draft' = [draft EXCEPT ![b] = [NoDraft EXCEPT !.pc = "selected", !.chosen = OptedIn]]
  /\ UNCHANGED <<people, template, access, changes, skipping, rows, sender, ghosts, faults>>

\* The transaction of create.
Create(b) ==
  /\ draft[b].pc = "selected"
  /\ broadcast' = [broadcast EXCEPT ![b] = IF NeedsApproval THEN "PENDING_APPROVAL" ELSE "SENDING"]
  /\ recipient' = [r \in Recipients |-> IF r[1] = b /\ r[2] \in draft[b].chosen
                                        THEN [NoRow EXCEPT !.status = "PENDING"] ELSE recipient[r]]
  /\ draft' = [draft EXCEPT ![b] = NoDraft]
  /\ UNCHANGED <<people, template, access, changes, skipping, sender, ghosts, faults>>

-----------------------------------------------------------------------------
(* Review, cancellation and revocation *)

\* review(approve) asks for access first and updates the row after.
CheckApproval(b) ==
  /\ broadcast[b] = "PENDING_APPROVAL" /\ draft[b].pc = "none" /\ access
  /\ draft' = [draft EXCEPT ![b].pc = "approving"]
  /\ UNCHANGED <<people, template, access, changes, skipping, rows, sender, ghosts, faults>>

Approve(b) ==
  /\ draft[b].pc = "approving"
  /\ broadcast' = [broadcast EXCEPT ![b] = IF @ = "PENDING_APPROVAL" THEN "SENDING" ELSE @]
  /\ draft' = [draft EXCEPT ![b] = NoDraft]
  /\ UNCHANGED <<people, template, access, changes, skipping, recipient, sender, ghosts, faults>>

\* review(reject) and cancel: the row first, its recipients in a second statement.
RejectOrCancel(b, status) ==
  /\ broadcast[b] \in (IF status = "REJECTED" THEN {"PENDING_APPROVAL"} ELSE Unfinished)
  /\ broadcast' = [broadcast EXCEPT ![b] = status]
  /\ skipping' = skipping \cup {b}
  /\ UNCHANGED <<people, template, access, changes, draft, recipient, sender, ghosts, faults>>

SkipRecipients(b) ==
  /\ b \in skipping
  /\ recipient' = Skipped(OfBroadcasts({b}))
  /\ skipping' = skipping \ {b}
  /\ UNCHANGED <<people, template, access, changes, draft, broadcast, sender, ghosts, faults>>

\* setBroadcastsAllowed(false), or a plan without broadcasts: stopBroadcasts in the same
\* transaction.  Turning them on again changes nothing else.
SetAccess(allowed) ==
  LET stop == {b \in Broadcasts : broadcast[b] \in Unfinished} IN
    /\ access # allowed /\ changes < MaxChanges
    /\ changes' = changes + 1
    /\ access' = allowed
    /\ IF allowed THEN UNCHANGED <<recipient, broadcast>>
       ELSE /\ recipient' = Skipped(OfBroadcasts(stop))
            /\ broadcast' = [b \in Broadcasts |-> IF b \in stop THEN "CANCELLED" ELSE broadcast[b]]
    /\ UNCHANGED <<people, template, draft, skipping, sender, ghosts, faults>>

\* Meta's review of the template, brought in by syncTemplates.
SyncTemplates(status) ==
  /\ template # status /\ changes < MaxChanges
  /\ changes' = changes + 1
  /\ template' = status
  /\ UNCHANGED <<people, access, draft, skipping, rows, sender, ghosts, faults>>

-----------------------------------------------------------------------------
(* The sender: tick *)

Goto(s, pc) == sender' = [sender EXCEPT ![s] = [IdleSender EXCEPT !.pc = pc]]

\* Fault: whatever their lease.
SweepEarly(s) ==
  /\ sender[s].pc = "idle"
  /\ recipient' = [r \in Recipients |-> IF recipient[r].status = "SENDING"
                     THEN [recipient[r] EXCEPT !.status = "PENDING", !.lease = "none"]
                     ELSE recipient[r]]
  /\ Goto(s, "claim")
  /\ UNCHANGED <<people, office, broadcast, ghosts, faults>>

\* Fault: nothing is recovered.
SweepNothing(s) ==
  /\ sender[s].pc = "idle"
  /\ Goto(s, "claim")
  /\ UNCHANGED <<people, office, rows, ghosts, faults>>

\* Recipients whose sender's lease has run out become PENDING again.
Sweep(s) ==
  /\ sender[s].pc = "idle"
  /\ recipient' = [r \in Recipients |->
                     IF recipient[r].status = "SENDING" /\ recipient[r].lease = "past"
                     THEN [recipient[r] EXCEPT !.status = "PENDING", !.lease = "none"]
                     ELSE recipient[r]]
  /\ Goto(s, "claim")
  /\ UNCHANGED <<people, office, broadcast, ghosts, faults>>

Claimable(r) ==
  /\ recipient[r].status = "PENDING" /\ broadcast[r[1]] = "SENDING"
  /\ recipient[r].lease # "live"

\* The oldest broadcast comes first in the code; here any may.
Claim(s, r) ==
  /\ sender[s].pc = "claim" /\ Claimable(r)
  /\ recipient' = [recipient EXCEPT ![r] = [status |-> "SENDING", lease |-> "live",
                                            attempts |-> @.attempts + 1]]
  /\ sender' = [sender EXCEPT ![s] = [pc |-> "check", job |-> r, tries |-> recipient[r].attempts + 1,
                                      approved |-> template = "APPROVED", outcome |-> "none"]]
  /\ UNCHANGED <<people, office, broadcast, ghosts, faults>>

\* Fault: consent is not asked again before the send.
TrustAudience(s) ==
  /\ sender[s].pc = "check"
  /\ sender' = [sender EXCEPT ![s].pc = IF sender[s].approved THEN "send" ELSE "finish",
                              ![s].outcome = IF sender[s].approved THEN "none" ELSE "FAILED",
                              ![s].approved = FALSE]
  /\ UNCHANGED <<people, office, rows, ghosts, faults>>

\* Consent as it is now, the template as it was at the claim.
CheckConsent(s) ==
  LET verdict == CASE consent[sender[s].job[2]] # "OPTED_IN" -> "SKIPPED"
                   [] ~sender[s].approved -> "FAILED"
                   [] OTHER -> "none"
  IN /\ sender[s].pc = "check"
     /\ sender' = [sender EXCEPT ![s].pc = IF verdict = "none" THEN "send" ELSE "finish",
                                 ![s].outcome = verdict, ![s].approved = FALSE]
     /\ UNCHANGED <<people, office, rows, ghosts, faults>>

AfterSend(s, outcome) == sender' = [sender EXCEPT ![s].pc = "finish", ![s].outcome = outcome]

\* The provider accepts; `lost`: its answer does not arrive, which is retryable.
SendAccepted(s, lost) ==
  LET r == sender[s].job IN
    /\ sender[s].pc = "send"
    /\ IF lost THEN Fault("lost") ELSE faults' = faults
    /\ accepted' = [accepted EXCEPT ![r] = @ + 1]
    /\ late' = [late EXCEPT ![r[2]] = @ + (IF consent[r[2]] = "OPTED_OUT" THEN 1 ELSE 0)]
    /\ AfterSend(s, IF lost THEN "retryable" ELSE "SENT")
    /\ UNCHANGED <<people, office, rows>>

SendRefused(s, outcome) ==
  /\ sender[s].pc = "send" /\ outcome \in {"retryable", "FAILED"}
  /\ AfterSend(s, outcome)
  /\ UNCHANGED <<people, office, rows, ghosts, faults>>

Retry(s) == sender[s].outcome = "retryable" /\ sender[s].tries < MaxTries

\* finish, or the retry, by id alone.
Finish(s) ==
  LET r == sender[s].job
      status == IF Retry(s) THEN "PENDING"
                ELSE IF sender[s].outcome = "retryable" THEN "FAILED" ELSE sender[s].outcome
  IN /\ sender[s].pc = "finish"
     /\ recipient' = [recipient EXCEPT ![r].status = status,
                                       ![r].lease = IF Retry(s) THEN "live" ELSE "none"]
     /\ Goto(s, "claim")
     /\ UNCHANGED <<people, office, broadcast, ghosts, faults>>

Open(b) == \E r \in OfBroadcasts({b}) : recipient[r].status \in {"PENDING", "SENDING"}

\* Fault: a broadcast is complete once nobody waits for a send.
CompleteTooEarly(s) ==
  /\ sender[s].pc = "claim"
  /\ ~\E r \in Recipients : Claimable(r)
  /\ broadcast' = [b \in Broadcasts |->
       IF broadcast[b] = "SENDING" /\ ~\E r \in OfBroadcasts({b}) : recipient[r].status = "PENDING"
       THEN "COMPLETED" ELSE broadcast[b]]
  /\ Goto(s, "idle")
  /\ UNCHANGED <<people, office, recipient, ghosts, faults>>

\* No recipient is left for this tick, whose batch is longer than the queue.
Complete(s) ==
  /\ sender[s].pc = "claim"
  /\ ~\E r \in Recipients : Claimable(r)
  /\ broadcast' = [b \in Broadcasts |-> IF broadcast[b] = "SENDING" /\ ~Open(b)
                                        THEN "COMPLETED" ELSE broadcast[b]]
  /\ Goto(s, "idle")
  /\ UNCHANGED <<people, office, recipient, ghosts, faults>>

\* The process dies, or a statement of the tick fails: the recipient keeps its lease.
Abort(s) ==
  /\ sender[s].pc # "idle"
  /\ Fault("crash")
  /\ Goto(s, "idle")
  /\ UNCHANGED <<people, office, rows, ghosts>>

InHand(r) == \E s \in Senders : sender[s].job = r

\* A wait of a retry or the lease of an aborted send ends; a running send outlives it
\* only when its process is held up.
LeaseRunsOut(r) ==
  /\ recipient[r].lease = "live"
  /\ IF recipient[r].status = "SENDING" /\ InHand(r) THEN Fault("stall") ELSE faults' = faults
  /\ recipient' = [recipient EXCEPT ![r].lease = "past"]
  /\ UNCHANGED <<people, office, broadcast, sender, ghosts>>

-----------------------------------------------------------------------------
SenderStep(s) ==
  \/ Sweep(s) \/ CheckConsent(s) \/ Finish(s) \/ Complete(s)
  \/ \E r \in Recipients : Claim(s, r)
  \/ \E lost \in BOOLEAN : SendAccepted(s, lost)
  \/ \E outcome \in {"retryable", "FAILED"} : SendRefused(s, outcome)

Next ==
  \/ \E c \in Customers : ImportConsent(c) \/ HandleStop(c) \/ SkipStopped(c) \/ StopFails(c)
  \/ \E b \in Broadcasts :
       \/ ReadAccess(b) \/ Estimate(b) \/ SelectAudience(b) \/ Create(b)
       \/ CheckApproval(b) \/ Approve(b) \/ SkipRecipients(b)
       \/ \E status \in {"REJECTED", "CANCELLED"} : RejectOrCancel(b, status)
  \/ \E allowed \in BOOLEAN : SetAccess(allowed)
  \/ \E status \in {"APPROVED", "PAUSED"} : SyncTemplates(status)
  \/ \E s \in Senders : SenderStep(s) \/ Abort(s)
  \/ \E r \in Recipients : LeaseRunsOut(r)

Spec == Init /\ [][Next]_vars

\* The interval of tick, the leases' clock.
FairSpec ==
  /\ Spec
  /\ \A s \in Senders : WF_vars(SenderStep(s))
  /\ \A r \in Recipients : WF_vars(LeaseRunsOut(r) /\ ~InHand(r))

-----------------------------------------------------------------------------
(* Properties *)

\* Once a customer's opt-out is recorded, only the sends that had asked before go out: one
\* per process at most, whatever is retried, recovered or created after it
\* (PortalBroadcasts.ts:54-55).
OptOutIsRespected == \A c \in Customers : late[c] <= Cardinality(Senders)

\* The messages too many: the second to a recipient, the third, and so on.
Repeats == UNION {{r} \X (2..accepted[r]) : r \in Recipients}
\* A customer gets a broadcast once; each message too many takes a crash, a lost answer or
\* a process held up past its lease (the lease of tick).
DuplicatesNeedFaults == Cardinality(Repeats) <= faults

\* A completed broadcast waits for nobody, and in a cancelled or rejected one only a
\* recipient that a sender had already taken is left open: it was sent to after the
\* cancellation, or it is the retry that stays PENDING for good.
FinishedIsFinished ==
  faults = 0 => \A b \in Broadcasts :
    /\ broadcast[b] = "COMPLETED" => ~Open(b)
    /\ broadcast[b] \in {"CANCELLED", "REJECTED"} /\ b \notin skipping =>
         \A r \in OfBroadcasts({b}) : recipient[r].status = "PENDING" => recipient[r].attempts > 0

\* A broadcast that is being sent ends, through refusals, retries and crashes.
EveryBroadcastEnds ==
  \A b \in Broadcasts : broadcast[b] = "SENDING" ~> broadcast[b] \in {"COMPLETED", "CANCELLED"}
=============================================================================
