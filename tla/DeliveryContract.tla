-------------------------- MODULE DeliveryContract --------------------------
(***************************************************************************)
(* What the inbound queue promises of the answer to one message, without    *)
(* leases, workers or retries: the answer goes out at most once, a verdict  *)
(* is given once and for good, and every verdict but "unknown" is the truth *)
(* about what the customer received.  An unknown outcome stays open to a    *)
(* late delivery.  InboundQueue implements this specification.              *)
(***************************************************************************)
EXTENDS Naturals

CONSTANTS
  Jobs,      \* inbound messages
  Ambiguous  \* jobs on a transport that cannot tell a refusal from a lost answer

VARIABLES
  verdict,   \* what is recorded of each job
  delivered  \* how often its answer reached the provider

Verdicts == {"absent", "open", "sent", "silent", "rejected", "unknown"}

Init ==
  /\ verdict = [j \in Jobs |-> "absent"]
  /\ delivered = [j \in Jobs |-> 0]

Accept(j) ==
  /\ verdict[j] = "absent"
  /\ verdict' = [verdict EXCEPT ![j] = "open"]
  /\ UNCHANGED delivered

Deliver(j) ==
  /\ verdict[j] \in {"open", "unknown"} /\ delivered[j] = 0
  /\ delivered' = [delivered EXCEPT ![j] = 1]
  /\ UNCHANGED verdict

\* Which verdicts may be given to a job that was delivered n times.
Truthful(j, v, n) ==
  /\ v \in {"sent", "silent", "rejected", "unknown"}
  /\ v = "sent" => n = 1
  /\ v = "silent" => n = 0
  /\ v = "rejected" /\ j \notin Ambiguous => n = 0

\* The sweep of abandoned sends may conclude several jobs in one statement.
Conclude ==
  /\ verdict' \in [Jobs -> Verdicts]
  /\ \A j \in Jobs : verdict'[j] # verdict[j] =>
        verdict[j] = "open" /\ Truthful(j, verdict'[j], delivered[j])
  /\ UNCHANGED delivered

Next == Conclude \/ \E j \in Jobs : Accept(j) \/ Deliver(j)

Spec == Init /\ [][Next]_<<verdict, delivered>>
=============================================================================
