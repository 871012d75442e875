----------------------------- MODULE HumanHandoff -----------------------------
(***************************************************************************)
(* Who answers a customer: the assistant or a person.                        *)
(*                                                                           *)
(* Ownership lives in two rows per conversation, "Conversation" and          *)
(* "ConversationAutomationState" (ConversationAutomationService.ts).  Every  *)
(* transition locks the conversation row and writes both in a transaction,   *)
(* so it is one action here.  The readers take no lock: the safety guard     *)
(* (ClientSafetyGuard.ts) and the engine (ConversationEngine.ts) read rows   *)
(* one after another, and each read is a step.  A worker                     *)
(* (WhatsAppWorker.ts) takes a message through gate 1, the engine's turn,    *)
(* gate 2 and the send.                                                      *)
(*                                                                           *)
(* One customer of one account is modelled; conversations are numbered in    *)
(* the order of createdAt and messages in the order of arrival.  `pause` is  *)
(* pausedUntil: none, in the future, or over.  The guard's other checks      *)
(* (numbers, tenant pause, breaker, rate limit) let the message pass.        *)
(***************************************************************************)
EXTENDS Naturals

CONSTANTS
  Conversations, \* bound on the conversations the customer may get
  Messages,      \* the customer's messages
  Workers,       \* calls of processJob
  People,        \* merchants and administrators
  NoOne,
  MaxActs,       \* bound on the actions of people
  MaxAttempts,   \* the job's maxAttempts
  MaxCrashes     \* bound on crashes

ASSUME NumbersAssumption ==
  /\ Conversations \subseteq Nat \ {0}
  /\ Messages \subseteq Nat \ {0}
ASSUME PeopleAssumption == NoOne \notin People
ASSUME BoundsAssumption == MaxActs \in Nat /\ MaxAttempts \in Nat \ {0} /\ MaxCrashes \in Nat

VARIABLES
  conv,    \* the conversation rows
  auto,    \* the automation-state rows
  message, \* the customer's messages: the inbound job and the rows stored for it
  turn,    \* the calls of processJob
  watch,   \* what was true of the conversations during a gate (history)
  acts, crashes

vars == <<conv, auto, message, turn, watch, acts, crashes>>

None == 0
Statuses == {"ABSENT", "ACTIVE", "HANDOFF_REQUESTED", "HUMAN_ACTIVE", "RESOLVED", "COMPLETED"}
Conversation == [status: Statuses, requested: BOOLEAN, capped: BOOLEAN,
                 owner: People \cup {NoOne}, version: Nat]
AutomationState == [takeover: BOOLEAN, enabled: BOOLEAN,
                    pause: {"none", "running", "over"},
                    reason: {"none", "HANDOFF_REQUESTED", "WORKFLOW_HANDOFF"}]

\* A missing automation row is read like one that allows everything.
FreshState == [takeover |-> FALSE, enabled |-> TRUE, pause |-> "none", reason |-> "none"]
FreshConversation == [status |-> "ACTIVE", requested |-> FALSE, capped |-> FALSE,
                      owner |-> NoOne, version |-> 0]

\* place: the conversation its USER row is in; reply: the ASSISTANT row that answers it.
Outcomes == {"absent", "waiting", "taken", "sent", "blocked", "recorded", "silent", "failed",
             "unknown"}
Message == [place: Conversations \cup {None}, reply: {"none", "answer", "handoff"},
            outcome: Outcomes, attempts: Nat]

\* gate 0 is the engine, which uses the release of an expired pause as the gates do.
Pcs == {"idle", "target", "rows", "expired", "release", "denied", "record", "load", "state",
        "answer", "send"}
Turn == [pc: Pcs, msg: Messages \cup {None}, gate: {0, 1, 2},
         target: Conversations \cup {None}, read: SUBSET {"conv", "auto"},
         seen: Conversation, state: AutomationState, retried: BOOLEAN]
Idle == [pc |-> "idle", msg |-> None, gate |-> 0, target |-> None, read |-> {},
         seen |-> FreshConversation, state |-> FreshState, retried |-> FALSE]

Init ==
  /\ conv = [c \in Conversations |-> [FreshConversation EXCEPT !.status = "ABSENT"]]
  /\ auto = [c \in Conversations |-> FreshState]
  /\ message = [m \in Messages |->
       [place |-> None, reply |-> "none", outcome |-> "absent", attempts |-> 0]]
  /\ turn = [w \in Workers |-> Idle]
  /\ watch = [w \in Workers |-> {}]
  /\ acts = 0 /\ crashes = 0

-----------------------------------------------------------------------------
GatePcs == {"target", "rows", "expired", "release", "denied"}
Held(c) == conv[c].status = "HUMAN_ACTIVE"

\* What a worker's current gate could have seen: the statuses its conversation had.  Part of
\* every action; the program has no such variable.
Observed(w) ==
  LET c == turn'[w].target
      now == IF c = None THEN {} ELSE {conv'[c].status} IN
    IF turn'[w].pc \notin GatePcs \cup {"send"} \/ turn'[w].gate = 0
      THEN {}
    ELSE IF turn[w].pc = "target"
      THEN now
    ELSE IF turn[w].pc \in GatePcs
      THEN watch[w] \cup now
    ELSE watch[w]
Watch == watch' = [w \in Workers |-> Observed(w)]

-----------------------------------------------------------------------------
(* People: transactions that lock the conversation row *)

\* A person's transaction writes both rows of c.
Transition(c, row, state) ==
  /\ conv[c].status # "ABSENT" /\ acts < MaxActs
  /\ conv' = [conv EXCEPT ![c] = [row EXCEPT !.version = conv[c].version + 1]]
  /\ auto' = [auto EXCEPT ![c] = state]
  /\ acts' = acts + 1
  /\ UNCHANGED <<message, turn, crashes>> /\ Watch

\* takeover() asks neither who owns the conversation nor what its status is, and
\* leaves the pause and its reason behind.
Takeover(p, c) ==
  Transition(c, [conv[c] EXCEPT !.status = "HUMAN_ACTIVE", !.requested = TRUE, !.owner = p],
                [auto[c] EXCEPT !.takeover = TRUE, !.enabled = FALSE])

Resolve(c) ==
  Transition(c, [conv[c] EXCEPT !.status = "RESOLVED", !.requested = FALSE, !.owner = NoOne],
                FreshState)

Reopen(c) ==
  Transition(c, [conv[c] EXCEPT !.status = "ACTIVE", !.requested = FALSE, !.owner = NoOne,
                                !.capped = FALSE],
                FreshState)

\* portalTriage(): an administrator claims, releases or resolves a pending handoff.
Pending(c) == conv[c].requested /\ conv[c].status \in {"HANDOFF_REQUESTED", "HUMAN_ACTIVE"}

Claim(p, c) ==
  /\ Pending(c) /\ conv[c].owner \in {p, NoOne}
  /\ Transition(c, [conv[c] EXCEPT !.status = "HUMAN_ACTIVE", !.owner = p],
                   [auto[c] EXCEPT !.takeover = TRUE, !.enabled = FALSE, !.reason = "none"])

Release(p, c) ==
  /\ Pending(c) /\ conv[c].owner = p
  /\ Transition(c, [conv[c] EXCEPT !.status = "HANDOFF_REQUESTED", !.owner = NoOne],
                   [auto[c] EXCEPT !.takeover = FALSE, !.enabled = FALSE,
                                   !.reason = "HANDOFF_REQUESTED"])

TriageResolve(p, c) ==
  /\ Pending(c) /\ conv[c].owner = p
  /\ Transition(c, [conv[c] EXCEPT !.status = "ACTIVE", !.requested = FALSE, !.owner = NoOne,
                                   !.capped = FALSE],
                   FreshState)

PauseRunsOut(c) ==
  /\ auto[c].pause = "running"
  /\ auto' = [auto EXCEPT ![c].pause = "over"]
  /\ UNCHANGED <<conv, message, turn, acts, crashes>> /\ Watch

-----------------------------------------------------------------------------
(* The job *)

CustomerWrites(m) ==
  /\ message[m].outcome = "absent"
  /\ \A n \in Messages : n < m => message[n].outcome # "absent"
  /\ message' = [message EXCEPT ![m].outcome = "waiting"]
  /\ UNCHANGED <<conv, auto, turn, acts, crashes>> /\ Watch

GoTo(w, pc) == turn' = [turn EXCEPT ![w].pc = pc]

\* What a gate or a turn has read is dropped when it ends.
Continue(w, pc, gate) ==
  turn' = [turn EXCEPT ![w] = [Idle EXCEPT !.pc = pc, !.gate = gate, !.msg = turn[w].msg,
                                           !.target = turn[w].target]]

Take(w) ==
  /\ turn[w].pc = "idle"
  /\ \E m \in Messages :
       /\ message[m].outcome = "waiting"
       /\ \A n \in Messages : n < m => message[n].outcome # "waiting"
       /\ message' = [message EXCEPT ![m].outcome = "taken", ![m].attempts = @ + 1]
       /\ turn' = [turn EXCEPT ![w] = [Idle EXCEPT !.pc = "target", !.gate = 1, !.msg = m]]
  /\ UNCHANGED <<conv, auto, acts, crashes>> /\ Watch

Return(w) == turn' = [turn EXCEPT ![w] = Idle]

Finish(w, outcome) ==
  /\ message' = [message EXCEPT ![turn[w].msg].outcome = outcome]
  /\ Return(w)

\* Fault: a failed job is not put back.
RequeueForgets(w) == UNCHANGED message /\ Return(w)

\* The queue puts a job that failed before its send back until its attempts are used up.
Requeue(w) ==
  Finish(w, IF message[turn[w].msg].attempts < MaxAttempts THEN "waiting" ELSE "failed")

-----------------------------------------------------------------------------
(* evaluateOutbound and mayAutomatedAssistantReply *)

Live == {"ACTIVE", "HANDOFF_REQUESTED", "HUMAN_ACTIVE"}
Newest(c, S) == c \in S /\ \A d \in S : d <= c

\* The guard looks for the newest conversation that is live or resolved; a customer without
\* one may be answered.
Visible == {c \in Conversations : conv[c].status \in Live \cup {"RESOLVED"}}

AfterGate(w) == IF turn[w].gate = 1 THEN "load" ELSE "send"
Pass(w) == Continue(w, AfterGate(w), turn[w].gate)

GateTarget(w) ==
  /\ turn[w].pc = "target"
  /\ \/ /\ Visible = {}
        /\ turn' = [turn EXCEPT ![w] = [turn[w] EXCEPT !.pc = AfterGate(w), !.target = None]]
     \/ \E c \in Conversations :
          /\ Newest(c, Visible)
          /\ turn' = [turn EXCEPT ![w] = [turn[w] EXCEPT !.pc = "rows", !.target = c, !.read = {}]]
  /\ UNCHANGED <<conv, auto, message, acts, crashes>> /\ Watch

\* The two rows are read at the same time, in either order.
GateReadsConversation(w) ==
  /\ turn[w].pc = "rows" /\ "conv" \notin turn[w].read
  /\ turn' = [turn EXCEPT ![w] = [turn[w] EXCEPT !.read = @ \cup {"conv"},
                                                 !.seen = conv[turn[w].target]]]
  /\ UNCHANGED <<conv, auto, message, acts, crashes>> /\ Watch

GateReadsState(w) ==
  /\ turn[w].pc = "rows" /\ "auto" \notin turn[w].read
  /\ turn' = [turn EXCEPT ![w] = [turn[w] EXCEPT !.read = @ \cup {"auto"},
                                                 !.state = auto[turn[w].target]]]
  /\ UNCHANGED <<conv, auto, message, acts, crashes>> /\ Watch

\* Fault: the comparison of pausedUntil with the time is turned round.
PauseIsRunning(state) == ~state.takeover /\ state.pause = "running"

PauseIsOver(state) == ~state.takeover /\ state.pause = "over"

\* Fault: only the automation state is looked at.
MayReplyByState(row, state) == ~state.takeover /\ state.enabled /\ state.pause = "none"

MayReply(row, state) ==
  /\ ~state.takeover /\ state.enabled /\ state.pause = "none"
  /\ row.status = "ACTIVE" /\ ~row.requested

GateDecides(w) ==
  /\ turn[w].pc = "rows" /\ turn[w].read = {"conv", "auto"}
  /\ IF PauseIsOver(turn[w].state) THEN GoTo(w, "expired")
     ELSE IF MayReply(turn[w].seen, turn[w].state) THEN Pass(w)
     ELSE GoTo(w, "denied")
  /\ UNCHANGED <<conv, auto, message, acts, crashes>> /\ Watch

\* A refused message may still be the one whose turn asked for a person: its stored
\* acknowledgment is let through as long as nobody has taken over.
Acknowledges(w) ==
  LET t == turn[w] IN
    /\ conv[t.target].status = "HANDOFF_REQUESTED"
    /\ message[t.msg].reply = "handoff" /\ message[t.msg].place = t.target

GateRefuses(w) ==
  /\ turn[w].pc = "denied"
  /\ IF Acknowledges(w) THEN Pass(w) /\ UNCHANGED message
     ELSE IF turn[w].gate = 1 THEN GoTo(w, "record") /\ UNCHANGED message
     ELSE Finish(w, "blocked")
  /\ UNCHANGED <<conv, auto, acts, crashes>> /\ Watch

-----------------------------------------------------------------------------
(* releaseExpiredWorkflowPause, called by the gates and by the engine *)

GivenBack(row) == [row EXCEPT !.status = "ACTIVE", !.requested = FALSE]
Unpaused(state) == [state EXCEPT !.enabled = TRUE, !.pause = "none", !.reason = "none"]

\* Where its result leads; the engine goes on with its old row, and with its old version.
Released(w) ==
  IF turn[w].gate = 0
  THEN turn' = [turn EXCEPT ![w] = [turn[w] EXCEPT !.pc = "state",
                                                   !.seen = GivenBack(turn[w].seen)]]
  ELSE Pass(w)
NotReleased(w) == GoTo(w, IF turn[w].gate = 0 THEN "state" ELSE "denied")

\* The transaction reads the state row without a lock.
ReleaseReads(w) ==
  LET state == auto[turn[w].target] IN
    /\ turn[w].pc = "expired"
    /\ IF PauseIsOver(state) /\ state.reason = "WORKFLOW_HANDOFF" THEN GoTo(w, "release")
       ELSE NotReleased(w)
    /\ UNCHANGED <<conv, auto, message, acts, crashes>> /\ Watch

\* Fault: the conversation's row is updated whatever its status.
ReleasesAny(c) == TRUE

Releasable(c) == conv[c].status = "HANDOFF_REQUESTED" /\ conv[c].requested

\* Then it updates the conversation if it still waits for a person, and the state with it.
ReleaseWrites(w) ==
  LET c == turn[w].target IN
    /\ turn[w].pc = "release"
    /\ IF Releasable(c)
       THEN /\ conv' = [conv EXCEPT ![c] = [GivenBack(conv[c]) EXCEPT !.version = @ + 1]]
            /\ auto' = [auto EXCEPT ![c] = Unpaused(auto[c])]
            /\ Released(w)
       ELSE NotReleased(w) /\ UNCHANGED <<conv, auto>>
    /\ UNCHANGED <<message, acts, crashes>> /\ Watch

-----------------------------------------------------------------------------
(* The engine's turn *)

\* getOrCreateConversation(): the newest live conversation that is not capped, or a new one.
Usable == {c \in Conversations : conv[c].status \in Live /\ ~conv[c].capped}
NextAbsent(c) ==
  /\ conv[c].status = "ABSENT"
  /\ \A d \in Conversations : d < c => conv[d].status # "ABSENT"

GetOrCreate(c) ==
  \/ Newest(c, Usable) /\ UNCHANGED conv
  \/ Usable = {} /\ NextAbsent(c) /\ conv' = [conv EXCEPT ![c] = FreshConversation]

\* recordInboundMessage(): a refused message is stored without a turn; an upsert leaves a
\* row that exists where it is.
Store(m, c) == [message EXCEPT ![m].place = IF @ = None THEN c ELSE @]

Record(w) ==
  LET m == turn[w].msg IN
    /\ turn[w].pc = "record"
    /\ \E c \in Conversations :
         /\ GetOrCreate(c)
         /\ message' = [Store(m, c) EXCEPT ![m].outcome = "recorded"]
    /\ Return(w)
    /\ UNCHANGED <<auto, acts, crashes>> /\ Watch

\* A message whose turn was stored in this conversation gets the stored answer again.
Load(w) ==
  LET m == turn[w].msg IN
    /\ turn[w].pc = "load"
    /\ \E c \in Conversations :
         /\ GetOrCreate(c)
         /\ \/ /\ message[m].place = c /\ message[m].reply = "none"
               /\ Finish(w, "silent")
            \/ /\ message[m].place = c /\ message[m].reply # "none"
               /\ Continue(w, "target", 2) /\ UNCHANGED message
            \/ /\ message[m].place # c
               /\ turn' = [turn EXCEPT ![w] = [turn[w] EXCEPT
                              !.pc = "expired", !.gate = 0, !.target = c, !.seen = conv'[c]]]
               /\ UNCHANGED message
    /\ UNCHANGED <<auto, acts, crashes>> /\ Watch

\* The engine looks at the state row itself, unless the conversation's row says enough.
EngineReadsState(w) ==
  LET t == turn[w]
      state == auto[t.target]
      humanHandling == \/ t.seen.status = "HUMAN_ACTIVE" \/ t.seen.requested
                       \/ state.takeover \/ ~state.enabled \/ state.pause = "running"
  IN /\ t.pc = "state"
     /\ IF humanHandling
        THEN /\ message' = [Store(t.msg, t.target) EXCEPT ![t.msg].outcome = "silent"]
             /\ Return(w)
        ELSE GoTo(w, "answer") /\ UNCHANGED message
     /\ UNCHANGED <<conv, auto, acts, crashes>> /\ Watch

\* Fault: the optimistic lock is not checked.
CommitsStale(w) == TRUE

VersionMatches(w) == conv[turn[w].target].version = turn[w].seen.version

\* The result of a turn: an answer, a handoff with or without a pause, the turn cap.
Kinds == {"answer", "handoff", "pause", "cap"}
Reply(kind) == IF kind \in {"handoff", "pause"} THEN "handoff" ELSE "answer"
Committed(row, kind) ==
  LET next == [row EXCEPT !.version = @ + 1] IN
    CASE kind = "answer" -> next
      [] kind \in {"handoff", "pause"} ->
           [next EXCEPT !.status = "HANDOFF_REQUESTED", !.requested = TRUE]
      [] kind = "cap" -> [next EXCEPT !.status = "COMPLETED", !.capped = TRUE]
Paused == [FreshState EXCEPT !.enabled = FALSE, !.pause = "running",
                             !.reason = "WORKFLOW_HANDOFF"]

Commit(w, kind) ==
  LET t == turn[w] IN
    /\ t.pc = "answer" /\ VersionMatches(w) /\ message[t.msg].place = None
    /\ conv' = [conv EXCEPT ![t.target] = Committed(conv[t.target], kind)]
    /\ auto' = IF kind = "pause" THEN [auto EXCEPT ![t.target] = Paused] ELSE auto
    /\ message' = [message EXCEPT ![t.msg].place = t.target, ![t.msg].reply = Reply(kind)]
    /\ Continue(w, "target", 2)
    /\ UNCHANGED <<acts, crashes>> /\ Watch

\* The answer and the workflow's handoff are tried once more from fresh state, then the
\* customer is asked to send the message again; no row is stored for it.
Conflict(w) ==
  /\ turn[w].pc = "answer" /\ ~VersionMatches(w)
  /\ IF turn[w].retried THEN Continue(w, "target", 2)
     ELSE turn' = [turn EXCEPT ![w] = [turn[w] EXCEPT !.pc = "load", !.retried = TRUE]]
  /\ UNCHANGED <<conv, auto, message, acts, crashes>> /\ Watch

\* The early commits (requested handoff, cap) throw on a conflict, and every commit does
\* when the message is stored in another conversation.
CommitThrows(w) ==
  /\ turn[w].pc = "answer"
  /\ ~VersionMatches(w) \/ message[turn[w].msg].place # None
  /\ Requeue(w)
  /\ UNCHANGED <<conv, auto, acts, crashes>> /\ Watch

-----------------------------------------------------------------------------
(* The send and the crash *)

Send(w) ==
  /\ turn[w].pc = "send"
  /\ Finish(w, "sent")
  /\ UNCHANGED <<conv, auto, acts, crashes>> /\ Watch

SendRefused(w) ==
  /\ turn[w].pc = "send"
  /\ Requeue(w)
  /\ UNCHANGED <<conv, auto, acts, crashes>> /\ Watch

\* A job that had been marked SENDING is not tried again.
Crash(w) ==
  /\ turn[w].pc # "idle" /\ crashes < MaxCrashes
  /\ crashes' = crashes + 1
  /\ IF turn[w].pc = "send" THEN Finish(w, "unknown") ELSE Requeue(w)
  /\ UNCHANGED <<conv, auto, acts>> /\ Watch

-----------------------------------------------------------------------------

Person ==
  \E c \in Conversations :
    \/ Resolve(c) \/ Reopen(c)
    \/ \E p \in People : Takeover(p, c) \/ Claim(p, c) \/ Release(p, c) \/ TriageResolve(p, c)

Gate(w) ==
  \/ GateTarget(w) \/ GateReadsConversation(w) \/ GateReadsState(w) \/ GateDecides(w)
  \/ GateRefuses(w)

Engine(w) ==
  \/ ReleaseReads(w) \/ ReleaseWrites(w) \/ Record(w) \/ Load(w) \/ EngineReadsState(w)
  \/ \E kind \in Kinds : Commit(w, kind)
  \/ Conflict(w) \/ CommitThrows(w)

WorkerStep(w) == Take(w) \/ Gate(w) \/ Engine(w) \/ Send(w) \/ SendRefused(w)

Next ==
  \/ Person
  \/ \E c \in Conversations : PauseRunsOut(c)
  \/ \E m \in Messages : CustomerWrites(m)
  \/ \E w \in Workers : WorkerStep(w) \/ Crash(w)

Spec == Init /\ [][Next]_vars

\* The worker's loop runs on; people, customers and crashes owe nothing.
FairSpec == Spec /\ \A w \in Workers : WF_vars(WorkerStep(w))

-----------------------------------------------------------------------------
(* Properties *)

\* Every row keeps its shape, and a call has a message exactly while it runs.
TypeOK ==
  /\ conv \in [Conversations -> Conversation]
  /\ auto \in [Conversations -> AutomationState]
  /\ message \in [Messages -> Message]
  /\ turn \in [Workers -> Turn]
  /\ watch \in [Workers -> SUBSET Statuses]
  /\ acts \in Nat /\ crashes \in Nat
  /\ \A w \in Workers : turn[w].pc = "idle" <=> turn[w].msg = None

\* The two rows of a conversation never disagree: a person holds it in both or in neither,
\* and a conversation given to the assistant carries no request, pause or switched-off bot.
RowsAgree ==
  \A c \in Conversations :
    /\ Held(c) <=> auto[c].takeover
    /\ Held(c) <=> conv[c].owner # NoOne
    /\ conv[c].requested <=> conv[c].status \in {"HANDOFF_REQUESTED", "HUMAN_ACTIVE"}
    /\ ~conv[c].requested => auto[c] = FreshState

\* Nothing is sent on the word of a gate unless its conversation was the assistant's at some
\* moment of that gate, or the text acknowledges the handoff that was pending meanwhile:
\* mayAutomatedAssistantReply over two unlocked reads, a release and a second look.
GateIsHonest ==
  \A w \in Workers :
    LET t == turn[w] IN
      t.pc = "send" /\ t.target # None =>
        \/ "ACTIVE" \in watch[w]
        \/ /\ "HANDOFF_REQUESTED" \in watch[w]
           /\ message[t.msg].reply = "handoff" /\ message[t.msg].place = t.target

\* No step of a call, however old its view, changes a conversation that a person holds:
\* the version check of commitConversationTurn and the conditional update of the release.
HumanStaysInCharge ==
  [][\A c \in Conversations :
       Held(c) /\ turn' # turn => conv'[c] = conv[c] /\ auto'[c] = auto[c]]_vars

\* Every message the customer sends is answered, stored or given up in the end.
Settled == Outcomes \ {"waiting", "taken"}
EveryMessageSettles ==
  \A m \in Messages : message[m].outcome = "waiting" ~> message[m].outcome \in Settled

\* A workflow's pause that is over ends with the customer's next message, at its first gate.
WaitsBehindPause(c) ==
  /\ Newest(c, Visible) /\ conv[c].status = "HANDOFF_REQUESTED"
  /\ auto[c].pause = "over" /\ auto[c].reason = "WORKFLOW_HANDOFF"
ExpiredPauseEnds ==
  /\ \E c \in Conversations : WaitsBehindPause(c)
  /\ \E m \in Messages : message[m].outcome = "waiting" /\ message[m].attempts = 0
  ~> \A c \in Conversations : ~WaitsBehindPause(c)

=============================================================================
