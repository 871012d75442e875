-------------------------- MODULE HumanHandoffProofs --------------------------
(***************************************************************************)
(* For any number of conversations, messages, calls and people: the two rows *)
(* agree, a call never changes what a person holds, and a gate lets nothing  *)
(* through that was not the assistant's at some moment of it.                *)
(***************************************************************************)
EXTENDS HumanHandoff, TLAPS

\* Two calls never work on one message.
OneCallPerMessage ==
  /\ \A w \in Workers : turn[w].msg # None => message[turn[w].msg].outcome = "taken"
  /\ \A v, w \in Workers : turn[v].msg = turn[w].msg /\ turn[v].msg # None => v = w

\* Where a call may be inside the engine and where inside a gate.
Places ==
  \A w \in Workers :
    /\ turn[w].pc \in {"state", "answer"} => turn[w].gate = 0
    /\ turn[w].pc \in {"target", "rows", "denied", "record", "send"} => turn[w].gate # 0

\* A row the engine read is still the row as long as the version is; what it answers on was
\* not in a person's hands.
Engaged == {"expired", "release", "state", "answer"}
ReadRow(t) ==
  /\ t.target # None /\ conv[t.target].status # "ABSENT"
  /\ t.seen.version <= conv[t.target].version
  /\ t.seen.version = conv[t.target].version =>
       t.seen.status = conv[t.target].status /\ t.seen.requested = conv[t.target].requested
Snapshots ==
  \A w \in Workers :
    /\ turn[w].gate = 0 /\ turn[w].pc \in Engaged => ReadRow(turn[w])
    /\ turn[w].pc = "answer" => turn[w].seen.status # "HUMAN_ACTIVE" /\ ~turn[w].seen.requested

\* The history of a gate holds the status its conversation has and the one it read.
Gated(t, h) ==
  /\ t.pc = "rows" => /\ t.target # None /\ conv[t.target].status \in h
                      /\ "conv" \in t.read => t.seen.status \in h
  /\ t.pc \in {"expired", "release", "denied"} /\ t.gate # 0 =>
       t.target # None /\ conv[t.target].status \in h
Honest(t, h) ==
  t.pc = "send" /\ t.target # None =>
    \/ "ACTIVE" \in h
    \/ /\ "HANDOFF_REQUESTED" \in h
       /\ message[t.msg].reply = "handoff" /\ message[t.msg].place = t.target
GateKnows == \A w \in Workers : Gated(turn[w], watch[w]) /\ Honest(turn[w], watch[w])

Ind == TypeOK /\ RowsAgree /\ OneCallPerMessage /\ Places /\ Snapshots /\ GateKnows

LEMMA Constants ==
  /\ Conversations \subseteq Nat \ {0} /\ Messages \subseteq Nat \ {0} /\ NoOne \notin People
  /\ MaxActs \in Nat /\ MaxAttempts \in Nat \ {0} /\ MaxCrashes \in Nat
BY NumbersAssumption, PeopleAssumption, BoundsAssumption

\* An update of a row's fields leaves a row with the other fields as they were.
LEMMA RowUpdate ==
  ASSUME NEW row \in Conversation, NEW s \in Statuses, NEW r \in BOOLEAN, NEW n \in Nat
  PROVE  /\ [row EXCEPT !.status = s] \in Conversation
         /\ [row EXCEPT !.status = s].status = s
         /\ [row EXCEPT !.status = s].requested = row.requested
         /\ [row EXCEPT !.status = s].owner = row.owner
         /\ [row EXCEPT !.status = s, !.requested = r] \in Conversation
         /\ [row EXCEPT !.version = n] \in Conversation
         /\ [row EXCEPT !.version = n].version = n
         /\ [row EXCEPT !.version = n].status = row.status
         /\ [row EXCEPT !.version = n].requested = row.requested
         /\ [row EXCEPT !.version = n].owner = row.owner
BY DEF Conversation

LEMMA Fresh ==
  /\ FreshState \in AutomationState /\ FreshConversation \in Conversation /\ Idle \in Turn
  /\ [FreshConversation EXCEPT !.status = "ABSENT"] \in Conversation
  /\ Paused \in AutomationState /\ ~Paused.takeover
  /\ FreshConversation.status = "ACTIVE" /\ ~FreshConversation.requested
  /\ FreshConversation.owner = NoOne /\ ~FreshState.takeover
  /\ Idle.pc = "idle" /\ Idle.msg = None /\ Idle.target = None /\ Idle.gate = 0
<1>1. FreshState \in AutomationState
  BY DEF FreshState, AutomationState
<1>2. FreshConversation \in Conversation
  BY DEF FreshConversation, Conversation, Statuses
<1>3. Idle \in Turn
  BY <1>1, <1>2 DEF Idle, Turn, Pcs
<1>4. [FreshConversation EXCEPT !.status = "ABSENT"] \in Conversation
  BY <1>2, RowUpdate DEF Statuses
<1>5. Paused \in AutomationState /\ ~Paused.takeover
  BY DEF Paused, FreshState, AutomationState
<1>6. /\ FreshConversation.status = "ACTIVE" /\ ~FreshConversation.requested
      /\ FreshConversation.owner = NoOne /\ ~FreshState.takeover
      /\ Idle.pc = "idle" /\ Idle.msg = None /\ Idle.target = None /\ Idle.gate = 0
  BY DEF FreshConversation, FreshState, Idle
<1> QED
  BY <1>1, <1>2, <1>3, <1>4, <1>5, <1>6

LEMMA InitInd == Init => Ind
<1> SUFFICES ASSUME Init PROVE Ind
  OBVIOUS
<1> USE Constants, Fresh
<1>1. /\ \A w \in Workers : turn[w] = Idle /\ watch[w] = {}
      /\ \A c \in Conversations :
           conv[c] = [FreshConversation EXCEPT !.status = "ABSENT"] /\ auto[c] = FreshState
  BY DEF Init
<1>2. TypeOK
  <2>1. message \in [Messages -> Message]
    BY DEF Init, Message, Outcomes
  <2>2. watch \in [Workers -> SUBSET Statuses]
    BY DEF Init
  <2> QED
    BY <1>1, <2>1, <2>2 DEF TypeOK, Init, Idle, None
<1>3. RowsAgree
  <2> DEFINE row == [FreshConversation EXCEPT !.status = "ABSENT"]
  <2>1. row.status = "ABSENT" /\ ~row.requested /\ row.owner = NoOne
    BY DEF FreshConversation
  <2>2. \A c \in Conversations :
          conv[c].status = "ABSENT" /\ ~conv[c].requested /\ conv[c].owner = NoOne
    BY <1>1, <2>1
  <2> QED
    BY <1>1, <2>2 DEF RowsAgree, Held
<1>4. OneCallPerMessage /\ Places /\ Snapshots /\ GateKnows
  BY <1>1 DEF OneCallPerMessage, Places, Snapshots, GateKnows, Gated, Honest, Idle, None, Engaged
<1> QED
  BY <1>2, <1>3, <1>4 DEF Ind

-----------------------------------------------------------------------------
(* The rows *)

RowAgrees(row, state) ==
  /\ row.status = "HUMAN_ACTIVE" <=> state.takeover
  /\ row.status = "HUMAN_ACTIVE" <=> row.owner # NoOne
  /\ row.requested <=> row.status \in {"HANDOFF_REQUESTED", "HUMAN_ACTIVE"}
  /\ ~row.requested => state = FreshState

\* What one step may do to a conversation: nothing, a new version, or its first row.
Progress(c) ==
  \/ conv'[c] = conv[c]
  \/ /\ conv[c].status # "ABSENT" /\ conv'[c].status # "ABSENT"
     /\ conv'[c].version = conv[c].version + 1
  \/ conv[c].status = "ABSENT" /\ conv'[c].status # "ABSENT"

\* A person's transaction writes a pair of rows that agree.
LEMMA PersonWrites ==
  ASSUME Ind, Person
  PROVE  \E c \in Conversations, row \in Conversation, state \in AutomationState :
           Transition(c, row, state) /\ RowAgrees(row, state) /\ row.status # "ABSENT"
<1> USE Constants, Fresh
<1> PICK c \in Conversations :
      \/ Resolve(c) \/ Reopen(c)
      \/ \E p \in People : Takeover(p, c) \/ Claim(p, c) \/ Release(p, c) \/ TriageResolve(p, c)
  BY DEF Person
<1>1. conv[c] \in Conversation /\ auto[c] \in AutomationState /\ RowAgrees(conv[c], auto[c])
  BY DEF Ind, TypeOK, RowsAgree, RowAgrees, Held
<1>2. CASE Resolve(c)
  <2> DEFINE row == [conv[c] EXCEPT !.status = "RESOLVED", !.requested = FALSE, !.owner = NoOne]
  <2>1. row \in Conversation /\ RowAgrees(row, FreshState) /\ row.status # "ABSENT"
    BY <1>1 DEF Conversation, Statuses, RowAgrees
  <2> QED
    BY <1>2, <2>1 DEF Resolve
<1>3. CASE Reopen(c)
  <2> DEFINE row == [conv[c] EXCEPT !.status = "ACTIVE", !.requested = FALSE, !.owner = NoOne,
                                    !.capped = FALSE]
  <2>1. row \in Conversation /\ RowAgrees(row, FreshState) /\ row.status # "ABSENT"
    BY <1>1 DEF Conversation, Statuses, RowAgrees
  <2> QED
    BY <1>3, <2>1 DEF Reopen
<1>4. CASE \E p \in People : Takeover(p, c)
  <2> PICK p \in People : Takeover(p, c)
    BY <1>4
  <2> DEFINE row == [conv[c] EXCEPT !.status = "HUMAN_ACTIVE", !.requested = TRUE, !.owner = p]
             state == [auto[c] EXCEPT !.takeover = TRUE, !.enabled = FALSE]
  <2>1. row \in Conversation /\ row.status = "HUMAN_ACTIVE" /\ row.requested /\ row.owner = p
    BY <1>1 DEF Conversation, Statuses
  <2>2. state \in AutomationState /\ state.takeover
    BY <1>1 DEF AutomationState
  <2>3. Transition(c, row, state)
    BY DEF Takeover
  <2> HIDE DEF row, state
  <2> QED
    BY <2>1, <2>2, <2>3 DEF RowAgrees
<1>5. CASE \E p \in People : Claim(p, c)
  <2> PICK p \in People : Claim(p, c)
    BY <1>5
  <2> DEFINE row == [conv[c] EXCEPT !.status = "HUMAN_ACTIVE", !.owner = p]
             state == [auto[c] EXCEPT !.takeover = TRUE, !.enabled = FALSE, !.reason = "none"]
  <2>1. row \in Conversation /\ row.status = "HUMAN_ACTIVE" /\ row.requested /\ row.owner = p
    BY <1>1 DEF Conversation, Statuses, Claim, Pending
  <2>2. state \in AutomationState /\ state.takeover
    BY <1>1 DEF AutomationState
  <2>3. Transition(c, row, state)
    BY DEF Claim
  <2> HIDE DEF row, state
  <2> QED
    BY <2>1, <2>2, <2>3 DEF RowAgrees
<1>6. CASE \E p \in People : Release(p, c)
  <2> PICK p \in People : Release(p, c)
    BY <1>6
  <2> DEFINE row == [conv[c] EXCEPT !.status = "HANDOFF_REQUESTED", !.owner = NoOne]
             state == [auto[c] EXCEPT !.takeover = FALSE, !.enabled = FALSE,
                                      !.reason = "HANDOFF_REQUESTED"]
  <2>1. /\ row \in Conversation /\ row.status = "HANDOFF_REQUESTED" /\ row.requested
        /\ row.owner = NoOne
    BY <1>1 DEF Conversation, Statuses, Release, Pending
  <2>2. state \in AutomationState /\ ~state.takeover
    BY <1>1 DEF AutomationState
  <2>3. Transition(c, row, state)
    BY DEF Release
  <2> HIDE DEF row, state
  <2> QED
    BY <2>1, <2>2, <2>3 DEF RowAgrees
<1>7. CASE \E p \in People : TriageResolve(p, c)
  <2> DEFINE row == [conv[c] EXCEPT !.status = "ACTIVE", !.requested = FALSE, !.owner = NoOne,
                                    !.capped = FALSE]
  <2>1. row \in Conversation /\ RowAgrees(row, FreshState) /\ row.status # "ABSENT"
    BY <1>1 DEF Conversation, Statuses, RowAgrees
  <2> QED
    BY <1>7, <2>1 DEF TriageResolve
<1> QED
  BY <1>2, <1>3, <1>4, <1>5, <1>6, <1>7

\* Finding the conversation of a message changes no row that exists.
LEMMA RowFound ==
  ASSUME Ind, NEW c \in Conversations, GetOrCreate(c)
  PROVE  /\ conv' \in [Conversations -> Conversation] /\ conv'[c].status # "ABSENT"
         /\ \A d \in Conversations :
              /\ Progress(d) /\ RowAgrees(conv'[d], auto[d])
              /\ Held(d) => conv'[d] = conv[d]
<1> USE Fresh
<1>1. /\ conv \in [Conversations -> Conversation]
      /\ \A d \in Conversations : RowAgrees(conv[d], auto[d])
  BY DEF Ind, TypeOK, RowsAgree, RowAgrees, Held
<1>2. CASE Newest(c, Usable) /\ UNCHANGED conv
  BY <1>1, <1>2 DEF Newest, Usable, Live, Progress
<1>3. CASE NextAbsent(c) /\ conv' = [conv EXCEPT ![c] = FreshConversation]
  <2>1. auto[c] = FreshState /\ conv[c].status = "ABSENT"
    BY <1>1, <1>3 DEF NextAbsent, RowAgrees
  <2> QED
    BY <1>1, <1>3, <2>1 DEF Progress, RowAgrees, Held
<1> QED
  BY <1>2, <1>3 DEF GetOrCreate

\* A turn is committed on a row the assistant owns.
LEMMA RowCommitted ==
  ASSUME NEW row \in Conversation, NEW state \in AutomationState, RowAgrees(row, state),
         row.status # "HUMAN_ACTIVE", ~row.requested, row.status # "ABSENT", NEW kind \in Kinds
  PROVE  LET next == Committed(row, kind) IN
           /\ next \in Conversation /\ next.version = row.version + 1 /\ next.status # "ABSENT"
           /\ RowAgrees(next, IF kind = "pause" THEN Paused ELSE state)
<1> USE Fresh
<1> DEFINE up == [row EXCEPT !.version = @ + 1]
<1>1. /\ up \in Conversation /\ up.version = row.version + 1 /\ up.status = row.status
      /\ up.requested = row.requested /\ up.owner = row.owner
  BY DEF Conversation
<1>2. CASE kind = "answer"
  BY <1>1, <1>2 DEF Committed, RowAgrees
<1>3. CASE kind \in {"handoff", "pause"}
  <2> DEFINE next == [up EXCEPT !.status = "HANDOFF_REQUESTED", !.requested = TRUE]
  <2> HIDE DEF up
  <2>1. /\ next \in Conversation /\ next.version = up.version /\ next.requested
        /\ next.status = "HANDOFF_REQUESTED" /\ next.owner = up.owner
    BY <1>1 DEF Conversation, Statuses
  <2>2. Committed(row, kind) = next
    BY <1>3 DEF Committed, up
  <2> HIDE DEF next
  <2> QED
    BY <1>1, <1>3, <2>1, <2>2 DEF RowAgrees
<1>4. CASE kind = "cap"
  <2> DEFINE next == [up EXCEPT !.status = "COMPLETED", !.capped = TRUE]
  <2> HIDE DEF up
  <2>1. /\ next \in Conversation /\ next.version = up.version
        /\ next.requested = up.requested
        /\ next.status = "COMPLETED" /\ next.owner = up.owner
    BY <1>1 DEF Conversation, Statuses
  <2>2. Committed(row, kind) = next
    BY <1>4 DEF Committed, up
  <2> HIDE DEF next
  <2> QED
    BY <1>1, <1>4, <2>1, <2>2 DEF RowAgrees
<1> QED
  BY <1>2, <1>3, <1>4 DEF Kinds

\* A release gives back a row that waited for a person.
LEMMA RowReleased ==
  ASSUME NEW row \in Conversation, NEW state \in AutomationState, RowAgrees(row, state),
         row.status = "HANDOFF_REQUESTED"
  PROVE  LET next == [GivenBack(row) EXCEPT !.version = @ + 1] IN
           /\ next \in Conversation /\ next.version = row.version + 1 /\ next.status = "ACTIVE"
           /\ Unpaused(state) \in AutomationState /\ RowAgrees(next, Unpaused(state))
<1> DEFINE back == GivenBack(row)
           next == [back EXCEPT !.version = @ + 1]
<1>1. /\ back \in Conversation /\ back.version = row.version /\ back.status = "ACTIVE"
      /\ ~back.requested /\ back.owner = row.owner
  BY DEF GivenBack, Conversation, Statuses
<1> HIDE DEF back
<1>2. /\ next \in Conversation /\ next.version = back.version + 1 /\ next.status = back.status
      /\ next.requested = back.requested /\ next.owner = back.owner
  BY <1>1 DEF Conversation
<1>3. ~state.takeover /\ row.owner = NoOne
  BY DEF RowAgrees
<1>4. Unpaused(state) \in AutomationState /\ Unpaused(state) = FreshState
  <2>1. /\ Unpaused(state) \in AutomationState /\ ~Unpaused(state).takeover
        /\ Unpaused(state).enabled /\ Unpaused(state).pause = "none"
        /\ Unpaused(state).reason = "none"
    BY <1>3 DEF Unpaused, AutomationState
  <2>2. \A s \in AutomationState :
          ~s.takeover /\ s.enabled /\ s.pause = "none" /\ s.reason = "none" => s = FreshState
    BY DEF AutomationState, FreshState
  <2> QED
    BY <2>1, <2>2
<1> HIDE DEF next
<1>5. RowAgrees(next, Unpaused(state))
  BY <1>1, <1>2, <1>3, <1>4, Fresh DEF RowAgrees
<1> QED
  BY <1>1, <1>2, <1>4, <1>5 DEF next, back

\* What every step does to the rows.
RowsGoOn ==
  /\ conv' \in [Conversations -> Conversation] /\ auto' \in [Conversations -> AutomationState]
  /\ \A c \in Conversations :
       /\ Progress(c) /\ RowAgrees(conv'[c], auto'[c])
       /\ Held(c) /\ turn' # turn => conv'[c] = conv[c] /\ auto'[c] = auto[c]

LEMMA RowsStep == ASSUME Ind, Next PROVE RowsGoOn
<1> USE Fresh
<1>1. /\ conv \in [Conversations -> Conversation] /\ auto \in [Conversations -> AutomationState]
      /\ \A c \in Conversations : RowAgrees(conv[c], auto[c])
      /\ turn \in [Workers -> Turn]
  BY DEF Ind, TypeOK, RowsAgree, RowAgrees, Held
<1>2. CASE UNCHANGED <<conv, auto>>
  BY <1>1, <1>2 DEF RowsGoOn, Progress
<1>3. CASE Person
  <2> PICK c \in Conversations, row \in Conversation, state \in AutomationState :
        Transition(c, row, state) /\ RowAgrees(row, state) /\ row.status # "ABSENT"
    BY <1>3, PersonWrites
  <2> DEFINE next == [row EXCEPT !.version = conv[c].version + 1]
  <2>1. conv[c].version + 1 \in Nat
    BY <1>1 DEF Conversation
  <2>2. /\ next \in Conversation /\ next.version = conv[c].version + 1
        /\ next.status = row.status /\ next.requested = row.requested /\ next.owner = row.owner
    BY <2>1 DEF Conversation
  <2>3. /\ conv' = [conv EXCEPT ![c] = next] /\ auto' = [auto EXCEPT ![c] = state]
        /\ conv[c].status # "ABSENT" /\ turn' = turn
    BY DEF Transition
  <2> HIDE DEF next
  <2> QED
    BY <1>1, <2>2, <2>3 DEF RowsGoOn, Progress, RowAgrees
<1>4. CASE \E c \in Conversations : PauseRunsOut(c)
  <2> PICK c \in Conversations : PauseRunsOut(c)
    BY <1>4
  <2> DEFINE state == [auto[c] EXCEPT !.pause = "over"]
  <2>1. auto' = [auto EXCEPT ![c] = state] /\ auto[c].pause = "running"
    BY DEF PauseRunsOut
  <2>2. state \in AutomationState /\ state.takeover = auto[c].takeover
    BY <1>1 DEF AutomationState
  <2>3. conv[c].requested /\ conv' = conv /\ turn' = turn
    BY <1>1, <2>1 DEF RowAgrees, FreshState, PauseRunsOut
  <2> HIDE DEF state
  <2> QED
    BY <1>1, <2>1, <2>2, <2>3 DEF RowsGoOn, Progress, RowAgrees
<1>5. CASE \E w \in Workers : ReleaseWrites(w)
  <2> PICK w \in Workers : ReleaseWrites(w)
    BY <1>5
  <2> DEFINE c == turn[w].target
             row == [GivenBack(conv[c]) EXCEPT !.version = @ + 1]
  <2>1. CASE Releasable(c)
    <3>1. c \in Conversations /\ conv[c].status = "HANDOFF_REQUESTED"
      BY <1>1, <2>1 DEF Releasable, Ind, TypeOK, Turn, Snapshots, ReadRow, Engaged, GateKnows,
            Gated, ReleaseWrites
    <3>2. /\ row \in Conversation /\ row.version = conv[c].version + 1 /\ row.status = "ACTIVE"
          /\ Unpaused(auto[c]) \in AutomationState /\ RowAgrees(row, Unpaused(auto[c]))
      BY <1>1, <3>1, RowReleased
    <3>3. conv' = [conv EXCEPT ![c] = row] /\ auto' = [auto EXCEPT ![c] = Unpaused(auto[c])]
      BY <2>1 DEF ReleaseWrites
    <3> HIDE DEF row, c
    <3> QED
      BY <1>1, <3>1, <3>2, <3>3 DEF RowsGoOn, Progress, Held
  <2>2. CASE ~Releasable(c)
    BY <1>2, <2>2 DEF ReleaseWrites
  <2> QED
    BY <2>1, <2>2
<1>6. CASE \E w \in Workers : Record(w) \/ Load(w)
  <2>1. UNCHANGED auto /\ \E c \in Conversations : GetOrCreate(c)
    BY <1>6 DEF Record, Load
  <2> QED
    BY <1>1, <2>1, RowFound DEF RowsGoOn
<1>7. CASE \E w \in Workers, kind \in Kinds : Commit(w, kind)
  <2> PICK w \in Workers, kind \in Kinds : Commit(w, kind)
    BY <1>7
  <2> DEFINE c == turn[w].target
             row == Committed(conv[c], kind)
             state == IF kind = "pause" THEN Paused ELSE auto[c]
  <2>1. turn[w].pc = "answer" /\ conv[c].version = turn[w].seen.version
    BY DEF Commit, VersionMatches
  <2>2. /\ c \in Conversations /\ conv[c].status # "ABSENT"
        /\ conv[c].status # "HUMAN_ACTIVE" /\ ~conv[c].requested
    <3>1. turn[w].gate = 0 /\ ReadRow(turn[w])
      BY <2>1 DEF Ind, Places, Snapshots, Engaged
    <3>2. turn[w].seen.status # "HUMAN_ACTIVE" /\ ~turn[w].seen.requested
      BY <2>1 DEF Ind, Snapshots
    <3>3. turn[w] \in Turn
      BY <1>1
    <3> QED
      BY <2>1, <3>1, <3>2, <3>3 DEF ReadRow, Turn
  <2>3. /\ row \in Conversation /\ row.version = conv[c].version + 1 /\ row.status # "ABSENT"
        /\ RowAgrees(row, state)
    BY <1>1, <2>2, RowCommitted
  <2>4. state \in AutomationState
    BY <1>1, <2>2
  <2>5. conv' = [conv EXCEPT ![c] = row] /\ auto' = [auto EXCEPT ![c] = state]
    BY <1>1, <2>2 DEF Commit
  <2> HIDE DEF row, state, c
  <2> QED
    BY <1>1, <2>2, <2>3, <2>4, <2>5 DEF RowsGoOn, Progress, Held
<1> QED
  BY <1>2, <1>3, <1>4, <1>5, <1>6, <1>7 DEF Next, WorkerStep, Gate, Engine, CustomerWrites, Take,
     GateTarget, GateReadsConversation, GateReadsState, GateDecides, GateRefuses, ReleaseReads,
     EngineReadsState, Conflict, CommitThrows, Send, SendRefused, Crash

LEMMA ReadRowStays ==
  ASSUME Ind, RowsGoOn, NEW t \in Turn, ReadRow(t)
  PROVE  ReadRow(t)'
<1>1. /\ t.target \in Conversations /\ t.target # None /\ t.seen \in Conversation
      /\ conv[t.target] \in Conversation /\ conv'[t.target] \in Conversation
  BY DEF Ind, TypeOK, RowsGoOn, Turn, ReadRow
<1>2. t.seen.version \in Nat /\ conv[t.target].version \in Nat
  BY <1>1 DEF Conversation
<1> QED
  BY <1>1, <1>2 DEF ReadRow, RowsGoOn, Progress

-----------------------------------------------------------------------------
(* The calls *)

Placed(t) ==
  /\ t.pc \in {"state", "answer"} => t.gate = 0
  /\ t.pc \in {"target", "rows", "denied", "record", "send"} => t.gate # 0
Snapped(t) ==
  /\ t.gate = 0 /\ t.pc \in Engaged => ReadRow(t)
  /\ t.pc = "answer" => t.seen.status # "HUMAN_ACTIVE" /\ ~t.seen.requested

\* What a step of a call does to the call and to its message.
CallGoesOn(w) ==
  /\ turn' \in [Workers -> Turn] /\ message' \in [Messages -> Message]
  /\ turn'[w].pc = "idle" <=> turn'[w].msg = None
  /\ \A m \in Messages : m # turn[w].msg /\ m # turn'[w].msg => message'[m] = message[m]
  /\ \/ turn'[w].msg = None
     \/ turn'[w].msg = turn[w].msg /\ message'[turn[w].msg].outcome = "taken"
     \/ /\ turn[w].msg = None /\ message[turn'[w].msg].outcome = "waiting"
        /\ message'[turn'[w].msg].outcome = "taken"
  /\ Placed(turn[w])' /\ Snapped(turn[w])'

LEMMA CallMoves ==
  ASSUME Ind, NEW w \in Workers, NEW t \in Turn, turn' = [turn EXCEPT ![w] = t],
         turn[w].pc # "idle", t.msg = turn[w].msg, t.pc # "idle", Placed(t), Snapped(t)',
         message' \in [Messages -> Message],
         message'[t.msg].outcome = message[t.msg].outcome,
         \A m \in Messages : m # t.msg => message'[m] = message[m]
  PROVE  CallGoesOn(w)
<1>1. turn' \in [Workers -> Turn] /\ turn'[w] = t /\ turn[w].msg # None
  BY DEF Ind, TypeOK
<1>2. message[t.msg].outcome = "taken"
  BY <1>1 DEF Ind, OneCallPerMessage
<1>3. Placed(turn[w])' /\ Snapped(turn[w])'
  BY <1>1 DEF Placed, Snapped, ReadRow
<1> QED
  BY <1>1, <1>2, <1>3 DEF CallGoesOn

\* The fields of a stored message.
LEMMA MessageUpdate ==
  ASSUME NEW mm \in [Messages -> Message], NEW m \in Messages, NEW o \in Outcomes
  PROVE  /\ [mm EXCEPT ![m].outcome = o] \in [Messages -> Message]
         /\ \A n \in Messages : n # m => [mm EXCEPT ![m].outcome = o][n] = mm[n]
BY DEF Message

LEMMA StoreType ==
  ASSUME Ind, NEW m \in Messages, NEW c \in Conversations
  PROVE  /\ Store(m, c) \in [Messages -> Message]
         /\ \A n \in Messages : n # m => Store(m, c)[n] = message[n]
BY DEF Ind, TypeOK, Message, Store

LEMMA CallEnds ==
  ASSUME Ind, NEW w \in Workers, turn[w].pc # "idle", NEW o \in Outcomes,
         NEW mm \in [Messages -> Message], Return(w),
         \A n \in Messages : n # turn[w].msg => mm[n] = message[n],
         message' = [mm EXCEPT ![turn[w].msg].outcome = o]
  PROVE  CallGoesOn(w)
<1> USE Fresh
<1>1. turn' \in [Workers -> Turn] /\ turn'[w] = Idle /\ turn[w].msg \in Messages
  BY DEF Ind, TypeOK, Return, Turn
<1>2. /\ message' \in [Messages -> Message]
      /\ \A n \in Messages : n # turn[w].msg => message'[n] = message[n]
  BY <1>1, MessageUpdate
<1>3. Placed(turn[w])' /\ Snapped(turn[w])'
  BY <1>1 DEF Placed, Snapped, Engaged
<1> QED
  BY <1>1, <1>2, <1>3 DEF CallGoesOn

LEMMA CallFinishes ==
  ASSUME Ind, NEW w \in Workers, turn[w].pc # "idle",
         Requeue(w) \/ \E o \in Outcomes : Finish(w, o)
  PROVE  CallGoesOn(w)
<1>1. \E o \in Outcomes : Finish(w, o)
  BY DEF Requeue, Outcomes
<1>2. PICK o \in Outcomes : Finish(w, o)
  BY <1>1
<1>3. message \in [Messages -> Message]
  BY DEF Ind, TypeOK
<1> QED
  BY <1>2, <1>3, CallEnds DEF Finish

\* A gate or a turn that ends goes on with an empty call.
LEMMA Continued ==
  ASSUME Ind, NEW w \in Workers, NEW pc \in Pcs, NEW gate \in {0, 1, 2}, Continue(w, pc, gate)
  PROVE  \E t \in Turn : /\ turn' = [turn EXCEPT ![w] = t] /\ t.pc = pc /\ t.gate = gate
                         /\ t.msg = turn[w].msg /\ t.target = turn[w].target
<1> DEFINE t == [Idle EXCEPT !.pc = pc, !.gate = gate, !.msg = turn[w].msg,
                             !.target = turn[w].target]
<1>1. turn[w].msg \in Messages \cup {None} /\ turn[w].target \in Conversations \cup {None}
  BY DEF Ind, TypeOK, Turn
<1>2. /\ t \in Turn /\ t.pc = pc /\ t.gate = gate
      /\ t.msg = turn[w].msg /\ t.target = turn[w].target
  BY <1>1, Fresh DEF Turn
<1> QED
  BY <1>2 DEF Continue

LEMMA WentTo ==
  ASSUME Ind, NEW w \in Workers, NEW pc \in Pcs, GoTo(w, pc)
  PROVE  \E t \in Turn : /\ turn' = [turn EXCEPT ![w] = t] /\ t.pc = pc
                         /\ t.gate = turn[w].gate /\ t.msg = turn[w].msg
                         /\ t.target = turn[w].target /\ t.seen = turn[w].seen
                         /\ t.read = turn[w].read
<1> DEFINE t == [turn[w] EXCEPT !.pc = pc]
<1>1. turn[w] \in Turn
  BY DEF Ind, TypeOK
<1>2. /\ t \in Turn /\ t.pc = pc /\ t.gate = turn[w].gate /\ t.msg = turn[w].msg
      /\ t.target = turn[w].target /\ t.seen = turn[w].seen /\ t.read = turn[w].read
  BY <1>1 DEF Turn
<1> QED
  BY <1>2 DEF GoTo

\* A call that leaves the engine's places for a gate, the queue or the start of a turn.
LEMMA CallContinues ==
  ASSUME Ind, NEW w \in Workers, turn[w].pc # "idle", UNCHANGED message,
         NEW gate \in {0, 1, 2},
         \/ \E pc \in {"target", "send"} : gate # 0 /\ Continue(w, pc, gate)
         \/ Continue(w, "load", gate)
  PROVE  CallGoesOn(w)
<1>1. PICK pc \in {"target", "send", "load"} :
         Continue(w, pc, gate) /\ (pc # "load" => gate # 0)
  OBVIOUS
<1>2. PICK t \in Turn : /\ turn' = [turn EXCEPT ![w] = t] /\ t.pc = pc /\ t.gate = gate
                       /\ t.msg = turn[w].msg
  BY <1>1, Continued DEF Pcs
<1>3. Placed(t) /\ Snapped(t)' /\ t.pc # "idle"
  BY <1>1, <1>2 DEF Placed, Snapped, Engaged
<1> QED
  BY <1>2, <1>3, CallMoves DEF Ind, TypeOK

LEMMA CallPasses ==
  ASSUME Ind, NEW w \in Workers, turn[w].pc # "idle", UNCHANGED message, turn[w].gate # 0, Pass(w)
  PROVE  CallGoesOn(w)
<1>1. turn[w].gate \in {0, 1, 2}
  BY DEF Ind, TypeOK, Turn
<1> QED
  BY <1>1, CallContinues DEF Pass, AfterGate

\* A call that goes on inside a gate or inside the release of a gate.
LEMMA CallStaysInGate ==
  ASSUME Ind, NEW w \in Workers, turn[w].pc # "idle", UNCHANGED message, turn[w].gate # 0,
         NEW pc \in {"expired", "release", "denied", "record"}, GoTo(w, pc)
  PROVE  CallGoesOn(w)
<1>1. PICK t \in Turn : /\ turn' = [turn EXCEPT ![w] = t] /\ t.pc = pc /\ t.gate # 0
                       /\ t.msg = turn[w].msg
  BY WentTo DEF Pcs
<1>2. Placed(t) /\ Snapped(t)' /\ t.pc # "idle"
  BY <1>1 DEF Placed, Snapped, Engaged
<1> QED
  BY <1>1, <1>2, CallMoves DEF Ind, TypeOK

LEMMA CallInGate ==
  ASSUME Ind, NEW w \in Workers, Gate(w)
  PROVE  CallGoesOn(w)
<1>1. /\ turn[w] \in Turn /\ message \in [Messages -> Message]
      /\ conv \in [Conversations -> Conversation] /\ auto \in [Conversations -> AutomationState]
  BY DEF Ind, TypeOK
<1>2. turn[w].pc \in {"target", "rows", "denied"} /\ turn[w].gate # 0
  BY DEF Gate, GateTarget, GateReadsConversation, GateReadsState, GateDecides, GateRefuses, Ind,
         Places
<1>3. CASE GateTarget(w)
  <2>1. CASE turn' = [turn EXCEPT ![w] = [turn[w] EXCEPT !.pc = AfterGate(w), !.target = None]]
    <3>1. AfterGate(w) \in {"load", "send"}
      BY DEF AfterGate
    <3>2. PICK t \in Turn : /\ turn' = [turn EXCEPT ![w] = t] /\ t.pc = AfterGate(w)
                           /\ t.msg = turn[w].msg /\ t.gate = turn[w].gate
      <4> DEFINE t == [turn[w] EXCEPT !.pc = AfterGate(w), !.target = None]
      <4>1. t \in Turn /\ t.pc = AfterGate(w) /\ t.msg = turn[w].msg /\ t.gate = turn[w].gate
        BY <1>1, <3>1 DEF Turn, Pcs
      <4>2. turn' = [turn EXCEPT ![w] = t]
        BY <2>1
      <4> QED
        BY <4>1, <4>2
    <3>3. Placed(t) /\ Snapped(t)' /\ UNCHANGED message
      BY <1>2, <1>3, <3>1, <3>2 DEF Placed, Snapped, Engaged, GateTarget
    <3> QED
      BY <1>1, <1>2, <3>1, <3>2, <3>3, CallMoves
  <2>2. CASE \E c \in Conversations :
               turn' = [turn EXCEPT ![w] = [turn[w] EXCEPT !.pc = "rows", !.target = c, !.read = {}]]
    <3> PICK c \in Conversations :
               turn' = [turn EXCEPT ![w] = [turn[w] EXCEPT !.pc = "rows", !.target = c, !.read = {}]]
      BY <2>2
    <3>1. PICK t \in Turn : /\ turn' = [turn EXCEPT ![w] = t] /\ t.pc = "rows"
                           /\ t.msg = turn[w].msg /\ t.gate = turn[w].gate
      <4> DEFINE t == [turn[w] EXCEPT !.pc = "rows", !.target = c, !.read = {}]
      <4>1. t \in Turn /\ t.pc = "rows" /\ t.msg = turn[w].msg /\ t.gate = turn[w].gate
        BY <1>1 DEF Turn, Pcs
      <4> QED
        BY <4>1
    <3>2. Placed(t) /\ Snapped(t)' /\ UNCHANGED message
      BY <1>2, <1>3, <3>1 DEF Placed, Snapped, Engaged, GateTarget
    <3> QED
      BY <1>1, <1>2, <3>1, <3>2, CallMoves
  <2> QED
    BY <1>3, <2>1, <2>2 DEF GateTarget
<1>4. CASE GateReadsConversation(w)
  <2>1. conv[turn[w].target] \in Conversation
    BY <1>1, <1>4 DEF GateReadsConversation, Ind, GateKnows, Gated, Turn
  <2>2. PICK t \in Turn : /\ turn' = [turn EXCEPT ![w] = t] /\ t.pc = turn[w].pc
                         /\ t.msg = turn[w].msg /\ t.gate = turn[w].gate
    <3> DEFINE t == [turn[w] EXCEPT !.read = @ \cup {"conv"}, !.seen = conv[turn[w].target]]
    <3>1. t \in Turn /\ t.pc = turn[w].pc /\ t.msg = turn[w].msg /\ t.gate = turn[w].gate
      BY <1>1, <2>1 DEF Turn
    <3>2. turn' = [turn EXCEPT ![w] = t]
      BY <1>4 DEF GateReadsConversation
    <3> QED
      BY <3>1, <3>2
  <2>3. Placed(t) /\ Snapped(t)' /\ UNCHANGED message
    BY <1>2, <1>4, <2>2 DEF Placed, Snapped, Engaged, GateReadsConversation
  <2> QED
    BY <1>1, <1>2, <2>2, <2>3, CallMoves
<1>5. CASE GateReadsState(w)
  <2>1. auto[turn[w].target] \in AutomationState
    BY <1>1, <1>5 DEF GateReadsState, Ind, GateKnows, Gated, Turn
  <2>2. PICK t \in Turn : /\ turn' = [turn EXCEPT ![w] = t] /\ t.pc = turn[w].pc
                         /\ t.msg = turn[w].msg /\ t.gate = turn[w].gate
    <3> DEFINE t == [turn[w] EXCEPT !.read = @ \cup {"auto"}, !.state = auto[turn[w].target]]
    <3>1. t \in Turn /\ t.pc = turn[w].pc /\ t.msg = turn[w].msg /\ t.gate = turn[w].gate
      BY <1>1, <2>1 DEF Turn
    <3>2. turn' = [turn EXCEPT ![w] = t]
      BY <1>5 DEF GateReadsState
    <3> QED
      BY <3>1, <3>2
  <2>3. Placed(t) /\ Snapped(t)' /\ UNCHANGED message
    BY <1>2, <1>5, <2>2 DEF Placed, Snapped, Engaged, GateReadsState
  <2> QED
    BY <1>1, <1>2, <2>2, <2>3, CallMoves
<1>6. CASE GateDecides(w)
  BY <1>2, <1>6, CallStaysInGate, CallPasses DEF GateDecides
<1>7. CASE GateRefuses(w)
  BY <1>2, <1>7, CallStaysInGate, CallPasses, CallFinishes DEF GateRefuses, Outcomes
<1> QED
  BY <1>3, <1>4, <1>5, <1>6, <1>7 DEF Gate

LEMMA CallStaysInEngine ==
  ASSUME Ind, RowsGoOn, NEW w \in Workers, turn[w].pc \in {"expired", "release"},
         turn[w].gate = 0, UNCHANGED message, NEW pc \in {"release", "state"}, GoTo(w, pc)
  PROVE  CallGoesOn(w)
<1>1. PICK t \in Turn : /\ turn' = [turn EXCEPT ![w] = t] /\ t.pc = pc /\ t.gate = 0
                       /\ t.msg = turn[w].msg /\ t.target = turn[w].target
                       /\ t.seen = turn[w].seen
  BY WentTo DEF Pcs
<1>2. ReadRow(turn[w])
  BY DEF Ind, Snapshots, Engaged
<1>3. ReadRow(t)'
  BY <1>1, <1>2, ReadRowStays DEF ReadRow
<1>4. Placed(t) /\ Snapped(t)' /\ t.pc # "idle" /\ turn[w].pc # "idle"
  BY <1>1, <1>3 DEF Placed, Snapped
<1> QED
  BY <1>1, <1>4, CallMoves DEF Ind, TypeOK

LEMMA CallReleases ==
  ASSUME Ind, RowsGoOn, NEW w \in Workers, ReleaseReads(w) \/ ReleaseWrites(w)
  PROVE  CallGoesOn(w)
<1>1. turn[w] \in Turn /\ turn[w].pc \in {"expired", "release"} /\ UNCHANGED message
  BY DEF Ind, TypeOK, ReleaseReads, ReleaseWrites
<1>2. CASE NotReleased(w)
  BY <1>1, <1>2, CallStaysInEngine, CallStaysInGate DEF NotReleased
<1>3. CASE GoTo(w, "release")
  BY <1>1, <1>3, CallStaysInEngine, CallStaysInGate
<1>4. CASE ReleaseWrites(w) /\ Releasable(turn[w].target) /\ turn[w].gate # 0
  BY <1>1, <1>4, CallPasses DEF ReleaseWrites, Released
<1>5. CASE ReleaseWrites(w) /\ Releasable(turn[w].target) /\ turn[w].gate = 0
  <2> DEFINE c == turn[w].target
             t0 == [turn[w] EXCEPT !.pc = "state", !.seen = GivenBack(turn[w].seen)]
  <2>1. ReadRow(turn[w])
    BY <1>1, <1>5 DEF Ind, Snapshots, Engaged
  <2>2. /\ c \in Conversations /\ conv[c] \in Conversation /\ c # None
        /\ turn[w].seen \in Conversation
    BY <1>1, <2>1 DEF ReadRow, Turn, Ind, TypeOK
  <2>3. conv'[c].status # "ABSENT" /\ conv'[c].version > turn[w].seen.version
    <3>1. /\ conv'[c] = [GivenBack(conv[c]) EXCEPT !.version = @ + 1]
          /\ conv[c].status = "HANDOFF_REQUESTED"
      BY <1>5, <2>2 DEF ReleaseWrites, Releasable, Ind, TypeOK
    <3>2. RowAgrees(conv[c], auto[c]) /\ auto[c] \in AutomationState
      BY <2>2 DEF Ind, TypeOK, RowsAgree, RowAgrees, Held
    <3>3. conv'[c].version = conv[c].version + 1 /\ conv'[c].status = "ACTIVE"
      BY <2>2, <3>1, <3>2, RowReleased
    <3>4. conv[c].version \in Nat /\ turn[w].seen.version \in Nat
      BY <2>2 DEF Conversation
    <3> QED
      BY <2>1, <3>3, <3>4 DEF ReadRow
  <2>4. /\ GivenBack(turn[w].seen) \in Conversation
        /\ GivenBack(turn[w].seen).version = turn[w].seen.version
    BY <2>2 DEF GivenBack, Conversation, Statuses
  <2>5. /\ t0 \in Turn /\ t0.pc = "state" /\ t0.msg = turn[w].msg /\ t0.gate = turn[w].gate
        /\ t0.target = c /\ t0.seen = GivenBack(turn[w].seen)
    BY <1>1, <2>4 DEF Turn, Pcs
  <2>6. turn' = [turn EXCEPT ![w] = t0]
    BY <1>5 DEF ReleaseWrites, Released
  <2>7. PICK t \in Turn : /\ turn' = [turn EXCEPT ![w] = t] /\ t.pc = "state" /\ t.gate = 0
                         /\ t.msg = turn[w].msg /\ t.target = c
                         /\ t.seen.version = turn[w].seen.version
    BY <1>5, <2>4, <2>5, <2>6
  <2> HIDE DEF t0
  <2>8. conv'[c].version \in Nat /\ turn[w].seen.version \in Nat
    BY <2>2 DEF RowsGoOn, Conversation
  <2>9. ReadRow(t)'
    BY <2>2, <2>3, <2>7, <2>8 DEF ReadRow
  <2>10. Placed(t) /\ Snapped(t)'
    BY <2>7, <2>9 DEF Placed, Snapped
  <2> QED
    BY <1>1, <2>7, <2>10, CallMoves DEF Ind, TypeOK
<1> QED
  BY <1>2, <1>3, <1>4, <1>5 DEF ReleaseReads, ReleaseWrites

LEMMA CallLoads ==
  ASSUME Ind, NEW w \in Workers, Load(w)
  PROVE  CallGoesOn(w)
<1>1. turn[w] \in Turn /\ turn[w].pc = "load" /\ message \in [Messages -> Message]
  BY DEF Ind, TypeOK, Load
<1>2. CASE Finish(w, "silent")
  BY <1>1, <1>2, CallFinishes DEF Outcomes
<1>3. CASE Continue(w, "target", 2) /\ UNCHANGED message
  BY <1>1, <1>3, CallContinues
<1>4. CASE \E c \in Conversations :
             /\ GetOrCreate(c) /\ UNCHANGED message
             /\ turn' = [turn EXCEPT ![w] = [turn[w] EXCEPT
                            !.pc = "expired", !.gate = 0, !.target = c, !.seen = conv'[c]]]
  <2> PICK c \in Conversations :
        /\ GetOrCreate(c) /\ UNCHANGED message
        /\ turn' = [turn EXCEPT ![w] = [turn[w] EXCEPT
                       !.pc = "expired", !.gate = 0, !.target = c, !.seen = conv'[c]]]
    BY <1>4
  <2>1. conv'[c] \in Conversation /\ conv'[c].status # "ABSENT" /\ c # None
    BY RowFound, Constants DEF None
  <2>2. PICK row \in Conversation : row = conv'[c]
    BY <2>1
  <2>3. PICK t \in Turn : /\ turn' = [turn EXCEPT ![w] = t] /\ t.pc = "expired"
                         /\ t.msg = turn[w].msg /\ t.target = c /\ t.seen = conv'[c]
    <3> DEFINE t == [turn[w] EXCEPT !.pc = "expired", !.gate = 0, !.target = c, !.seen = row]
    <3>1. /\ t \in Turn /\ t.pc = "expired" /\ t.msg = turn[w].msg /\ t.target = c
          /\ t.seen = row
      BY <1>1 DEF Turn, Pcs
    <3> QED
      BY <2>2, <3>1
  <2>4. conv'[c].version \in Nat
    BY <2>1 DEF Conversation
  <2>5. ReadRow(t)'
    BY <2>1, <2>3, <2>4 DEF ReadRow
  <2>6. Placed(t) /\ Snapped(t)'
    BY <2>3, <2>5 DEF Placed, Snapped
  <2> QED
    BY <1>1, <2>3, <2>6, CallMoves
<1> QED
  BY <1>2, <1>3, <1>4 DEF Load

LEMMA CallRecords ==
  ASSUME Ind, NEW w \in Workers, Record(w)
  PROVE  CallGoesOn(w)
<1> DEFINE m == turn[w].msg
<1>1. turn[w].pc = "record" /\ m \in Messages /\ "recorded" \in Outcomes
  BY DEF Ind, TypeOK, Record, Turn, Outcomes
<1>2. PICK c \in Conversations : message' = [Store(m, c) EXCEPT ![m].outcome = "recorded"]
  BY DEF Record
<1> QED
  BY <1>1, <1>2, StoreType, CallEnds DEF Record

LEMMA EngineDecides ==
  ASSUME Ind, RowsGoOn, NEW w \in Workers, EngineReadsState(w)
  PROVE  CallGoesOn(w)
<1>1. /\ turn[w] \in Turn /\ turn[w].pc = "state" /\ turn[w].msg \in Messages
      /\ "silent" \in Outcomes /\ turn[w].gate = 0
  BY DEF Ind, TypeOK, EngineReadsState, Turn, Outcomes, Places
<1>2. ReadRow(turn[w])
  BY <1>1 DEF Ind, Snapshots, Engaged
<1>3. CASE /\ message' = [Store(turn[w].msg, turn[w].target) EXCEPT
                           ![turn[w].msg].outcome = "silent"]
           /\ Return(w)
  <2>1. turn[w].target \in Conversations
    BY <1>1, <1>2 DEF ReadRow, Turn
  <2> QED
    BY <1>1, <1>3, <2>1, StoreType, CallEnds
<1>4. CASE /\ GoTo(w, "answer") /\ UNCHANGED message
           /\ turn[w].seen.status # "HUMAN_ACTIVE" /\ ~turn[w].seen.requested
  <2>1. PICK t \in Turn : /\ turn' = [turn EXCEPT ![w] = t] /\ t.pc = "answer" /\ t.gate = 0
                         /\ t.msg = turn[w].msg /\ t.target = turn[w].target
                         /\ t.seen = turn[w].seen
    BY <1>1, <1>4, WentTo DEF Pcs
  <2>2. ReadRow(t)'
    BY <1>2, <2>1, ReadRowStays DEF ReadRow
  <2>3. Placed(t) /\ Snapped(t)'
    BY <1>4, <2>1, <2>2 DEF Placed, Snapped
  <2> QED
    BY <1>1, <1>4, <2>1, <2>3, CallMoves DEF Ind, TypeOK
<1> QED
  BY <1>3, <1>4 DEF EngineReadsState

LEMMA CallCommits ==
  ASSUME Ind, NEW w \in Workers, NEW kind \in Kinds, Commit(w, kind)
  PROVE  CallGoesOn(w)
<1> DEFINE m == turn[w].msg
<1>1. /\ turn[w] \in Turn /\ turn[w].pc = "answer" /\ m \in Messages
      /\ message \in [Messages -> Message] /\ ReadRow(turn[w])
  BY DEF Ind, TypeOK, Commit, Turn, Snapshots, Places, Engaged
<1>2. turn[w].target \in Conversations
  BY <1>1 DEF ReadRow, Turn
<1>3. Reply(kind) \in {"answer", "handoff"}
  BY DEF Reply
<1>4. /\ message' \in [Messages -> Message]
      /\ message'[m].outcome = message[m].outcome
      /\ \A n \in Messages : n # m => message'[n] = message[n]
  BY <1>1, <1>2, <1>3 DEF Commit, Message
<1>5. PICK t \in Turn : /\ turn' = [turn EXCEPT ![w] = t] /\ t.pc = "target" /\ t.gate = 2
                       /\ t.msg = m
  BY Continued DEF Commit, Pcs
<1>6. Placed(t) /\ Snapped(t)'
  BY <1>5 DEF Placed, Snapped, Engaged
<1> QED
  BY <1>1, <1>4, <1>5, <1>6, CallMoves

LEMMA CallMeetsConflict ==
  ASSUME Ind, NEW w \in Workers, Conflict(w)
  PROVE  CallGoesOn(w)
<1>1. turn[w] \in Turn /\ turn[w].pc = "answer" /\ UNCHANGED message
  BY DEF Ind, TypeOK, Conflict
<1>2. CASE Continue(w, "target", 2)
  BY <1>1, <1>2, CallContinues
<1>3. CASE turn' = [turn EXCEPT ![w] = [turn[w] EXCEPT !.pc = "load", !.retried = TRUE]]
  <2>1. PICK t \in Turn : /\ turn' = [turn EXCEPT ![w] = t] /\ t.pc = "load"
                         /\ t.msg = turn[w].msg
    <3> DEFINE t == [turn[w] EXCEPT !.pc = "load", !.retried = TRUE]
    <3>1. t \in Turn /\ t.pc = "load" /\ t.msg = turn[w].msg
      BY <1>1 DEF Turn, Pcs
    <3> QED
      BY <1>3, <3>1
  <2>2. Placed(t) /\ Snapped(t)'
    BY <2>1 DEF Placed, Snapped, Engaged
  <2> QED
    BY <1>1, <2>1, <2>2, CallMoves DEF Ind, TypeOK
<1> QED
  BY <1>2, <1>3 DEF Conflict

LEMMA CallStarts ==
  ASSUME Ind, NEW w \in Workers, Take(w)
  PROVE  CallGoesOn(w)
<1> USE Fresh
<1> PICK m \in Messages :
      /\ message[m].outcome = "waiting"
      /\ message' = [message EXCEPT ![m].outcome = "taken", ![m].attempts = @ + 1]
      /\ turn' = [turn EXCEPT ![w] = [Idle EXCEPT !.pc = "target", !.gate = 1, !.msg = m]]
  BY DEF Take
<1> DEFINE t == [Idle EXCEPT !.pc = "target", !.gate = 1, !.msg = m]
<1>1. t \in Turn /\ t.pc = "target" /\ t.gate = 1 /\ t.msg = m /\ m # None
  BY Constants DEF Turn, Pcs, None
<1>2. turn' \in [Workers -> Turn] /\ turn'[w] = t /\ turn[w].msg = None
  BY <1>1 DEF Ind, TypeOK, Take
<1> HIDE DEF t
<1>3. /\ message' \in [Messages -> Message] /\ message'[m].outcome = "taken"
      /\ \A n \in Messages : n # m => message'[n] = message[n]
  BY DEF Ind, TypeOK, Message, Outcomes
<1>4. Placed(turn[w])' /\ Snapped(turn[w])'
  BY <1>1, <1>2 DEF Placed, Snapped, Engaged
<1> QED
  BY <1>1, <1>2, <1>3, <1>4 DEF CallGoesOn

LEMMA CallStep ==
  ASSUME Ind, RowsGoOn, NEW w \in Workers, WorkerStep(w) \/ Crash(w)
  PROVE  CallGoesOn(w)
<1>1. CASE CommitThrows(w) \/ Send(w) \/ SendRefused(w) \/ Crash(w)
  BY <1>1, CallFinishes DEF CommitThrows, Send, SendRefused, Crash, Outcomes
<1> QED
  BY <1>1, CallStarts, CallInGate, CallReleases, CallRecords, CallLoads, EngineDecides,
     CallCommits, CallMeetsConflict DEF WorkerStep, Engine

\* A call's step leaves the other calls alone.
LEMMA OthersStay ==
  ASSUME TypeOK, NEW w \in Workers, WorkerStep(w) \/ Crash(w)
  PROVE  \A v \in Workers \ {w} : turn'[v] = turn[v]
<1> USE DEF TypeOK, GoTo, Continue, Return, Pass, Finish, Requeue, NotReleased, Released
<1>1. CASE Take(w)
  BY <1>1 DEF Take
<1>2. CASE Gate(w)
  BY <1>2 DEF Gate, GateTarget, GateReadsConversation, GateReadsState, GateDecides, GateRefuses
<1>3. CASE ReleaseReads(w) \/ ReleaseWrites(w)
  BY <1>3 DEF ReleaseReads, ReleaseWrites
<1>4. CASE Record(w) \/ Load(w) \/ EngineReadsState(w)
  BY <1>4 DEF Record, Load, EngineReadsState
<1>5. CASE (\E kind \in Kinds : Commit(w, kind)) \/ Conflict(w) \/ CommitThrows(w)
  BY <1>5 DEF Commit, Conflict, CommitThrows
<1>6. CASE Send(w) \/ SendRefused(w) \/ Crash(w)
  BY <1>6 DEF Send, SendRefused, Crash
<1> QED
  BY <1>1, <1>2, <1>3, <1>4, <1>5, <1>6 DEF WorkerStep, Engine

-----------------------------------------------------------------------------
(* The history of the gates *)

\* How the history of a gate goes on.
LEMMA WatchGoesOn ==
  ASSUME Watch, NEW w \in Workers, turn'[w].gate # 0
  PROVE  /\ turn[w].pc = "target" /\ turn'[w].pc = "rows" /\ turn'[w].target # None =>
              watch'[w] = {conv'[turn'[w].target].status}
         /\ /\ turn[w].pc \in GatePcs \ {"target"}
            /\ turn'[w].pc \in GatePcs \cup {"send"} /\ turn'[w].target # None
            => watch'[w] = watch[w] \cup {conv'[turn'[w].target].status}
         /\ turn[w].pc = "send" /\ turn'[w].pc = "send" => watch'[w] = watch[w]
<1>1. watch'[w] = Observed(w)
  BY DEF Watch
<1> QED
  BY <1>1 DEF Observed, GatePcs

LEMMA WatchType ==
  ASSUME Ind, Watch, conv' \in [Conversations -> Conversation], turn' \in [Workers -> Turn]
  PROVE  watch' \in [Workers -> SUBSET Statuses]
<1> SUFFICES ASSUME NEW w \in Workers
             PROVE  watch'[w] \in SUBSET Statuses
  BY DEF Watch
<1>1. watch[w] \in SUBSET Statuses
  BY DEF Ind, TypeOK
<1>2. \A c \in Conversations : conv'[c].status \in Statuses
  BY DEF Conversation
<1>3. turn'[w].target # None => turn'[w].target \in Conversations
  BY DEF Turn
<1> QED
  BY <1>1, <1>2, <1>3 DEF Watch, Observed

\* A call that does not move keeps what its gate knows.
LEMMA GateWaits ==
  ASSUME Ind, Watch, NEW w \in Workers, turn'[w] = turn[w],
         turn[w].msg # None => message'[turn[w].msg] = message[turn[w].msg]
  PROVE  Gated(turn[w], watch[w])' /\ Honest(turn[w], watch[w])'
<1>1. /\ Gated(turn[w], watch[w]) /\ Honest(turn[w], watch[w])
      /\ turn[w].pc = "idle" <=> turn[w].msg = None
  BY DEF Ind, GateKnows, TypeOK
<1>2. /\ turn[w].pc \in {"rows", "expired", "release", "denied"} /\ turn[w].gate # 0 =>
           watch'[w] = watch[w] \cup {conv'[turn[w].target].status}
      /\ turn[w].pc = "send" => watch'[w] = watch[w]
  BY <1>1, WatchGoesOn DEF GatePcs, Ind, Places, Gated
<1>3. turn[w].pc = "rows" => turn[w].gate # 0
  BY DEF Ind, Places
<1>4. Gated(turn[w], watch[w])'
  BY <1>1, <1>2, <1>3 DEF Gated
<1>5. Honest(turn[w], watch[w])'
  BY <1>1, <1>2 DEF Honest
<1> QED
  BY <1>4, <1>5

LEMMA GateEnds ==
  ASSUME NEW w \in Workers, turn'[w].pc \notin {"rows", "send"},
         turn'[w].gate = 0 \/ turn'[w].pc \notin {"expired", "release", "denied"}
  PROVE  Gated(turn[w], watch[w])' /\ Honest(turn[w], watch[w])'
BY DEF Gated, Honest

\* A gate that passes the call on lets it send only if its history allows that.
LEMMA GatePasses ==
  ASSUME Ind, Watch, NEW w \in Workers, Pass(w), turn[w].pc \in GatePcs \ {"target"},
         turn[w].gate # 0, turn[w].target # None,
         \/ "ACTIVE" \in watch[w] \cup {conv'[turn[w].target].status}
         \/ /\ "HANDOFF_REQUESTED" \in watch[w]
            /\ message'[turn[w].msg].reply = "handoff"
            /\ message'[turn[w].msg].place = turn[w].target
  PROVE  Gated(turn[w], watch[w])' /\ Honest(turn[w], watch[w])'
<1>1. AfterGate(w) \in {"load", "send"} /\ turn[w].gate \in {0, 1, 2} /\ turn \in [Workers -> Turn]
  BY DEF AfterGate, Ind, TypeOK, Turn
<1>2. /\ turn'[w].pc \in {"load", "send"} /\ turn'[w].gate # 0 /\ turn'[w].msg = turn[w].msg
      /\ turn'[w].target = turn[w].target
  BY <1>1, Continued DEF Pass, Pcs
<1>3. turn'[w].pc = "send" =>
        watch'[w] = watch[w] \cup {conv'[turn[w].target].status}
  BY <1>2, WatchGoesOn
<1> QED
  BY <1>2, <1>3 DEF Gated, Honest

LEMMA GateMoves ==
  ASSUME Ind, Watch, NEW w \in Workers, NEW pc \in {"expired", "release", "denied"}, GoTo(w, pc),
         turn[w].pc \in {"rows", "expired", "release"}
  PROVE  Gated(turn[w], watch[w])' /\ Honest(turn[w], watch[w])'
<1>1. /\ turn'[w].pc = pc /\ turn'[w].gate = turn[w].gate
      /\ turn'[w].target = turn[w].target
  BY WentTo DEF Pcs, Ind, TypeOK
<1>2. turn[w].gate # 0 => turn[w].target # None
  BY DEF Ind, GateKnows, Gated
<1>3. turn[w].gate # 0 =>
        watch'[w] = watch[w] \cup {conv'[turn[w].target].status}
  BY <1>1, <1>2, WatchGoesOn DEF GatePcs
<1> QED
  BY <1>1, <1>2, <1>3 DEF Gated, Honest

\* What a call's step makes of its gate.
LEMMA GateStep ==
  ASSUME Ind, RowsGoOn, Watch, NEW w \in Workers, WorkerStep(w) \/ Crash(w)
  PROVE  Gated(turn[w], watch[w])' /\ Honest(turn[w], watch[w])'
<1>1. /\ turn[w] \in Turn /\ turn \in [Workers -> Turn] /\ Gated(turn[w], watch[w])
      /\ conv \in [Conversations -> Conversation]
  BY DEF Ind, TypeOK, GateKnows
<1>2. turn[w].pc \in {"rows", "denied"} => turn[w].gate # 0
  BY DEF Ind, Places
<1>3. CASE turn'[w] = Idle
  BY <1>3, Fresh, GateEnds
<1>4. CASE \E pc \in {"target", "load"}, gate \in {0, 1, 2} : Continue(w, pc, gate)
  BY <1>4, Continued, GateEnds, <1>1 DEF Pcs
<1>5. CASE \E pc \in {"record", "state", "answer"} : GoTo(w, pc)
  BY <1>5, WentTo, GateEnds, <1>1 DEF Pcs
<1>6. CASE Take(w)
  <2>1. PICK m \in Messages :
          turn' = [turn EXCEPT ![w] = [Idle EXCEPT !.pc = "target", !.gate = 1, !.msg = m]]
    BY <1>6 DEF Take
  <2>2. [Idle EXCEPT !.pc = "target", !.gate = 1, !.msg = m].pc = "target"
    BY Fresh DEF Turn
  <2> QED
    BY <1>1, <2>1, <2>2, GateEnds
<1>7. CASE GateTarget(w)
  <2>1. CASE turn' = [turn EXCEPT ![w] = [turn[w] EXCEPT !.pc = AfterGate(w), !.target = None]]
    <3> DEFINE t == [turn[w] EXCEPT !.pc = AfterGate(w), !.target = None]
    <3>1. t.pc = AfterGate(w) /\ t.target = None
      BY <1>1 DEF Turn
    <3>2. turn'[w] = t
      BY <1>1, <2>1
    <3> HIDE DEF t
    <3> QED
      BY <3>1, <3>2 DEF AfterGate, Gated, Honest
  <2>2. CASE \E c \in Conversations :
               turn' = [turn EXCEPT ![w] = [turn[w] EXCEPT !.pc = "rows", !.target = c, !.read = {}]]
    <3> PICK c \in Conversations :
               turn' = [turn EXCEPT ![w] = [turn[w] EXCEPT !.pc = "rows", !.target = c, !.read = {}]]
      BY <2>2
    <3> DEFINE t == [turn[w] EXCEPT !.pc = "rows", !.target = c, !.read = {}]
    <3>1. t.pc = "rows" /\ t.target = c /\ t.read = {} /\ t.gate = turn[w].gate
      BY <1>1 DEF Turn
    <3>2. turn'[w] = t
      BY <1>1
    <3> HIDE DEF t
    <3>3. turn[w].pc = "target" /\ turn[w].gate # 0 /\ c # None
      BY <1>7, Constants DEF GateTarget, Ind, Places, None
    <3> QED
      BY <3>1, <3>2, <3>3, WatchGoesOn DEF Gated, Honest
  <2> QED
    BY <1>7, <2>1, <2>2 DEF GateTarget
<1>8. CASE GateReadsConversation(w) \/ GateReadsState(w)
  <2>1. /\ turn'[w].pc = "rows" /\ turn[w].pc = "rows" /\ turn'[w].target = turn[w].target
        /\ turn'[w].gate = turn[w].gate /\ UNCHANGED conv
        /\ \/ turn'[w].read = turn[w].read /\ turn'[w].seen = turn[w].seen
           \/ "conv" \in turn[w].read /\ turn'[w].seen = turn[w].seen
           \/ "conv" \notin turn'[w].read
           \/ turn'[w].seen = conv[turn[w].target]
    <3>1. CASE GateReadsConversation(w)
      <4> DEFINE t == [turn[w] EXCEPT !.read = @ \cup {"conv"}, !.seen = conv[turn[w].target]]
      <4>1. /\ t.pc = turn[w].pc /\ t.target = turn[w].target /\ t.gate = turn[w].gate
            /\ t.seen = conv[turn[w].target]
        BY <1>1 DEF Turn
      <4>2. turn'[w] = t
        BY <1>1, <3>1 DEF GateReadsConversation
      <4> QED
        BY <3>1, <4>1, <4>2 DEF GateReadsConversation
    <3>2. CASE GateReadsState(w)
      <4> DEFINE t == [turn[w] EXCEPT !.read = @ \cup {"auto"}, !.state = auto[turn[w].target]]
      <4>1. /\ t.pc = turn[w].pc /\ t.target = turn[w].target /\ t.gate = turn[w].gate
            /\ t.seen = turn[w].seen /\ t.read = turn[w].read \cup {"auto"}
        BY <1>1 DEF Turn
      <4>2. turn'[w] = t
        BY <1>1, <3>2 DEF GateReadsState
      <4> HIDE DEF t
      <4>3. "conv" \in turn[w].read \/ "conv" \notin turn'[w].read
        BY <4>1, <4>2
      <4> QED
        BY <3>2, <4>1, <4>2, <4>3 DEF GateReadsState
    <3> QED
      BY <1>8, <3>1, <3>2
  <2>2. watch'[w] = watch[w] \cup {conv'[turn[w].target].status}
    BY <1>1, <1>2, <2>1, WatchGoesOn DEF GatePcs, Gated
  <2> QED
    BY <1>1, <2>1, <2>2 DEF Gated, Honest
<1>9. CASE GateDecides(w)
  <2>1. CASE GoTo(w, "expired") \/ GoTo(w, "denied")
    BY <1>9, <2>1, GateMoves DEF GateDecides
  <2>2. CASE MayReply(turn[w].seen, turn[w].state) /\ Pass(w)
    <3>1. "ACTIVE" \in watch[w] /\ turn[w].target # None /\ turn[w].pc = "rows"
      BY <1>1, <1>9, <2>2 DEF GateDecides, MayReply, Gated
    <3> QED
      BY <1>2, <2>2, <3>1, GatePasses DEF GatePcs
  <2> QED
    BY <1>9, <2>1, <2>2 DEF GateDecides
<1>10. CASE GateRefuses(w)
  <2>1. CASE Acknowledges(w) /\ Pass(w) /\ UNCHANGED message
    <3>1. /\ turn[w].pc = "denied" /\ turn[w].target # None
          /\ "HANDOFF_REQUESTED" \in watch[w]
          /\ message'[turn[w].msg].reply = "handoff"
          /\ message'[turn[w].msg].place = turn[w].target
      BY <1>1, <1>2, <1>10, <2>1 DEF GateRefuses, Acknowledges, Gated
    <3> QED
      BY <1>2, <2>1, <3>1, GatePasses DEF GatePcs
  <2> QED
    BY <1>1, <1>3, <1>5, <1>10, <2>1 DEF GateRefuses, Finish, Return
<1>11. CASE ReleaseReads(w) \/ ReleaseWrites(w)
  <2>1. CASE GoTo(w, "release") \/ GoTo(w, "denied")
    BY <1>11, <2>1, GateMoves DEF ReleaseReads, ReleaseWrites
  <2>2. CASE ReleaseWrites(w) /\ Releasable(turn[w].target) /\ turn[w].gate # 0
    <3>1. Pass(w) /\ turn[w].pc = "release" /\ turn[w].target # None
      BY <1>1, <2>2 DEF ReleaseWrites, Released, Gated
    <3>2. conv'[turn[w].target].status = "ACTIVE"
      <4> DEFINE c == turn[w].target
      <4>1. c \in Conversations /\ conv[c] \in Conversation /\ auto[c] \in AutomationState
        BY <1>1, <3>1 DEF Turn, Ind, TypeOK
      <4>2. RowAgrees(conv[c], auto[c]) /\ conv[c].status = "HANDOFF_REQUESTED"
        BY <2>2, <4>1 DEF Ind, RowsAgree, RowAgrees, Held, Releasable
      <4>3. conv'[c] = [GivenBack(conv[c]) EXCEPT !.version = @ + 1]
        BY <1>1, <2>2, <4>1 DEF ReleaseWrites
      <4> QED
        BY <4>1, <4>2, <4>3, RowReleased
    <3> QED
      BY <2>2, <3>1, <3>2, GatePasses DEF GatePcs
  <2>3. CASE ReleaseWrites(w) /\ Releasable(turn[w].target) /\ turn[w].gate = 0
    <3> DEFINE t == [turn[w] EXCEPT !.pc = "state", !.seen = GivenBack(turn[w].seen)]
    <3>1. t.pc = "state"
      BY <1>1 DEF Turn
    <3>2. turn'[w] = t
      BY <1>1, <2>3 DEF ReleaseWrites, Released
    <3> HIDE DEF t
    <3> QED
      BY <3>1, <3>2, GateEnds
  <2> QED
    BY <1>5, <1>11, <2>1, <2>2, <2>3 DEF ReleaseReads, ReleaseWrites, NotReleased
<1>12. CASE Load(w)
  <2>1. CASE \E c \in Conversations :
               turn' = [turn EXCEPT ![w] = [turn[w] EXCEPT
                          !.pc = "expired", !.gate = 0, !.target = c, !.seen = conv'[c]]]
    <3> PICK c \in Conversations :
               turn' = [turn EXCEPT ![w] = [turn[w] EXCEPT
                          !.pc = "expired", !.gate = 0, !.target = c, !.seen = conv'[c]]]
      BY <2>1
    <3> DEFINE t == [turn[w] EXCEPT
                       !.pc = "expired", !.gate = 0, !.target = c, !.seen = conv'[c]]
    <3>1. t.pc = "expired" /\ t.gate = 0
      BY <1>1 DEF Turn
    <3>2. turn'[w] = t
      BY <1>1
    <3> HIDE DEF t
    <3> QED
      BY <3>1, <3>2, GateEnds
  <2> QED
    BY <1>1, <1>3, <1>4, <1>12, <2>1 DEF Load, Finish, Return
<1>13. CASE Conflict(w)
  <2>1. CASE turn' = [turn EXCEPT ![w] = [turn[w] EXCEPT !.pc = "load", !.retried = TRUE]]
    <3> DEFINE t == [turn[w] EXCEPT !.pc = "load", !.retried = TRUE]
    <3>1. t.pc = "load" /\ turn'[w] = t
      BY <1>1, <2>1 DEF Turn
    <3> HIDE DEF t
    <3> QED
      BY <3>1, GateEnds
  <2> QED
    BY <1>4, <1>13, <2>1 DEF Conflict
<1>14. CASE \E kind \in Kinds : Commit(w, kind)
  BY <1>4, <1>14 DEF Commit
<1>15. CASE \/ Record(w) \/ EngineReadsState(w) \/ CommitThrows(w)
            \/ Send(w) \/ SendRefused(w) \/ Crash(w)
  BY <1>1, <1>3, <1>5, <1>15 DEF Record, EngineReadsState, CommitThrows, Send, SendRefused, Crash,
     Requeue, Finish, Return
<1> QED
  BY <1>6, <1>7, <1>8, <1>9, <1>10, <1>11, <1>12, <1>13, <1>14, <1>15 DEF WorkerStep, Gate, Engine

-----------------------------------------------------------------------------
(* The invariant *)

\* Steps of people, of the clock and of the customer.
LEMMA OutsideStep ==
  ASSUME Ind, RowsGoOn, Watch,
         \/ Person \/ \E c \in Conversations : PauseRunsOut(c)
         \/ \E m \in Messages : CustomerWrites(m)
  PROVE  Ind'
<1>1. turn' = turn /\ acts' \in Nat /\ crashes' \in Nat
  <2>1. CASE Person
    BY <2>1, PersonWrites DEF Transition, Ind, TypeOK
  <2> QED
    BY <2>1 DEF PauseRunsOut, CustomerWrites, Ind, TypeOK
<1>2. /\ message' \in [Messages -> Message]
      /\ \A m \in Messages : message[m].outcome # "absent" => message'[m] = message[m]
  <2>1. CASE \E m \in Messages : CustomerWrites(m)
    BY <2>1 DEF Ind, TypeOK, Message, Outcomes, CustomerWrites
  <2>2. CASE UNCHANGED message
    BY <2>2 DEF Ind, TypeOK
  <2> QED
    BY <2>1, <2>2 DEF Person, PauseRunsOut, Resolve, Reopen, Takeover, Claim, Release,
       TriageResolve, Transition
<1>3. \A w \in Workers : turn[w].msg # None => message'[turn[w].msg] = message[turn[w].msg]
  BY <1>2 DEF Ind, TypeOK, OneCallPerMessage, Turn
<1>4. TypeOK'
  BY <1>1, <1>2, WatchType DEF Ind, TypeOK, RowsGoOn
<1>5. RowsAgree'
  BY DEF RowsGoOn, RowsAgree, RowAgrees, Held
<1>6. OneCallPerMessage' /\ Places'
  BY <1>1, <1>3 DEF Ind, OneCallPerMessage, Places
<1>7. Snapshots'
  <2> SUFFICES ASSUME NEW w \in Workers PROVE Snapped(turn[w])'
    BY DEF Snapshots, Snapped
  <2>1. PICK t \in Turn : t = turn[w]
    BY DEF Ind, TypeOK
  <2>2. Snapped(t)
    BY <2>1 DEF Ind, Snapshots, Snapped, ReadRow
  <2>3. Snapped(t)'
    BY <2>2, ReadRowStays DEF Snapped
  <2> QED
    BY <1>1, <2>1, <2>3 DEF Snapped, ReadRow
<1>8. GateKnows'
  BY <1>1, <1>3, GateWaits DEF GateKnows
<1> QED
  BY <1>4, <1>5, <1>6, <1>7, <1>8 DEF Ind

LEMMA CallKeepsInd ==
  ASSUME Ind, RowsGoOn, Watch, NEW w \in Workers, WorkerStep(w) \/ Crash(w)
  PROVE  Ind'
<1>1. CallGoesOn(w) /\ \A v \in Workers \ {w} : turn'[v] = turn[v]
  BY CallStep, OthersStay DEF Ind
<1>2. acts' \in Nat /\ crashes' \in Nat
  <2>1. acts \in Nat /\ crashes \in Nat
    BY DEF Ind, TypeOK
  <2>2. acts' = acts /\ (crashes' = crashes \/ crashes' = crashes + 1)
    BY DEF WorkerStep, Gate, Engine, Take, GateTarget, GateReadsConversation,
         GateReadsState, GateDecides, GateRefuses, ReleaseReads, ReleaseWrites, Record, Load,
         EngineReadsState, Commit, Conflict, CommitThrows, Send, SendRefused, Crash
  <2> QED
    BY <2>1, <2>2
<1>3. TypeOK'
  <2>1. /\ conv' \in [Conversations -> Conversation] /\ auto' \in [Conversations -> AutomationState]
        /\ turn' \in [Workers -> Turn] /\ message' \in [Messages -> Message]
    BY <1>1 DEF RowsGoOn, CallGoesOn
  <2>2. \A v \in Workers : turn'[v].pc = "idle" <=> turn'[v].msg = None
    BY <1>1 DEF CallGoesOn, Ind, TypeOK
  <2> QED
    BY <1>2, <2>1, <2>2, WatchType DEF TypeOK
<1>4. RowsAgree'
  BY DEF RowsGoOn, RowsAgree, RowAgrees, Held
<1>5. \A v \in Workers \ {w} :
        turn[v].msg # None => /\ message'[turn[v].msg] = message[turn[v].msg]
                              /\ turn'[w].msg # turn[v].msg
  BY <1>1 DEF Ind, TypeOK, OneCallPerMessage, CallGoesOn, Turn
<1>6. OneCallPerMessage'
  BY <1>1, <1>5 DEF Ind, OneCallPerMessage, CallGoesOn
<1>7. Places'
  BY <1>1 DEF Ind, Places, CallGoesOn, Placed
<1>8. Snapshots'
  <2> SUFFICES ASSUME NEW v \in Workers \ {w} PROVE Snapped(turn[v])'
    BY <1>1 DEF Snapshots, Snapped, CallGoesOn
  <2>1. PICK t \in Turn : t = turn[v]
    BY DEF Ind, TypeOK
  <2>2. Snapped(t)
    BY <2>1 DEF Ind, Snapshots, Snapped, ReadRow
  <2>3. Snapped(t)'
    BY <2>2, ReadRowStays DEF Snapped
  <2> QED
    BY <1>1, <2>1, <2>3 DEF Snapped, ReadRow
<1>9. GateKnows'
  <2>1. \A v \in Workers \ {w} : Gated(turn[v], watch[v])' /\ Honest(turn[v], watch[v])'
    BY <1>1, <1>5, GateWaits
  <2> QED
    BY <2>1, GateStep DEF GateKnows
<1> QED
  BY <1>3, <1>4, <1>6, <1>7, <1>8, <1>9 DEF Ind

LEMMA IndStep == Ind /\ [Next]_vars => Ind'
<1> SUFFICES ASSUME Ind, [Next]_vars PROVE Ind'
  OBVIOUS
<1>1. CASE UNCHANGED vars
  BY <1>1 DEF vars, Ind, TypeOK, RowsAgree, Held, OneCallPerMessage, Places, Snapshots, ReadRow,
     GateKnows, Gated, Honest
<1>2. CASE Next
  <2>1. RowsGoOn
    BY <1>2, RowsStep
  <2>2. CASE Person \/ (\E c \in Conversations : PauseRunsOut(c))
             \/ \E m \in Messages : CustomerWrites(m)
    <3>1. Watch
      BY <2>2 DEF Person, PauseRunsOut, CustomerWrites, Resolve, Reopen, Takeover, Claim,
         Release, TriageResolve, Transition
    <3> QED
      BY <2>1, <2>2, <3>1, OutsideStep
  <2>3. CASE \E w \in Workers : WorkerStep(w) \/ Crash(w)
    <3>1. Watch
      BY <2>3 DEF WorkerStep, Gate, Engine, Take, GateTarget, GateReadsConversation,
         GateReadsState, GateDecides, GateRefuses, ReleaseReads, ReleaseWrites, Record, Load,
         EngineReadsState, Commit, Conflict, CommitThrows, Send, SendRefused, Crash
    <3> QED
      BY <2>1, <2>3, <3>1, CallKeepsInd
  <2> QED
    BY <1>2, <2>2, <2>3 DEF Next
<1> QED
  BY <1>1, <1>2

LEMMA IndAlways == Spec => []Ind
BY InitInd, IndStep, PTL DEF Spec

\* For any number of conversations, messages, calls and people every row keeps its shape and
\* a call of processJob has a message exactly while it runs.
THEOREM TypeCorrect == Spec => []TypeOK
<1>1. Ind => TypeOK
  BY DEF Ind
<1> QED
  BY <1>1, IndAlways, PTL

\* The row of the conversation and the row of its automation state always agree on who owns
\* it: every transition, turn and release leaves them so.
THEOREM RowsStayInAgreement == Spec => []RowsAgree
<1>1. Ind => RowsAgree
  BY DEF Ind
<1> QED
  BY <1>1, IndAlways, PTL

\* Whatever people do between the unlocked reads of a gate, it lets nothing be sent unless the
\* conversation was the assistant's at some moment of it or waits with this acknowledgment.
THEOREM GatesAreHonest == Spec => []GateIsHonest
<1>1. Ind => GateIsHonest
  BY DEF Ind, GateKnows, Honest, GateIsHonest
<1> QED
  BY <1>1, IndAlways, PTL

\* No turn and no release of a pause, however stale what it read, changes a conversation that
\* a person holds.
THEOREM HumanIsUndisturbed == Spec => HumanStaysInCharge
<1>1. Ind /\ [Next]_vars =>
        [\A c \in Conversations :
           Held(c) /\ turn' # turn => conv'[c] = conv[c] /\ auto'[c] = auto[c]]_vars
  <2> SUFFICES ASSUME Ind, Next, NEW c \in Conversations, Held(c), turn' # turn
               PROVE  conv'[c] = conv[c] /\ auto'[c] = auto[c]
    OBVIOUS
  <2> QED
    BY RowsStep DEF RowsGoOn
<1> QED
  BY <1>1, IndAlways, PTL DEF Spec, HumanStaysInCharge
=============================================================================
