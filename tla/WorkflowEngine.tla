--------------------------- MODULE WorkflowEngine ---------------------------
(***************************************************************************)
(* One turn of a configured workflow (WorkflowEngine.ts): which step the       *)
(* conversation is at after a message, what it has collected, whether the      *)
(* request is complete and whether it becomes a lead.  The flow is a graph of  *)
(* typed steps.  What a text means at a step is the interpreter's choice,      *)
(* within what the message can mean, so the results form a set.               *)
(*                                                                           *)
(* A message is a record [kind, day, time].  The flow is the business's only   *)
(* one: no message pauses it for another.  Language, wording and the          *)
(* hand-over to a person at the end are left out.                             *)
(***************************************************************************)
EXTENDS SequencesExt, FiniteSets, Integers

CONSTANTS
  States,       \* the steps
  Flow,         \* their configuration, see FlowAssumption
  NoState,      \* "no next step"
  InitialState,
  MaxSteps,     \* limits.maxWorkflowSteps
  Days, Slots,  \* of the calendar
  NoDay, NoSlot

Types == {"confirm", "collect", "choice", "end", "handoff"}
Targets == States \cup {NoState}

ASSUME StepsAssumption == InitialState \in States /\ NoState \notin States /\ MaxSteps \in Nat
ASSUME FlowAssumption ==
  Flow \in [States -> [type : Types, field : {"none", "text", "email"}, required : BOOLEAN,
                       calendar : {"no", "day", "slots"}, next : Targets, options : SUBSET States]]

MaxUnclear == 2   \* MAX_UNCLEAR_REPROMPTS, and the unmatched messages that may ask the FAQ

\* A session row's stateId, stateHistory, contextData and collectedData, as far as they
\* decide anything.  `answers` are the steps with a stored answer; the last six are
\* _slotStart, _calendarDay, _offeredSlots, _booked, _bookingId and _rescheduleOf.
NewSession ==
  [state |-> InitialState, hist |-> <<>>, started |-> FALSE, answers |-> {}, confirmed |-> "open",
   unmatched |-> 0, misses |-> 0,
   slot |-> NoSlot, day |-> NoDay, offered |-> {}, booked |-> FALSE, booking |-> 0, moveOf |-> 0]

Ends(s) == s = NoState \/ Flow[s].type = "end"
GoTo(b, s) == IF s = NoState THEN b ELSE [b EXCEPT !.state = s]
Past(b) == [b EXCEPT !.hist = Append(@, b.state)]
Unmatched(b) == [b EXCEPT !.unmatched = IF @ < MaxUnclear THEN @ + 1 ELSE @]

Accepted(b) == b.confirmed # "no"
\* Only a request that was accepted becomes a lead.
Finish(b, done) == {[session |-> b, done |-> done, lead |-> done /\ Accepted(b)]}
Same(b) == Finish(b, FALSE)

-----------------------------------------------------------------------------
\* The first message gets the first question; nothing in it is taken as an answer.
Enter(b) == Finish(b, Flow[b.state].type = "end")

\* Too many transitions: the request is closed as it is and goes to the team.
StepLimit(b) == {[session |-> b, done |-> TRUE, lead |-> TRUE]}

\* Data and answers are kept.
Back(b) ==
  IF b.hist = <<>> THEN Same(b) ELSE Same([b EXCEPT !.state = Last(b.hist), !.hist = Front(b.hist)])

\* An option, or an answer out of the FAQ, or the options again.
Choice(b, m) ==
  IF m.kind = "pick"
  THEN UNION {Finish([Past(b) EXCEPT !.state = o, !.unmatched = 0], Flow[o].type = "end") :
                o \in Flow[b.state].options}
  ELSE Same(Unmatched(b)) \cup (IF b.unmatched < MaxUnclear THEN Same(b) ELSE {})

Confirm(b, m) ==
  LET next == Flow[b.state].next
      yes == [b EXCEPT !.confirmed = "yes"]
  IN CASE m.kind = "yes" -> Finish(GoTo(yes, next), Ends(next) \/ Flow[next].type = "handoff")
       [] m.kind = "no" -> Finish([b EXCEPT !.confirmed = "no"], TRUE)
       [] OTHER -> Same(b)

-----------------------------------------------------------------------------
(* A collect step *)

Scheduling(b) == Flow[b.state].calendar # "no"

\* "I don't know" at a day or time step: the request is complete and the step unanswered.
Undecided(b) == Finish([Past(b) EXCEPT !.unmatched = 0], TRUE)

Advance(b) ==
  LET next == Flow[b.state].next IN
    Finish(GoTo([Past(b) EXCEPT !.answers = @ \cup {b.state}, !.unmatched = 0], next),
           Ends(next) \/ Flow[next].type = "handoff")

\* "Change the day": the step is asked again, or its new text is stored where we are.
Correct(b) ==
  UNION {Same(b) \cup Same([b EXCEPT !.answers = @ \ {s}, !.state = s]) :
           s \in {s \in States : Flow[s].calendar = "day"}}

\* Two re-prompts, then a time is left to the team and anything else is taken as it is.
Unclear(b) ==
  CASE b.unmatched < MaxUnclear -> Same(Unmatched(b))
    [] Scheduling(b) -> Undecided(b)
    [] Flow[b.state].field = "email" -> Same(b)
    [] OTHER -> Advance(b)

\* What the interpreter may make of a message at this step.
Readings(b, m) ==
  CASE m.kind = "question" -> {"question"} \cup (IF Flow[b.state].field = "text" THEN {"mixed"} ELSE {})
    [] m.kind = "answer" -> {"answer"}
    [] OTHER -> {IF Flow[b.state].field = "text" THEN "answer" ELSE "invalid", "unclear"}
                \cup (IF m.kind = "move" THEN {"correction"} ELSE {})

Interpreted(b, reading) ==
  CASE reading \in {"answer", "mixed"} -> Advance(b)
    [] reading = "question" -> Same(b) \cup Same(Unmatched(b))
    [] reading = "invalid" -> Same(b)
    [] reading = "correction" -> Correct(b)
    [] reading = "unclear" -> Unclear(b)

Collect(b, m) ==
  CASE Scheduling(b) /\ m.kind = "undecided" -> Undecided(b)
    [] m.kind = "hello" -> Same(b)
    [] OTHER -> UNION {Interpreted(b, reading) : reading \in Readings(b, m)}

-----------------------------------------------------------------------------
ProcessCore(b0, m) ==
  LET b == [b0 EXCEPT !.started = TRUE]
      type == Flow[b.state].type
  IN CASE type = "handoff" -> Finish(b, TRUE)
       [] type # "handoff" /\ ~b0.started -> Enter(b)
       [] type # "handoff" /\ b0.started /\ Len(b.hist) > MaxSteps -> StepLimit(b)
       [] OTHER -> CASE m.kind = "back" -> Back(b)
                     [] m.kind # "back" /\ type = "choice" -> Choice(b, m)
                     [] m.kind # "back" /\ type = "collect" -> Collect(b, m)
                     [] m.kind # "back" /\ type = "confirm" -> Confirm(b, m)
                     [] OTHER -> Finish(b, TRUE)   \* an end: nothing follows
=============================================================================
