-------------------------- MODULE WorkflowCalendar --------------------------
(***************************************************************************)
(* The calendar layer around the workflow engine (WorkflowCalendar.ts): a     *)
(* day step offers the day's free times, a slot step takes one of them, an    *)
(* optional step can be declined, and a time can be changed at later steps.   *)
(*                                                                           *)
(* `free` is the set of slots that the calendar shows free at the turn's       *)
(* reads, which happen at one moment here; `readable` says whether the reads   *)
(* succeed.  `plain` is what the engine makes of the message when this layer   *)
(* leaves it alone.  A time is matched by its label alone (matchSlot), so two  *)
(* slots of different days have the same time.  Notice, closed days and the    *)
(* spreading of suggestions over the day are left out.                        *)
(***************************************************************************)
EXTENDS WorkflowEngine

CONSTANTS
  DayOf, TimeOf,    \* of each slot
  Suggested,        \* slots at the configured times
  Grid,             \* slots from the first of them in steps of the duration
  NoTime

ASSUME CalendarAssumption ==
  /\ NoDay \notin Days /\ NoSlot \notin Slots
  /\ DayOf \in [Slots -> Days] /\ DOMAIN TimeOf = Slots
  /\ Suggested \subseteq Slots /\ Grid \subseteq Slots

FreeSlots(day, free) == {s \in Suggested \cap free : DayOf[s] = day}
AllFreeSlots(day, free) == {s \in Grid \cap free : DayOf[s] = day}
MatchSlot(m, slots) == {s \in slots : TimeOf[s] = m.time}

\* Among the offers, else among all free times of the day.
Match(m, offered, day, free) ==
  IF MatchSlot(m, offered) # {} THEN MatchSlot(m, offered) ELSE MatchSlot(m, AllFreeSlots(day, free))

-----------------------------------------------------------------------------
(* Optional steps *)

Optional(b) == Flow[b.state].type = "collect" /\ ~Flow[b.state].required
Usable(b, m) == IF Flow[b.state].field = "email" THEN m.kind = "answer" ELSE m.kind # "no"
\* A refusal, or the second answer that is none: whatever else the message says.
MovesOn(b, m) == m.kind = "no" \/ (~Usable(b, m) /\ b.misses > 0)

SkipOptional(b) ==
  LET next == Flow[b.state].next IN
    {[session |-> [GoTo(Past(b), next) EXCEPT !.misses = 0], done |-> Ends(next), lead |-> Ends(next)]}

Missed(b, m) == IF Optional(b) /\ ~Usable(b, m) THEN [b EXCEPT !.misses = 1] ELSE b

-----------------------------------------------------------------------------
(* Choosing a slot *)

\* The first step after this one whose question is still open.
Answered(b, s) == s # NoState /\ Flow[s].type = "collect" /\ s \in b.answers
NextUnanswered(b) ==
  FoldLeft(LAMBDA s, i : IF Answered(b, s) THEN Flow[s].next ELSE s, Flow[b.state].next,
           [i \in 1..10 |-> i])

\* b is at the slot step.  A slot that is taken meanwhile leaves what was chosen before.
Choose(b, s, free) ==
  IF s \notin free
  THEN Same([b EXCEPT !.offered = FreeSlots(b.day, free)])
  ELSE LET taken == [Past(b) EXCEPT !.slot = s, !.answers = @ \cup {b.state}]
           next == NextUnanswered(taken)
       IN {[session |-> GoTo(taken, next), done |-> Ends(next), lead |-> Ends(next)]}

ChooseAny(b, slots, free) == UNION {Choose(b, s, free) : s \in slots}
Offer(b, day, free) == [b EXCEPT !.day = day, !.offered = FreeSlots(day, free)]

DayStep(b, m, free, readable, plain) ==
  LET offer == [Offer(Past(b), m.day, free) EXCEPT !.answers = @ \cup {b.state},
                                                   !.state = Flow[b.state].next]
      slots == Match(m, offer.offered, m.day, free)
  IN CASE m.day = NoDay -> IF m.kind \in {"question", "undecided"} THEN plain ELSE Same(b)
       [] m.day # NoDay /\ ~readable -> plain
       [] m.day # NoDay /\ readable ->
            CASE offer.offered = {} -> Same(b)
              [] offer.offered # {} /\ slots = {} -> Same(offer)
              [] offer.offered # {} /\ slots # {} -> ChooseAny(offer, slots, free)

\* The list of a reopened session is read again.
Relisted(b, free, readable) ==
  IF b.offered = {} /\ b.day # NoDay /\ readable THEN Offer(b, b.day, free) ELSE b

OtherDay(b, m, free) ==
  LET offer == Offer(b, m.day, free) IN
    CASE offer.offered = {} -> Same(b)
      [] offer.offered # {} /\ MatchSlot(m, offer.offered) = {} -> Same(offer)
      [] OTHER -> ChooseAny(offer, MatchSlot(m, offer.offered), free)

SlotStep(b0, m, free, readable, plain) ==
  LET b == Relisted(b0, free, readable)
      slots == IF readable THEN Match(m, b.offered, b.day, free) ELSE MatchSlot(m, b.offered)
  IN CASE b.offered = {} -> plain
       [] b.offered # {} /\ slots # {} -> IF readable THEN ChooseAny(b, slots, free) ELSE Same(b)
       [] OTHER ->
            CASE m.day \notin {NoDay, b.day} -> IF readable THEN OtherDay(b, m, free) ELSE plain
              [] m.day \in {NoDay, b.day} /\ m.kind \in {"question", "undecided"} -> plain
              [] OTHER -> Same(b)

-----------------------------------------------------------------------------
SlotState == CHOOSE s \in States : Flow[s].calendar = "slots"
DayState == CHOOSE s \in States : Flow[s].calendar = "day"

NamesTime(m) == m.day # NoDay \/ m.time # NoTime

\* A day in answer to an invitation is a yes.
TakesInvitation(b, m) ==
  /\ Flow[b.state].type = "confirm" /\ m.day # NoDay
  /\ Flow[b.state].next # NoState /\ Flow[Flow[b.state].next].calendar = "day"

\* After a time was chosen, another one at a later question.
ChangesTime(b, m) ==
  /\ Flow[b.state].type = "collect" /\ Flow[b.state].calendar = "no"
  /\ b.slot # NoSlot /\ NamesTime(m)

Calendar(b, m, free, readable) ==
  LET plain == ProcessCore(b, m) IN
    CASE TakesInvitation(b, m) ->
           DayStep([Past(b) EXCEPT !.state = Flow[b.state].next, !.confirmed = "yes"], m, free, readable, plain)
      [] ChangesTime(b, m) -> SlotStep([b EXCEPT !.state = SlotState], m, free, readable, plain)
      [] Flow[b.state].calendar = "day" -> DayStep(b, m, free, readable, plain)
      [] Flow[b.state].calendar = "slots" -> SlotStep(b, m, free, readable, plain)
      [] OTHER -> plain

\* before, and the engine when it leaves the message alone.
Process(b, m, free, readable) ==
  CASE ~b.started -> ProcessCore(b, m)
    [] b.started /\ Optional(b) /\ MovesOn(b, m) -> SkipOptional(b)
    [] OTHER -> Calendar(Missed(b, m), m, free, readable)
                \cup (IF Optional(b) /\ m.kind = "question" /\ Flow[b.state].field = "email" THEN Same(b) ELSE {})
=============================================================================
