---------------------------- MODULE Appointments ----------------------------
(***************************************************************************)
(* Appointments made in chats: customers go through the business's workflow,  *)
(* one message at a time (ConversationEngine.ts around the workflow), and its  *)
(* completion books a slot of the shared calendar (CalendarScheduler.book,    *)
(* RelayqoCalendar).  A booking is made before the turn is committed; a turn   *)
(* that loses its commit to another writer of the conversation, or its        *)
(* process, runs again from the stored session.  The merchant blocks times    *)
(* and removes bookings.                                                      *)
(*                                                                           *)
(* A customer's sessions follow one another, since an open request keeps new   *)
(* ones out; the last one is kept.  The calendar is always connected, time     *)
(* does not pass, and no lead is closed.                                      *)
(***************************************************************************)
EXTENDS WorkflowCalendar

CONSTANTS
  Customers,
  Says,           \* the messages each customer may send first, second, ...
  MayBlock,       \* slots the merchant may block
  MaxRemovals,    \* bookings the merchant may remove
  Overlap,        \* the pairs of slots that overlap, both ways, each with itself
  FaultKinds, MaxFaults

ASSUME FaultAssumption == MaxFaults \in Nat /\ FaultKinds \subseteq {"crash", "conflict", "calendar"}
ASSUME RemovalsAssumption == MaxRemovals \in Nat
ASSUME OverlapAssumption ==
  /\ Overlap \subseteq Slots \X Slots /\ MayBlock \subseteq Slots
  /\ \A s, t \in Slots : <<s, s>> \in Overlap /\ (<<s, t>> \in Overlap => <<t, s>> \in Overlap)

VARIABLES
  session,    \* the customer's last session row
  turn,       \* the message being handled
  calendar,   \* the booking rows, in the order of their inserts
  leads,      \* leads made from each customer's sessions
  runs,       \* sessions each customer has started
  told,       \* the slot of the last confirmation a customer got
  sent,
  hits,       \* faults in each customer's turns
  faults

vars == <<session, turn, calendar, leads, runs, told, sent, hits, faults>>

Merchant == "merchant"
Messages(c) == UNION Range(Says[c])
NoMessage == [kind |-> "none", day |-> NoDay, time |-> NoTime]
NoRow == [status |-> "NONE", body |-> NewSession, lead |-> FALSE]
\* row, lead: what the turn will commit; say: the slot its reply confirms; seen: the rows
\* there were when it asked whether its slot is free.
IdleTurn == [pc |-> "idle", msg |-> NoMessage, again |-> FALSE, stale |-> FALSE,
             row |-> NoRow, fresh |-> FALSE, lead |-> FALSE, say |-> NoSlot, seen |-> 0]

Init ==
  /\ session = [c \in Customers |-> NoRow]
  /\ turn = [c \in Customers |-> IdleTurn]
  /\ calendar = <<>>
  /\ leads = [c \in Customers |-> 0] /\ runs = [c \in Customers |-> 0]
  /\ told = [c \in Customers |-> NoSlot]
  /\ sent = [c \in Customers |-> 0]
  /\ hits = [c \in Customers |-> 0] /\ faults = 0

Fault(kind, c) ==
  /\ kind \in FaultKinds /\ faults < MaxFaults
  /\ faults' = faults + 1 /\ hits' = [hits EXCEPT ![c] = @ + 1]
NoFault == UNCHANGED <<hits, faults>>
FaultIf(failed, kind, c) == IF failed THEN Fault(kind, c) ELSE NoFault

-----------------------------------------------------------------------------
(* The calendar *)

Active == {i \in DOMAIN calendar : calendar[i].status = "BOOKED"}
Busy(s) == \E i \in Active : <<calendar[i].slot, s>> \in Overlap
Free == {s \in Slots : ~Busy(s)}

\* The partial unique index on the start of active bookings.
Conflicts(s) == \E i \in Active : calendar[i].slot = s

Booking(owner, s, seen) == [owner |-> owner, slot |-> s, status |-> "BOOKED", seen |-> seen]

\* The merchant blocks a time without asking whether it is free.
Block(s) ==
  /\ s \in MayBlock /\ ~\E i \in DOMAIN calendar : calendar[i].owner = Merchant /\ calendar[i].slot = s
  /\ ~Conflicts(s)
  /\ calendar' = Append(calendar, Booking(Merchant, s, Len(calendar)))
  /\ UNCHANGED <<session, turn, leads, runs, told, sent, hits, faults>>

CancelBooking(i) ==
  /\ i \in Active
  /\ Cardinality({j \in DOMAIN calendar : calendar[j].status = "REMOVED"}) < MaxRemovals
  /\ calendar' = [calendar EXCEPT ![i].status = "REMOVED"]
  /\ UNCHANGED <<session, turn, leads, runs, told, sent, hits, faults>>

-----------------------------------------------------------------------------
(* A turn *)

Receive(c, m) ==
  /\ turn[c].pc = "idle" /\ sent[c] < Len(Says[c]) /\ m \in Says[c][sent[c] + 1]
  /\ sent' = [sent EXCEPT ![c] = @ + 1]
  /\ turn' = [turn EXCEPT ![c] = [IdleTurn EXCEPT !.pc = "decide", !.msg = m]]
  /\ UNCHANGED <<session, calendar, leads, runs, told, hits, faults>>

\* after: a complete, accepted request with a slot is booked, unless it is already.
MayBook(r) == r.done /\ r.session.slot # NoSlot /\ Accepted(r.session) /\ ~r.session.booked

\* The result is in memory; what is asked of the calendar now was read before.
Take(c, r, lead, fresh) ==
  turn' = [turn EXCEPT ![c] =
    [@ EXCEPT !.pc = IF MayBook(r) THEN "check" ELSE "commit",
              !.row = [status |-> IF r.done THEN "COMPLETED" ELSE "ACTIVE", body |-> r.session,
                       lead |-> ~fresh /\ session[c].lead],
              !.fresh = fresh, !.lead = lead /\ r.lead, !.stale = FALSE]]

Continue(c, free, readable) ==
  /\ session[c].status = "ACTIVE" /\ turn[c].msg.kind # "cancel"
  /\ \E r \in Process(session[c].body, turn[c].msg, free, readable) : Take(c, r, TRUE, FALSE)

Cancel(c) ==
  /\ session[c].status = "ACTIVE" /\ turn[c].msg.kind = "cancel"
  /\ turn' = [turn EXCEPT ![c].pc = "commit", ![c].stale = FALSE,
                          ![c].row = [session[c] EXCEPT !.status = "CANCELLED"]]

\* Fault: the session that moves does not note the old booking.
ReopenedForgets(b, m) ==
  [b EXCEPT !.state = IF m.time # NoTime /\ m.day = NoDay THEN SlotState ELSE DayState,
            !.offered = {}, !.slot = NoSlot, !.booked = FALSE]

\* A booked session that is asked to move goes back to its day or time step.
Reopened(b, m) ==
  [b EXCEPT !.state = IF m.time # NoTime /\ m.day = NoDay THEN SlotState ELSE DayState,
            !.offered = {}, !.slot = NoSlot, !.booked = FALSE, !.moveOf = b.booking]
MayMove(c) ==
  session[c].status = "COMPLETED" /\ session[c].body.booked /\ turn[c].msg.kind = "move"

Reopen(c, free, readable) ==
  LET m == turn[c].msg
      reopened == Reopened(session[c].body, m)
  IN /\ MayMove(c)
     /\ \E r \in IF NamesTime(m) THEN Process(reopened, m, free, readable) ELSE Same(reopened) :
          Take(c, r, FALSE, FALSE)

\* An open request of the customer keeps a second one out.
OpenRequest(c) == session[c].lead /\ session[c].status = "COMPLETED"
StartsFlow(c) == session[c].status # "ACTIVE" /\ turn[c].msg.kind = "hello" /\ ~OpenRequest(c)
Start(c, free, readable) ==
  /\ StartsFlow(c)
  /\ \E r \in Process(NewSession, turn[c].msg, free, readable) : Take(c, r, TRUE, TRUE)

\* Any other message outside the workflow gets an answer and changes no session.
Chat(c) ==
  /\ session[c].status # "ACTIVE" /\ ~MayMove(c) /\ ~StartsFlow(c)
  /\ turn' = [turn EXCEPT ![c] = IdleTurn]

\* Conversation, session and calendar are read and the engine answers.
Decide(c, readable) ==
  /\ turn[c].pc = "decide"
  /\ FaultIf(~readable, "calendar", c)
  /\ \/ Continue(c, Free, readable) \/ Reopen(c, Free, readable) \/ Start(c, Free, readable)
     \/ Cancel(c) \/ Chat(c)
  /\ UNCHANGED <<session, calendar, leads, runs, told, sent>>

-----------------------------------------------------------------------------
(* Booking: book, then the row of the turn *)

\* Somebody else has the time: another one is asked for while there are any that day.
Taken(t) ==
  LET left == FreeSlots(t.row.body.day, Free) IN
    IF left # {}
    THEN [t EXCEPT !.pc = "commit", !.lead = FALSE, !.row.status = "ACTIVE",
                   !.row.body.state = SlotState, !.row.body.offered = left, !.row.body.slot = NoSlot]
    ELSE [t EXCEPT !.pc = "commit", !.row.body.moveOf = 0]
\* The reply says that the team confirms the time.
NotBooked(t) == [t EXCEPT !.pc = "commit", !.row.body.moveOf = 0]

\* Fault: the time is not looked at again.
CheckNothing(c) ==
  /\ turn[c].pc = "check"
  /\ turn' = [turn EXCEPT ![c].pc = "insert", ![c].seen = Len(calendar)]
  /\ UNCHANGED <<session, calendar, leads, runs, told, sent, hits, faults>>

Check(c) ==
  LET s == turn[c].row.body.slot IN
    /\ turn[c].pc = "check"
    /\ turn' = [turn EXCEPT ![c] = IF Busy(s) THEN Taken(@)
                                   ELSE [@ EXCEPT !.pc = "insert", !.seen = Len(calendar)]]
    /\ UNCHANGED <<session, calendar, leads, runs, told, sent, hits, faults>>

\* isStillFree, the list of what is left, or the insert fails.
BookFails(c) ==
  /\ turn[c].pc \in {"check", "insert"}
  /\ Fault("calendar", c)
  /\ turn' = [turn EXCEPT ![c] = NotBooked(@)]
  /\ UNCHANGED <<session, calendar, leads, runs, told, sent>>

\* Fault: the old time is freed before the new one is booked.
InsertAfterCancel(c) ==
  LET b == turn[c].row.body
      old == {i \in Active : i = b.moveOf}
  IN /\ turn[c].pc = "insert"
     /\ IF old # {}
        THEN /\ calendar' = [i \in DOMAIN calendar |-> IF i \in old THEN [calendar[i] EXCEPT !.status = "MOVED"] ELSE calendar[i]]
             /\ turn' = turn
        ELSE IF Conflicts(b.slot)
        THEN turn' = [turn EXCEPT ![c] = Taken(@)] /\ calendar' = calendar
        ELSE /\ calendar' = Append(calendar, Booking(c, b.slot, turn[c].seen))
             /\ turn' = [turn EXCEPT ![c].pc = "commit", ![c].say = b.slot, ![c].row.body.booked = TRUE,
                                     ![c].row.body.booking = Len(calendar) + 1, ![c].row.body.moveOf = 0]
     /\ UNCHANGED <<session, leads, runs, told, sent, hits, faults>>

Insert(c) ==
  LET b == turn[c].row.body IN
    /\ turn[c].pc = "insert"
    /\ IF Conflicts(b.slot)
       THEN turn' = [turn EXCEPT ![c] = Taken(@)] /\ calendar' = calendar
       ELSE /\ calendar' = Append(calendar, Booking(c, b.slot, turn[c].seen))
            /\ turn' = [turn EXCEPT ![c] =
                 [@ EXCEPT !.pc = IF b.moveOf = 0 THEN "commit" ELSE "free", !.say = b.slot,
                           !.row.body.booked = TRUE, !.row.body.booking = Len(calendar) + 1]]
    /\ UNCHANGED <<session, leads, runs, told, sent, hits, faults>>

\* Fault: the new booking is the one that is cancelled.
FreeNew(c, fails) ==
  LET row == turn[c].row.body IN
    /\ turn[c].pc = "free"
    /\ FaultIf(fails, "calendar", c)
    /\ calendar' = IF ~fails /\ row.booking \in Active THEN [calendar EXCEPT ![row.booking].status = "MOVED"] ELSE calendar
    /\ turn' = [turn EXCEPT ![c].pc = "commit", ![c].row.body.moveOf = 0]
    /\ UNCHANGED <<session, leads, runs, told, sent>>

\* The new time is booked, so the old one is freed.  A failure is only logged.
FreeOld(c, fails) ==
  LET old == turn[c].row.body.moveOf IN
    /\ turn[c].pc = "free"
    /\ FaultIf(fails, "calendar", c)
    /\ calendar' = IF ~fails /\ old \in Active THEN [calendar EXCEPT ![old].status = "MOVED"] ELSE calendar
    /\ turn' = [turn EXCEPT ![c] = [@ EXCEPT !.pc = "commit", !.row.body.moveOf = 0]]
    /\ UNCHANGED <<session, leads, runs, told, sent>>

-----------------------------------------------------------------------------
(* The commit *)

\* Fault: every completion makes a lead.
MakesLeadAgain(c) == turn[c].lead /\ turn[c].row.status = "COMPLETED"

MakesLead(c) == turn[c].lead /\ turn[c].row.status = "COMPLETED" /\ ~turn[c].row.lead

\* commitConversationTurn: session, lead and reply in one transaction.
Commit(c) ==
  LET t == turn[c] IN
    /\ t.pc = "commit" /\ ~t.stale
    /\ session' = [session EXCEPT ![c] = [t.row EXCEPT !.lead = @ \/ MakesLead(c)]]
    /\ leads' = [leads EXCEPT ![c] = @ + (IF MakesLead(c) THEN 1 ELSE 0)]
    /\ runs' = [runs EXCEPT ![c] = @ + (IF t.fresh THEN 1 ELSE 0)]
    /\ told' = [told EXCEPT ![c] = IF t.say # NoSlot THEN t.say ELSE @]
    /\ turn' = [turn EXCEPT ![c] = IdleTurn]
    /\ UNCHANGED <<calendar, sent, hits, faults>>

\* Another writer has moved the conversation's version on.  The whole turn runs again
\* once; after that the customer is asked to send the message again.
Conflict(c) ==
  /\ turn[c].pc = "commit" /\ turn[c].stale
  /\ turn' = [turn EXCEPT ![c] = IF @.again THEN IdleTurn
                                 ELSE [IdleTurn EXCEPT !.pc = "decide", !.msg = turn[c].msg, !.again = TRUE]]
  /\ UNCHANGED <<session, calendar, leads, runs, told, sent, hits, faults>>

\* A person acts on the conversation while the turn runs.
Interfere(c) ==
  /\ turn[c].pc \notin {"idle", "decide"} /\ ~turn[c].stale
  /\ Fault("conflict", c)
  /\ turn' = [turn EXCEPT ![c].stale = TRUE]
  /\ UNCHANGED <<session, calendar, leads, runs, told, sent>>

\* The worker dies; the message is delivered again.
Crash(c) ==
  /\ turn[c].pc \notin {"idle", "decide"}
  /\ Fault("crash", c)
  /\ turn' = [turn EXCEPT ![c] = [IdleTurn EXCEPT !.pc = "decide", !.msg = turn[c].msg]]
  /\ UNCHANGED <<session, calendar, leads, runs, told, sent>>

-----------------------------------------------------------------------------
Turn(c) ==
  \/ \E readable \in BOOLEAN : Decide(c, readable)
  \/ Check(c) \/ BookFails(c) \/ Insert(c) \/ Commit(c) \/ Conflict(c)
  \/ \E fails \in BOOLEAN : FreeOld(c, fails)

Next ==
  \/ \E c \in Customers : Turn(c) \/ Interfere(c) \/ Crash(c) \/ \E m \in Messages(c) : Receive(c, m)
  \/ \E s \in MayBlock : Block(s)
  \/ \E i \in DOMAIN calendar : CancelBooking(i)

Spec == Init /\ [][Next]_vars
-----------------------------------------------------------------------------
(* Properties *)

Bodies ==
  [state : States, hist : Seq(States), started : BOOLEAN, answers : SUBSET States,
   confirmed : {"open", "yes", "no"}, unmatched : 0..MaxUnclear, misses : {0, 1},
   slot : Slots \cup {NoSlot}, day : Days \cup {NoDay}, offered : SUBSET Slots, booked : BOOLEAN,
   booking : 0..Len(calendar), moveOf : 0..Len(calendar)]
Rows == [status : {"NONE", "ACTIVE", "COMPLETED", "CANCELLED"}, body : Bodies, lead : BOOLEAN]

BookedBy(c) == {i \in Active : calendar[i].owner = c}
RemovedOf(c) == \E i \in DOMAIN calendar : calendar[i].owner = c /\ calendar[i].status = "REMOVED"

\* A customer who was told of an appointment has one, whatever fails while it is moved: the
\* new time is booked before the old one is freed.  Only the merchant takes it away.
NeverLosesAppointment ==
  \A c \in Customers : told[c] # NoSlot /\ ~RemovedOf(c) => BookedBy(c) # {}

\* Two active bookings of the same start never exist (the migration of "Booking"), and two
\* that overlap were not seen by each other's check: the first was inserted after the second
\* asked, or the second is the merchant's own block.
OverlapsNeedRaces ==
  \A i, j \in Active : i < j /\ <<calendar[i].slot, calendar[j].slot>> \in Overlap =>
    /\ calendar[i].slot # calendar[j].slot
    /\ i > calendar[j].seen \/ calendar[j].owner = Merchant

\* Between turns the customer's last confirmation is true, unless a fault hit the
\* customer's turns or the merchant removed the booking.
WhatWasSaidHolds ==
  \A c \in Customers :
    turn[c].pc = "idle" /\ told[c] # NoSlot /\ hits[c] = 0 /\ ~RemovedOf(c) =>
      \E i \in BookedBy(c) : calendar[i].slot = told[c]

\* A session makes one lead, and no booking is committed without it, however often the
\* appointment moves, a taken time puts the completion off or the turn runs again.
OneLeadPerRequest ==
  \A c \in Customers :
    /\ leads[c] <= runs[c]
    /\ session[c].body.booked => session[c].lead

\* "A booked appointment stays known after the flow ...: a request to move it reopens the day /
\* time steps of the same session (the old time is freed once the new one is booked)"
\* (ConversationEngine.ts:1419): however often a customer moves the time, with changes of mind
\* and detours, a request that goes on or ended with a time has one appointment and knows it,
\* if no fault hit its turns.  Only a request that is over without one, because its move came
\* to nothing, leaves an appointment that no session knows, and never two.
HasOrSeeks(c) ==
  session[c].status = "ACTIVE" \/ (session[c].status = "COMPLETED" /\ session[c].body.booked)
OwnAppointment(c) ==
  IF HasOrSeeks(c) THEN {session[c].body.booking, session[c].body.moveOf} ELSE {}
RequestsOver(c) == runs[c] - (IF HasOrSeeks(c) THEN 1 ELSE 0)
NoStrayAppointments ==
  \A c \in Customers :
    turn[c].pc = "idle" /\ hits[c] = 0 =>
      Cardinality(BookedBy(c) \ OwnAppointment(c)) <= RequestsOver(c)
=============================================================================
