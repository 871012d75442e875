------------------------- MODULE AppointmentsProofs -------------------------
(***************************************************************************)
(* Proofs about Appointments for every flow, calendar, set of customers,     *)
(* script of messages and number of faults.                                   *)
(***************************************************************************)
EXTENDS Appointments, TLAPS

-----------------------------------------------------------------------------
(* What a turn of the workflow, calendar layer included, does to a session *)

Fields == {"state", "hist", "started", "answers", "confirmed", "unmatched", "misses", "slot",
           "day", "offered", "booked", "booking", "moveOf"}

\* The booking that a session holds is not the workflow's to change; the slot is.
SameBooking(b, n) ==
  /\ DOMAIN n = Fields /\ n.slot \in Slots \cup {NoSlot}
  /\ n.booked = b.booked /\ n.booking = b.booking /\ n.moveOf = b.moveOf

\* An accepted request that is complete becomes a lead.
Fits(b, r) == SameBooking(b, r.session) /\ (r.done /\ Accepted(r.session) => r.lead)

LEMMA FinishFits ==
  ASSUME NEW b, NEW n, SameBooking(b, n), NEW done \in BOOLEAN, NEW r \in Finish(n, done)
  PROVE  Fits(b, r)
  BY DEF Finish, Fits

LEMMA SameFits ==
  ASSUME NEW b, NEW n, SameBooking(b, n), NEW r \in Same(n)
  PROVE  Fits(b, r)
  BY FinishFits DEF Same

LEMMA EndsBoolean == \A s : Ends(s) \in BOOLEAN
  BY DEF Ends

\* The updates that the workflow makes.
LEMMA Updates ==
  ASSUME NEW b, NEW n, SameBooking(b, n), NEW v, NEW w
  PROVE  /\ SameBooking(b, GoTo(n, v))
         /\ SameBooking(b, Past(n)) /\ SameBooking(b, Unmatched(n))
         /\ SameBooking(b, [n EXCEPT !.state = v])
         /\ SameBooking(b, [n EXCEPT !.state = v, !.hist = w])
         /\ SameBooking(b, [n EXCEPT !.state = v, !.unmatched = w])
         /\ SameBooking(b, [n EXCEPT !.answers = v, !.unmatched = w])
         /\ SameBooking(b, [n EXCEPT !.answers = v, !.state = w])
         /\ SameBooking(b, [n EXCEPT !.state = v, !.confirmed = w])
         /\ SameBooking(b, [n EXCEPT !.unmatched = v])
         /\ SameBooking(b, [n EXCEPT !.confirmed = v])
         /\ SameBooking(b, [n EXCEPT !.started = v])
         /\ SameBooking(b, [n EXCEPT !.misses = v])
         /\ SameBooking(b, [n EXCEPT !.offered = v])
         /\ SameBooking(b, [n EXCEPT !.day = v, !.offered = w])
         /\ v \in Slots => SameBooking(b, [n EXCEPT !.slot = v, !.answers = w])
<1>1. SameBooking(b, GoTo(n, v)) BY DEF SameBooking, GoTo, Fields
<1>2. SameBooking(b, Past(n)) BY DEF SameBooking, Past, Fields
<1>3. SameBooking(b, Unmatched(n)) BY DEF SameBooking, Unmatched, Fields
<1>4. /\ SameBooking(b, [n EXCEPT !.state = v])
      /\ SameBooking(b, [n EXCEPT !.state = v, !.hist = w])
      /\ SameBooking(b, [n EXCEPT !.state = v, !.unmatched = w])
      /\ SameBooking(b, [n EXCEPT !.answers = v, !.unmatched = w])
      /\ SameBooking(b, [n EXCEPT !.answers = v, !.state = w])
      /\ SameBooking(b, [n EXCEPT !.state = v, !.confirmed = w])
  BY DEF SameBooking, Fields
<1>5. /\ SameBooking(b, [n EXCEPT !.unmatched = v])
      /\ SameBooking(b, [n EXCEPT !.confirmed = v])
      /\ SameBooking(b, [n EXCEPT !.started = v])
      /\ SameBooking(b, [n EXCEPT !.misses = v])
      /\ SameBooking(b, [n EXCEPT !.offered = v])
      /\ SameBooking(b, [n EXCEPT !.day = v, !.offered = w])
      /\ v \in Slots => SameBooking(b, [n EXCEPT !.slot = v, !.answers = w])
  BY DEF SameBooking, Fields
<1> QED BY <1>1, <1>2, <1>3, <1>4, <1>5

LEMMA CloseFits ==
  ASSUME NEW b, NEW n, SameBooking(b, n), NEW r, NEW m,
         r \in Enter(n) \/ r \in StepLimit(n) \/ r \in Back(n) \/ r \in Confirm(n, m)
  PROVE  Fits(b, r)
<1>1. CASE r \in Enter(n) BY <1>1, FinishFits DEF Enter
<1>2. CASE r \in StepLimit(n) BY <1>2 DEF StepLimit, Fits
<1>3. CASE r \in Back(n)
  <2> DEFINE back == [n EXCEPT !.state = Last(n.hist), !.hist = Front(n.hist)]
  <2>1. SameBooking(b, back) BY Updates
  <2>2. r \in Same(n) \/ r \in Same(back) BY <1>3 DEF Back
  <2> QED BY ONLY <2>1, <2>2, SameFits, SameBooking(b, n)
<1>4. CASE r \in Confirm(n, m)
  <2> DEFINE next == Flow[n.state].next
             yes == GoTo([n EXCEPT !.confirmed = "yes"], next)
             no == [n EXCEPT !.confirmed = "no"]
             done == Ends(next) \/ Flow[next].type = "handoff"
  <2>1. SameBooking(b, yes) /\ SameBooking(b, no) BY Updates
  <2>2. done \in BOOLEAN BY DEF Ends
  <2>3. r \in Finish(yes, done) \/ r \in Finish(no, TRUE) \/ r \in Same(n)
    BY <1>4 DEF Confirm
  <2> HIDE DEF yes, no, done
  <2> QED BY <2>1, <2>2, <2>3, FinishFits, SameFits
<1> QED BY <1>1, <1>2, <1>3, <1>4

LEMMA ChoiceFits ==
  ASSUME NEW b, NEW n, SameBooking(b, n), NEW m, NEW r \in Choice(n, m)
  PROVE  Fits(b, r)
<1>1. CASE m.kind = "pick"
  <2>1. PICK o \in Flow[n.state].options :
             r \in Finish([Past(n) EXCEPT !.state = o, !.unmatched = 0], Flow[o].type = "end")
    BY <1>1 DEF Choice
  <2>2. SameBooking(b, [Past(n) EXCEPT !.state = o, !.unmatched = 0]) BY Updates
  <2> QED BY <2>1, <2>2, FinishFits
<1>2. CASE m.kind # "pick"
  <2>1. r \in Same(Unmatched(n)) \/ r \in Same(n) BY <1>2 DEF Choice
  <2> QED BY <2>1, Updates, SameFits
<1> QED BY <1>1, <1>2

LEMMA AdvanceFits ==
  ASSUME NEW b, NEW n, SameBooking(b, n), NEW r, r \in Advance(n) \/ r \in Undecided(n)
  PROVE  Fits(b, r)
<1>1. CASE r \in Advance(n)
  <2> DEFINE next == Flow[n.state].next
             answered == [Past(n) EXCEPT !.answers = @ \cup {n.state}, !.unmatched = 0]
             done == Ends(next) \/ Flow[next].type = "handoff"
  <2>1. SameBooking(b, answered) BY Updates
  <2>2. SameBooking(b, GoTo(answered, next)) BY <2>1, Updates
  <2>3. done \in BOOLEAN BY DEF Ends
  <2>4. r \in Finish(GoTo(answered, next), done) BY <1>1 DEF Advance
  <2> HIDE DEF answered, done
  <2> QED BY <2>2, <2>3, <2>4, FinishFits
<1>2. CASE r \in Undecided(n)
  <2>1. SameBooking(b, [Past(n) EXCEPT !.unmatched = 0]) BY Updates
  <2> QED BY <1>2, <2>1, FinishFits DEF Undecided
<1> QED BY <1>1, <1>2

LEMMA CollectFits ==
  ASSUME NEW b, NEW n, SameBooking(b, n), NEW m, NEW r \in Collect(n, m)
  PROVE  Fits(b, r)
<1>1. CASE r \in Undecided(n) BY <1>1, AdvanceFits
<1>2. CASE r \in Same(n) BY <1>2, SameFits
<1>3. ASSUME NEW reading \in Readings(n, m), r \in Interpreted(n, reading) PROVE Fits(b, r)
  <2>1. SameBooking(b, Unmatched(n)) BY Updates
  <2>2. CASE reading \in {"answer", "mixed"} BY <1>3, <2>2, AdvanceFits DEF Interpreted
  <2>3. CASE reading = "question"
    <3>1. r \in Same(n) \/ r \in Same(Unmatched(n)) BY <1>3, <2>3 DEF Interpreted
    <3> QED BY <2>1, <3>1, SameFits
  <2>4. CASE reading = "invalid" BY <1>3, <2>4, SameFits DEF Interpreted
  <2>5. CASE reading = "correction"
    <3>1. PICK s \in States :
               r \in Same(n) \/ r \in Same([n EXCEPT !.answers = @ \ {s}, !.state = s])
      BY <1>3, <2>5 DEF Interpreted, Correct
    <3>2. SameBooking(b, [n EXCEPT !.answers = @ \ {s}, !.state = s]) BY Updates
    <3> QED BY <3>1, <3>2, SameFits
  <2>6. CASE reading = "unclear"
    <3>1. r \in Unclear(n) BY <1>3, <2>6 DEF Interpreted
    <3>2. r \in Same(Unmatched(n)) \/ r \in Undecided(n) \/ r \in Same(n) \/ r \in Advance(n)
      BY <3>1 DEF Unclear
    <3> QED BY <2>1, <3>2, SameFits, AdvanceFits
  <2>7. reading \in {"question", "mixed", "answer", "invalid", "unclear", "correction"}
    BY <1>3 DEF Readings
  <2> QED BY <2>2, <2>3, <2>4, <2>5, <2>6, <2>7
<1> QED BY <1>1, <1>2, <1>3 DEF Collect

\* The engine.
LEMMA ProcessCoreFits ==
  ASSUME NEW b, NEW n, SameBooking(b, n), NEW m, NEW r \in ProcessCore(n, m)
  PROVE  Fits(b, r)
<1> DEFINE started == [n EXCEPT !.started = TRUE]
<1>1. SameBooking(b, started) BY Updates
<1>2. \/ r \in Finish(started, TRUE) \/ r \in Enter(started) \/ r \in StepLimit(started)
      \/ r \in Back(started) \/ r \in Choice(started, m) \/ r \in Collect(started, m)
      \/ r \in Confirm(started, m)
  BY DEF ProcessCore
<1> HIDE DEF started
<1> QED BY <1>1, <1>2, FinishFits, CloseFits, ChoiceFits, CollectFits

-----------------------------------------------------------------------------
(* The calendar layer *)

LEMMA SkipFits ==
  ASSUME NEW b, NEW n, SameBooking(b, n), NEW r \in SkipOptional(n)
  PROVE  Fits(b, r)
<1> DEFINE next == Flow[n.state].next
           new == [GoTo(Past(n), next) EXCEPT !.misses = 0]
<1>1. SameBooking(b, Past(n)) BY Updates
<1>2. SameBooking(b, GoTo(Past(n), next)) BY <1>1, Updates
<1>3. SameBooking(b, new) BY <1>2, Updates
<1>4. r = [session |-> new, done |-> Ends(next), lead |-> Ends(next)] BY DEF SkipOptional
<1> HIDE DEF new
<1> QED BY <1>3, <1>4 DEF Fits

LEMMA ChooseFits ==
  ASSUME NEW b, NEW n, SameBooking(b, n), NEW s, NEW free \in SUBSET Slots, NEW r \in Choose(n, s, free)
  PROVE  Fits(b, r)
<1> DEFINE left == [n EXCEPT !.offered = FreeSlots(n.day, free)]
           taken == [Past(n) EXCEPT !.slot = s, !.answers = @ \cup {n.state}]
           next == NextUnanswered(taken)
           chosen == GoTo(taken, next)
<1>1. CASE s \notin free
  <2>1. SameBooking(b, left) /\ r \in Same(left) BY <1>1, Updates DEF Choose
  <2> QED BY ONLY <2>1, SameFits
<1>2. CASE s \in free
  <2>1. SameBooking(b, Past(n)) BY Updates
  <2>2. SameBooking(b, taken) BY <1>2, <2>1, Updates
  <2> HIDE DEF taken
  <2>3. SameBooking(b, GoTo(taken, next)) BY <2>2, Updates
  <2>4. r = [session |-> chosen, done |-> Ends(next), lead |-> Ends(next)]
    BY <1>2 DEF Choose, taken
  <2> HIDE DEF chosen, next
  <2> QED BY <2>3, <2>4 DEF Fits, chosen
<1> QED BY <1>1, <1>2

LEMMA ChooseAnyFits ==
  ASSUME NEW b, NEW n, SameBooking(b, n), NEW slots, NEW free \in SUBSET Slots, NEW r \in ChooseAny(n, slots, free)
  PROVE  Fits(b, r)
<1>1. PICK s \in slots : r \in Choose(n, s, free) BY DEF ChooseAny
<1> QED BY <1>1, ChooseFits

LEMMA DayStepFits ==
  ASSUME NEW b, NEW n, SameBooking(b, n), NEW m, NEW free \in SUBSET Slots, NEW readable,
         NEW plain, \A r \in plain : Fits(b, r),
         NEW r \in DayStep(n, m, free, readable, plain)
  PROVE  Fits(b, r)
<1> DEFINE offer == [Offer(Past(n), m.day, free) EXCEPT !.answers = @ \cup {n.state},
                                                        !.state = Flow[n.state].next]
           slots == Match(m, offer.offered, m.day, free)
<1>1. SameBooking(b, Past(n)) BY Updates
<1>2. SameBooking(b, Offer(Past(n), m.day, free)) BY <1>1, Updates DEF Offer
<1>3. SameBooking(b, offer) BY <1>2, Updates
<1>4. r \in plain \/ r \in Same(n) \/ r \in Same(offer) \/ r \in ChooseAny(offer, slots, free)
  BY DEF DayStep
<1> HIDE DEF offer, slots
<1> QED BY <1>3, <1>4, SameFits, ChooseAnyFits

LEMMA SlotStepFits ==
  ASSUME NEW b, NEW n0, SameBooking(b, n0), NEW m, NEW free \in SUBSET Slots, NEW readable,
         NEW plain, \A r \in plain : Fits(b, r),
         NEW r \in SlotStep(n0, m, free, readable, plain)
  PROVE  Fits(b, r)
<1> DEFINE n == Relisted(n0, free, readable)
           slots == IF readable THEN Match(m, n.offered, n.day, free) ELSE MatchSlot(m, n.offered)
<1>1. SameBooking(b, n)
  <2>1. SameBooking(b, Offer(n0, n0.day, free)) BY Updates DEF Offer
  <2> QED BY <2>1 DEF Relisted
<1> HIDE DEF n
<1>2. \/ r \in plain \/ r \in Same(n) \/ r \in ChooseAny(n, slots, free)
      \/ r \in OtherDay(n, m, free)
  BY DEF SlotStep, n
<1>3. CASE r \in OtherDay(n, m, free)
  <2> DEFINE offer == Offer(n, m.day, free)
  <2>1. SameBooking(b, offer) BY <1>1, Updates DEF Offer
  <2>2. \/ r \in Same(n) \/ r \in Same(offer)
        \/ r \in ChooseAny(offer, MatchSlot(m, offer.offered), free)
    BY <1>3 DEF OtherDay
  <2> HIDE DEF offer
  <2> QED BY <1>1, <2>1, <2>2, SameFits, ChooseAnyFits
<1> QED BY <1>1, <1>2, <1>3, SameFits, ChooseAnyFits

LEMMA CalendarFits ==
  ASSUME NEW b, NEW n, SameBooking(b, n), NEW m, NEW free \in SUBSET Slots, NEW readable,
         NEW r \in Calendar(n, m, free, readable)
  PROVE  Fits(b, r)
<1> DEFINE plain == ProcessCore(n, m)
           invited == [Past(n) EXCEPT !.state = Flow[n.state].next, !.confirmed = "yes"]
           moving == [n EXCEPT !.state = SlotState]
<1>1. \A p \in plain : Fits(b, p) BY ProcessCoreFits
<1>2. SameBooking(b, Past(n)) BY Updates
<1>3. SameBooking(b, invited) BY <1>2, Updates
<1>4. SameBooking(b, moving) BY Updates
<1>5. \/ r \in DayStep(invited, m, free, readable, plain)
      \/ r \in SlotStep(moving, m, free, readable, plain)
      \/ r \in DayStep(n, m, free, readable, plain)
      \/ r \in SlotStep(n, m, free, readable, plain)
      \/ r \in plain
  BY DEF Calendar
<1> HIDE DEF plain, invited, moving
<1> QED BY <1>1, <1>3, <1>4, <1>5, DayStepFits, SlotStepFits

\* A turn leaves the booking of the session alone, and what it completes and accepts
\* becomes a lead.
LEMMA ProcessFits ==
  ASSUME NEW b, DOMAIN b = Fields, b.slot \in Slots \cup {NoSlot}, NEW m, NEW free \in SUBSET Slots, NEW readable,
         NEW r \in Process(b, m, free, readable)
  PROVE  Fits(b, r)
<1>1. SameBooking(b, b) BY DEF SameBooking
<1>2. SameBooking(b, Missed(b, m)) BY <1>1, Updates DEF Missed
<1>3. \/ r \in ProcessCore(b, m) \/ r \in SkipOptional(b)
      \/ r \in Calendar(Missed(b, m), m, free, readable) \/ r \in Same(b)
  BY DEF Process
<1> QED BY <1>1, <1>2, <1>3, ProcessCoreFits, SkipFits, CalendarFits, SameFits

-----------------------------------------------------------------------------
(* The inductive invariant *)

Pcs == {"idle", "decide", "check", "insert", "free", "commit"}
Bookings == [owner : Customers \cup {Merchant}, slot : Slots, seen : Nat,
             status : {"BOOKED", "REMOVED", "MOVED"}]

TypedRow(r) ==
  /\ DOMAIN r = {"status", "body", "lead"} /\ r.lead \in BOOLEAN
  /\ DOMAIN r.body = Fields /\ r.body.slot \in Slots \cup {NoSlot}
TypedTurn(t) ==
  /\ DOMAIN t = {"pc", "msg", "again", "stale", "row", "fresh", "lead", "say", "seen"}
  /\ t.pc \in Pcs /\ t.seen \in Nat /\ t.say \in Slots \cup {NoSlot}
  /\ TypedRow(t.row)
Typed ==
  /\ DOMAIN session = Customers /\ \A c \in Customers : TypedRow(session[c])
  /\ DOMAIN turn = Customers /\ \A c \in Customers : TypedTurn(turn[c])
  /\ calendar \in Seq(Bookings)
  /\ leads \in [Customers -> Nat] /\ runs \in [Customers -> Nat] /\ hits \in [Customers -> Nat]
  /\ told \in [Customers -> Slots \cup {NoSlot}]

Working(c) == turn[c].pc \in {"check", "insert", "free", "commit"}

\* The numbers of bookings in sessions are of the customer's own bookings: nobody frees the
\* time of another.
Owns(c, i) == i = 0 \/ (i \in DOMAIN calendar /\ calendar[i].owner = c)
Holdings(c) ==
  /\ Owns(c, session[c].body.booking) /\ Owns(c, session[c].body.moveOf)
  /\ Owns(c, turn[c].row.body.booking) /\ Owns(c, turn[c].row.body.moveOf)

\* What the reply of a turn is about to confirm is booked, and is not what it still frees.
Announced(c) ==
  LET b == turn[c].row.body IN
    /\ turn[c].pc = "free" => turn[c].say # NoSlot
    /\ turn[c].say # NoSlot =>
         /\ turn[c].pc \in {"free", "commit"}
         /\ b.booking \in DOMAIN calendar
         /\ calendar[b.booking].owner = c /\ calendar[b.booking].slot = turn[c].say
         /\ calendar[b.booking].status \in {"BOOKED", "REMOVED"}
         /\ turn[c].pc = "free" => b.booking # b.moveOf

\* A turn that asked for a free slot has seen every active booking that overlaps it, but
\* those inserted since.
SeenAll(c) ==
  turn[c].pc = "insert" =>
    /\ turn[c].seen <= Len(calendar)
    /\ \A i \in Active : i <= turn[c].seen => <<calendar[i].slot, turn[c].row.body.slot>> \notin Overlap

\* A session without a lead still has one to make.
OpenLeads(c) == IF session[c].lead \/ session[c].status = "NONE" THEN 0 ELSE 1
SessionLeads(c) ==
  /\ leads[c] + OpenLeads(c) <= runs[c]
  /\ session[c].body.booked => session[c].lead

\* What a turn commits knows of the lead of its session, and no booking comes without one.
FreshTurns(c) == turn[c].pc = "decide" => ~turn[c].fresh
TurnLeads(c) ==
  LET t == turn[c] IN Working(c) =>
    /\ t.row.status # "NONE"
    /\ IF t.fresh THEN ~t.row.lead ELSE t.row.lead = session[c].lead /\ session[c].status # "NONE"
    /\ t.row.body.booked => t.row.lead \/ (t.lead /\ t.row.status = "COMPLETED")
    /\ t.pc \in {"check", "insert"} =>
         /\ ~t.row.body.booked /\ t.row.body.slot # NoSlot
         /\ t.row.lead \/ (t.lead /\ t.row.status = "COMPLETED")

\* Without faults and removals the last confirmation is true at every moment.
StaleIsFault(c) == turn[c].stale => hits[c] > 0
ToldIsTrue(c) ==
  hits[c] = 0 /\ told[c] # NoSlot /\ turn[c].say = NoSlot /\ ~RemovedOf(c) =>
    \E i \in BookedBy(c) : calendar[i].slot = told[c]
Kept(c) == told[c] # NoSlot /\ ~RemovedOf(c) => BookedBy(c) # {}

Good(c) ==
  /\ Holdings(c) /\ Announced(c) /\ SeenAll(c)
  /\ SessionLeads(c) /\ FreshTurns(c) /\ TurnLeads(c)
  /\ StaleIsFault(c) /\ ToldIsTrue(c) /\ Kept(c)

AppointmentInd == Typed /\ (\A c \in Customers : Good(c)) /\ OverlapsNeedRaces

LEMMA TypedNewSession ==
  /\ DOMAIN NewSession = Fields /\ NewSession.slot = NoSlot /\ NewSession.booked = FALSE
  /\ NewSession.booking = 0 /\ NewSession.moveOf = 0
  BY DEF NewSession, Fields

LEMMA IdleFields ==
  /\ TypedTurn(IdleTurn) /\ IdleTurn.pc = "idle" /\ IdleTurn.say = NoSlot /\ IdleTurn.stale = FALSE
  /\ IdleTurn.row = NoRow /\ IdleTurn.fresh = FALSE /\ IdleTurn.lead = FALSE
<1>1. TypedRow(NoRow) BY TypedNewSession DEF TypedRow, NoRow
<1> QED BY <1>1 DEF IdleTurn, TypedTurn, Pcs

LEMMA NoRowFields ==
  /\ NoRow.status = "NONE" /\ NoRow.lead = FALSE /\ NoRow.body = NewSession
  /\ TypedRow(NoRow)
  BY TypedNewSession DEF NoRow, TypedRow

LEMMA InitInd == Init => AppointmentInd
<1> SUFFICES ASSUME Init PROVE AppointmentInd
  OBVIOUS
<1>1. calendar = <<>> /\ DOMAIN calendar = {} /\ Len(calendar) = 0 BY DEF Init
<1>2. Typed
  BY <1>1, IdleFields, NoRowFields DEF Init, Typed
<1>3. ASSUME NEW c \in Customers PROVE Good(c)
  <2>1. /\ session[c] = NoRow /\ turn[c] = IdleTurn /\ leads[c] = 0 /\ runs[c] = 0
        /\ told[c] = NoSlot /\ hits[c] = 0
    BY <1>3 DEF Init
  <2>2. Holdings(c) BY <2>1, IdleFields, NoRowFields, TypedNewSession DEF Holdings, Owns
  <2>3. Announced(c) /\ SeenAll(c) BY <2>1, IdleFields DEF Announced, SeenAll
  <2>4. SessionLeads(c) BY <2>1, NoRowFields, TypedNewSession DEF SessionLeads, OpenLeads
  <2>5. FreshTurns(c) /\ TurnLeads(c) /\ StaleIsFault(c)
    BY <2>1, IdleFields DEF FreshTurns, TurnLeads, Working, StaleIsFault
  <2>6. ToldIsTrue(c) /\ Kept(c) BY <2>1 DEF ToldIsTrue, Kept
  <2> QED BY <2>2, <2>3, <2>4, <2>5, <2>6 DEF Good
<1>4. OverlapsNeedRaces BY <1>1 DEF OverlapsNeedRaces, Active
<1> QED BY <1>2, <1>3, <1>4 DEF AppointmentInd

-----------------------------------------------------------------------------
(* The calendar grows, and a booking that ended stays ended *)

Follows ==
  /\ Len(calendar) <= Len(calendar')
  /\ \A i \in DOMAIN calendar :
       /\ i \in DOMAIN calendar'
       /\ calendar'[i].owner = calendar[i].owner /\ calendar'[i].slot = calendar[i].slot
       /\ calendar'[i].seen = calendar[i].seen
       /\ calendar[i].status # "BOOKED" => calendar'[i].status = calendar[i].status

\* Only the merchant may have ended bookings of c.
Undisturbed(c) ==
  \A i \in DOMAIN calendar :
    calendar[i].owner = c => calendar'[i].status \in {calendar[i].status, "REMOVED"}

\* Nothing that is new in the calendar is active under an old number.
Numbers == calendar \in Seq(Bookings) /\ calendar' \in Seq(Bookings)

LEMMA SameCalendar ==
  ASSUME calendar \in Seq(Bookings), calendar' = calendar, NEW c
  PROVE  Numbers /\ Follows /\ Undisturbed(c)
  BY DEF Numbers, Follows, Undisturbed

LEMMA Persists ==
  ASSUME Numbers, Follows, NEW c, Undisturbed(c), ~RemovedOf(c)'
  PROVE  /\ ~RemovedOf(c)
         /\ \A i \in BookedBy(c) : i \in BookedBy(c)' /\ calendar'[i].slot = calendar[i].slot
<1>1. ~RemovedOf(c)
  <2> SUFFICES ASSUME NEW i \in DOMAIN calendar, calendar[i].owner = c, calendar[i].status = "REMOVED"
               PROVE  FALSE
    BY DEF RemovedOf
  <2>1. i \in DOMAIN calendar' /\ calendar'[i].owner = c /\ calendar'[i].status = "REMOVED"
    BY DEF Follows
  <2> QED BY <2>1 DEF RemovedOf
<1>2. ASSUME NEW i \in BookedBy(c) PROVE i \in BookedBy(c)' /\ calendar'[i].slot = calendar[i].slot
  <2>1. i \in DOMAIN calendar /\ calendar[i].owner = c /\ calendar[i].status = "BOOKED"
    BY <1>2 DEF BookedBy, Active
  <2>2. /\ i \in DOMAIN calendar' /\ calendar'[i].owner = c /\ calendar'[i].slot = calendar[i].slot
        /\ calendar'[i].status \in {"BOOKED", "REMOVED"}
    BY <2>1 DEF Follows, Undisturbed
  <2>3. calendar'[i].status = "BOOKED" BY <2>2 DEF RemovedOf
  <2> QED BY <2>2, <2>3 DEF BookedBy, Active
<1> QED BY <1>1, <1>2

\* What a booking of c is to the properties does not change under c.
LEMMA OwnsStays ==
  ASSUME Follows, NEW c, NEW i, Owns(c, i)
  PROVE  i = 0 \/ (i \in DOMAIN calendar' /\ calendar'[i].owner = c)
  BY DEF Owns, Follows

LEMMA ActiveBefore ==
  ASSUME Numbers, Follows, NEW i \in Active', i <= Len(calendar)
  PROVE  i \in Active /\ calendar'[i].slot = calendar[i].slot
<1>1. i \in DOMAIN calendar BY DEF Active, Numbers
<1>2. calendar[i].status = "BOOKED" BY <1>1 DEF Active, Follows
<1> QED BY <1>1, <1>2 DEF Active, Follows

\* A customer who has no part in a step.
Untouched(c) ==
  /\ turn'[c] = turn[c] /\ session'[c] = session[c] /\ leads'[c] = leads[c]
  /\ runs'[c] = runs[c] /\ told'[c] = told[c] /\ hits'[c] = hits[c]

LEMMA SeenStays ==
  ASSUME Numbers, Follows, NEW c, SeenAll(c), turn[c].seen \in Nat,
         turn'[c].pc = "insert" => turn[c].pc = "insert",
         turn'[c].seen = turn[c].seen, turn'[c].row.body.slot = turn[c].row.body.slot
  PROVE  SeenAll(c)'
<1> SUFFICES ASSUME turn'[c].pc = "insert"
             PROVE  /\ turn[c].seen <= Len(calendar')
                    /\ \A i \in Active' : i <= turn[c].seen =>
                         <<calendar'[i].slot, turn[c].row.body.slot>> \notin Overlap
  BY DEF SeenAll
<1>1. turn[c].seen <= Len(calendar) BY DEF SeenAll
<1>2. Len(calendar) \in Nat /\ Len(calendar') \in Nat /\ Len(calendar) <= Len(calendar')
  BY DEF Numbers, Follows
<1>3. ASSUME NEW i \in Active', i <= turn[c].seen
      PROVE  <<calendar'[i].slot, turn[c].row.body.slot>> \notin Overlap
  <2>1. i \in Nat BY DEF Active, Numbers
  <2>2. i <= Len(calendar) BY <1>1, <1>2, <1>3, <2>1
  <2>3. i \in Active /\ calendar'[i].slot = calendar[i].slot BY <2>2, ActiveBefore
  <2> QED BY <1>3, <2>3 DEF SeenAll
<1> QED BY <1>1, <1>2, <1>3

LEMMA AnnouncedStays ==
  ASSUME Follows, NEW c, Undisturbed(c), Announced(c), turn'[c] = turn[c]
  PROVE  Announced(c)'
<1> DEFINE k == turn[c].row.body.booking
<1>1. CASE turn[c].say = NoSlot BY <1>1 DEF Announced
<1>2. CASE turn[c].say # NoSlot
  <2>1. /\ k \in DOMAIN calendar /\ calendar[k].owner = c /\ calendar[k].slot = turn[c].say
        /\ calendar[k].status \in {"BOOKED", "REMOVED"}
    BY <1>2 DEF Announced
  <2>2. /\ k \in DOMAIN calendar' /\ calendar'[k].owner = c /\ calendar'[k].slot = turn[c].say
        /\ calendar'[k].status \in {"BOOKED", "REMOVED"}
    BY <2>1 DEF Follows, Undisturbed
  <2> QED BY <1>2, <2>2 DEF Announced
<1> QED BY <1>1, <1>2

LEMMA OthersStayGood ==
  ASSUME Typed, Numbers, Follows, NEW c \in Customers, Undisturbed(c), Good(c), Untouched(c)
  PROVE  Good(c)'
<1>1. Holdings(c)' BY OwnsStays DEF Good, Holdings, Owns, Untouched
<1>2. Announced(c)' BY AnnouncedStays DEF Good, Untouched
<1>3. SeenAll(c)' BY SeenStays DEF Good, Untouched, Typed, TypedTurn
<1>4. SessionLeads(c)' /\ FreshTurns(c)' /\ TurnLeads(c)' /\ StaleIsFault(c)'
  BY DEF Good, SessionLeads, OpenLeads, FreshTurns, TurnLeads, Working, StaleIsFault, Untouched
<1>5. ToldIsTrue(c)' BY Persists DEF Good, ToldIsTrue, Untouched
<1>6. Kept(c)' BY Persists DEF Good, Kept, Untouched
<1> QED BY <1>1, <1>2, <1>3, <1>4, <1>5, <1>6 DEF Good

-----------------------------------------------------------------------------
(* Overlaps *)

LEMMA RacesStay ==
  ASSUME Numbers, Follows, Len(calendar') = Len(calendar), OverlapsNeedRaces
  PROVE  OverlapsNeedRaces'
<1> SUFFICES ASSUME NEW i \in Active', NEW j \in Active', i < j,
                    <<calendar'[i].slot, calendar'[j].slot>> \in Overlap
             PROVE  /\ calendar'[i].slot # calendar'[j].slot
                    /\ i > calendar'[j].seen \/ calendar'[j].owner = Merchant
  BY DEF OverlapsNeedRaces
<1>1. i \in DOMAIN calendar /\ j \in DOMAIN calendar /\ i <= Len(calendar) /\ j <= Len(calendar)
  BY DEF Active, Numbers
<1>2. /\ i \in Active /\ calendar'[i].slot = calendar[i].slot
      /\ j \in Active /\ calendar'[j].slot = calendar[j].slot
  BY <1>1, ActiveBefore
<1>3. calendar'[j].seen = calendar[j].seen /\ calendar'[j].owner = calendar[j].owner
  BY <1>1 DEF Follows
<1> QED BY <1>2, <1>3 DEF OverlapsNeedRaces

LEMMA AppendFollows ==
  ASSUME calendar \in Seq(Bookings), NEW new \in Bookings, calendar' = Append(calendar, new)
  PROVE  /\ Numbers /\ Follows /\ \A c \in Customers : Undisturbed(c)
         /\ Len(calendar') = Len(calendar) + 1 /\ calendar'[Len(calendar) + 1] = new
         /\ Len(calendar) + 1 \in DOMAIN calendar'
         /\ \A i \in DOMAIN calendar : calendar'[i] = calendar[i]
  BY DEF Numbers, Follows, Undisturbed

\* A new booking overlaps none that its check has seen.
LEMMA AppendRaces ==
  ASSUME calendar \in Seq(Bookings), NEW new \in Bookings, calendar' = Append(calendar, new),
         OverlapsNeedRaces, ~Conflicts(new.slot),
         \/ new.owner = Merchant
         \/ \A i \in Active : i <= new.seen => <<calendar[i].slot, new.slot>> \notin Overlap
  PROVE  OverlapsNeedRaces'
<1>0. /\ Numbers /\ Follows /\ Len(calendar') = Len(calendar) + 1
      /\ calendar'[Len(calendar) + 1] = new /\ Len(calendar) \in Nat
      /\ \A i \in DOMAIN calendar : calendar'[i] = calendar[i]
  BY AppendFollows
<1> SUFFICES ASSUME NEW i \in Active', NEW j \in Active', i < j,
                    <<calendar'[i].slot, calendar'[j].slot>> \in Overlap
             PROVE  /\ calendar'[i].slot # calendar'[j].slot
                    /\ i > calendar'[j].seen \/ calendar'[j].owner = Merchant
  BY DEF OverlapsNeedRaces
<1>1. /\ i \in Nat /\ j \in Nat /\ i <= Len(calendar) /\ (j <= Len(calendar) \/ j = Len(calendar) + 1)
      /\ i \in DOMAIN calendar
  BY <1>0 DEF Active, Numbers
<1>2. i \in Active /\ calendar'[i] = calendar[i] BY <1>0, <1>1, ActiveBefore
<1>3. CASE j <= Len(calendar)
  <2>1. j \in Active BY <1>0, <1>3, ActiveBefore
  <2>2. calendar'[j] = calendar[j] BY <1>0, <2>1 DEF Active
  <2> QED BY <1>2, <2>1, <2>2 DEF OverlapsNeedRaces
<1>4. CASE j = Len(calendar) + 1
  <2>1. calendar'[j] = new BY <1>0, <1>4
  <2>2. calendar[i].slot # new.slot BY <1>2 DEF Conflicts
  <2>3. new.seen \in Nat BY DEF Bookings
  <2>4. new.owner = Merchant \/ i > new.seen BY <1>1, <1>2, <2>1, <2>3
  <2> QED BY <1>2, <2>1, <2>2, <2>4
<1> QED BY <1>1, <1>3, <1>4

-----------------------------------------------------------------------------
(* Steps of one customer *)

LEMMA OneCustomer ==
  ASSUME AppointmentInd, Typed', Numbers, Follows, OverlapsNeedRaces', NEW c \in Customers,
         Good(c)', \A d \in Customers \ {c} : Undisturbed(d) /\ Untouched(d)
  PROVE  AppointmentInd'
<1>1. ASSUME NEW d \in Customers PROVE Good(d)'
  <2>1. CASE d = c BY <2>1
  <2>2. CASE d # c BY <2>2, OthersStayGood DEF AppointmentInd
  <2> QED BY <2>1, <2>2
<1> QED BY <1>1 DEF AppointmentInd

\* Only the turn of one customer moves.
OnlyTurn(c, new) ==
  /\ turn' = [turn EXCEPT ![c] = new]
  /\ UNCHANGED <<session, calendar, leads, runs, told>>
  /\ UNCHANGED hits \/ hits' = [hits EXCEPT ![c] = @ + 1]

LEMMA FaultHits ==
  ASSUME NEW c, NEW failed, NEW kind, FaultIf(failed, kind, c)
  PROVE  UNCHANGED hits \/ hits' = [hits EXCEPT ![c] = @ + 1]
  BY DEF FaultIf, Fault, NoFault

LEMMA OnlyTurnInd ==
  ASSUME AppointmentInd, NEW c \in Customers, NEW new, TypedTurn(new), OnlyTurn(c, new),
         Good(c)'
  PROVE  AppointmentInd'
<1>0. Typed /\ turn' = [turn EXCEPT ![c] = new] BY DEF AppointmentInd, OnlyTurn
<1>1. Typed'
  <2>1. DOMAIN turn' = Customers /\ \A d \in Customers : TypedTurn(turn'[d])
    BY <1>0 DEF Typed
  <2>2. hits' \in [Customers -> Nat]
    <3>1. hits \in [Customers -> Nat] BY <1>0 DEF Typed
    <3>2. UNCHANGED hits \/ hits' = [hits EXCEPT ![c] = hits[c] + 1] BY DEF OnlyTurn
    <3> QED BY <3>1, <3>2
  <2>3. UNCHANGED <<session, calendar, leads, runs, told>> BY DEF OnlyTurn
  <2>4. \A d \in Customers : TypedTurn(turn[d])' BY <2>1 DEF TypedTurn, TypedRow
  <2>5. \A d \in Customers : TypedRow(session[d])' BY <1>0, <2>3 DEF Typed, TypedRow
  <2> QED BY <1>0, <2>1, <2>2, <2>3, <2>4, <2>5 DEF Typed
<1>2. calendar' = calendar /\ calendar \in Seq(Bookings) BY DEF AppointmentInd, Typed, OnlyTurn
<1>3. Numbers /\ Follows BY <1>2, SameCalendar
<1>4. OverlapsNeedRaces' BY <1>2, <1>3, RacesStay DEF AppointmentInd
<1>5. \A d \in Customers \ {c} : Undisturbed(d) /\ Untouched(d)
  <2>1. \A d \in Customers \ {c} : Untouched(d)
    BY DEF AppointmentInd, Typed, OnlyTurn, Untouched
  <2> QED BY <1>2, <2>1, SameCalendar
<1> QED BY <1>1, <1>3, <1>4, <1>5, OneCustomer

LEMMA OnlyTurnFields ==
  ASSUME Typed, NEW c \in Customers, NEW new, OnlyTurn(c, new)
  PROVE  /\ turn'[c] = new /\ session'[c] = session[c] /\ leads'[c] = leads[c]
         /\ runs'[c] = runs[c] /\ told'[c] = told[c] /\ calendar' = calendar
         /\ hits[c] \in Nat /\ hits'[c] \in {hits[c], hits[c] + 1}
         /\ (hits' = [hits EXCEPT ![c] = @ + 1] => hits'[c] = hits[c] + 1)
         /\ BookedBy(c)' = BookedBy(c) /\ RemovedOf(c)' = RemovedOf(c) /\ Active' = Active
  BY DEF Typed, OnlyTurn, BookedBy, RemovedOf, Active

\* The properties of sessions and of what was said survive when only the turn moves, as long
\* as nothing that was announced is dropped without a fault.
LEMMA SessionStays ==
  ASSUME Typed, NEW c \in Customers, Good(c), NEW new, OnlyTurn(c, new),
         \/ turn[c].say = NoSlot
         \/ new.say # NoSlot
         \/ hits[c] > 0 \/ hits' = [hits EXCEPT ![c] = @ + 1]
  PROVE  SessionLeads(c)' /\ ToldIsTrue(c)' /\ Kept(c)'
<1>0. /\ turn'[c] = new /\ session'[c] = session[c] /\ leads'[c] = leads[c]
      /\ runs'[c] = runs[c] /\ told'[c] = told[c] /\ calendar' = calendar
      /\ hits[c] \in Nat /\ hits'[c] \in {hits[c], hits[c] + 1}
      /\ (hits' = [hits EXCEPT ![c] = @ + 1] => hits'[c] = hits[c] + 1)
      /\ BookedBy(c)' = BookedBy(c) /\ RemovedOf(c)' = RemovedOf(c)
  BY OnlyTurnFields
<1>1. SessionLeads(c)' BY <1>0 DEF Good, SessionLeads, OpenLeads
<1>2. ToldIsTrue(c)'
  <2> SUFFICES ASSUME hits'[c] = 0, told[c] # NoSlot, new.say = NoSlot, ~RemovedOf(c)
               PROVE  \E i \in BookedBy(c) : calendar[i].slot = told[c]
    BY <1>0 DEF ToldIsTrue
  <2>1. hits[c] = 0 /\ hits' # [hits EXCEPT ![c] = @ + 1] BY <1>0
  <2>2. turn[c].say = NoSlot BY <2>1
  <2> QED BY <2>1, <2>2 DEF Good, ToldIsTrue
<1>3. Kept(c)' BY <1>0 DEF Good, Kept
<1> QED BY <1>1, <1>2, <1>3

\* The customer starts over: nothing of the turn is left but its message.
LEMMA ResetInd ==
  ASSUME AppointmentInd, NEW c \in Customers, NEW new, TypedTurn(new), OnlyTurn(c, new),
         new.pc \in {"idle", "decide"}, new.say = NoSlot, ~new.stale, ~new.fresh, new.row = NoRow,
         \/ turn[c].say = NoSlot
         \/ hits[c] > 0 \/ hits' = [hits EXCEPT ![c] = @ + 1]
  PROVE  AppointmentInd'
<1>0. Typed /\ Good(c) BY DEF AppointmentInd
<1>1. turn'[c] = new /\ session'[c] = session[c] /\ calendar' = calendar
  BY <1>0, OnlyTurnFields
<1>2. Holdings(c)'
  BY <1>0, <1>1, NoRowFields, TypedNewSession DEF Good, Holdings, Owns
<1>3. Announced(c)' /\ SeenAll(c)' BY <1>1 DEF Announced, SeenAll
<1>4. FreshTurns(c)' /\ TurnLeads(c)' /\ StaleIsFault(c)'
  BY <1>1 DEF FreshTurns, TurnLeads, Working, StaleIsFault
<1>5. SessionLeads(c)' /\ ToldIsTrue(c)' /\ Kept(c)' BY <1>0, SessionStays
<1>6. Good(c)' BY <1>2, <1>3, <1>4, <1>5 DEF Good
<1> QED BY <1>6, OnlyTurnInd

LEMMA TypedReset ==
  ASSUME NEW m, NEW again
  PROVE  LET new == [IdleTurn EXCEPT !.pc = "decide", !.msg = m, !.again = again]
             first == [IdleTurn EXCEPT !.pc = "decide", !.msg = m]
         IN /\ TypedTurn(new) /\ new.pc = "decide" /\ new.say = NoSlot /\ ~new.stale /\ ~new.fresh
            /\ new.row = NoRow
            /\ TypedTurn(first) /\ first.pc = "decide" /\ first.say = NoSlot /\ ~first.stale
            /\ ~first.fresh /\ first.row = NoRow
  BY IdleFields DEF TypedTurn, Pcs

\* A message arrives, is answered outside the workflow, or has to be handled again.
LEMMA ResetsInd ==
  ASSUME AppointmentInd, NEW c \in Customers,
         \/ \E m \in Messages(c) : Receive(c, m)
         \/ turn[c].pc = "decide" /\ Chat(c)
            /\ UNCHANGED <<session, calendar, leads, runs, told>>
            /\ (UNCHANGED hits \/ hits' = [hits EXCEPT ![c] = @ + 1])
         \/ Conflict(c) \/ Crash(c)
  PROVE  AppointmentInd'
<1>0. Typed /\ Good(c) /\ Announced(c) /\ StaleIsFault(c) BY DEF AppointmentInd, Good
<1>i. TypedTurn(IdleTurn) /\ IdleTurn.pc = "idle" /\ IdleTurn.say = NoSlot /\ ~IdleTurn.stale
      /\ ~IdleTurn.fresh /\ IdleTurn.row = NoRow
  BY IdleFields
<1>1. ASSUME NEW m \in Messages(c), Receive(c, m) PROVE AppointmentInd'
  <2> DEFINE new == [IdleTurn EXCEPT !.pc = "decide", !.msg = m]
  <2>1. TypedTurn(new) /\ new.pc = "decide" /\ new.say = NoSlot /\ ~new.stale /\ ~new.fresh
        /\ new.row = NoRow
    BY TypedReset
  <2>2. turn' = [turn EXCEPT ![c] = new] /\ turn[c].pc = "idle"
        /\ UNCHANGED <<session, calendar, leads, runs, told, hits>>
    BY <1>1 DEF Receive
  <2> HIDE DEF new
  <2>3. OnlyTurn(c, new) BY <2>2 DEF OnlyTurn
  <2>4. turn[c].say = NoSlot BY <1>0, <2>2 DEF Announced
  <2> QED BY <2>1, <2>3, <2>4, ResetInd
<1>2. CASE turn[c].pc = "decide" /\ Chat(c)
           /\ UNCHANGED <<session, calendar, leads, runs, told>>
           /\ (UNCHANGED hits \/ hits' = [hits EXCEPT ![c] = @ + 1])
  <2>1. OnlyTurn(c, IdleTurn) BY <1>2 DEF Chat, OnlyTurn
  <2>2. turn[c].say = NoSlot BY <1>0, <1>2 DEF Announced
  <2> QED BY <1>i, <2>1, <2>2, ResetInd
<1>3. CASE Conflict(c)
  <2> DEFINE new == [IdleTurn EXCEPT !.pc = "decide", !.msg = turn[c].msg, !.again = TRUE]
  <2>1. TypedTurn(new) /\ new.pc = "decide" /\ new.say = NoSlot /\ ~new.stale /\ ~new.fresh
        /\ new.row = NoRow
    BY TypedReset
  <2>2. /\ turn' = [turn EXCEPT ![c] = IF turn[c].again THEN IdleTurn ELSE new] /\ turn[c].stale
        /\ UNCHANGED <<session, calendar, leads, runs, told, hits>>
    BY <1>3 DEF Conflict
  <2> HIDE DEF new
  <2>3. OnlyTurn(c, new) \/ OnlyTurn(c, IdleTurn) BY <2>2 DEF OnlyTurn
  <2>4. hits[c] > 0 BY <1>0, <2>2 DEF StaleIsFault
  <2> QED BY <1>i, <2>1, <2>3, <2>4, ResetInd
<1>4. CASE Crash(c)
  <2> DEFINE new == [IdleTurn EXCEPT !.pc = "decide", !.msg = turn[c].msg]
  <2>1. TypedTurn(new) /\ new.pc = "decide" /\ new.say = NoSlot /\ ~new.stale /\ ~new.fresh
        /\ new.row = NoRow
    BY TypedReset
  <2>2. /\ turn' = [turn EXCEPT ![c] = new] /\ hits' = [hits EXCEPT ![c] = @ + 1]
        /\ UNCHANGED <<session, calendar, leads, runs, told>>
    BY <1>4 DEF Crash, Fault
  <2> HIDE DEF new
  <2>3. OnlyTurn(c, new) BY <2>2 DEF OnlyTurn
  <2> QED BY <2>1, <2>2, <2>3, ResetInd
<1> QED BY <1>1, <1>2, <1>3, <1>4

LEMMA InterfereInd ==
  ASSUME AppointmentInd, NEW c \in Customers, Interfere(c)
  PROVE  AppointmentInd'
<1> DEFINE new == [turn[c] EXCEPT !.stale = TRUE]
<1>0. Typed /\ Good(c) /\ TypedTurn(turn[c]) /\ hits[c] \in Nat BY DEF AppointmentInd, Typed
<1>1. /\ TypedTurn(new) /\ new.pc = turn[c].pc /\ new.say = turn[c].say /\ new.row = turn[c].row
      /\ new.fresh = turn[c].fresh /\ new.lead = turn[c].lead /\ new.seen = turn[c].seen
  BY <1>0 DEF TypedTurn
<1>2. OnlyTurn(c, new) /\ hits' = [hits EXCEPT ![c] = @ + 1] BY DEF Interfere, Fault, OnlyTurn
<1> HIDE DEF new
<1>3. /\ turn'[c] = new /\ session'[c] = session[c] /\ calendar' = calendar
      /\ hits'[c] = hits[c] + 1 /\ Active' = Active
  BY <1>0, <1>2, OnlyTurnFields
<1>4. Holdings(c)' BY <1>0, <1>1, <1>3 DEF Good, Holdings, Owns
<1>5. Announced(c)' BY <1>0, <1>1, <1>3 DEF Good, Announced
<1>6. SeenAll(c)' BY <1>0, <1>1, <1>3 DEF Good, SeenAll
<1>7. FreshTurns(c)' /\ TurnLeads(c)' BY <1>0, <1>1, <1>3 DEF Good, FreshTurns, TurnLeads, Working
<1>8. StaleIsFault(c)' BY <1>0, <1>3 DEF StaleIsFault
<1>9. SessionLeads(c)' /\ ToldIsTrue(c)' /\ Kept(c)' BY <1>0, <1>2, SessionStays
<1>10. Good(c)' BY <1>4, <1>5, <1>6, <1>7, <1>8, <1>9 DEF Good
<1> QED BY <1>1, <1>2, <1>10, OnlyTurnInd

-----------------------------------------------------------------------------
(* The decision of a turn *)

\* A turn goes on with a row of the same bookings as `b`, a row that owes its lead or not.
LEMMA TakeInd ==
  ASSUME AppointmentInd, NEW c \in Customers, turn[c].pc = "decide",
         UNCHANGED <<session, calendar, leads, runs, told>>,
         UNCHANGED hits \/ hits' = [hits EXCEPT ![c] = @ + 1],
         NEW r, NEW lead \in BOOLEAN, NEW fresh \in BOOLEAN, Take(c, r, lead, fresh),
         DOMAIN r.session = Fields, r.session.slot \in Slots \cup {NoSlot},
         Owns(c, r.session.booking), Owns(c, r.session.moveOf),
         r.done /\ Accepted(r.session) => r.lead,
         fresh => ~r.session.booked /\ lead,
         ~fresh => session[c].status # "NONE",
         r.session.booked => session[c].lead,
         ~lead => session[c].lead
  PROVE  AppointmentInd'
<1> DEFINE newRow == [status |-> IF r.done THEN "COMPLETED" ELSE "ACTIVE", body |-> r.session,
                      lead |-> ~fresh /\ session[c].lead]
           new == [turn[c] EXCEPT !.pc = IF MayBook(r) THEN "check" ELSE "commit",
                                  !.row = newRow, !.fresh = fresh, !.lead = lead /\ r.lead,
                                  !.stale = FALSE]
<1>0. Typed /\ Good(c) /\ TypedTurn(turn[c]) /\ turn[c].say = NoSlot
  BY DEF AppointmentInd, Typed, Good, Announced
<1>1. /\ newRow.body = r.session /\ newRow.lead = (~fresh /\ session[c].lead)
      /\ newRow.status = (IF r.done THEN "COMPLETED" ELSE "ACTIVE") /\ TypedRow(newRow)
  BY DEF TypedRow
<1> HIDE DEF newRow
<1>2. /\ TypedTurn(new) /\ new.pc = (IF MayBook(r) THEN "check" ELSE "commit")
      /\ new.say = NoSlot /\ new.row = newRow /\ new.fresh = fresh
      /\ new.lead = (lead /\ r.lead) /\ new.stale = FALSE
  BY <1>0, <1>1 DEF TypedTurn, Pcs
<1>3. OnlyTurn(c, new) BY DEF Take, OnlyTurn, newRow
<1> HIDE DEF new
<1>4. /\ turn'[c] = new /\ session'[c] = session[c] /\ calendar' = calendar
  BY <1>0, <1>3, OnlyTurnFields
<1>5. Holdings(c)' BY <1>0, <1>1, <1>2, <1>4 DEF Good, Holdings, Owns
<1>6. Announced(c)' /\ SeenAll(c)' /\ FreshTurns(c)' /\ StaleIsFault(c)'
  BY <1>2, <1>4 DEF Announced, SeenAll, FreshTurns, StaleIsFault
<1>7. TurnLeads(c)'
  <2>1. newRow.status # "NONE" BY <1>1
  <2>2. IF fresh THEN ~newRow.lead ELSE newRow.lead = session[c].lead /\ session[c].status # "NONE"
    <3>1. session[c].lead \in BOOLEAN BY <1>0 DEF Typed, TypedRow
    <3> QED BY <1>1, <3>1
  <2>3. r.session.booked => newRow.lead BY <1>1
  <2>4. MayBook(r) => /\ ~r.session.booked /\ r.session.slot # NoSlot
                      /\ newRow.lead \/ (new.lead /\ newRow.status = "COMPLETED")
    BY <1>1, <1>2 DEF MayBook
  <2> QED BY <1>1, <1>2, <1>4, <2>1, <2>2, <2>3, <2>4 DEF TurnLeads
<1>8. SessionLeads(c)' /\ ToldIsTrue(c)' /\ Kept(c)' BY <1>0, <1>3, SessionStays
<1>9. Good(c)' BY <1>5, <1>6, <1>7, <1>8 DEF Good
<1> QED BY <1>2, <1>3, <1>9, OnlyTurnInd

\* What is read of a session or made of it fits the workflow.
LEMMA TypedSession ==
  ASSUME Typed, NEW c \in Customers
  PROVE  /\ DOMAIN session[c].body = Fields /\ session[c].body.slot \in Slots \cup {NoSlot}
         /\ session[c].lead \in BOOLEAN /\ Free \in SUBSET Slots
  BY DEF Typed, TypedRow, Free

LEMMA ReopenedFields ==
  ASSUME NEW b, DOMAIN b = Fields, NEW m
  PROVE  LET n == Reopened(b, m) IN
           /\ DOMAIN n = Fields /\ n.slot = NoSlot /\ n.booked = FALSE
           /\ n.booking = b.booking /\ n.moveOf = b.booking
  BY DEF Reopened, Fields

LEMMA CancelInd ==
  ASSUME AppointmentInd, NEW c \in Customers, turn[c].pc = "decide", Cancel(c),
         UNCHANGED <<session, calendar, leads, runs, told>>,
         UNCHANGED hits \/ hits' = [hits EXCEPT ![c] = @ + 1]
  PROVE  AppointmentInd'
<1> DEFINE newRow == [session[c] EXCEPT !.status = "CANCELLED"]
           new == [turn[c] EXCEPT !.pc = "commit", !.stale = FALSE, !.row = newRow]
<1>0. /\ Typed /\ Good(c) /\ TypedTurn(turn[c]) /\ turn[c].say = NoSlot /\ TypedRow(session[c])
      /\ ~turn[c].fresh
  BY DEF AppointmentInd, Typed, Good, Announced, FreshTurns
<1>1. /\ newRow.body = session[c].body /\ newRow.lead = session[c].lead
      /\ newRow.status = "CANCELLED" /\ TypedRow(newRow)
  BY <1>0 DEF TypedRow
<1>2. /\ TypedTurn(new) /\ new.pc = "commit" /\ new.say = NoSlot /\ new.row = newRow
      /\ new.fresh = turn[c].fresh /\ new.stale = FALSE
  BY <1>0, <1>1 DEF TypedTurn, Pcs
<1>3. OnlyTurn(c, new) BY <1>0 DEF Cancel, OnlyTurn, Typed
<1> HIDE DEF new, newRow
<1>4. turn'[c] = new /\ session'[c] = session[c] /\ calendar' = calendar
  BY <1>0, <1>3, OnlyTurnFields
<1>5. Holdings(c)' BY <1>0, <1>1, <1>2, <1>4 DEF Good, Holdings, Owns
<1>6. Announced(c)' /\ SeenAll(c)' /\ FreshTurns(c)' /\ StaleIsFault(c)'
  BY <1>2, <1>4 DEF Announced, SeenAll, FreshTurns, StaleIsFault
<1>7. TurnLeads(c)'
  <2>1. session[c].status = "ACTIVE" BY DEF Cancel
  <2>2. session[c].body.booked => session[c].lead BY <1>0 DEF Good, SessionLeads
  <2> QED BY <1>0, <1>1, <1>2, <1>4, <2>1, <2>2 DEF TurnLeads
<1>8. SessionLeads(c)' /\ ToldIsTrue(c)' /\ Kept(c)' BY <1>0, <1>3, SessionStays
<1>9. Good(c)' BY <1>5, <1>6, <1>7, <1>8 DEF Good
<1> QED BY <1>2, <1>3, <1>9, OnlyTurnInd

LEMMA DecideInd ==
  ASSUME AppointmentInd, NEW c \in Customers, NEW readable \in BOOLEAN, Decide(c, readable)
  PROVE  AppointmentInd'
<1> DEFINE b == session[c].body
           m == turn[c].msg
<1>0. /\ Typed /\ Holdings(c) /\ SessionLeads(c) /\ turn[c].pc = "decide"
      /\ UNCHANGED <<session, calendar, leads, runs, told>>
      /\ (UNCHANGED hits \/ hits' = [hits EXCEPT ![c] = @ + 1])
  BY FaultHits DEF AppointmentInd, Good, Decide
<1>b. /\ DOMAIN b = Fields /\ b.slot \in Slots \cup {NoSlot} /\ Free \in SUBSET Slots
      /\ Owns(c, b.booking) /\ Owns(c, b.moveOf) /\ (b.booked => session[c].lead)
  BY <1>0, TypedSession DEF Holdings, SessionLeads
<1>1. CASE Continue(c, Free, readable)
  <2>1. PICK r \in Process(b, m, Free, readable) : Take(c, r, TRUE, FALSE)
    BY <1>1 DEF Continue
  <2>2. Fits(b, r) BY <1>b, <2>1, ProcessFits
  <2>3. session[c].status # "NONE" BY <1>1 DEF Continue
  <2> QED BY <1>0, <1>b, <2>1, <2>2, <2>3, TakeInd DEF Fits, SameBooking
<1>2. CASE Reopen(c, Free, readable)
  <2> DEFINE n == Reopened(b, m)
  <2>1. /\ DOMAIN n = Fields /\ n.slot = NoSlot /\ n.booked = FALSE
        /\ n.booking = b.booking /\ n.moveOf = b.booking
    BY <1>b, ReopenedFields
  <2>2. PICK r : (r \in Process(n, m, Free, readable) \/ r \in Same(n)) /\ Take(c, r, FALSE, FALSE)
    BY <1>2 DEF Reopen
  <2>3. session[c].status # "NONE" /\ session[c].lead BY <1>2, <1>b DEF Reopen, MayMove
  <2> HIDE DEF n
  <2>4. SameBooking(n, n) BY <2>1 DEF SameBooking
  <2>5. Fits(n, r) BY <1>b, <2>1, <2>2, <2>4, ProcessFits, SameFits
  <2> QED BY <1>0, <1>b, <2>1, <2>2, <2>3, <2>5, TakeInd DEF Fits, SameBooking
<1>3. CASE Start(c, Free, readable)
  <2>1. PICK r \in Process(NewSession, m, Free, readable) : Take(c, r, TRUE, TRUE)
    BY <1>3 DEF Start
  <2>2. Fits(NewSession, r) BY <1>b, <2>1, TypedNewSession, ProcessFits
  <2>3. Owns(c, r.session.booking) /\ Owns(c, r.session.moveOf) /\ ~r.session.booked
    BY <2>2, TypedNewSession DEF Fits, SameBooking, Owns
  <2> QED BY <1>0, <2>1, <2>2, <2>3, TakeInd DEF Fits, SameBooking
<1>4. CASE Cancel(c) BY <1>0, <1>4, CancelInd
<1>5. CASE Chat(c) BY <1>0, <1>5, ResetsInd
<1> QED BY <1>1, <1>2, <1>3, <1>4, <1>5 DEF Decide

-----------------------------------------------------------------------------
(* Booking *)

\* A booking that does not come about goes to the commit with the session as it was.
Unbooked(t, new) ==
  /\ TypedTurn(new) /\ new.pc = "commit"
  /\ new.say = t.say /\ new.fresh = t.fresh /\ new.stale = t.stale
  /\ new.row.lead = t.row.lead /\ new.row.status \in {"ACTIVE", t.row.status}
  /\ new.row.body.booked = t.row.body.booked /\ new.row.body.booking = t.row.body.booking
  /\ new.row.body.moveOf \in {0, t.row.body.moveOf}

LEMMA NotBookedFields ==
  ASSUME NEW t, TypedTurn(t)
  PROVE  Unbooked(t, Taken(t)) /\ Unbooked(t, NotBooked(t))
<1> DEFINE later == [t EXCEPT !.pc = "commit", !.row.body.moveOf = 0]
           left == FreeSlots(t.row.body.day, Free)
           other == [t EXCEPT !.pc = "commit", !.lead = FALSE, !.row.status = "ACTIVE",
                              !.row.body.state = SlotState, !.row.body.offered = left,
                              !.row.body.slot = NoSlot]
<1>1. Unbooked(t, later) BY DEF TypedTurn, TypedRow, Unbooked, Pcs, Fields
<1>2. Unbooked(t, other)
  <2> HIDE DEF left
  <2> QED BY DEF TypedTurn, TypedRow, Unbooked, Pcs, Fields
<1> QED BY <1>1, <1>2 DEF Taken, NotBooked

LEMMA UnbookedInd ==
  ASSUME AppointmentInd, NEW c \in Customers, turn[c].pc \in {"check", "insert"}, NEW new,
         Unbooked(turn[c], new), OnlyTurn(c, new)
  PROVE  AppointmentInd'
<1>0. /\ Typed /\ Good(c) /\ turn[c].say = NoSlot /\ hits[c] \in Nat
  BY DEF AppointmentInd, Typed, Good, Announced
<1>1. /\ turn'[c] = new /\ session'[c] = session[c] /\ calendar' = calendar
      /\ hits'[c] \in {hits[c], hits[c] + 1}
  BY <1>0, OnlyTurnFields
<1>2. Holdings(c)' BY <1>0, <1>1 DEF Good, Holdings, Owns, Unbooked
<1>3. Announced(c)' /\ SeenAll(c)' /\ FreshTurns(c)'
  BY <1>0, <1>1 DEF Announced, SeenAll, FreshTurns, Unbooked
<1>4. TurnLeads(c)' BY <1>0, <1>1 DEF Good, TurnLeads, Working, Unbooked
<1>5. StaleIsFault(c)' BY <1>0, <1>1 DEF Good, StaleIsFault, Unbooked
<1>6. SessionLeads(c)' /\ ToldIsTrue(c)' /\ Kept(c)' BY <1>0, SessionStays
<1>7. Good(c)' BY <1>2, <1>3, <1>4, <1>5, <1>6 DEF Good
<1> QED BY <1>7, OnlyTurnInd DEF Unbooked

LEMMA CheckInd ==
  ASSUME AppointmentInd, NEW c \in Customers, Check(c)
  PROVE  AppointmentInd'
<1> DEFINE s == turn[c].row.body.slot
           new == [turn[c] EXCEPT !.pc = "insert", !.seen = Len(calendar)]
<1>0. /\ Typed /\ Good(c) /\ TypedTurn(turn[c]) /\ turn[c].say = NoSlot /\ turn[c].pc = "check"
      /\ Len(calendar) \in Nat
  BY DEF AppointmentInd, Typed, Good, Announced, Check
<1>1. CASE Busy(s)
  <2>1. OnlyTurn(c, Taken(turn[c])) BY <1>1 DEF Check, OnlyTurn
  <2> QED BY <1>0, <2>1, NotBookedFields, UnbookedInd
<1>2. CASE ~Busy(s)
  <2>1. OnlyTurn(c, new) BY <1>2 DEF Check, OnlyTurn
  <2>2. /\ TypedTurn(new) /\ new.pc = "insert" /\ new.seen = Len(calendar) /\ new.say = NoSlot
        /\ new.row = turn[c].row /\ new.fresh = turn[c].fresh /\ new.stale = turn[c].stale
        /\ new.lead = turn[c].lead
    BY <1>0 DEF TypedTurn, Pcs
  <2> HIDE DEF new
  <2>3. /\ turn'[c] = new /\ session'[c] = session[c] /\ calendar' = calendar /\ Active' = Active
        /\ hits' = hits
    BY <1>0, <2>1, OnlyTurnFields DEF Check
  <2>4. Holdings(c)' BY <1>0, <2>2, <2>3 DEF Good, Holdings, Owns
  <2>5. Announced(c)' /\ FreshTurns(c)' BY <2>2, <2>3 DEF Announced, FreshTurns
  <2>6. SeenAll(c)' BY <1>0, <1>2, <2>2, <2>3 DEF SeenAll, Busy
  <2>7. TurnLeads(c)' BY <1>0, <2>2, <2>3 DEF Good, TurnLeads, Working
  <2>8. StaleIsFault(c)' BY <1>0, <2>2, <2>3 DEF Good, StaleIsFault
  <2>9. SessionLeads(c)' /\ ToldIsTrue(c)' /\ Kept(c)' BY <1>0, <2>1, SessionStays
  <2>10. Good(c)' BY <2>4, <2>5, <2>6, <2>7, <2>8, <2>9 DEF Good
  <2> QED BY <2>1, <2>2, <2>10, OnlyTurnInd
<1> QED BY <1>1, <1>2

LEMMA BookFailsInd ==
  ASSUME AppointmentInd, NEW c \in Customers, BookFails(c)
  PROVE  AppointmentInd'
<1>0. TypedTurn(turn[c]) /\ turn[c].pc \in {"check", "insert"}
  BY DEF AppointmentInd, Typed, BookFails
<1>1. OnlyTurn(c, NotBooked(turn[c])) BY DEF BookFails, Fault, OnlyTurn
<1> QED BY <1>0, <1>1, NotBookedFields, UnbookedInd

\* The insert: the new booking is announced before the old one is touched.
LEMMA InsertInd ==
  ASSUME AppointmentInd, NEW c \in Customers, Insert(c)
  PROVE  AppointmentInd'
<1> DEFINE b == turn[c].row.body
           n == Len(calendar) + 1
           new == [turn[c] EXCEPT !.pc = IF b.moveOf = 0 THEN "commit" ELSE "free",
                                  !.say = b.slot, !.row.body.booked = TRUE,
                                  !.row.body.booking = n]
           made == Booking(c, b.slot, turn[c].seen)
<1>a. Typed /\ Good(c) /\ OverlapsNeedRaces /\ turn[c].pc = "insert" BY DEF AppointmentInd, Insert
<1>b. TypedTurn(turn[c]) /\ calendar \in Seq(Bookings) BY <1>a DEF Typed
<1>c. Len(calendar) \in Nat BY <1>b
<1>d. turn[c].say = NoSlot BY <1>a DEF Good, Announced
<1>0. /\ Typed /\ Good(c) /\ TypedTurn(turn[c]) /\ turn[c].say = NoSlot /\ turn[c].pc = "insert"
      /\ Len(calendar) \in Nat /\ calendar \in Seq(Bookings) /\ OverlapsNeedRaces
  BY <1>a, <1>b, <1>c, <1>d
<1>1. CASE Conflicts(b.slot)
  <2>1. OnlyTurn(c, Taken(turn[c])) BY <1>1 DEF Insert, OnlyTurn
  <2> QED BY <1>0, <2>1, NotBookedFields, UnbookedInd
<1>2. CASE ~Conflicts(b.slot)
  <2>1. /\ calendar' = Append(calendar, made) /\ UNCHANGED <<session, leads, runs, told, hits>>
        /\ turn' = [turn EXCEPT ![c] = new]
    BY <1>2 DEF Insert
  <2>2. b.slot \in Slots /\ b.slot # NoSlot
    <3>1. b.slot \in Slots \cup {NoSlot} BY <1>0 DEF TypedTurn, TypedRow
    <3>2. b.slot # NoSlot BY <1>0 DEF Good, TurnLeads, Working
    <3> QED BY <3>1, <3>2
  <2>3. made \in Bookings BY <1>0, <2>2 DEF Booking, Bookings, TypedTurn
  <2>m. made.owner = c /\ made.slot = b.slot /\ made.status = "BOOKED" /\ made.seen = turn[c].seen
    BY DEF Booking
  <2>4. /\ Numbers /\ Follows /\ \A d \in Customers : Undisturbed(d)
        /\ calendar'[n] = made /\ n \in DOMAIN calendar'
    BY <1>0, <2>1, <2>3, AppendFollows
  <2>5. /\ TypedTurn(new) /\ new.pc = (IF b.moveOf = 0 THEN "commit" ELSE "free")
        /\ new.say = b.slot /\ new.fresh = turn[c].fresh /\ new.stale = turn[c].stale
        /\ new.lead = turn[c].lead /\ new.row.lead = turn[c].row.lead
        /\ new.row.status = turn[c].row.status
        /\ new.row.body.booking = n /\ new.row.body.moveOf = b.moveOf
    BY <1>0 DEF TypedTurn, TypedRow, Pcs, Fields
  <2> HIDE DEF new, made
  <2>6. turn'[c] = new /\ \A d \in Customers \ {c} : turn'[d] = turn[d]
    BY <1>0, <2>1 DEF Typed
  <2>7. Typed'
    <3>1. DOMAIN turn' = Customers /\ \A d \in Customers : TypedTurn(turn'[d])
      BY <1>0, <2>1, <2>5 DEF Typed
    <3>2. \A d \in Customers : TypedTurn(turn[d])' BY <3>1 DEF TypedTurn, TypedRow
    <3>3. \A d \in Customers : TypedRow(session[d])' BY <1>0, <2>1 DEF Typed, TypedRow
    <3> QED BY <1>0, <2>1, <2>4, <3>1, <3>2, <3>3 DEF Typed, Numbers
  <2>8. OverlapsNeedRaces'
    <3>1. \A i \in Active : i <= made.seen => <<calendar[i].slot, made.slot>> \notin Overlap
      BY <1>0, <2>m DEF Good, SeenAll
    <3> QED BY <1>0, <1>2, <2>1, <2>3, <2>m, <3>1, AppendRaces
  <2>9. Good(c)'
    <3>2. \A i : Owns(c, i) => Owns(c, i)' BY <2>4 DEF Owns, Follows
    <3>3. Holdings(c)'
      <4>1. Owns(c, session[c].body.booking)' /\ Owns(c, session[c].body.moveOf)'
        BY <1>0, <2>1, <3>2 DEF Good, Holdings, Owns
      <4>2. (turn[c].row.body.booking)' = n /\ (turn[c].row.body.moveOf)' = b.moveOf
        BY <2>5, <2>6
      <4>3. b.moveOf = 0 \/ (b.moveOf \in DOMAIN calendar' /\ calendar'[b.moveOf].owner = c)
        BY <1>0, <3>2 DEF Good, Holdings, Owns
      <4> QED BY <2>4, <2>m, <4>1, <4>2, <4>3 DEF Holdings, Owns
    <3>4. b.moveOf # n
      <4>1. b.moveOf = 0 \/ b.moveOf \in 1..Len(calendar)
        BY <1>0 DEF Good, Holdings, Owns
      <4> QED BY <1>0, <4>1
    <3>5. Announced(c)' BY <2>2, <2>4, <2>5, <2>6, <2>m, <3>4 DEF Announced
    <3>6. SeenAll(c)' /\ FreshTurns(c)' BY <2>5, <2>6 DEF SeenAll, FreshTurns
    <3>7. TurnLeads(c)' /\ SessionLeads(c)'
      BY <1>0, <2>1, <2>5, <2>6 DEF Good, TurnLeads, Working, SessionLeads, OpenLeads
    <3>8. StaleIsFault(c)' BY <1>0, <2>1, <2>5, <2>6 DEF Good, StaleIsFault
    <3>9. ToldIsTrue(c)' BY <2>2, <2>5, <2>6, CalendarAssumption DEF ToldIsTrue
    <3>10. Kept(c)' BY <1>0, <2>1, <2>4, Persists DEF Good, Kept
    <3> QED BY <3>3, <3>5, <3>6, <3>7, <3>8, <3>9, <3>10 DEF Good
  <2>10. \A d \in Customers \ {c} : Untouched(d) BY <2>1, <2>6 DEF Untouched
  <2> QED BY <2>4, <2>7, <2>8, <2>9, <2>10, OneCustomer
<1> QED BY <1>1, <1>2

\* One booking ends, taken away by the merchant or moved by its customer.
LEMMA EndFollows ==
  ASSUME calendar \in Seq(Bookings), NEW i \in Active, NEW status \in {"REMOVED", "MOVED"},
         calendar' = [calendar EXCEPT ![i].status = status]
  PROVE  /\ Numbers /\ Follows /\ Len(calendar') = Len(calendar)
         /\ \A k \in DOMAIN calendar : k # i => calendar'[k] = calendar[k]
         /\ calendar'[i].status = status /\ calendar'[i].owner = calendar[i].owner
         /\ i \in DOMAIN calendar /\ DOMAIN calendar' = DOMAIN calendar
         /\ calendar[i].status = "BOOKED"
<1> DEFINE new == [calendar[i] EXCEPT !.status = status]
<1>1. i \in DOMAIN calendar /\ calendar[i] \in Bookings /\ calendar[i].status = "BOOKED"
  BY DEF Active
<1>2. /\ new \in Bookings /\ new.status = status /\ new.owner = calendar[i].owner
      /\ new.slot = calendar[i].slot /\ new.seen = calendar[i].seen
  BY <1>1 DEF Bookings
<1>3. calendar' = [calendar EXCEPT ![i] = new] OBVIOUS
<1> HIDE DEF new
<1>4. calendar' \in Seq(Bookings) /\ Len(calendar') = Len(calendar)
      /\ DOMAIN calendar' = DOMAIN calendar
  BY <1>1, <1>2, <1>3
<1>5. \A k \in DOMAIN calendar : calendar'[k] = IF k = i THEN new ELSE calendar[k]
  BY <1>1, <1>3
<1>6. Follows BY <1>1, <1>2, <1>4, <1>5 DEF Follows
<1> QED BY <1>1, <1>2, <1>4, <1>5, <1>6 DEF Numbers

LEMMA FreeOldInd ==
  ASSUME AppointmentInd, NEW c \in Customers, NEW fails \in BOOLEAN, FreeOld(c, fails)
  PROVE  AppointmentInd'
<1> DEFINE b == turn[c].row.body
           new == [turn[c] EXCEPT !.pc = "commit", !.row.body.moveOf = 0]
<1>a. Typed /\ Good(c) /\ OverlapsNeedRaces /\ turn[c].pc = "free" BY DEF AppointmentInd, FreeOld
<1>b. TypedTurn(turn[c]) /\ calendar \in Seq(Bookings) /\ hits \in [Customers -> Nat]
  BY <1>a DEF Typed
<1>1. /\ UNCHANGED <<session, leads, runs, told>>
      /\ (UNCHANGED hits \/ hits' = [hits EXCEPT ![c] = @ + 1])
      /\ turn' = [turn EXCEPT ![c] = new]
  BY FaultHits DEF FreeOld
<1>2. \/ calendar' = calendar
      \/ b.moveOf \in Active /\ calendar' = [calendar EXCEPT ![b.moveOf].status = "MOVED"]
  BY DEF FreeOld
<1>3. /\ TypedTurn(new) /\ new.pc = "commit" /\ new.say = turn[c].say
      /\ new.fresh = turn[c].fresh /\ new.stale = turn[c].stale /\ new.lead = turn[c].lead
      /\ new.row.lead = turn[c].row.lead /\ new.row.status = turn[c].row.status
      /\ new.row.body.booked = b.booked /\ new.row.body.booking = b.booking
      /\ new.row.body.moveOf = 0
  BY <1>b DEF TypedTurn, TypedRow, Pcs, Fields
<1> HIDE DEF new
<1>4. turn'[c] = new /\ \A d \in Customers \ {c} : turn'[d] = turn[d]
  BY <1>a, <1>1 DEF Typed
<1>5. /\ hits' \in [Customers -> Nat] /\ hits'[c] \in {hits[c], hits[c] + 1} /\ hits[c] \in Nat
      /\ \A d \in Customers \ {c} : hits'[d] = hits[d]
  <2>1. UNCHANGED hits \/ hits' = [hits EXCEPT ![c] = hits[c] + 1] BY <1>1
  <2> QED BY <1>b, <2>1
<1>6. Numbers /\ Follows /\ Len(calendar') = Len(calendar)
  <2>1. CASE calendar' = calendar BY <1>b, <2>1, SameCalendar
  <2>2. CASE b.moveOf \in Active /\ calendar' = [calendar EXCEPT ![b.moveOf].status = "MOVED"]
    BY <1>b, <2>2, EndFollows
  <2> QED BY <1>2, <2>1, <2>2
<1>7. ASSUME NEW k \in DOMAIN calendar, k # b.moveOf \/ calendar[k].owner # c
      PROVE  calendar'[k] = calendar[k]
  <2>1. CASE calendar' = calendar BY <2>1
  <2>2. CASE b.moveOf \in Active /\ calendar' = [calendar EXCEPT ![b.moveOf].status = "MOVED"]
    <3>1. b.moveOf = 0 \/ (b.moveOf \in DOMAIN calendar /\ calendar[b.moveOf].owner = c)
      BY <1>a DEF Good, Holdings, Owns
    <3>2. b.moveOf # 0 BY <1>b, <2>2 DEF Active
    <3>3. k # b.moveOf BY <1>7, <3>1, <3>2
    <3> QED BY <1>b, <2>2, <3>3, EndFollows
  <2> QED BY <1>2, <2>1, <2>2
<1>8. \A d \in Customers \ {c} : Undisturbed(d) /\ Untouched(d)
  <2>1. \A d \in Customers \ {c} : Undisturbed(d) BY <1>7 DEF Undisturbed
  <2>2. \A d \in Customers \ {c} : Untouched(d) BY <1>1, <1>4, <1>5 DEF Untouched
  <2> QED BY <2>1, <2>2
<1>9. Typed'
  <2>1. DOMAIN turn' = Customers /\ \A d \in Customers : TypedTurn(turn'[d])
    BY <1>a, <1>1, <1>3 DEF Typed
  <2>2. \A d \in Customers : TypedTurn(turn[d])' BY <2>1 DEF TypedTurn, TypedRow
  <2>3. \A d \in Customers : TypedRow(session[d])' BY <1>a, <1>1 DEF Typed, TypedRow
  <2> QED BY <1>a, <1>1, <1>5, <1>6, <2>1, <2>2, <2>3 DEF Typed, Numbers
<1>10. OverlapsNeedRaces' BY <1>a, <1>6, RacesStay
<1>11. Good(c)'
  <2>1. /\ turn[c].say # NoSlot /\ b.booking \in DOMAIN calendar
        /\ calendar[b.booking].owner = c /\ calendar[b.booking].slot = turn[c].say
        /\ calendar[b.booking].status \in {"BOOKED", "REMOVED"} /\ b.booking # b.moveOf
    BY <1>a DEF Good, Announced
  <2>2. calendar'[b.booking] = calendar[b.booking] /\ b.booking \in DOMAIN calendar'
    BY <1>6, <1>7, <2>1 DEF Follows
  <2>3. Holdings(c)'
    <3>1. \A i : Owns(c, i) => Owns(c, i)' BY <1>6 DEF Owns, Follows
    <3>2. Owns(c, session[c].body.booking)' /\ Owns(c, session[c].body.moveOf)'
      BY <1>a, <1>1, <3>1 DEF Good, Holdings, Owns
    <3>3. (turn[c].row.body.booking)' = b.booking /\ (turn[c].row.body.moveOf)' = 0
      BY <1>3, <1>4
    <3> QED BY <2>1, <2>2, <3>2, <3>3 DEF Holdings, Owns
  <2>4. Announced(c)' BY <1>3, <1>4, <2>1, <2>2 DEF Announced
  <2>5. SeenAll(c)' /\ FreshTurns(c)' BY <1>3, <1>4 DEF SeenAll, FreshTurns
  <2>6. TurnLeads(c)' /\ SessionLeads(c)'
    BY <1>a, <1>1, <1>3, <1>4 DEF Good, TurnLeads, Working, SessionLeads, OpenLeads
  <2>7. StaleIsFault(c)' BY <1>a, <1>3, <1>4, <1>5 DEF Good, StaleIsFault
  <2>8. ToldIsTrue(c)' BY <1>3, <1>4, <2>1 DEF ToldIsTrue
  <2>9. Kept(c)'
    <3> SUFFICES ASSUME ~RemovedOf(c)' PROVE BookedBy(c)' # {}
      BY DEF Kept
    <3>1. calendar'[b.booking].status = "BOOKED" BY <2>1, <2>2 DEF RemovedOf
    <3>2. b.booking \in BookedBy(c)' BY <2>1, <2>2, <3>1 DEF BookedBy, Active
    <3> QED BY <3>2
  <2> QED BY <2>3, <2>4, <2>5, <2>6, <2>7, <2>8, <2>9 DEF Good
<1> QED BY <1>6, <1>8, <1>9, <1>10, <1>11, OneCustomer

-----------------------------------------------------------------------------
(* The commit and the merchant *)

LEMMA CommitInd ==
  ASSUME AppointmentInd, NEW c \in Customers, Commit(c)
  PROVE  AppointmentInd'
<1> DEFINE t == turn[c]
           lead == t.row.lead \/ MakesLead(c)
           new == [t.row EXCEPT !.lead = lead]
           more == IF MakesLead(c) THEN 1 ELSE 0
           run == IF t.fresh THEN 1 ELSE 0
           say == IF t.say # NoSlot THEN t.say ELSE told[c]
<1>a. Typed /\ Good(c) /\ OverlapsNeedRaces /\ t.pc = "commit" BY DEF AppointmentInd, Commit
<1>b. /\ TypedTurn(t) /\ TypedRow(t.row) /\ calendar \in Seq(Bookings) /\ hits[c] \in Nat
      /\ leads \in [Customers -> Nat] /\ runs \in [Customers -> Nat]
      /\ told \in [Customers -> Slots \cup {NoSlot}]
  BY <1>a DEF Typed, TypedTurn
<1>1. /\ session' = [session EXCEPT ![c] = new] /\ leads' = [leads EXCEPT ![c] = @ + more]
      /\ runs' = [runs EXCEPT ![c] = @ + run] /\ told' = [told EXCEPT ![c] = say]
      /\ turn' = [turn EXCEPT ![c] = IdleTurn] /\ UNCHANGED <<calendar, hits>>
  BY DEF Commit
<1>2. /\ TypedRow(new) /\ new.status = t.row.status /\ new.body = t.row.body /\ new.lead = lead
      /\ lead \in BOOLEAN /\ more \in Nat /\ run \in Nat /\ say \in Slots \cup {NoSlot}
  BY <1>b DEF TypedRow, TypedTurn
<1> HIDE DEF new
<1>3. /\ session'[c] = new /\ leads'[c] = leads[c] + more /\ runs'[c] = runs[c] + run
      /\ told'[c] = say /\ turn'[c] = IdleTurn /\ calendar' = calendar /\ hits'[c] = hits[c]
  BY <1>a, <1>b, <1>1 DEF Typed
<1>4. Numbers /\ Follows /\ OverlapsNeedRaces'
  BY <1>a, <1>b, <1>1, SameCalendar, RacesStay
<1>5. \A d \in Customers \ {c} : Undisturbed(d) /\ Untouched(d)
  <2>1. \A d \in Customers \ {c} : Untouched(d) BY <1>a, <1>b, <1>1 DEF Typed, Untouched
  <2> QED BY <1>b, <1>1, <2>1, SameCalendar
<1>6. Typed'
  <2>1. DOMAIN turn' = Customers /\ \A d \in Customers : TypedTurn(turn'[d])
    BY <1>a, <1>1, IdleFields DEF Typed
  <2>2. \A d \in Customers : TypedTurn(turn[d])' BY <2>1 DEF TypedTurn, TypedRow
  <2>3. DOMAIN session' = Customers /\ \A d \in Customers : TypedRow(session'[d])
    BY <1>a, <1>1, <1>2 DEF Typed
  <2>4. \A d \in Customers : TypedRow(session[d])' BY <2>3 DEF TypedRow
  <2>5. leads' \in [Customers -> Nat] /\ runs' \in [Customers -> Nat]
        /\ told' \in [Customers -> Slots \cup {NoSlot}]
    BY <1>b, <1>1, <1>2
  <2> QED BY <1>a, <1>1, <2>1, <2>2, <2>3, <2>4, <2>5 DEF Typed
<1>7. Good(c)'
  <2>1. Holdings(c)'
    BY <1>a, <1>2, <1>3, IdleFields, NoRowFields, TypedNewSession DEF Good, Holdings, Owns
  <2>2. Announced(c)' /\ SeenAll(c)' /\ FreshTurns(c)' /\ TurnLeads(c)' /\ StaleIsFault(c)'
    BY <1>3, IdleFields DEF Announced, SeenAll, FreshTurns, TurnLeads, Working, StaleIsFault
  <2>3. SessionLeads(c)'
    <3>1. /\ t.row.status # "NONE"
          /\ (t.fresh => ~t.row.lead)
          /\ (~t.fresh => t.row.lead = session[c].lead /\ session[c].status # "NONE")
          /\ (t.row.body.booked => t.row.lead \/ (t.lead /\ t.row.status = "COMPLETED"))
      BY <1>a DEF Good, TurnLeads, Working
    <3>2. leads[c] + OpenLeads(c) <= runs[c] BY <1>a DEF Good, SessionLeads
    <3>3. leads[c] \in Nat /\ runs[c] \in Nat BY <1>b
    <3>4. new.body.booked => lead BY <1>2, <3>1 DEF MakesLead
    <3>5. leads[c] + more + (IF lead THEN 0 ELSE 1) <= runs[c] + run
      <4>1. CASE t.fresh BY <3>1, <3>2, <3>3, <4>1 DEF OpenLeads, MakesLead
      <4>2. CASE ~t.fresh BY <3>1, <3>2, <3>3, <4>2 DEF OpenLeads, MakesLead
      <4> QED BY <4>1, <4>2
    <3> QED BY <1>2, <1>3, <3>1, <3>4, <3>5 DEF SessionLeads, OpenLeads
  <2>4. ASSUME ~RemovedOf(c)', told'[c] # NoSlot, t.say # NoSlot
        PROVE  \E i \in BookedBy(c)' : calendar'[i].slot = told'[c]
    <3> DEFINE k == t.row.body.booking
    <3>1. /\ k \in DOMAIN calendar /\ calendar[k].owner = c /\ calendar[k].slot = t.say
          /\ calendar[k].status \in {"BOOKED", "REMOVED"}
      BY <1>a, <2>4 DEF Good, Announced
    <3>2. calendar[k].status = "BOOKED" BY <1>1, <2>4, <3>1 DEF RemovedOf
    <3>3. k \in BookedBy(c)' BY <1>1, <3>1, <3>2 DEF BookedBy, Active
    <3>4. calendar'[k].slot = told'[c] BY <1>1, <1>3, <2>4, <3>1
    <3> QED BY <3>3, <3>4
  <2>5. (RemovedOf(c)' <=> RemovedOf(c)) /\ BookedBy(c)' = BookedBy(c)
    BY <1>1 DEF RemovedOf, BookedBy, Active
  <2>6. ToldIsTrue(c)' BY <1>a, <1>3, <2>4, <2>5 DEF Good, ToldIsTrue
  <2>7. Kept(c)' BY <1>a, <1>3, <2>4, <2>5 DEF Good, Kept
  <2> QED BY <2>1, <2>2, <2>3, <2>6, <2>7 DEF Good
<1> QED BY <1>4, <1>5, <1>6, <1>7, OneCustomer

\* The merchant only writes the calendar.
LEMMA MerchantInd ==
  ASSUME AppointmentInd, \/ \E s \in MayBlock : Block(s)
                         \/ \E i \in DOMAIN calendar : CancelBooking(i)
  PROVE  AppointmentInd'
<1>0. Typed /\ OverlapsNeedRaces /\ calendar \in Seq(Bookings) /\ Len(calendar) \in Nat
      /\ \A c \in Customers : Good(c)
  BY DEF AppointmentInd, Typed
<1>1. UNCHANGED <<session, turn, leads, runs, told, sent, hits, faults>>
  BY DEF Block, CancelBooking
<1>2. Numbers /\ Follows /\ OverlapsNeedRaces' /\ \A c \in Customers : Undisturbed(c)
  <2>1. ASSUME NEW s \in MayBlock, Block(s)
        PROVE  Numbers /\ Follows /\ OverlapsNeedRaces' /\ \A c \in Customers : Undisturbed(c)
    <3> DEFINE made == Booking(Merchant, s, Len(calendar))
    <3>1. made \in Bookings /\ made.owner = Merchant /\ made.slot = s
      BY <1>0, OverlapAssumption DEF Booking, Bookings
    <3>2. calendar' = Append(calendar, made) /\ ~Conflicts(s) BY <2>1 DEF Block
    <3> HIDE DEF made
    <3>3. Numbers /\ Follows /\ \A c \in Customers : Undisturbed(c)
      BY <1>0, <3>1, <3>2, AppendFollows
    <3>4. OverlapsNeedRaces' BY <1>0, <3>1, <3>2, AppendRaces
    <3> QED BY <3>3, <3>4
  <2>2. ASSUME NEW i \in DOMAIN calendar, CancelBooking(i)
        PROVE  Numbers /\ Follows /\ OverlapsNeedRaces' /\ \A c \in Customers : Undisturbed(c)
    <3>1. i \in Active /\ calendar' = [calendar EXCEPT ![i].status = "REMOVED"]
      BY <2>2 DEF CancelBooking
    <3>2. /\ Numbers /\ Follows /\ Len(calendar') = Len(calendar)
          /\ \A k \in DOMAIN calendar : k # i => calendar'[k] = calendar[k]
          /\ calendar'[i].status = "REMOVED"
      BY <1>0, <3>1, EndFollows
    <3>3. \A c \in Customers : Undisturbed(c) BY <3>2 DEF Undisturbed
    <3>4. OverlapsNeedRaces' BY <1>0, <3>2, RacesStay
    <3> QED BY <3>2, <3>3, <3>4
  <2> QED BY <2>1, <2>2
<1>3. \A c \in Customers : Good(c)'
  <2>1. \A c \in Customers : Untouched(c) BY <1>1 DEF Untouched
  <2> QED BY <1>0, <1>2, <2>1, OthersStayGood
<1>4. Typed'
  <2>1. (\A c \in Customers : TypedTurn(turn[c]))' BY <1>0, <1>1 DEF Typed, TypedTurn, TypedRow
  <2>2. (\A c \in Customers : TypedRow(session[c]))' BY <1>0, <1>1 DEF Typed, TypedRow
  <2> QED BY <1>0, <1>1, <1>2, <2>1, <2>2 DEF Typed, Numbers
<1> QED BY <1>2, <1>3, <1>4 DEF AppointmentInd

LEMMA StutterInd ==
  ASSUME AppointmentInd, UNCHANGED vars
  PROVE  AppointmentInd'
<1>0. Typed /\ calendar \in Seq(Bookings) /\ \A c \in Customers : Good(c) BY DEF AppointmentInd, Typed
<1>1. /\ calendar' = calendar /\ session' = session /\ turn' = turn /\ leads' = leads
      /\ runs' = runs /\ told' = told /\ hits' = hits
  BY DEF vars
<1>2. Numbers /\ Follows /\ \A c \in Customers : Undisturbed(c) BY <1>0, <1>1, SameCalendar
<1>3. OverlapsNeedRaces' BY <1>1, <1>2, RacesStay DEF AppointmentInd
<1>4. \A c \in Customers : Good(c)'
  <2>1. \A c \in Customers : Untouched(c) BY <1>1 DEF Untouched
  <2> QED BY <1>0, <1>2, <2>1, OthersStayGood
<1>5. Typed'
  <2>1. (\A c \in Customers : TypedTurn(turn[c]))' BY <1>0, <1>1 DEF Typed, TypedTurn, TypedRow
  <2>2. (\A c \in Customers : TypedRow(session[c]))' BY <1>0, <1>1 DEF Typed, TypedRow
  <2> QED BY <1>0, <1>1, <2>1, <2>2 DEF Typed
<1> QED BY <1>3, <1>4, <1>5 DEF AppointmentInd

LEMMA StepInd == AppointmentInd /\ [Next]_vars => AppointmentInd'
<1> SUFFICES ASSUME AppointmentInd, [Next]_vars PROVE AppointmentInd'
  OBVIOUS
<1>1. CASE UNCHANGED vars BY <1>1, StutterInd
<1>2. ASSUME NEW c \in Customers, Turn(c) PROVE AppointmentInd'
  <2>1. ASSUME NEW readable \in BOOLEAN, Decide(c, readable) PROVE AppointmentInd'
    BY <2>1, DecideInd
  <2>2. ASSUME NEW fails \in BOOLEAN, FreeOld(c, fails) PROVE AppointmentInd'
    BY <2>2, FreeOldInd
  <2>3. CASE Check(c) BY <2>3, CheckInd
  <2>4. CASE BookFails(c) BY <2>4, BookFailsInd
  <2>5. CASE Insert(c) BY <2>5, InsertInd
  <2>6. CASE Commit(c) BY <2>6, CommitInd
  <2>7. CASE Conflict(c) BY <2>7, ResetsInd
  <2> QED BY <1>2, <2>1, <2>2, <2>3, <2>4, <2>5, <2>6, <2>7 DEF Turn
<1>3. ASSUME NEW c \in Customers, Interfere(c) PROVE AppointmentInd' BY <1>3, InterfereInd
<1>4. ASSUME NEW c \in Customers, Crash(c) PROVE AppointmentInd' BY <1>4, ResetsInd
<1>5. ASSUME NEW c \in Customers, NEW m \in Messages(c), Receive(c, m) PROVE AppointmentInd'
  BY <1>5, ResetsInd
<1>6. ASSUME NEW s \in MayBlock, Block(s) PROVE AppointmentInd' BY <1>6, MerchantInd
<1>7. ASSUME NEW i \in DOMAIN calendar, CancelBooking(i) PROVE AppointmentInd' BY <1>7, MerchantInd
<1> QED BY <1>1, <1>2, <1>3, <1>4, <1>5, <1>6, <1>7 DEF Next

-----------------------------------------------------------------------------
(* The theorems *)

\* The inductive invariant behind the four properties.
THEOREM AppointmentsInductive == Spec => []AppointmentInd
<1> QED BY InitInd, StepInd, PTL DEF Spec

\* Whatever fails while an appointment moves, a customer who was told of one has one until
\* the merchant removes it.
THEOREM AppointmentsAreKept == Spec => []NeverLosesAppointment
<1>1. AppointmentInd => NeverLosesAppointment
  BY DEF AppointmentInd, Good, Kept, NeverLosesAppointment
<1> QED BY <1>1, AppointmentsInductive, PTL

\* No two active bookings start together, and those that overlap were made by a race between
\* the check of one and the insert of the other, or by the merchant.
THEOREM OverlapsAreRaces == Spec => []OverlapsNeedRaces
<1>1. AppointmentInd => OverlapsNeedRaces
  BY DEF AppointmentInd
<1> QED BY <1>1, AppointmentsInductive, PTL

\* Between turns the last confirmation is true, unless a fault hit the customer's turns or
\* the merchant removed the booking.
THEOREM ConfirmationsHold == Spec => []WhatWasSaidHolds
<1>1. AppointmentInd => WhatWasSaidHolds
  <2> SUFFICES ASSUME AppointmentInd, NEW c \in Customers, turn[c].pc = "idle",
                      told[c] # NoSlot, hits[c] = 0, ~RemovedOf(c)
               PROVE  \E i \in BookedBy(c) : calendar[i].slot = told[c]
    BY DEF WhatWasSaidHolds
  <2>1. Announced(c) /\ ToldIsTrue(c) BY DEF AppointmentInd, Good
  <2>2. turn[c].say = NoSlot BY <2>1 DEF Announced
  <2> QED BY <2>1, <2>2 DEF ToldIsTrue
<1> QED BY <1>1, AppointmentsInductive, PTL

\* A session makes one lead at most, and none is committed as booked without its lead.
THEOREM LeadsAreMadeOnce == Spec => []OneLeadPerRequest
<1>1. AppointmentInd => OneLeadPerRequest
  <2> SUFFICES ASSUME AppointmentInd, NEW c \in Customers
               PROVE  /\ leads[c] <= runs[c]
                      /\ session[c].body.booked => session[c].lead
    BY DEF OneLeadPerRequest
  <2>1. SessionLeads(c) /\ leads[c] \in Nat /\ runs[c] \in Nat BY DEF AppointmentInd, Good, Typed
  <2> QED BY <2>1 DEF SessionLeads, OpenLeads
<1> QED BY <1>1, AppointmentsInductive, PTL
=============================================================================
