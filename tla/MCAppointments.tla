--------------------------- MODULE MCAppointments ---------------------------
(* A choice between a demo and the team, then an invitation, a day, a time and an
   optional e-mail. *)
EXTENDS Appointments

CONSTANTS ali, bea, mon, tue, t10, t1030, t1045, mon10, mon1030, mon1045, tue10

Step(type, field, required, cal, next, options) ==
  [type |-> type, field |-> field, required |-> required, calendar |-> cal, next |-> next,
   options |-> options]

MCStates == {"topic", "invite", "day", "slot", "email", "done", "team"}
MCFlow == [s \in MCStates |->
  CASE s = "topic" -> Step("choice", "none", TRUE, "no", NoState, {"invite", "team"})
    [] s = "invite" -> Step("confirm", "none", TRUE, "no", "day", {})
    [] s = "day" -> Step("collect", "text", TRUE, "day", "slot", {})
    [] s = "slot" -> Step("collect", "text", TRUE, "slots", "email", {})
    [] s = "email" -> Step("collect", "email", FALSE, "no", "done", {})
    [] s = "done" -> Step("end", "none", TRUE, "no", NoState, {})
    [] s = "team" -> Step("handoff", "none", TRUE, "no", NoState, {})]

MCDayOf == [s \in Slots |-> IF s = tue10 THEN tue ELSE mon]
MCTimeOf == [s \in Slots |->
  CASE s = mon1030 -> t1030 [] s = mon1045 -> t1045 [] s \in {mon10, tue10} -> t10]
\* Half an hour each: 10:30 and 10:45 overlap.
MCOverlap == {<<s, s>> : s \in Slots} \cup {<<mon1030, mon1045>>, <<mon1045, mon1030>>}

Plain(kind) == [kind |-> kind, day |-> NoDay, time |-> NoTime]
Names(kind, day, time) == [kind |-> kind, day |-> day, time |-> time]

\* Bea books the other of the two.  Ali goes through the flow with detours, then says anything.
Kinds(ks) == {Plain(k) : k \in ks}
AliSays ==
  <<{Plain("hello")},
    Kinds({"pick", "question"}),
    {Plain("yes"), Names("chat", mon, NoTime), Names("chat", mon, t1030)},
    Kinds({"no", "answer", "back"}) \cup {Names("chat", NoDay, t10)},
    Kinds({"no", "back", "undecided", "question", "answer", "cancel", "move"})
      \cup {Names("move", tue, t10), Names("move", NoDay, t10)},
    Kinds({"no", "cancel", "undecided", "hello"}) \cup {Names("chat", tue, t10)}>>
BeaSays == <<{Plain("hello")}, {Plain("pick")}, {Names("chat", mon, t1045)}, {Plain("no")}>>
MCSays == [c \in Customers |-> IF c = ali THEN AliSays ELSE BeaSays]
=============================================================================
