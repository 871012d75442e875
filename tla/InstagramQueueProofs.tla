------------------------ MODULE InstagramQueueProofs ------------------------
(***************************************************************************)
(* Proofs about InstagramQueue for any number of messages, customers,        *)
(* processes, attempts, changes and faults.                                  *)
(***************************************************************************)
EXTENDS InstagramQueue, TLAPS

-----------------------------------------------------------------------------
(* The inductive invariant *)

Statuses == {"ABSENT", "PENDING", "PROCESSING", "SENDING", "COMPLETED", "FAILED", "SKIPPED"}
Terminal == {"COMPLETED", "FAILED", "SKIPPED"}
Texts == {"null", "silent", "reply", "resend"}
Before == {"scoping", "skipping", "asking", "recording", "turning", "saving", "checking", "marking"}
Calling == {"token", "account", "owner", "posting"}
Pcs == {"idle", "claiming", "linking", "completing", "failing"} \cup Before \cup Calling

Row == [status: Statuses, attempts: Nat, expired: BOOLEAN, ready: BOOLEAN, text: Texts]
Loop == [pc: Pcs, job: Nat, attempt: Nat, lost: BOOLEAN, text: Texts, sent: BOOLEAN,
         account: Nat, owner: Nat]

Working(p) == loop[p].pc \notin {"idle", "claiming"}

RowsTyped == row \in [Jobs -> Row]
LoopsTyped ==
  /\ loop \in [Processes -> Loop]
  /\ \A p \in Processes : IF Working(p) THEN loop[p].job \in Jobs ELSE loop[p].job = NoJob
RestTyped ==
  /\ committed \in [Jobs -> {"none", "silent", "reply"}]
  /\ delivered \in [Jobs -> Nat] /\ linked \in [Jobs -> BOOLEAN]
  /\ human \in [Senders -> Nat] /\ closed \in Nat /\ changes \in Nat /\ faults \in Nat
Typed == RowsTyped /\ LoopsTyped /\ RestTyped

\* What a row says of what Meta has accepted, of the stored answer and of its text.
RowInv(j) ==
  LET r == row[j] IN
    /\ r.status = "ABSENT" => r.attempts = 0
    /\ r.attempts = 0 => r.status \in {"ABSENT", "PENDING"}
    /\ r.status \in {"ABSENT", "PENDING", "PROCESSING", "SKIPPED"} => delivered[j] = 0
    /\ delivered[j] <= 1
    /\ r.status = "COMPLETED" =>
         /\ delivered[j] = (IF r.text = "silent" THEN 0 ELSE 1)
         /\ r.text = "reply" => linked[j]
    /\ r.text = "reply" => committed[j] = "reply"

\* A claim that has marked its row can only lose it to the sweep, which writes it off; a claim
\* that has not can lose it to another claim, which has a higher number.
LoopInv(p) ==
  LET l == loop[p]
      r == row[l.job]
  IN Working(p) =>
       /\ 0 < l.attempt /\ l.attempt <= r.attempts
       /\ l.text = "reply" => committed[l.job] = "reply"
       /\ l.pc \in Before => ~l.sent
       /\ l.pc \in Calling \cup {"linking"} => l.sent
       /\ l.sent =>
            /\ l.attempt = r.attempts /\ r.status \in {"SENDING", "FAILED"}
            /\ r.text # "silent"
            /\ l.pc \in Calling => delivered[l.job] = 0
            /\ l.pc \in {"linking", "completing"} => delivered[l.job] = 1
            /\ l.pc = "completing" /\ r.text = "reply" => linked[l.job]
       /\ ~l.sent /\ l.attempt = r.attempts =>
            /\ r.status = "PROCESSING"
            /\ l.pc = "scoping" => l.text = r.text
            /\ l.pc \in {"checking", "marking"} => r.text # "silent"
            /\ l.pc = "completing" => r.text = "silent"

PairInv(p, q) ==
  Working(p) /\ Working(q) /\ loop[p].job = loop[q].job => loop[p].attempt # loop[q].attempt

\* A message is claimed only when the customer's earlier ones have ended, and stored only after them.
OrderInv(j) ==
  \A i \in Same(j) : i < j =>
    /\ row[j].attempts # 0 => row[i].status \in Terminal
    /\ row[j].status # "ABSENT" => row[i].status # "ABSENT"

Core ==
  /\ \A j \in Jobs : RowInv(j) /\ OrderInv(j)
  /\ \A p \in Processes : LoopInv(p)
  /\ \A p, q \in Processes : p # q => PairInv(p, q)

Ind == Typed /\ Core

\* The number of the last change grows, and a look is not younger than it.
Looked(p) ==
  /\ loop[p].account <= changes /\ loop[p].owner <= changes
  /\ loop[p].pc \in {"owner", "posting"} => closed = 0 \/ closed > loop[p].account
  /\ loop[p].pc = "posting" => human[Customer(p)] = 0 \/ human[Customer(p)] > loop[p].owner
Heard == \A p \in Processes : Looked(p)

-----------------------------------------------------------------------------
(* Types *)

LEMMA Strings ==
  /\ Statuses = {"ABSENT", "PENDING", "PROCESSING", "SENDING", "COMPLETED", "FAILED", "SKIPPED"}
  /\ Pcs = {"idle", "claiming", "linking", "completing", "failing", "scoping", "skipping", "asking",
            "recording", "turning", "saving", "checking", "marking", "token", "account", "owner",
            "posting"}
  BY DEF Statuses, Pcs, Before, Calling

LEMMA InitInd == Init => Ind /\ Heard
<1> SUFFICES ASSUME Init PROVE Ind /\ Heard
  OBVIOUS
<1>1. RowsTyped BY DEF Init, RowsTyped, AbsentRow, Row, Statuses, Texts
<1>2. LoopsTyped BY DEF Init, LoopsTyped, IdleLoop, Loop, Pcs, Texts, NoJob, Working
<1>3. RestTyped BY DEF Init, RestTyped
<1>4. \A j \in Jobs : RowInv(j) /\ OrderInv(j)
  <2> SUFFICES ASSUME NEW j \in Jobs PROVE RowInv(j) /\ OrderInv(j)
    OBVIOUS
  <2>1. row[j] = AbsentRow /\ delivered[j] = 0 /\ 0 <= 1
    BY DEF Init
  <2>2. row[j].status = "ABSENT" /\ row[j].attempts = 0 /\ row[j].text = "null"
    BY <2>1 DEF AbsentRow
  <2>3. RowInv(j) BY <2>1, <2>2 DEF RowInv
  <2>4. OrderInv(j) BY <2>2 DEF OrderInv, Same
  <2> QED BY <2>3, <2>4
<1>5. \A p \in Processes : ~Working(p) /\ Looked(p)
  BY DEF Init, Working, IdleLoop, Looked
<1> QED BY <1>1, <1>2, <1>3, <1>4, <1>5 DEF Ind, Typed, Core, LoopInv, PairInv, Heard

\* A step changes one row, keeps its type and so keeps all types.
LEMMA RowUpdate ==
  ASSUME RowsTyped, NEW j \in Jobs, NEW r \in Row, row' = [row EXCEPT ![j] = r]
  PROVE  RowsTyped' /\ row'[j] = r /\ \A i \in Jobs \ {j} : row'[i] = row[i]
  BY DEF RowsTyped

LEMMA LoopUpdate ==
  ASSUME LoopsTyped, NEW p \in Processes, NEW l \in Loop, loop' = [loop EXCEPT ![p] = l],
         IF l.pc \notin {"idle", "claiming"} THEN l.job \in Jobs ELSE l.job = NoJob
  PROVE  LoopsTyped' /\ loop'[p] = l /\ \A q \in Processes \ {p} : loop'[q] = loop[q]
  BY DEF LoopsTyped, Working

LEMMA GotoType ==
  ASSUME LoopsTyped, NEW p \in Processes, NEW pc \in Pcs \ {"idle", "claiming"}, Working(p), Goto(p, pc)
  PROVE  /\ LoopsTyped' /\ loop'[p] = [loop[p] EXCEPT !.pc = pc]
         /\ \A q \in Processes \ {p} : loop'[q] = loop[q]
<1> DEFINE l == [loop[p] EXCEPT !.pc = pc]
<1>1. loop[p] \in Loop /\ loop[p].job \in Jobs BY DEF LoopsTyped
<1>2. l \in Loop /\ l.pc = pc /\ l.job = loop[p].job BY <1>1 DEF Loop
<1>3. loop' = [loop EXCEPT ![p] = l] BY DEF Goto
<1> QED BY <1>1, <1>2, <1>3, LoopUpdate

LEMMA IdleType ==
  ASSUME LoopsTyped, NEW p \in Processes, Idle(p)
  PROVE  /\ LoopsTyped' /\ loop'[p] = IdleLoop /\ \A q \in Processes \ {p} : loop'[q] = loop[q]
<1>1. IdleLoop \in Loop /\ IdleLoop.pc = "idle" /\ IdleLoop.job = NoJob
  BY DEF IdleLoop, Loop, Pcs, Texts, NoJob
<1> QED BY <1>1, LoopUpdate DEF Idle

LEMMA RowFields ==
  ASSUME RowsTyped, NEW j \in Jobs
  PROVE  /\ row[j] \in Row
         /\ row[j].status \in Statuses /\ row[j].attempts \in Nat /\ row[j].expired \in BOOLEAN
         /\ row[j].ready \in BOOLEAN /\ row[j].text \in Texts
  BY DEF RowsTyped, Row

LEMMA LoopFields ==
  ASSUME LoopsTyped, NEW p \in Processes
  PROVE  /\ loop[p] \in Loop
         /\ loop[p].pc \in Pcs /\ loop[p].job \in Nat /\ loop[p].attempt \in Nat
         /\ loop[p].lost \in BOOLEAN /\ loop[p].text \in Texts /\ loop[p].sent \in BOOLEAN
         /\ loop[p].account \in Nat /\ loop[p].owner \in Nat
  BY DEF LoopsTyped, Loop

-----------------------------------------------------------------------------
(* What a step of one loop must keep *)

\* A step of a claimed job by its loop: it touches the row only under a claim that is
\* still its own, or one that has marked the row, and what it touches keeps its parts of
\* the invariant.
LEMMA OwnStep ==
  ASSUME Ind, Typed', NEW p \in Processes, Working(p), NEW j \in Jobs, loop[p].job = j,
         \A q \in Processes \ {p} : loop'[q] = loop[q],
         \A i \in Jobs \ {j} :
           /\ row'[i] = row[i] /\ committed'[i] = committed[i]
           /\ delivered'[i] = delivered[i] /\ linked'[i] = linked[i],
         Working(p)' => loop'[p].job = j /\ loop'[p].attempt = loop[p].attempt,
         row'[j].attempts = row[j].attempts,
         committed[j] = "reply" => committed'[j] = "reply",
         \/ loop[p].attempt = row[j].attempts
         \/ row'[j] = row[j] /\ delivered'[j] = delivered[j] /\ linked'[j] = linked[j],
         row'[j].status = "ABSENT" <=> row[j].status = "ABSENT",
         row[j].status \in Terminal => row'[j].status \in Terminal,
         RowInv(j)', LoopInv(p)'
  PROVE  Core'
<1>0. Jobs \subseteq Nat /\ LoopsTyped BY JobsAssumption DEF Ind, Typed
<1>1. \A i \in Jobs : RowInv(i)'
  <2> SUFFICES ASSUME NEW i \in Jobs, i # j PROVE RowInv(i)'
    OBVIOUS
  <2> QED BY DEF Ind, Core, RowInv
<1>2. \A i \in Jobs : OrderInv(i)'
  <2> SUFFICES ASSUME NEW i \in Jobs, NEW k \in Same(i), k < i
               PROVE /\ row'[i].attempts # 0 => row'[k].status \in Terminal
                     /\ row'[i].status # "ABSENT" => row'[k].status # "ABSENT"
    BY DEF OrderInv, Same
  <2>1. k \in Jobs BY DEF Same
  <2>2. /\ row[i].attempts # 0 => row[k].status \in Terminal
        /\ row[i].status # "ABSENT" => row[k].status # "ABSENT"
    BY DEF Ind, Core, OrderInv
  <2>3. \A n \in Jobs :
          /\ row'[n].attempts = row[n].attempts
          /\ row'[n].status = "ABSENT" <=> row[n].status = "ABSENT"
          /\ row[n].status \in Terminal => row'[n].status \in Terminal
    OBVIOUS
  <2> QED BY <2>1, <2>2, <2>3
<1>3. \A q \in Processes : LoopInv(q)'
  <2> SUFFICES ASSUME NEW q \in Processes, q # p, Working(q) PROVE LoopInv(q)'
    BY DEF LoopInv, Working
  <2>1. LoopInv(q) /\ PairInv(p, q) /\ loop'[q] = loop[q] BY DEF Ind, Core
  <2>2. loop[q].job \in Jobs BY <1>0 DEF LoopsTyped
  <2>3. CASE loop[q].job # j
    BY <2>1, <2>2, <2>3 DEF LoopInv, Working
  <2>4. CASE loop[q].job = j /\ loop[p].attempt = row[j].attempts
    <3>1. loop[q].attempt # row[j].attempts BY <2>1, <2>4 DEF PairInv
    <3> QED BY <2>1, <2>2, <2>4, <3>1 DEF LoopInv, Working
  <2>5. CASE /\ row'[j] = row[j] /\ delivered'[j] = delivered[j] /\ linked'[j] = linked[j]
             /\ loop[q].job = j
    BY <2>1, <2>2, <2>5 DEF LoopInv, Working
  <2> QED BY <2>3, <2>4, <2>5
<1>4. \A q, s \in Processes : q # s => PairInv(q, s)'
  <2> SUFFICES ASSUME NEW q \in Processes, NEW s \in Processes, q # s,
                      Working(q)', Working(s)', loop'[q].job = loop'[s].job
               PROVE loop'[q].attempt # loop'[s].attempt
    BY DEF PairInv
  <2>1. PairInv(q, s) BY DEF Ind, Core
  <2>2. \A t \in {q, s} : Working(t) /\ loop'[t].job = loop[t].job /\ loop'[t].attempt = loop[t].attempt
    BY DEF Working
  <2> QED BY <2>1, <2>2 DEF PairInv
<1> QED BY <1>1, <1>2, <1>3, <1>4 DEF Core

\* A step of a claimed job by its loop that writes no row.
LEMMA QuietStep ==
  ASSUME Ind, NEW p \in Processes, Working(p), NEW j \in Jobs, loop[p].job = j, NEW l \in Loop,
         loop' = [loop EXCEPT ![p] = l],
         IF l.pc \notin {"idle", "claiming"} THEN l.job = j /\ l.attempt = loop[p].attempt
                                             ELSE l.job = NoJob,
         UNCHANGED <<row, delivered, linked>>, RestTyped',
         \A i \in Jobs \ {j} : committed'[i] = committed[i],
         committed[j] = "reply" => committed'[j] = "reply",
         LoopInv(p)'
  PROVE  Ind' /\ loop'[p] = l /\ \A q \in Processes \ {p} : loop'[q] = loop[q]
<1>1. LoopsTyped' /\ loop'[p] = l /\ \A q \in Processes \ {p} : loop'[q] = loop[q]
  BY LoopUpdate DEF Ind, Typed
<1>2. Typed' BY <1>1 DEF Typed, Ind, RowsTyped
<1>3. RowInv(j) /\ RowInv(j)' BY DEF Ind, Core, RowInv
<1>4. Working(p)' => loop'[p].job = j /\ loop'[p].attempt = loop[p].attempt BY <1>1 DEF Working
<1>5. Core' BY <1>1, <1>2, <1>3, <1>4, OwnStep
<1> QED BY <1>1, <1>2, <1>5 DEF Ind

\* A step of a claimed job by its loop that writes the row under its own claim.
LEMMA WriteStep ==
  ASSUME Ind, NEW p \in Processes, Working(p), NEW j \in Jobs, loop[p].job = j, NEW l \in Loop,
         NEW r \in Row, loop' = [loop EXCEPT ![p] = l], row' = [row EXCEPT ![j] = r],
         IF l.pc \notin {"idle", "claiming"} THEN l.job = j /\ l.attempt = loop[p].attempt
                                             ELSE l.job = NoJob,
         UNCHANGED <<committed, delivered, linked>>, RestTyped',
         loop[p].attempt = row[j].attempts, r.attempts = row[j].attempts,
         row[j].status \in {"PROCESSING", "SENDING"}, r.status # "ABSENT",
         row'[j] = r => RowInv(j)', row'[j] = r /\ loop'[p] = l => LoopInv(p)'
  PROVE  Ind' /\ loop'[p] = l /\ \A q \in Processes \ {p} : loop'[q] = loop[q]
<1>1. LoopsTyped' /\ loop'[p] = l /\ \A q \in Processes \ {p} : loop'[q] = loop[q]
  BY LoopUpdate DEF Ind, Typed
<1>2. RowsTyped' /\ row'[j] = r /\ \A i \in Jobs \ {j} : row'[i] = row[i]
  BY RowUpdate DEF Ind, Typed
<1>3. Typed' BY <1>1, <1>2 DEF Typed
<1>4. Working(p)' => loop'[p].job = j /\ loop'[p].attempt = loop[p].attempt BY <1>1 DEF Working
<1>5. row'[j].status = "ABSENT" <=> row[j].status = "ABSENT" BY <1>2
<1>6. row[j].status \in Terminal => row'[j].status \in Terminal BY DEF Terminal
<1>7. Core' BY <1>1, <1>2, <1>3, <1>4, <1>5, <1>6, OwnStep
<1> QED BY <1>1, <1>3, <1>7 DEF Ind

\* A step of the environment, or of a loop that takes no job or leaves it: the number of claims
\* and the text of a row stay, and of the states only these change.
RowGoesOn(i) ==
  /\ row'[i].attempts = row[i].attempts /\ row'[i].text = row[i].text
  /\ \/ row'[i].status = row[i].status
     \/ row[i].status = "SENDING" /\ row'[i].status = "FAILED"
     \/ /\ row[i].status = "ABSENT" /\ row'[i].status = "PENDING"
        /\ \A k \in Same(i) : k < i => row[k].status # "ABSENT"

LEMMA OutsideStep ==
  ASSUME Ind, Typed', \A i \in Jobs : RowGoesOn(i), UNCHANGED <<committed, delivered, linked>>,
         \A q \in Processes : loop'[q] = loop[q] \/ ~Working(q)'
  PROVE  Ind'
<1>0. Jobs \subseteq Nat /\ LoopsTyped BY JobsAssumption DEF Ind, Typed
<1>1. \A i \in Jobs : RowInv(i)'
  <2> SUFFICES ASSUME NEW i \in Jobs PROVE RowInv(i)'
    OBVIOUS
  <2>1. RowInv(i) /\ RowGoesOn(i) BY DEF Ind, Core
  <2> QED BY <2>1 DEF RowInv, RowGoesOn
<1>2. \A i \in Jobs : OrderInv(i)'
  <2> SUFFICES ASSUME NEW i \in Jobs, NEW k \in Same(i), k < i
               PROVE /\ row'[i].attempts # 0 => row'[k].status \in Terminal
                     /\ row'[i].status # "ABSENT" => row'[k].status # "ABSENT"
    BY DEF OrderInv, Same
  <2>1. k \in Jobs /\ RowGoesOn(k) /\ RowGoesOn(i) BY DEF Same
  <2>2. /\ row[i].attempts # 0 => row[k].status \in Terminal
        /\ row[i].status # "ABSENT" => row[k].status # "ABSENT"
    BY DEF Ind, Core, OrderInv
  <2> QED BY <2>1, <2>2 DEF RowGoesOn, Terminal
<1>3. \A q \in Processes : LoopInv(q)'
  <2> SUFFICES ASSUME NEW q \in Processes, Working(q), loop'[q] = loop[q] PROVE LoopInv(q)'
    BY DEF LoopInv, Working
  <2>1. LoopInv(q) /\ loop[q].job \in Jobs BY <1>0 DEF Ind, Core, LoopsTyped
  <2>2. RowInv(loop[q].job) /\ RowGoesOn(loop[q].job) BY <2>1 DEF Ind, Core
  <2> PICK j \in Jobs : loop[q].job = j BY <2>1
  <2>3. row[j].status # "ABSENT"
    <3>1. 0 < loop[q].attempt /\ loop[q].attempt <= row[j].attempts BY <2>1 DEF LoopInv
    <3>2. row[j].attempts # 0 BY <3>1, RowFields, LoopFields DEF Ind, Typed
    <3> QED BY <2>2, <3>2 DEF RowInv
  <2>4. /\ row'[j].attempts = row[j].attempts /\ row'[j].text = row[j].text
        /\ row[j].status = "PROCESSING" => row'[j].status = "PROCESSING"
        /\ row[j].status \in {"SENDING", "FAILED"} => row'[j].status \in {"SENDING", "FAILED"}
    BY <2>2, <2>3 DEF RowGoesOn
  <2> QED BY <2>1, <2>4 DEF LoopInv, Working
<1>4. \A q, s \in Processes : q # s => PairInv(q, s)'
  BY DEF Ind, Core, PairInv, Working
<1> QED BY <1>1, <1>2, <1>3, <1>4 DEF Core, Ind
-----------------------------------------------------------------------------
(* The steps *)

LEMMA Work ==
  ASSUME Ind, NEW p \in Processes, Working(p)
  PROVE  \E j \in Jobs :
           /\ loop[p].job = j /\ LoopInv(p) /\ RowInv(j) /\ LoopsTyped /\ RowsTyped /\ RestTyped
           /\ \A pc \in Pcs : pc \notin {"idle", "claiming"} /\ Goto(p, pc) =>
                /\ loop'[p] = [loop[p] EXCEPT !.pc = pc] /\ loop'[p].pc = pc /\ loop'[p].job = j
                /\ loop'[p].attempt = loop[p].attempt /\ loop'[p].text = loop[p].text
                /\ loop'[p].sent = loop[p].sent
                /\ loop'[p].account = loop[p].account /\ loop'[p].owner = loop[p].owner
<1>1. LoopsTyped /\ RowsTyped /\ RestTyped BY DEF Ind, Typed
<1>2. PICK j \in Jobs : loop[p].job = j BY <1>1 DEF LoopsTyped
<1>3. LoopInv(p) /\ RowInv(j) BY DEF Ind, Core
<1>4. ASSUME NEW pc \in Pcs, pc \notin {"idle", "claiming"}, Goto(p, pc)
      PROVE /\ loop'[p] = [loop[p] EXCEPT !.pc = pc] /\ loop'[p].pc = pc /\ loop'[p].job = j
            /\ loop'[p].attempt = loop[p].attempt /\ loop'[p].text = loop[p].text
            /\ loop'[p].sent = loop[p].sent
            /\ loop'[p].account = loop[p].account /\ loop'[p].owner = loop[p].owner
  <2>1. loop'[p] = [loop[p] EXCEPT !.pc = pc] BY <1>1, <1>4, GotoType
  <2> QED BY <2>1, <1>1, <1>2, LoopFields DEF Loop
<1> QED BY <1>1, <1>2, <1>3, <1>4

LEMMA QuietGoto ==
  ASSUME Ind, NEW p \in Processes, Working(p), NEW pc \in Pcs \ {"idle", "claiming"}, Goto(p, pc),
         UNCHANGED <<row, committed, delivered, linked, human, closed, changes>>, faults' \in Nat,
         /\ loop'[p].pc = pc /\ loop'[p].job = loop[p].job /\ loop'[p].attempt = loop[p].attempt
         /\ loop'[p].text = loop[p].text /\ loop'[p].sent = loop[p].sent
         => LoopInv(p)'
  PROVE  Ind'
<1> DEFINE l == [loop[p] EXCEPT !.pc = pc]
<1>1. PICK j \in Jobs :
        /\ loop[p].job = j /\ LoopsTyped /\ RestTyped /\ loop'[p] = l
        /\ loop'[p].pc = pc /\ loop'[p].job = j /\ loop'[p].attempt = loop[p].attempt
        /\ loop'[p].text = loop[p].text /\ loop'[p].sent = loop[p].sent
  BY Work
<1>2. /\ l \in Loop /\ loop' = [loop EXCEPT ![p] = l]
      /\ l.pc = pc /\ l.job = j /\ l.attempt = loop[p].attempt
  BY <1>1, LoopFields DEF Goto, Loop
<1>3. RestTyped' BY <1>1 DEF RestTyped
<1> HIDE DEF l
<1> QED BY <1>1, <1>2, <1>3, QuietStep

LEMMA QuietIdle ==
  ASSUME Ind, NEW p \in Processes, Idle(p),
         UNCHANGED <<row, committed, delivered, linked, human, closed, changes>>, faults' \in Nat
  PROVE  Ind'
<1>1. LoopsTyped' /\ loop'[p] = IdleLoop /\ \A q \in Processes \ {p} : loop'[q] = loop[q]
  BY IdleType DEF Ind, Typed
<1>2. ~Working(p)' BY <1>1 DEF Working, IdleLoop
<1>3. Typed' BY <1>1 DEF Ind, Typed, RowsTyped, RestTyped
<1>4. \A i \in Jobs : RowGoesOn(i) BY DEF RowGoesOn
<1> QED BY <1>1, <1>2, <1>3, <1>4, OutsideStep

\* A loop that writes its row for the last time and leaves it.
LEMMA WriteIdle ==
  ASSUME Ind, NEW p \in Processes, Working(p), NEW j \in Jobs, loop[p].job = j, Idle(p),
         NEW r \in Row, row' = [row EXCEPT ![j] = r],
         UNCHANGED <<committed, delivered, linked, human, closed, changes, faults>>,
         loop[p].attempt = row[j].attempts, r.attempts = row[j].attempts,
         row[j].status \in {"PROCESSING", "SENDING"}, r.status # "ABSENT",
         row'[j] = r => RowInv(j)'
  PROVE  Ind'
<1>1. IdleLoop \in Loop /\ IdleLoop.pc = "idle" /\ IdleLoop.job = NoJob
  BY DEF IdleLoop, Loop, Pcs, Texts, NoJob
<1>2. loop' = [loop EXCEPT ![p] = IdleLoop] BY DEF Idle
<1>3. loop'[p] = IdleLoop => LoopInv(p)' BY <1>1 DEF LoopInv, Working
<1>4. RestTyped' BY DEF Ind, Typed, RestTyped
<1> QED BY <1>1, <1>2, <1>3, <1>4, WriteStep

LEMMA Environment ==
  ASSUME Ind, \/ \E j \in Jobs : Receive(j) \/ BackoffElapses(j) \/ LeaseRunsOut(j) \/ Stall(j)
              \/ ChangeAccount \/ \E c \in Senders : ChangeOwner(c)
  PROVE  Ind'
<1>0. RowsTyped /\ RestTyped /\ LoopsTyped BY DEF Ind, Typed
<1>1. ASSUME NEW j \in Jobs, Receive(j) PROVE Ind'
  <2> DEFINE r == [row[j] EXCEPT !.status = "PENDING"]
  <2>1. r \in Row /\ r.attempts = row[j].attempts /\ r.text = row[j].text /\ r.status = "PENDING"
    BY <1>0, RowFields DEF Row, Statuses
  <2>2. row' = [row EXCEPT ![j] = r] BY <1>1 DEF Receive
  <2> HIDE DEF r
  <2>3. RowsTyped' /\ row'[j] = r /\ \A i \in Jobs \ {j} : row'[i] = row[i]
    BY <1>0, <2>1, <2>2, RowUpdate
  <2>4. Typed' BY <1>0, <1>1, <2>3 DEF Receive, Typed, RestTyped, LoopsTyped, Working
  <2>5. \A i \in Jobs : RowGoesOn(i) BY <1>1, <2>1, <2>3 DEF Receive, RowGoesOn
  <2> QED BY <1>1, <2>4, <2>5, OutsideStep DEF Receive
<1>2. ASSUME NEW j \in Jobs, BackoffElapses(j) PROVE Ind'
  <2> DEFINE r == [row[j] EXCEPT !.ready = TRUE]
  <2>1. r \in Row /\ r.attempts = row[j].attempts /\ r.text = row[j].text /\ r.status = row[j].status
    BY <1>0, RowFields DEF Row
  <2>2. row' = [row EXCEPT ![j] = r] BY <1>2 DEF BackoffElapses
  <2> HIDE DEF r
  <2>3. RowsTyped' /\ row'[j] = r /\ \A i \in Jobs \ {j} : row'[i] = row[i]
    BY <1>0, <2>1, <2>2, RowUpdate
  <2>4. Typed' BY <1>0, <1>2, <2>3 DEF BackoffElapses, Typed, RestTyped, LoopsTyped, Working
  <2>5. \A i \in Jobs : RowGoesOn(i) BY <2>1, <2>3 DEF RowGoesOn
  <2> QED BY <1>2, <2>4, <2>5, OutsideStep DEF BackoffElapses
<1>3. ASSUME NEW j \in Jobs, LeaseRunsOut(j) \/ Stall(j) PROVE Ind'
  <2> DEFINE r == [row[j] EXCEPT !.expired = TRUE]
  <2>1. r \in Row /\ r.attempts = row[j].attempts /\ r.text = row[j].text /\ r.status = row[j].status
    BY <1>0, RowFields DEF Row
  <2>2. /\ row' = [row EXCEPT ![j] = r] /\ faults' \in Nat
        /\ UNCHANGED <<loop, committed, delivered, linked, human, closed, changes>>
    BY <1>0, <1>3 DEF LeaseRunsOut, Stall, Fault, RestTyped
  <2> HIDE DEF r
  <2>3. RowsTyped' /\ row'[j] = r /\ \A i \in Jobs \ {j} : row'[i] = row[i]
    BY <1>0, <2>1, <2>2, RowUpdate
  <2>4. Typed' BY <1>0, <2>2, <2>3 DEF Typed, RestTyped, LoopsTyped, Working
  <2>5. \A i \in Jobs : RowGoesOn(i) BY <2>1, <2>3 DEF RowGoesOn
  <2> QED BY <2>2, <2>4, <2>5, OutsideStep
<1>4. ASSUME ChangeAccount \/ \E c \in Senders : ChangeOwner(c) PROVE Ind'
  <2>1. /\ UNCHANGED <<row, loop, committed, delivered, linked, faults>>
        /\ human' \in [Senders -> Nat] /\ closed' \in Nat /\ changes' \in Nat
    BY <1>0, <1>4 DEF ChangeAccount, ChangeOwner, Change, RestTyped
  <2>2. Typed' BY <1>0, <2>1 DEF Typed, RestTyped, LoopsTyped, Working, RowsTyped
  <2>3. \A i \in Jobs : RowGoesOn(i) BY <2>1 DEF RowGoesOn
  <2> QED BY <2>1, <2>2, <2>3, OutsideStep
<1> QED BY <1>1, <1>2, <1>3, <1>4
\* The sweep ends abandoned sends; no row becomes claimable by it that was not.
LEMMA SweepStep == ASSUME Ind, NEW p \in Processes, Sweep(p) PROVE Ind'
<1> DEFINE l == [loop[p] EXCEPT !.pc = "claiming"]
<1>0. RowsTyped /\ RestTyped /\ LoopsTyped BY DEF Ind, Typed
<1>1. \A i \in Jobs :
        /\ row'[i] \in Row /\ row'[i].attempts = row[i].attempts /\ row'[i].text = row[i].text
        /\ \/ row'[i].status = row[i].status
           \/ row[i].status = "SENDING" /\ row'[i].status = "FAILED"
  <2> SUFFICES ASSUME NEW i \in Jobs
               PROVE /\ Swept(row[i]) \in Row /\ Swept(row[i]).attempts = row[i].attempts
                     /\ Swept(row[i]).text = row[i].text
                     /\ \/ Swept(row[i]).status = row[i].status
                        \/ row[i].status = "SENDING" /\ Swept(row[i]).status = "FAILED"
    BY DEF Sweep
  <2> DEFINE r == [row[i] EXCEPT !.status = "FAILED", !.expired = FALSE]
  <2>1. row[i] \in Row BY <1>0, RowFields
  <2>2. r \in Row /\ r.attempts = row[i].attempts /\ r.text = row[i].text /\ r.status = "FAILED"
    BY <2>1 DEF Row, Statuses
  <2>3. Swept(row[i]) = IF row[i].status = "SENDING" /\ row[i].expired THEN r ELSE row[i]
    BY DEF Swept
  <2> HIDE DEF r
  <2> QED BY <2>1, <2>2, <2>3
<1>2. RowsTyped' BY <1>1 DEF Sweep, RowsTyped
<1>3. l \in Loop /\ l.pc = "claiming" /\ l.job = NoJob /\ loop' = [loop EXCEPT ![p] = l]
  BY <1>0, LoopFields DEF Sweep, Goto, Loop, Pcs, LoopsTyped, Working
<1> HIDE DEF l
<1>4. LoopsTyped' /\ loop'[p] = l /\ \A q \in Processes \ {p} : loop'[q] = loop[q]
  BY <1>0, <1>3, LoopUpdate
<1>5. Typed' BY <1>0, <1>2, <1>4 DEF Typed, RestTyped, Sweep
<1>6. \A i \in Jobs : RowGoesOn(i) BY <1>1 DEF RowGoesOn
<1>7. ~Working(p)' BY <1>3, <1>4 DEF Working
<1> QED BY <1>4, <1>5, <1>6, <1>7, OutsideStep DEF Sweep

\* A claim takes the row from every claim before it: its number is higher than theirs, and no
\* claim that marked its row is among them.
LEMMA ClaimStep == ASSUME Ind, NEW p \in Processes, NEW j \in Jobs, Claim(p, j) PROVE Ind'
<1> DEFINE r == [row[j] EXCEPT !.status = "PROCESSING", !.attempts = @ + 1, !.expired = FALSE]
           l == [IdleLoop EXCEPT !.pc = "scoping", !.job = j, !.attempt = row[j].attempts + 1,
                                 !.text = row[j].text]
<1>0. RowsTyped /\ RestTyped /\ LoopsTyped /\ Jobs \subseteq Nat /\ ~Working(p)
  BY JobsAssumption DEF Ind, Typed, Claim, Working
<1>1. /\ r \in Row /\ r.status = "PROCESSING" /\ r.attempts = row[j].attempts + 1 /\ r.text = row[j].text
      /\ row' = [row EXCEPT ![j] = r]
  <2>1. /\ r \in Row /\ r.status = "PROCESSING" /\ r.attempts = row[j].attempts + 1
        /\ r.text = row[j].text
    <3>1. row[j] \in Row /\ row[j].attempts + 1 \in Nat BY <1>0, RowFields
    <3>2. \A n \in Nat : LET w == [row[j] EXCEPT !.status = "PROCESSING", !.attempts = n, !.expired = FALSE]
                        IN  /\ w \in Row /\ w.status = "PROCESSING" /\ w.attempts = n
                            /\ w.text = row[j].text
      BY <3>1 DEF Row, Statuses
    <3> QED BY <3>1, <3>2
  <2>2. row' = [row EXCEPT ![j] = r] BY <1>0 DEF Claim, RowsTyped
  <2> QED BY <2>1, <2>2
<1>2. /\ l \in Loop /\ l.pc = "scoping" /\ l.job = j /\ l.attempt = row[j].attempts + 1
      /\ l.text = row[j].text /\ ~l.sent /\ loop' = [loop EXCEPT ![p] = l]
  <2>1. /\ l.pc = "scoping" /\ l.job = j /\ l.attempt = row[j].attempts + 1
        /\ l.text = row[j].text /\ ~l.sent
    BY DEF IdleLoop
  <2>2. l \in Loop
    <3>1. j \in Nat /\ row[j].attempts + 1 \in Nat /\ row[j].text \in Texts /\ "scoping" \in Pcs
      BY <1>0, RowFields DEF Pcs, Before
    <3> QED BY <3>1 DEF IdleLoop, Loop
  <2>3. loop' = [loop EXCEPT ![p] = l] BY DEF Claim
  <2> QED BY <2>1, <2>2, <2>3
<1> HIDE DEF r, l
<1>3. RowsTyped' /\ row'[j] = r /\ \A i \in Jobs \ {j} : row'[i] = row[i]
  BY <1>0, <1>1, RowUpdate
<1>4. LoopsTyped' /\ loop'[p] = l /\ \A q \in Processes \ {p} : loop'[q] = loop[q]
  BY <1>0, <1>2, LoopUpdate
<1>5. Typed' BY <1>0, <1>3, <1>4 DEF Typed, RestTyped, Claim
<1>6. /\ row[j].status \in {"PENDING", "PROCESSING"} /\ row[j].attempts \in Nat
      /\ \A i \in Same(j) : i < j => row[i].status \notin Live
  BY <1>0, RowFields DEF Claim, Claimable
<1>7. RowInv(j) /\ OrderInv(j) BY DEF Ind, Core
<1>8. UNCHANGED <<committed, delivered, linked>> BY DEF Claim
<1>9. \A i \in Jobs : RowInv(i)'
  <2>1. RowInv(j)' BY <1>1, <1>3, <1>6, <1>7, <1>8 DEF RowInv
  <2>2. \A i \in Jobs \ {j} : RowInv(i)' BY <1>3, <1>8 DEF Ind, Core, RowInv
  <2> QED BY <2>1, <2>2
<1>10. \A i \in Jobs : OrderInv(i)'
  <2> SUFFICES ASSUME NEW i \in Jobs, NEW k \in Same(i), k < i
               PROVE /\ row'[i].attempts # 0 => row'[k].status \in Terminal
                     /\ row'[i].status # "ABSENT" => row'[k].status # "ABSENT"
    BY DEF OrderInv, Same
  <2>1. k \in Jobs /\ OrderInv(i) BY DEF Same, Ind, Core
  <2>2. CASE i = j
    <3>1. k # j /\ row[k].status # "ABSENT" BY <1>0, <1>6, <1>7, <2>2 DEF OrderInv
    <3>2. row[k].status \in Terminal BY <1>0, <1>6, <2>1, <2>2, <3>1, RowFields DEF Live, Terminal, Statuses
    <3> QED BY <1>3, <2>1, <3>1, <3>2
  <2>3. CASE i # j /\ k = j
    <3>1. row[i].attempts = 0 BY <1>6, <2>1, <2>3 DEF OrderInv, Terminal
    <3> QED BY <1>1, <1>3, <2>3, <3>1
  <2>4. CASE i # j /\ k # j
    BY <1>3, <2>1, <2>4 DEF OrderInv
  <2> QED BY <2>2, <2>3, <2>4
<1>11. ASSUME NEW q \in Processes, q # p, Working(q)
       PROVE /\ LoopInv(q)' /\ loop'[q] = loop[q] /\ loop[q].attempt \in Nat
             /\ loop[q].job = j => loop[q].attempt <= row[j].attempts
  <2>1. LoopInv(q) /\ loop'[q] = loop[q] /\ loop[q].job \in Jobs /\ loop[q].attempt \in Nat
    BY <1>0, <1>4, <1>11, LoopFields DEF Ind, Core, LoopsTyped
  <2>2. CASE loop[q].job # j
    <3>1. row'[loop[q].job] = row[loop[q].job] BY <1>3, <2>1, <2>2
    <3> QED BY <1>8, <1>11, <2>1, <2>2, <3>1 DEF LoopInv, Working
  <2>3. CASE loop[q].job = j
    <3>1. ~loop[q].sent /\ 0 < loop[q].attempt /\ loop[q].attempt <= row[j].attempts
      BY <1>6, <1>11, <2>1, <2>3 DEF LoopInv
    <3>2. loop[q].attempt <= row'[j].attempts /\ loop[q].attempt # row'[j].attempts
      BY <1>1, <1>3, <1>6, <2>1, <3>1
    <3>3. LoopInv(q)' BY <1>8, <1>11, <2>1, <2>3, <3>1, <3>2 DEF LoopInv, Working
    <3> QED BY <2>1, <3>1, <3>3
  <2> QED BY <2>1, <2>2, <2>3
<1>12. LoopInv(p)'
  <2>1. row'[j].attempts = loop'[p].attempt /\ 0 < loop'[p].attempt /\ loop'[p].attempt <= row'[j].attempts
    BY <1>1, <1>2, <1>3, <1>4, <1>6
  <2>2. row[j].text = "reply" => committed[j] = "reply" BY <1>7 DEF RowInv
  <2> QED BY <1>1, <1>2, <1>3, <1>4, <1>8, <2>1, <2>2 DEF LoopInv, Working, Before, Calling
<1>13. \A q \in Processes : LoopInv(q)'
  <2>1. \A q \in Processes : q # p /\ ~Working(q) => LoopInv(q)' BY <1>4 DEF LoopInv, Working
  <2> QED BY <1>11, <1>12, <2>1
<1>14. \A q, s \in Processes : q # s => PairInv(q, s)'
  <2> SUFFICES ASSUME NEW q \in Processes, NEW s \in Processes, q # s,
                      Working(q)', Working(s)', loop'[q].job = loop'[s].job
               PROVE loop'[q].attempt # loop'[s].attempt
    BY DEF PairInv
  <2>1. \A t \in {q, s} : t # p => Working(t) /\ loop'[t] = loop[t] BY <1>4 DEF Working
  <2>2. PairInv(q, s) BY DEF Ind, Core
  <2>3. CASE q # p /\ s # p BY <2>1, <2>2, <2>3 DEF PairInv
  <2>4. CASE q = p
    <3>1. loop[s].job = j /\ loop[s].attempt <= row[j].attempts /\ loop'[s] = loop[s]
          /\ loop[s].attempt \in Nat
      BY <1>2, <1>4, <1>11, <2>1, <2>4
    <3> QED BY <1>2, <1>4, <1>6, <2>4, <3>1
  <2>5. CASE s = p
    <3>1. loop[q].job = j /\ loop[q].attempt <= row[j].attempts /\ loop'[q] = loop[q]
          /\ loop[q].attempt \in Nat
      BY <1>2, <1>4, <1>11, <2>1, <2>5
    <3> QED BY <1>2, <1>4, <1>6, <2>5, <3>1
  <2> QED BY <2>3, <2>4, <2>5
<1> QED BY <1>5, <1>9, <1>10, <1>13, <1>14 DEF Ind, Core

\* A loop that only reads, and goes on according to what it read.
LEMMA ReadStep ==
  ASSUME Ind, NEW p \in Processes,
         ReadScope(p) \/ ReadOwner(p) \/ CheckBeforeSending(p) \/ ResolveToken(p) \/ Throw(p)
  PROVE  Ind'
<1>0. Working(p)
  BY DEF Working, ReadScope, ReadOwner, CheckBeforeSending, ResolveToken, Throw
<1>1. PICK j \in Jobs : loop[p].job = j /\ LoopInv(p) /\ RowInv(j) /\ RestTyped BY <1>0, Work
<1>2. /\ UNCHANGED <<row, committed, delivered, linked, human, closed, changes>> /\ faults' \in Nat
  BY <1>1 DEF ReadScope, ReadOwner, CheckBeforeSending, ResolveToken, Throw, Fault, RestTyped
<1> USE DEF LoopInv, Working, Before, Calling, Pcs
<1>3. CASE ReadScope(p)
  <2>1. CASE closed # 0
    BY <1>0, <1>1, <1>2, <1>3, <2>1, QuietGoto DEF ReadScope
  <2>2. CASE closed = 0 /\ loop[p].text = "null"
    BY <1>0, <1>1, <1>2, <1>3, <2>2, QuietGoto DEF ReadScope
  <2>3. CASE closed = 0 /\ loop[p].text = "silent"
    BY <1>0, <1>1, <1>2, <1>3, <2>3, QuietGoto DEF ReadScope
  <2>4. CASE closed = 0 /\ loop[p].text \notin {"null", "silent"}
    BY <1>0, <1>1, <1>2, <1>3, <2>4, QuietGoto DEF ReadScope
  <2> QED BY <2>1, <2>2, <2>3, <2>4
<1>4. CASE ReadOwner(p)
  <2>1. CASE Goto(p, "recording")
    BY <1>0, <1>1, <1>2, <1>4, <2>1, QuietGoto DEF ReadOwner
  <2>2. CASE Goto(p, "turning")
    BY <1>0, <1>1, <1>2, <1>4, <2>2, QuietGoto DEF ReadOwner
  <2> QED BY <1>4, <2>1, <2>2 DEF ReadOwner
<1>5. CASE CheckBeforeSending(p)
  <2>1. CASE Goto(p, "skipping")
    BY <1>0, <1>1, <1>2, <1>5, <2>1, QuietGoto DEF CheckBeforeSending
  <2>2. CASE Goto(p, "marking")
    BY <1>0, <1>1, <1>2, <1>5, <2>2, QuietGoto DEF CheckBeforeSending
  <2> QED BY <1>5, <2>1, <2>2 DEF CheckBeforeSending
<1>6. CASE ResolveToken(p)
  <2>1. CASE Goto(p, "account")
    BY <1>0, <1>1, <1>2, <1>6, <2>1, QuietGoto DEF ResolveToken
  <2>2. CASE Goto(p, "failing")
    BY <1>0, <1>1, <1>2, <1>6, <2>2, QuietGoto DEF ResolveToken
  <2> QED BY <1>6, <2>1, <2>2 DEF ResolveToken
<1>7. CASE Throw(p)
  BY <1>0, <1>1, <1>2, <1>7, QuietGoto DEF Throw
<1> QED BY <1>3, <1>4, <1>5, <1>6, <1>7
\* sendText looks at the account and then at the owner.
LEMMA LookStep ==
  ASSUME Ind, NEW p \in Processes, CheckAccount(p) \/ CheckOwner(p)
  PROVE  Ind'
<1>0. Working(p) BY DEF Working, CheckAccount, CheckOwner
<1>1. PICK j \in Jobs : loop[p].job = j /\ LoopInv(p) /\ RowInv(j) /\ RestTyped /\ LoopsTyped
  BY <1>0, Work
<1>2. UNCHANGED <<row, committed, delivered, linked, human, closed, changes, faults>>
      /\ changes \in Nat /\ faults \in Nat /\ RestTyped'
  BY <1>1 DEF CheckAccount, CheckOwner, RestTyped
<1>3. loop[p].sent /\ loop[p].pc \in Calling
  BY <1>0, <1>1 DEF CheckAccount, CheckOwner, LoopInv, Calling
<1>4. CASE Goto(p, "failing")
  BY <1>0, <1>1, <1>2, <1>3, <1>4, QuietGoto DEF LoopInv, Working, Before, Calling, Pcs
<1>5. CASE loop' = [loop EXCEPT ![p].pc = "owner", ![p].account = changes]
  <2> DEFINE l == [loop[p] EXCEPT !.pc = "owner", !.account = changes]
  <2>1. /\ l \in Loop /\ l.pc = "owner" /\ l.job = j /\ l.attempt = loop[p].attempt
        /\ l.text = loop[p].text /\ l.sent = loop[p].sent
    BY <1>1, <1>2, LoopFields DEF Loop, Pcs, Calling
  <2>2. loop' = [loop EXCEPT ![p] = l] BY <1>1, <1>5 DEF LoopsTyped
  <2> HIDE DEF l
  <2>3. loop'[p] = l BY <1>1, <2>1, <2>2 DEF LoopsTyped
  <2>4. LoopInv(p)'
    BY <1>0, <1>1, <1>2, <1>3, <2>1, <2>3 DEF LoopInv, Working, Before, Calling
  <2> QED BY <1>0, <1>1, <1>2, <2>1, <2>2, <2>4, QuietStep
<1>6. CASE loop' = [loop EXCEPT ![p].pc = "posting", ![p].owner = changes]
  <2> DEFINE l == [loop[p] EXCEPT !.pc = "posting", !.owner = changes]
  <2>1. /\ l \in Loop /\ l.pc = "posting" /\ l.job = j /\ l.attempt = loop[p].attempt
        /\ l.text = loop[p].text /\ l.sent = loop[p].sent
    BY <1>1, <1>2, LoopFields DEF Loop, Pcs, Calling
  <2>2. loop' = [loop EXCEPT ![p] = l] BY <1>1, <1>6 DEF LoopsTyped
  <2> HIDE DEF l
  <2>3. loop'[p] = l BY <1>1, <2>1, <2>2 DEF LoopsTyped
  <2>4. LoopInv(p)'
    BY <1>0, <1>1, <1>2, <1>3, <2>1, <2>3 DEF LoopInv, Working, Before, Calling
  <2> QED BY <1>0, <1>1, <1>2, <2>1, <2>2, <2>4, QuietStep
<1> QED BY <1>4, <1>5, <1>6 DEF CheckAccount, CheckOwner

\* The engine's turn, and the message stored without one: an answer that is committed stays
\* the answer.
LEMMA TurnStep == ASSUME Ind, NEW p \in Processes, Record(p) \/ Turn(p) \/ TurnRefused(p)
  PROVE Ind'
<1>0. Working(p) BY DEF Working, Record, Turn, TurnRefused
<1>1. PICK j \in Jobs : loop[p].job = j /\ LoopInv(p) /\ RowInv(j) /\ RestTyped /\ LoopsTyped
  BY <1>0, Work
<1>2. PICK t \in {"silent", "reply", "resend"} :
        /\ loop' = [loop EXCEPT ![p].pc = "saving", ![p].text = t]
        /\ committed' \in [Jobs -> {"none", "silent", "reply"}] /\ faults' \in Nat
        /\ \A i \in Jobs \ {j} : committed'[i] = committed[i]
        /\ committed[j] = "reply" => committed'[j] = "reply"
        /\ t = "reply" => committed'[j] = "reply"
  <2>1. CASE Record(p)
    BY <1>1, <2>1 DEF Record, RestTyped
  <2>2. CASE Turn(p)
    <3>1. PICK t \in {"silent", "reply", "resend"} :
            /\ IF t = "resend" THEN Fault("conflict") /\ UNCHANGED committed
               ELSE /\ committed[j] # "none" => t = committed[j]
                    /\ committed' = [committed EXCEPT ![j] = t] /\ UNCHANGED faults
            /\ loop' = [loop EXCEPT ![p].pc = "saving", ![p].text = t]
      BY <1>1, <2>2 DEF Turn
    <3>2. CASE t = "resend" BY <1>1, <3>1, <3>2 DEF RestTyped, Fault
    <3>3. CASE t # "resend" BY <1>1, <3>1, <3>3 DEF RestTyped
    <3> QED BY <3>2, <3>3
  <2>3. CASE TurnRefused(p) BY <1>1, <2>3 DEF TurnRefused, RestTyped
  <2> QED BY <2>1, <2>2, <2>3
<1>3. UNCHANGED <<row, delivered, linked, human, closed, changes>> /\ loop[p].pc \in Before
  BY DEF Record, Turn, TurnRefused, Before
<1> DEFINE l == [loop[p] EXCEPT !.pc = "saving", !.text = t]
<1>4. /\ l \in Loop /\ l.pc = "saving" /\ l.job = j /\ l.attempt = loop[p].attempt
      /\ l.text = t /\ l.sent = loop[p].sent
  BY <1>1, LoopFields DEF Loop, Pcs, Before, Texts
<1>5. loop' = [loop EXCEPT ![p] = l] BY <1>1, <1>2 DEF LoopsTyped
<1> HIDE DEF l
<1>6. loop'[p] = l BY <1>1, <1>4, <1>5 DEF LoopsTyped
<1>7. ~loop[p].sent BY <1>0, <1>1, <1>3 DEF LoopInv
<1>8. LoopInv(p)'
  BY <1>0, <1>1, <1>2, <1>3, <1>4, <1>6, <1>7 DEF LoopInv, Working, Before, Calling
<1>9. RestTyped' BY <1>1, <1>2, <1>3 DEF RestTyped
<1> QED BY <1>0, <1>1, <1>2, <1>3, <1>4, <1>5, <1>8, <1>9, QuietStep

LEMMA HeartbeatStep == ASSUME Ind, NEW p \in Processes, Heartbeat(p) PROVE Ind'
<1>1. LoopsTyped /\ RestTyped BY DEF Ind, Typed
<1>2. Working(p) BY <1>1 DEF Heartbeat, LoopsTyped, NoJob
<1>3. PICK j \in Jobs : loop[p].job = j /\ LoopInv(p)
  BY <1>2, Work
<1> DEFINE l == [loop[p] EXCEPT !.lost = TRUE]
<1>4. /\ l \in Loop /\ l.pc = loop[p].pc /\ l.job = j /\ l.attempt = loop[p].attempt
      /\ l.text = loop[p].text /\ l.sent = loop[p].sent
  BY <1>1, <1>3, LoopFields DEF Loop
<1>5. loop' = [loop EXCEPT ![p] = l] BY <1>1 DEF Heartbeat, LoopsTyped
<1> HIDE DEF l
<1>6. loop'[p] = l BY <1>1, <1>4, <1>5 DEF LoopsTyped
<1>7. UNCHANGED <<row, committed, delivered, linked, human, closed, changes>> /\ RestTyped'
  BY <1>1 DEF Heartbeat, RestTyped, Fault
<1>8. LoopInv(p)' BY <1>2, <1>3, <1>4, <1>6, <1>7 DEF LoopInv, Working
<1> QED BY <1>2, <1>3, <1>4, <1>5, <1>7, <1>8, QuietStep DEF Working
\* A claim that still holds its row has the row's number, and its status tells whether it
\* has marked it.
LEMMA Holding ==
  ASSUME Ind, NEW p \in Processes, Working(p), NEW j \in Jobs, loop[p].job = j, Owns(p)
  PROVE  /\ loop[p].attempt = row[j].attempts /\ row[j].attempts # 0 /\ row[j] \in Row
         /\ loop[p].sent => row[j].status \in {"SENDING", "FAILED"}
         /\ ~loop[p].sent => row[j].status = "PROCESSING"
<1>1. LoopInv(p) /\ RowsTyped /\ LoopsTyped BY DEF Ind, Core, Typed
<1>2. loop[p].attempt = row[j].attempts BY DEF Owns
<1>3. row[j] \in Row /\ row[j].attempts \in Nat /\ 0 < loop[p].attempt
  BY <1>1, RowFields DEF LoopInv
<1> QED BY <1>1, <1>2, <1>3 DEF LoopInv

\* A loop ends its job with a write of the row's status, or finds it lost.
LEMMA EndStep ==
  ASSUME Ind, NEW p \in Processes, Skip(p) \/ Complete(p) \/ Fail(p)
  PROVE  Ind'
<1>0. Working(p) BY DEF Working, Skip, Complete, Fail
<1>1. PICK j \in Jobs : loop[p].job = j /\ LoopInv(p) /\ RowInv(j) /\ RestTyped /\ LoopsTyped
  BY <1>0, Work
<1>2. /\ UNCHANGED <<committed, delivered, linked, human, closed, changes, faults>> /\ Idle(p)
      /\ faults' \in Nat
  BY <1>1 DEF Skip, Complete, Fail, RestTyped
<1>3. CASE UNCHANGED row BY <1>2, <1>3, QuietIdle
<1>4. CASE Owns(p) /\ Skip(p) /\ row' # row
  <2> DEFINE r == [row[j] EXCEPT !.status = "SKIPPED"]
  <2>1. row' = [row EXCEPT ![j] = r] /\ row[j].status = "PROCESSING"
    BY <1>1, <1>4 DEF Skip, UpdateOwned
  <2>2. row[j] \in Row /\ loop[p].attempt = row[j].attempts /\ row[j].attempts # 0
    BY <1>0, <1>1, <1>4, Holding
  <2>3. r \in Row /\ r.status = "SKIPPED" /\ r.attempts = row[j].attempts /\ r.text = row[j].text
    BY <2>2 DEF Row, Statuses
  <2> HIDE DEF r
  <2>4. row'[j] = r => RowInv(j)' BY <1>1, <1>2, <2>1, <2>2, <2>3 DEF RowInv
  <2> QED BY <1>0, <1>1, <1>2, <2>1, <2>2, <2>3, <2>4, WriteIdle
<1>5. CASE Owns(p) /\ Complete(p) /\ row' # row
  <2> DEFINE r == [row[j] EXCEPT !.status = "COMPLETED"]
  <2>1. /\ row' = [row EXCEPT ![j] = r]
        /\ row[j].status = IF loop[p].sent THEN "SENDING" ELSE "PROCESSING"
    BY <1>1, <1>5 DEF Complete, UpdateOwned
  <2>2. row[j] \in Row /\ loop[p].attempt = row[j].attempts /\ row[j].attempts # 0
    BY <1>0, <1>1, <1>5, Holding
  <2>3. r \in Row /\ r.status = "COMPLETED" /\ r.attempts = row[j].attempts /\ r.text = row[j].text
    BY <2>2 DEF Row, Statuses
  <2> HIDE DEF r
  <2>4. /\ delivered[j] = (IF row[j].text = "silent" THEN 0 ELSE 1)
        /\ row[j].text = "reply" => linked[j]
    BY <1>0, <1>1, <1>5, <2>1, <2>2 DEF LoopInv, RowInv, Complete
  <2>5. row'[j] = r => RowInv(j)' BY <1>1, <1>2, <2>1, <2>2, <2>3, <2>4 DEF RowInv
  <2> QED BY <1>0, <1>1, <1>2, <2>1, <2>2, <2>3, <2>5, WriteIdle
<1>6. CASE Owns(p) /\ Fail(p) /\ row' # row
  <2> DEFINE s == IF loop[p].sent \/ loop[p].attempt >= MaxAttempts THEN "FAILED" ELSE "PENDING"
             r == [row[j] EXCEPT !.status = s, !.expired = FALSE, !.ready = FALSE]
  <2>1. /\ row' = [row EXCEPT ![j] = r]
        /\ row[j].status = IF loop[p].sent THEN "SENDING" ELSE "PROCESSING"
    BY <1>1, <1>6 DEF Fail, UpdateOwned, Failed
  <2>2. row[j] \in Row /\ loop[p].attempt = row[j].attempts /\ row[j].attempts # 0
    BY <1>0, <1>1, <1>6, Holding
  <2>3. s \in {"FAILED", "PENDING"} /\ (s = "PENDING" => ~loop[p].sent)
    OBVIOUS
  <2> HIDE DEF s
  <2>4. r \in Row /\ r.status = s /\ r.attempts = row[j].attempts /\ r.text = row[j].text
    BY <2>2, <2>3 DEF Row, Statuses
  <2> HIDE DEF r
  <2>5. row'[j] = r => RowInv(j)' BY <1>1, <1>2, <2>1, <2>2, <2>3, <2>4 DEF RowInv
  <2> QED BY <1>0, <1>1, <1>2, <2>1, <2>2, <2>3, <2>4, <2>5, WriteIdle
<1> QED BY <1>3, <1>4, <1>5, <1>6 DEF Skip, Complete, Fail, UpdateOwned

\* The answer is saved, and the row is marked before it is sent.
LEMMA SaveStep == ASSUME Ind, NEW p \in Processes, Save(p) \/ MarkSending(p) PROVE Ind'
<1>0. Working(p) /\ loop[p].pc \in Before BY DEF Working, Save, MarkSending, Before
<1>1. PICK j \in Jobs : loop[p].job = j /\ LoopInv(p) /\ RowInv(j) /\ RestTyped /\ LoopsTyped
  BY <1>0, Work
<1>2. /\ UNCHANGED <<committed, delivered, linked, human, closed, changes, faults>>
      /\ faults' \in Nat /\ RestTyped'
  BY <1>1 DEF Save, MarkSending, RestTyped
<1>3. ~loop[p].sent BY <1>0, <1>1 DEF LoopInv
<1>4. CASE ~(Owns(p) /\ row[j].status = "PROCESSING")
  <2>1. UNCHANGED row /\ Idle(p) BY <1>1, <1>4 DEF Save, MarkSending, UpdateOwned
  <2> QED BY <1>2, <2>1, QuietIdle
<1>5. CASE Owns(p) /\ row[j].status = "PROCESSING" /\ Save(p)
  <2> DEFINE pc == IF loop[p].text = "silent" THEN "completing" ELSE "checking"
             r == [row[j] EXCEPT !.text = loop[p].text]
             l == [loop[p] EXCEPT !.pc = pc]
  <2>1. row[j] \in Row /\ loop[p].attempt = row[j].attempts /\ row[j].attempts # 0
    BY <1>0, <1>1, <1>5, Holding
  <2>2. /\ r \in Row /\ r.status = row[j].status /\ r.attempts = row[j].attempts
        /\ r.text = loop[p].text
    BY <1>1, <2>1, LoopFields DEF Row
  <2>3. row' = [row EXCEPT ![j] = r] /\ loop' = [loop EXCEPT ![p] = l]
    BY <1>1, <1>5 DEF Save, UpdateOwned, Goto
  <2>4. /\ pc \in {"completing", "checking"}
        /\ pc = "completing" => loop[p].text = "silent"
        /\ pc = "checking" => loop[p].text # "silent"
    OBVIOUS
  <2> HIDE DEF pc
  <2>5. /\ l \in Loop /\ l.pc = pc /\ l.job = j /\ l.attempt = loop[p].attempt
        /\ l.text = loop[p].text /\ l.sent = loop[p].sent
    BY <1>1, <2>4, LoopFields DEF Loop, Pcs, Before
  <2> HIDE DEF l, r
  <2>6. loop[p].text = "reply" => committed[j] = "reply" BY <1>0, <1>1 DEF LoopInv
  <2>7. row'[j] = r => RowInv(j)' BY <1>1, <1>2, <1>5, <2>1, <2>2, <2>6 DEF RowInv
  <2>8. row'[j] = r /\ loop'[p] = l => LoopInv(p)'
    BY <1>0, <1>1, <1>2, <1>3, <1>5, <2>1, <2>2, <2>4, <2>5
       DEF LoopInv, Working, Before, Calling
  <2> QED BY <1>0, <1>1, <1>2, <1>5, <2>1, <2>2, <2>3, <2>4, <2>5, <2>7, <2>8, WriteStep
<1>6. CASE Owns(p) /\ row[j].status = "PROCESSING" /\ MarkSending(p)
  <2> DEFINE r == [row[j] EXCEPT !.status = "SENDING"]
             l == [loop[p] EXCEPT !.pc = "token", !.sent = TRUE]
  <2>1. row[j] \in Row /\ loop[p].attempt = row[j].attempts /\ row[j].attempts # 0
    BY <1>0, <1>1, <1>6, Holding
  <2>2. /\ r \in Row /\ r.status = "SENDING" /\ r.attempts = row[j].attempts
        /\ r.text = row[j].text
    BY <1>1, <2>1 DEF Row, Statuses
  <2>3. row' = [row EXCEPT ![j] = r] /\ loop' = [loop EXCEPT ![p] = l]
    BY <1>1, <1>6 DEF MarkSending, UpdateOwned, LoopsTyped
  <2>4. /\ l \in Loop /\ l.pc = "token" /\ l.job = j /\ l.attempt = loop[p].attempt
        /\ l.text = loop[p].text /\ l.sent
    BY <1>1, LoopFields DEF Loop, Pcs, Calling
  <2> HIDE DEF l, r
  <2>5. row[j].text # "silent" /\ delivered[j] = 0 /\ (row[j].text = "reply" => committed[j] = "reply")
    BY <1>0, <1>1, <1>3, <1>6, <2>1 DEF LoopInv, RowInv, MarkSending
  <2>6. row'[j] = r => RowInv(j)' BY <1>1, <1>2, <2>1, <2>2, <2>5 DEF RowInv
  <2>7. row'[j] = r /\ loop'[p] = l => LoopInv(p)'
    BY <1>0, <1>1, <1>2, <2>1, <2>2, <2>4, <2>5 DEF LoopInv, Working, Before, Calling
  <2> QED BY <1>0, <1>1, <1>2, <1>6, <2>1, <2>2, <2>3, <2>4, <2>6, <2>7, WriteStep
<1> QED BY <1>1, <1>4, <1>5, <1>6

\* The request to Meta, and the link: the loop has marked the row, and no other claim may.
LEMMA PostStep == ASSUME Ind, NEW p \in Processes, Post(p) \/ Link(p) PROVE Ind'
<1>0. Working(p) /\ loop[p].pc \in Calling \cup {"linking"} BY DEF Working, Post, Link, Calling
<1>1. PICK j \in Jobs : loop[p].job = j /\ LoopInv(p) /\ RowInv(j) /\ RestTyped /\ LoopsTyped
  BY <1>0, Work
<1>2. /\ loop[p].sent /\ loop[p].attempt = row[j].attempts
      /\ row[j].status \in {"SENDING", "FAILED"} /\ row[j].text # "silent"
  BY <1>0, <1>1 DEF LoopInv
<1>3. UNCHANGED <<row, committed, human, closed, changes, faults>>
  BY DEF Post, Link
<1>4. CASE Post(p) /\ delivered' = delivered
  <2>1. Goto(p, "failing") /\ linked' = linked
    BY <1>0, <1>1, <1>4 DEF Post, RestTyped
  <2> QED
    BY <1>0, <1>1, <1>2, <1>3, <1>4, <2>1, QuietGoto DEF RestTyped, LoopInv, Working, Before, Calling, Pcs
<1>5. CASE delivered' # delivered \/ Link(p)
  <2>1. PICK pc \in {"linking", "failing", "completing"} :
          /\ Goto(p, pc)
          /\ \A i \in Jobs \ {j} : delivered'[i] = delivered[i] /\ linked'[i] = linked[i]
          /\ delivered' \in [Jobs -> Nat] /\ linked' \in [Jobs -> BOOLEAN]
          /\ delivered'[j] = 1
          /\ pc = "completing" /\ row[j].text = "reply" => linked'[j]
    <3>1. CASE Post(p)
      <4>1. delivered[j] = 0 BY <1>0, <1>1, <1>2, <3>1 DEF LoopInv, Post, Calling
      <4>2. delivered' = [delivered EXCEPT ![j] = @ + 1] /\ linked' = linked
        BY <1>1, <1>5, <3>1 DEF Post, Link
      <4>3. Goto(p, "linking") \/ Goto(p, "failing") BY <3>1 DEF Post
      <4> QED BY <1>1, <4>1, <4>2, <4>3 DEF RestTyped
    <3>2. CASE Link(p)
      <4>1. delivered[j] = 1 BY <1>0, <1>1, <1>2, <3>2 DEF LoopInv, Link
      <4>2. /\ linked' = [linked EXCEPT ![j] = (committed[j] = "reply")] /\ Goto(p, "completing")
            /\ delivered' = delivered
        BY <1>1, <3>2 DEF Link
      <4>3. row[j].text = "reply" => committed[j] = "reply" BY <1>1 DEF RowInv
      <4> QED BY <1>1, <4>1, <4>2, <4>3 DEF RestTyped
    <3> QED BY <3>1, <3>2
  <2>2. /\ loop'[p].pc = pc /\ loop'[p].job = j /\ loop'[p].attempt = loop[p].attempt
        /\ loop'[p].text = loop[p].text /\ loop'[p].sent = loop[p].sent
    BY <1>0, <1>1, <2>1, Work DEF Pcs
  <2>3. LoopsTyped' /\ \A q \in Processes \ {p} : loop'[q] = loop[q]
    BY <1>0, <1>1, <2>1, GotoType DEF Pcs
  <2>4. Typed' BY <1>1, <1>3, <2>1, <2>3 DEF Ind, Typed, RowsTyped, RestTyped
  <2>5. RowInv(j)' BY <1>1, <1>2, <1>3, <2>1 DEF RowInv
  <2>6. LoopInv(p)'
    BY <1>0, <1>1, <1>2, <1>3, <2>1, <2>2 DEF LoopInv, Working, Before, Calling
  <2>7. Core' BY <1>0, <1>1, <1>2, <1>3, <2>1, <2>2, <2>3, <2>4, <2>5, <2>6, OwnStep
  <2> QED BY <2>4, <2>7 DEF Ind
<1> QED BY <1>4, <1>5

LEMMA StepInd == Ind /\ [Next]_vars => Ind'
<1> SUFFICES ASSUME Ind, [Next]_vars PROVE Ind'
  OBVIOUS
<1>1. CASE UNCHANGED vars
  BY <1>1 DEF vars, Ind, Typed, RowsTyped, LoopsTyped, RestTyped, Core, RowInv, LoopInv, PairInv,
              OrderInv, Working, Same
<1>2. ASSUME NEW p \in Processes, ClaimNothing(p) \/ Crash(p) PROVE Ind'
  <2>1. RestTyped BY DEF Ind, Typed
  <2>2. /\ Idle(p) /\ faults' \in Nat
        /\ UNCHANGED <<row, committed, delivered, linked, human, closed, changes>>
    BY <1>2, <2>1 DEF ClaimNothing, Crash, Fault, RestTyped
  <2> QED BY <2>2, QuietIdle
<1>3. ASSUME NEW p \in Processes, Tick(p) PROVE Ind'
  BY <1>2, <1>3, SweepStep, ClaimStep, ReadStep, LookStep, TurnStep, EndStep, SaveStep, PostStep
     DEF Tick
<1> QED BY <1>1, <1>2, <1>3, Environment, HeartbeatStep DEF Next, Clock

-----------------------------------------------------------------------------
(* The results *)

\* Every variable keeps its type, and a loop works on a job exactly while its step says so.
THEOREM TypeCorrect == Spec => []Typed
<1>1. Ind => Typed BY DEF Ind
<1>2. Init => Ind BY InitInd
<1> QED BY <1>1, <1>2, StepInd, PTL DEF Spec

\* A row, the claims that work on it and what Meta has accepted agree after every step.
THEOREM Inductive == Spec => []Ind
<1>1. Init => Ind BY InitInd
<1> QED BY <1>1, StepInd, PTL DEF Spec

\* Whatever crashes, is taken over or comes late: no customer gets an answer twice, a job that is
\* retried or skipped has sent nothing, a completed one has sent its answer.
THEOREM OutcomesAreTruthful == Spec => []TruthfulOutcome
<1>1. Ind => TruthfulOutcome
  <2> SUFFICES ASSUME Ind PROVE TruthfulOutcome
    OBVIOUS
  <2>1. \A j \in Jobs : RowInv(j) BY DEF Ind, Core
  <2> QED BY <2>1 DEF TruthfulOutcome, RowInv
<1> QED BY <1>1, Inductive, PTL

\* The answers of one customer leave in the order of the messages, except one that was written
\* off while its worker was held up: what comes later was not even claimed before the earlier
\* one ended.
THEOREM AnswersLeaveInOrder == Spec => AnswersInOrder
<1> DEFINE InOrder == \A j \in Jobs : delivered'[j] # delivered[j] =>
                        row[j].status = "FAILED" \/ \A i \in Same(j) : i > j => delivered[i] = 0
<1>1. ASSUME Ind, [Next]_vars PROVE InOrder
  <2> SUFFICES ASSUME NEW j \in Jobs, delivered'[j] # delivered[j], row[j].status # "FAILED",
                      NEW i \in Same(j), i > j
               PROVE delivered[i] = 0
    OBVIOUS
  <2>0. i \in Jobs /\ j \in Same(i) /\ Jobs \subseteq Nat BY JobsAssumption DEF Same
  <2>1. PICK p \in Processes : Post(p) /\ loop[p].job = j
    BY <1>1 DEF Next, Tick, Clock, Receive, ChangeOwner, ChangeAccount, BackoffElapses, LeaseRunsOut,
         Stall, Sweep, Claim, ClaimNothing, ReadScope, Skip, ReadOwner, Record, Turn, TurnRefused, Save,
         CheckBeforeSending, MarkSending, ResolveToken, CheckAccount, CheckOwner, Post, Link, Complete,
         Throw, Fail, Heartbeat, Crash, vars, Ind, Typed, RestTyped
  <2>2. Working(p) /\ loop[p].pc \in Calling BY <2>1 DEF Post, Working, Calling
  <2>3. row[j].status = "SENDING" BY <1>1, <2>1, <2>2 DEF Ind, Core, LoopInv
  <2>4. row[i].attempts = 0 BY <1>1, <2>0, <2>3 DEF Ind, Core, OrderInv, Terminal
  <2> QED BY <1>1, <2>0, <2>4 DEF Ind, Core, RowInv
<1> QED BY <1>1, Inductive, PTL DEF Spec, AnswersInOrder
\* A step that changes no owner and no account, by a loop that does not go on to a look or to the
\* request, leaves every look as it was.
LEMMA OtherSteps ==
  ASSUME Ind, Heard, UNCHANGED <<human, closed, changes>>, NEW p \in Processes,
         \A q \in Processes \ {p} : loop'[q] = loop[q],
         \/ loop'[p].account = loop[p].account /\ loop'[p].owner = loop[p].owner
         \/ loop'[p].account = 0 /\ loop'[p].owner = 0,
         loop'[p].pc \in {"owner", "posting"} => loop'[p].pc = loop[p].pc /\ loop'[p].job = loop[p].job,
         loop'[p].pc \in {"owner", "posting"} =>
           loop'[p].account = loop[p].account /\ loop'[p].owner = loop[p].owner
  PROVE  Heard'
<1>1. changes \in Nat BY DEF Ind, Typed, RestTyped
<1>2. Looked(p) BY DEF Heard
<1>3. Looked(p)' BY <1>1, <1>2 DEF Looked, Customer
<1> QED BY <1>3 DEF Heard, Looked, Customer

LEMMA StepHeard == Ind /\ Heard /\ [Next]_vars => Heard'
<1> SUFFICES ASSUME Ind, Heard, [Next]_vars PROVE Heard'
  OBVIOUS
<1>0. LoopsTyped /\ RestTyped /\ changes \in Nat /\ closed \in Nat /\ human \in [Senders -> Nat]
  BY DEF Ind, Typed, RestTyped
<1>1. CASE UNCHANGED <<loop, human, closed, changes>>
  BY <1>1 DEF Heard, Looked, Customer
<1>2. CASE ChangeAccount \/ \E c \in Senders : ChangeOwner(c)
  <2>1. /\ loop' = loop /\ changes' = changes + 1 /\ changes < changes'
        /\ closed' \in {closed, 0, changes'}
        /\ \A c \in Senders : human'[c] \in {human[c], 0, changes'}
    BY <1>0, <1>2 DEF ChangeAccount, ChangeOwner, Change
  <2> SUFFICES ASSUME NEW p \in Processes PROVE Looked(p)'
    BY DEF Heard
  <2>2. Looked(p) /\ loop[p].account \in Nat /\ loop[p].owner \in Nat
    BY <1>0, LoopFields DEF Heard
  <2>3. loop[p].pc = "posting" => Customer(p) \in Senders
    BY <1>0, JobsAssumption DEF Customer, LoopsTyped, Working
  <2>4. loop[p].account < changes' /\ loop[p].owner < changes'
    BY <1>0, <2>1, <2>2 DEF Looked
  <2> QED BY <2>1, <2>2, <2>3, <2>4 DEF Looked, Customer
<1>3. ASSUME NEW p \in Processes, Idle(p), UNCHANGED <<human, closed, changes>> PROVE Heard'
  <2>1. loop'[p] = IdleLoop /\ \A q \in Processes \ {p} : loop'[q] = loop[q]
    BY <1>0, <1>3, IdleType
  <2> QED BY <1>3, <2>1, OtherSteps DEF IdleLoop
<1>4. ASSUME NEW p \in Processes, NEW pc \in Pcs \ {"owner", "posting"}, Goto(p, pc),
             UNCHANGED <<human, closed, changes>>
      PROVE  Heard'
  <2>1. /\ \A q \in Processes \ {p} : loop'[q] = loop[q]
        /\ loop'[p].pc = pc /\ loop'[p].account = loop[p].account /\ loop'[p].owner = loop[p].owner
    BY <1>0, <1>4, LoopFields DEF Goto, LoopsTyped, Loop
  <2> QED BY <1>4, <2>1, OtherSteps
<1>5. ASSUME NEW p \in Processes, NEW j \in Jobs, Claim(p, j) PROVE Heard'
  <2>1. /\ UNCHANGED <<human, closed, changes>> /\ \A q \in Processes \ {p} : loop'[q] = loop[q]
        /\ loop'[p].pc = "scoping" /\ loop'[p].account = 0 /\ loop'[p].owner = 0
    BY <1>0, <1>5 DEF Claim, LoopsTyped, IdleLoop
  <2> QED BY <2>1, OtherSteps
<1>6. ASSUME NEW p \in Processes, Record(p) \/ Turn(p) \/ TurnRefused(p)
      PROVE Heard'
  <2>1. /\ UNCHANGED <<human, closed, changes>> /\ \A q \in Processes \ {p} : loop'[q] = loop[q]
        /\ loop'[p].pc = "saving" /\ loop'[p].account = loop[p].account
        /\ loop'[p].owner = loop[p].owner
    BY <1>0, <1>6, LoopFields DEF Record, Turn, TurnRefused, LoopsTyped, Loop
  <2> QED BY <2>1, OtherSteps
<1>7. ASSUME NEW p \in Processes, Heartbeat(p) PROVE Heard'
  <2>1. /\ UNCHANGED <<human, closed, changes>> /\ \A q \in Processes \ {p} : loop'[q] = loop[q]
        /\ loop'[p].pc = loop[p].pc /\ loop'[p].account = loop[p].account
        /\ loop'[p].owner = loop[p].owner /\ loop'[p].job = loop[p].job
    BY <1>0, <1>7, LoopFields DEF Heartbeat, LoopsTyped, Loop
  <2> QED BY <2>1, OtherSteps
<1>8. ASSUME NEW p \in Processes, Save(p) \/ MarkSending(p) PROVE Heard'
  <2>1. UNCHANGED <<human, closed, changes>> BY <1>8 DEF Save, MarkSending
  <2>2. CASE Idle(p) BY <1>3, <2>1, <2>2
  <2>3. CASE \E pc \in {"completing", "checking"} : Goto(p, pc)
    BY <1>4, <2>1, <2>3 DEF Pcs, Before
  <2>4. CASE loop' = [loop EXCEPT ![p].pc = "token", ![p].sent = TRUE]
    <3>1. /\ \A q \in Processes \ {p} : loop'[q] = loop[q]
          /\ loop'[p].pc = "token" /\ loop'[p].account = loop[p].account
          /\ loop'[p].owner = loop[p].owner
      BY <1>0, <2>4, LoopFields DEF LoopsTyped, Loop
    <3> QED BY <2>1, <3>1, OtherSteps
  <2> QED BY <1>8, <2>2, <2>3, <2>4 DEF Save, MarkSending, UpdateOwned
<1>9. ASSUME NEW p \in Processes, CheckAccount(p) PROVE Heard'
  <2>1. UNCHANGED <<human, closed, changes>> BY <1>9 DEF CheckAccount
  <2>2. CASE closed # 0 BY <1>4, <1>9, <2>1, <2>2 DEF CheckAccount, Pcs
  <2>3. CASE closed = 0
    <3>1. /\ \A q \in Processes \ {p} : loop'[q] = loop[q]
          /\ loop'[p].pc = "owner" /\ loop'[p].account = changes /\ loop'[p].owner = loop[p].owner
      BY <1>0, <1>9, <2>3, LoopFields DEF CheckAccount, LoopsTyped, Loop
    <3>2. Looked(p)' BY <1>0, <2>1, <2>3, <3>1 DEF Heard, Looked
    <3> QED BY <2>1, <3>1, <3>2 DEF Heard, Looked, Customer
  <2> QED BY <2>2, <2>3
<1>10. ASSUME NEW p \in Processes, CheckOwner(p) PROVE Heard'
  <2>1. UNCHANGED <<human, closed, changes>> BY <1>10 DEF CheckOwner
  <2>2. CASE human[Customer(p)] # 0 BY <1>4, <1>10, <2>1, <2>2 DEF CheckOwner, Pcs
  <2>3. CASE human[Customer(p)] = 0
    <3>1. /\ loop[p].pc = "owner" /\ \A q \in Processes \ {p} : loop'[q] = loop[q]
          /\ loop'[p].pc = "posting" /\ loop'[p].owner = changes /\ loop'[p].account = loop[p].account
          /\ loop'[p].job = loop[p].job
      BY <1>0, <1>10, <2>3, LoopFields DEF CheckOwner, LoopsTyped, Loop
    <3>2. Looked(p) BY DEF Heard
    <3>3. human'[Sender[loop'[p].job]] = 0 BY <2>1, <2>3, <3>1 DEF Customer
    <3>4. Looked(p)' BY <1>0, <2>1, <3>1, <3>2, <3>3 DEF Looked, Customer
    <3> QED BY <2>1, <3>1, <3>4 DEF Heard, Looked, Customer
  <2> QED BY <2>2, <2>3
<1>11. ASSUME NEW p \in Processes, Tick(p) PROVE Heard'
  <2>1. CASE Sweep(p) BY <1>4, <2>1 DEF Sweep, Pcs
  <2>2. CASE ClaimNothing(p) \/ Skip(p) \/ Complete(p) \/ Fail(p)
    BY <1>3, <2>2 DEF ClaimNothing, Skip, Complete, Fail
  <2>3. CASE ReadScope(p) \/ ReadOwner(p) \/ CheckBeforeSending(p)
    <3>1. \E pc \in Pcs \ {"owner", "posting"} : Goto(p, pc)
      BY <2>3 DEF ReadScope, ReadOwner, CheckBeforeSending, Pcs, Before
    <3> QED BY <1>4, <2>3, <3>1 DEF ReadScope, ReadOwner, CheckBeforeSending
  <2>4. CASE ResolveToken(p) \/ Throw(p) \/ Post(p) \/ Link(p)
    <3>1. \E pc \in Pcs \ {"owner", "posting"} : Goto(p, pc)
      BY <2>4 DEF ResolveToken, Throw, Post, Link, Pcs, Calling
    <3> QED BY <1>4, <2>4, <3>1 DEF ResolveToken, Throw, Post, Link
  <2> QED BY <1>5, <1>6, <1>8, <1>9, <1>10, <1>11, <2>1, <2>2, <2>3, <2>4 DEF Tick
<1>12. ASSUME NEW p \in Processes, Crash(p) PROVE Heard'
  BY <1>3, <1>12 DEF Crash
<1>13. CASE \E j \in Jobs : Receive(j) \/ BackoffElapses(j) \/ LeaseRunsOut(j) \/ Stall(j)
  BY <1>1, <1>13 DEF Receive, BackoffElapses, LeaseRunsOut, Stall
<1>14. CASE UNCHANGED vars BY <1>1, <1>14 DEF vars
<1> QED BY <1>2, <1>7, <1>11, <1>12, <1>13, <1>14 DEF Next, Clock

\* When the request to Meta is made, the account may answer and no person has the conversation,
\* unless that changed after sendText looked.
THEOREM PersonsAreHeard == Spec => []HumanIsHeard
<1>1. Init => Ind /\ Heard BY InitInd
<1>2. Ind /\ Heard /\ [Next]_vars => Ind' /\ Heard' BY StepInd, StepHeard
<1>3. Heard => HumanIsHeard BY DEF Heard, Looked, HumanIsHeard
<1> QED BY <1>1, <1>2, <1>3, PTL DEF Spec
=============================================================================
