-------------------------- MODULE QrSessionsProofs --------------------------
(***************************************************************************)
(* Proofs about QrSessions for any set of processes and any bounds: whatever *)
(* handlers run side by side, two processes have a session of one number at  *)
(* once only after a lease row was lost under a session.                     *)
(***************************************************************************)
EXTENDS QrSessions, TLAPS

-----------------------------------------------------------------------------
(* The inductive invariant *)

StartSteps == {"idle", "looking", "releasing", "reading", "claiming", "creating", "failing"}
QrSteps == {"idle", "writing", "cleaning"}
OpenSteps == {"idle", "claiming", "connecting", "enabling", "cleaning"}
CloseSteps == {"idle", "releasing", "clearing", "number", "reading", "writing", "cleaning"}
ProcState ==
  [up: BOOLEAN, sess: {"none", "linking", "open"}, start: StartSteps, auto: BOOLEAN,
   beat: {"idle", "releasing"}, qr: QrSteps, shown: BOOLEAN,
   open: OpenSteps, close: CloseSteps, loggedOut: BOOLEAN, saw: BOOLEAN,
   pause: {"idle", "number", "connection"}, review: {"FAILED", "SUSPENDED"},
   timer: BOOLEAN, retries: Nat, disc: {"idle", "bot", "device", "lease"}]
Connection ==
  [status: {"PENDING", "QR_REQUIRED", "CONNECTED", "RECONNECTING", "DISCONNECTED", "PAUSED",
            "FAILED", "SUSPENDED"},
   enabled: BOOLEAN, bot: BOOLEAN]
Lease == [owner: Processes \cup {NoOne}, live: BOOLEAN]

ProcTyped == proc \in [Processes -> ProcState]
ConnTyped == conn \in Connection /\ allowed \in BOOLEAN /\ number \in BOOLEAN /\ creds \in BOOLEAN
LeaseTyped == lease \in Lease /\ torn \in BOOLEAN
PeopleTyped ==
  /\ admin \in {"idle", "connected", "other"} /\ client \in {"idle", "reviving"}
  /\ acts \in Nat /\ closes \in Nat /\ faults \in Nat
Typed == ProcTyped /\ ConnTyped /\ LeaseTyped /\ PeopleTyped

\* A process that has a session, or has the lease and is about to have one.
Holds(r) == r.sess # "none" \/ r.start = "creating"
\* It owns the lease, which has not run out, unless a lease was lost under a session.
HoldersOwn == ~torn => \A p \in Processes : Holds(proc[p]) => Owns(p)

SessionInd == Typed /\ HoldersOwn

-----------------------------------------------------------------------------
(* What each step does to its process *)

\* A step of a process by which it does not come to hold a lease.
Moves(p, r) == Become(p, r) /\ r \in ProcState /\ (Holds(r) => Holds(proc[p]))

LEMMA IdleTyped ==
  /\ IdleProc \in ProcState /\ ~Holds(IdleProc) /\ DeadProc \in ProcState /\ ~Holds(DeadProc)
BY DEF IdleProc, DeadProc, ProcState, Holds, StartSteps, QrSteps, OpenSteps, CloseSteps

LEMMA StoppedTyped ==
  ASSUME NEW r \in ProcState
  PROVE  /\ Stopped(r) \in ProcState /\ Stopped(r).sess = "none" /\ Stopped(r).start = r.start
         /\ Stopped(r).open = r.open /\ Stopped(r).close = r.close
BY DEF Stopped, ProcState

LEMMA PausingTyped ==
  ASSUME NEW r \in ProcState, NEW status \in {"FAILED", "SUSPENDED"}
  PROVE  /\ Pausing(r, status) \in ProcState /\ Pausing(r, status).sess = r.sess
         /\ Pausing(r, status).start = r.start
BY DEF Pausing, ProcState

LEMMA StartingTyped ==
  ASSUME NEW r \in ProcState, NEW auto \in BOOLEAN
  PROVE  /\ Starting(r, auto) \in ProcState /\ (Holds(Starting(r, auto)) => Holds(r))
<1>1. CASE r.start = "idle"
  <2> DEFINE q == [r EXCEPT !.start = "looking", !.auto = auto]
  <2>1. q \in ProcState /\ q.sess = r.sess /\ q.start = "looking" BY DEF ProcState, StartSteps
  <2>2. Starting(r, auto) = q BY <1>1 DEF Starting
  <2> HIDE DEF q
  <2> QED BY <2>1, <2>2 DEF Holds
<1>2. CASE r.start # "idle" BY <1>2 DEF Starting
<1> QED BY <1>1, <1>2

\* One handler of a record goes on.
LEMMA Updates ==
  ASSUME NEW r \in ProcState
  PROVE  /\ \A x \in StartSteps : LET q == [r EXCEPT !.start = x] IN
              q \in ProcState /\ q.sess = r.sess /\ q.start = x
         /\ \A x \in {"idle", "releasing"} : LET q == [r EXCEPT !.beat = x] IN
              q \in ProcState /\ q.sess = r.sess /\ q.start = r.start
         /\ \A x \in QrSteps : LET q == [r EXCEPT !.qr = x] IN
              q \in ProcState /\ q.sess = r.sess /\ q.start = r.start
         /\ \A x \in OpenSteps : LET q == [r EXCEPT !.open = x] IN
              q \in ProcState /\ q.sess = r.sess /\ q.start = r.start
         /\ \A x \in CloseSteps : LET q == [r EXCEPT !.close = x] IN
              q \in ProcState /\ q.sess = r.sess /\ q.start = r.start
         /\ \A x \in {"idle", "number", "connection"} : LET q == [r EXCEPT !.pause = x] IN
              q \in ProcState /\ q.sess = r.sess /\ q.start = r.start
         /\ \A x \in {"idle", "bot", "device", "lease"} : LET q == [r EXCEPT !.disc = x] IN
              q \in ProcState /\ q.sess = r.sess /\ q.start = r.start
BY DEF ProcState

LEMMA StartMoves ==
  ASSUME ProcTyped, NEW p \in Processes, Start(p) \/ StartBreaks(p), ~(StartClaim(p) /\ Claimable(p))
  PROVE  \E r : Moves(p, r)
<1> DEFINE old == proc[p]
           At(x) == [old EXCEPT !.start = x]
<1>1. old \in ProcState BY DEF ProcTyped
<1>2. \A x \in StartSteps : At(x) \in ProcState /\ At(x).sess = old.sess /\ At(x).start = x
  BY <1>1, Updates
<1>3. ASSUME NEW x \in StartSteps \ {"creating"}, Become(p, At(x)) PROVE \E r : Moves(p, r)
  <2> DEFINE q == At(x)
  <2>1. q \in ProcState /\ q.sess = old.sess /\ q.start = x /\ Become(p, q) BY <1>2, <1>3
  <2> HIDE DEF q
  <2>2. Holds(q) => Holds(old) BY <2>1 DEF Holds
  <2> QED BY <2>1, <2>2 DEF Moves
<1>4. Failed(old) \in ProcState /\ (Holds(Failed(old)) => Holds(old))
  <2>1. "idle" \in StartSteps BY DEF StartSteps
  <2>2. At("idle") \in ProcState /\ At("idle").sess = old.sess /\ At("idle").start = "idle"
    BY <1>2, <2>1
  <2> HIDE DEF At
  <2>3. Failed(old) = IF old.auto THEN Pausing(At("idle"), "FAILED") ELSE At("idle") BY
                                                                                     DEF Failed,
                                                                                         At
  <2>4. /\ Pausing(At("idle"), "FAILED") \in ProcState
        /\ Pausing(At("idle"), "FAILED").sess = old.sess
        /\ Pausing(At("idle"), "FAILED").start = "idle"
    BY <2>2, PausingTyped
  <2> QED BY <2>2, <2>3, <2>4 DEF Holds
<1>5. CASE StartLook(p)
  <2> DEFINE stop == [Stopped(old) EXCEPT !.start = "releasing"]
  <2>1. \/ Become(p, At("reading")) \/ Become(p, At("idle")) \/ Become(p, stop)
    BY <1>5 DEF StartLook
  <2>2. stop \in ProcState /\ ~Holds(stop)
    <3> DEFINE off == Stopped(old)
    <3>1. off \in ProcState /\ off.sess = "none" BY <1>1, StoppedTyped
    <3> HIDE DEF off
    <3>2. LET q == [off EXCEPT !.start = "releasing"] IN
          q \in ProcState /\ q.sess = off.sess /\ q.start = "releasing"
      BY <3>1, Updates DEF StartSteps
    <3> QED BY <3>1, <3>2 DEF Holds, off
  <2>3. "reading" \in StartSteps \ {"creating"} /\ "idle" \in StartSteps \ {"creating"}
    BY DEF StartSteps
  <2> HIDE DEF At, stop
  <2> QED BY <1>3, <2>1, <2>2, <2>3 DEF Moves
<1>6. CASE StartRelease(p) \/ StartRead(p) \/ StartCreate(p) \/ StartClaim(p)
  <2>1. CASE StartRelease(p) \/ StartRead(p) \/ StartClaim(p)
    <3>1. \/ Become(p, At("reading")) \/ Become(p, At("claiming")) \/ Become(p, At("idle"))
      BY <2>1 DEF StartRelease, StartRead, StartClaim
    <3>2. {"reading", "claiming", "idle"} \subseteq StartSteps \ {"creating"} BY DEF StartSteps
    <3> HIDE DEF At
    <3> QED BY <1>3, <3>1, <3>2
  <2>2. CASE StartCreate(p)
    <3> DEFINE new == [old EXCEPT !.start = "idle", !.sess = "linking"]
    <3>1. Become(p, new) /\ old.start = "creating" BY <2>2 DEF StartCreate
    <3>2. new \in ProcState BY <1>1 DEF ProcState, StartSteps
    <3> QED BY <3>1, <3>2 DEF Moves, Holds
  <2> QED BY <1>6, <2>1, <2>2
<1>7. CASE StartFails(p)
  <2>1. Become(p, Failed(old)) BY <1>7 DEF StartFails
  <2> QED BY <1>4, <2>1 DEF Moves
<1>8. CASE StartBreaks(p)
  <2>1. Become(p, Failed(old)) \/ Become(p, At("failing")) BY <1>8 DEF StartBreaks
  <2>2. "failing" \in StartSteps \ {"creating"} BY DEF StartSteps
  <2> HIDE DEF At
  <2> QED BY <1>3, <1>4, <2>1, <2>2 DEF Moves
<1> QED BY <1>5, <1>6, <1>7, <1>8 DEF Start

LEMMA BeatMoves ==
  ASSUME ProcTyped, NEW p \in Processes, Heartbeats(p) \/ BeatBreaks(p) \/ Pauses(p)
  PROVE  \E r : Moves(p, r)
<1> DEFINE old == proc[p]
           off == Stopped(old)
<1>1. old \in ProcState BY DEF ProcTyped
<1>2. off \in ProcState /\ off.sess = "none" /\ off.start = old.start BY <1>1, StoppedTyped
<1> HIDE DEF off
<1>3. CASE BeatForbidden(p) \/ BeatBreaks(p)
  <2>1. PICK x \in {"idle", "releasing"} : Become(p, [off EXCEPT !.beat = x])
    BY <1>3 DEF BeatForbidden, BeatBreaks, off
  <2>2. LET q == [off EXCEPT !.beat = x] IN q \in ProcState /\ q.sess = off.sess /\ q.start = off.start
    BY <1>2, Updates
  <2> QED BY <1>2, <2>1, <2>2 DEF Moves, Holds
<1>4. CASE BeatRefused(p)
  <2>1. Become(p, off) BY <1>4 DEF BeatRefused, off
  <2> QED BY <1>2, <2>1 DEF Moves, Holds
<1>5. CASE BeatRelease(p)
  <2> DEFINE q == [old EXCEPT !.beat = "idle"]
  <2>1. q \in ProcState /\ q.sess = old.sess /\ q.start = old.start BY <1>1, Updates
  <2>2. Become(p, Pausing(q, "SUSPENDED")) BY <1>5 DEF BeatRelease
  <2> HIDE DEF q
  <2> QED BY <2>1, <2>2, PausingTyped DEF Moves, Holds
<1>6. CASE PauseNumber(p)
  <2> DEFINE q == [old EXCEPT !.pause = "connection"]
  <2>1. q \in ProcState /\ q.sess = old.sess /\ q.start = old.start BY <1>1, Updates
  <2>2. Become(p, q) BY <1>6 DEF PauseNumber
  <2> HIDE DEF q
  <2> QED BY <2>1, <2>2 DEF Moves, Holds
<1>7. CASE PauseConnection(p)
  <2> DEFINE q == [old EXCEPT !.pause = "idle", !.review = "FAILED"]
  <2>1. q \in ProcState /\ q.sess = old.sess /\ q.start = old.start BY <1>1 DEF ProcState
  <2>2. Become(p, q) BY <1>7 DEF PauseConnection
  <2> HIDE DEF q
  <2> QED BY <2>1, <2>2 DEF Moves, Holds
<1> QED BY <1>3, <1>4, <1>5, <1>6, <1>7 DEF Heartbeats, Pauses

LEMMA SocketMoves ==
  ASSUME ProcTyped, conn \in Connection, NEW p \in Processes,
         ShowQr(p) \/ Open(p) \/ Close(p) \/ HandlerBreaks(p)
  PROVE  \E r : Moves(p, r)
<1> DEFINE old == proc[p]
           off == Stopped(old)
<1>1. old \in ProcState BY DEF ProcTyped
<1>2. off \in ProcState /\ off.sess = "none" /\ off.start = old.start BY <1>1, StoppedTyped
<1> HIDE DEF off
<1>3. CASE Open(p)
  <2> DEFINE q == [old EXCEPT !.sess = "open", !.open = "claiming"]
  <2>1. q \in ProcState /\ q.sess = "open" /\ q.start = old.start BY <1>1 DEF ProcState, OpenSteps
  <2>2. old.sess = "linking" /\ (Become(p, q) \/ Become(p, off)) BY <1>3 DEF Open, off
  <2> HIDE DEF q
  <2> QED BY <1>2, <2>1, <2>2 DEF Moves, Holds
<1>4. CASE Close(p)
  <2>1. PICK out \in BOOLEAN, n \in {old.retries} \cup (IF old.sess = "open" THEN {0} ELSE {}) :
          Become(p, [off EXCEPT !.close = "releasing", !.loggedOut = out, !.retries = n])
    BY <1>4 DEF Close, off
  <2> DEFINE q == [off EXCEPT !.close = "releasing", !.loggedOut = out, !.retries = n]
  <2>2. n \in Nat BY <1>1 DEF ProcState
  <2>3. q \in ProcState /\ q.sess = off.sess /\ q.start = off.start
    BY <1>2, <2>2 DEF ProcState, CloseSteps
  <2>4. Become(p, q) BY <2>1
  <2> HIDE DEF q
  <2> QED BY <1>2, <2>3, <2>4 DEF Moves, Holds
<1>5. CASE HandlerBreaks(p)
  <2> DEFINE q1 == [off EXCEPT !.open = "cleaning"]
             q2 == [off EXCEPT !.close = "cleaning", !.loggedOut = FALSE, !.saw = FALSE]
             q3 == [off EXCEPT !.qr = "cleaning", !.shown = FALSE]
  <2>1. q1 \in ProcState /\ q1.sess = off.sess /\ q1.start = off.start
    BY <1>2 DEF ProcState, OpenSteps
  <2>2. q2 \in ProcState /\ q2.sess = off.sess /\ q2.start = off.start
    BY <1>2 DEF ProcState, CloseSteps
  <2>3. q3 \in ProcState /\ q3.sess = off.sess /\ q3.start = off.start
    BY <1>2 DEF ProcState, QrSteps
  <2>4. Become(p, q1) \/ Become(p, q2) \/ Become(p, q3) BY <1>5 DEF HandlerBreaks, off
  <2> HIDE DEF q1, q2, q3
  <2> QED BY <1>2, <2>1, <2>2, <2>3, <2>4 DEF Moves, Holds
<1>6. CASE ShowQr(p)
  <2> DEFINE seen == conn.enabled
             q == [old EXCEPT !.qr = "writing", !.shown = seen]
  <2>1. seen \in BOOLEAN BY DEF Connection
  <2>2. Become(p, q) BY <1>6 DEF ShowQr
  <2> HIDE DEF seen
  <2>3. q \in ProcState /\ q.sess = old.sess /\ q.start = old.start
    BY <1>1, <2>1 DEF ProcState, QrSteps
  <2> HIDE DEF q
  <2> QED BY <2>2, <2>3 DEF Moves, Holds
<1> QED BY <1>3, <1>4, <1>5, <1>6

LEMMA HandlerMoves ==
  ASSUME ProcTyped, conn \in Connection, NEW p \in Processes, Handlers(p)
  PROVE  \E r : Moves(p, r)
<1> DEFINE old == proc[p]
           off == Stopped(old)
<1>1. old \in ProcState BY DEF ProcTyped
<1>2. off \in ProcState /\ off.sess = "none" /\ off.start = old.start BY <1>1, StoppedTyped
<1> HIDE DEF off
<1>3. CASE OpenClaim(p)
  <2> DEFINE q1 == [old EXCEPT !.open = "connecting"]
             q2 == [off EXCEPT !.open = "cleaning"]
             q3 == [off EXCEPT !.open = "idle"]
  <2>1. q1 \in ProcState /\ q1.sess = old.sess /\ q1.start = old.start
    BY <1>1, Updates DEF OpenSteps
  <2>2. /\ q2 \in ProcState /\ q2.sess = off.sess /\ q2.start = off.start
        /\ q3 \in ProcState /\ q3.sess = off.sess /\ q3.start = off.start
    BY <1>2, Updates DEF OpenSteps
  <2>3. Become(p, q1) \/ Become(p, q2) \/ Become(p, q3) BY <1>3 DEF OpenClaim, off
  <2> HIDE DEF q1, q2, q3
  <2> QED BY <1>2, <2>1, <2>2, <2>3 DEF Moves, Holds
<1>4. CASE OpenConnect(p) \/ OpenEnable(p)
  <2>1. PICK x \in OpenSteps : Become(p, [old EXCEPT !.open = x])
    BY <1>4 DEF OpenConnect, OpenEnable, OpenSteps
  <2>2. LET q == [old EXCEPT !.open = x] IN q \in ProcState /\ q.sess = old.sess /\ q.start = old.start
    BY <1>1, Updates
  <2> QED BY <2>1, <2>2 DEF Moves, Holds
<1>5. CASE CloseRelease(p) \/ CloseClear(p) \/ CloseNumber(p)
  <2>1. PICK x \in CloseSteps : Become(p, [old EXCEPT !.close = x])
    <3>1. {"clearing", "number", "reading"} \subseteq CloseSteps BY DEF CloseSteps
    <3> QED BY <1>5, <3>1 DEF CloseRelease, CloseClear, CloseNumber
  <2>2. LET q == [old EXCEPT !.close = x] IN q \in ProcState /\ q.sess = old.sess /\ q.start = old.start
    BY <1>1, Updates
  <2> QED BY <2>1, <2>2 DEF Moves, Holds
<1>6. CASE CloseRead(p)
  <2> DEFINE seen == conn.enabled
             q == [old EXCEPT !.close = "writing", !.saw = seen]
  <2>1. seen \in BOOLEAN BY DEF Connection
  <2>2. Become(p, q) BY <1>6 DEF CloseRead
  <2> HIDE DEF seen
  <2>3. q \in ProcState /\ q.sess = old.sess /\ q.start = old.start
    BY <1>1, <2>1 DEF ProcState, CloseSteps
  <2> HIDE DEF q
  <2> QED BY <2>2, <2>3 DEF Moves, Holds
<1>7. CASE CloseWrite(p)
  <2> DEFINE q == [old EXCEPT !.close = "idle", !.loggedOut = FALSE, !.saw = FALSE]
             n == q.retries + 1
             again == [q EXCEPT !.timer = TRUE, !.retries = n]
  <2>1. q \in ProcState /\ q.sess = old.sess /\ q.start = old.start
    BY <1>1 DEF ProcState, CloseSteps
  <2>2. n \in Nat
    <3> HIDE DEF q
    <3> QED BY <2>1 DEF ProcState
  <2>3. again = [q EXCEPT !.timer = TRUE, !.retries = @ + 1]
    <3> HIDE DEF q
    <3> QED BY <2>1 DEF ProcState
  <2>4. Become(p, q) \/ Become(p, again) \/ Become(p, Pausing(q, "FAILED"))
    BY <1>7, <2>3 DEF CloseWrite
  <2> HIDE DEF q, n
  <2>5. again \in ProcState /\ again.sess = q.sess /\ again.start = q.start
    BY <2>1, <2>2 DEF ProcState
  <2> HIDE DEF again
  <2> QED BY <2>1, <2>4, <2>5, PausingTyped DEF Moves, Holds
<1>8. CASE RetryFires(p)
  <2> DEFINE q == [old EXCEPT !.timer = FALSE]
  <2>1. q \in ProcState /\ q.sess = old.sess /\ q.start = old.start BY <1>1 DEF ProcState
  <2>2. Become(p, Starting(q, TRUE)) BY <1>8 DEF RetryFires
  <2> HIDE DEF q
  <2> QED BY <2>1, <2>2, StartingTyped DEF Moves, Holds
<1>9. CASE Clean(p)
  <2> DEFINE r == Pausing(old, "FAILED")
             q1 == [r EXCEPT !.open = "idle"]
             q2 == [r EXCEPT !.close = "idle"]
             q3 == [r EXCEPT !.qr = "idle"]
  <2>1. r \in ProcState /\ r.sess = old.sess /\ r.start = old.start BY <1>1, PausingTyped
  <2>2. Become(p, q1) \/ Become(p, q2) \/ Become(p, q3) BY <1>9 DEF Clean
  <2> HIDE DEF r
  <2>3. /\ q1 \in ProcState /\ q1.sess = r.sess /\ q1.start = r.start
        /\ q2 \in ProcState /\ q2.sess = r.sess /\ q2.start = r.start
        /\ q3 \in ProcState /\ q3.sess = r.sess /\ q3.start = r.start
    BY <2>1, Updates DEF QrSteps, OpenSteps, CloseSteps
  <2> HIDE DEF q1, q2, q3
  <2> QED BY <2>1, <2>2, <2>3 DEF Moves, Holds
<1>10. CASE MarkQr(p)
  <2> DEFINE q == [old EXCEPT !.qr = "idle", !.shown = FALSE]
  <2>1. q \in ProcState /\ q.sess = old.sess /\ q.start = old.start
    BY <1>1 DEF ProcState, QrSteps
  <2>2. Become(p, q) BY <1>10 DEF MarkQr
  <2> HIDE DEF q
  <2> QED BY <2>1, <2>2 DEF Moves, Holds
<1> QED BY <1>10, <1>3, <1>4, <1>5, <1>6, <1>7, <1>8, <1>9 DEF Handlers

LEMMA PeopleMove ==
  ASSUME ProcTyped, NEW p \in Processes, People(p)
  PROVE  UNCHANGED proc \/ \E r : Moves(p, r)
<1> DEFINE old == proc[p]
<1>1. old \in ProcState BY DEF ProcTyped
<1>2. CASE ActivateWrite(p) \/ Reconnect(p) \/ Revive(p)
  <2>1. UNCHANGED proc \/ Become(p, Starting(old, FALSE))
    BY <1>2 DEF ActivateWrite, Reconnect, Revive
  <2> QED BY <1>1, <2>1, StartingTyped DEF Moves
<1>3. CASE Disconnect(p) \/ DisconnectBot(p) \/ DisconnectLease(p)
  <2>1. PICK x \in {"idle", "bot", "device", "lease"} : Become(p, [old EXCEPT !.disc = x])
    BY <1>3 DEF Disconnect, DisconnectBot, DisconnectLease
  <2>2. LET q == [old EXCEPT !.disc = x] IN q \in ProcState /\ q.sess = old.sess /\ q.start = old.start
    BY <1>1, Updates
  <2> QED BY <2>1, <2>2 DEF Moves, Holds
<1>4. CASE DisconnectDevice(p)
  <2> DEFINE off == Stopped(old)
             q == [off EXCEPT !.disc = "lease"]
  <2>1. off \in ProcState /\ off.sess = "none" /\ off.start = old.start BY <1>1, StoppedTyped
  <2>2. Become(p, q) BY <1>4 DEF DisconnectDevice
  <2> HIDE DEF off
  <2>3. q \in ProcState /\ q.sess = off.sess /\ q.start = off.start BY <2>1, Updates
  <2> HIDE DEF q
  <2> QED BY <2>1, <2>2, <2>3 DEF Moves, Holds
<1> QED BY <1>2, <1>3, <1>4 DEF People

LEMMA ProcessMoves ==
  ASSUME ProcTyped, conn \in Connection, Next
  PROVE  \/ UNCHANGED proc
         \/ \E p \in Processes : \E r : Moves(p, r)
         \/ \E p \in Processes : StartClaim(p) /\ Claimable(p)
<1>1. CASE Switches \/ LeaseRunsOut \/ Stall
  BY <1>1 DEF Switches, Activate, Deactivate, Revoke, RevokeByPlan, Allow, LeaseRunsOut, Stall
<1>2. ASSUME NEW p \in Processes, Crash(p) \/ Shutdown(p) \/ Restart(p) PROVE \E r : Moves(p, r)
  <2>1. \/ Become(p, DeadProc) \/ Become(p, IdleProc) \/ Become(p, Starting(IdleProc, TRUE))
    BY <1>2 DEF Crash, Shutdown, Restart
  <2>2. Starting(IdleProc, TRUE) \in ProcState /\ ~Holds(Starting(IdleProc, TRUE))
    BY IdleTyped, StartingTyped
  <2> QED BY <2>1, <2>2, IdleTyped DEF Moves
<1> QED BY <1>1, <1>2, StartMoves, BeatMoves, SocketMoves, HandlerMoves, PeopleMove DEF Next

-----------------------------------------------------------------------------
(* What each step does to the lease *)

LEMMA LeaseMoves ==
  ASSUME Next
  PROVE  \/ UNCHANGED <<lease, torn>>
         \/ DeleteLease
         \/ torn' = TRUE /\ lease' = [lease EXCEPT !.live = FALSE]
         \/ LeaseRunsOut
         \/ \E p \in Processes : StartClaim(p) /\ Claimable(p)
<1>1. CASE Switches \/ LeaseRunsOut \/ Stall
  BY <1>1 DEF Switches, Activate, Deactivate, Revoke, RevokeByPlan, Allow, Stall
<1>2. ASSUME NEW p \in Processes, Start(p) \/ StartBreaks(p), ~(StartClaim(p) /\ Claimable(p))
      PROVE  UNCHANGED <<lease, torn>> \/ DeleteLease
  BY <1>2 DEF Start, StartLook, StartRelease, StartRead, StartClaim, StartCreate, StartFails,
              StartBreaks, Release
<1>3. ASSUME NEW p \in Processes, Heartbeats(p) \/ BeatBreaks(p) \/ Pauses(p)
      PROVE  UNCHANGED <<lease, torn>> \/ DeleteLease
  BY <1>3 DEF Heartbeats, BeatForbidden, BeatRelease, BeatRefused, BeatBreaks, Pauses, PauseNumber,
              PauseConnection, Release
<1>4. ASSUME NEW p \in Processes, ShowQr(p) \/ Open(p) \/ Close(p) \/ HandlerBreaks(p)
      PROVE  UNCHANGED <<lease, torn>>
  BY <1>4 DEF ShowQr, Open, Close, HandlerBreaks
<1>5. ASSUME NEW p \in Processes, Handlers(p) PROVE UNCHANGED <<lease, torn>> \/ DeleteLease
  BY <1>5 DEF Handlers, MarkQr, OpenClaim, OpenConnect, OpenEnable, CloseRelease, CloseClear,
              CloseNumber, CloseRead, CloseWrite, RetryFires, Clean, Release
<1>6. ASSUME NEW p \in Processes, People(p) PROVE UNCHANGED <<lease, torn>> \/ DeleteLease
  BY <1>6 DEF People, ActivateWrite, Reconnect, Revive, Disconnect, DisconnectBot, DisconnectDevice,
              DisconnectLease
<1>7. ASSUME NEW p \in Processes, Crash(p) \/ Shutdown(p) \/ Restart(p)
      PROVE  UNCHANGED <<lease, torn>> \/ DeleteLease
  BY <1>7 DEF Crash, Shutdown, Restart, Release
<1> QED BY <1>1, <1>2, <1>3, <1>4, <1>5, <1>6, <1>7 DEF Next

\* A lease in use is not one that runs out.
LEMMA HoldersAreHolding ==
  ASSUME NEW p, Holds(proc[p]) PROVE Holding(p)
BY DEF Holds, Holding

\* A claim makes its process the only one.
LEMMA ClaimMoves ==
  ASSUME ProcTyped, NEW p \in Processes, StartClaim(p), Claimable(p)
  PROVE  /\ proc' \in [Processes -> ProcState] /\ \A q \in Processes \ {p} : proc'[q] = proc[q]
         /\ lease' = [owner |-> p, live |-> TRUE] /\ ~lease.live /\ torn' = torn
<1> DEFINE r == [proc[p] EXCEPT !.start = "creating"]
<1>1. r \in ProcState BY Updates DEF ProcTyped, StartSteps
<1>2. /\ proc' = [proc EXCEPT ![p] = r] /\ lease' = [owner |-> p, live |-> TRUE]
      /\ ~lease.live /\ torn' = torn
  BY DEF StartClaim, Claimable, Become
<1> HIDE DEF r
<1> QED BY <1>1, <1>2 DEF ProcTyped

LEMMA ProcessesTyped ==
  ASSUME ProcTyped, conn \in Connection, Next
  PROVE  /\ ProcTyped'
         /\ \/ \A q \in Processes : Holds(proc'[q]) => Holds(proc[q])
            \/ \E p \in Processes : StartClaim(p) /\ Claimable(p)
<1>1. CASE UNCHANGED proc BY <1>1 DEF ProcTyped
<1>2. ASSUME NEW p \in Processes, NEW r, Moves(p, r)
      PROVE  ProcTyped' /\ \A q \in Processes : Holds(proc'[q]) => Holds(proc[q])
  <2>1. proc' = [proc EXCEPT ![p] = r] /\ r \in ProcState /\ (Holds(r) => Holds(proc[p]))
    BY <1>2 DEF Moves, Become
  <2>2. \A q \in Processes : proc'[q] = IF q = p THEN r ELSE proc[q] BY <2>1 DEF ProcTyped
  <2> QED BY <2>1, <2>2 DEF ProcTyped
<1>3. ASSUME NEW p \in Processes, StartClaim(p), Claimable(p) PROVE ProcTyped'
  BY <1>3, ClaimMoves DEF ProcTyped
<1> QED BY <1>1, <1>2, <1>3, ProcessMoves

LEMMA OwnersStep ==
  ASSUME ProcTyped, conn \in Connection, torn \in BOOLEAN, HoldersOwn, Next
  PROVE  HoldersOwn'
<1>1. ASSUME NEW p \in Processes, StartClaim(p), Claimable(p) PROVE HoldersOwn'
  <2>1. /\ \A q \in Processes \ {p} : proc'[q] = proc[q]
        /\ lease' = [owner |-> p, live |-> TRUE] /\ ~lease.live /\ torn' = torn
    BY <1>1, ClaimMoves
  <2>2. ~torn => \A q \in Processes : ~Holds(proc[q]) BY <2>1 DEF HoldersOwn, Owns
  <2> QED BY <2>1, <2>2 DEF HoldersOwn, Owns
<1>2. ASSUME \A q \in Processes : Holds(proc'[q]) => Holds(proc[q]),
             UNCHANGED <<lease, torn>> \/ DeleteLease \/ torn' = TRUE \/ LeaseRunsOut
      PROVE  HoldersOwn'
  <2>1. CASE UNCHANGED <<lease, torn>> BY <1>2, <2>1 DEF HoldersOwn, Owns
  <2>2. CASE DeleteLease
    <3>1. torn' = (torn \/ \E p \in Processes : lease.owner = p /\ Holds(proc[p]))
      BY <2>2 DEF DeleteLease, Holds
    <3>2. ASSUME ~torn' PROVE \A p \in Processes : ~Holds(proc[p])
      BY <3>1, <3>2 DEF HoldersOwn, Owns
    <3> QED BY <1>2, <3>2 DEF HoldersOwn
  <2>3. CASE torn' = TRUE BY <2>3 DEF HoldersOwn
  <2>4. CASE LeaseRunsOut
    <3>1. ~Holding(lease.owner) /\ torn' = torn BY <2>4 DEF LeaseRunsOut
    <3>2. ASSUME ~torn PROVE \A p \in Processes : ~Holds(proc[p])
      BY <3>1, <3>2, HoldersAreHolding DEF HoldersOwn, Owns
    <3> QED BY <1>2, <3>1, <3>2 DEF HoldersOwn
  <2> QED BY <1>2, <2>1, <2>2, <2>3, <2>4
<1> QED BY <1>1, <1>2, ProcessesTyped, LeaseMoves

-----------------------------------------------------------------------------
(* Types *)

LEMMA ConnUpdates ==
  ASSUME NEW c \in Connection
  PROVE  /\ c.enabled \in BOOLEAN /\ c.bot \in BOOLEAN
         /\ \A x \in BOOLEAN : [c EXCEPT !.bot = x] \in Connection
         /\ \A s \in {"QR_REQUIRED", "DISCONNECTED", "RECONNECTING", "FAILED", "SUSPENDED",
                      "PENDING", "CONNECTED"} :
              [c EXCEPT !.status = s] \in Connection
              /\ \A x \in BOOLEAN : [c EXCEPT !.status = s, !.enabled = x] \in Connection
BY DEF Connection

LEMMA ConnStep == ASSUME Typed, Next PROVE ConnTyped'
<1>1. /\ conn \in Connection /\ conn.enabled \in BOOLEAN /\ conn.bot \in BOOLEAN
      /\ \A p \in Processes : /\ proc[p].saw \in BOOLEAN /\ proc[p].shown \in BOOLEAN
                               /\ proc[p].review \in {"FAILED", "SUSPENDED"}
  BY ConnUpdates DEF Typed, ConnTyped, ProcTyped, ProcState
<1>2. allowed \in BOOLEAN /\ number \in BOOLEAN /\ creds \in BOOLEAN BY DEF Typed, ConnTyped
<1>3. CASE Switches \/ LeaseRunsOut \/ Stall
  <2>1. conn' \in Connection
    <3>1. CASE Deactivate
      <4>1. conn' = [conn EXCEPT !.bot = FALSE] BY <3>1 DEF Deactivate
      <4> QED BY <1>1, <4>1, ConnUpdates
    <3>2. CASE Revoke \/ RevokeByPlan
      <4>1. conn' = [status |-> "PAUSED", enabled |-> FALSE, bot |-> FALSE]
        BY <3>2 DEF Revoke, RevokeByPlan
      <4> QED BY <4>1 DEF Connection
    <3>3. CASE ~Deactivate /\ ~Revoke /\ ~RevokeByPlan
      BY <1>1, <1>3, <3>3 DEF Switches, Activate, Allow, LeaseRunsOut, Stall
    <3> QED BY <3>1, <3>2, <3>3
  <2>2. allowed' \in BOOLEAN /\ number' \in BOOLEAN /\ creds' \in BOOLEAN
    BY <1>2, <1>3 DEF Switches, Activate, Deactivate, Revoke, RevokeByPlan, Allow, LeaseRunsOut,
                      Stall
  <2> QED BY <2>1, <2>2 DEF ConnTyped
<1>4. ASSUME NEW p \in Processes,
             \/ Start(p) \/ StartBreaks(p) \/ Heartbeats(p) \/ BeatBreaks(p) \/ Close(p)
             \/ HandlerBreaks(p) \/ Crash(p) \/ Shutdown(p) \/ Restart(p)
      PROVE  ConnTyped'
  <2>1. UNCHANGED <<allowed, conn, number, creds>>
    BY <1>4 DEF Start, StartLook, StartRelease, StartRead, StartClaim, StartCreate, StartFails,
                StartBreaks, Heartbeats, BeatForbidden, BeatRelease, BeatRefused, BeatBreaks,
                Close, HandlerBreaks, Crash, Shutdown, Restart
  <2> QED BY <1>1, <1>2, <2>1 DEF ConnTyped
<1>5. ASSUME NEW p \in Processes, Pauses(p) \/ ShowQr(p) \/ Open(p) PROVE ConnTyped'
  <2>1. CASE PauseNumber(p) BY <1>1, <1>2, <2>1 DEF PauseNumber, ConnTyped
  <2>2. CASE PauseConnection(p)
    <3>1. conn' = [conn EXCEPT !.status = proc[p].review, !.enabled = FALSE]
          /\ UNCHANGED <<allowed, number, creds>>
      BY <2>2 DEF PauseConnection
    <3> QED BY <1>1, <1>2, <3>1, ConnUpdates DEF ConnTyped
  <2>3. CASE ShowQr(p) BY <1>1, <1>2, <2>3 DEF ShowQr, ConnTyped
  <2>4. CASE Open(p) BY <1>1, <1>2, <2>4 DEF Open, ConnTyped
  <2> QED BY <1>5, <2>1, <2>2, <2>3, <2>4 DEF Pauses
<1>6. ASSUME NEW p \in Processes, Handlers(p) PROVE ConnTyped'
  <2>1. CASE OpenConnect(p)
    <3>1. conn' = [conn EXCEPT !.status = "CONNECTED", !.enabled = TRUE]
          /\ UNCHANGED <<allowed, number, creds>>
      BY <2>1 DEF OpenConnect
    <3> QED BY <1>1, <1>2, <3>1, ConnUpdates DEF ConnTyped
  <2>2. CASE CloseWrite(p)
    <3>1. /\ \/ conn' = [conn EXCEPT !.status = "DISCONNECTED", !.enabled = FALSE]
             \/ conn' = [conn EXCEPT !.status = "RECONNECTING", !.enabled = proc[p].saw]
          /\ UNCHANGED <<allowed, number, creds>>
      BY <2>2 DEF CloseWrite
    <3>2. CASE conn' = [conn EXCEPT !.status = "DISCONNECTED", !.enabled = FALSE]
      BY <1>1, <1>2, <3>1, <3>2, ConnUpdates DEF ConnTyped
    <3>3. CASE conn' = [conn EXCEPT !.status = "RECONNECTING", !.enabled = proc[p].saw]
      BY <1>1, <1>2, <3>1, <3>3, ConnUpdates DEF ConnTyped
    <3> QED BY <3>1, <3>2, <3>3
  <2>3. CASE MarkQr(p)
    <3>1. conn' = [conn EXCEPT !.status = "QR_REQUIRED", !.enabled = proc[p].shown]
          /\ UNCHANGED <<allowed, number, creds>>
      BY <2>3 DEF MarkQr
    <3> QED BY <1>1, <1>2, <3>1, ConnUpdates DEF ConnTyped
  <2>4. CASE ~OpenConnect(p) /\ ~CloseWrite(p) /\ ~MarkQr(p)
    <3>1. conn' = conn /\ allowed' = allowed /\ number' \in BOOLEAN /\ creds' \in BOOLEAN
      BY <1>1, <1>2, <1>6, <2>4 DEF Handlers, OpenClaim, OpenEnable, CloseRelease, CloseClear,
         CloseNumber, CloseRead, RetryFires, Clean
    <3> QED BY <1>1, <1>2, <3>1 DEF ConnTyped
  <2> QED BY <2>1, <2>2, <2>3, <2>4
<1>7. ASSUME NEW p \in Processes, People(p) PROVE ConnTyped'
  <2>1. allowed' = allowed /\ number' \in BOOLEAN /\ creds' \in BOOLEAN
    BY <1>2, <1>7 DEF People, ActivateWrite, Reconnect, Revive, Disconnect, DisconnectBot,
                      DisconnectDevice, DisconnectLease
  <2>2. conn' \in Connection
    <3>1. CASE ActivateWrite(p)
      <4> DEFINE s == IF conn.status \in {"PAUSED", "FAILED", "DISCONNECTED"} THEN "PENDING"
                      ELSE conn.status
      <4>1. s \in {"PENDING", "QR_REQUIRED", "CONNECTED", "RECONNECTING", "DISCONNECTED", "PAUSED",
                   "FAILED", "SUSPENDED"}
        BY <1>1 DEF Connection
      <4>2. conn' = [conn EXCEPT !.bot = TRUE, !.enabled = TRUE, !.status = s]
        BY <1>1, <3>1 DEF ActivateWrite, Connection
      <4> HIDE DEF s
      <4> QED BY <1>1, <4>1, <4>2 DEF Connection
    <3>2. CASE Revive(p)
      <4>1. conn' = [conn EXCEPT !.status = "PENDING", !.enabled = TRUE]
        BY <1>1, <3>2 DEF Revive, Connection
      <4> QED BY <1>1, <4>1, ConnUpdates
    <3>3. CASE Disconnect(p)
      <4>1. conn' = [conn EXCEPT !.status = "DISCONNECTED", !.enabled = FALSE]
        BY <3>3 DEF Disconnect
      <4> QED BY <1>1, <4>1, ConnUpdates
    <3>4. CASE DisconnectBot(p)
      <4>1. conn' = [conn EXCEPT !.bot = FALSE] BY <3>4 DEF DisconnectBot
      <4> QED BY <1>1, <4>1, ConnUpdates
    <3>5. CASE Reconnect(p) \/ DisconnectDevice(p) \/ DisconnectLease(p)
      BY <1>1, <3>5 DEF Reconnect, DisconnectDevice, DisconnectLease
    <3> QED BY <1>7, <3>1, <3>2, <3>3, <3>4, <3>5 DEF People
  <2> QED BY <1>2, <2>1, <2>2 DEF ConnTyped
<1> QED BY <1>3, <1>4, <1>5, <1>6, <1>7 DEF Next

LEMMA LeaseStep == ASSUME LeaseTyped, Next PROVE LeaseTyped'
<1>1. lease \in Lease /\ torn \in BOOLEAN BY DEF LeaseTyped
<1>2. CASE UNCHANGED <<lease, torn>> BY <1>1, <1>2 DEF LeaseTyped
<1>3. CASE DeleteLease
  <2>1. lease' = NoLease /\ torn' \in BOOLEAN BY <1>3 DEF DeleteLease
  <2> QED BY <2>1 DEF LeaseTyped, NoLease, Lease
<1>4. CASE (torn' = TRUE /\ lease' = [lease EXCEPT !.live = FALSE]) \/ LeaseRunsOut
  <2>1. lease' = [lease EXCEPT !.live = FALSE] /\ torn' \in BOOLEAN BY <1>1, <1>4 DEF LeaseRunsOut
  <2> QED BY <1>1, <2>1 DEF LeaseTyped, Lease
<1>5. ASSUME NEW p \in Processes, StartClaim(p), Claimable(p) PROVE LeaseTyped'
  <2>1. lease' = [owner |-> p, live |-> TRUE] /\ torn' = torn BY <1>5 DEF StartClaim
  <2> QED BY <1>1, <2>1 DEF LeaseTyped, Lease
<1> QED BY <1>2, <1>3, <1>4, <1>5, LeaseMoves

LEMMA PeopleStep == ASSUME PeopleTyped, Next PROVE PeopleTyped'
<1>1. /\ admin \in {"idle", "connected", "other"} /\ client \in {"idle", "reviving"}
      /\ acts \in Nat /\ closes \in Nat /\ faults \in Nat
  BY DEF PeopleTyped
<1>2. CASE Switches \/ LeaseRunsOut \/ Stall
  BY <1>1, <1>2 DEF Switches, Activate, Deactivate, Revoke, RevokeByPlan, Allow, LeaseRunsOut,
                    Stall, Act, Fault, people, PeopleTyped
<1>3. ASSUME NEW p \in Processes, Start(p) \/ StartBreaks(p) PROVE PeopleTyped'
  BY <1>1, <1>3 DEF Start, StartLook, StartRelease, StartRead, StartClaim, StartCreate, StartFails,
                    StartBreaks, Fault, people, PeopleTyped
<1>4. ASSUME NEW p \in Processes, Heartbeats(p) \/ BeatBreaks(p) \/ Pauses(p) PROVE PeopleTyped'
  BY <1>1, <1>4 DEF Heartbeats, BeatForbidden, BeatRelease, BeatRefused, BeatBreaks, Pauses,
                    PauseNumber, PauseConnection, Fault, people, PeopleTyped
<1>5. ASSUME NEW p \in Processes, ShowQr(p) \/ Open(p) \/ Close(p) \/ HandlerBreaks(p)
      PROVE  PeopleTyped'
  <2>1. UNCHANGED people /\ (closes' = closes \/ closes' = closes + 1)
    BY <1>5 DEF ShowQr, Open, Close, HandlerBreaks
  <2>2. faults' = faults \/ faults' = faults + 1 BY <1>5 DEF ShowQr, Open, Close, HandlerBreaks,
                                                             Fault
  <2> QED BY <1>1, <2>1, <2>2 DEF people, PeopleTyped
<1>6. ASSUME NEW p \in Processes, Handlers(p) PROVE PeopleTyped'
  <2>1. UNCHANGED <<admin, client, acts, closes, faults>>
    BY <1>6 DEF Handlers, MarkQr, OpenClaim, OpenConnect, OpenEnable, CloseRelease, CloseClear,
                CloseNumber, CloseRead, CloseWrite, RetryFires, Clean, people
  <2> QED BY <1>1, <2>1 DEF PeopleTyped
<1>7. ASSUME NEW p \in Processes, People(p) PROVE PeopleTyped'
  <2>1. UNCHANGED <<closes, faults>> /\ (acts' = acts \/ acts' = acts + 1)
    BY <1>7 DEF People, ActivateWrite, Reconnect, Revive, Disconnect, DisconnectBot,
                DisconnectDevice, DisconnectLease, Act, people
  <2>2. (admin' = admin \/ admin' = "idle") /\ client' \in {client, "idle", "reviving"}
    BY <1>7 DEF People, ActivateWrite, Reconnect, Revive, Disconnect, DisconnectBot,
                DisconnectDevice, DisconnectLease, people
  <2> QED BY <1>1, <2>1, <2>2 DEF PeopleTyped
<1>8. ASSUME NEW p \in Processes, Crash(p) \/ Shutdown(p) \/ Restart(p) PROVE PeopleTyped'
  <2>1. UNCHANGED <<admin, client, acts, closes>> BY <1>8 DEF Crash, Shutdown, Restart, people
  <2>2. faults' = faults \/ faults' = faults + 1 BY <1>8 DEF Crash, Shutdown, Restart, Fault
  <2> QED BY <1>1, <2>1, <2>2 DEF PeopleTyped
<1> QED BY <1>2, <1>3, <1>4, <1>5, <1>6, <1>7, <1>8 DEF Next

-----------------------------------------------------------------------------
(* The theorems *)

LEMMA InitInd == Init => SessionInd
<1> SUFFICES ASSUME Init PROVE SessionInd
  OBVIOUS
<1>1. /\ allowed = TRUE /\ acts = 0 /\ closes = 0 /\ faults = 0 /\ torn = FALSE
      /\ admin = "idle" /\ client = "idle" /\ Home \in Processes
  BY OwnerAssumption DEF Init
<1>2. CASE /\ conn = [status |-> "PENDING", enabled |-> TRUE, bot |-> FALSE]
           /\ number = FALSE /\ lease = NoLease /\ creds = FALSE
           /\ proc = [[q \in Processes |-> IdleProc] EXCEPT ![Home].start = "reading", ![Home].auto = TRUE]
  <2> DEFINE r == [IdleProc EXCEPT !.start = "reading", !.auto = TRUE]
  <2>1. r \in ProcState /\ ~Holds(r) BY IdleTyped DEF ProcState, IdleProc, StartSteps, Holds
  <2>2. proc = [[q \in Processes |-> IdleProc] EXCEPT ![Home] = r] BY <1>1, <1>2
  <2> HIDE DEF r
  <2>3. proc \in [Processes -> ProcState] /\ \A q \in Processes : ~Holds(proc[q])
    BY <1>1, <2>1, <2>2, IdleTyped
  <2>4. ConnTyped /\ LeaseTyped /\ PeopleTyped
    BY <1>1, <1>2 DEF ConnTyped, Connection, LeaseTyped, NoLease, Lease, PeopleTyped
  <2> QED BY <2>3, <2>4 DEF SessionInd, Typed, ProcTyped, HoldersOwn
<1>3. CASE /\ conn = [status |-> "CONNECTED", enabled |-> TRUE, bot |-> TRUE]
           /\ number = TRUE /\ lease = [owner |-> Home, live |-> TRUE] /\ creds = TRUE
           /\ proc = [[q \in Processes |-> IdleProc] EXCEPT ![Home].sess = "open"]
  <2> DEFINE r == [IdleProc EXCEPT !.sess = "open"]
  <2>1. r \in ProcState BY IdleTyped DEF ProcState, IdleProc
  <2>2. proc = [[q \in Processes |-> IdleProc] EXCEPT ![Home] = r] BY <1>1, <1>3
  <2> HIDE DEF r
  <2>3. proc \in [Processes -> ProcState] /\ \A q \in Processes \ {Home} : ~Holds(proc[q])
    BY <1>1, <2>1, <2>2, IdleTyped
  <2>4. ConnTyped /\ LeaseTyped /\ PeopleTyped
    BY <1>1, <1>3 DEF ConnTyped, Connection, LeaseTyped, Lease, PeopleTyped
  <2>5. lease.owner = Home /\ lease.live BY <1>3
  <2> QED BY <2>3, <2>4, <2>5 DEF SessionInd, Typed, ProcTyped, HoldersOwn, Owns
<1> QED BY <1>2, <1>3 DEF Init

LEMMA StepInd == SessionInd /\ [Next]_vars => SessionInd'
<1> SUFFICES ASSUME SessionInd, [Next]_vars PROVE SessionInd'
  OBVIOUS
<1>1. Typed /\ HoldersOwn /\ ProcTyped /\ conn \in Connection /\ torn \in BOOLEAN /\ LeaseTyped /\ PeopleTyped
  BY DEF SessionInd, Typed, ConnTyped, LeaseTyped
<1>2. CASE Next
  <2>1. ProcTyped' BY <1>1, <1>2, ProcessesTyped
  <2>2. ConnTyped' BY <1>1, <1>2, ConnStep
  <2>3. LeaseTyped' BY <1>1, <1>2, LeaseStep
  <2>4. PeopleTyped' BY <1>1, <1>2, PeopleStep
  <2>5. HoldersOwn' BY <1>1, <1>2, OwnersStep
  <2> QED BY <2>1, <2>2, <2>3, <2>4, <2>5 DEF SessionInd, Typed
<1>3. CASE UNCHANGED vars
  BY <1>1, <1>3 DEF vars, SessionInd, Typed, ProcTyped, ConnTyped, LeaseTyped, PeopleTyped,
                    HoldersOwn, Owns
<1> QED BY <1>2, <1>3

\* The invariant holds in every state: whoever has a session, or is about to open one, owns
\* a lease that has not run out, until a lease row is lost under a session.
THEOREM SessionInductive == Spec => []SessionInd
BY InitInd, StepInd, PTL DEF Spec

\* Every variable has its type, whatever the handlers of a process do side by side.
THEOREM SessionTypes == Spec => []Typed
<1>1. SessionInd => Typed BY DEF SessionInd
<1> QED BY <1>1, SessionInductive, PTL

\* Leases keep competing processes from having a session at once, through claims, restarts,
\* failed starts and handlers of older sessions, unless a lease row was lost under a session.
THEOREM LeasesExclude == Spec => []SessionsExclude
<1>1. SessionInd => SessionsExclude
  <2> SUFFICES ASSUME SessionInd, ~torn, NEW p \in Processes, NEW q \in Processes,
                      proc[p].sess # "none", proc[q].sess # "none"
               PROVE  p = q
    BY DEF SessionsExclude, OneSession
  <2>1. Holds(proc[p]) /\ Holds(proc[q]) BY DEF Holds
  <2> QED BY <2>1 DEF SessionInd, HoldersOwn, Owns
<1> QED BY <1>1, SessionInductive, PTL
=============================================================================
