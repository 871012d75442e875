------------------------------ MODULE QrSessions ------------------------------
(***************************************************************************)
(* The linked device of one QR number: QrSessionManager.ts with the lease of *)
(* QrSessionOwnership.ts, and the people who switch the number on and off.   *)
(* A process may hold a session (a socket) for the connection while it owns  *)
(* the row of "QrSessionLease"; a heartbeat renews the row and asks every    *)
(* time whether the connection is still permitted.                           *)
(*                                                                           *)
(* Every handler is a little program of its own, with a step per await:      *)
(* `start`, `beat`, `qr`, `open`, `close`, `pause` and `disc` say how far    *)
(* each has got in a process.  They run side by side, and what one of them does to    *)
(* the session (stopLocal) it does to whichever session is there by then.    *)
(* Reads that follow each other are one look: the connection with its        *)
(* profile, and the lease or the phone number after them.  The emergency     *)
(* stop, which is one more condition of Permitted, and the messages that go  *)
(* through a session are left out.                                           *)
(***************************************************************************)
EXTENDS Naturals

CONSTANTS
  Processes,  \* the processes with a QrSessionManager
  Home,       \* the process that has made the connection or holds its session at first
  NoOne,      \* the owner of a lease row that is not there
  MaxActs,    \* bound on what the client and the administrator do
  MaxCloses,  \* bound on sockets that close
  MaxRetries, \* reconnects after a lost socket before a review (5 in the code)
  FaultKinds, \* "crash", "shutdown": a process ends, abruptly or in order; "stall": a live
              \* session outlives its lease; "db": a statement fails
  MaxFaults,  \* bound on the faults in a behaviour
  MaxEvents   \* bound on the three together

ASSUME OwnerAssumption == NoOne \notin Processes /\ Home \in Processes
ASSUME BoundsAssumption ==
  /\ MaxActs \in Nat /\ MaxCloses \in Nat /\ MaxRetries \in Nat
  /\ MaxFaults \in Nat /\ MaxEvents \in Nat
ASSUME FaultsAssumption == FaultKinds \subseteq {"crash", "shutdown", "stall", "db"}

VARIABLES
  allowed,  \* the profile may use QR (qrEntitled)
  conn,     \* the connection: status, enabled, bot (botEnabled)
  number,   \* the number is enabled
  lease,    \* the lease row: owner, and whether it has not run out
  creds,    \* credentials of a linked device are stored
  torn,     \* a lease row was lost under a session, or one being opened
  proc,     \* what every process does
  admin, client, \* a request under way: what it has read
  acts, closes, faults

vars == <<allowed, conn, number, lease, creds, torn, proc, admin, client,
          acts, closes, faults>>
people == <<admin, client, acts>>

NoLease == [owner |-> NoOne, live |-> FALSE]
\* sess: none, linking or open.  start, beat, qr, open, close, pause, disc: what the handler
\* does next.  auto: nobody waits for the start, so its failure pauses the connection.
\* loggedOut: the close was a logout; saw, shown: enabled as the handlers of a close and of a
\* code have read it; review: the status that a pause writes; timer: a reconnect is due;
\* retries: those made so far.
IdleProc ==
  [up |-> TRUE, sess |-> "none", start |-> "idle", auto |-> FALSE, beat |-> "idle",
   qr |-> "idle", shown |-> FALSE, open |-> "idle",
   close |-> "idle", loggedOut |-> FALSE, saw |-> FALSE,
   pause |-> "idle", review |-> "FAILED", timer |-> FALSE, retries |-> 0,
   disc |-> "idle"]
DeadProc == [IdleProc EXCEPT !.up = FALSE]

\* createConnection has just made the connection, or the device has been linked and approved.
Init ==
  /\ allowed = TRUE /\ acts = 0 /\ closes = 0 /\ faults = 0 /\ torn = FALSE
  /\ admin = "idle" /\ client = "idle"
  /\ LET p == Home IN
       \/ /\ conn = [status |-> "PENDING", enabled |-> TRUE, bot |-> FALSE]
          /\ number = FALSE /\ lease = NoLease /\ creds = FALSE
          /\ proc = [[q \in Processes |-> IdleProc] EXCEPT ![p].start = "reading", ![p].auto = TRUE]
       \/ /\ conn = [status |-> "CONNECTED", enabled |-> TRUE, bot |-> TRUE]
          /\ number = TRUE /\ lease = [owner |-> p, live |-> TRUE] /\ creds = TRUE
          /\ proc = [[q \in Processes |-> IdleProc] EXCEPT ![p].sess = "open"]

-----------------------------------------------------------------------------
(* Helpers *)

Permitted == conn.enabled /\ allowed
Owns(p) == lease.owner = p /\ lease.live

MoreEvents == acts + closes + faults < MaxEvents
Fault(kind) ==
  MoreEvents /\ kind \in FaultKinds /\ faults < MaxFaults /\ faults' = faults + 1
Act == MoreEvents /\ acts < MaxActs /\ acts' = acts + 1

\* stopLocal, on the record of a process: the session ends and the retry timer is cleared.
Stopped(r) == [r EXCEPT !.sess = "none", !.timer = FALSE]

\* pause: what follows is done by PauseNumber and PauseConnection.
Pausing(r, status) == [r EXCEPT !.pause = "number", !.review = status]

Become(p, r) == proc' = [proc EXCEPT ![p] = r]


\* A start request, or the one already running (`starting`).
Starting(r, auto) ==
  IF r.start = "idle" THEN [r EXCEPT !.start = "looking", !.auto = auto] ELSE r

\* A heartbeat every 20 seconds keeps a lease of 90 seconds alive, and no step of a handler
\* that is to give the lease up takes as long.
Holding(p) ==
  \/ proc[p].sess # "none"
  \/ proc[p].start \in {"creating", "releasing", "failing"} \/ proc[p].beat = "releasing"
  \/ proc[p].qr = "cleaning" \/ proc[p].open = "cleaning"
  \/ proc[p].close \in {"releasing", "cleaning"}

\* The lease row is deleted, whoever uses it.
DeleteLease ==
  /\ lease' = NoLease
  /\ torn' = (torn \/ \E p \in Processes :
                lease.owner = p /\ (proc[p].sess # "none" \/ proc[p].start = "creating"))

Release(p) == IF lease.owner = p THEN DeleteLease ELSE UNCHANGED <<lease, torn>>

-----------------------------------------------------------------------------
(* start: startSession *)

\* A session that is there stays if it is permitted, owned, and not waiting to be linked anew.
StartLook(p) ==
  LET r == proc[p] IN
    /\ r.start = "looking"
    /\ Become(p, IF r.sess = "none" THEN [r EXCEPT !.start = "reading"]
                 ELSE IF conn.status # "PENDING" /\ Permitted /\ Owns(p) THEN [r EXCEPT !.start = "idle"]
                 ELSE [Stopped(r) EXCEPT !.start = "releasing"])
    /\ UNCHANGED <<allowed, conn, number, lease, creds, torn, closes, faults, people>>

StartRelease(p) ==
  /\ proc[p].start = "releasing"
  /\ Release(p)
  /\ Become(p, [proc[p] EXCEPT !.start = "reading"])
  /\ UNCHANGED <<allowed, conn, number, creds, closes, faults, people>>

StartRead(p) ==
  /\ proc[p].start = "reading"
  /\ Become(p, [proc[p] EXCEPT !.start = IF Permitted THEN "claiming" ELSE "idle"])
  /\ UNCHANGED <<allowed, conn, number, lease, creds, torn, closes, faults, people>>

\* Fault: a lease is taken over before it has run out.
ClaimableAnyTime(p) == lease.owner # p

Claimable(p) == ~lease.live

\* claim: a lease that has not run out is refused, even to its own owner.
StartClaim(p) ==
  /\ proc[p].start = "claiming"
  /\ IF Claimable(p)
     THEN /\ lease' = [owner |-> p, live |-> TRUE]
          /\ Become(p, [proc[p] EXCEPT !.start = "creating"])
     ELSE /\ UNCHANGED lease
          /\ Become(p, [proc[p] EXCEPT !.start = "idle"])
  /\ UNCHANGED <<allowed, conn, number, creds, torn, closes, faults, people>>

StartCreate(p) ==
  /\ proc[p].start = "creating"
  /\ Become(p, [proc[p] EXCEPT !.start = "idle", !.sess = "linking"])
  /\ UNCHANGED <<allowed, conn, number, lease, creds, torn, closes, faults, people>>

\* A failed start pauses the connection only if nobody waits for it.
Failed(r) == IF r.auto THEN Pausing([r EXCEPT !.start = "idle"], "FAILED")
                       ELSE [r EXCEPT !.start = "idle"]

\* Before the claim nothing is released.
StartBreaks(p) ==
  /\ Fault("db")
  /\ \/ /\ proc[p].start \in {"looking", "releasing", "reading", "claiming"}
        /\ Become(p, Failed(proc[p]))
     \/ /\ proc[p].start = "creating"
        /\ Become(p, [proc[p] EXCEPT !.start = "failing"])
  /\ UNCHANGED <<allowed, conn, number, lease, creds, torn, closes, people>>

StartFails(p) ==
  /\ proc[p].start = "failing"
  /\ Release(p)
  /\ Become(p, Failed(proc[p]))
  /\ UNCHANGED <<allowed, conn, number, creds, closes, faults, people>>

Start(p) ==
  StartLook(p) \/ StartRelease(p) \/ StartRead(p) \/ StartClaim(p)
    \/ StartCreate(p) \/ StartFails(p)

-----------------------------------------------------------------------------
(* The heartbeat, and pause *)

\* The heartbeat finds the connection not permitted.
BeatForbidden(p) ==
  /\ proc[p].sess # "none" /\ proc[p].beat = "idle" /\ ~Permitted
  /\ Become(p, [Stopped(proc[p]) EXCEPT !.beat = "releasing"])
  /\ UNCHANGED <<allowed, conn, number, lease, creds, torn, closes, faults, people>>

BeatRelease(p) ==
  /\ proc[p].beat = "releasing"
  /\ Release(p)
  /\ Become(p, Pausing([proc[p] EXCEPT !.beat = "idle"], "SUSPENDED"))
  /\ UNCHANGED <<allowed, conn, number, creds, closes, faults, people>>

\* It was permitted when the heartbeat read it, but the renewal is refused.  A renewal that
\* succeeds is a stutter: `live` does not say for how long.
BeatRefused(p) ==
  /\ proc[p].sess # "none" /\ proc[p].beat = "idle" /\ ~Owns(p)
  /\ Become(p, Stopped(proc[p]))
  /\ UNCHANGED <<allowed, conn, number, lease, creds, torn, closes, faults, people>>

\* Any error ends the session, and neither the lease nor the status is touched.
BeatBreaks(p) ==
  /\ proc[p].sess # "none" \/ proc[p].beat # "idle"
  /\ Fault("db")
  /\ Become(p, [Stopped(proc[p]) EXCEPT !.beat = "idle"])
  /\ UNCHANGED <<allowed, conn, number, lease, creds, torn, closes, people>>

PauseNumber(p) ==
  /\ proc[p].pause = "number"
  /\ number' = FALSE
  /\ Become(p, [proc[p] EXCEPT !.pause = "connection"])
  /\ UNCHANGED <<allowed, conn, lease, creds, torn, closes, faults, people>>

PauseConnection(p) ==
  /\ proc[p].pause = "connection"
  /\ conn' = [conn EXCEPT !.status = proc[p].review, !.enabled = FALSE]
  /\ Become(p, [proc[p] EXCEPT !.pause = "idle", !.review = "FAILED"])
  /\ UNCHANGED <<allowed, number, lease, creds, torn, closes, faults, people>>

\* Fault: the heartbeat only renews the lease.
HeartbeatsOnlyRenew(p) == BeatRelease(p) \/ BeatRefused(p)

\* Fault: a renewal that is refused changes nothing.
HeartbeatsOnlyAsk(p) == BeatForbidden(p) \/ BeatRelease(p)

Heartbeats(p) == BeatForbidden(p) \/ BeatRelease(p) \/ BeatRefused(p)
Pauses(p) == PauseNumber(p) \/ PauseConnection(p)

-----------------------------------------------------------------------------
(* The socket: connection.update *)

\* A code to scan is stored, and the connection is read to be marked: a write of its own
\* puts back what was read.
ShowQr(p) ==
  /\ proc[p].sess = "linking" /\ ~creds /\ proc[p].qr = "idle"
  /\ Become(p, [proc[p] EXCEPT !.qr = "writing", !.shown = conn.enabled])
  /\ UNCHANGED <<allowed, conn, number, lease, creds, torn, closes, faults, people>>

MarkQr(p) ==
  /\ proc[p].qr = "writing"
  /\ conn' = [conn EXCEPT !.status = "QR_REQUIRED", !.enabled = proc[p].shown]
  /\ Become(p, [proc[p] EXCEPT !.qr = "idle", !.shown = FALSE])
  /\ UNCHANGED <<allowed, number, lease, creds, torn, closes, faults, people>>

\* The socket is open, with the stored credentials or those of the device that has scanned.
Open(p) ==
  /\ proc[p].sess = "linking" /\ proc[p].open = "idle"
  /\ creds' = TRUE
  /\ Become(p, IF Permitted THEN [proc[p] EXCEPT !.sess = "open", !.open = "claiming"]
               ELSE Stopped(proc[p]))
  /\ UNCHANGED <<allowed, conn, number, lease, torn, closes, faults, people>>

\* The process must own the lease, and the phone number belong to no other connection.
OpenClaim(p) ==
  /\ proc[p].open = "claiming"
  /\ IF Owns(p)
     THEN \/ Become(p, [proc[p] EXCEPT !.open = "connecting"])
          \/ Become(p, [Stopped(proc[p]) EXCEPT !.open = "cleaning"])
     ELSE Become(p, [Stopped(proc[p]) EXCEPT !.open = "idle"])
  /\ UNCHANGED <<allowed, conn, number, lease, creds, torn, closes, faults, people>>

OpenConnect(p) ==
  /\ proc[p].open = "connecting"
  /\ conn' = [conn EXCEPT !.status = "CONNECTED", !.enabled = TRUE]
  /\ Become(p, [proc[p] EXCEPT !.open = "enabling"])
  /\ UNCHANGED <<allowed, number, lease, creds, torn, closes, faults, people>>

OpenEnable(p) ==
  /\ proc[p].open = "enabling"
  /\ number' = conn.bot
  /\ Become(p, [proc[p] EXCEPT !.open = "idle"])
  /\ UNCHANGED <<allowed, conn, lease, creds, torn, closes, faults, people>>

\* The socket is lost, or its device is logged out or replaced.  After ten healthy minutes
\* the retries are counted anew.
Close(p) ==
  LET r == Stopped(proc[p]) IN
    /\ proc[p].sess # "none" /\ proc[p].close = "idle"
    /\ MoreEvents /\ closes < MaxCloses /\ closes' = closes + 1
    /\ \E out \in BOOLEAN, n \in {proc[p].retries} \cup (IF proc[p].sess = "open" THEN {0} ELSE {}) :
         Become(p, [r EXCEPT !.close = "releasing", !.loggedOut = out, !.retries = n])
    /\ UNCHANGED <<allowed, conn, number, lease, creds, torn, faults, people>>

CloseRelease(p) ==
  /\ proc[p].close = "releasing"
  /\ Release(p)
  /\ Become(p, [proc[p] EXCEPT !.close = IF proc[p].loggedOut THEN "clearing" ELSE "number"])
  /\ UNCHANGED <<allowed, conn, number, creds, closes, faults, people>>

CloseClear(p) ==
  /\ proc[p].close = "clearing"
  /\ creds' = FALSE
  /\ Become(p, [proc[p] EXCEPT !.close = "number"])
  /\ UNCHANGED <<allowed, conn, number, lease, torn, closes, faults, admin, client, acts>>

CloseNumber(p) ==
  /\ proc[p].close = "number"
  /\ number' = FALSE
  /\ Become(p, [proc[p] EXCEPT !.close = "reading"])
  /\ UNCHANGED <<allowed, conn, lease, creds, torn, closes, faults, people>>

CloseRead(p) ==
  /\ proc[p].close = "reading"
  /\ Become(p, [proc[p] EXCEPT !.close = "writing", !.saw = conn.enabled])
  /\ UNCHANGED <<allowed, conn, number, lease, creds, torn, closes, faults, people>>

\* A lost socket is opened again after a while, or waits for a review.
CloseWrite(p) ==
  LET r == [proc[p] EXCEPT !.close = "idle", !.loggedOut = FALSE, !.saw = FALSE] IN
    /\ proc[p].close = "writing"
    /\ conn' = IF proc[p].loggedOut THEN [conn EXCEPT !.status = "DISCONNECTED", !.enabled = FALSE]
               ELSE [conn EXCEPT !.status = "RECONNECTING", !.enabled = proc[p].saw]
    /\ Become(p, IF proc[p].loggedOut THEN r
                 ELSE IF r.retries < MaxRetries THEN [r EXCEPT !.timer = TRUE, !.retries = @ + 1]
                 ELSE Pausing(r, "FAILED"))
    /\ UNCHANGED <<allowed, number, lease, creds, torn, closes, faults, people>>

RetryFires(p) ==
  /\ proc[p].timer
  /\ Become(p, Starting([proc[p] EXCEPT !.timer = FALSE], TRUE))
  /\ UNCHANGED <<allowed, conn, number, lease, creds, torn, closes, faults, people>>

\* An error in the handler stops whatever session there is.
HandlerBreaks(p) ==
  LET r == Stopped(proc[p]) IN
    /\ Fault("db")
    /\ \/ proc[p].qr = "writing"
          /\ Become(p, [r EXCEPT !.qr = "cleaning", !.shown = FALSE])
       \/ proc[p].open \in {"claiming", "connecting", "enabling"}
          /\ Become(p, [r EXCEPT !.open = "cleaning"])
       \/ proc[p].close \in {"releasing", "clearing", "number", "reading", "writing"}
          /\ Become(p, [r EXCEPT !.close = "cleaning", !.loggedOut = FALSE, !.saw = FALSE])
    /\ UNCHANGED <<allowed, conn, number, lease, creds, torn, closes, people>>

Clean(p) ==
  LET r == Pausing(proc[p], "FAILED") IN
    /\ Release(p)
    /\ \/ proc[p].qr = "cleaning" /\ Become(p, [r EXCEPT !.qr = "idle"])
       \/ proc[p].open = "cleaning" /\ Become(p, [r EXCEPT !.open = "idle"])
       \/ proc[p].close = "cleaning" /\ Become(p, [r EXCEPT !.close = "idle"])
    /\ UNCHANGED <<allowed, conn, number, creds, closes, faults, people>>

Handlers(p) ==
  MarkQr(p) \/ OpenClaim(p) \/ OpenConnect(p) \/ OpenEnable(p)
    \/ CloseRelease(p) \/ CloseClear(p) \/ CloseNumber(p) \/ CloseRead(p) \/ CloseWrite(p)
    \/ RetryFires(p) \/ Clean(p)

-----------------------------------------------------------------------------
(* The client and the administrator *)

\* The switch reads the connection, and writes by what it read.
Activate ==
  /\ admin = "idle" /\ allowed /\ Act
  /\ admin' = IF conn.enabled /\ conn.status = "CONNECTED" THEN "connected" ELSE "other"
  /\ UNCHANGED <<allowed, conn, number, lease, creds, torn, proc, closes, faults,
                 client>>

ActivateWrite(p) ==
  /\ admin # "idle" /\ admin' = "idle" /\ proc[p].up
  /\ conn' = [conn EXCEPT !.bot = TRUE, !.enabled = TRUE,
                !.status = IF @ \in {"PAUSED", "FAILED", "DISCONNECTED"} THEN "PENDING" ELSE @]
  /\ number' = (admin = "connected")
  /\ IF admin = "connected" THEN UNCHANGED proc
     ELSE Become(p, Starting(proc[p], FALSE))
  /\ UNCHANGED <<allowed, lease, creds, torn, closes, faults, client, acts>>

Deactivate ==
  /\ Act
  /\ conn' = [conn EXCEPT !.bot = FALSE] /\ number' = FALSE
  /\ UNCHANGED <<allowed, lease, creds, torn, proc, closes, faults, admin, client>>

\* setQrAllowed(false)
Revoke ==
  /\ allowed /\ Act
  /\ allowed' = FALSE
  /\ conn' = [status |-> "PAUSED", enabled |-> FALSE, bot |-> FALSE]
  /\ number' = FALSE /\ DeleteLease
  /\ UNCHANGED <<creds, proc, closes, faults, admin, client>>

\* updateAccount: the new plan has no QR module.  The lease row stays.
RevokeByPlan ==
  /\ allowed /\ Act
  /\ allowed' = FALSE
  /\ conn' = [status |-> "PAUSED", enabled |-> FALSE, bot |-> FALSE]
  /\ number' = FALSE
  /\ UNCHANGED <<lease, creds, torn, proc, closes, faults, admin, client>>

\* setQrAllowed(true), which the bound on a revocation bounds as well.
Allow ==
  /\ ~allowed
  /\ allowed' = TRUE
  /\ UNCHANGED <<conn, number, lease, creds, torn, proc, closes, faults, admin, client, acts>>

Reconnect(p) ==
  /\ client = "idle" /\ allowed /\ proc[p].up /\ Act
  /\ conn.enabled \/ conn.status = "DISCONNECTED"
  /\ IF conn.status = "DISCONNECTED"
     THEN client' = "reviving" /\ UNCHANGED proc
     ELSE UNCHANGED client /\ Become(p, Starting(proc[p], FALSE))
  /\ UNCHANGED <<allowed, conn, number, lease, creds, torn, closes, faults,
                 admin>>

Revive(p) ==
  /\ client = "reviving" /\ client' = "idle" /\ proc[p].up
  /\ conn' = [conn EXCEPT !.enabled = TRUE, !.status = "PENDING"]
  /\ Become(p, Starting(proc[p], FALSE))
  /\ UNCHANGED <<allowed, number, lease, creds, torn, closes, faults, admin,
                 acts>>

Disconnect(p) ==
  /\ proc[p].up /\ proc[p].disc = "idle" /\ Act
  /\ conn' = [conn EXCEPT !.status = "DISCONNECTED", !.enabled = FALSE] /\ number' = FALSE
  /\ Become(p, [proc[p] EXCEPT !.disc = "bot"])
  /\ UNCHANGED <<allowed, lease, creds, torn, closes, faults, admin, client>>

DisconnectBot(p) ==
  /\ proc[p].disc = "bot"
  /\ conn' = [conn EXCEPT !.bot = FALSE]
  /\ Become(p, [proc[p] EXCEPT !.disc = "device"])
  /\ UNCHANGED <<allowed, number, lease, creds, torn, closes, faults, admin, client, acts>>

\* The device is logged out, its credentials are deleted and the session here stops.
DisconnectDevice(p) ==
  /\ proc[p].disc = "device"
  /\ creds' = FALSE
  /\ Become(p, [Stopped(proc[p]) EXCEPT !.disc = "lease"])
  /\ UNCHANGED <<allowed, conn, number, lease, torn, closes, faults, admin, client, acts>>

DisconnectLease(p) ==
  /\ proc[p].disc = "lease"
  /\ DeleteLease
  /\ Become(p, [proc[p] EXCEPT !.disc = "idle"])
  /\ UNCHANGED <<allowed, conn, number, creds, closes, faults, people>>

People(p) ==
  \/ ActivateWrite(p) \/ Reconnect(p) \/ Revive(p) \/ Disconnect(p)
  \/ DisconnectBot(p) \/ DisconnectDevice(p) \/ DisconnectLease(p)
Switches == Activate \/ Deactivate \/ Revoke \/ RevokeByPlan \/ Allow

-----------------------------------------------------------------------------
(* Processes and time *)

LeaseRunsOut ==
  /\ lease.live /\ ~Holding(lease.owner)
  /\ lease' = [lease EXCEPT !.live = FALSE]
  /\ UNCHANGED <<allowed, conn, number, creds, torn, proc, closes, faults, people>>

Stall ==
  /\ lease.live /\ Holding(lease.owner) /\ Fault("stall")
  /\ lease' = [lease EXCEPT !.live = FALSE] /\ torn' = TRUE
  /\ UNCHANGED <<allowed, conn, number, creds, proc, closes, people>>

Crash(p) ==
  /\ proc[p] \notin {IdleProc, DeadProc} /\ Fault("crash")
  /\ Become(p, DeadProc)
  /\ UNCHANGED <<allowed, conn, number, lease, creds, torn, closes, people>>

\* shutdown releases the lease of a session that is there.
Shutdown(p) ==
  /\ proc[p] \notin {IdleProc, DeadProc} /\ Fault("shutdown")
  /\ IF proc[p].sess # "none" THEN Release(p) ELSE UNCHANGED <<lease, torn>>
  /\ Become(p, DeadProc)
  /\ UNCHANGED <<allowed, conn, number, creds, closes, people>>

\* restoreEnabledSessions
Restart(p) ==
  /\ ~proc[p].up
  /\ Become(p, IF conn.enabled /\ conn.status \in {"CONNECTED", "RECONNECTING", "QR_REQUIRED", "PENDING"}
               THEN Starting(IdleProc, TRUE) ELSE IdleProc)
  /\ UNCHANGED <<allowed, conn, number, lease, creds, torn, closes, faults, people>>

-----------------------------------------------------------------------------
Next ==
  \/ Switches \/ LeaseRunsOut \/ Stall
  \/ \E p \in Processes :
       \/ Start(p) \/ StartBreaks(p) \/ Heartbeats(p) \/ BeatBreaks(p) \/ Pauses(p)
       \/ ShowQr(p) \/ Open(p) \/ Close(p) \/ Handlers(p) \/ HandlerBreaks(p)
       \/ People(p) \/ Crash(p) \/ Shutdown(p) \/ Restart(p)

Spec == Init /\ [][Next]_vars

\* What a process has begun goes on, its heartbeat fires, and it is restarted; nothing says
\* that a socket opens, closes or shows a code, or that anybody acts.
FairSpec ==
  /\ Spec
  /\ WF_vars(LeaseRunsOut)
  /\ \A p \in Processes :
       /\ WF_vars(Start(p)) /\ WF_vars(Heartbeats(p)) /\ WF_vars(Pauses(p))
       /\ WF_vars(Handlers(p)) /\ WF_vars(Restart(p))

-----------------------------------------------------------------------------
(* Properties *)

\* One process at most has a session (the sessions map of QrSessionManager).
OneSession == \A p, q \in Processes : proc[p].sess # "none" /\ proc[q].sess # "none" => p = q

\* "Leases prevent competing processes from opening the same session"
\* (docs/OPTIONAL_QR_PILOT.md): whatever handlers of an older session still run, two
\* processes have a session at once only after a lease row was lost under a session: by a
\* stall, a revocation, a disconnect, or a release of the same process that came late.
SessionsExclude == torn \/ OneSession

\* Even then the competition ends: sooner or later one process at most has a session, for good.
CompetitionEnds == <>[]OneSession

\* "Revoked access ... closes the local socket on its next heartbeat": once access is revoked
\* for good no process keeps a session, and none that was being opened stays.
RevokedEnds == <>[](~allowed) => <>[](\A p \in Processes : proc[p].sess = "none")
=============================================================================
