------------------------------ MODULE Readiness ------------------------------
(****************************************************************************)
(* How the NetworkManager backend comes into being (newNetworkManager in    *)
(* networkManager.go, waitForServiceReady in services.go): the daemon is    *)
(* polled until it has finished starting, the timeout elapses or the caller *)
(* cancels; a daemon that is on the bus is then configured all the same.    *)
(* The bus, the daemon, the clock and the caller go their own way between   *)
(* any two steps.  The names are none of NetworkManager's, so that a module *)
(* can extend both.                                                         *)
(****************************************************************************)
EXTENDS Naturals

CONSTANT MaxStops   \* bound on how often the daemon stops

ASSUME ReadinessAssumption == MaxStops \in Nat

VARIABLES
    bus,        \* dbus-daemon is up
    daemon,     \* "absent" from the bus, "starting" on it, or "ready"
    waits,      \* serviceReadyTimeout is more than zero
    elapsed,    \* it has gone by
    tick,       \* the ticker's channel holds a tick
    cancelled,  \* the caller's context is cancelled
    stage, nm,  \* the step of newNetworkManager, and what it returns
    \* ghosts: times the daemon stopped; it did in the middle of a probe, and the bus
    \* had to start it for one; a probe said ready; when the wait failed, the caller
    \* had cancelled; since then, a call over the bus failed, the daemon was away
    stops, slipped, launched, sawReady, late, faulted, away

world == <<bus, daemon, stops, slipped, away>>
clock == <<elapsed, tick, cancelled>>
ghosts == <<faulted, sawReady, launched, late>>
waitVars == <<world, waits, clock, stage, nm, ghosts>>

-----------------------------------------------------------------------------
(* The host *)

Host == UNCHANGED <<waits, stage, nm, ghosts>>

BusStarts == ~bus /\ bus' = TRUE /\ UNCHANGED <<daemon, stops, slipped, away, clock>> /\ Host

DaemonStarts ==
    /\ bus /\ daemon = "absent" /\ daemon' = "starting"
    /\ UNCHANGED <<bus, stops, slipped, away, clock>> /\ Host

\* Every device is through its first activation; that may never happen.
DaemonSettles ==
    /\ daemon = "starting" /\ daemon' = "ready"
    /\ UNCHANGED <<bus, stops, slipped, away, clock>> /\ Host

DaemonStops ==
    /\ daemon # "absent" /\ stops < MaxStops
    /\ daemon' = "absent" /\ stops' = stops + 1
    /\ slipped' = (slipped \/ stage = "startup") /\ away' = TRUE
    /\ UNCHANGED <<bus, clock>> /\ Host

Elapse ==
    /\ stage \notin {"idle", "done"} /\ waits /\ ~elapsed
    /\ elapsed' = TRUE /\ UNCHANGED <<tick, cancelled, world>> /\ Host

Tick == ~tick /\ tick' = TRUE /\ UNCHANGED <<elapsed, cancelled, world>> /\ Host

Cancel == ~cancelled /\ cancelled' = TRUE /\ UNCHANGED <<elapsed, tick, world>> /\ Host

-----------------------------------------------------------------------------
(* newNetworkManager *)

Goto(label) == stage' = label /\ UNCHANGED <<nm, waits>>
Answer(result) == stage' = "done" /\ nm' = result /\ UNCHANGED waits

waitForServiceReady ==
    /\ stage = "idle" /\ tick' = FALSE
    /\ Goto("owned") /\ UNCHANGED <<world, elapsed, cancelled, ghosts>>

\* One probe has said no: with a zero timeout it was the only one.
NotReady == Goto(IF waits THEN "select" ELSE "failed")

\* A call over the bus fails.
Fault == faulted' = TRUE /\ UNCHANGED <<sawReady, launched, late>>

\* Mutant: the property is read without asking whether anybody owns the name.
OwnedUnasked ==
    /\ stage = "owned" /\ Goto("startup")
    /\ UNCHANGED <<world, clock, ghosts>>

\* nmOnBus: does anybody own the daemon's name?
Owned ==
    /\ stage = "owned"
    /\ \/ bus /\ daemon # "absent" /\ Goto("startup") /\ UNCHANGED ghosts
       \/ bus /\ daemon = "absent" /\ NotReady /\ UNCHANGED ghosts
       \/ NotReady /\ Fault
    /\ UNCHANGED <<world, clock>>

\* Reading the Startup property of a daemon that has gone makes the bus start it.
Startup ==
    /\ stage = "startup"
    /\ \/ /\ daemon = "ready" /\ Goto("settings")
          /\ sawReady' = TRUE /\ UNCHANGED <<faulted, launched, late, world>>
       \/ daemon = "starting" /\ NotReady /\ UNCHANGED <<ghosts, world>>
       \/ /\ bus /\ daemon = "absent" /\ daemon' = "starting" /\ NotReady
          /\ launched' = TRUE /\ UNCHANGED <<faulted, sawReady, late>>
          /\ UNCHANGED <<bus, stops, slipped, away>>
       \/ NotReady /\ Fault /\ UNCHANGED world
    /\ UNCHANGED clock

\* Mutant: the wait looks at its ticker only.
GiveUpNever == stage = "select" /\ FALSE /\ UNCHANGED waitVars

\* select: the deadline or the caller's cancellation, and the tick; with both there
\* either may be taken.
GiveUp ==
    /\ stage = "select" /\ (elapsed \/ cancelled)
    /\ Goto("failed") /\ UNCHANGED <<world, clock, ghosts>>

ProbeAgain ==
    /\ stage = "select" /\ tick
    /\ Goto("owned") /\ tick' = FALSE
    /\ UNCHANGED <<world, elapsed, cancelled, ghosts>>

\* The wait has failed: a caller that has cancelled gets its error, and any other the
\* daemon if it is on the bus.
WaitFailed ==
    /\ stage = "failed"
    /\ IF cancelled THEN Answer("none") ELSE Goto("recheck")
    /\ late' = cancelled /\ away' = (daemon = "absent") /\ faulted' = FALSE
    /\ UNCHANGED <<bus, daemon, stops, slipped, clock, sawReady, launched>>

\* Mutant: a daemon that has not finished starting is given up.
RecheckDrops ==
    /\ stage = "recheck" /\ Answer("none")
    /\ UNCHANGED <<world, clock, ghosts>>

Recheck ==
    /\ stage = "recheck"
    /\ \/ bus /\ daemon # "absent" /\ Goto("settings") /\ UNCHANGED ghosts
       \/ bus /\ daemon = "absent" /\ Answer("none") /\ UNCHANGED ghosts
       \/ Answer("none") /\ Fault
    /\ UNCHANGED <<world, clock>>

\* gonetworkmanager.NewSettings, and the backend is there.
NewSettings ==
    /\ stage = "settings"
    /\ \/ Answer("backend") /\ UNCHANGED ghosts
       \/ Answer("none") /\ Fault
    /\ UNCHANGED <<world, clock>>

-----------------------------------------------------------------------------

WaitInit ==
    /\ bus \in BOOLEAN /\ daemon \in {"absent", "starting", "ready"}
    /\ bus \/ daemon = "absent"
    /\ waits \in BOOLEAN /\ elapsed = FALSE /\ tick = FALSE /\ cancelled = FALSE
    /\ stage = "idle" /\ nm = "none"
    /\ stops = 0 /\ faulted = FALSE /\ sawReady = FALSE /\ slipped = FALSE
    /\ launched = FALSE /\ late = FALSE /\ away = FALSE

WaitStep ==
    \/ waitForServiceReady \/ Owned \/ Startup \/ GiveUp \/ ProbeAgain
    \/ WaitFailed \/ Recheck \/ NewSettings

WaitNext ==
    \/ WaitStep
    \/ BusStarts \/ DaemonStarts \/ DaemonSettles \/ DaemonStops
    \/ Elapse \/ Tick \/ Cancel

\* Calls over the bus return, time passes, and select is fair between its cases.
WaitSpec ==
    /\ WaitInit /\ [][WaitNext]_waitVars
    /\ WF_waitVars(WaitStep) /\ WF_waitVars(Elapse) /\ SF_waitVars(GiveUp)

-----------------------------------------------------------------------------
(* Properties *)

\* What newNetworkManager's comments promise of its answer.  No backend: only to a
\* caller that had cancelled when the wait failed, or if since then a call over the
\* bus has failed or the daemon has been off the bus.  A backend: the daemon said
\* it is ready, or all of the wait there is has gone by and nobody had cancelled.
\* And the wait is not what starts the daemon, which a read over the bus can do,
\* unless the daemon goes between the two halves of one probe.
BackendAsPromised ==
    /\ stage = "done" /\ nm = "none" => late \/ faulted \/ away
    /\ stage = "done" /\ nm = "backend" => sawReady \/ (~late /\ (elapsed \/ ~waits))
    /\ launched => slipped

\* newNetworkManager returns, though the daemon may never finish starting and may
\* restart, and a tick may be ready whenever the deadline is.
WaitEnds == stage = "owned" ~> stage = "done"
=============================================================================
