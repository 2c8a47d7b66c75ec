---------------------------- MODULE HealthMonitor ----------------------------
(***************************************************************************)
(* testcore/health.py: one ping task per instrument added with health=N.   *)
(* health[n] is "off" (no task, or one that has ended), "sleep" (between   *)
(* two checks) or "call" (in _call_driver).  The idle-time test against    *)
(* last_call_ok only delays a check; the model lets a check happen at any  *)
(* time.                                                                   *)
(***************************************************************************)
EXTENDS Instruments

VARIABLES health, failures

HEALTH_MAX_FAILURES == 3

HealthTypeOK ==
    /\ health \in [Names -> {"off", "sleep", "call"}]
    /\ failures \in [Names -> 0 .. HEALTH_MAX_FAILURES]

HealthInit ==
    /\ health = [n \in Names |-> "off"]
    /\ failures = [n \in Names |-> 0]

PingEntry == DriverCall("health", "ping", NoRes)

\* HealthMonitor.start on a new Instrument (IADD ... health=N), or no task.
StartHealth(n, monitored) ==
    /\ health' = [health EXCEPT ![n] = IF monitored THEN "sleep" ELSE "off"]
    /\ failures' = [failures EXCEPT ![n] = 0]

\* HealthMonitor.stop; the counter goes with the Instrument.
StopHealth(n) ==
    /\ health' = [health EXCEPT ![n] = "off"]
    /\ failures' = [failures EXCEPT ![n] = 0]

\* The sleep is over.  Skipped when the instrument is broken.  It is also
\* skipped while inst._busy is set, which only delays a ping: _busy is cleared
\* before the next waiter of inst._lock runs, so a ping may queue behind others.
HealthTick(n) ==
    /\ health[n] = "sleep"
    /\ state[n] \notin Broken
    /\ health' = [health EXCEPT ![n] = "call"]
    /\ Enqueue(n, PingEntry)
    /\ UNCHANGED <<registryVars, orphan, hw, failures>>

\* health_failures saturates at the limit, the only value it is compared with.
Failed(k) == IF k < HEALTH_MAX_FAILURES THEN k + 1 ELSE k

\* A failure that reaches the limit.
LastStrike(n, o) == o # "ok" /\ Failed(failures[n]) >= HEALTH_MAX_FAILURES

\* Mutated form of HealthCallEnds: the limit is off by one.
HealthCallEndsEarly(n, o) ==
    /\ health[n] = "call"
    /\ Holds(n, "health")
    /\ Pop(n, o)
    /\ failures' = [failures EXCEPT ![n] = IF o = "ok" THEN 0 ELSE Failed(@)]
    /\ state' = [state EXCEPT ![n] =
                   IF o # "ok" /\ failures[n] + 2 >= HEALTH_MAX_FAILURES
                   THEN "UNRESPONSIVE" ELSE AfterCall(n, o)]
    /\ health' = [health EXCEPT ![n] = "sleep"]
    /\ UNCHANGED <<reg, owner, resources, hw>>

\* The ping ends.  A success clears the counter; any exception counts, and at
\* the limit the instrument becomes UNRESPONSIVE whatever its state is now.  The
\* publication of that change may raise, which ends the task.
HealthCallEnds(n, o) ==
    /\ health[n] = "call"
    /\ Holds(n, "health")
    /\ Pop(n, o)
    /\ failures' = [failures EXCEPT ![n] = IF o = "ok" THEN 0 ELSE Failed(@)]
    /\ state' = [state EXCEPT ![n] =
                   IF LastStrike(n, o) THEN "UNRESPONSIVE" ELSE AfterCall(n, o)]
    /\ \/ health' = [health EXCEPT ![n] = "sleep"]
       \/ /\ LastStrike(n, o) /\ AfterCall(n, o) # "UNRESPONSIVE"
          /\ health' = [health EXCEPT ![n] = "off"]
    /\ UNCHANGED <<reg, owner, resources, hw>>
=============================================================================
