------------------------------ MODULE MeasStore ------------------------------
(***************************************************************************)
(* The MEAS half of testcore/store.py: one entry per instrument and        *)
(* resource.  Of an entry (value, timestamp, status) the model keeps the   *)
(* status, which is what tells a client whether the value may be trusted.  *)
(***************************************************************************)
EXTENDS Instruments

VARIABLE meas

MeasStatus == {"absent", "OK", "ERROR", "TIMEOUT", "STALE", "GUARD_FAULT"}

MeasTypeOK == meas \in [Names -> [Resources -> MeasStatus]]

MeasInit == meas = [n \in Names |-> [r \in Resources |-> "absent"]]

\* KeyValueStore.write_meas.
WriteMeas(n, r, status) == meas' = [meas EXCEPT ![n][r] = status]

\* KeyValueStore.invalidate_meas, for each instrument of N: every entry that
\* exists becomes STALE.
InvalidateMeas(N) ==
    meas' = [n \in Names |->
               [r \in Resources |->
                  IF n \in N /\ meas[n][r] # "absent" THEN "STALE"
                                                      ELSE meas[n][r]]]

\* What _write_meas (commands.py) may store for a read that ended with outcome
\* o: it looks for the word "timeout" in the text of the error, which the
\* watchdog's has and a driver's may have.
StatusOf(o) == CASE o = "ok" -> {"OK"}
                 [] o = "timeout" -> {"TIMEOUT"}
                 [] OTHER -> {"ERROR", "TIMEOUT"}
=============================================================================
