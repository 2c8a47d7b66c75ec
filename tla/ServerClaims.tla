---------------------------- MODULE ServerClaims -----------------------------
(***************************************************************************)
(* Statements of the README and of docstrings that the server's code does  *)
(* not keep.  Each is refuted by a run of its own.                         *)
(***************************************************************************)
EXTENDS Server

\* events.py:158, "Publish event to all subscribers of channel", and
\* README.md:76: a publication ends only when every matching subscriber that
\* is still there has been written to.  (A subscriber that joins or leaves
\* during one of its awaits makes the set iterator raise.)
AllDelivered ==
    [][\A s \in Sessions :
          pub[s].list \in VALID_CHANNELS /\ pub'[s] # pub[s] /\ pub'[s].list # pub[s].list
              => ToVisit(s) = {}]_vars

\* README.md:471, after SUBSCRIBE the "connection enters subscriber mode": a
\* subscribed connection is in subscriber mode.  (An invalid channel ends the
\* handler after the channels before it were subscribed.)
SubscribersInMode ==
    \A s \in Sessions : Subscribed(s, listeners) => subscribing[s]

\* README.md:483, KSET "Returns OK or nil": a KSET that has stored its value
\* is not answered with an error.  (Its publication may raise.)
StoredMeansOk ==
    [][\A s \in Sessions : pc[s] = "run" /\ pc'[s] # "run" =>
          entries'[Len(entries')].status = "ok"]_vars

\* README.md:52, serial dispatch has "No race conditions by design": the
\* server closes no connection whose client is still there.  (A monitor that
\* comes or goes while another session's command is written to the monitors
\* ends that other session's handler.)
ClosedOnlyWhenGone ==
    [][\A s \in Sessions :
          pc[s] \notin {"drop", "bye", "gone"} /\ pc'[s] \in {"drop", "bye", "gone"} => ~alive[s]]_vars

\* journal.py:74, tail(count) returns the "last N entries": never more than
\* were asked for.  (JOURNAL 0 returns all of them: entries[-0:] is entries.)
TailCounts == \A count \in 0 .. JournalSize : Len(TailOf(count)) <= count
=============================================================================
