------------------------------ MODULE LockTable ------------------------------
(***************************************************************************)
(* What the instrument locks promise to clients, without a word about how. *)
(* One request is served at a time.  A request for locks is granted as a   *)
(* whole, when all it names exist and are free or the asker's own, or it   *)
(* changes nothing.  A lock is given back by a request of its holder that  *)
(* names it, by the cleanup after its holder has left, or because what it  *)
(* locks is removed; it never passes from one session to another.          *)
(***************************************************************************)
CONSTANTS Locks, Clients, Nobody

VARIABLES
    holder,     \* who holds each lock
    connected,  \* the sessions that have not left
    there,      \* what exists and can be locked
    floor       \* the request being served

table == <<holder, connected, there, floor>>

NoRequest == [kind |-> "none", by |-> Nobody, names |-> {}]

Init ==
    /\ holder = [n \in Locks |-> Nobody]
    /\ connected = Clients
    /\ there = {}
    /\ floor = NoRequest

Ask(kind, s, N) ==
    /\ floor = NoRequest
    /\ s \in connected
    /\ floor' = [kind |-> kind, by |-> s, names |-> N]
    /\ UNCHANGED <<holder, connected, there>>

\* All that was asked for.
Grant ==
    /\ floor.kind = "lock"
    /\ floor.by \in connected
    /\ \A n \in floor.names : n \in there /\ holder[n] \in {Nobody, floor.by}
    /\ holder' = [n \in Locks |-> IF n \in floor.names THEN floor.by ELSE holder[n]]
    /\ floor' = NoRequest
    /\ UNCHANGED <<connected, there>>

\* Nothing, or nothing more of what was to be given back.
Refuse ==
    /\ floor # NoRequest
    /\ floor' = NoRequest
    /\ UNCHANGED <<holder, connected, there>>

GiveBack(n) ==
    /\ floor.kind = "unlock"
    /\ n \in floor.names
    /\ holder[n] = floor.by
    /\ holder' = [holder EXCEPT ![n] = Nobody]
    /\ floor' = IF floor.names = {n} THEN NoRequest
                ELSE [floor EXCEPT !.names = @ \ {n}]
    /\ UNCHANGED <<connected, there>>

\* A session whose request is not being served leaves; the step may already
\* give back one of its locks.
Leave(s) ==
    /\ s \in connected
    /\ floor.by # s
    /\ connected' = connected \ {s}
    /\ \/ UNCHANGED holder
       \/ \E n \in Locks : /\ holder[n] = s
                           /\ holder' = [holder EXCEPT ![n] = Nobody]
    /\ UNCHANGED <<there, floor>>

CleanUp(n) ==
    /\ holder[n] \in Clients \ connected
    /\ holder' = [holder EXCEPT ![n] = Nobody]
    /\ UNCHANGED <<connected, there, floor>>

Add(n) ==
    /\ floor = NoRequest
    /\ n \notin there
    /\ there' = there \cup {n}
    /\ UNCHANGED <<holder, connected, floor>>

Remove(n) ==
    /\ floor = NoRequest
    /\ n \in there
    /\ there' = there \ {n}
    /\ holder' = [holder EXCEPT ![n] = Nobody]
    /\ UNCHANGED <<connected, floor>>

Next ==
    \/ \E s \in Clients :
          \/ Leave(s)
          \/ \E N \in SUBSET Locks : Ask("lock", s, N) \/ Ask("unlock", s, N)
    \/ Grant \/ Refuse
    \/ \E n \in Locks : GiveBack(n) \/ CleanUp(n) \/ Add(n) \/ Remove(n)

Spec == Init /\ [][Next]_table
=============================================================================
