------------------------------ MODULE KeyTable -------------------------------
(***************************************************************************)
(* What the key-value store promises to its clients, whatever the commands *)
(* and however their handlers end: a session that is there changes keys,   *)
(* one or several at once, all of them free or held by itself; a key that  *)
(* it holds is stored; and the step in which it leaves gives back all its  *)
(* keys, with the values they have, and only those.  A key never passes    *)
(* from one holder to the next without being free, and who has left does   *)
(* not come back.                                                          *)
(***************************************************************************)
CONSTANTS Keys, Writable, Values, Clients, Nobody, Absent

VARIABLES value, holder, stage

Init ==
    /\ value = [k \in Keys |-> Absent]
    /\ holder = [k \in Keys |-> Nobody]
    /\ stage = [s \in Clients |-> "new"]

Join(s) ==
    /\ stage[s] = "new"
    /\ stage' = [stage EXCEPT ![s] = "there"]
    /\ UNCHANGED <<value, holder>>

\* A command of s that changes the keys K.
Change(s, K) ==
    /\ stage[s] = "there"
    /\ \A k \in K : /\ holder[k] \in {Nobody, s}
                    /\ holder'[k] \in {Nobody, s}
                    /\ value'[k] = Absent => holder'[k] = Nobody
    /\ value' \in [Keys -> Values \cup {Absent}] /\ holder' \in [Keys -> Clients \cup {Nobody}]
    /\ \A k \in Keys \ K : value'[k] = value[k] /\ holder'[k] = holder[k]
    /\ UNCHANGED stage

Leave(s) ==
    /\ stage[s] = "there"
    /\ stage' = [stage EXCEPT ![s] = "left"]
    /\ holder' = [k \in Keys |-> IF holder[k] = s THEN Nobody ELSE holder[k]]
    /\ UNCHANGED value

Next ==
    \E s \in Clients : Join(s) \/ Leave(s) \/ \E K \in SUBSET Writable : Change(s, K)

Spec == Init /\ [][Next]_<<value, holder, stage>>
=============================================================================
