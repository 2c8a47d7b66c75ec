------------------------------- MODULE KVStore -------------------------------
(***************************************************************************)
(* The key-value half of testcore/store.py: client keys, and the session   *)
(* that holds a key read-only (KSET ... RO).                               *)
(***************************************************************************)
EXTENDS Clients

CONSTANTS
    Reserved,   \* keys that start with one of RESERVED_PREFIXES
    Values,
    NoValue     \* the key is not in _data

ASSUME KeyAssumption == Reserved \subseteq Keys
ASSUME ValueAssumption == NoValue \notin Values

VARIABLES data, owners

kvVars == <<data, owners>>

KVTypeOK ==
    /\ data \in [Keys -> Values \cup {NoValue}]
    /\ owners \in [Keys -> Sessions \cup {NoSession}]

KVInit ==
    /\ data = [k \in Keys |-> NoValue]
    /\ owners = [k \in Keys |-> NoSession]

\* Mutated form of Refused: only the reserved prefixes are looked at.
RefusedIfReserved(k, s) == k \in Reserved

\* _is_reserved and _check_owner: session s may not touch k.
Refused(k, s) == k \in Reserved \/ owners[k] \notin {s, NoSession}

\* KeyValueStore.set, once its conditions hold: RO takes the key for s, a plain
\* write by the holder gives it back.
Set(k, v, ro, s) ==
    /\ data' = [data EXCEPT ![k] = v]
    /\ owners' = [owners EXCEPT ![k] = CASE ro -> s
                                         [] ~ro /\ @ = s -> NoSession
                                         [] OTHER -> @]

\* KeyValueStore.mset of the pairs v, all of them checked before.
MSet(v) ==
    /\ data' = [k \in Keys |-> IF k \in DOMAIN v THEN v[k] ELSE data[k]]
    /\ UNCHANGED owners

\* Mutated form of Drop: the owner stays.
DropData(K) ==
    /\ data' = [k \in Keys |-> IF k \in K THEN NoValue ELSE data[k]]
    /\ UNCHANGED owners

\* Keys and their ownership go together (delete and flushdb).
Drop(K) ==
    /\ data' = [k \in Keys |-> IF k \in K THEN NoValue ELSE data[k]]
    /\ owners' = [k \in Keys |-> IF k \in K THEN NoSession ELSE owners[k]]

\* KeyValueStore.flushdb: all but reserved keys and those others hold.
FlushDB(s) == Drop({k \in Keys : data[k] # NoValue /\ ~Refused(k, s)})

\* Mutated form of ReleaseOwner: nothing is released.
ReleaseNothing(s) == UNCHANGED kvVars

\* KeyValueStore.release_owner.
ReleaseOwner(s) ==
    /\ owners' = [k \in Keys |-> IF owners[k] = s THEN NoSession ELSE owners[k]]
    /\ UNCHANGED data
=============================================================================
