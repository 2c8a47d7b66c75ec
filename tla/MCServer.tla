------------------------------ MODULE MCServer -------------------------------
(* Instances of Server for TLC. *)
EXTENDS ServerClaims, TLC

kv == <<"kv", AnyKey>>
session == <<"session", AnyKey>>

KV == {kv}
KVFiltered == {<<"kv", k>> : k \in Keys}
NoChannels == {}
Session == {session}
AtClose == {session, <<"lock", AnyKey>>}

\* Sound without liveness.
Interchangeable == Permutations(Sessions) \cup Permutations(Values)
=============================================================================
