----------------------------- MODULE MCShutdown ------------------------------
(* Instance of Shutdown for TLC: the channels that handlers publish on here. *)
EXTENDS Shutdown

Published == {<<c, AnyKey>> : c \in {"lock", "kv"}}
=============================================================================
