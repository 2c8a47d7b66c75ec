------------------------------- MODULE Clients -------------------------------
(* What the key-value store, the event bus and the server have in common.  *)
CONSTANTS
    Sessions,   \* session ids, one per connection, never used twice
    NoSession,
    Keys        \* the keys that clients name, in KV commands and in filters

ASSUME SessionAssumption == NoSession \notin Sessions
=============================================================================
