------------------------------ MODULE EventBus -------------------------------
(***************************************************************************)
(* testcore/events.py and TestCoreServer.broadcast_monitors: who listens   *)
(* to what, and publications in progress.                                  *)
(*                                                                         *)
(* A publication iterates over a Python set of listeners and awaits the    *)
(* drain of every write, so others run between two writes.  Python raises  *)
(* RuntimeError at the iteration's next step when the set has changed its  *)
(* size meanwhile.  (What becomes of a listener that replaces another one  *)
(* under the iterator, the size unchanged, is left to Python: such a       *)
(* listener is not visited here.)                                          *)
(***************************************************************************)
EXTENDS Clients, Naturals, FiniteSets

CONSTANTS
    AnyKey,     \* a channel without suffix; an event without filter_key
    NoListener

VALID_CHANNELS == {"watch", "instrument", "lock", "session", "kv", "meas"}

\* The monitors of the server are kept like the subscribers of a channel.
Lists == VALID_CHANNELS \cup {"monitors"}
Listener == Sessions \X (Keys \cup {AnyKey})

VARIABLES
    listeners,  \* EventBus._subscriptions, and TestCoreServer.monitors
    pub         \* per session: the publication its handler is suspended in,
                \* the listener cur being written to, todo still to come

NoPub == [list |-> "none", size |-> 0, cur |-> NoListener, todo |-> {}, dead |-> {}]

BusTypeOK ==
    /\ listeners \in [Lists -> SUBSET Listener]
    /\ pub \in [Sessions -> [list : Lists \cup {"none"}, size : Nat,
                             cur : Listener \cup {NoListener},
                             todo : SUBSET Listener, dead : SUBSET Listener]]

BusInit ==
    /\ listeners = [c \in Lists |-> {}]
    /\ pub = [s \in Sessions |-> NoPub]

\* A subscription with a suffix gets the events of that key, and those that
\* carry no key.
Matches(l, key) == l[2] = AnyKey \/ key = AnyKey \/ l[2] = key

Audience(ls, c, key) == {l \in ls[c] : Matches(l, key)}

\* s has begun to publish an event with this key on list c, the lists being
\* ls: the first write is out, its drain awaited.
Started(s, ls, c, key) ==
    \E l \in Audience(ls, c, key) :
        pub' = [pub EXCEPT ![s] =
                   [list |-> c, size |-> Cardinality(ls[c]), cur |-> l,
                    todo |-> Audience(ls, c, key) \ {l}, dead |-> {}]]

\* Does an event have anybody to go to?  Otherwise publish() does not suspend.
Heard(ls, c, key) == Audience(ls, c, key) # {}

Publishing(s) == pub[s] # NoPub
Changed(s) == Cardinality(listeners[pub[s].list]) # pub[s].size
ToVisit(s) == pub[s].todo \cap listeners[pub[s].list]

\* What dead may be once the write to cur is over: it may raise when the
\* connection of that listener is lost.
Deaths(s, lost) ==
    {pub[s].dead} \cup {pub[s].dead \cup {l} : l \in {pub[s].cur} \cap (lost \X (Keys \cup {AnyKey}))}

\* The write to cur is over, the next one begins.
Visit(s, lost) ==
    /\ Publishing(s) /\ ~Changed(s)
    /\ \E l \in ToVisit(s) : \E d \in Deaths(s, lost) :
          pub' = [pub EXCEPT ![s] =
                     [list |-> pub[s].list, size |-> pub[s].size, cur |-> l,
                      todo |-> pub[s].todo \ {l}, dead |-> d]]
    /\ UNCHANGED listeners

\* The last write is over: the lists without the dead.
AfterPublish(s, lost) ==
    {[listeners EXCEPT ![pub[s].list] = @ \ d] : d \in Deaths(s, lost)}

Returns(s) == Publishing(s) /\ ~Changed(s) /\ ToVisit(s) = {}

\* The set changed its size: RuntimeError.
Raises(s) == Publishing(s) /\ Changed(s)

\* The lists when a publication whose exceptions are caught is over.
Ended(s, lost) ==
    IF Raises(s) THEN {listeners} ELSE IF Returns(s) THEN AfterPublish(s, lost) ELSE {}

\* Mutated form of WithoutListener: only the first channel is cleaned.
WithoutListenerOf(s, cs, ls) ==
    [c \in Lists |-> IF c = "kv" /\ c \in cs THEN {l \in ls[c] : l[1] # s}
                                             ELSE ls[c]]

\* unsubscribe_all(s), or monitors.discard(s): s leaves the lists cs of ls.
WithoutListener(s, cs, ls) ==
    [c \in Lists |-> IF c \in cs THEN {l \in ls[c] : l[1] # s}
                                 ELSE ls[c]]
=============================================================================
