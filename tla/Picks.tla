-------------------------------- MODULE Picks --------------------------------
(***************************************************************************)
(* Sequences of which only some elements stay: the waiters of an           *)
(* asyncio.Lock some of which are cancelled, the arguments of a command    *)
(* that concern one instrument.  Defined without recursion, so that it can *)
(* be reasoned about (PicksProofs).                                        *)
(***************************************************************************)
EXTENDS Naturals, Sequences, FiniteSets

\* The place of position i among the positions K.
Place(i, K) == Cardinality({k \in K : k <= i})

\* The elements of q at the positions K, in their order.
Picked(q, K) ==
    [j \in 1 .. Cardinality(K) |-> q[CHOOSE i \in K : Place(i, K) = j]]

\* q without the elements of gone.
Without(q, gone) == Picked(q, {i \in DOMAIN q : q[i] \notin gone})
=============================================================================
