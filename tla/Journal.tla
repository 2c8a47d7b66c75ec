------------------------------- MODULE Journal -------------------------------
(***************************************************************************)
(* testcore/journal.py: the ring buffer of executed commands, and the      *)
(* windows that the JOURNAL command returns.  Of an entry the model keeps  *)
(* the session and the status.                                             *)
(***************************************************************************)
EXTENDS Naturals, Sequences

CONSTANT JournalSize

ASSUME SizeAssumption == JournalSize \in Nat

VARIABLE entries

JournalInit == entries = <<>>

\* Mutated form of Record: a list instead of a deque with maxlen.
RecordUnbounded(s, status) ==
    entries' = Append(entries, [sess |-> s, status |-> status])

\* Journal.record: the oldest entry makes room for the new one.
Record(s, status) ==
    LET all == Append(entries, [sess |-> s, status |-> status]) IN
    entries' = IF Len(all) > JournalSize THEN Tail(all) ELSE all

\* Journal.clear.
Clear == entries' = <<>>

\* Journal.tail(count): entries[-count:], and [-0:] is everything.
TailOf(count) ==
    IF count >= Len(entries) \/ count = 0
    THEN entries
    ELSE SubSeq(entries, Len(entries) - count + 1, Len(entries))

\* Mutated form of HeadOf: the 1-based position is taken as an offset.
HeadOfShifted(n, count) ==
    SubSeq(entries, n + 1, IF n + count < Len(entries) THEN n + count ELSE Len(entries))

\* JOURNAL +n count, n counting from 1 and +0 meaning +1: Journal.head.
HeadOf(n, count) ==
    LET offset == IF n = 0 THEN 0 ELSE n - 1 IN
    SubSeq(entries, offset + 1,
           IF offset + count < Len(entries) THEN offset + count ELSE Len(entries))
=============================================================================
