---------------------------- MODULE ServerProofs -----------------------------
(***************************************************************************)
(* Proofs about Server, for every set of sessions, keys, values, channels  *)
(* and commands, every journal size and every limit of clients.            *)
(***************************************************************************)
EXTENDS Server, FiniteSetTheorems, SequenceTheorems, TLAPS

\* Only finitely many listeners are in a list: a command names finitely many
\* channels.
FiniteLists == \A b \in Lists : IsFiniteSet(listeners[b])

\* The handlers that wait for the dispatch lock or hold it.
InLine(s) == pc[s] \in {"queued", "monitor", "run"}

\* Which list the publication of a handler is on.
ListOf(l) == CASE l \in {"greet", "bye"} -> "session"
               [] l = "drop" -> "lock"
               [] l = "run" -> "kv"
               [] l = "cast" -> "monitors"
               [] OTHER -> "none"

\* The queue of the dispatch lock holds the handlers in line once each, and its
\* head is the one that publishes under the lock.
LineUp ==
    /\ \A s \in Sessions : InLine(s) <=> \E i \in 1 .. Len(dispatchq) : dispatchq[i] = s
    /\ \A i, j \in 1 .. Len(dispatchq) : dispatchq[i] = dispatchq[j] => i = j
    /\ \A s \in Sessions : pc[s] = "run" => dispatchq[1] = s

PubLists == \A s \in Sessions : pub[s].list = ListOf(pc[s])

\* cut[s] is where the close() of s was cut short, or "no".  A session leaves the
\* channels in close(), unless that was cut short before it came to this, and
\* the monitors at its end.
Unlisted(cut) ==
    \A s \in Sessions :
        /\ pc[s] \in {"new", "gone"} \/ (pc[s] = "closed" /\ cut[s] \notin {"drop", "bye"}) =>
              \A b \in VALID_CHANNELS : \A l \in listeners[b] : l[1] # s
        /\ pc[s] \in {"new", "closed"} => \A l \in listeners["monitors"] : l[1] # s

\* RoLease up to the sessions whose close() was cut short at an instrument.
Leases(cut) ==
    \A k \in Keys :
        owners[k] # NoSession =>
            /\ data[k] # NoValue
            /\ pc[owners[k]] \in {"new", "bye", "gone", "closed"} =>
                  pc[owners[k]] = "closed" /\ cut[owners[k]] = "drop"

NoCut == [s \in Sessions |-> "no"]

\* A handler whose command waits for the lock has left the monitor mode, or has
\* asked for it out of no mode.
ModesSettled ==
    \A s \in Sessions :
        /\ pc[s] \in {"queued", "run"} => ~monitoring[s]
        /\ pc[s] \in {"monitor", "reply"} => ~subscribing[s]

\* The inductive invariant.  In Server itself no close() is cut short; stop()
\* does that (ShutdownProofs).
IInv(cut) ==
    /\ TypeOK
    /\ FiniteLists
    /\ LineUp
    /\ PubLists
    /\ Unlisted(cut)
    /\ ModesSettled
    /\ ModesExclusive
    /\ Leases(cut)

-----------------------------------------------------------------------------
(* The line for the dispatch lock *)

\* A handler whose command arrives joins the line.
LEMMA JoinsLine ==
  ASSUME LineUp, dispatchq \in Seq(Sessions), pc \in [Sessions -> Pcs],
         NEW s \in Sessions, ~InLine(s), NEW l \in {"queued", "monitor"},
         Goto(s, l), dispatchq' = Append(dispatchq, s)
  PROVE  LineUp' /\ dispatchq' \in Seq(Sessions)
  <1>. DEFINE n == Len(dispatchq)
  <1>1. /\ n \in Nat /\ dispatchq' \in Seq(Sessions) /\ Len(dispatchq') = n + 1
        /\ \A i \in 1 .. n : dispatchq'[i] = dispatchq[i]
        /\ dispatchq'[n + 1] = s
    BY AppendProperties, LenProperties
  <1>2. \A i \in 1 .. n : dispatchq[i] # s
    BY DEF LineUp
  <1>3. \A t \in Sessions : InLine(t)' <=> (InLine(t) \/ t = s)
    BY DEF InLine, Goto
  <1>4. \A t \in Sessions : InLine(t)' <=> \E i \in 1 .. n + 1 : dispatchq'[i] = t
    <2>. TAKE t \in Sessions
    <2>1. (\E i \in 1 .. n + 1 : dispatchq'[i] = t)
            <=> (t = s \/ \E i \in 1 .. n : dispatchq[i] = t)
      BY <1>1
    <2>. QED
      BY <1>3, <2>1 DEF LineUp
  <1>5. \A i, j \in 1 .. n + 1 : dispatchq'[i] = dispatchq'[j] => i = j
    BY <1>1, <1>2 DEF LineUp
  <1>6. ASSUME NEW t \in Sessions, pc'[t] = "run" PROVE dispatchq'[1] = t
    <2>1. pc[t] = "run"
      BY <1>6 DEF Goto
    <2>2. n >= 1
      BY <1>1, <2>1 DEF LineUp, InLine
    <2>. QED
      BY <1>1, <2>1, <2>2 DEF LineUp
  <1>. QED
    BY <1>1, <1>4, <1>5, <1>6 DEF LineUp

\* The handler at the head leaves the line.
LEMMA LeavesLine ==
  ASSUME LineUp, dispatchq \in Seq(Sessions), pc \in [Sessions -> Pcs],
         NEW s \in Sessions, InLine(s), Head(dispatchq) = s,
         NEW l \in Pcs \ {"queued", "monitor", "run"},
         Goto(s, l), dispatchq' = Tail(dispatchq)
  PROVE  LineUp' /\ dispatchq' \in Seq(Sessions)
  <1>. DEFINE n == Len(dispatchq)
  <1>0. dispatchq # <<>> /\ n \in Nat /\ n >= 1
    BY LenProperties DEF LineUp
  <1>1. /\ dispatchq' \in Seq(Sessions) /\ Len(dispatchq') = n - 1
        /\ \A i \in 1 .. n - 1 : dispatchq'[i] = dispatchq[i + 1]
        /\ dispatchq[1] = s
    BY <1>0, HeadTailProperties
  <1>2. \A i \in 2 .. n : dispatchq[i] # s
    BY <1>0, <1>1 DEF LineUp
  <1>3. \A t \in Sessions : InLine(t)' <=> (InLine(t) /\ t # s)
    BY DEF InLine, Goto
  <1>4. \A t \in Sessions : InLine(t)' <=> \E i \in 1 .. n - 1 : dispatchq'[i] = t
    <2>. TAKE t \in Sessions
    <2>1. ASSUME InLine(t), t # s PROVE \E i \in 1 .. n - 1 : dispatchq'[i] = t
      <3>1. PICK i \in 1 .. n : dispatchq[i] = t
        BY <2>1 DEF LineUp
      <3>2. i # 1
        BY <2>1, <3>1, <1>1
      <3>3. i - 1 \in 1 .. n - 1 /\ dispatchq'[i - 1] = t
        BY <1>0, <1>1, <3>1, <3>2
      <3>. QED
        BY <3>3
    <2>2. ASSUME NEW i \in 1 .. n - 1, dispatchq'[i] = t PROVE InLine(t) /\ t # s
      <3>1. i + 1 \in 2 .. n /\ dispatchq[i + 1] = t
        BY <1>0, <1>1, <2>2
      <3>. QED
        BY <1>0, <1>2, <3>1 DEF LineUp
    <2>. QED
      BY <1>3, <2>1, <2>2
  <1>5. \A i, j \in 1 .. n - 1 : dispatchq'[i] = dispatchq'[j] => i = j
    <2>. TAKE i, j \in 1 .. n - 1
    <2>1. i + 1 \in 1 .. n /\ j + 1 \in 1 .. n
      BY <1>0
    <2>. QED
      BY <1>1, <2>1 DEF LineUp
  <1>6. \A t \in Sessions : pc'[t] # "run"
    BY <1>1 DEF LineUp, Goto
  <1>. QED
    BY <1>1, <1>4, <1>5, <1>6 DEF LineUp

\* A step that leaves the queue alone and the handler in line, or out of it.
LEMMA KeepsLine ==
  ASSUME LineUp, pc \in [Sessions -> Pcs], NEW s \in Sessions, NEW l \in Pcs,
         Goto(s, l), UNCHANGED dispatchq,
         InLine(s) <=> l \in {"queued", "monitor", "run"},
         l = "run" => dispatchq[1] = s
  PROVE  LineUp'
  <1>1. \A t \in Sessions : InLine(t)' <=> InLine(t)
    BY DEF InLine, Goto
  <1>2. \A t \in Sessions : pc'[t] = "run" => dispatchq'[1] = t
    BY DEF Goto, LineUp
  <1>. QED
    BY <1>1, <1>2 DEF LineUp

-----------------------------------------------------------------------------
(* Publications *)

PubType == [list : Lists \cup {"none"}, size : Nat, cur : Listener \cup {NoListener},
            todo : SUBSET Listener, dead : SUBSET Listener]

\* A publication that begins, or that nobody hears, the lists being ls.
LEMMA PublishOn ==
  ASSUME BusTypeOK, PubLists, pc \in [Sessions -> Pcs],
         NEW ls \in [Lists -> SUBSET Listener],
         NEW s \in Sessions, NEW c \in Lists, NEW key, NEW l \in Pcs, NEW after \in Pcs,
         IsFiniteSet(ls[c]),
         ListOf(l) = c, ListOf(after) = "none", Publish(s, ls, c, key, l, after)
  PROVE  /\ pub' \in [Sessions -> PubType]
         /\ PubLists'
         /\ \/ Goto(s, l) /\ Heard(ls, c, key)
            \/ Goto(s, after) /\ ~Heard(ls, c, key)
  <1>1. CASE Heard(ls, c, key)
    <2>1. PICK x \in Audience(ls, c, key) :
             pub' = [pub EXCEPT ![s] =
                       [list |-> c, size |-> Cardinality(ls[c]), cur |-> x,
                        todo |-> Audience(ls, c, key) \ {x}, dead |-> {}]]
      BY <1>1 DEF Publish, Started
    <2>2. Goto(s, l)
      BY <1>1 DEF Publish
    <2>3. Cardinality(ls[c]) \in Nat
      BY FS_CardinalityType
    <2>4. Audience(ls, c, key) \subseteq Listener
      BY DEF Audience
    <2>5. pub' \in [Sessions -> PubType]
      BY <2>1, <2>3, <2>4 DEF BusTypeOK, PubType
    <2>6. PubLists'
      BY <2>1, <2>2 DEF PubLists, Goto, BusTypeOK
    <2>. QED
      BY <1>1, <2>2, <2>5, <2>6
  <1>2. CASE ~Heard(ls, c, key)
    <2>1. Goto(s, after) /\ pub' = [pub EXCEPT ![s] = NoPub]
      BY <1>2 DEF Publish
    <2>2. pub' \in [Sessions -> PubType]
      BY <2>1 DEF BusTypeOK, PubType, NoPub
    <2>3. PubLists'
      BY <2>1 DEF PubLists, Goto, BusTypeOK, NoPub
    <2>. QED
      BY <1>2, <2>1, <2>2, <2>3
  <1>. QED
    BY <1>1, <1>2

\* The same with the lists as they are.
LEMMA PublishEffect ==
  ASSUME BusTypeOK, FiniteLists, PubLists, pc \in [Sessions -> Pcs],
         NEW s \in Sessions, NEW c \in Lists, NEW key, NEW l \in Pcs, NEW after \in Pcs,
         ListOf(l) = c, ListOf(after) = "none", Publish(s, listeners, c, key, l, after)
  PROVE  /\ pub' \in [Sessions -> PubType]
         /\ PubLists'
         /\ Goto(s, l) \/ Goto(s, after)
  BY PublishOn DEF BusTypeOK, FiniteLists

\* A handler that no longer publishes.
LEMMA UnpublishEffect ==
  ASSUME BusTypeOK, PubLists, pc \in [Sessions -> Pcs],
         NEW s \in Sessions, NEW l \in Pcs, ListOf(l) = "none",
         Goto(s, l), pub' = [pub EXCEPT ![s] = NoPub]
  PROVE  pub' \in [Sessions -> PubType] /\ PubLists'
  <1>1. pub' \in [Sessions -> PubType]
    BY DEF BusTypeOK, PubType, NoPub
  <1>2. PubLists'
    BY DEF PubLists, Goto, BusTypeOK, NoPub
  <1>. QED
    BY <1>1, <1>2

\* A list that loses listeners stays a finite list of listeners.
LEMMA FewerListeners ==
  ASSUME BusTypeOK, FiniteLists, listeners' \in [Lists -> SUBSET Listener],
         \A b \in Lists : listeners'[b] \subseteq listeners[b]
  PROVE  FiniteLists'
  BY FS_Subset DEF FiniteLists

\* The end of a publication only removes listeners.
LEMMA AfterPublishRemoves ==
  ASSUME BusTypeOK, NEW s \in Sessions, NEW lost, NEW ls \in AfterPublish(s, lost)
  PROVE  /\ ls \in [Lists -> SUBSET Listener]
         /\ \A b \in Lists : ls[b] \subseteq listeners[b]
  BY DEF AfterPublish, BusTypeOK

\* Also one whose exceptions are caught.
LEMMA EndedRemoves ==
  ASSUME BusTypeOK, NEW s \in Sessions, NEW lost, NEW ls \in Ended(s, lost)
  PROVE  /\ ls \in [Lists -> SUBSET Listener]
         /\ \A b \in Lists : ls[b] \subseteq listeners[b]
  BY AfterPublishRemoves DEF Ended, BusTypeOK

\* So does a session that leaves lists.
LEMMA WithoutListenerRemoves ==
  ASSUME NEW ls \in [Lists -> SUBSET Listener], NEW s, NEW cs
  PROVE  /\ WithoutListener(s, cs, ls) \in [Lists -> SUBSET Listener]
         /\ \A b \in Lists : WithoutListener(s, cs, ls)[b] \subseteq ls[b]
         /\ \A b \in Lists \cap cs : \A x \in WithoutListener(s, cs, ls)[b] : x[1] # s
  BY DEF WithoutListener

-----------------------------------------------------------------------------
(* The journal *)

EntriesOK ==
    /\ entries \in Seq([sess : Sessions, status : {"ok", "error"}])
    /\ Len(entries) <= JournalSize

\* The ring buffer stays within its size, and its last entry is the new one.
LEMMA RecordEffect ==
  ASSUME EntriesOK, NEW s \in Sessions, NEW status \in {"ok", "error"}, Record(s, status)
  PROVE  /\ EntriesOK'
         /\ JournalSize > 0 => entries'[Len(entries')] = [sess |-> s, status |-> status]
  <1>. DEFINE T == [sess : Sessions, status : {"ok", "error"}]
              e == [sess |-> s, status |-> status]
              all == Append(entries, e)
  <1>1. e \in T /\ entries \in Seq(T) /\ Len(entries) \in Nat /\ JournalSize \in Nat
    BY SizeAssumption DEF EntriesOK
  <1>2. /\ all \in Seq(T) /\ all # <<>> /\ Len(all) = Len(entries) + 1
        /\ all[Len(entries) + 1] = e
    BY <1>1, AppendProperties
  <1>3. /\ Tail(all) \in Seq(T) /\ Len(Tail(all)) = Len(all) - 1
        /\ \A i \in 1 .. Len(Tail(all)) : Tail(all)[i] = all[i + 1]
    <2>. HIDE DEF all, T
    <2>. QED
      BY <1>2, HeadTailProperties
  <1>4. entries' = IF Len(all) > JournalSize THEN Tail(all) ELSE all
    BY DEF Record
  <1>. HIDE DEF all, e
  <1>5. CASE Len(all) > JournalSize
    <2>1. entries' = Tail(all) /\ Len(all) = JournalSize + 1
      BY <1>1, <1>2, <1>4, <1>5 DEF EntriesOK
    <2>2. JournalSize > 0 => Tail(all)[JournalSize] = all[JournalSize + 1]
      BY <1>1, <1>3, <2>1
    <2>. QED
      BY <1>1, <1>2, <1>3, <2>1, <2>2 DEF EntriesOK, e
  <1>6. CASE ~(Len(all) > JournalSize)
    BY <1>1, <1>2, <1>4, <1>6 DEF EntriesOK, e
  <1>. QED
    BY <1>5, <1>6

-----------------------------------------------------------------------------
(* What the steps of a handler have in common *)

\* The state of the handler s changes to l, the lists at most lose listeners.
LEMMA QuietMove ==
  ASSUME NEW cut, IInv(cut), NEW s \in Sessions, NEW l \in Pcs \ {"new", "gone", "closed"}, Goto(s, l),
         UNCHANGED modeVars,
         listeners' \in [Lists -> SUBSET Listener],
         \A b \in Lists : listeners'[b] \subseteq listeners[b],
         l \in {"queued", "run"} => ~monitoring[s],
         l \in {"monitor", "reply"} => ~subscribing[s]
  PROVE  FiniteLists' /\ Unlisted(cut)' /\ ModesSettled' /\ ModesExclusive'
  <1>. USE DEF IInv, TypeOK, Goto, modeVars
  <1>1. FiniteLists'
    BY FewerListeners
  <1>2. Unlisted(cut)'
    BY DEF Unlisted, Lists
  <1>3. ModesSettled'
    BY DEF ModesSettled
  <1>4. ModesExclusive'
    BY DEF ModesExclusive, Lists
  <1>. QED
    BY <1>1, <1>2, <1>3, <1>4

\* The store is left alone, and the handler does not begin to close.
LEMMA LeaseKept ==
  ASSUME NEW cut, IInv(cut), NEW s \in Sessions, NEW l \in Pcs \ {"new", "bye", "gone", "closed"},
         Goto(s, l), UNCHANGED kvVars
  PROVE  KVTypeOK' /\ Leases(cut)'
  BY DEF IInv, TypeOK, KVTypeOK, Leases, Goto, kvVars

\* A command changes the store at most for its own session, and every key held
\* read-only exists.
LeaseRule(s) ==
    \A k \in Keys :
        owners'[k] # NoSession => data'[k] # NoValue /\ owners'[k] \in {owners[k], s}

\* So the leases stay right.
LEMMA LeaseChanged ==
  ASSUME NEW cut, IInv(cut), NEW s \in Sessions, NEW l \in Pcs \ {"new", "bye", "gone", "closed"},
         pc[s] \notin {"new", "bye", "gone", "closed"},
         Goto(s, l), KVTypeOK', LeaseRule(s)
  PROVE  Leases(cut)'
  BY DEF IInv, TypeOK, KVTypeOK, Leases, Goto, LeaseRule

\* The end of a command: the dispatch lock passes on.
LEMMA RespondEffect ==
  ASSUME NEW cut, IInv(cut), NEW s \in Sessions, pc[s] \in {"queued", "run"}, Head(dispatchq) = s,
         Respond(s)
  PROVE  /\ LineUp' /\ PubLists'
         /\ dispatchq' \in Seq(Sessions)
         /\ pub' \in [Sessions -> PubType]
         /\ Goto(s, "cast") \/ Goto(s, "idle")
  <1>1. /\ pub' \in [Sessions -> PubType] /\ PubLists'
        /\ Goto(s, "cast") \/ Goto(s, "idle")
    <2>1. ListOf("cast") = "monitors" /\ ListOf("idle") = "none" /\ "monitors" \in Lists
      BY DEF ListOf, Lists
    <2>. QED
      BY <2>1, PublishEffect DEF Respond, IInv, TypeOK, Pcs
  <1>2. LineUp' /\ dispatchq' \in Seq(Sessions)
    BY <1>1, LeavesLine DEF IInv, TypeOK, InLine, Pcs, Respond
  <1>. QED
    BY <1>1, <1>2

\* A command that leaves lists and modes alone, but perhaps for listeners that
\* are dead.
LEMMA RespondStep ==
  ASSUME NEW cut, IInv(cut), NEW s \in Sessions, pc[s] \in {"queued", "run"}, Head(dispatchq) = s,
         Respond(s), EntriesOK', KVTypeOK', LeaseRule(s), UNCHANGED <<alive, modeVars>>,
         listeners' \in [Lists -> SUBSET Listener],
         \A b \in Lists : listeners'[b] \subseteq listeners[b]
  PROVE  IInv(cut)'
  <1>1. PICK l \in {"cast", "idle"} : Goto(s, l)
    BY RespondEffect
  <1>2. l \in Pcs \ {"new", "gone", "closed", "bye", "queued", "run", "monitor", "reply"}
    BY DEF Pcs
  <1>3. FiniteLists' /\ Unlisted(cut)' /\ ModesSettled' /\ ModesExclusive'
    BY <1>1, <1>2, QuietMove
  <1>4. Leases(cut)'
    BY <1>1, <1>2, LeaseChanged
  <1>5. LineUp' /\ PubLists'
    BY RespondEffect
  <1>6. TypeOK'
    <2>1. pc' \in [Sessions -> Pcs]
      BY <1>1, <1>2 DEF IInv, TypeOK, Goto
    <2>2. BusTypeOK'
      BY RespondEffect DEF BusTypeOK, PubType
    <2>3. dispatchq' \in Seq(Sessions)
      BY RespondEffect
    <2>. QED
      BY <2>1, <2>2, <2>3 DEF IInv, TypeOK, EntriesOK, modeVars
  <1>. QED
    BY <1>3, <1>4, <1>5, <1>6 DEF IInv

\* close() tells of an instrument it has unlocked.
LEMMA UnlockStep ==
  ASSUME NEW cut, IInv(cut), NEW s \in Sessions,
         NEW ls \in [Lists -> SUBSET Listener], \A b \in Lists : ls[b] \subseteq listeners[b],
         Unlock(s, ls), LineUp', dispatchq' \in Seq(Sessions)
  PROVE  IInv(cut)'
  <1>. USE DEF Unlock
  <1>0. BusTypeOK /\ pc \in [Sessions -> Pcs] /\ "drop" \in Pcs /\ "gone" \in Pcs
    BY DEF IInv, TypeOK, Pcs
  <1>1. pub' \in [Sessions -> PubType] /\ PubLists'
    <2>1. ListOf("drop") = "lock" /\ ListOf("gone") = "none" /\ "lock" \in Lists
      BY DEF ListOf, Lists, VALID_CHANNELS
    <2>2. Publish(s, ls, "lock", AnyKey, "drop", "gone")
      BY DEF Publish
    <2>3. IsFiniteSet(ls["lock"])
      BY <2>1, FS_Subset DEF IInv, FiniteLists
    <2>. QED
      BY <1>0, <2>1, <2>2, <2>3, PublishOn DEF IInv
  <1>2. FiniteLists' /\ Unlisted(cut)' /\ ModesSettled' /\ ModesExclusive'
    BY <1>0, QuietMove
  <1>3. KVTypeOK' /\ Leases(cut)'
    BY <1>0, LeaseKept
  <1>4. TypeOK'
    BY <1>0, <1>1, <1>3 DEF IInv, TypeOK, BusTypeOK, PubType, Goto, modeVars
  <1>. QED
    BY <1>1, <1>2, <1>3, <1>4 DEF IInv

\* close() behind its loop, up to its last publication.
LEMMA DepartStep ==
  ASSUME NEW cut, IInv(cut), NEW s \in Sessions,
         NEW ls \in [Lists -> SUBSET Listener], \A b \in Lists : ls[b] \subseteq listeners[b],
         Depart(s, ls), LineUp', dispatchq' \in Seq(Sessions)
  PROVE  IInv(cut)'
  <1>. USE DEF Depart
  <1>0. TypeOK /\ BusTypeOK /\ pc \in [Sessions -> Pcs]
    BY DEF IInv, TypeOK
  <1>1. /\ pub' \in [Sessions -> PubType] /\ PubLists'
        /\ \/ Goto(s, "bye") /\ Heard(ls, "session", AnyKey)
           \/ Goto(s, "gone") /\ ~Heard(ls, "session", AnyKey)
    <2>1. ListOf("bye") = "session" /\ ListOf("gone") = "none" /\ "session" \in Lists
      BY DEF ListOf, Lists, VALID_CHANNELS
    <2>2. IsFiniteSet(ls["session"])
      BY <2>1, FS_Subset DEF IInv, FiniteLists
    <2>. QED
      BY <1>0, <2>1, <2>2, PublishOn DEF IInv, Pcs
  <1>2. PICK l \in {"bye", "gone"} : Goto(s, l)
    BY <1>1
  <1>4. /\ listeners' \in [Lists -> SUBSET Listener]
        /\ \A b \in Lists : listeners'[b] \subseteq ls[b]
        /\ \A b \in Lists : listeners'[b] \subseteq listeners[b]
    BY WithoutListenerRemoves
  <1>5. KVTypeOK' /\ Leases(cut)'
    BY <1>0, <1>2, SessionAssumption
       DEF IInv, TypeOK, KVTypeOK, Leases, Goto, ReleaseOwner
  <1>6. TypeOK'
    BY <1>0, <1>1, <1>2, <1>4, <1>5
       DEF TypeOK, BusTypeOK, PubType, Goto, Pcs, modeVars
  <1>7. FiniteLists'
    BY <1>0, <1>4, FewerListeners DEF IInv
  <1>8. Unlisted(cut)'
    <2>1. CASE Goto(s, "bye")
      BY <1>0, <1>4, <2>1 DEF IInv, Unlisted, Goto, Lists
    <2>2. CASE Goto(s, "gone") /\ ~Heard(ls, "session", AnyKey)
      <3>1. \A b \in VALID_CHANNELS : \A x \in listeners'[b] : x[1] # s
        BY <2>2, WithoutListenerRemoves DEF Lists
      <3>. QED
        BY <1>0, <1>4, <2>2, <3>1 DEF IInv, Unlisted, Goto, Lists
    <2>. QED
      BY <1>1, <2>1, <2>2
  <1>9. ModesSettled' /\ ModesExclusive'
    BY <1>0, <1>2, <1>4 DEF IInv, ModesSettled, ModesExclusive, Goto, Lists, modeVars
  <1>. QED
    BY <1>1, <1>5, <1>6, <1>7, <1>8, <1>9 DEF IInv

\* Where these steps go.
LEMMA CloseGoes ==
  ASSUME NEW s, NEW ls, Unlock(s, ls) \/ Depart(s, ls)
  PROVE  \E l \in {"drop", "bye", "gone"} : Goto(s, l)
  BY DEF Unlock, Depart, Publish

\* close() up to its first await, once the handler is out of the line.
LEMMA BeginCloseStep ==
  ASSUME NEW cut, IInv(cut), NEW s \in Sessions, BeginClose(s),
         \A l \in {"drop", "bye", "gone"} : Goto(s, l) => LineUp' /\ dispatchq' \in Seq(Sessions)
  PROVE  IInv(cut)'
  <1>1. listeners \in [Lists -> SUBSET Listener]
    BY DEF IInv, TypeOK, BusTypeOK
  <1>2. LineUp' /\ dispatchq' \in Seq(Sessions)
    BY CloseGoes DEF BeginClose
  <1>. QED
    BY <1>1, <1>2, UnlockStep, DepartStep DEF BeginClose

\* The same out of a handler that is not in line.
LEMMA CloseStep ==
  ASSUME NEW cut, IInv(cut), NEW s \in Sessions,
         pc[s] \in {"idle", "greet", "cast", "reply"}, Close(s)
  PROVE  IInv(cut)'
  <1>1. ASSUME NEW l \in {"drop", "bye", "gone"}, Goto(s, l)
        PROVE  LineUp' /\ dispatchq' \in Seq(Sessions)
    BY <1>1, KeepsLine DEF IInv, TypeOK, InLine, Pcs, Close
  <1>. QED
    BY <1>1, BeginCloseStep DEF Close

\* close() goes on behind one of these publications.
LEMMA DropStep ==
  ASSUME NEW cut, IInv(cut), NEW s \in Sessions, DropGoesOn(s) \/ DropEnds(s)
  PROVE  IInv(cut)'
  <1>1. PICK ls \in Ended(s, Lost) : Unlock(s, ls) \/ Depart(s, ls)
    BY DEF DropGoesOn, DropEnds
  <1>2. pc[s] = "drop" /\ UNCHANGED dispatchq
    BY DEF DropGoesOn, DropEnds
  <1>3. LineUp' /\ dispatchq' \in Seq(Sessions)
    <2>1. PICK l \in {"drop", "bye", "gone"} : Goto(s, l)
      BY <1>1, CloseGoes
    <2>. QED
      BY <1>2, <2>1, KeepsLine DEF IInv, TypeOK, InLine, Pcs
  <1>4. /\ ls \in [Lists -> SUBSET Listener]
        /\ \A b \in Lists : ls[b] \subseteq listeners[b]
    BY EndedRemoves DEF IInv, TypeOK
  <1>. QED
    BY <1>1, <1>3, <1>4, UnlockStep, DepartStep

\* A handler outside the line goes back to reading; the end of its publication
\* may have removed listeners.
LEMMA BackToReading ==
  ASSUME NEW cut, IInv(cut), NEW s \in Sessions, pc[s] \in {"greet", "cast"}, Goto(s, "idle"),
         NEW lost, listeners' \in AfterPublish(s, lost),
         pub' = [pub EXCEPT ![s] = NoPub],
         UNCHANGED <<kvVars, entries, alive, modeVars, dispatchq>>
  PROVE  IInv(cut)'
  <1>0. BusTypeOK /\ pc \in [Sessions -> Pcs]
    BY DEF IInv, TypeOK
  <1>1. ListOf("idle") = "none" /\ "idle" \in Pcs
    BY DEF ListOf, Pcs
  <1>2. pub' \in [Sessions -> PubType] /\ PubLists'
    BY <1>0, <1>1, UnpublishEffect DEF IInv
  <1>3. LineUp'
    BY <1>0, <1>1, KeepsLine DEF IInv, InLine
  <1>4. /\ listeners' \in [Lists -> SUBSET Listener]
        /\ \A b \in Lists : listeners'[b] \subseteq listeners[b]
    BY <1>0, AfterPublishRemoves
  <1>5. FiniteLists' /\ Unlisted(cut)' /\ ModesSettled' /\ ModesExclusive'
    BY <1>1, <1>4, QuietMove
  <1>6. KVTypeOK' /\ Leases(cut)'
    BY <1>1, LeaseKept
  <1>7. TypeOK'
    BY <1>0, <1>1, <1>2, <1>4, <1>6 DEF IInv, TypeOK, BusTypeOK, PubType, Goto, modeVars
  <1>. QED
    BY <1>2, <1>3, <1>5, <1>6, <1>7 DEF IInv

-----------------------------------------------------------------------------
(* One lemma per action: it preserves the inductive invariant. *)

\* A connection is accepted.
LEMMA ConnectStep ==
  ASSUME NEW cut, IInv(cut), NEW s \in Sessions, Connect(s)
  PROVE  IInv(cut)'
  <1>. USE DEF Connect
  <1>0. BusTypeOK /\ pc \in [Sessions -> Pcs]
    BY DEF IInv, TypeOK
  <1>1. /\ pub' \in [Sessions -> PubType] /\ PubLists'
        /\ Goto(s, "greet") \/ Goto(s, "idle")
    <2>1. ListOf("greet") = "session" /\ ListOf("idle") = "none" /\ "session" \in Lists
      BY DEF ListOf, Lists, VALID_CHANNELS
    <2>. QED
      BY <1>0, <2>1, PublishEffect DEF IInv, Pcs
  <1>2. PICK l \in {"greet", "idle"} : Goto(s, l)
    BY <1>1
  <1>3. l \in Pcs \ {"new", "bye", "gone", "closed", "queued", "run", "monitor", "reply"}
    BY DEF Pcs
  <1>4. LineUp'
    BY <1>0, <1>2, <1>3, KeepsLine DEF IInv, InLine
  <1>5. FiniteLists' /\ Unlisted(cut)' /\ ModesSettled' /\ ModesExclusive'
    BY <1>0, <1>2, <1>3, QuietMove DEF BusTypeOK
  <1>6. KVTypeOK' /\ Leases(cut)'
    BY <1>2, <1>3, LeaseKept
  <1>7. TypeOK'
    BY <1>0, <1>1, <1>2, <1>3, <1>6 DEF IInv, TypeOK, BusTypeOK, PubType, Goto, modeVars
  <1>. QED
    BY <1>1, <1>4, <1>5, <1>6, <1>7 DEF IInv

\* A client goes away.
LEMMA HangupStep ==
  ASSUME NEW cut, IInv(cut), NEW s \in Sessions, Hangup(s)
  PROVE  IInv(cut)'
  <1>. USE DEF Hangup, IInv, kvVars, busVars, modeVars
  <1>1. TypeOK'
    BY DEF TypeOK, KVTypeOK, BusTypeOK
  <1>2. LineUp' /\ PubLists'
    BY DEF LineUp, InLine, PubLists
  <1>3. FiniteLists' /\ Unlisted(cut)' /\ ModesSettled' /\ ModesExclusive' /\ Leases(cut)'
    BY DEF FiniteLists, Unlisted, ModesSettled, ModesExclusive, Leases
  <1>. QED
    BY <1>1, <1>2, <1>3

\* The disconnect event is out, or has raised.
LEMMA ByeEndsStep ==
  ASSUME NEW cut, IInv(cut), NEW s \in Sessions, ByeEnds(s)
  PROVE  IInv(cut)'
  <1>. USE DEF ByeEnds
  <1>0. BusTypeOK /\ pc \in [Sessions -> Pcs]
    BY DEF IInv, TypeOK
  <1>1. ListOf("gone") = "none" /\ "gone" \in Pcs
    BY DEF ListOf, Pcs
  <1>2. pub' \in [Sessions -> PubType] /\ PubLists'
    BY <1>0, <1>1, UnpublishEffect DEF IInv
  <1>3. LineUp'
    BY <1>0, <1>1, KeepsLine DEF IInv, InLine
  <1>4. /\ listeners' \in [Lists -> SUBSET Listener]
        /\ \A b \in Lists : listeners'[b] \subseteq listeners[b]
        /\ \A b \in VALID_CHANNELS : \A x \in listeners'[b] : x[1] # s
    <2>1. PICK ls \in Ended(s, Lost) : listeners' = WithoutListener(s, VALID_CHANNELS, ls)
      OBVIOUS
    <2>2. ls \in [Lists -> SUBSET Listener] /\ \A b \in Lists : ls[b] \subseteq listeners[b]
      BY <1>0, EndedRemoves
    <2>. QED
      BY <2>1, <2>2, WithoutListenerRemoves DEF Lists
  <1>5. FiniteLists'
    BY <1>0, <1>4, FewerListeners DEF IInv
  <1>6. Unlisted(cut)'
    BY <1>0, <1>4 DEF IInv, Unlisted, Goto, Lists
  <1>7. ModesSettled' /\ ModesExclusive'
    BY <1>0, <1>4 DEF IInv, ModesSettled, ModesExclusive, Goto, Lists, modeVars
  <1>8. KVTypeOK' /\ Leases(cut)'
    BY <1>0 DEF IInv, TypeOK, KVTypeOK, Leases, Goto, kvVars
  <1>9. TypeOK'
    BY <1>0, <1>1, <1>2, <1>4, <1>8 DEF IInv, TypeOK, BusTypeOK, PubType, Goto, modeVars
  <1>. QED
    BY <1>2, <1>3, <1>5, <1>6, <1>7, <1>8, <1>9 DEF IInv

\* close() is over.
LEMMA ClosedStep ==
  ASSUME NEW cut, IInv(cut), NEW s \in Sessions, Closed(s)
  PROVE  IInv(cut)'
  <1>. USE DEF Closed
  <1>0. BusTypeOK /\ pc \in [Sessions -> Pcs]
    BY DEF IInv, TypeOK
  <1>1. "closed" \in Pcs
    BY DEF Pcs
  <1>2. PubLists'
    BY <1>0 DEF IInv, PubLists, ListOf, Goto
  <1>3. LineUp'
    BY <1>0, <1>1, KeepsLine DEF IInv, InLine
  <1>4. /\ listeners' \in [Lists -> SUBSET Listener]
        /\ \A b \in Lists : listeners'[b] \subseteq listeners[b]
        /\ \A x \in listeners'["monitors"] : x[1] # s
    BY <1>0, WithoutListenerRemoves DEF BusTypeOK, Lists
  <1>5. FiniteLists'
    BY <1>0, <1>4, FewerListeners DEF IInv
  <1>6. Unlisted(cut)'
    BY <1>0, <1>4 DEF IInv, Unlisted, Goto, Lists
  <1>7. ModesSettled' /\ ModesExclusive'
    BY <1>0, <1>4 DEF IInv, ModesSettled, ModesExclusive, Goto, Lists, modeVars
  <1>8. KVTypeOK' /\ Leases(cut)'
    BY <1>0 DEF IInv, TypeOK, KVTypeOK, Leases, Goto, kvVars
  <1>9. TypeOK'
    BY <1>0, <1>1, <1>4, <1>8 DEF IInv, TypeOK, BusTypeOK, Goto, modeVars
  <1>. QED
    BY <1>2, <1>3, <1>5, <1>6, <1>7, <1>8, <1>9 DEF IInv

\* What a handler that leaves the monitor mode does to modes and lists.
LeavesMonitor(s) ==
    /\ monitoring' = [monitoring EXCEPT ![s] = FALSE]
    /\ listeners' = IF monitoring[s] THEN WithoutListener(s, {"monitors"}, listeners)
                                     ELSE listeners
    /\ UNCHANGED subscribing

\* It then is in no list and no mode that contradict each other.
LEMMA LeavesMonitorEffect ==
  ASSUME NEW cut, IInv(cut), NEW s \in Sessions, NEW l \in {"queued", "idle"}, Goto(s, l), LeavesMonitor(s)
  PROVE  /\ listeners' \in [Lists -> SUBSET Listener]
         /\ monitoring' \in [Sessions -> BOOLEAN]
         /\ FiniteLists' /\ Unlisted(cut)' /\ ModesSettled' /\ ModesExclusive'
  <1>. USE DEF LeavesMonitor
  <1>0. BusTypeOK /\ pc \in [Sessions -> Pcs] /\ monitoring \in [Sessions -> BOOLEAN]
    BY DEF IInv, TypeOK
  <1>1. /\ listeners' \in [Lists -> SUBSET Listener]
        /\ \A b \in Lists : listeners'[b] \subseteq listeners[b]
        /\ monitoring[s] => \A x \in listeners'["monitors"] : x[1] # s
    <2>1. CASE monitoring[s]
      <3>1. listeners' = WithoutListener(s, {"monitors"}, listeners)
        BY <2>1
      <3>. QED
        BY <1>0, <3>1 DEF BusTypeOK, Lists, WithoutListener
    <2>2. CASE ~monitoring[s]
      BY <1>0, <2>2 DEF BusTypeOK
    <2>. QED
      BY <2>1, <2>2
  <1>2. monitoring' \in [Sessions -> BOOLEAN]
    BY <1>0
  <1>3. FiniteLists'
    BY <1>0, <1>1, FewerListeners DEF IInv
  <1>4. Unlisted(cut)'
    BY <1>0, <1>1 DEF IInv, Unlisted, Goto, Lists
  <1>5. ModesSettled'
    BY <1>0 DEF IInv, ModesSettled, Goto
  <1>6. ModesExclusive'
    <2>1. <<s, AnyKey>> \notin listeners'["monitors"]
      <3>1. CASE monitoring[s]
        BY <1>1, <3>1
      <3>2. CASE ~monitoring[s]
        BY <1>1, <3>2 DEF IInv, ModesExclusive, Lists
      <3>. QED
        BY <3>1, <3>2
    <2>. QED
      BY <1>0, <1>1, <2>1 DEF IInv, ModesExclusive, Lists
  <1>. QED
    BY <1>1, <1>2, <1>3, <1>4, <1>5, <1>6

\* A command other than MONITOR gets in line.
LEMMA ReceiveStep ==
  ASSUME NEW cut, IInv(cut), NEW s \in Sessions, Receive(s)
  PROVE  IInv(cut)'
  <1>. USE DEF Receive
  <1>0. BusTypeOK /\ pc \in [Sessions -> Pcs] /\ dispatchq \in Seq(Sessions)
    BY DEF IInv, TypeOK
  <1>1. "queued" \in Pcs /\ ListOf("queued") = "none" /\ ListOf("idle") = "none"
    BY DEF Pcs, ListOf
  <1>2. LineUp' /\ dispatchq' \in Seq(Sessions)
    BY <1>0, JoinsLine DEF IInv, InLine
  <1>3. PubLists'
    BY <1>0, <1>1 DEF IInv, PubLists, Goto
  <1>4. LeavesMonitor(s)
    BY DEF LeavesMonitor
  <1>5. /\ listeners' \in [Lists -> SUBSET Listener]
        /\ monitoring' \in [Sessions -> BOOLEAN]
        /\ FiniteLists' /\ Unlisted(cut)' /\ ModesSettled' /\ ModesExclusive'
    BY <1>4, LeavesMonitorEffect
  <1>6. KVTypeOK' /\ Leases(cut)'
    BY <1>1, LeaseKept
  <1>7. TypeOK'
    BY <1>0, <1>1, <1>2, <1>5, <1>6 DEF IInv, TypeOK, BusTypeOK, Goto
  <1>. QED
    BY <1>2, <1>3, <1>5, <1>6, <1>7 DEF IInv

\* A command is turned down before the line.
LEMMA ReceiveRejectedStep ==
  ASSUME NEW cut, IInv(cut), NEW s \in Sessions, ReceiveRejected(s)
  PROVE  IInv(cut)'
  <1>. USE DEF ReceiveRejected
  <1>0. BusTypeOK /\ pc \in [Sessions -> Pcs]
    BY DEF IInv, TypeOK
  <1>1. Goto(s, "idle") /\ "idle" \in Pcs
    BY <1>0 DEF Goto, Pcs
  <1>2. LineUp' /\ PubLists'
    BY DEF IInv, LineUp, InLine, PubLists
  <1>3. LeavesMonitor(s)
    BY DEF LeavesMonitor
  <1>4. /\ listeners' \in [Lists -> SUBSET Listener]
        /\ monitoring' \in [Sessions -> BOOLEAN]
        /\ FiniteLists' /\ Unlisted(cut)' /\ ModesSettled' /\ ModesExclusive'
    BY <1>1, <1>3, LeavesMonitorEffect
  <1>5. KVTypeOK' /\ Leases(cut)'
    BY <1>1, LeaseKept
  <1>6. TypeOK'
    BY <1>0, <1>4, <1>5 DEF IInv, TypeOK, BusTypeOK
  <1>. QED
    BY <1>2, <1>4, <1>5, <1>6 DEF IInv

\* MONITOR gets in line; the mode does not begin yet.
LEMMA ReceiveMONITORStep ==
  ASSUME NEW cut, IInv(cut), NEW s \in Sessions, ReceiveMONITOR(s)
  PROVE  IInv(cut)'
  <1>. USE DEF ReceiveMONITOR, busVars
  <1>0. BusTypeOK /\ pc \in [Sessions -> Pcs] /\ dispatchq \in Seq(Sessions)
    BY DEF IInv, TypeOK
  <1>1. "monitor" \in Pcs /\ ListOf("monitor") = "none" /\ ListOf("idle") = "none"
    BY DEF Pcs, ListOf
  <1>2. LineUp' /\ dispatchq' \in Seq(Sessions)
    BY <1>0, JoinsLine DEF IInv, InLine
  <1>3. PubLists'
    BY <1>0, <1>1 DEF IInv, PubLists, Goto
  <1>4. FiniteLists' /\ Unlisted(cut)' /\ ModesSettled' /\ ModesExclusive'
    BY <1>0, <1>1, QuietMove DEF BusTypeOK
  <1>5. KVTypeOK' /\ Leases(cut)'
    BY <1>1, LeaseKept
  <1>6. TypeOK'
    BY <1>0, <1>1, <1>2, <1>5 DEF IInv, TypeOK, BusTypeOK, Goto, modeVars
  <1>. QED
    BY <1>2, <1>3, <1>4, <1>5, <1>6 DEF IInv

\* MONITOR is executed.
LEMMA MONITORStep ==
  ASSUME NEW cut, IInv(cut), NEW s \in Sessions, MONITOR(s)
  PROVE  IInv(cut)'
  <1>. USE DEF MONITOR, busVars
  <1>0. BusTypeOK /\ pc \in [Sessions -> Pcs] /\ dispatchq \in Seq(Sessions)
    BY DEF IInv, TypeOK
  <1>1. "reply" \in Pcs /\ ListOf("reply") = "none" /\ ListOf("monitor") = "none"
    BY DEF Pcs, ListOf
  <1>2. LineUp' /\ dispatchq' \in Seq(Sessions)
    BY <1>0, <1>1, LeavesLine DEF IInv, InLine
  <1>3. PubLists'
    BY <1>0, <1>1 DEF IInv, PubLists, Goto
  <1>4. FiniteLists' /\ Unlisted(cut)' /\ ModesSettled' /\ ModesExclusive'
    <2>1. ~subscribing[s]
      BY DEF IInv, ModesSettled
    <2>. QED
      BY <1>0, <1>1, <2>1, QuietMove DEF BusTypeOK
  <1>5. KVTypeOK' /\ Leases(cut)'
    BY <1>1, LeaseKept
  <1>6. EntriesOK'
    BY RecordEffect DEF IInv, TypeOK, EntriesOK
  <1>7. TypeOK'
    BY <1>0, <1>1, <1>2, <1>5, <1>6 DEF IInv, TypeOK, BusTypeOK, EntriesOK, Goto, modeVars
  <1>. QED
    BY <1>2, <1>3, <1>4, <1>5, <1>7 DEF IInv

\* The monitor mode begins.
LEMMA BecomeMonitorStep ==
  ASSUME NEW cut, IInv(cut), NEW s \in Sessions, BecomeMonitor(s)
  PROVE  IInv(cut)'
  <1>. USE DEF BecomeMonitor
  <1>0. BusTypeOK /\ pc \in [Sessions -> Pcs] /\ monitoring \in [Sessions -> BOOLEAN]
    BY DEF IInv, TypeOK
  <1>1. "idle" \in Pcs /\ ListOf("reply") = "none" /\ ListOf("idle") = "none"
    BY DEF Pcs, ListOf
  <1>2. LineUp'
    BY <1>0, <1>1, KeepsLine DEF IInv, InLine
  <1>3. PubLists'
    BY <1>0, <1>1 DEF IInv, PubLists, Goto
  <1>4. <<s, AnyKey>> \in Listener
    BY DEF Listener
  <1>5. /\ listeners' \in [Lists -> SUBSET Listener]
        /\ \A b \in VALID_CHANNELS : listeners'[b] = listeners[b]
        /\ listeners'["monitors"] = listeners["monitors"] \cup {<<s, AnyKey>>}
    BY <1>0, <1>4 DEF BusTypeOK, Lists, VALID_CHANNELS
  <1>6. FiniteLists'
    <2>1. IsFiniteSet(listeners["monitors"] \cup {<<s, AnyKey>>})
      BY FS_AddElement DEF IInv, FiniteLists, Lists
    <2>. QED
      BY <1>5, <2>1 DEF IInv, FiniteLists, Lists
  <1>7. Unlisted(cut)'
    BY <1>0, <1>5 DEF IInv, Unlisted, Goto, Lists
  <1>8. ModesSettled' /\ ModesExclusive'
    BY <1>0, <1>5 DEF IInv, ModesSettled, ModesExclusive, Goto
  <1>9. KVTypeOK' /\ Leases(cut)'
    BY <1>1, LeaseKept
  <1>10. TypeOK'
    BY <1>0, <1>1, <1>5, <1>9 DEF IInv, TypeOK, BusTypeOK, Goto
  <1>. QED
    BY <1>2, <1>3, <1>6, <1>7, <1>8, <1>9, <1>10 DEF IInv

\* A write of a publication is over and the next one begins.
LEMMA VisitStep ==
  ASSUME NEW cut, IInv(cut), NEW s \in Sessions, NEW lost \in SUBSET Sessions, Visit(s, lost),
         UNCHANGED <<kvVars, entries, pc, alive, modeVars, dispatchq>>
  PROVE  IInv(cut)'
  <1>. USE DEF Visit, kvVars, modeVars
  <1>0. BusTypeOK /\ pc \in [Sessions -> Pcs]
    BY DEF IInv, TypeOK
  <1>1. PICK x \in ToVisit(s), d \in Deaths(s, lost) :
           pub' = [pub EXCEPT ![s] =
                     [list |-> pub[s].list, size |-> pub[s].size, cur |-> x,
                      todo |-> pub[s].todo \ {x}, dead |-> d]]
    OBVIOUS
  <1>2. x \in Listener /\ d \subseteq Listener
    <2>1. pub[s].todo \subseteq Listener /\ pub[s].dead \subseteq Listener
      BY <1>0 DEF BusTypeOK
    <2>2. {pub[s].cur} \cap (lost \X (Keys \cup {AnyKey})) \subseteq Listener
      BY DEF Listener
    <2>3. x \in Listener
      BY <2>1 DEF ToVisit
    <2>4. d \subseteq Listener
      BY <2>1, <2>2 DEF Deaths
    <2>. QED
      BY <2>3, <2>4
  <1>3. pub' \in [Sessions -> PubType]
    <2>. DEFINE p == [list |-> pub[s].list, size |-> pub[s].size, cur |-> x,
                      todo |-> pub[s].todo \ {x}, dead |-> d]
    <2>1. pub \in [Sessions -> PubType]
      BY <1>0 DEF BusTypeOK, PubType
    <2>2. p.list = pub[s].list /\ p \in PubType
      BY <1>2, <2>1 DEF PubType
    <2>3. pub' = [pub EXCEPT ![s] = p]
      BY <1>1
    <2>. HIDE DEF p
    <2>. QED
      BY <2>1, <2>2, <2>3
  <1>4. PubLists'
    BY <1>0, <1>1 DEF IInv, PubLists, BusTypeOK
  <1>5. TypeOK'
    BY <1>0, <1>3 DEF IInv, TypeOK, KVTypeOK, BusTypeOK, PubType
  <1>6. LineUp' /\ FiniteLists' /\ Unlisted(cut)'
    BY DEF IInv, LineUp, InLine, FiniteLists, Unlisted
  <1>7. ModesSettled' /\ ModesExclusive' /\ Leases(cut)'
    BY DEF IInv, ModesSettled, ModesExclusive, Leases
  <1>. QED
    BY <1>4, <1>5, <1>6, <1>7 DEF IInv

-----------------------------------------------------------------------------
(* The commands *)

\* A command that leaves the store alone and answers.
LEMMA AnswerStep ==
  ASSUME NEW cut, IInv(cut), NEW s \in Sessions, pc[s] \in {"queued", "run"}, Head(dispatchq) = s,
         Respond(s), EntriesOK', UNCHANGED <<kvVars, alive, modeVars>>,
         listeners' \in [Lists -> SUBSET Listener],
         \A b \in Lists : listeners'[b] \subseteq listeners[b]
  PROVE  IInv(cut)'
  <1>1. KVTypeOK' /\ LeaseRule(s)
    BY DEF IInv, TypeOK, KVTypeOK, LeaseRule, Leases, kvVars
  <1>. QED
    BY <1>1, RespondStep

\* A command that changes the store, within its rule, and answers.
LEMMA StoreStep ==
  ASSUME NEW cut, IInv(cut), NEW s \in Sessions, NEW c, Executes(s, c), NEW status \in {"ok", "error"},
         Answer(s, status), KVTypeOK', LeaseRule(s), UNCHANGED <<listeners, alive, modeVars>>
  PROVE  IInv(cut)'
  <1>1. EntriesOK'
    BY RecordEffect DEF Answer, IInv, TypeOK, EntriesOK
  <1>2. listeners \in [Lists -> SUBSET Listener]
    BY DEF IInv, TypeOK, BusTypeOK
  <1>3. pc[s] \in {"queued", "run"} /\ Head(dispatchq) = s /\ Respond(s)
    BY DEF Executes, Answer
  <1>. QED
    BY <1>1, <1>2, <1>3, RespondStep

\* KeyValueStore.set, once its conditions hold.
LEMMA SetEffect ==
  ASSUME NEW cut, IInv(cut), NEW s \in Sessions, NEW k \in Keys, NEW v \in Values, NEW ro,
         Set(k, v, ro, s)
  PROVE  KVTypeOK' /\ LeaseRule(s)
  <1>1. KVTypeOK'
    BY DEF IInv, TypeOK, KVTypeOK, Set
  <1>2. LeaseRule(s)
    BY ValueAssumption DEF IInv, TypeOK, KVTypeOK, Set, LeaseRule, Leases
  <1>. QED
    BY <1>1, <1>2

\* KSET.
LEMMA KSETStep ==
  ASSUME NEW cut, IInv(cut), NEW s \in Sessions, NEW k \in Keys, NEW v \in Values,
         NEW flags \in SUBSET {"NX", "XX", "RO"}, KSET(s, k, v, flags)
  PROVE  IInv(cut)'
  <1>0. Executes(s, "KSET") /\ UNCHANGED <<listeners, alive, modeVars>>
    BY DEF KSET
  <1>1. ASSUME NEW status \in {"ok", "error"}, Answer(s, status), UNCHANGED kvVars
        PROVE  IInv(cut)'
    <2>1. KVTypeOK' /\ LeaseRule(s)
      BY <1>1 DEF IInv, TypeOK, KVTypeOK, LeaseRule, Leases, kvVars
    <2>. QED
      BY <1>0, <1>1, <2>1, StoreStep
  <1>2. ASSUME Set(k, v, "RO" \in flags, s), ~Heard(listeners, "kv", k), Answer(s, "ok") PROVE IInv(cut)'
    <2>1. KVTypeOK' /\ LeaseRule(s)
      BY <1>2, SetEffect
    <2>. QED
      BY <1>0, <1>2, <2>1, StoreStep
  <1>3. ASSUME Set(k, v, "RO" \in flags, s), Heard(listeners, "kv", k), Goto(s, "run"),
               Started(s, listeners, "kv", k), UNCHANGED <<entries, dispatchq>>
        PROVE  IInv(cut)'
    <2>0. BusTypeOK /\ pc \in [Sessions -> Pcs] /\ dispatchq \in Seq(Sessions)
      BY DEF IInv, TypeOK
    <2>1. "run" \in Pcs /\ "idle" \in Pcs /\ ListOf("run") = "kv" /\ ListOf("idle") = "none"
          /\ "kv" \in Lists
      BY DEF Pcs, ListOf, Lists, VALID_CHANNELS
    <2>2. pub' \in [Sessions -> PubType] /\ PubLists'
      <3>1. Publish(s, listeners, "kv", k, "run", "idle")
        BY <1>3 DEF Publish
      <3>. QED
        BY <2>0, <2>1, <3>1, PublishEffect DEF IInv
    <2>3. LineUp'
      <3>1. pc[s] = "queued" /\ Head(dispatchq) = s
        BY <1>0 DEF Executes
      <3>2. dispatchq[1] = s
        BY <2>0, <3>1, HeadTailProperties DEF IInv, LineUp, InLine
      <3>. QED
        BY <1>3, <2>0, <2>1, <3>1, <3>2, KeepsLine DEF IInv, InLine
    <2>4. ~monitoring[s]
      BY <1>0 DEF Executes, IInv, ModesSettled
    <2>5. FiniteLists' /\ Unlisted(cut)' /\ ModesSettled' /\ ModesExclusive'
      BY <1>0, <1>3, <2>0, <2>1, <2>4, QuietMove DEF BusTypeOK
    <2>6. KVTypeOK' /\ Leases(cut)'
      <3>1. KVTypeOK' /\ LeaseRule(s)
        BY <1>3, SetEffect
      <3>. QED
        BY <1>0, <1>3, <2>1, <3>1, LeaseChanged DEF Executes
    <2>7. TypeOK'
      BY <1>0, <1>3, <2>0, <2>1, <2>2, <2>6
         DEF IInv, TypeOK, BusTypeOK, PubType, Goto, modeVars
    <2>. QED
      BY <2>2, <2>3, <2>5, <2>6, <2>7 DEF IInv
  <1>. QED
    BY <1>1, <1>2, <1>3 DEF KSET

\* The event of a KSET is out, or has raised.
LEMMA KSETReturnsStep ==
  ASSUME NEW cut, IInv(cut), NEW s \in Sessions, KSETReturns(s)
  PROVE  IInv(cut)'
  <1>. USE DEF KSETReturns
  <1>0. BusTypeOK /\ dispatchq \in Seq(Sessions)
    BY DEF IInv, TypeOK
  <1>1. Head(dispatchq) = s
    <2>1. dispatchq # <<>> /\ dispatchq[1] = s
      BY DEF IInv, LineUp, InLine
    <2>. QED
      BY <1>0, <2>1
  <1>2. PICK status \in {"ok", "error"} : Answer(s, status)
    OBVIOUS
  <1>3. EntriesOK' /\ Respond(s)
    BY <1>2, RecordEffect DEF Answer, IInv, TypeOK, EntriesOK
  <1>4. /\ listeners' \in [Lists -> SUBSET Listener]
        /\ \A b \in Lists : listeners'[b] \subseteq listeners[b]
    BY <1>0, AfterPublishRemoves DEF BusTypeOK
  <1>. QED
    BY <1>1, <1>3, <1>4, AnswerStep

\* KMSET.
LEMMA KMSETStep ==
  ASSUME NEW cut, IInv(cut), NEW s \in Sessions, NEW K \in SUBSET Keys, NEW v \in [K -> Values],
         KMSET(s, v)
  PROVE  IInv(cut)'
  <1>1. PICK status \in {"ok", "error"} : Answer(s, status)
    BY DEF KMSET
  <1>2. KVTypeOK' /\ LeaseRule(s)
    <2>1. CASE UNCHANGED kvVars
      BY <2>1 DEF IInv, TypeOK, KVTypeOK, LeaseRule, Leases, kvVars
    <2>2. CASE MSet(v)
      BY <2>2, ValueAssumption DEF IInv, TypeOK, KVTypeOK, LeaseRule, Leases, MSet
    <2>. QED
      BY <2>1, <2>2 DEF KMSET
  <1>. QED
    BY <1>1, <1>2, StoreStep DEF KMSET

\* delete and flushdb keep types and leases.
LEMMA DropEffect ==
  ASSUME NEW cut, IInv(cut), NEW s, NEW K, Drop(K)
  PROVE  KVTypeOK' /\ LeaseRule(s)
  BY DEF IInv, TypeOK, KVTypeOK, LeaseRule, Leases, Drop

\* KDEL.
LEMMA KDELStep ==
  ASSUME NEW cut, IInv(cut), NEW s \in Sessions, NEW K \in SUBSET Keys, KDEL(s, K)
  PROVE  IInv(cut)'
  <1>1. PICK status \in {"ok", "error"} : Answer(s, status)
    BY DEF KDEL
  <1>2. KVTypeOK' /\ LeaseRule(s)
    <2>1. CASE UNCHANGED kvVars
      BY <2>1 DEF IInv, TypeOK, KVTypeOK, LeaseRule, Leases, kvVars
    <2>2. CASE Drop(K \cap {k \in Keys : data[k] # NoValue})
      BY <2>2, DropEffect
    <2>. QED
      BY <2>1, <2>2 DEF KDEL
  <1>. QED
    BY <1>1, <1>2, StoreStep DEF KDEL

\* KFLUSH.
LEMMA KFLUSHStep ==
  ASSUME NEW cut, IInv(cut), NEW s \in Sessions, KFLUSH(s)
  PROVE  IInv(cut)'
  <1>1. KVTypeOK' /\ LeaseRule(s)
    BY DropEffect DEF KFLUSH, FlushDB
  <1>. QED
    BY <1>1, StoreStep DEF KFLUSH

\* JOURNAL CLEAR, PING and KGET, which touch no more than the journal.
LEMMA LookingStep ==
  ASSUME NEW cut, IInv(cut), NEW s \in Sessions,
         JOURNALClear(s) \/ PING(s) \/ \E status \in {"ok", "error"} : KGET(s, status)
  PROVE  IInv(cut)'
  <1>1. /\ pc[s] \in {"queued", "run"} /\ Head(dispatchq) = s /\ Respond(s)
        /\ UNCHANGED <<kvVars, listeners, alive, modeVars>>
    BY DEF JOURNALClear, PING, KGET, Executes, Answer
  <1>2. EntriesOK'
    <2>1. CASE JOURNALClear(s)
      BY <2>1, EmptySeq, SizeAssumption DEF JOURNALClear, Clear, EntriesOK
    <2>2. CASE PING(s)
      BY <2>2 DEF PING, IInv, TypeOK, EntriesOK
    <2>3. CASE \E status \in {"ok", "error"} : KGET(s, status)
      BY <2>3, RecordEffect DEF KGET, Answer, IInv, TypeOK, EntriesOK
    <2>. QED
      BY <2>1, <2>2, <2>3
  <1>3. listeners \in [Lists -> SUBSET Listener]
    BY DEF IInv, TypeOK, BusTypeOK
  <1>. QED
    BY <1>1, <1>2, <1>3, AnswerStep

\* What the channels cs of a command add to, or take from, list b.
Named(s, cs, b) == {<<s, c[2]>> : c \in {d \in cs : d[1] = b}}

\* They are finitely many listeners of s, and no monitors.
LEMMA NamedEffect ==
  ASSUME NEW s \in Sessions, NEW cs \in SUBSET Channels, NEW b \in Lists
  PROVE  /\ IsFiniteSet(Named(s, cs, b))
         /\ Named(s, cs, b) \subseteq Listener
         /\ \A x \in Named(s, cs, b) : x[1] = s
         /\ b = "monitors" => Named(s, cs, b) = {}
  <1>. DEFINE D == {d \in cs : d[1] = b}
              f == [c \in D |-> <<s, c[2]>>]
  <1>1. IsFiniteSet(D)
    BY ChannelAssumption, FS_Subset
  <1>2. f \in Surjection(D, Named(s, cs, b))
    BY DEF Surjection, Named
  <1>3. IsFiniteSet(Named(s, cs, b))
    BY <1>1, <1>2, FS_Surjection
  <1>4. \A c \in cs : c[1] \in VALID_CHANNELS /\ c[2] \in Keys \cup {AnyKey}
    BY ChannelAssumption
  <1>5. /\ Named(s, cs, b) \subseteq Listener
        /\ \A x \in Named(s, cs, b) : x[1] = s
    BY <1>4 DEF Named, Listener
  <1>6. b = "monitors" => D = {}
    BY <1>4 DEF VALID_CHANNELS
  <1>. QED
    BY <1>3, <1>5, <1>6 DEF Named

\* SUBSCRIBE, also one that fails half-way.
LEMMA SUBSCRIBEStep ==
  ASSUME NEW cut, IInv(cut), NEW s \in Sessions, NEW cs \in SUBSET Channels, NEW invalid \in BOOLEAN,
         SUBSCRIBE(s, cs, invalid)
  PROVE  IInv(cut)'
  <1>0. /\ BusTypeOK /\ pc \in [Sessions -> Pcs] /\ subscribing \in [Sessions -> BOOLEAN]
        /\ pc[s] = "queued" /\ ~monitoring[s]
        /\ Head(dispatchq) = s /\ Respond(s)
        /\ UNCHANGED <<kvVars, alive, monitoring>>
    BY DEF SUBSCRIBE, Executes, Answer, IInv, TypeOK, ModesSettled
  <1>1. PICK l \in {"cast", "idle"} : Goto(s, l)
    BY <1>0, RespondEffect
  <1>2. LineUp' /\ PubLists' /\ dispatchq' \in Seq(Sessions) /\ pub' \in [Sessions -> PubType]
    BY <1>0, RespondEffect
  <1>3. /\ listeners' \in [Lists -> SUBSET Listener]
        /\ \A b \in Lists : listeners'[b] = listeners[b] \cup Named(s, cs, b)
    <2>1. listeners' = [b \in Lists |-> listeners[b] \cup Named(s, cs, b)]
      BY DEF SUBSCRIBE, Named
    <2>. QED
      BY <1>0, <2>1, NamedEffect DEF BusTypeOK
  <1>4. /\ subscribing' \in [Sessions -> BOOLEAN]
        /\ \A t \in Sessions : t # s => subscribing'[t] = subscribing[t]
    BY <1>0 DEF SUBSCRIBE
  <1>5. FiniteLists'
    <2>. SUFFICES ASSUME NEW b \in Lists PROVE IsFiniteSet(listeners'[b])
      BY DEF FiniteLists
    <2>1. IsFiniteSet(listeners[b]) /\ IsFiniteSet(Named(s, cs, b))
      BY NamedEffect DEF IInv, FiniteLists
    <2>2. IsFiniteSet(listeners[b] \cup Named(s, cs, b))
      BY <2>1, FS_Union
    <2>. QED
      BY <1>3, <2>2
  <1>6. \A b \in Lists : \A x \in listeners'[b] : x \in listeners[b] \/ x[1] = s
    BY <1>3, NamedEffect
  <1>7. listeners'["monitors"] = listeners["monitors"]
    BY <1>3, NamedEffect DEF Lists
  <1>8. Unlisted(cut)'
    BY <1>0, <1>1, <1>6 DEF IInv, Unlisted, Goto, Lists
  <1>9. ModesSettled'
    BY <1>0, <1>1, <1>4 DEF IInv, ModesSettled, Goto
  <1>10. ModesExclusive'
    BY <1>0, <1>4, <1>7 DEF IInv, ModesExclusive
  <1>11. KVTypeOK' /\ Leases(cut)'
    BY <1>0, <1>1, LeaseKept DEF Pcs
  <1>12. EntriesOK'
    BY RecordEffect DEF SUBSCRIBE, Answer, IInv, TypeOK, EntriesOK
  <1>13. TypeOK'
    BY <1>0, <1>1, <1>2, <1>3, <1>4, <1>11, <1>12
       DEF IInv, TypeOK, BusTypeOK, PubType, EntriesOK, Goto, Pcs
  <1>. QED
    BY <1>2, <1>5, <1>8, <1>9, <1>10, <1>11, <1>13 DEF IInv

\* UNSUBSCRIBE.
LEMMA UNSUBSCRIBEStep ==
  ASSUME NEW cut, IInv(cut), NEW s \in Sessions, NEW cs \in SUBSET Channels, UNSUBSCRIBE(s, cs)
  PROVE  IInv(cut)'
  <1>0. /\ BusTypeOK /\ pc \in [Sessions -> Pcs] /\ subscribing \in [Sessions -> BOOLEAN]
        /\ pc[s] = "queued" /\ Head(dispatchq) = s /\ Respond(s)
        /\ UNCHANGED <<kvVars, alive, monitoring>>
    BY DEF UNSUBSCRIBE, Executes, Answer, IInv, TypeOK
  <1>1. PICK l \in {"cast", "idle"} : Goto(s, l)
    BY <1>0, RespondEffect
  <1>2. LineUp' /\ PubLists' /\ dispatchq' \in Seq(Sessions) /\ pub' \in [Sessions -> PubType]
    BY <1>0, RespondEffect
  <1>3. /\ listeners' \in [Lists -> SUBSET Listener]
        /\ \A b \in Lists : listeners'[b] \subseteq listeners[b]
    BY <1>0 DEF UNSUBSCRIBE, BusTypeOK
  <1>4. /\ subscribing' \in [Sessions -> BOOLEAN]
        /\ \A t \in Sessions : subscribing'[t] => subscribing[t]
    BY <1>0 DEF UNSUBSCRIBE
  <1>5. FiniteLists'
    BY <1>0, <1>3, FewerListeners DEF IInv
  <1>6. Unlisted(cut)'
    BY <1>0, <1>1, <1>3 DEF IInv, Unlisted, Goto, Lists
  <1>7. ModesSettled'
    BY <1>0, <1>1, <1>4 DEF IInv, ModesSettled, Goto
  <1>8. ModesExclusive'
    BY <1>0, <1>3, <1>4 DEF IInv, ModesExclusive, Lists
  <1>9. KVTypeOK' /\ Leases(cut)'
    BY <1>0, <1>1, LeaseKept DEF Pcs
  <1>10. EntriesOK'
    BY RecordEffect DEF UNSUBSCRIBE, Answer, IInv, TypeOK, EntriesOK
  <1>11. TypeOK'
    BY <1>0, <1>1, <1>2, <1>3, <1>4, <1>9, <1>10
       DEF IInv, TypeOK, BusTypeOK, PubType, EntriesOK, Goto, Pcs
  <1>. QED
    BY <1>2, <1>5, <1>6, <1>7, <1>8, <1>9, <1>11 DEF IInv

-----------------------------------------------------------------------------
(* The steps of the server *)

\* The server starts in IInv.
LEMMA InitIInv == Init => IInv(NoCut)
  <1>. SUFFICES ASSUME Init PROVE IInv(NoCut)
    OBVIOUS
  <1>0. /\ \A s \in Sessions : pub[s] = NoPub /\ pc[s] = "new"
        /\ \A s \in Sessions : ~subscribing[s] /\ ~monitoring[s]
        /\ \A b \in Lists : listeners[b] = {}
        /\ \A k \in Keys : owners[k] = NoSession
        /\ dispatchq = <<>>
    BY DEF Init, KVInit, BusInit
  <1>1. TypeOK
    BY EmptySeq, SizeAssumption
       DEF Init, KVInit, JournalInit, BusInit, TypeOK, KVTypeOK, BusTypeOK, NoPub, Pcs
  <1>2. FiniteLists
    BY <1>0, FS_EmptySet DEF FiniteLists
  <1>3. LineUp
    <2>1. 1 .. Len(dispatchq) = {}
      BY <1>0, LenProperties, EmptySeq
    <2>. QED
      BY <1>0, <2>1 DEF LineUp, InLine
  <1>4. PubLists
    <2>1. NoPub.list = "none" /\ ListOf("new") = "none"
      BY DEF NoPub, ListOf
    <2>. QED
      BY <1>0, <2>1, Zenon DEF PubLists
  <1>5. Unlisted(NoCut)
    <2>. SUFFICES ASSUME NEW b \in Lists, NEW l \in listeners[b] PROVE FALSE
      BY DEF Unlisted, Lists
    <2>. QED
      BY <1>0
  <1>6. ModesSettled /\ ModesExclusive /\ Leases(NoCut)
    BY <1>0 DEF ModesSettled, ModesExclusive, Leases, Lists
  <1>. QED
    BY <1>1, <1>2, <1>3, <1>4, <1>5, <1>6 DEF IInv

\* Every command preserves IInv.
LEMMA ExecuteStep ==
  ASSUME NEW cut, IInv(cut), NEW s \in Sessions, Execute(s)
  PROVE  IInv(cut)'
  <1>1. ASSUME NEW k \in Keys, NEW v \in Values, NEW flags \in SUBSET {"NX", "XX", "RO"},
               KSET(s, k, v, flags)
        PROVE  IInv(cut)'
    BY <1>1, KSETStep
  <1>2. ASSUME NEW K \in SUBSET Keys, KDEL(s, K) PROVE IInv(cut)'
    BY <1>2, KDELStep
  <1>3. ASSUME NEW K \in SUBSET Keys, NEW v \in [K -> Values], KMSET(s, v) PROVE IInv(cut)'
    BY <1>3, KMSETStep
  <1>4. ASSUME KFLUSH(s) PROVE IInv(cut)'
    BY <1>4, KFLUSHStep
  <1>5. ASSUME JOURNALClear(s) \/ PING(s) \/ \E status \in {"ok", "error"} : KGET(s, status)
        PROVE  IInv(cut)'
    BY <1>5, LookingStep
  <1>6. ASSUME MONITOR(s) PROVE IInv(cut)'
    BY <1>6, MONITORStep
  <1>7. ASSUME NEW cs \in SUBSET Channels, UNSUBSCRIBE(s, cs) PROVE IInv(cut)'
    BY <1>7, UNSUBSCRIBEStep
  <1>8. ASSUME NEW cs \in SUBSET Channels, NEW invalid \in BOOLEAN, SUBSCRIBE(s, cs, invalid)
        PROVE  IInv(cut)'
    BY <1>8, SUBSCRIBEStep
  <1>. QED
    BY <1>1, <1>2, <1>3, <1>4, <1>5, <1>6, <1>7, <1>8 DEF Execute

\* Every step of a publication preserves IInv.
LEMMA PublishesStep ==
  ASSUME NEW cut, IInv(cut), NEW s \in Sessions, Publishes(s)
  PROVE  IInv(cut)'
  <1>1. ASSUME Visit(s, Lost), UNCHANGED <<kvVars, entries, pc, alive, modeVars, dispatchq>>
        PROVE  IInv(cut)'
    BY <1>1, VisitStep DEF Lost
  <1>2. ASSUME GreetReturns(s) \/ CastReturns(s) PROVE IInv(cut)'
    BY <1>2, BackToReading DEF GreetReturns, CastReturns
  <1>3. ASSUME GreetRaises(s) \/ CastRaises(s) \/ ReplyRaises(s) PROVE IInv(cut)'
    BY <1>3, CloseStep DEF GreetRaises, CastRaises, ReplyRaises
  <1>4. ASSUME KSETReturns(s) PROVE IInv(cut)'
    BY <1>4, KSETReturnsStep
  <1>5. ASSUME BecomeMonitor(s) PROVE IInv(cut)'
    BY <1>5, BecomeMonitorStep
  <1>6. ASSUME DropGoesOn(s) \/ DropEnds(s) PROVE IInv(cut)'
    BY <1>6, DropStep
  <1>7. ASSUME ByeEnds(s) PROVE IInv(cut)'
    BY <1>7, ByeEndsStep
  <1>. QED
    BY <1>1, <1>2, <1>3, <1>4, <1>5, <1>6, <1>7 DEF Publishes

\* Every step of a handler preserves IInv.
LEMMA HandleStep ==
  ASSUME NEW cut, IInv(cut), NEW s \in Sessions, Handle(s)
  PROVE  IInv(cut)'
  <1>1. ASSUME Leave(s) PROVE IInv(cut)'
    BY <1>1, CloseStep DEF Leave
  <1>. QED
    BY <1>1, ClosedStep, ReceiveStep, ReceiveRejectedStep, ReceiveMONITORStep,
       ExecuteStep, PublishesStep DEF Handle

\* So does a step that leaves the server alone.
LEMMA UnchangedStep ==
  ASSUME NEW cut, IInv(cut), UNCHANGED vars
  PROVE  IInv(cut)'
  <1>. USE DEF vars, IInv, kvVars, busVars, modeVars
  <1>1. TypeOK' /\ FiniteLists'
    BY DEF TypeOK, KVTypeOK, BusTypeOK, FiniteLists
  <1>2. LineUp' /\ PubLists' /\ Unlisted(cut)'
    BY DEF LineUp, InLine, PubLists, Unlisted
  <1>3. ModesSettled' /\ ModesExclusive' /\ Leases(cut)'
    BY DEF ModesSettled, ModesExclusive, Leases
  <1>. QED
    BY <1>1, <1>2, <1>3

\* Every step of the server preserves IInv.
LEMMA NextIInv == IInv(NoCut) /\ [Next]_vars => IInv(NoCut)'
  <1>. SUFFICES ASSUME IInv(NoCut), [Next]_vars PROVE IInv(NoCut)'
    OBVIOUS
  <1>1. ASSUME NEW s \in Sessions, Connect(s) \/ Hangup(s) \/ Handle(s) PROVE IInv(NoCut)'
    BY <1>1, ConnectStep, HangupStep, HandleStep
  <1>2. CASE UNCHANGED vars
    BY <1>2, UnchangedStep
  <1>. QED
    BY <1>1, <1>2 DEF Next

\* Every behaviour of the server keeps the inductive invariant.
THEOREM Inductive == Spec => []IInv(NoCut)
  BY InitIInv, NextIInv, PTL DEF Spec

-----------------------------------------------------------------------------
(* What it says of the server *)

\* Every variable keeps its type, whatever the handlers, their publications and
\* the dispatch lock do in which order.
THEOREM TypeCorrect == Spec => []TypeOK
  <1>1. IInv(NoCut) => TypeOK
    BY DEF IInv
  <1>. QED
    BY <1>1, Inductive, PTL

\* A read-only key exists, and its owner's close() has not gone beyond the
\* instruments (release_owner comes next).
THEOREM RoLeaseHolds == Spec => []RoLease
  <1>1. IInv(NoCut) => RoLease
    BY DEF IInv, Leases, NoCut, RoLease, TypeOK, KVTypeOK
  <1>. QED
    BY <1>1, Inductive, PTL

\* Monitor and subscriber mode exclude each other, and the monitors list knows
\* no connection without its monitor flag.
THEOREM ModesExclusiveHolds == Spec => []ModesExclusive
  <1>1. IInv(NoCut) => ModesExclusive
    BY DEF IInv
  <1>. QED
    BY <1>1, Inductive, PTL

\* close() and the task's callback leave nothing of a connection behind.
THEOREM NoResidueHolds == Spec => []NoResidue
  <1>1. IInv(NoCut) => NoResidue
    BY DEF IInv, Unlisted, NoCut, NoResidue, Lists
  <1>. QED
    BY <1>1, Inductive, PTL

\* The positions a handler has in the dispatch queue.
LEMMA PlacesInLine ==
  ASSUME LineUp, dispatchq \in Seq(Sessions), NEW s \in Sessions
  PROVE  Cardinality({i \in DOMAIN dispatchq : dispatchq[i] = s})
            = IF InLine(s) THEN 1 ELSE 0
  <1>. DEFINE P == {i \in DOMAIN dispatchq : dispatchq[i] = s}
  <1>1. DOMAIN dispatchq = 1 .. Len(dispatchq)
    BY LenProperties
  <1>2. CASE InLine(s)
    <2>1. PICK i \in 1 .. Len(dispatchq) : dispatchq[i] = s
      BY <1>2 DEF LineUp
    <2>2. P = {i}
      BY <1>1, <2>1 DEF LineUp
    <2>. QED
      BY <1>2, <2>2, FS_Singleton
  <1>3. CASE ~InLine(s)
    <2>1. P = {}
      BY <1>1, <1>3 DEF LineUp
    <2>. QED
      BY <1>3, <2>1, FS_EmptySet
  <1>. QED
    BY <1>2, <1>3

\* The line and the states of the handlers say who is where.
LEMMA DispatchIsConsistent ==
  ASSUME NEW cut, IInv(cut)
  PROVE  DispatchConsistent
  <1>. SUFFICES ASSUME NEW s \in Sessions
                PROVE  /\ Cardinality({i \in DOMAIN dispatchq : dispatchq[i] = s})
                             = IF pc[s] \in {"queued", "monitor", "run"} THEN 1 ELSE 0
                       /\ pc[s] = "run" => Head(dispatchq) = s
                       /\ pub[s].list = ListOf(pc[s])
    BY DEF DispatchConsistent, ListOf
  <1>1. dispatchq \in Seq(Sessions) /\ LineUp
    BY DEF IInv, TypeOK
  <1>2. Cardinality({i \in DOMAIN dispatchq : dispatchq[i] = s})
           = IF pc[s] \in {"queued", "monitor", "run"} THEN 1 ELSE 0
    BY <1>1, PlacesInLine DEF InLine
  <1>3. pc[s] = "run" => Head(dispatchq) = s
    <2>. SUFFICES ASSUME pc[s] = "run" PROVE Head(dispatchq) = s
      OBVIOUS
    <2>1. dispatchq # <<>> /\ dispatchq[1] = s
      BY <1>1 DEF LineUp, InLine
    <2>. QED
      BY <1>1, <2>1
  <1>4. pub[s].list = ListOf(pc[s])
    BY DEF IInv, PubLists
  <1>. QED
    BY <1>2, <1>3, <1>4

\* Who waits for the dispatch lock is in its queue once, who runs a command is
\* at the head, and every suspended publication is on the list its handler's
\* state says.
THEOREM DispatchConsistentHolds == Spec => []DispatchConsistent
  <1>1. IInv(NoCut) => DispatchConsistent
    BY DispatchIsConsistent
  <1>. QED
    BY <1>1, Inductive, PTL

\* Journal.head: which entries JOURNAL +n count returns.
LEMMA HeadWindow ==
  ASSUME EntriesOK, NEW n \in Nat, NEW count \in Nat, NEW i \in 1 .. JournalSize
  PROVE  LET w == HeadOf(n, count)
             first == IF n = 0 THEN 1 ELSE n
         IN  i \in DOMAIN w <=>
                /\ i <= count /\ first + i - 1 <= Len(entries)
                /\ i \in DOMAIN w => w[i] = entries[first + i - 1]
  <1>. DEFINE T == [sess : Sessions, status : {"ok", "error"}]
              first == IF n = 0 THEN 1 ELSE n
              last == IF first - 1 + count < Len(entries) THEN first - 1 + count
                                                          ELSE Len(entries)
              w == SubSeq(entries, first, last)
  <1>1. /\ entries \in Seq(T) /\ Len(entries) \in Nat /\ JournalSize \in Nat
        /\ first \in Nat \ {0} /\ last \in Int /\ last <= Len(entries)
    BY SizeAssumption DEF EntriesOK
  <1>2. w = HeadOf(n, count)
    BY DEF HeadOf
  <1>3. \A j \in first .. last : entries[j] \in T
    <2>. HIDE DEF first, last, T
    <2>. QED
      BY <1>1, ElementOfSeq
  <1>4. /\ w \in Seq(T)
        /\ Len(w) = IF first <= last THEN last - first + 1 ELSE 0
        /\ \A j \in 1 .. last - first + 1 : w[j] = entries[first + j - 1]
    <2>. HIDE DEF first, last, T
    <2>. QED
      BY <1>1, <1>3, SubSeqProperties
  <1>5. DOMAIN w = 1 .. Len(w)
    <2>. HIDE DEF w, T
    <2>. QED
      BY <1>4, LenProperties
  <1>6. i \in DOMAIN w <=> i <= count /\ first + i - 1 <= Len(entries)
    <2>. HIDE DEF w
    <2>. QED
      BY <1>1, <1>4, <1>5
  <1>7. i \in DOMAIN w => w[i] = entries[first + i - 1]
    <2>. HIDE DEF w, first, last
    <2>. QED
      BY <1>1, <1>4, <1>5
  <1>. QED
    <2>. HIDE DEF w
    <2>. QED
      BY <1>2, <1>6, <1>7, Zenon

\* A sequence is its first elements and its last c ones.
LEMMA LastElements ==
  ASSUME NEW S, NEW seq \in Seq(S), NEW c \in 1 .. Len(seq)
  PROVE  \E old \in {SubSeq(seq, 1, i) : i \in 0 .. Len(seq)} :
            old \o SubSeq(seq, Len(seq) - c + 1, Len(seq)) = seq
            /\ Len(SubSeq(seq, Len(seq) - c + 1, Len(seq))) = c
  <1>0. Len(seq) \in Nat
    BY LenProperties
  <1>1. PICK k \in 0 .. Len(seq) : k = Len(seq) - c
    BY <1>0
  <1>2. SubSeq(seq, 1, k) \o SubSeq(seq, k + 1, Len(seq)) = SubSeq(seq, 1, Len(seq))
    <2>1. /\ 1 \in 1 .. Len(seq) + 1
          /\ k \in 1 - 1 .. Len(seq)
          /\ Len(seq) \in k .. Len(seq)
      BY <1>0
    <2>. QED
      BY <2>1, ConcatAdjacentSubSeq, Zenon
  <1>3. SubSeq(seq, 1, Len(seq)) = seq
    BY SubSeqFull
  <1>4. \A i \in k + 1 .. Len(seq) : seq[i] \in S
    BY <1>0, ElementOfSeq
  <1>5. Len(SubSeq(seq, k + 1, Len(seq))) = IF k + 1 <= Len(seq) THEN Len(seq) - (k + 1) + 1 ELSE 0
    BY <1>0, <1>4, SubSeqProperties
  <1>6. Len(SubSeq(seq, k + 1, Len(seq))) = c
    BY <1>0, <1>1, <1>5
  <1>7. SubSeq(seq, k + 1, Len(seq)) = SubSeq(seq, Len(seq) - c + 1, Len(seq))
    BY <1>1
  <1>8. SubSeq(seq, 1, k) \in {SubSeq(seq, 1, i) : i \in 0 .. Len(seq)}
    BY <1>1
  <1>. QED
    BY <1>2, <1>3, <1>6, <1>7, <1>8, Zenon

\* Journal.tail: what JOURNAL count returns is the end of the journal.
LEMMA TailWindow ==
  ASSUME EntriesOK, NEW count \in Nat, count > 0
  PROVE  \E old \in {SubSeq(entries, 1, i) : i \in 0 .. Len(entries)} :
            old \o TailOf(count) = entries /\ (old = <<>> \/ Len(TailOf(count)) = count)
  <1>. DEFINE T == [sess : Sessions, status : {"ok", "error"}]
  <1>1. entries \in Seq(T) /\ Len(entries) \in Nat
    BY DEF EntriesOK
  <1>. HIDE DEF T
  <1>2. CASE count >= Len(entries)
    <2>1. TailOf(count) = entries
      BY <1>2 DEF TailOf
    <2>2. SubSeq(entries, 1, 0) = <<>>
      BY SubSeqEmpty
    <2>3. <<>> \o entries = entries
      BY <1>1, ConcatEmptySeq
    <2>4. 0 \in 0 .. Len(entries)
      BY <1>1
    <2>5. <<>> \in {SubSeq(entries, 1, i) : i \in 0 .. Len(entries)}
      BY <2>2, <2>4, Zenon
    <2>. QED
      BY <2>1, <2>3, <2>5, Zenon
  <1>3. CASE count < Len(entries)
    <2>1. TailOf(count) = SubSeq(entries, Len(entries) - count + 1, Len(entries))
      BY <1>1, <1>3 DEF TailOf
    <2>2. count \in 1 .. Len(entries)
      BY <1>1, <1>3
    <2>. QED
      BY <1>1, <2>1, <2>2, LastElements, Zenon
  <1>4. count >= Len(entries) \/ count < Len(entries)
    BY <1>1
  <1>. QED
    BY <1>2, <1>3, <1>4, Zenon

\* JOURNAL +n count and JOURNAL count return the right window of a journal of
\* any size, at every moment.
THEOREM JournalWindowsHolds == Spec => []JournalWindows
  <1>1. ASSUME IInv(NoCut) PROVE JournalWindows
    <2>1. EntriesOK /\ \A m \in 0 .. JournalSize : m \in Nat
      BY <1>1, SizeAssumption DEF IInv, TypeOK, EntriesOK
    <2>. SUFFICES ASSUME NEW n \in 0 .. JournalSize, NEW count \in 0 .. JournalSize
                  PROVE  JournalWindows!(n, count)
      BY DEF JournalWindows
    <2>. QED
      BY <2>1, HeadWindow, TailWindow
  <1>. QED
    BY <1>1, Inductive, PTL

-----------------------------------------------------------------------------
(* Read-only keys *)

\* The owner of a key acts in this step, as RoProtected has it.
OwnerActs == \A k \in Keys :
                owners[k] # NoSession /\ data'[k] # data[k] => ActedBy(owners[k])

\* Every key that changes is the session's own, or nobody's.
OwnKeysOnly(s) == \A k \in Keys : data'[k] # data[k] => owners[k] \in {s, NoSession}

\* A command that answers "ok" acts by its journal entry.
LEMMA AnsweredActs ==
  ASSUME IInv(NoCut), JournalSize > 0, NEW s \in Sessions, pc[s] = "queued", Answer(s, "ok"),
         OwnKeysOnly(s)
  PROVE  OwnerActs
  <1>1. Goto(s, "cast") \/ Goto(s, "idle")
    BY DEF Answer, Respond, Publish
  <1>2. \A t \in Sessions : ~(pc[t] # "run" /\ pc'[t] = "run")
    BY <1>1 DEF Goto, IInv, TypeOK
  <1>3. entries'[Len(entries')] = [sess |-> s, status |-> "ok"]
    BY RecordEffect DEF Answer, IInv, TypeOK, EntriesOK
  <1>4. ActedBy(s)
    BY <1>2, <1>3 DEF ActedBy
  <1>. QED
    BY <1>4 DEF OwnerActs, OwnKeysOnly

\* KSET writes one key, which is not refused.
LEMMA KSETActs ==
  ASSUME IInv(NoCut), JournalSize > 0, NEW s \in Sessions, NEW k \in Keys, NEW v \in Values,
         NEW flags \in SUBSET {"NX", "XX", "RO"}, KSET(s, k, v, flags)
  PROVE  OwnerActs
  <1>1. CASE UNCHANGED kvVars
    BY <1>1 DEF OwnerActs, kvVars
  <1>2. CASE ~UNCHANGED kvVars
    <2>1. ~Refused(k, s) /\ Set(k, v, "RO" \in flags, s) /\ pc[s] = "queued"
          /\ IF Heard(listeners, "kv", k) THEN Goto(s, "run") ELSE Answer(s, "ok")
      BY <1>2 DEF KSET, Executes
    <2>2. OwnKeysOnly(s)
      BY <2>1 DEF Refused, Set, OwnKeysOnly, IInv, TypeOK, KVTypeOK
    <2>3. CASE Goto(s, "run")
      <3>1. pc[s] # "run" /\ pc'[s] = "run"
        BY <2>1, <2>3 DEF Goto, IInv, TypeOK
      <3>2. ActedBy(s)
        BY <3>1 DEF ActedBy
      <3>. QED
        BY <2>2, <3>2 DEF OwnerActs, OwnKeysOnly
    <2>4. CASE Answer(s, "ok")
      BY <2>1, <2>2, <2>4, AnsweredActs
    <2>. QED
      BY <2>1, <2>3, <2>4
  <1>. QED
    BY <1>1, <1>2

\* KMSET, KDEL and KFLUSH leave the keys of others alone.
LEMMA ManyKeysActs ==
  ASSUME IInv(NoCut), JournalSize > 0, NEW s \in Sessions,
         \/ \E K \in SUBSET Keys : KDEL(s, K) \/ \E v \in [K -> Values] : KMSET(s, v)
         \/ KFLUSH(s)
  PROVE  OwnerActs
  <1>1. CASE UNCHANGED data
    BY <1>1 DEF OwnerActs
  <1>2. CASE ~UNCHANGED data
    <2>1. Answer(s, "ok") /\ pc[s] = "queued"
      BY <1>2 DEF KDEL, KMSET, KFLUSH, Executes, kvVars
    <2>2. OwnKeysOnly(s)
      <3>1. ASSUME NEW K \in SUBSET Keys, KDEL(s, K) PROVE OwnKeysOnly(s)
        <4>1. /\ \A k \in K : ~Refused(k, s)
              /\ Drop(K \cap {k \in Keys : data[k] # NoValue})
          BY <1>2, <3>1 DEF KDEL, kvVars
        <4>. QED
          BY <4>1 DEF Drop, OwnKeysOnly, Refused
      <3>2. ASSUME NEW K \in SUBSET Keys, NEW v \in [K -> Values], KMSET(s, v)
            PROVE  OwnKeysOnly(s)
        <4>1. MSet(v) /\ \A k \in K : ~Refused(k, s)
          BY <1>2, <3>2 DEF KMSET, kvVars
        <4>. QED
          BY <4>1 DEF MSet, OwnKeysOnly, Refused
      <3>3. CASE KFLUSH(s)
        BY <3>3 DEF KFLUSH, FlushDB, Drop, OwnKeysOnly, Refused
      <3>. QED
        BY <3>1, <3>2, <3>3
    <2>. QED
      BY <2>1, <2>2, AnsweredActs
  <1>. QED
    BY <1>1, <1>2

\* The steps that do not change a value.
LEMMA OtherStepsKeepData ==
  ASSUME NEW s \in Sessions, Connect(s) \/ Hangup(s) \/ Handle(s)
  PROVE  \/ UNCHANGED data
         \/ \E k \in Keys : \E v \in Values : \E flags \in SUBSET {"NX", "XX", "RO"} :
               KSET(s, k, v, flags)
         \/ \E K \in SUBSET Keys : KDEL(s, K) \/ \E v \in [K -> Values] : KMSET(s, v)
         \/ KFLUSH(s)
  <1>1. CASE Connect(s) \/ Hangup(s)
    BY <1>1 DEF Connect, Hangup, kvVars
  <1>2. CASE Leave(s) \/ Closed(s)
    BY <1>2 DEF Leave, Close, BeginClose, Unlock, Depart, ReleaseOwner, Closed, kvVars
  <1>3. CASE Receive(s) \/ ReceiveRejected(s) \/ ReceiveMONITOR(s)
    BY <1>3 DEF Receive, ReceiveRejected, ReceiveMONITOR, kvVars
  <1>4. CASE Publishes(s)
    BY <1>4 DEF Publishes, GreetReturns, GreetRaises, KSETReturns, CastReturns, CastRaises,
                BecomeMonitor, ReplyRaises, DropGoesOn, DropEnds, ByeEnds, Close, BeginClose,
                Unlock, Depart, ReleaseOwner, kvVars
  <1>5. CASE Execute(s)
    <2>1. CASE JOURNALClear(s) \/ PING(s) \/ \E status \in {"ok", "error"} : KGET(s, status)
      BY <2>1 DEF JOURNALClear, PING, KGET, kvVars
    <2>2. CASE MONITOR(s)
      BY <2>2 DEF MONITOR, kvVars
    <2>3. CASE \E cs \in SUBSET Channels :
                  UNSUBSCRIBE(s, cs) \/ \E invalid \in BOOLEAN : SUBSCRIBE(s, cs, invalid)
      BY <2>3 DEF UNSUBSCRIBE, SUBSCRIBE, kvVars
    <2>. QED
      BY <1>5, <2>1, <2>2, <2>3, Zenon DEF Execute
  <1>. QED
    BY <1>1, <1>2, <1>3, <1>4, <1>5 DEF Handle

\* A read-only key changes its value only in a command of the session that
\* holds it, whatever was released and taken again in between.  The command is
\* known by its journal entry, so the journal must hold one.
THEOREM RoProtectedHolds == ASSUME JournalSize > 0 PROVE Spec => RoProtected
  <1>1. ASSUME IInv(NoCut), [Next]_vars PROVE [OwnerActs]_vars
    <2>1. CASE UNCHANGED vars
      BY <2>1
    <2>2. ASSUME NEW s \in Sessions, Connect(s) \/ Hangup(s) \/ Handle(s) PROVE OwnerActs
      <3>1. CASE UNCHANGED data
        BY <3>1 DEF OwnerActs
      <3>. QED
        BY <1>1, <2>2, <3>1, OtherStepsKeepData, KSETActs, ManyKeysActs
    <2>. QED
      BY <1>1, <2>1, <2>2 DEF Next
  <1>. QED
    BY <1>1, Inductive, PTL DEF Spec, RoProtected, OwnerActs

-----------------------------------------------------------------------------
(***************************************************************************)
(* Server implements KeyTable: every step of a handler is, on the keys and *)
(* the sessions, a step of the abstract table or none.                     *)
(***************************************************************************)

TableStep == [Table!Next]_<<data, owners, stage>>

\* Handler s goes to l: what its stage becomes.
LEMMA StageMoves ==
  ASSUME pc \in [Sessions -> Pcs], NEW s \in Sessions, NEW l, Goto(s, l)
  PROVE  /\ stage' = [stage EXCEPT ![s] = Stage(l)]
         /\ Stage(l) = Stage(pc[s]) => stage' = stage
         /\ stage[s] = Stage(pc[s])
  BY DEF stage, Goto

\* Steps that leave the store alone and keep the handler where its commands come
\* from, or in close().
LEMMA TableStutters ==
  ASSUME pc \in [Sessions -> Pcs], NEW s \in Sessions, UNCHANGED <<data, owners>>,
         \/ UNCHANGED pc
         \/ \E l \in Pcs : Goto(s, l) /\ Stage(l) = Stage(pc[s])
  PROVE  TableStep
  <1>1. CASE UNCHANGED pc
    BY <1>1 DEF TableStep, stage
  <1>2. CASE \E l \in Pcs : Goto(s, l) /\ Stage(l) = Stage(pc[s])
    <2>1. stage' = stage
      BY <1>2, StageMoves
    <2>. QED
      BY <2>1 DEF TableStep
  <1>. QED
    BY <1>1, <1>2

\* A connection is accepted.
LEMMA TableJoins ==
  ASSUME TypeOK, NEW s \in Sessions, Connect(s)
  PROVE  TableStep
  <1>0. pc \in [Sessions -> Pcs] /\ pc[s] = "new" /\ UNCHANGED <<data, owners>>
    BY DEF TypeOK, Connect, kvVars
  <1>1. PICK l \in {"greet", "idle"} : Goto(s, l)
    BY DEF Connect, Publish
  <1>2. Stage(l) = "there" /\ Stage(pc[s]) = "new"
    BY <1>0, <1>1 DEF Stage
  <1>3. Table!Join(s)
    BY <1>0, <1>1, <1>2, StageMoves DEF Table!Join
  <1>. QED
    BY <1>3 DEF TableStep, Table!Next

\* close() goes on, wherever the handler was: it stays there until it gives back
\* its keys.
LEMMA TableLeaves ==
  ASSUME TypeOK, NEW s \in Sessions, Stage(pc[s]) = "there", NEW ls, Unlock(s, ls) \/ Depart(s, ls)
  PROVE  TableStep
  <1>0. pc \in [Sessions -> Pcs]
    BY DEF TypeOK
  <1>1. CASE Unlock(s, ls)
    BY <1>0, <1>1, TableStutters DEF Unlock, kvVars, Stage, Pcs
  <1>2. CASE Depart(s, ls)
    <2>1. PICK l \in {"bye", "gone"} : Goto(s, l)
      BY <1>2 DEF Depart, Publish
    <2>2. Stage(l) = "left"
      BY <2>1 DEF Stage
    <2>3. Table!Leave(s)
      BY <1>0, <1>2, <2>1, <2>2, StageMoves DEF Table!Leave, Depart, ReleaseOwner
    <2>. QED
      BY <2>3 DEF TableStep, Table!Next
  <1>. QED
    BY <1>1, <1>2

\* A command that changes keys of its own.
LEMMA TableChanges ==
  ASSUME TypeOK, KVTypeOK', NEW s \in Sessions, pc[s] = "queued",
         NEW l \in {"run", "cast", "idle"}, Goto(s, l),
         NEW K \in SUBSET Keys, \A k \in K : ~Refused(k, s),
         \A k \in K : owners'[k] \in {NoSession, s} /\ (data'[k] = NoValue => owners'[k] = NoSession),
         \A k \in Keys \ K : data'[k] = data[k] /\ owners'[k] = owners[k]
  PROVE  TableStep
  <1>1. Stage(l) = "there" /\ Stage(pc[s]) = "there"
    BY DEF Stage
  <1>2. stage[s] = "there" /\ stage' = stage
    BY <1>1, StageMoves DEF TypeOK
  <1>3. K \in SUBSET (Keys \ Reserved) /\ \A k \in K : owners[k] \in {NoSession, s}
    BY DEF Refused
  <1>4. Table!Change(s, K)
    BY <1>2, <1>3 DEF Table!Change, KVTypeOK
  <1>. QED
    BY <1>3, <1>4 DEF TableStep, Table!Next

\* The answer of a command leaves the handler there.
LEMMA AnswerGoes ==
  ASSUME NEW s \in Sessions, NEW status, Answer(s, status)
  PROVE  \E l \in {"cast", "idle"} : Goto(s, l)
  BY DEF Answer, Respond, Publish

\* KSET changes its key, or nothing.
LEMMA KSETChanges ==
  ASSUME TypeOK, KVTypeOK', NEW s \in Sessions, NEW k \in Keys, NEW v \in Values,
         NEW flags \in SUBSET {"NX", "XX", "RO"}, KSET(s, k, v, flags)
  PROVE  TableStep
  <1>0. pc \in [Sessions -> Pcs] /\ pc[s] = "queued" /\ KVTypeOK
    BY DEF TypeOK, KSET, Executes
  <1>1. PICK l \in {"run", "cast", "idle"} : Goto(s, l)
    BY AnswerGoes DEF KSET
  <1>2. CASE UNCHANGED kvVars
    BY <1>0, <1>1, <1>2, TableStutters DEF kvVars, Stage, Pcs
  <1>3. CASE ~UNCHANGED kvVars
    <2>1. ~Refused(k, s) /\ Set(k, v, "RO" \in flags, s)
      BY <1>3 DEF KSET
    <2>2. owners[k] \in {s, NoSession} /\ v # NoValue
      BY <2>1, ValueAssumption DEF Refused
    <2>3. data'[k] = v /\ owners'[k] \in {NoSession, s}
      BY <1>0, <2>1, <2>2 DEF Set, KVTypeOK
    <2>4. \A j \in Keys \ {k} : data'[j] = data[j] /\ owners'[j] = owners[j]
      BY <1>0, <2>1 DEF Set, KVTypeOK
    <2>5. PICK K \in SUBSET Keys : K = {k}
      OBVIOUS
    <2>6. \A j \in K : /\ ~Refused(j, s) /\ owners'[j] \in {NoSession, s}
                       /\ data'[j] = NoValue => owners'[j] = NoSession
      BY <2>1, <2>2, <2>3, <2>5
    <2>. QED
      BY <1>0, <1>1, <2>4, <2>5, <2>6, TableChanges
  <1>. QED
    BY <1>2, <1>3

\* KMSET changes the keys it names, or nothing.
LEMMA KMSETChanges ==
  ASSUME TypeOK, KVTypeOK', NEW s \in Sessions, NEW K \in SUBSET Keys, NEW v \in [K -> Values],
         KMSET(s, v)
  PROVE  TableStep
  <1>0. pc \in [Sessions -> Pcs] /\ pc[s] = "queued" /\ KVTypeOK
    BY DEF TypeOK, KMSET, Executes
  <1>1. PICK l \in {"cast", "idle"} : Goto(s, l)
    BY AnswerGoes DEF KMSET
  <1>2. CASE UNCHANGED kvVars
    BY <1>0, <1>1, <1>2, TableStutters DEF kvVars, Stage, Pcs
  <1>3. CASE ~UNCHANGED kvVars
    <2>1. MSet(v) /\ \A k \in K : ~Refused(k, s)
      BY <1>3 DEF KMSET
    <2>2. \A k \in K : data'[k] # NoValue /\ owners'[k] \in {NoSession, s}
      BY <2>1, ValueAssumption DEF MSet, Refused
    <2>3. \A k \in Keys \ K : data'[k] = data[k] /\ owners'[k] = owners[k]
      BY <2>1 DEF MSet
    <2>. QED
      BY <1>0, <1>1, <2>1, <2>2, <2>3, TableChanges
  <1>. QED
    BY <1>2, <1>3

\* KDEL and KFLUSH drop keys of their own, values and leases together.
LEMMA DropChanges ==
  ASSUME TypeOK, KVTypeOK', NEW s \in Sessions, pc[s] = "queued",
         NEW l \in {"run", "cast", "idle"}, Goto(s, l),
         NEW K \in SUBSET Keys, \A k \in K : ~Refused(k, s), Drop(K)
  PROVE  TableStep
  <1>1. \A k \in K : owners'[k] = NoSession
    BY DEF Drop
  <1>2. \A k \in Keys \ K : data'[k] = data[k] /\ owners'[k] = owners[k]
    BY DEF Drop
  <1>. QED
    BY <1>1, <1>2, TableChanges

\* KDEL.
LEMMA KDELChanges ==
  ASSUME TypeOK, KVTypeOK', NEW s \in Sessions, NEW K \in SUBSET Keys, KDEL(s, K)
  PROVE  TableStep
  <1>0. pc \in [Sessions -> Pcs] /\ pc[s] = "queued"
    BY DEF TypeOK, KDEL, Executes
  <1>1. PICK l \in {"cast", "idle"} : Goto(s, l)
    BY AnswerGoes DEF KDEL
  <1>2. CASE UNCHANGED kvVars
    BY <1>0, <1>1, <1>2, TableStutters DEF kvVars, Stage, Pcs
  <1>3. CASE ~UNCHANGED kvVars
    <2>1. PICK D \in SUBSET Keys : D = K \cap {k \in Keys : data[k] # NoValue}
      OBVIOUS
    <2>2. Drop(D) /\ \A k \in D : ~Refused(k, s)
      BY <1>3, <2>1 DEF KDEL
    <2>. QED
      BY <1>0, <1>1, <2>2, DropChanges
  <1>. QED
    BY <1>2, <1>3

\* KFLUSH.
LEMMA KFLUSHChanges ==
  ASSUME TypeOK, KVTypeOK', NEW s \in Sessions, KFLUSH(s)
  PROVE  TableStep
  <1>0. pc[s] = "queued"
    BY DEF KFLUSH, Executes
  <1>1. PICK l \in {"cast", "idle"} : Goto(s, l)
    BY AnswerGoes DEF KFLUSH
  <1>2. PICK D \in SUBSET Keys : D = {k \in Keys : data[k] # NoValue /\ ~Refused(k, s)}
    OBVIOUS
  <1>3. Drop(D) /\ \A k \in D : ~Refused(k, s)
    BY <1>2 DEF KFLUSH, FlushDB
  <1>. QED
    BY <1>0, <1>1, <1>3, DropChanges

\* Every command is a change of keys, or no step of the table.
LEMMA ExecuteChanges ==
  ASSUME TypeOK, KVTypeOK', NEW s \in Sessions, Execute(s)
  PROVE  TableStep
  <1>0. pc \in [Sessions -> Pcs]
    BY DEF TypeOK
  <1>1. ASSUME JOURNALClear(s) \/ PING(s) \/ \E status \in {"ok", "error"} : KGET(s, status)
        PROVE  TableStep
    <2>1. UNCHANGED <<data, owners>> /\ pc[s] = "queued"
      BY <1>1 DEF JOURNALClear, PING, KGET, kvVars, Executes
    <2>2. \E l \in {"cast", "idle"} : Goto(s, l)
      BY <1>1 DEF JOURNALClear, PING, KGET, Answer, Respond, Publish
    <2>. QED
      BY <1>0, <2>1, <2>2, TableStutters DEF Stage, Pcs
  <1>2. CASE MONITOR(s)
    BY <1>0, <1>2, TableStutters DEF MONITOR, kvVars, Stage, Pcs
  <1>3. ASSUME NEW cs, UNSUBSCRIBE(s, cs) \/ \E invalid \in BOOLEAN : SUBSCRIBE(s, cs, invalid)
        PROVE  TableStep
    <2>1. UNCHANGED <<data, owners>> /\ pc[s] = "queued"
      BY <1>3 DEF UNSUBSCRIBE, SUBSCRIBE, kvVars, Executes
    <2>2. \E l \in {"cast", "idle"} : Goto(s, l)
      BY <1>3, AnswerGoes DEF UNSUBSCRIBE, SUBSCRIBE
    <2>. QED
      BY <1>0, <2>1, <2>2, TableStutters DEF Stage, Pcs
  <1>. QED
    BY <1>1, <1>2, <1>3, KSETChanges, KMSETChanges, KDELChanges, KFLUSHChanges, Zenon DEF Execute

\* Whatever a publication ends in: the handler stays there, or leaves.
LEMMA PublishesTable ==
  ASSUME TypeOK, NEW s \in Sessions, Publishes(s)
  PROVE  TableStep
  <1>0. pc \in [Sessions -> Pcs]
    BY DEF TypeOK
  <1>1. CASE Visit(s, Lost) /\ UNCHANGED <<kvVars, entries, pc, alive, modeVars, dispatchq>>
    BY <1>0, <1>1, TableStutters DEF kvVars
  <1>2. CASE GreetReturns(s) \/ CastReturns(s) \/ BecomeMonitor(s)
    <2>1. /\ pc[s] \in {"greet", "cast", "reply"} /\ Goto(s, "idle")
          /\ UNCHANGED <<data, owners>>
      BY <1>2 DEF GreetReturns, CastReturns, BecomeMonitor, kvVars
    <2>. QED
      BY <1>0, <2>1, TableStutters DEF Stage, Pcs
  <1>3. CASE KSETReturns(s)
    <2>1. pc[s] = "run" /\ UNCHANGED <<data, owners>>
      BY <1>3 DEF KSETReturns, kvVars
    <2>2. \E l \in {"cast", "idle"} : Goto(s, l)
      BY <1>3, AnswerGoes DEF KSETReturns
    <2>. QED
      BY <1>0, <2>1, <2>2, TableStutters DEF Stage, Pcs
  <1>4. CASE GreetRaises(s) \/ CastRaises(s) \/ ReplyRaises(s)
    <2>1. pc[s] \in {"greet", "cast", "reply"} /\ BeginClose(s)
      BY <1>4 DEF GreetRaises, CastRaises, ReplyRaises, Close
    <2>. QED
      BY <2>1, TableLeaves DEF Stage, BeginClose
  <1>5. CASE ByeEnds(s)
    BY <1>0, <1>5, TableStutters DEF ByeEnds, kvVars, Stage, Pcs
  <1>6. CASE DropGoesOn(s) \/ DropEnds(s)
    <2>1. Stage(pc[s]) = "there" /\ \E ls : Unlock(s, ls) \/ Depart(s, ls)
      BY <1>6 DEF DropGoesOn, DropEnds, Stage
    <2>. QED
      BY <2>1, TableLeaves
  <1>. QED
    BY <1>1, <1>2, <1>3, <1>4, <1>5, <1>6 DEF Publishes

\* Every step of a handler and of its client.
LEMMA SessionTable ==
  ASSUME TypeOK, KVTypeOK', NEW s \in Sessions, Connect(s) \/ Hangup(s) \/ Handle(s)
  PROVE  TableStep
  <1>0. pc \in [Sessions -> Pcs]
    BY DEF TypeOK
  <1>1. CASE Hangup(s)
    BY <1>0, <1>1, TableStutters DEF Hangup, kvVars
  <1>2. CASE Leave(s)
    BY <1>2, TableLeaves DEF Leave, Close, BeginClose, Stage
  <1>3. CASE Closed(s)
    BY <1>0, <1>3, TableStutters DEF Closed, kvVars, Stage, Pcs
  <1>4. CASE Receive(s) \/ ReceiveMONITOR(s)
    <2>1. /\ pc[s] = "idle" /\ UNCHANGED <<data, owners>>
          /\ Goto(s, "queued") \/ Goto(s, "monitor")
      BY <1>4 DEF Receive, ReceiveMONITOR, kvVars
    <2>. QED
      BY <1>0, <2>1, TableStutters DEF Stage, Pcs
  <1>5. CASE ReceiveRejected(s)
    BY <1>0, <1>5, TableStutters DEF ReceiveRejected, kvVars
  <1>. QED
    BY <1>1, <1>2, <1>3, <1>4, <1>5, TableJoins, ExecuteChanges, PublishesTable DEF Handle

\* The key-value store behind its handlers is the abstract table, for any number
\* of sessions and keys: a key that a session holds (KSET ... RO) is changed by
\* that session alone, until it gives it back or ends.  close() gives back all of
\* them at once, whichever exception or disconnect brought it about.  (stop() may
\* cut close() short before: see StopCleansUp in Shutdown.)  Unlike
\* RoProtected this needs no journal to tell whose command it was.
THEOREM ImplementsKeyTable == Spec => KeySpec
  <1>1. Init => Table!Init
    <2>1. Stage("new") = "new"
      BY DEF Stage
    <2>. QED
      BY <2>1 DEF Init, KVInit, Table!Init, stage
  <1>2. TypeOK /\ TypeOK' /\ [Next]_vars => TableStep
    <2>1. CASE UNCHANGED vars
      BY <2>1 DEF vars, kvVars, TableStep, stage
    <2>. QED
      BY <2>1, SessionTable DEF Next, TypeOK
  <1>. QED
    BY <1>1, <1>2, TypeCorrect, PTL DEF KeySpec, Table!Spec, Spec, TableStep

=============================================================================
