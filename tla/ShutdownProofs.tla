---------------------------- MODULE ShutdownProofs ----------------------------
(***************************************************************************)
(* Proofs about Shutdown: the invariant of Server holds of the sessions    *)
(* also while stop() cancels their handlers, wherever each of them is, but *)
(* for the subscriptions and keys of those whose close() it cut short.     *)
(***************************************************************************)
EXTENDS Shutdown, ServerProofs, PicksProofs

\* A handler that is cancelled leaves the line, wherever it stands in it: the
\* others keep their order, and the head keeps the lock.
LEMMA CancelledLeavesLine ==
  ASSUME LineUp, dispatchq \in Seq(Sessions), pc \in [Sessions -> Pcs],
         NEW s \in Sessions, NEW l \in {"drop", "bye", "gone"}, Goto(s, l),
         dispatchq' = Without(dispatchq, {s})
  PROVE  LineUp' /\ dispatchq' \in Seq(Sessions)
  <1>. DEFINE w == Without(dispatchq, {s})
              K == {i \in 1 .. Len(dispatchq) : dispatchq[i] \notin {s}}
  <1>0. w \in Seq(Sessions) /\ Len(w) \in Nat /\ Len(dispatchq) \in Nat /\ dispatchq' = w
    BY WithoutElements, LenProperties
  <1>1. Selection(w, dispatchq, K)
    BY WithoutElements
  <1>. HIDE DEF w
  <1>2. PICK at \in [1 .. Len(w) -> K] :
           /\ \A j \in 1 .. Len(w) : w[j] = dispatchq[at[j]]
           /\ \A i \in K : \E j \in 1 .. Len(w) : at[j] = i
           /\ \A j, k \in 1 .. Len(w) : j < k => at[j] < at[k]
    BY <1>1 DEF Selection
  <1>3. \A t \in Sessions : InLine(t)' <=> (InLine(t) /\ t # s)
    BY DEF InLine, Goto
  <1>4. \A t \in Sessions : InLine(t)' <=> \E j \in 1 .. Len(w) : w[j] = t
    <2>. TAKE t \in Sessions
    <2>1. ASSUME InLine(t), t # s PROVE \E j \in 1 .. Len(w) : w[j] = t
      <3>1. PICK i \in 1 .. Len(dispatchq) : dispatchq[i] = t
        BY <2>1 DEF LineUp
      <3>2. i \in K
        BY <2>1, <3>1
      <3>. QED
        BY <1>2, <3>1, <3>2
    <2>2. ASSUME NEW j \in 1 .. Len(w), w[j] = t PROVE InLine(t) /\ t # s
      <3>1. at[j] \in K /\ dispatchq[at[j]] = t
        BY <1>2, <2>2
      <3>. QED
        BY <3>1 DEF LineUp
    <2>. QED
      BY <1>3, <2>1, <2>2
  <1>5. \A j, k \in 1 .. Len(w) : w[j] = w[k] => j = k
    <2>. SUFFICES ASSUME NEW j \in 1 .. Len(w), NEW k \in 1 .. Len(w), w[j] = w[k], j # k
                  PROVE  FALSE
      OBVIOUS
    <2>1. at[j] \in 1 .. Len(dispatchq) /\ at[k] \in 1 .. Len(dispatchq)
      BY <1>2
    <2>2. at[j] = at[k]
      BY <1>2, <2>1 DEF LineUp
    <2>3. j < k \/ k < j
      BY <1>0
    <2>4. at[j] < at[k] \/ at[k] < at[j]
      BY <1>2, <2>3
    <2>. QED
      BY <1>0, <2>1, <2>2, <2>4
  <1>6. ASSUME NEW t \in Sessions, pc'[t] = "run" PROVE w[1] = t
    <2>1. t # s /\ pc[t] = "run"
      BY <1>6 DEF Goto
    <2>2. dispatchq[1] = t /\ 1 \in K
      BY <1>0, <2>1 DEF LineUp, InLine
    <2>3. PICK j \in 1 .. Len(w) : at[j] = 1
      BY <1>2, <2>2
    <2>4. j = 1
      <3>. SUFFICES ASSUME 1 < j PROVE FALSE
        BY <1>0
      <3>1. 1 \in 1 .. Len(w)
        BY <1>0
      <3>2. at[1] \in 1 .. Len(dispatchq) /\ at[1] < 1
        BY <1>2, <2>3, <3>1
      <3>. QED
        BY <1>0, <3>2
    <2>. QED
      BY <1>2, <2>2, <2>3, <2>4
  <1>. QED
    BY <1>0, <1>4, <1>5, <1>6 DEF LineUp

\* CancelledError outside close(): close() begins.
LEMMA CancelledStep ==
  ASSUME NEW cut, IInv(cut), NEW s \in Sessions, Cancelled(s)
  PROVE  IInv(cut)'
  <1>1. ASSUME NEW l \in {"drop", "bye", "gone"}, Goto(s, l)
        PROVE  LineUp' /\ dispatchq' \in Seq(Sessions)
    BY <1>1, CancelledLeavesLine DEF IInv, TypeOK, Cancelled
  <1>. QED
    BY <1>1, BeginCloseStep DEF Cancelled

\* CancelledError in close(): the session joins those that may leave something
\* behind, depending on where it was, and is no monitor in any case.
LEMMA CancelledInCloseStep ==
  ASSUME NEW cut \in [Sessions -> {"no"} \cup InClose], IInv(cut),
         NEW s \in Sessions, CancelledInClose(s), NEW at, at = [cut EXCEPT ![s] = pc[s]]
  PROVE  IInv(at)'
  <1>. USE DEF CancelledInClose, InClose
  <1>0. BusTypeOK /\ pc \in [Sessions -> Pcs]
    BY DEF IInv, TypeOK
  <1>1. "closed" \in Pcs /\ ListOf("closed") = "none"
    BY DEF Pcs, ListOf
  <1>2. pub' \in [Sessions -> PubType] /\ PubLists'
    BY <1>0, <1>1, UnpublishEffect DEF IInv
  <1>3. LineUp'
    BY <1>0, <1>1, KeepsLine DEF IInv, InLine
  <1>4. /\ listeners' \in [Lists -> SUBSET Listener]
        /\ \A b \in Lists : listeners'[b] \subseteq listeners[b]
        /\ \A x \in listeners'["monitors"] : x[1] # s
    BY <1>0, WithoutListenerRemoves DEF BusTypeOK, Lists
  <1>5. FiniteLists'
    BY <1>0, <1>4, FewerListeners DEF IInv
  <1>6. Unlisted(at)'
    BY <1>0, <1>4 DEF IInv, Unlisted, Goto, Lists
  <1>7. ModesSettled' /\ ModesExclusive'
    BY <1>0, <1>4 DEF IInv, ModesSettled, ModesExclusive, Goto, Lists, modeVars
  <1>8. KVTypeOK' /\ Leases(at)'
    BY <1>0 DEF IInv, TypeOK, KVTypeOK, Leases, Goto, kvVars
  <1>9. TypeOK'
    BY <1>0, <1>1, <1>2, <1>4, <1>8 DEF IInv, TypeOK, BusTypeOK, PubType, Goto, modeVars
  <1>. QED
    BY <1>2, <1>3, <1>5, <1>6, <1>7, <1>8, <1>9 DEF IInv

\* The inductive invariant of the server that is being stopped.
SInv == cutShort \in [Sessions -> {"no"} \cup InClose] /\ IInv(cutShort)

\* Before stop(), no cleanup has been cut short.
LEMMA InitSInv == StopInit => SInv
  BY InitIInv DEF StopInit, SInv, NoCut

\* Every step preserves it: those of stop() and those of the handlers around it.
LEMMA NextSInv == SInv /\ [StopNext]_allVars => SInv'
  <1>. SUFFICES ASSUME SInv, [StopNext]_allVars PROVE SInv'
    OBVIOUS
  <1>. PICK cut : cut = cutShort
    OBVIOUS
  <1>0. IInv(cut) /\ cut \in [Sessions -> {"no"} \cup InClose]
    BY DEF SInv
  <1>1. ASSUME IInv(cut)', UNCHANGED cutShort PROVE SInv'
    BY <1>0, <1>1 DEF SInv, IInv, Unlisted, Leases
  <1>2. ASSUME NEW s \in Sessions, Connect(s) \/ Hangup(s) \/ Handle(s), UNCHANGED stopVars
        PROVE  SInv'
    BY <1>0, <1>1, <1>2, ConnectStep, HangupStep, HandleStep DEF stopVars
  <1>3. ASSUME NEW s \in Sessions, Cancelled(s) PROVE SInv'
    BY <1>0, <1>1, <1>3, CancelledStep DEF Cancelled
  <1>4. ASSUME NEW s \in Sessions, CancelledInClose(s) PROVE SInv'
    <2>1. PICK at : at = [cut EXCEPT ![s] = pc[s]]
      OBVIOUS
    <2>2. IInv(at)' /\ cutShort' = at /\ at \in [Sessions -> {"no"} \cup InClose]
      BY <1>0, <1>4, <2>1, CancelledInCloseStep DEF CancelledInClose
    <2>. QED
      BY <2>2 DEF SInv, IInv, Unlisted, Leases
  <1>5. ASSUME UNCHANGED <<vars, cutShort>> PROVE SInv'
    BY <1>0, <1>1, <1>5, UnchangedStep
  <1>6. CASE StopNext
    BY <1>2, <1>3, <1>4, <1>5, <1>6 DEF StopNext, Interrupt, Stop, Gathered, Stopped
  <1>. QED
    BY <1>5, <1>6 DEF allVars, stopVars

\* Every behaviour of the server that is being stopped keeps it.
THEOREM StopInductive == StopSpec => []SInv
  BY InitSInv, NextSInv, PTL DEF StopSpec

\* Wherever the handlers are when stop() cancels them, and whatever they do
\* meanwhile, a session that is over has left the monitors and the dispatch
\* lock; its subscriptions and keys too, but for those that its close() had not
\* come to when it was cut short.
THEOREM ClosedLeavesNothingHolds == StopSpec => []ClosedLeavesNothing
  <1>1. ASSUME SInv PROVE ClosedLeavesNothing
    <2>1. LineUp /\ dispatchq \in Seq(Sessions) /\ Unlisted(cutShort)
      BY <1>1 DEF SInv, IInv, TypeOK
    <2>2. DOMAIN dispatchq = 1 .. Len(dispatchq)
      BY <2>1, LenProperties
    <2>3. Leases(cutShort) /\ NoSession \notin Sessions
      BY <1>1, SessionAssumption DEF SInv, IInv
    <2>. SUFFICES ASSUME NEW s \in Sessions, pc[s] = "closed"
                  PROVE  /\ \A b \in Lists : \A l \in listeners[b] :
                               l[1] = s => s \in Dangling /\ b # "monitors"
                         /\ \A k \in Keys : owners[k] = s => cutShort[s] = "drop"
                         /\ \A i \in DOMAIN dispatchq : dispatchq[i] # s
      BY DEF ClosedLeavesNothing
    <2>4. \A b \in Lists : \A l \in listeners[b] : l[1] = s => s \in Dangling /\ b # "monitors"
      BY <2>1 DEF Unlisted, Lists, Dangling
    <2>5. \A k \in Keys : owners[k] = s => cutShort[s] = "drop"
      BY <2>3 DEF Leases
    <2>6. \A i \in DOMAIN dispatchq : dispatchq[i] # s
      BY <2>1, <2>2 DEF LineUp, InLine
    <2>. QED
      BY <2>4, <2>5, <2>6
  <1>. QED
    BY <1>1, StopInductive, PTL

\* What else of the server's promises survives stop(): modes and the dispatch
\* lock.  The leases of read-only keys do not, as far as close() was cut short at
\* an instrument: only then is a key left with a session that has gone.
THEOREM StopKeepsOrder ==
  StopSpec => [](TypeOK /\ ModesExclusive /\ DispatchConsistent /\ Leases(cutShort))
  <1>1. ASSUME SInv PROVE TypeOK /\ ModesExclusive /\ DispatchConsistent /\ Leases(cutShort)
    BY <1>1, DispatchIsConsistent DEF SInv, IInv
  <1>. QED
    BY <1>1, StopInductive, PTL
=============================================================================
