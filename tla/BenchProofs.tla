----------------------------- MODULE BenchProofs -----------------------------
(***************************************************************************)
(* Proofs about Bench, for every set of instruments, resources, sessions,  *)
(* commands and call outcomes; at the end, that it implements LockTable.   *)
(***************************************************************************)
EXTENDS Bench, TLAPS

\* A command calls the drivers of registered instruments only, and a health
\* task belongs to a registered instrument.
TasksOnRegistered ==
    /\ cmd.at \subseteq reg
    /\ \A n \in Names : health[n] # "off" => n \in reg

\* The inductive invariant.
IInv ==
    /\ TypeOK
    /\ StateMatchesFields
    /\ OwnerWillRelease
    /\ OwnerDuringCall
    /\ GuardsOwned
    /\ TasksOnRegistered

\* The server starts in IInv.
LEMMA InitIInv == Init => IInv
  <1>. SUFFICES ASSUME Init PROVE IInv
    OBVIOUS
  <1>. USE DEF Init, InstInit, MeasInit, WatchInit, HealthInit, NoCmd
  <1>1. TypeOK
    BY DEF TypeOK, InstTypeOK, MeasTypeOK, WatchTypeOK, HealthTypeOK,
           SessionTypeOK, InstrumentState, MeasStatus, WatchPc, Ops,
           HEALTH_MAX_FAILURES, CmdType
  <1>2. StateMatchesFields
    BY DEF StateMatchesFields
  <1>3. OwnerWillRelease
    BY DEF OwnerWillRelease
  <1>4. OwnerDuringCall
    BY DEF OwnerDuringCall
  <1>5. GuardsOwned
    BY DEF GuardsOwned
  <1>6. TasksOnRegistered
    BY DEF TasksOnRegistered
  <1>. QED
    BY <1>1, <1>2, <1>3, <1>4, <1>5, <1>6 DEF IInv

-----------------------------------------------------------------------------
(* What the MEAS operations do to the type of meas. *)

\* write_meas keeps the type of the MEAS entries.
LEMMA WriteMeasType ==
  ASSUME MeasTypeOK, NEW n \in Names, NEW r, NEW status \in MeasStatus,
         WriteMeas(n, r, status)
  PROVE  MeasTypeOK'
  BY DEF MeasTypeOK, WriteMeas

\* invalidate_meas keeps the type of the MEAS entries.
LEMMA InvalidateMeasType ==
  ASSUME MeasTypeOK, NEW N, InvalidateMeas(N)
  PROVE  MeasTypeOK'
  BY DEF MeasTypeOK, InvalidateMeas, MeasStatus

\* So does a step that leaves them alone.
LEMMA MeasKept ==
  ASSUME MeasTypeOK, UNCHANGED meas
  PROVE  MeasTypeOK'
  BY DEF MeasTypeOK

\* A running command is a well-typed record.
LEMMA CmdRecordType ==
  ASSUME NEW op \in Ops, NEW s \in Sessions \cup {NoOwner},
         NEW N \in SUBSET Names, NEW M \in SUBSET Names, NEW m \in BOOLEAN
  PROVE  [op |-> op, sess |-> s, at |-> N, rest |-> M, meas |-> m] \in CmdType
  BY DEF CmdType

\* _write_meas stores a MEAS status.
LEMMA StatusOfType == \A o : StatusOf(o) \subseteq MeasStatus
  BY DEF StatusOf, MeasStatus

-----------------------------------------------------------------------------
(* One lemma per action: it preserves the inductive invariant. *)

\* IADD preserves IInv.
LEMMA IADDStep ==
  ASSUME IInv, NEW s \in Sessions, NEW n \in Names, IADD(s, n)
  PROVE  IInv'
  <1>. USE DEF IInv, IADD, Dispatch, Add, StartHealth, busVars, sessionVars
  <1>1. TypeOK'
    BY DEF TypeOK, InstTypeOK, MeasTypeOK, WatchTypeOK, HealthTypeOK,
           SessionTypeOK, InstrumentState, HEALTH_MAX_FAILURES
  <1>2. StateMatchesFields'
    BY DEF StateMatchesFields, TypeOK, InstTypeOK
  <1>3. OwnerWillRelease'
    BY OwnerAssumption DEF OwnerWillRelease, TypeOK, InstTypeOK
  <1>4. OwnerDuringCall'
    BY DEF OwnerDuringCall, NoCmd
  <1>5. GuardsOwned'
    BY DEF GuardsOwned, StateMatchesFields, TypeOK, InstTypeOK
  <1>6. TasksOnRegistered'
    BY DEF TasksOnRegistered, TypeOK, HealthTypeOK
  <1>. QED
    BY <1>1, <1>2, <1>3, <1>4, <1>5, <1>6

\* IREMOVE preserves IInv.
LEMMA IREMOVEStep ==
  ASSUME IInv, NEW s \in Sessions, NEW n \in Names, IREMOVE(s, n)
  PROVE  IInv'
  <1>. USE DEF IInv, IREMOVE, Dispatch, Remove, StopInstruments, StopHealth,
               sessionVars
  <1>1. TypeOK'
    BY DEF TypeOK, InstTypeOK, MeasTypeOK, WatchTypeOK, HealthTypeOK,
           SessionTypeOK, InstrumentState, HEALTH_MAX_FAILURES, WatchPc,
           SafeState
  <1>2. StateMatchesFields'
    BY DEF StateMatchesFields, TypeOK, InstTypeOK
  <1>3. OwnerWillRelease'
    BY OwnerAssumption DEF OwnerWillRelease, TypeOK, InstTypeOK
  <1>4. OwnerDuringCall'
    BY DEF OwnerDuringCall, NoCmd
  <1>5. GuardsOwned'
    BY DEF GuardsOwned, TypeOK, InstTypeOK, WatchTypeOK
  <1>6. TasksOnRegistered'
    BY DEF TasksOnRegistered, TypeOK, HealthTypeOK, NoCmd
  <1>. QED
    BY <1>1, <1>2, <1>3, <1>4, <1>5, <1>6

\* IRESET preserves IInv.
LEMMA IRESETStep ==
  ASSUME IInv, NEW s \in Sessions, NEW n \in Names, IRESET(s, n)
  PROVE  IInv'
  <1>. USE DEF IInv, IRESET, Reset, Broken, busVars, healthVars, sessionVars
  <1>1. TypeOK'
    BY DEF TypeOK, InstTypeOK, MeasTypeOK, WatchTypeOK, HealthTypeOK,
           SessionTypeOK, InstrumentState
  <1>2. StateMatchesFields'
    BY DEF StateMatchesFields, TypeOK, InstTypeOK
  <1>3. OwnerWillRelease'
    BY DEF OwnerWillRelease, TypeOK, InstTypeOK
  <1>4. OwnerDuringCall'
    BY DEF OwnerDuringCall
  <1>5. GuardsOwned'
    BY DEF GuardsOwned
  <1>6. TasksOnRegistered'
    BY DEF TasksOnRegistered
  <1>. QED
    BY <1>1, <1>2, <1>3, <1>4, <1>5, <1>6

\* A driver call of a command that works on one instrument; a tracked one has
\* passed _require_lock.
LEMMA StartCallStep ==
  ASSUME IInv, NEW s \in Sessions, NEW n \in Names, NEW op \in Ops, NEW e,
         NEW m \in BOOLEAN, conn[s] = "open", n \in reg,
         op \in {"call", "mread"} => owner[n] = s, StartCall(s, op, n, e, m),
         UNCHANGED meas
  PROVE  IInv'
  <1>. USE DEF IInv, StartCall, Running, registryVars, healthVars
  <1>1. TypeOK'
    <2>1. InstTypeOK'
      BY DEF TypeOK, InstTypeOK
    <2>2. MeasTypeOK'
      BY MeasKept DEF TypeOK
    <2>3. WatchTypeOK'
      BY DEF TypeOK, WatchTypeOK
    <2>4. HealthTypeOK'
      BY DEF TypeOK, HealthTypeOK
    <2>5. SessionTypeOK'
      BY DEF TypeOK, SessionTypeOK, CmdType, Ops
    <2>. QED
      BY <2>1, <2>2, <2>3, <2>4, <2>5 DEF TypeOK
  <1>2. StateMatchesFields'
    BY DEF StateMatchesFields, TypeOK, InstTypeOK
  <1>3. OwnerWillRelease'
    BY DEF OwnerWillRelease, TypeOK, InstTypeOK
  <1>4. OwnerDuringCall'
    BY DEF OwnerDuringCall
  <1>5. GuardsOwned'
    BY DEF GuardsOwned
  <1>6. TasksOnRegistered'
    BY DEF TasksOnRegistered, TypeOK, HealthTypeOK
  <1>. QED
    BY <1>1, <1>2, <1>3, <1>4, <1>5, <1>6

\* IALIGN preserves IInv.
LEMMA IALIGNStep ==
  ASSUME IInv, NEW s \in Sessions, NEW N \in SUBSET Names, IALIGN(s, N)
  PROVE  IInv'
  <1>. USE DEF IInv, IALIGN, Alignable, Running, registryVars, healthVars
  <1>1. TypeOK'
    <2>1. InstTypeOK'
      BY DEF TypeOK, InstTypeOK
    <2>2. MeasTypeOK'
      BY MeasKept DEF TypeOK
    <2>3. WatchTypeOK'
      BY DEF TypeOK, WatchTypeOK
    <2>4. HealthTypeOK'
      BY DEF TypeOK, HealthTypeOK
    <2>5. SessionTypeOK'
      BY DEF TypeOK, SessionTypeOK, CmdType, Ops
    <2>. QED
      BY <2>1, <2>2, <2>3, <2>4, <2>5 DEF TypeOK
  <1>2. StateMatchesFields'
    BY DEF StateMatchesFields, TypeOK, InstTypeOK
  <1>3. OwnerWillRelease'
    BY DEF OwnerWillRelease, TypeOK, InstTypeOK
  <1>4. OwnerDuringCall'
    BY DEF OwnerDuringCall
  <1>5. GuardsOwned'
    BY DEF GuardsOwned
  <1>6. TasksOnRegistered'
    BY DEF TasksOnRegistered
  <1>. QED
    BY <1>1, <1>2, <1>3, <1>4, <1>5, <1>6

\* An ILOCK or IUNLOCK that is given the dispatch lock changes nothing but cmd.
LEMMA GivenLockStep ==
  ASSUME IInv, NEW s \in Sessions, NEW N \in SUBSET Names, NEW op \in {"lock", "unlock"},
         GivenLock(s, op, N)
  PROVE  IInv'
  <1>. USE DEF IInv, GivenLock, Running, instVars, healthVars
  <1>1. TypeOK'
    <2>1. op \in Ops /\ FALSE \in BOOLEAN
      BY DEF Ops
    <2>2. cmd' \in CmdType
      BY <2>1, CmdRecordType
    <2>. QED
      BY <2>2 DEF TypeOK, InstTypeOK, MeasTypeOK, WatchTypeOK, HealthTypeOK,
                  SessionTypeOK
  <1>2. StateMatchesFields' /\ OwnerWillRelease' /\ OwnerDuringCall'
    BY DEF StateMatchesFields, OwnerWillRelease, OwnerDuringCall
  <1>3. GuardsOwned' /\ TasksOnRegistered'
    BY DEF GuardsOwned, TasksOnRegistered
  <1>. QED
    BY <1>1, <1>2, <1>3

\* The session of an ILOCK or IUNLOCK that has the dispatch lock is connected.
Locking ==
    cmd.op \in {"lock", "unlock"} => cmd.sess \in Sessions /\ conn[cmd.sess] = "open"

\* HandleLock preserves IInv.
LEMMA HandleLockStep ==
  ASSUME IInv, Locking, HandleLock
  PROVE  IInv'
  <1>. USE DEF IInv, HandleLock, Take, Lockable, Locking, busVars, healthVars
  <1>1. TypeOK'
    <2>1. NoCmd \in CmdType
      BY DEF NoCmd, CmdType, Ops
    <2>. QED
      BY <2>1 DEF TypeOK, InstTypeOK, MeasTypeOK, WatchTypeOK, HealthTypeOK,
                  SessionTypeOK, InstrumentState
  <1>2. StateMatchesFields'
    BY DEF StateMatchesFields, TypeOK, InstTypeOK
  <1>3. OwnerWillRelease'
    BY DEF OwnerWillRelease, TypeOK, InstTypeOK, StateMatchesFields
  <1>4. OwnerDuringCall'
    BY DEF OwnerDuringCall, NoCmd
  <1>5. GuardsOwned'
    BY DEF GuardsOwned, TypeOK, InstTypeOK
  <1>6. TasksOnRegistered'
    BY DEF TasksOnRegistered, NoCmd
  <1>. QED
    BY <1>1, <1>2, <1>3, <1>4, <1>5, <1>6

\* UnlockRound preserves IInv.
LEMMA UnlockRoundStep ==
  ASSUME IInv, NEW s \in Sessions \cup {NoOwner}, NEW n \in Names,
         NEW M \in SUBSET Names, UnlockRound(s, n, M),
         cmd.op \in {"none", "unlock"}
  PROVE  IInv'
  <1>. USE DEF IInv, UnlockRound, RequireLock, ReleaseInst, StopInstruments,
               Unlock, Running, NoCmd, registryVars, healthVars
  <1>1. TypeOK'
    <2>1. InstTypeOK'
      BY DEF TypeOK, InstTypeOK, InstrumentState, SafeState
    <2>2. MeasTypeOK'
      BY MeasKept, InvalidateMeasType DEF TypeOK
    <2>3. WatchTypeOK'
      BY DEF TypeOK, WatchTypeOK, WatchPc
    <2>4. HealthTypeOK'
      BY DEF TypeOK, HealthTypeOK
    <2>5. SessionTypeOK'
      <3>1. \/ cmd' = NoCmd
            \/ cmd' = Running("unlock", s, {}, M, FALSE)
        OBVIOUS
      <3>2. "none" \in Ops /\ "unlock" \in Ops
        BY DEF Ops
      <3>3. CASE cmd' = NoCmd
        BY <3>2, <3>3, CmdRecordType DEF TypeOK, SessionTypeOK
      <3>4. CASE cmd' = Running("unlock", s, {}, M, FALSE)
        BY <3>2, <3>4, CmdRecordType DEF TypeOK, SessionTypeOK
      <3>. QED
        BY <3>1, <3>3, <3>4
    <2>. QED
      BY <2>1, <2>2, <2>3, <2>4, <2>5 DEF TypeOK
  <1>2. StateMatchesFields'
    BY DEF StateMatchesFields, TypeOK, InstTypeOK
  <1>3. OwnerWillRelease'
    BY OwnerAssumption DEF OwnerWillRelease, TypeOK, InstTypeOK
  <1>4. OwnerDuringCall'
    BY DEF OwnerDuringCall
  <1>5. GuardsOwned'
    BY DEF GuardsOwned, TypeOK, InstTypeOK, WatchTypeOK
  <1>6. TasksOnRegistered'
    BY DEF TasksOnRegistered
  <1>. QED
    BY <1>1, <1>2, <1>3, <1>4, <1>5, <1>6

\* IMREAD preserves IInv.
LEMMA IMREADStep ==
  ASSUME IInv, NEW s \in Sessions, NEW args \in Targets, IMREAD(s, args)
  PROVE  IInv'
  <1>. USE DEF IInv, IMREAD, Dispatch, RequireLock, Running, registryVars,
               healthVars
  <1>1. TypeOK'
    <2>1. InstTypeOK'
      BY DEF TypeOK, InstTypeOK
    <2>2. MeasTypeOK'
      BY MeasKept DEF TypeOK
    <2>3. WatchTypeOK'
      BY DEF TypeOK, WatchTypeOK
    <2>4. HealthTypeOK'
      BY DEF TypeOK, HealthTypeOK
    <2>5. SessionTypeOK'
      <3>. DEFINE N == {args[i][1] : i \in DOMAIN args}
      <3>1. N \subseteq Names
        BY DEF TypeOK, InstTypeOK
      <3>2. cmd' = Running("mread", s, N, {}, FALSE)
        OBVIOUS
      <3>. HIDE DEF N
      <3>3. cmd' \in CmdType
        BY <3>1, <3>2 DEF CmdType, Ops
      <3>. QED
        BY <3>3 DEF TypeOK, SessionTypeOK
    <2>. QED
      BY <2>1, <2>2, <2>3, <2>4, <2>5 DEF TypeOK
  <1>2. StateMatchesFields'
    BY DEF StateMatchesFields, TypeOK, InstTypeOK
  <1>3. OwnerWillRelease'
    BY DEF OwnerWillRelease, TypeOK, InstTypeOK
  <1>4. OwnerDuringCall'
    BY DEF OwnerDuringCall
  <1>5. GuardsOwned'
    BY DEF GuardsOwned
  <1>6. TasksOnRegistered'
    BY DEF TasksOnRegistered
  <1>. QED
    BY <1>1, <1>2, <1>3, <1>4, <1>5, <1>6

\* IREADRefused preserves IInv.
LEMMA IREADRefusedStep ==
  ASSUME IInv, NEW s \in Sessions, NEW n \in Names, NEW r \in Resources,
         IREADRefused(s, n, r)
  PROVE  IInv'
  <1>. USE DEF IInv, IREADRefused, instVars, healthVars, sessionVars
  <1>1. TypeOK'
    <2>1. InstTypeOK'
      BY DEF TypeOK, InstTypeOK
    <2>2. MeasTypeOK'
      BY MeasKept, WriteMeasType DEF TypeOK, MeasStatus
    <2>3. WatchTypeOK'
      BY DEF TypeOK, WatchTypeOK
    <2>4. HealthTypeOK'
      BY DEF TypeOK, HealthTypeOK
    <2>5. SessionTypeOK'
      BY DEF TypeOK, SessionTypeOK
    <2>. QED
      BY <2>1, <2>2, <2>3, <2>4, <2>5 DEF TypeOK
  <1>2. StateMatchesFields'
    BY DEF StateMatchesFields, TypeOK, InstTypeOK
  <1>3. OwnerWillRelease'
    BY DEF OwnerWillRelease, TypeOK, InstTypeOK
  <1>4. OwnerDuringCall'
    BY DEF OwnerDuringCall
  <1>5. GuardsOwned'
    BY DEF GuardsOwned
  <1>6. TasksOnRegistered'
    BY DEF TasksOnRegistered
  <1>. QED
    BY <1>1, <1>2, <1>3, <1>4, <1>5, <1>6

\* IWATCH preserves IInv.
LEMMA IWATCHStep ==
  ASSUME IInv, NEW s \in Sessions, NEW n \in Names, NEW r \in Resources,
         IWATCH(s, n, r)
  PROVE  IInv'
  <1>. USE DEF IInv, IWATCH, RequireLock, StartWatch, registryVars,
               healthVars, sessionVars
  <1>1. TypeOK'
    BY DEF TypeOK, InstTypeOK, MeasTypeOK, WatchTypeOK, HealthTypeOK,
           SessionTypeOK, WatchPc
  <1>2. StateMatchesFields'
    BY DEF StateMatchesFields, TypeOK, InstTypeOK
  <1>3. OwnerWillRelease'
    BY DEF OwnerWillRelease, TypeOK, InstTypeOK
  <1>4. OwnerDuringCall'
    BY DEF OwnerDuringCall
  <1>5. GuardsOwned'
    BY DEF GuardsOwned, TypeOK, WatchTypeOK
  <1>6. TasksOnRegistered'
    BY DEF TasksOnRegistered
  <1>. QED
    BY <1>1, <1>2, <1>3, <1>4, <1>5, <1>6

\* IUNWATCH preserves IInv.
LEMMA IUNWATCHStep ==
  ASSUME IInv, NEW s \in Sessions, NEW n \in Names, NEW r \in Resources,
         IUNWATCH(s, n, r)
  PROVE  IInv'
  <1>. USE DEF IInv, IUNWATCH, StopWatch, registryVars, healthVars,
               sessionVars
  <1>1. TypeOK'
    <2>1. InstTypeOK'
      BY DEF TypeOK, InstTypeOK
    <2>2. MeasTypeOK'
      BY MeasKept, WriteMeasType DEF TypeOK, MeasStatus
    <2>3. WatchTypeOK'
      BY DEF TypeOK, WatchTypeOK, WatchPc
    <2>4. HealthTypeOK'
      BY DEF TypeOK, HealthTypeOK
    <2>5. SessionTypeOK'
      BY DEF TypeOK, SessionTypeOK
    <2>. QED
      BY <2>1, <2>2, <2>3, <2>4, <2>5 DEF TypeOK
  <1>2. StateMatchesFields'
    BY DEF StateMatchesFields, TypeOK, InstTypeOK
  <1>3. OwnerWillRelease'
    BY DEF OwnerWillRelease, TypeOK, InstTypeOK
  <1>4. OwnerDuringCall'
    BY DEF OwnerDuringCall
  <1>5. GuardsOwned'
    BY DEF GuardsOwned, TypeOK, WatchTypeOK
  <1>6. TasksOnRegistered'
    BY DEF TasksOnRegistered
  <1>. QED
    BY <1>1, <1>2, <1>3, <1>4, <1>5, <1>6

\* IUNWATCHAll preserves IInv.
LEMMA IUNWATCHAllStep ==
  ASSUME IInv, NEW s \in Sessions, NEW N \in SUBSET Names, IUNWATCHAll(s, N)
  PROVE  IInv'
  <1>. USE DEF IInv, IUNWATCHAll, StopInstruments, registryVars, healthVars,
               sessionVars
  <1>1. TypeOK'
    <2>1. InstTypeOK'
      BY DEF TypeOK, InstTypeOK
    <2>2. MeasTypeOK'
      BY MeasKept, InvalidateMeasType DEF TypeOK
    <2>3. WatchTypeOK'
      BY DEF TypeOK, WatchTypeOK, WatchPc
    <2>4. HealthTypeOK'
      BY DEF TypeOK, HealthTypeOK
    <2>5. SessionTypeOK'
      BY DEF TypeOK, SessionTypeOK
    <2>. QED
      BY <2>1, <2>2, <2>3, <2>4, <2>5 DEF TypeOK
  <1>2. StateMatchesFields'
    BY DEF StateMatchesFields, TypeOK, InstTypeOK
  <1>3. OwnerWillRelease'
    BY DEF OwnerWillRelease, TypeOK, InstTypeOK
  <1>4. OwnerDuringCall'
    BY DEF OwnerDuringCall
  <1>5. GuardsOwned'
    BY DEF GuardsOwned, TypeOK, WatchTypeOK
  <1>6. TasksOnRegistered'
    BY DEF TasksOnRegistered
  <1>. QED
    BY <1>1, <1>2, <1>3, <1>4, <1>5, <1>6

\* CallReturns preserves IInv.
LEMMA CallReturnsStep ==
  ASSUME IInv, NEW n \in Names, NEW o \in Outcomes, CallReturns(n, o)
  PROVE  IInv'
  <1>. USE DEF IInv, CallReturns, AfterTrackedCall, AfterCall, Pop, NoCmd,
               healthVars
  <1>1. TypeOK'
    <2>1. InstTypeOK'
      BY DEF TypeOK, InstTypeOK, InstrumentState
    <2>2. MeasTypeOK'
      BY MeasKept, WriteMeasType, StatusOfType DEF TypeOK
    <2>3. WatchTypeOK'
      BY DEF TypeOK, WatchTypeOK
    <2>4. HealthTypeOK'
      BY DEF TypeOK, HealthTypeOK
    <2>5. SessionTypeOK'
      BY DEF TypeOK, SessionTypeOK, CmdType, Ops
    <2>. QED
      BY <2>1, <2>2, <2>3, <2>4, <2>5 DEF TypeOK
  <1>2. StateMatchesFields'
    BY DEF StateMatchesFields, TypeOK, InstTypeOK, TasksOnRegistered
  <1>3. OwnerWillRelease'
    BY DEF OwnerWillRelease, TypeOK, InstTypeOK
  <1>4. OwnerDuringCall'
    BY DEF OwnerDuringCall
  <1>5. GuardsOwned'
    BY DEF GuardsOwned
  <1>6. TasksOnRegistered'
    BY DEF TasksOnRegistered
  <1>. QED
    BY <1>1, <1>2, <1>3, <1>4, <1>5, <1>6

\* MreadReturns preserves IInv.
LEMMA MreadReturnsStep ==
  ASSUME IInv, NEW n \in Names, NEW o \in Outcomes, MreadReturns(n, o)
  PROVE  IInv'
  <1>. USE DEF IInv, MreadReturns, AfterTrackedCall, AfterCall, Pop, NoCmd,
               healthVars
  <1>1. TypeOK'
    <2>1. InstTypeOK'
      BY DEF TypeOK, InstTypeOK, InstrumentState
    <2>2. MeasTypeOK'
      BY MeasKept DEF TypeOK
    <2>3. WatchTypeOK'
      BY DEF TypeOK, WatchTypeOK
    <2>4. HealthTypeOK'
      BY DEF TypeOK, HealthTypeOK
    <2>5. SessionTypeOK'
      BY DEF TypeOK, SessionTypeOK, CmdType, Ops
    <2>. QED
      BY <2>1, <2>2, <2>3, <2>4, <2>5 DEF TypeOK
  <1>2. StateMatchesFields'
    BY DEF StateMatchesFields, TypeOK, InstTypeOK, TasksOnRegistered
  <1>3. OwnerWillRelease'
    BY DEF OwnerWillRelease, TypeOK, InstTypeOK
  <1>4. OwnerDuringCall'
    BY DEF OwnerDuringCall
  <1>5. GuardsOwned'
    BY DEF GuardsOwned
  <1>6. TasksOnRegistered'
    BY DEF TasksOnRegistered
  <1>. QED
    BY <1>1, <1>2, <1>3, <1>4, <1>5, <1>6

\* PlainCallEnds preserves IInv.
LEMMA PlainCallEndsStep ==
  ASSUME IInv, NEW n \in Names, NEW o \in Outcomes, PlainCallEnds(n, o)
  PROVE  IInv'
  <1>. USE DEF IInv, PlainCallEnds, AfterCall, Pop, NoCmd, healthVars
  <1>1. TypeOK'
    <2>1. InstTypeOK'
      BY DEF TypeOK, InstTypeOK, InstrumentState
    <2>2. MeasTypeOK'
      BY MeasKept DEF TypeOK
    <2>3. WatchTypeOK'
      BY DEF TypeOK, WatchTypeOK
    <2>4. HealthTypeOK'
      BY DEF TypeOK, HealthTypeOK
    <2>5. SessionTypeOK'
      BY DEF TypeOK, SessionTypeOK, CmdType, Ops
    <2>. QED
      BY <2>1, <2>2, <2>3, <2>4, <2>5 DEF TypeOK
  <1>2. StateMatchesFields'
    BY DEF StateMatchesFields, TypeOK, InstTypeOK, TasksOnRegistered
  <1>3. OwnerWillRelease'
    BY DEF OwnerWillRelease, TypeOK, InstTypeOK
  <1>4. OwnerDuringCall'
    BY DEF OwnerDuringCall
  <1>5. GuardsOwned'
    BY DEF GuardsOwned
  <1>6. TasksOnRegistered'
    BY DEF TasksOnRegistered
  <1>. QED
    BY <1>1, <1>2, <1>3, <1>4, <1>5, <1>6

\* InitContinues preserves IInv.
LEMMA InitContinuesStep ==
  ASSUME IInv, NEW n \in Names, InitContinues(n)
  PROVE  IInv'
  <1>. USE DEF IInv, InitContinues, registryVars, healthVars, sessionVars
  <1>1. TypeOK'
    BY DEF TypeOK, InstTypeOK, MeasTypeOK, WatchTypeOK, HealthTypeOK,
           SessionTypeOK
  <1>2. StateMatchesFields'
    BY DEF StateMatchesFields, TypeOK, InstTypeOK
  <1>3. OwnerWillRelease'
    BY DEF OwnerWillRelease, TypeOK, InstTypeOK
  <1>4. OwnerDuringCall'
    BY DEF OwnerDuringCall
  <1>5. GuardsOwned'
    BY DEF GuardsOwned
  <1>6. TasksOnRegistered'
    BY DEF TasksOnRegistered
  <1>. QED
    BY <1>1, <1>2, <1>3, <1>4, <1>5, <1>6

\* InitCompletes preserves IInv.
LEMMA InitCompletesStep ==
  ASSUME IInv, NEW n \in Names, InitCompletes(n)
  PROVE  IInv'
  <1>. USE DEF IInv, InitCompletes, BecomeReady, NoCmd, healthVars
  <1>1. TypeOK'
    <2>1. InstTypeOK'
      BY DEF TypeOK, InstTypeOK, InstrumentState
    <2>2. MeasTypeOK'
      BY MeasKept DEF TypeOK
    <2>3. WatchTypeOK'
      BY DEF TypeOK, WatchTypeOK
    <2>4. HealthTypeOK'
      BY DEF TypeOK, HealthTypeOK
    <2>5. SessionTypeOK'
      BY DEF TypeOK, SessionTypeOK, CmdType, Ops
    <2>. QED
      BY <2>1, <2>2, <2>3, <2>4, <2>5 DEF TypeOK
  <1>2. StateMatchesFields'
    BY DEF StateMatchesFields, TypeOK, InstTypeOK, TasksOnRegistered
  <1>3. OwnerWillRelease'
    BY DEF OwnerWillRelease, TypeOK, InstTypeOK
  <1>4. OwnerDuringCall'
    BY DEF OwnerDuringCall
  <1>5. GuardsOwned'
    BY DEF GuardsOwned
  <1>6. TasksOnRegistered'
    BY DEF TasksOnRegistered
  <1>. QED
    BY <1>1, <1>2, <1>3, <1>4, <1>5, <1>6

\* AlignContinues preserves IInv.
LEMMA AlignContinuesStep ==
  ASSUME IInv, NEW n \in Names, AlignContinues(n)
  PROVE  IInv'
  <1>. USE DEF IInv, AlignContinues, BecomeReady, Alignable, Running, NoCmd,
               healthVars
  <1>1. TypeOK'
    <2>1. InstTypeOK'
      BY DEF TypeOK, InstTypeOK, InstrumentState
    <2>2. MeasTypeOK'
      BY MeasKept DEF TypeOK
    <2>3. WatchTypeOK'
      BY DEF TypeOK, WatchTypeOK
    <2>4. HealthTypeOK'
      BY DEF TypeOK, HealthTypeOK
    <2>5. SessionTypeOK'
      <3>1. \/ cmd' = NoCmd
            \/ \E m \in cmd.rest :
                  cmd' = Running("align", cmd.sess, {m}, cmd.rest \ {m}, FALSE)
        OBVIOUS
      <3>2. /\ cmd.rest \subseteq Names
            /\ cmd.sess \in Sessions \cup {NoOwner}
        BY DEF TypeOK, SessionTypeOK, CmdType
      <3>3. "none" \in Ops /\ "align" \in Ops
        BY DEF Ops
      <3>4. CASE cmd' = NoCmd
        BY <3>3, <3>4, CmdRecordType DEF TypeOK, SessionTypeOK
      <3>5. ASSUME NEW m \in cmd.rest,
                   cmd' = Running("align", cmd.sess, {m}, cmd.rest \ {m}, FALSE)
            PROVE  SessionTypeOK'
        BY <3>2, <3>3, <3>5, CmdRecordType DEF TypeOK, SessionTypeOK
      <3>. QED
        BY <3>1, <3>4, <3>5
    <2>. QED
      BY <2>1, <2>2, <2>3, <2>4, <2>5 DEF TypeOK
  <1>2. StateMatchesFields'
    BY DEF StateMatchesFields, TypeOK, InstTypeOK, TasksOnRegistered
  <1>3. OwnerWillRelease'
    BY DEF OwnerWillRelease, TypeOK, InstTypeOK
  <1>4. OwnerDuringCall'
    BY DEF OwnerDuringCall
  <1>5. GuardsOwned'
    BY DEF GuardsOwned
  <1>6. TasksOnRegistered'
    BY DEF TasksOnRegistered
  <1>. QED
    BY <1>1, <1>2, <1>3, <1>4, <1>5, <1>6

\* WatchTick preserves IInv.
LEMMA WatchTickStep ==
  ASSUME IInv, NEW n \in Names, NEW r \in Resources, WatchTick(n, r),
         UNCHANGED <<healthVars, sessionVars>>
  PROVE  IInv'
  <1>. USE DEF IInv, WatchTick, registryVars, healthVars, sessionVars
  <1>1. TypeOK'
    BY DEF TypeOK, InstTypeOK, MeasTypeOK, WatchTypeOK, HealthTypeOK,
           SessionTypeOK, WatchPc
  <1>2. StateMatchesFields'
    BY DEF StateMatchesFields, TypeOK, InstTypeOK
  <1>3. OwnerWillRelease'
    BY DEF OwnerWillRelease, TypeOK, InstTypeOK
  <1>4. OwnerDuringCall'
    BY DEF OwnerDuringCall
  <1>5. GuardsOwned'
    BY DEF GuardsOwned, TypeOK, WatchTypeOK
  <1>6. TasksOnRegistered'
    BY DEF TasksOnRegistered
  <1>. QED
    BY <1>1, <1>2, <1>3, <1>4, <1>5, <1>6

\* WatchCallEnds preserves IInv.
LEMMA WatchCallEndsStep ==
  ASSUME IInv, NEW n \in Names, NEW r \in Resources, NEW o \in Outcomes,
         WatchCallEnds(n, r, o), UNCHANGED <<healthVars, sessionVars>>
  PROVE  IInv'
  <1>. USE DEF IInv, WatchCallEnds, AfterCall, Pop, healthVars, sessionVars
  <1>1. TypeOK'
    <2>1. InstTypeOK'
      BY DEF TypeOK, InstTypeOK, InstrumentState
    <2>2. MeasTypeOK'
      BY MeasKept, WriteMeasType DEF TypeOK, MeasStatus
    <2>3. WatchTypeOK'
      <3>1. PICK pc \in {"sleep", "trip", "dead"} : watch' = [watch EXCEPT ![n][r] = pc]
        OBVIOUS
      <3>2. WatchTypeOK /\ pc \in WatchPc
        BY DEF TypeOK, WatchPc
      <3>. QED
        BY ONLY <3>1, <3>2 DEF WatchTypeOK
    <2>4. HealthTypeOK'
      BY DEF TypeOK, HealthTypeOK
    <2>5. SessionTypeOK'
      BY DEF TypeOK, SessionTypeOK
    <2>. QED
      BY <2>1, <2>2, <2>3, <2>4, <2>5 DEF TypeOK
  <1>2. StateMatchesFields'
    BY DEF StateMatchesFields, TypeOK, InstTypeOK, GuardsOwned
  <1>3. OwnerWillRelease'
    BY DEF OwnerWillRelease, TypeOK, InstTypeOK
  <1>4. OwnerDuringCall'
    BY DEF OwnerDuringCall
  <1>5. GuardsOwned'
    BY DEF GuardsOwned, TypeOK, WatchTypeOK
  <1>6. TasksOnRegistered'
    BY DEF TasksOnRegistered
  <1>. QED
    BY <1>1, <1>2, <1>3, <1>4, <1>5, <1>6

\* GuardTrip preserves IInv.
LEMMA GuardTripStep ==
  ASSUME IInv, NEW n \in Names, NEW r \in Resources, GuardTrip(n, r),
         UNCHANGED <<healthVars, sessionVars>>
  PROVE  IInv'
  <1>. USE DEF IInv, GuardTrip, busVars, healthVars, sessionVars
  <1>1. TypeOK'
    <2>1. InstTypeOK'
      BY DEF TypeOK, InstTypeOK, InstrumentState, SafeState
    <2>2. MeasTypeOK'
      BY MeasKept, WriteMeasType DEF TypeOK, MeasStatus
    <2>3. WatchTypeOK'
      BY DEF TypeOK, WatchTypeOK, WatchPc
    <2>4. HealthTypeOK'
      BY DEF TypeOK, HealthTypeOK
    <2>5. SessionTypeOK'
      BY DEF TypeOK, SessionTypeOK
    <2>. QED
      BY <2>1, <2>2, <2>3, <2>4, <2>5 DEF TypeOK
  <1>2. StateMatchesFields'
    BY DEF StateMatchesFields, TypeOK, InstTypeOK, GuardsOwned
  <1>3. OwnerWillRelease'
    BY DEF OwnerWillRelease, TypeOK, InstTypeOK
  <1>4. OwnerDuringCall'
    BY DEF OwnerDuringCall
  <1>5. GuardsOwned'
    BY DEF GuardsOwned, TypeOK, WatchTypeOK
  <1>6. TasksOnRegistered'
    BY DEF TasksOnRegistered
  <1>. QED
    BY <1>1, <1>2, <1>3, <1>4, <1>5, <1>6

\* HealthTick preserves IInv.
LEMMA HealthTickStep ==
  ASSUME IInv, NEW n \in Names, HealthTick(n),
         UNCHANGED <<meas, watch, sessionVars>>
  PROVE  IInv'
  <1>. USE DEF IInv, HealthTick, registryVars, sessionVars
  <1>1. TypeOK'
    BY DEF TypeOK, InstTypeOK, MeasTypeOK, WatchTypeOK, HealthTypeOK,
           SessionTypeOK
  <1>2. StateMatchesFields'
    BY DEF StateMatchesFields, TypeOK, InstTypeOK
  <1>3. OwnerWillRelease'
    BY DEF OwnerWillRelease, TypeOK, InstTypeOK
  <1>4. OwnerDuringCall'
    BY DEF OwnerDuringCall
  <1>5. GuardsOwned'
    BY DEF GuardsOwned
  <1>6. TasksOnRegistered'
    BY DEF TasksOnRegistered, TypeOK, HealthTypeOK
  <1>. QED
    BY <1>1, <1>2, <1>3, <1>4, <1>5, <1>6

\* HealthCallEnds preserves IInv.
LEMMA HealthCallEndsStep ==
  ASSUME IInv, NEW n \in Names, NEW o \in Outcomes, HealthCallEnds(n, o),
         UNCHANGED <<meas, watch, sessionVars>>
  PROVE  IInv'
  <1>. USE DEF IInv, HealthCallEnds, AfterCall, Pop, sessionVars
  <1>1. TypeOK'
    BY DEF TypeOK, InstTypeOK, MeasTypeOK, WatchTypeOK, HealthTypeOK,
           SessionTypeOK, InstrumentState, Failed, HEALTH_MAX_FAILURES
  <1>2. StateMatchesFields'
    BY DEF StateMatchesFields, TypeOK, InstTypeOK, TasksOnRegistered
  <1>3. OwnerWillRelease'
    BY DEF OwnerWillRelease, TypeOK, InstTypeOK
  <1>4. OwnerDuringCall'
    BY DEF OwnerDuringCall
  <1>5. GuardsOwned'
    BY DEF GuardsOwned
  <1>6. TasksOnRegistered'
    BY DEF TasksOnRegistered, TypeOK, HealthTypeOK
  <1>. QED
    BY <1>1, <1>2, <1>3, <1>4, <1>5, <1>6

\* Hardware preserves IInv.
LEMMA HardwareStep ==
  ASSUME IInv, NEW n \in Names, Hardware(n)
  PROVE  IInv'
  <1>. USE DEF IInv, Hardware, WriteLands, OrphanEnds, registryVars,
               healthVars, sessionVars
  <1>1. TypeOK'
    BY DEF TypeOK, InstTypeOK, MeasTypeOK, WatchTypeOK, HealthTypeOK,
           SessionTypeOK
  <1>2. StateMatchesFields'
    BY DEF StateMatchesFields, TypeOK, InstTypeOK
  <1>3. OwnerWillRelease'
    BY DEF OwnerWillRelease, TypeOK, InstTypeOK
  <1>4. OwnerDuringCall'
    BY DEF OwnerDuringCall
  <1>5. GuardsOwned'
    BY DEF GuardsOwned
  <1>6. TasksOnRegistered'
    BY DEF TasksOnRegistered
  <1>. QED
    BY <1>1, <1>2, <1>3, <1>4, <1>5, <1>6

\* A round of close(), of a session in no command.
LEMMA CloseReleaseStep ==
  ASSUME IInv, NEW s \in Sessions, NEW M \in SUBSET Names,
         cmd.sess # s \/ conn[s] # "open", conn[s] = "open" => M = reg,
         conn[s] # "open" => M = todo[s], conn[s] # "closed",
         CloseRelease(s, M)
  PROVE  IInv'
  <1>. USE DEF IInv, CloseRelease, Owned, ReleaseInst, StopInstruments,
               Unlock, healthVars
  <1>1. TypeOK'
    <2>1. InstTypeOK'
      BY DEF TypeOK, InstTypeOK, InstrumentState, SafeState
    <2>2. MeasTypeOK'
      BY MeasKept, InvalidateMeasType DEF TypeOK
    <2>3. WatchTypeOK'
      BY DEF TypeOK, WatchTypeOK, WatchPc
    <2>4. HealthTypeOK'
      BY DEF TypeOK, HealthTypeOK
    <2>5. SessionTypeOK'
      BY DEF TypeOK, SessionTypeOK
    <2>. QED
      BY <2>1, <2>2, <2>3, <2>4, <2>5 DEF TypeOK
  <1>2. StateMatchesFields'
    BY DEF StateMatchesFields, TypeOK, InstTypeOK
  <1>3. OwnerWillRelease'
    BY OwnerAssumption DEF OwnerWillRelease, TypeOK, InstTypeOK,
           SessionTypeOK, StateMatchesFields
  <1>4. OwnerDuringCall'
    BY DEF OwnerDuringCall, TypeOK, InstTypeOK, SessionTypeOK
  <1>5. GuardsOwned'
    BY DEF GuardsOwned, TypeOK, InstTypeOK, WatchTypeOK
  <1>6. TasksOnRegistered'
    BY DEF TasksOnRegistered
  <1>. QED
    BY <1>1, <1>2, <1>3, <1>4, <1>5, <1>6

\* The end of close(): the session owns nothing that it knows of.
LEMMA CloseDoneStep ==
  ASSUME IInv, NEW s \in Sessions, NEW raised \in BOOLEAN,
         cmd.sess # s \/ conn[s] # "open", raised \/ Owned(s) = {},
         CloseDone(s, raised)
  PROVE  IInv'
  <1>. USE DEF IInv, CloseDone, Owned, instVars, healthVars
  <1>1. TypeOK'
    BY DEF TypeOK, InstTypeOK, MeasTypeOK, WatchTypeOK, HealthTypeOK,
           SessionTypeOK
  <1>2. StateMatchesFields'
    BY DEF StateMatchesFields, TypeOK, InstTypeOK
  <1>3. OwnerWillRelease'
    BY OwnerAssumption DEF OwnerWillRelease, TypeOK, InstTypeOK,
           SessionTypeOK, StateMatchesFields
  <1>4. OwnerDuringCall'
    BY DEF OwnerDuringCall, TypeOK, SessionTypeOK
  <1>5. GuardsOwned'
    BY DEF GuardsOwned
  <1>6. TasksOnRegistered'
    BY DEF TasksOnRegistered
  <1>. QED
    BY <1>1, <1>2, <1>3, <1>4, <1>5, <1>6

-----------------------------------------------------------------------------
(* The next-state relation, group by group. *)

\* The start of a tracked call preserves IInv.
LEMMA TrackedCallStep ==
  ASSUME IInv, NEW s \in Sessions, NEW n \in Names, NEW e, NEW m \in BOOLEAN,
         conn[s] = "open", TrackedCall(s, n, e, m)
  PROVE  IInv'
  <1>1. "call" \in Ops
    BY DEF Ops
  <1>. QED
    BY <1>1, StartCallStep DEF TrackedCall, RequireLock

\* Every command preserves IInv.
LEMMA CommandStep ==
  ASSUME IInv, NEW s \in Sessions, Command(s)
  PROVE  IInv'
  <1>. USE DEF Dispatch
  <1>1. ASSUME NEW n \in Names, IINIT(s, n) PROVE IInv'
    BY <1>1, StartCallStep DEF IINIT, Ops
  <1>2. ASSUME NEW n \in Names, IPING(s, n) PROVE IInv'
    BY <1>2, StartCallStep DEF IPING, Ops
  <1>3. ASSUME NEW n \in Names, NEW r \in Resources, NEW m \in BOOLEAN,
               IREAD(s, n, r, m)
        PROVE  IInv'
    BY <1>3, TrackedCallStep DEF IREAD
  <1>4. ASSUME NEW n \in Names, NEW r \in Resources, IWRITE(s, n, r)
        PROVE  IInv'
    BY <1>4, TrackedCallStep DEF IWRITE
  <1>5. ASSUME NEW n \in Names,
               IRAW(s, n) \/ ISAVE(s, n) \/ ILOAD(s, n) \/ IWAIT(s, n)
        PROVE  IInv'
    BY <1>5, TrackedCallStep DEF IRAW, ISAVE, ILOAD, IWAIT
  <1>6. ASSUME NEW N \in SUBSET Names, ILOCK(s, N) \/ IUNLOCK(s, N) PROVE IInv'
    BY <1>6, GivenLockStep DEF ILOCK, IUNLOCK
  <1>. QED
    BY <1>1, <1>2, <1>3, <1>4, <1>5, <1>6, IADDStep, IREMOVEStep, IRESETStep,
       IALIGNStep, IMREADStep, IREADRefusedStep, IWATCHStep,
       IUNWATCHStep, IUNWATCHAllStep
    DEF Command

\* The end of a driver call, whoever made it, preserves IInv.
LEMMA CallEndsStep ==
  ASSUME IInv, NEW n \in Names, CallEnds(n)
  PROVE  IInv'
  BY CallReturnsStep, MreadReturnsStep, PlainCallEndsStep, HealthCallEndsStep,
     WatchCallEndsStep, InitContinuesStep, InitCompletesStep, AlignContinuesStep
  DEF CallEnds

\* The first step of close() preserves IInv.
LEMMA DisconnectStep ==
  ASSUME IInv, NEW s \in Sessions, Disconnect(s)
  PROVE  IInv'
  <1>1. reg \in SUBSET Names
    BY DEF IInv, TypeOK, InstTypeOK
  <1>. QED
    BY <1>1, CloseReleaseStep, CloseDoneStep DEF Disconnect

\* A session whose loop has visited all its names owns none of them any more:
\* OwnerWillRelease says that what it still owned was among them.
LEMMA CloseResumesStep ==
  ASSUME IInv, NEW s \in Sessions, CloseResumes(s)
  PROVE  IInv'
  <1>1. todo[s] \in SUBSET Names
    BY DEF IInv, TypeOK, SessionTypeOK
  <1>2. CASE CloseRelease(s, todo[s])
    BY <1>1, <1>2, CloseReleaseStep DEF CloseResumes
  <1>3. CASE todo[s] \cap Owned(s) = {} /\ CloseDone(s, FALSE)
    <2>1. Owned(s) = {}
      BY <1>3 DEF CloseResumes, Owned, IInv, OwnerWillRelease, TypeOK, InstTypeOK
    <2>. QED
      BY <1>3, <2>1, CloseDoneStep DEF CloseResumes
  <1>4. CASE CloseDone(s, TRUE)
    BY <1>4, CloseDoneStep DEF CloseResumes
  <1>. QED
    BY <1>2, <1>3, <1>4 DEF CloseResumes

\* An IUNLOCK that a publication ends early changes nothing but cmd.
LEMMA UnlockAbortsStep ==
  ASSUME IInv, UnlockAborts
  PROVE  IInv'
  <1>. USE DEF IInv, UnlockAborts, instVars, healthVars
  <1>1. TypeOK'
    <2>1. NoCmd \in CmdType
      BY DEF NoCmd, CmdType, Ops
    <2>. QED
      BY <2>1 DEF TypeOK, InstTypeOK, MeasTypeOK, WatchTypeOK, HealthTypeOK,
                  SessionTypeOK
  <1>2. StateMatchesFields' /\ OwnerWillRelease' /\ OwnerDuringCall'
    BY DEF StateMatchesFields, OwnerWillRelease, OwnerDuringCall, NoCmd
  <1>3. GuardsOwned' /\ TasksOnRegistered'
    BY DEF GuardsOwned, TasksOnRegistered, NoCmd
  <1>. QED
    BY <1>1, <1>2, <1>3

\* An ILOCK or IUNLOCK is sent by a connected session, which stays connected
\* until its command is over.
LEMMA NextLocking ==
  ASSUME IInv, Locking, [Next]_vars
  PROVE  Locking'
  <1>. USE DEF Locking
  <1>1. ASSUME cmd'.op \notin {"lock", "unlock"} PROVE Locking'
    BY <1>1
  <1>2. ASSUME UNCHANGED <<cmd, conn>> PROVE Locking'
    BY <1>2
  <1>3. ASSUME NEW s \in Sessions, Command(s) PROVE Locking'
    <2>1. ASSUME NEW n \in Names, NEW op \in {"call", "init", "ping"}, NEW e, NEW m,
                 StartCall(s, op, n, e, m)
          PROVE  Locking'
      BY <2>1, <1>1 DEF StartCall, Running
    <2>2. ASSUME NEW n \in Names, IADD(s, n) \/ IREMOVE(s, n) \/ IRESET(s, n)
          PROVE  Locking'
      BY <2>2, <1>2 DEF IADD, IREMOVE, IRESET, sessionVars
    <2>3. ASSUME NEW n \in Names, IINIT(s, n) \/ IPING(s, n) PROVE Locking'
      BY <2>3, <2>1 DEF IINIT, IPING
    <2>4. ASSUME NEW n \in Names, IRAW(s, n) \/ ISAVE(s, n) \/ ILOAD(s, n) \/ IWAIT(s, n)
          PROVE  Locking'
      BY <2>4, <2>1 DEF IRAW, ISAVE, ILOAD, IWAIT, TrackedCall
    <2>5. ASSUME NEW n \in Names, NEW r \in Resources, NEW m \in BOOLEAN,
                 IREAD(s, n, r, m) \/ IWRITE(s, n, r)
          PROVE  Locking'
      BY <2>5, <2>1 DEF IREAD, IWRITE, TrackedCall
    <2>6. ASSUME NEW n \in Names, NEW r \in Resources,
                 IREADRefused(s, n, r) \/ IWATCH(s, n, r) \/ IUNWATCH(s, n, r)
          PROVE  Locking'
      BY <2>6, <1>2 DEF IREADRefused, IWATCH, IUNWATCH, sessionVars
    <2>7. ASSUME NEW N \in SUBSET Names, IALIGN(s, N) \/ IUNWATCHAll(s, N)
          PROVE  Locking'
      BY <2>7, <1>1, <1>2 DEF IALIGN, IUNWATCHAll, Running, sessionVars
    <2>8. ASSUME NEW N \in SUBSET Names, ILOCK(s, N) \/ IUNLOCK(s, N) PROVE Locking'
      BY <2>8 DEF ILOCK, IUNLOCK, GivenLock, Dispatch, Running
    <2>9. ASSUME NEW args \in Targets, IMREAD(s, args) PROVE Locking'
      BY <2>9, <1>1 DEF IMREAD, Running
    <2>. QED
      BY <1>3, <2>2, <2>3, <2>4, <2>5, <2>6, <2>7, <2>8, <2>9 DEF Command
  <1>4. ASSUME NEW s \in Sessions, Disconnect(s) \/ CloseResumes(s) PROVE Locking'
    <2>1. /\ UNCHANGED cmd
          /\ \A z \in Sessions : z # s => conn'[z] = conn[z]
          /\ conn[s] = "open" => cmd.sess # s
      BY <1>4 DEF Disconnect, CloseResumes, CloseRelease, CloseDone, IInv, TypeOK,
                  SessionTypeOK
    <2>. QED
      BY <2>1
  <1>5. CASE HandleLock \/ UnlockAborts
    BY <1>5, <1>1 DEF HandleLock, UnlockAborts, NoCmd
  <1>6. CASE UnlockResumes
    BY <1>6, <1>1 DEF UnlockResumes, UnlockRound, Running, NoCmd
  <1>7. ASSUME NEW n \in Names, CallEnds(n) PROVE Locking'
    <2>1. ASSUME NEW o, CallReturns(n, o) \/ MreadReturns(n, o) \/ PlainCallEnds(n, o)
          PROVE  Locking'
      BY <2>1, <1>1, <1>2 DEF CallReturns, MreadReturns, PlainCallEnds, NoCmd
    <2>2. ASSUME UNCHANGED sessionVars PROVE Locking'
      BY <2>2, <1>2 DEF sessionVars
    <2>3. ASSUME InitContinues(n) \/ InitCompletes(n) PROVE Locking'
      BY <2>3, <1>1, <2>2 DEF InitContinues, InitCompletes, NoCmd
    <2>4. ASSUME AlignContinues(n) PROVE Locking'
      BY <2>4, <1>1 DEF AlignContinues, Running, NoCmd
    <2>. QED
      BY <1>7, <2>1, <2>2, <2>3, <2>4 DEF CallEnds
  <1>8. ASSUME NEW n \in Names, Guard(n) \/ Hardware(n) PROVE Locking'
    BY <1>8, <1>2 DEF Guard, Hardware, sessionVars
  <1>9. ASSUME UNCHANGED sessionVars PROVE Locking'
    BY <1>9, <1>2 DEF sessionVars
  <1>. QED
    BY <1>3, <1>4, <1>5, <1>6, <1>7, <1>8, <1>9 DEF Next, vars

\* Every step of the server preserves IInv.
LEMMA NextIInv == IInv /\ Locking /\ [Next]_vars => IInv'
  <1>. SUFFICES ASSUME IInv, Locking, [Next]_vars PROVE IInv'
    OBVIOUS
  <1>1. ASSUME NEW s \in Sessions, Command(s) PROVE IInv'
    BY <1>1, CommandStep
  <1>2. ASSUME NEW s \in Sessions, Disconnect(s) PROVE IInv'
    BY <1>2, DisconnectStep
  <1>3. ASSUME NEW s \in Sessions, CloseResumes(s) PROVE IInv'
    BY <1>3, CloseResumesStep
  <1>4. CASE UnlockResumes
    <2>1. cmd.sess \in Sessions \cup {NoOwner} /\ cmd.rest \in SUBSET Names
      BY DEF IInv, TypeOK, SessionTypeOK, CmdType
    <2>. QED
      BY <1>4, <2>1, UnlockRoundStep DEF UnlockResumes
  <1>5. ASSUME NEW n \in Names, CallEnds(n) PROVE IInv'
    BY <1>5, CallEndsStep
  <1>6. ASSUME NEW n \in Names, Guard(n) PROVE IInv'
    BY <1>6, WatchTickStep, GuardTripStep DEF Guard
  <1>7. ASSUME NEW n \in Names, HealthTick(n), UNCHANGED <<meas, watch, sessionVars>>
        PROVE  IInv'
    BY <1>7, HealthTickStep
  <1>8. ASSUME NEW n \in Names, Hardware(n) PROVE IInv'
    BY <1>8, HardwareStep
  <1>9. CASE UNCHANGED vars
    <2>. USE <1>9 DEF IInv, vars, instVars, healthVars, sessionVars
    <2>1. TypeOK'
      BY DEF TypeOK, InstTypeOK, MeasTypeOK, WatchTypeOK, HealthTypeOK,
             SessionTypeOK
    <2>2. StateMatchesFields' /\ OwnerWillRelease' /\ OwnerDuringCall'
      BY DEF StateMatchesFields, OwnerWillRelease, OwnerDuringCall
    <2>3. GuardsOwned' /\ TasksOnRegistered'
      BY DEF GuardsOwned, TasksOnRegistered
    <2>. QED
      BY <2>1, <2>2, <2>3
  <1>10. CASE UnlockAborts
    BY <1>10, UnlockAbortsStep
  <1>11. CASE HandleLock
    BY <1>11, HandleLockStep
  <1>. QED
    BY <1>1, <1>2, <1>3, <1>4, <1>5, <1>6, <1>7, <1>8, <1>9, <1>10, <1>11 DEF Next

\* Every behaviour of the server keeps the inductive invariant, and a session
\* whose ILOCK or IUNLOCK is served is connected.
THEOREM Inductive == Spec => [](IInv /\ Locking)
  <1>1. Init => Locking
    BY DEF Init, NoCmd, Locking
  <1>2. IInv /\ Locking /\ [Next]_vars => Locking'
    BY NextLocking
  <1>. QED
    BY InitIInv, NextIInv, <1>1, <1>2, PTL DEF Spec

\* Every variable the prover can type keeps its type, whatever the clients
\* send and however driver calls end.
THEOREM TypeCorrect == Spec => []TypeOK
  BY Inductive, PTL DEF IInv

\* The owner and the resource list of an Instrument agree with its state after
\* every step of commands.py, watch.py, health.py and close().
THEOREM StateMatchesFieldsHolds == Spec => []StateMatchesFields
  BY Inductive, PTL DEF IInv

\* No lock outlives its session: ClientHandler.close releases all of them, or
\* its loop raised.
THEOREM OwnerWillReleaseHolds == Spec => []OwnerWillRelease
  BY Inductive, PTL DEF IInv

\* The ownership that _require_lock checked still holds when the awaited
\* driver call returns.
THEOREM OwnerDuringCallHolds == Spec => []OwnerDuringCall
  BY Inductive, PTL DEF IInv

\* Releasing or removing an instrument never leaves a guard behind.
THEOREM GuardsOwnedHolds == Spec => []GuardsOwned
  BY Inductive, PTL DEF IInv
-----------------------------------------------------------------------------
(* How a broken instrument leaves its state. *)

\* The command in progress was sent by a session.
CommandHasSession == cmd.op # "none" => cmd.sess \in Sessions

\* Commands are started by sessions, and go on with their own.
LEMMA NextCommandHasSession ==
  ASSUME IInv, CommandHasSession, [Next]_vars
  PROVE  CommandHasSession'
  <1>. USE DEF CommandHasSession
  <1>1. ASSUME \/ cmd' = cmd \/ cmd' = NoCmd
               \/ cmd'.sess = cmd.sess /\ cmd.op # "none"
               \/ cmd'.sess \in Sessions
        PROVE  CommandHasSession'
    BY <1>1 DEF NoCmd
  <1>2. ASSUME NEW s \in Sessions, NEW n, NEW N, UnlockRound(s, n, N) PROVE CommandHasSession'
    BY <1>2 DEF UnlockRound, Running, NoCmd
  <1>3. ASSUME NEW s \in Sessions, Command(s) PROVE CommandHasSession'
    <2>1. ASSUME NEW n \in Names, NEW op \in {"call", "init", "ping"}, NEW e, NEW m,
                 StartCall(s, op, n, e, m)
          PROVE  CommandHasSession'
      BY <2>1, <1>1 DEF StartCall, Running
    <2>2. ASSUME NEW n \in Names, IADD(s, n) \/ IREMOVE(s, n) \/ IRESET(s, n)
          PROVE  CommandHasSession'
      BY <2>2, <1>1 DEF IADD, IREMOVE, IRESET, sessionVars
    <2>3. ASSUME NEW n \in Names, IINIT(s, n) \/ IPING(s, n) PROVE CommandHasSession'
      BY <2>3, <2>1 DEF IINIT, IPING
    <2>4. ASSUME NEW n \in Names, IRAW(s, n) \/ ISAVE(s, n) \/ ILOAD(s, n) \/ IWAIT(s, n)
          PROVE  CommandHasSession'
      BY <2>4, <2>1 DEF IRAW, ISAVE, ILOAD, IWAIT, TrackedCall
    <2>5. ASSUME NEW n \in Names, NEW r \in Resources, NEW m \in BOOLEAN,
                 IREAD(s, n, r, m) \/ IWRITE(s, n, r)
          PROVE  CommandHasSession'
      BY <2>5, <2>1 DEF IREAD, IWRITE, TrackedCall
    <2>6. ASSUME NEW n \in Names, NEW r \in Resources,
                 IREADRefused(s, n, r) \/ IWATCH(s, n, r) \/ IUNWATCH(s, n, r)
          PROVE  CommandHasSession'
      BY <2>6, <1>1 DEF IREADRefused, IWATCH, IUNWATCH, sessionVars
    <2>7. ASSUME NEW N \in SUBSET Names,
                 IALIGN(s, N) \/ IUNWATCHAll(s, N)
          PROVE  CommandHasSession'
      BY <2>7, <1>1 DEF IALIGN, IUNWATCHAll, Running, sessionVars
    <2>8. ASSUME NEW N \in SUBSET Names, ILOCK(s, N) \/ IUNLOCK(s, N) PROVE CommandHasSession'
      BY <2>8, <1>1 DEF ILOCK, IUNLOCK, GivenLock, Running
    <2>9. ASSUME NEW args \in Targets, IMREAD(s, args) PROVE CommandHasSession'
      BY <2>9, <1>1 DEF IMREAD, Running
    <2>. QED
      BY <1>3, <2>2, <2>3, <2>4, <2>5, <2>6, <2>7, <2>8, <2>9 DEF Command
  <1>4. ASSUME NEW s \in Sessions, Disconnect(s) \/ CloseResumes(s) PROVE CommandHasSession'
    BY <1>4, <1>1 DEF Disconnect, CloseResumes, CloseRelease, CloseDone
  <1>5. CASE UnlockResumes
    BY <1>5, <1>2 DEF UnlockResumes
  <1>6. CASE HandleLock \/ UnlockAborts
    BY <1>6, <1>1 DEF HandleLock, UnlockAborts, NoCmd
  <1>7. ASSUME NEW n \in Names, CallEnds(n) PROVE CommandHasSession'
    <2>1. ASSUME NEW o, CallReturns(n, o) \/ MreadReturns(n, o) \/ PlainCallEnds(n, o)
          PROVE  CommandHasSession'
      BY <2>1, <1>1 DEF CallReturns, MreadReturns, PlainCallEnds, NoCmd
    <2>2. ASSUME UNCHANGED sessionVars PROVE CommandHasSession'
      BY <2>2, <1>1 DEF sessionVars
    <2>3. ASSUME InitContinues(n) \/ InitCompletes(n) PROVE CommandHasSession'
      BY <2>3, <1>1 DEF InitContinues, InitCompletes, NoCmd, sessionVars
    <2>4. ASSUME AlignContinues(n) PROVE CommandHasSession'
      BY <2>4, <1>1 DEF AlignContinues, NoCmd, Running
    <2>. QED
      BY <1>7, <2>1, <2>2, <2>3, <2>4 DEF CallEnds
  <1>8. ASSUME NEW n \in Names,
               \/ Guard(n) \/ Hardware(n)
               \/ HealthTick(n) /\ UNCHANGED <<meas, watch, sessionVars>>
        PROVE  CommandHasSession'
    BY <1>8, <1>1 DEF Guard, Hardware, sessionVars
  <1>9. CASE UNCHANGED vars
    BY <1>9, <1>1 DEF vars, sessionVars
  <1>. QED
    BY <1>3, <1>4, <1>5, <1>6, <1>7, <1>8, <1>9 DEF Next

\* Every behaviour of the server keeps both.
LEMMA SessionInductive == Spec => [](IInv /\ CommandHasSession)
  <1>1. Init => CommandHasSession
    BY DEF Init, NoCmd, CommandHasSession
  <1>2. IInv /\ CommandHasSession /\ [Next]_vars => CommandHasSession'
    BY NextCommandHasSession
  <1>. QED
    BY Inductive, <1>1, <1>2, PTL DEF Spec

\* What a step that breaks the rule would do to instrument m.
Revived(m) == state[m] \in Broken /\ state'[m] \notin Broken

\* A driver call that ends leaves the state as it is, or makes it a broken one.
LEMMA CallsDoNotRevive ==
  ASSUME TypeOK, NEW n \in Names, NEW m \in Names, NEW v \in {state[n], "FAULT", "UNRESPONSIVE"},
         state' = [state EXCEPT ![n] = v]
  PROVE  ~Revived(m)
  <1>1. state'[m] = IF m = n THEN v ELSE state[m]
    BY DEF TypeOK, InstTypeOK
  <1>2. {"FAULT", "UNRESPONSIVE"} \subseteq Broken
    BY DEF Broken
  <1>3. v = state[n] \/ v \in Broken
    BY <1>2
  <1>. QED
    BY <1>1, <1>3 DEF Revived

\* A release by the owner repairs.
LEMMA ReleaseRepairs ==
  ASSUME TypeOK, NEW n \in Names, NEW m \in Names, owner[n] \in Sessions,
         ReleaseInst(n), Revived(m)
  PROVE  Repaired(m)
  <1>1. PICK ok \in SafeOutcomes :
               state' = [state EXCEPT ![n] = IF ok THEN "IDLE" ELSE "FAULT"]
    BY DEF ReleaseInst, Unlock
  <1>2. m = n /\ state'[n] = "IDLE"
    BY <1>1 DEF Revived, Broken, TypeOK, InstTypeOK
  <1>3. owner'[n] = NoOwner /\ owner[n] # NoOwner
    BY OwnerAssumption DEF ReleaseInst, Unlock, TypeOK, InstTypeOK
  <1>. QED
    BY <1>2, <1>3 DEF Repaired

\* A command that begins repairs by IRESET or IREMOVE only.
LEMMA CommandRepairs ==
  ASSUME IInv, NEW s \in Sessions, Command(s), NEW m \in Names, Revived(m)
  PROVE  Repaired(m)
  <1>. USE DEF Revived
  <1>1. TypeOK /\ StateMatchesFields
    BY DEF IInv
  <1>2. ASSUME UNCHANGED state PROVE FALSE
    BY <1>2
  <1>3. ASSUME NEW n \in Names, IADD(s, n) PROVE Repaired(m)
    <2>1. state[n] = "IDLE"
      BY <1>1, <1>3 DEF IADD, Add, StateMatchesFields
    <2>. QED
      BY <1>1, <1>3, <2>1 DEF IADD, Add, Broken, TypeOK, InstTypeOK
  <1>4. ASSUME NEW n \in Names, IREMOVE(s, n) PROVE Repaired(m)
    BY <1>1, <1>4 DEF IREMOVE, Remove, Repaired, TypeOK, InstTypeOK
  <1>5. ASSUME NEW n \in Names, IRESET(s, n) PROVE Repaired(m)
    BY <1>1, <1>5 DEF IRESET, Reset, Repaired, TypeOK, InstTypeOK
  <1>6. ASSUME NEW n \in Names, NEW op, NEW e, NEW v, StartCall(s, op, n, e, v) PROVE FALSE
    BY <1>2, <1>6 DEF StartCall, registryVars
  <1>7. ASSUME NEW n \in Names, IINIT(s, n) \/ IPING(s, n) PROVE FALSE
    BY <1>6, <1>7 DEF IINIT, IPING
  <1>8. ASSUME NEW n \in Names, IRAW(s, n) \/ ISAVE(s, n) \/ ILOAD(s, n) \/ IWAIT(s, n)
        PROVE  FALSE
    BY <1>6, <1>8 DEF IRAW, ISAVE, ILOAD, IWAIT, TrackedCall
  <1>9. ASSUME NEW n \in Names, NEW r \in Resources, NEW v \in BOOLEAN,
               IREAD(s, n, r, v) \/ IWRITE(s, n, r)
        PROVE  FALSE
    BY <1>6, <1>9 DEF IREAD, IWRITE, TrackedCall
  <1>10. ASSUME NEW n \in Names, NEW r \in Resources,
                IREADRefused(s, n, r) \/ IWATCH(s, n, r) \/ IUNWATCH(s, n, r)
         PROVE  FALSE
    BY <1>2, <1>10 DEF IREADRefused, IWATCH, IUNWATCH, instVars, registryVars
  <1>11. ASSUME NEW N \in SUBSET Names, IALIGN(s, N) \/ IUNWATCHAll(s, N) PROVE FALSE
    BY <1>2, <1>11 DEF IALIGN, IUNWATCHAll, registryVars
  <1>12. ASSUME NEW N \in SUBSET Names, ILOCK(s, N) \/ IUNLOCK(s, N) PROVE FALSE
    BY <1>2, <1>12 DEF ILOCK, IUNLOCK, GivenLock, instVars
  <1>14. ASSUME NEW args \in Targets, IMREAD(s, args) PROVE FALSE
    BY <1>2, <1>14 DEF IMREAD, registryVars
  <1>. QED
    BY <1>3, <1>4, <1>5, <1>7, <1>8, <1>9, <1>10, <1>11, <1>12, <1>14 DEF Command

\* A driver call that ends repairs only as the last call of IINIT or IALIGN.
LEMMA CallEndsRepairs ==
  ASSUME IInv, NEW n \in Names, CallEnds(n), NEW m \in Names, Revived(m)
  PROVE  Repaired(m)
  <1>1. TypeOK
    BY DEF IInv
  <1>. USE DEF AfterCall, AfterTrackedCall
  <1>2. ASSUME NEW o \in Outcomes,
               CallReturns(n, o) \/ MreadReturns(n, o) \/ PlainCallEnds(n, o)
        PROVE  FALSE
    BY <1>1, <1>2, CallsDoNotRevive DEF CallReturns, MreadReturns, PlainCallEnds
  <1>3. ASSUME NEW o \in Outcomes, HealthCallEnds(n, o) PROVE FALSE
    BY <1>1, <1>3, CallsDoNotRevive DEF HealthCallEnds
  <1>4. ASSUME NEW o \in Outcomes, NEW r \in Resources, WatchCallEnds(n, r, o) PROVE FALSE
    BY <1>1, <1>4, CallsDoNotRevive DEF WatchCallEnds
  <1>5. ASSUME InitContinues(n) PROVE FALSE
    BY <1>5 DEF InitContinues, registryVars, Revived
  <1>6. ASSUME BecomeReady(n), n \in cmd.at, cmd.op \in {"init", "align"} PROVE Repaired(m)
    BY <1>1, <1>6 DEF BecomeReady, Revived, Repaired, TypeOK, InstTypeOK
  <1>7. ASSUME InitCompletes(n) \/ AlignContinues(n) PROVE Repaired(m)
    BY <1>6, <1>7 DEF InitCompletes, AlignContinues
  <1>. QED
    BY <1>2, <1>3, <1>4, <1>5, <1>7 DEF CallEnds

\* Every step keeps the rule.
LEMMA NextRepairs ==
  ASSUME IInv, CommandHasSession, [Next]_vars, NEW m \in Names, Revived(m)
  PROVE  Repaired(m)
  <1>1. TypeOK
    BY DEF IInv
  <1>2. ASSUME UNCHANGED state PROVE FALSE
    BY <1>2 DEF Revived
  <1>3. ASSUME NEW s \in Sessions, Command(s) PROVE Repaired(m)
    BY <1>3, CommandRepairs
  <1>4. ASSUME NEW s \in Sessions, Disconnect(s) \/ CloseResumes(s) PROVE Repaired(m)
    <2>1. ASSUME NEW N, CloseRelease(s, N) PROVE Repaired(m)
      <3>1. PICK n \in N \cap Owned(s) : ReleaseInst(n)
        BY <2>1 DEF CloseRelease
      <3>2. n \in Names /\ owner[n] \in Sessions
        BY <1>1, <3>1 DEF Owned, TypeOK, InstTypeOK
      <3>. QED
        BY <1>1, <3>1, <3>2, ReleaseRepairs
    <2>2. ASSUME NEW raised, CloseDone(s, raised) PROVE FALSE
      BY <1>2, <2>2 DEF CloseDone, instVars
    <2>. QED
      BY <1>4, <2>1, <2>2 DEF Disconnect, CloseResumes
  <1>5. CASE UnlockResumes
    <2>1. PICK n \in cmd.rest : UnlockRound(cmd.sess, n, cmd.rest \ {n})
      BY <1>5 DEF UnlockResumes
    <2>2. RequireLock(n, cmd.sess) /\ ReleaseInst(n)
      BY <1>2, <2>1 DEF UnlockRound, registryVars
    <2>3. cmd.sess \in Sessions /\ n \in Names
      BY <1>1, <1>5, <2>1 DEF UnlockResumes, CommandHasSession, TypeOK, SessionTypeOK, CmdType
    <2>. QED
      BY <1>1, <2>2, <2>3, ReleaseRepairs DEF RequireLock
  <1>6. CASE UnlockAborts \/ UNCHANGED vars
    BY <1>2, <1>6 DEF UnlockAborts, vars, instVars
  <1>7. ASSUME NEW n \in Names, CallEnds(n) PROVE Repaired(m)
    BY <1>7, CallEndsRepairs
  <1>8. ASSUME NEW n \in Names, Guard(n) PROVE FALSE
    <2>1. ASSUME NEW r \in Resources, WatchTick(n, r) PROVE FALSE
      BY <1>2, <2>1 DEF WatchTick, registryVars
    <2>2. ASSUME NEW r \in Resources, GuardTrip(n, r) PROVE FALSE
      BY <1>1, <2>2, CallsDoNotRevive DEF GuardTrip
    <2>. QED
      BY <1>8, <2>1, <2>2 DEF Guard
  <1>9. ASSUME NEW n \in Names, HealthTick(n) \/ Hardware(n) PROVE FALSE
    BY <1>2, <1>9 DEF HealthTick, Hardware, WriteLands, OrphanEnds, registryVars
  <1>10. CASE HandleLock
    <2>1. m \in cmd.rest /\ owner[m] # cmd.sess /\ Lockable(m, cmd.sess)
      BY <1>10, <1>2 DEF HandleLock, Take, Revived
    <2>2. state[m] = "IDLE"
      BY <2>1 DEF Lockable
    <2>. QED
      BY <2>2 DEF Broken, Revived
  <1>. QED
    BY <1>3, <1>4, <1>5, <1>6, <1>7, <1>8, <1>9, <1>10 DEF Next

\* No late answer of a driver, no guard, ping or ILOCK takes an instrument out
\* of FAULT or UNRESPONSIVE: only IRESET, a release, a removal, or an IINIT or
\* IALIGN that was running when it broke.
THEOREM BrokenLeavesByHolds == Spec => BrokenLeavesBy
  <1>1. IInv /\ CommandHasSession /\ [Next]_vars
          => [\A n \in Names : state[n] \in Broken /\ state'[n] \notin Broken => Repaired(n)]_vars
    BY NextRepairs DEF Revived
  <1>. QED
    BY SessionInductive, <1>1, PTL DEF Spec, BrokenLeavesBy

-----------------------------------------------------------------------------
(***************************************************************************)
(* Bench implements LockTable: every step of the server is, on owners,     *)
(* connected sessions, registered instruments and the request that is      *)
(* served, a step of the abstract lock table or none.                      *)
(***************************************************************************)

connected == {s \in Sessions : conn[s] = "open"}

AbstractStep == [Lease!Next]_<<owner, connected, reg, Floor>>

\* A command other than ILOCK and IUNLOCK is no request to the lock table.
LEMMA NoFloor ==
  ASSUME cmd.op \notin {"lock", "unlock"}
  PROVE  Floor = Lease!NoRequest
  BY DEF Floor, Lease!NoRequest

\* Steps of such a command, and steps of no command, leave the floor alone.
LEMMA FloorKept ==
  ASSUME \/ UNCHANGED cmd
         \/ cmd.op \notin {"lock", "unlock"} /\ cmd'.op \notin {"lock", "unlock"}
  PROVE  UNCHANGED Floor
  BY DEF Floor

\* Steps that touch neither an owner, a connection, the registry nor the floor.
LEMMA StutterStep ==
  ASSUME UNCHANGED <<owner, conn, reg>>, UNCHANGED Floor
  PROVE  AbstractStep
  BY DEF AbstractStep, connected

\* An ILOCK or IUNLOCK is asked for by a connected session.
LEMMA AskStep ==
  ASSUME NEW s \in Sessions, NEW N \in SUBSET Names, ILOCK(s, N) \/ IUNLOCK(s, N)
  PROVE  AbstractStep
  <1>1. PICK op \in {"lock", "unlock"} : GivenLock(s, op, N)
    BY DEF ILOCK, IUNLOCK
  <1>2. s \in connected /\ UNCHANGED <<owner, connected, reg>>
    BY <1>1 DEF ILOCK, IUNLOCK, Dispatch, GivenLock, instVars, connected
  <1>3. Floor = Lease!NoRequest
    BY NoFloor DEF ILOCK, IUNLOCK, Dispatch, NoCmd
  <1>4. Floor' = [kind |-> op, by |-> s, names |-> N]
    BY <1>1 DEF GivenLock, Running, Floor
  <1>5. Lease!Ask(op, s, N)
    BY <1>2, <1>3, <1>4 DEF Lease!Ask, connected
  <1>. QED
    BY <1>5 DEF AbstractStep, Lease!Next

\* handle_lock takes all the locks it was asked for, which exist and are free or
\* the asker's own (an IDLE instrument has no owner, StateMatchesFields), or
\* none.
LEMMA GrantStep ==
  ASSUME IInv, Locking, HandleLock
  PROVE  AbstractStep
  <1>0. cmd.rest \subseteq Names
    BY DEF IInv, TypeOK, SessionTypeOK, CmdType
  <1>1. cmd.sess \in connected /\ UNCHANGED <<connected, reg>>
    BY DEF HandleLock, Locking, connected
  <1>2. Floor = [kind |-> "lock", by |-> cmd.sess, names |-> cmd.rest]
    BY DEF HandleLock, Floor
  <1>3. Floor' = Lease!NoRequest
    BY DEF HandleLock, NoCmd, Floor, Lease!NoRequest
  <1>4. CASE /\ \A n \in cmd.rest : Lockable(n, cmd.sess)
             /\ Take(cmd.sess, {n \in cmd.rest : owner[n] # cmd.sess})
    <2>1. \A n \in cmd.rest : n \in reg /\ owner[n] \in {NoOwner, cmd.sess}
      BY <1>0, <1>4 DEF Lockable, IInv, StateMatchesFields
    <2>2. owner' = [n \in Names |-> IF n \in cmd.rest THEN cmd.sess ELSE owner[n]]
      BY <1>4 DEF Take
    <2>3. Lease!Grant
      BY <1>1, <1>2, <1>3, <2>1, <2>2 DEF Lease!Grant, connected
    <2>. QED
      BY <2>3 DEF AbstractStep, Lease!Next
  <1>5. CASE UNCHANGED owner
    <2>1. Lease!Refuse
      BY <1>1, <1>2, <1>3, <1>5 DEF Lease!Refuse, Lease!NoRequest, connected
    <2>. QED
      BY <2>1 DEF AbstractStep, Lease!Next
  <1>. QED
    BY <1>4, <1>5 DEF HandleLock

\* A round of IUNLOCK gives back a lock of the session that asked for it or,
\* refused, none.
LEMMA UnlockResumesLease ==
  ASSUME IInv, UnlockResumes
  PROVE  AbstractStep
  <1>1. PICK n \in cmd.rest : UnlockRound(cmd.sess, n, cmd.rest \ {n})
    BY DEF UnlockResumes
  <1>2. n \in Names /\ UNCHANGED <<connected, reg>>
    <2>1. n \in Names
      BY <1>1 DEF IInv, TypeOK, SessionTypeOK, CmdType
    <2>2. UNCHANGED <<conn, reg>>
      BY <1>1 DEF UnlockRound, ReleaseInst, Unlock, registryVars
    <2>. QED
      BY <2>1, <2>2 DEF connected
  <1>3. Floor = [kind |-> "unlock", by |-> cmd.sess, names |-> cmd.rest]
    BY DEF UnlockResumes, Floor
  <1>4. CASE RequireLock(n, cmd.sess) /\ ReleaseInst(n)
    <2>1. owner[n] = cmd.sess /\ owner' = [owner EXCEPT ![n] = NoOwner]
      BY <1>4 DEF RequireLock, ReleaseInst, Unlock
    <2>2. Floor' = IF cmd.rest = {n} THEN Lease!NoRequest
                   ELSE [kind |-> "unlock", by |-> cmd.sess, names |-> cmd.rest \ {n}]
      <3>1. cmd.rest \ {n} = {} <=> cmd.rest = {n}
        BY <1>1
      <3>. QED
        BY <1>1, <1>4, <3>1 DEF UnlockRound, Running, NoCmd, Floor, Lease!NoRequest
    <2>3. Lease!GiveBack(n)
      BY <1>1, <1>2, <1>3, <2>1, <2>2 DEF Lease!GiveBack, connected
    <2>. QED
      BY <1>2, <2>3 DEF AbstractStep, Lease!Next
  <1>5. CASE UNCHANGED owner /\ cmd' = NoCmd
    <2>1. Lease!Refuse
      BY <1>2, <1>3, <1>5 DEF Lease!Refuse, Lease!NoRequest, connected, Floor, NoCmd
    <2>. QED
      BY <2>1 DEF AbstractStep, Lease!Next
  <1>. QED
    BY <1>1, <1>4, <1>5 DEF UnlockRound, registryVars

\* Every other command is an addition, a removal or no step of the lock table.
LEMMA CommandLease ==
  ASSUME IInv, NEW s \in Sessions, Command(s)
  PROVE  AbstractStep
  <1>. USE DEF registryVars, instVars
  <1>0. ASSUME UNCHANGED <<owner, conn, reg>>, cmd = NoCmd, cmd'.op \notin {"lock", "unlock"}
        PROVE  AbstractStep
    BY <1>0, FloorKept, StutterStep DEF NoCmd
  <1>1. ASSUME NEW n \in Names, IADD(s, n) PROVE AbstractStep
    <2>1. Floor = Lease!NoRequest /\ UNCHANGED Floor /\ UNCHANGED connected
      BY <1>1, NoFloor, FloorKept DEF IADD, Dispatch, NoCmd, sessionVars, connected
    <2>2. owner[n] = NoOwner
      BY <1>1 DEF IADD, Add, IInv, StateMatchesFields
    <2>3. n \notin reg /\ reg' = reg \cup {n} /\ UNCHANGED owner
      BY <1>1, <2>2 DEF IADD, Add, IInv, TypeOK, InstTypeOK
    <2>4. Lease!Add(n)
      BY <2>1, <2>3 DEF Lease!Add, connected
    <2>. QED
      BY <2>4 DEF AbstractStep, Lease!Next
  <1>2. ASSUME NEW n \in Names, IREMOVE(s, n) PROVE AbstractStep
    <2>1. Floor = Lease!NoRequest /\ UNCHANGED Floor /\ UNCHANGED connected
      BY <1>2, NoFloor, FloorKept DEF IREMOVE, Dispatch, NoCmd, sessionVars, connected
    <2>2. n \in reg /\ reg' = reg \ {n} /\ owner' = [owner EXCEPT ![n] = NoOwner]
      BY <1>2 DEF IREMOVE, Remove
    <2>3. Lease!Remove(n)
      BY <2>1, <2>2 DEF Lease!Remove, connected
    <2>. QED
      BY <2>3 DEF AbstractStep, Lease!Next
  <1>. USE DEF Dispatch
  <1>3. ASSUME NEW n \in Names, IRESET(s, n) PROVE AbstractStep
    BY <1>3, <1>0 DEF IRESET, Reset, sessionVars, NoCmd
  <1>4. ASSUME NEW n \in Names, NEW op \in {"call", "init", "ping"}, NEW e, NEW m,
               cmd = NoCmd, StartCall(s, op, n, e, m)
        PROVE  AbstractStep
    BY <1>4, <1>0 DEF StartCall, Running
  <1>5. ASSUME NEW n \in Names, IINIT(s, n) \/ IPING(s, n) PROVE AbstractStep
    BY <1>4, <1>5 DEF IINIT, IPING
  <1>6. ASSUME NEW n \in Names,
               IRAW(s, n) \/ ISAVE(s, n) \/ ILOAD(s, n) \/ IWAIT(s, n)
        PROVE  AbstractStep
    BY <1>4, <1>6 DEF IRAW, ISAVE, ILOAD, IWAIT, TrackedCall
  <1>7. ASSUME NEW n \in Names, NEW r \in Resources,
               \/ \E m \in BOOLEAN : IREAD(s, n, r, m)
               \/ IWRITE(s, n, r)
        PROVE  AbstractStep
    BY <1>4, <1>7 DEF IREAD, IWRITE, TrackedCall
  <1>8. ASSUME NEW n \in Names, NEW r \in Resources,
               IREADRefused(s, n, r) \/ IWATCH(s, n, r) \/ IUNWATCH(s, n, r)
        PROVE  AbstractStep
    BY <1>0, <1>8 DEF IREADRefused, IWATCH, IUNWATCH, sessionVars, NoCmd
  <1>9. ASSUME NEW N \in SUBSET Names, IALIGN(s, N) \/ IUNWATCHAll(s, N)
        PROVE  AbstractStep
    BY <1>0, <1>9 DEF IALIGN, IUNWATCHAll, Running, sessionVars, NoCmd
  <1>10. ASSUME NEW args, IMREAD(s, args) PROVE AbstractStep
    BY <1>0, <1>10 DEF IMREAD, Running
  <1>. QED
    BY <1>1, <1>2, <1>3, <1>5, <1>6, <1>7, <1>8, <1>9, <1>10, AskStep
    DEF Command

\* The end of a driver call touches no owner.
LEMMA CallEndsLease ==
  ASSUME NEW n \in Names, CallEnds(n)
  PROVE  AbstractStep
  <1>1. UNCHANGED <<owner, conn, reg>>
    BY DEF CallEnds, CallReturns, MreadReturns, PlainCallEnds, HealthCallEnds,
           WatchCallEnds, InitContinues, InitCompletes, AlignContinues, BecomeReady,
           sessionVars, registryVars
  <1>2. \/ UNCHANGED cmd
        \/ cmd.op \notin {"lock", "unlock"} /\ cmd'.op \notin {"lock", "unlock"}
    BY DEF CallEnds, CallReturns, MreadReturns, PlainCallEnds, HealthCallEnds,
           WatchCallEnds, InitContinues, InitCompletes, AlignContinues,
           sessionVars, NoCmd, Running
  <1>. QED
    BY <1>1, <1>2, FloorKept, StutterStep

\* A disconnect is a Leave, which may release the first lock at once.
LEMMA DisconnectLease ==
  ASSUME IInv, NEW s \in Sessions, Disconnect(s)
  PROVE  AbstractStep
  <1>1. s \in connected
    BY DEF Disconnect, connected
  <1>2. connected' = connected \ {s} /\ UNCHANGED <<cmd, reg>>
    BY DEF Disconnect, CloseRelease, CloseDone, ReleaseInst, Unlock, connected,
           instVars, IInv, TypeOK, SessionTypeOK
  <1>3. \/ UNCHANGED owner
        \/ \E n \in Names : /\ owner[n] = s
                            /\ owner' = [owner EXCEPT ![n] = NoOwner]
    BY DEF Disconnect, CloseRelease, CloseDone, ReleaseInst, Unlock, Owned,
           instVars, IInv, TypeOK, InstTypeOK
  <1>4. Floor.by # s /\ UNCHANGED Floor
    BY <1>2, FloorKept, OwnerAssumption DEF Disconnect, Floor
  <1>5. Lease!Leave(s)
    BY <1>1, <1>2, <1>3, <1>4 DEF Lease!Leave, connected
  <1>. QED
    BY <1>5 DEF AbstractStep, Lease!Next

\* A later round of close() releases a lock of the session that left, or ends
\* the loop.
LEMMA CloseResumesLease ==
  ASSUME IInv, NEW s \in Sessions, CloseResumes(s)
  PROVE  AbstractStep
  <1>1. connected' = connected /\ s \notin connected /\ UNCHANGED <<cmd, reg>>
    BY DEF CloseResumes, CloseRelease, CloseDone, ReleaseInst, Unlock, connected,
           instVars, IInv, TypeOK, SessionTypeOK
  <1>2. UNCHANGED Floor
    BY <1>1, FloorKept
  <1>3. CASE UNCHANGED owner
    BY <1>1, <1>2, <1>3 DEF AbstractStep
  <1>4. CASE \E n \in Names : owner[n] = s /\ owner' = [owner EXCEPT ![n] = NoOwner]
    <2>1. PICK n \in Names : owner[n] = s /\ owner' = [owner EXCEPT ![n] = NoOwner]
      BY <1>4
    <2>2. Lease!CleanUp(n)
      BY <1>1, <1>2, <2>1 DEF Lease!CleanUp, connected
    <2>. QED
      BY <2>2 DEF AbstractStep, Lease!Next
  <1>. QED
    BY <1>3, <1>4 DEF CloseResumes, CloseRelease, CloseDone, ReleaseInst,
       Unlock, Owned, instVars, IInv, TypeOK, InstTypeOK

\* Every step of the server is a step of the lock table or stutters.
LEMMA NextLease == IInv /\ Locking /\ [Next]_vars => AbstractStep
  <1>. SUFFICES ASSUME IInv, Locking, [Next]_vars PROVE AbstractStep
    OBVIOUS
  <1>1. ASSUME UNCHANGED <<owner, conn, reg>>, UNCHANGED cmd PROVE AbstractStep
    BY <1>1, FloorKept, StutterStep
  <1>2. ASSUME NEW n \in Names,
               \/ Guard(n)
               \/ HealthTick(n) /\ UNCHANGED <<meas, watch, sessionVars>>
               \/ Hardware(n)
        PROVE  AbstractStep
    BY <1>1, <1>2 DEF Guard, WatchTick, GuardTrip, HealthTick, Hardware,
       WriteLands, OrphanEnds, registryVars, sessionVars
  <1>3. CASE UNCHANGED vars
    BY <1>1, <1>3 DEF vars, instVars, sessionVars
  <1>4. CASE UnlockAborts
    <2>1. UNCHANGED <<owner, connected, reg>>
      BY <1>4 DEF UnlockAborts, instVars, connected
    <2>2. Floor # Lease!NoRequest /\ Floor' = Lease!NoRequest
      BY <1>4 DEF UnlockAborts, Floor, Lease!NoRequest, NoCmd
    <2>3. Lease!Refuse
      BY <2>1, <2>2 DEF Lease!Refuse, connected
    <2>. QED
      BY <2>3 DEF AbstractStep, Lease!Next
  <1>. QED
    BY <1>2, <1>3, <1>4, GrantStep, UnlockResumesLease, CommandLease,
       DisconnectLease, CloseResumesLease, CallEndsLease
    DEF Next

\* Seen through owners, connections, the registry and the request being served
\* the server is a lock table: an ILOCK takes all the instruments it names or
\* none, only free ones, for a connected session; a lock is released by an
\* IUNLOCK of its owner that names it, by the cleanup of an owner that has left
\* or with its instrument; nothing hands it from one session to another.
THEOREM ImplementsLockTable == Spec => LeaseSpec
  <1>1. Init => Lease!Init
    BY DEF Init, InstInit, Lease!Init, Floor, NoCmd, Lease!NoRequest
  <1>. QED
    BY <1>1, Inductive, NextLease, PTL
    DEF LeaseSpec, Lease!Spec, Lease!table, Spec, AbstractStep, connected
=============================================================================
