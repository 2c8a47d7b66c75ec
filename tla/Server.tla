------------------------------- MODULE Server --------------------------------
(***************************************************************************)
(* The server around the instruments: connections and their handlers       *)
(* (testcore/server.py), the dispatch lock, the KV, SUBSCRIBE, MONITOR and *)
(* JOURNAL commands (testcore/commands.py).  The instrument commands and   *)
(* the release of instrument locks are in Bench.                           *)
(*                                                                         *)
(* pc[s] is where the handler task of session s is:                        *)
(*   "new"     not connected yet                                           *)
(*   "greet"   publishing its connect event                                *)
(*   "idle"    reading from the client                                     *)
(*   "queued"  waiting for the dispatch lock, or holding it, with any      *)
(*             command but MONITOR; "monitor" the same with MONITOR        *)
(*   "run"     in KSET's publication, holding the dispatch lock            *)
(*   "cast"    after its command, writing to the monitors                  *)
(*   "reply"   after MONITOR, sending its answer                           *)
(*   "drop"    in close(), publishing that it has unlocked an instrument   *)
(*   "bye"     in close(), publishing its disconnect event                 *)
(*   "gone"    in close(), its streams being closed                        *)
(*   "closed"  over                                                        *)
(***************************************************************************)
EXTENDS KVStore, Journal, EventBus

CONSTANTS
    Commands,   \* command names the clients of this instance use
    Channels,   \* channels they subscribe to: <<base, key or AnyKey>>
    MaxClients

ASSUME ChannelAssumption ==
    /\ Channels \subseteq VALID_CHANNELS \X (Keys \cup {AnyKey})
    /\ IsFiniteSet(Channels)
ASSUME MaxClientsAssumption == MaxClients \in Nat

VARIABLES
    pc,
    alive,          \* is the client's end of the connection still there?
    subscribing,    \* ClientHandler.subscribing
    monitoring,     \* ClientHandler.monitoring
    dispatchq       \* the dispatch lock: its holder, then the waiters in order

modeVars == <<subscribing, monitoring>>
busVars == <<listeners, pub>>
vars == <<kvVars, entries, busVars, pc, alive, modeVars, dispatchq>>

Pcs == {"new", "greet", "idle", "queued", "monitor", "run", "cast",
        "reply", "drop", "bye", "gone", "closed"}

Init ==
    /\ KVInit
    /\ JournalInit
    /\ BusInit
    /\ pc = [s \in Sessions |-> "new"]
    /\ alive = [s \in Sessions |-> FALSE]
    /\ subscribing = [s \in Sessions |-> FALSE]
    /\ monitoring = [s \in Sessions |-> FALSE]
    /\ dispatchq = <<>>

Goto(s, l) == pc' = [pc EXCEPT ![s] = l]

\* The keys of TestCoreServer.clients.
Connected == {s \in Sessions : pc[s] \notin {"new", "closed"}}

\* Handler s goes to label l by way of publishing on list c, if it is heard
\* by anybody (the lists being ls), and to label after otherwise.
Publish(s, ls, c, key, l, after) ==
    IF Heard(ls, c, key)
    THEN Goto(s, l) /\ Started(s, ls, c, key)
    ELSE Goto(s, after) /\ pub' = [pub EXCEPT ![s] = NoPub]

\* Connections a write to which may raise.
Lost == {s \in Sessions : ~alive[s] \/ pc[s] = "gone"}

-----------------------------------------------------------------------------
(* Connections *)

\* _client_connected: beyond max_clients a connection is turned away.
Admits == Cardinality(Connected) < MaxClients

Connect(s) ==
    /\ pc[s] = "new"
    /\ Admits
    /\ alive' = [alive EXCEPT ![s] = TRUE]
    /\ Publish(s, listeners, "session", AnyKey, "greet", "idle")
    /\ UNCHANGED <<kvVars, entries, listeners, modeVars, dispatchq>>

\* The client goes away; the handler will notice.
Hangup(s) ==
    /\ s \in Connected /\ alive[s]
    /\ alive' = [alive EXCEPT ![s] = FALSE]
    /\ UNCHANGED <<kvVars, entries, busVars, pc, modeVars, dispatchq>>

\* close() unlocks an instrument that s holds and tells those who listen.  (The
\* locks are in Bench: s may hold any number of them.  The events of the
\* instrument's MEAS entries, just before, are publications of the same kind.)
Unlock(s, ls) ==
    /\ Heard(ls, "lock", AnyKey)
    /\ Started(s, ls, "lock", AnyKey)
    /\ Goto(s, "drop")
    /\ listeners' = ls
    /\ UNCHANGED <<kvVars, entries, alive, modeVars>>

\* close() behind its loop over the instruments, up to its last publication.
Depart(s, ls) ==
    /\ ReleaseOwner(s)
    /\ Publish(s, ls, "session", AnyKey, "bye", "gone")
    /\ listeners' = IF Heard(ls, "session", AnyKey) THEN ls
                    ELSE WithoutListener(s, VALID_CHANNELS, ls)
    /\ UNCHANGED <<entries, alive, modeVars>>

\* close() up to its first await.
BeginClose(s) == Unlock(s, listeners) \/ Depart(s, listeners)

Close(s) == BeginClose(s) /\ UNCHANGED dispatchq

\* read() returns no data.
Leave(s) == pc[s] = "idle" /\ ~alive[s] /\ Close(s)

GreetReturns(s) ==
    /\ pc[s] = "greet"
    /\ Returns(s)
    /\ listeners' \in AfterPublish(s, Lost)
    /\ pub' = [pub EXCEPT ![s] = NoPub]
    /\ Goto(s, "idle")
    /\ UNCHANGED <<kvVars, entries, alive, modeVars, dispatchq>>

\* handle() catches the exception only to close the connection.
GreetRaises(s) ==
    /\ pc[s] = "greet"
    /\ Raises(s)
    /\ Close(s)

\* A publication of close() returned or raised, which it catches: it goes on
\* with the next instrument, or with the rest.
DropGoesOn(s) ==
    /\ pc[s] = "drop"
    /\ \E ls \in Ended(s, Lost) : Unlock(s, ls)
    /\ UNCHANGED dispatchq

DropEnds(s) ==
    /\ pc[s] = "drop"
    /\ \E ls \in Ended(s, Lost) : Depart(s, ls)
    /\ UNCHANGED dispatchq

ByeEnds(s) ==
    /\ pc[s] = "bye"
    /\ \E ls \in Ended(s, Lost) : listeners' = WithoutListener(s, VALID_CHANNELS, ls)
    /\ pub' = [pub EXCEPT ![s] = NoPub]
    /\ Goto(s, "gone")
    /\ UNCHANGED <<kvVars, entries, alive, modeVars, dispatchq>>

\* close() is over and the task's callback runs.
Closed(s) ==
    /\ pc[s] = "gone"
    /\ listeners' = WithoutListener(s, {"monitors"}, listeners)
    /\ Goto(s, "closed")
    /\ UNCHANGED <<kvVars, entries, pub, alive, modeVars, dispatchq>>

-----------------------------------------------------------------------------
(* Commands *)

\* Mutated form of Receive: the monitor mode is left only by its flag.
ReceiveStaysMonitor(s) ==
    /\ pc[s] = "idle"
    /\ Goto(s, "queued")
    /\ dispatchq' = Append(dispatchq, s)
    /\ UNCHANGED <<kvVars, entries, busVars, alive, modeVars>>

\* A command other than MONITOR arrives.  It ends the monitor mode at once and
\* waits for the dispatch lock.
Receive(s) ==
    /\ pc[s] = "idle"
    /\ Goto(s, "queued")
    /\ monitoring' = [monitoring EXCEPT ![s] = FALSE]
    /\ listeners' = IF monitoring[s] THEN WithoutListener(s, {"monitors"}, listeners)
                                     ELSE listeners
    /\ dispatchq' = Append(dispatchq, s)
    /\ UNCHANGED <<kvVars, entries, pub, alive, subscribing>>

\* A command that dispatch() turns down before it takes the lock: it is unknown,
\* or not allowed in subscriber mode.
ReceiveRejected(s) ==
    /\ pc[s] = "idle"
    /\ monitoring' = [monitoring EXCEPT ![s] = FALSE]
    /\ listeners' = IF monitoring[s] THEN WithoutListener(s, {"monitors"}, listeners)
                                     ELSE listeners
    /\ UNCHANGED <<kvVars, entries, pub, pc, alive, subscribing, dispatchq>>

ReceiveMONITOR(s) ==
    /\ "MONITOR" \in Commands
    /\ pc[s] = "idle" /\ ~subscribing[s]
    /\ Goto(s, "monitor")
    /\ dispatchq' = Append(dispatchq, s)
    /\ UNCHANGED <<kvVars, entries, busVars, alive, modeVars>>

\* s holds the dispatch lock and executes command c, which its mode allows.
Executes(s, c) ==
    /\ c \in Commands
    /\ pc[s] = "queued"
    /\ Head(dispatchq) = s
    /\ subscribing[s] => c \in {"SUBSCRIBE", "UNSUBSCRIBE", "PING"}

\* dispatch() releases the lock and writes to the monitors, if there are any,
\* before the answer is sent.
Respond(s) ==
    /\ dispatchq' = Tail(dispatchq)
    /\ Publish(s, listeners, "monitors", AnyKey, "cast", "idle")

\* Mutated form of Answer: an error leaves dispatch() with the lock held.
AnswerLeaks(s, status) ==
    /\ Record(s, status)
    /\ IF status = "ok" THEN Respond(s)
       ELSE /\ Goto(s, "idle") /\ pub' = [pub EXCEPT ![s] = NoPub]
            /\ UNCHANGED dispatchq

\* A command that the journal records.
Answer(s, status) == Record(s, status) /\ Respond(s)

\* KSET key value [NX|XX] [RO]
KSET(s, k, v, flags) ==
    /\ Executes(s, "KSET")
    /\ IF Refused(k, s) THEN Answer(s, "error") /\ UNCHANGED kvVars
       ELSE IF \/ "NX" \in flags /\ data[k] # NoValue
               \/ "XX" \in flags /\ data[k] = NoValue
       THEN Answer(s, "ok") /\ UNCHANGED kvVars
       ELSE /\ Set(k, v, "RO" \in flags, s)
            /\ IF Heard(listeners, "kv", k)
               THEN Goto(s, "run") /\ Started(s, listeners, "kv", k) /\ UNCHANGED <<entries, dispatchq>>
               ELSE Answer(s, "ok")
    /\ UNCHANGED <<listeners, alive, modeVars>>

\* The event is out; or the publication raised, which dispatch() turns into an
\* error reply.
KSETReturns(s) ==
    /\ pc[s] = "run"
    /\ \/ Returns(s) /\ listeners' \in AfterPublish(s, Lost) /\ Answer(s, "ok")
       \/ Raises(s) /\ UNCHANGED listeners /\ Answer(s, "error")
    /\ UNCHANGED <<kvVars, alive, modeVars>>

\* KMSET, KDEL: every key is checked before the first one is touched.
KMSET(s, v) ==
    /\ Executes(s, "KMSET")
    /\ IF \E k \in DOMAIN v : Refused(k, s)
       THEN Answer(s, "error") /\ UNCHANGED kvVars
       ELSE Answer(s, "ok") /\ MSet(v)
    /\ UNCHANGED <<listeners, alive, modeVars>>

KDEL(s, K) ==
    /\ Executes(s, "KDEL")
    /\ IF \E k \in K : Refused(k, s)
       THEN Answer(s, "error") /\ UNCHANGED kvVars
       ELSE Answer(s, "ok") /\ Drop(K \cap {k \in Keys : data[k] # NoValue})
    /\ UNCHANGED <<listeners, alive, modeVars>>

KFLUSH(s) ==
    /\ Executes(s, "KFLUSH")
    /\ FlushDB(s)
    /\ Answer(s, "ok")
    /\ UNCHANGED <<listeners, alive, modeVars>>

\* SUBSCRIBE to the channels cs, after which an invalid one may follow: it
\* ends the command, the channels before it stay subscribed.
SUBSCRIBE(s, cs, invalid) ==
    /\ Executes(s, "SUBSCRIBE")
    /\ listeners' = [b \in Lists |->
                       listeners[b] \cup {<<s, c[2]>> : c \in {d \in cs : d[1] = b}}]
    /\ subscribing' = [subscribing EXCEPT ![s] = @ \/ ~invalid]
    /\ Answer(s, IF invalid THEN "error" ELSE "ok")
    /\ UNCHANGED <<kvVars, alive, monitoring>>

Subscribed(s, ls) == \E b \in VALID_CHANNELS : \E l \in ls[b] : l[1] = s

\* UNSUBSCRIBE from the channels cs; all of them when it has no argument.
UNSUBSCRIBE(s, cs) ==
    /\ Executes(s, "UNSUBSCRIBE")
    /\ listeners' = [b \in Lists |->
                       listeners[b] \ {<<s, c[2]>> : c \in {d \in cs : d[1] = b}}]
    /\ subscribing' = [subscribing EXCEPT ![s] = @ /\ Subscribed(s, listeners')]
    /\ Answer(s, "ok")
    /\ UNCHANGED <<kvVars, alive, monitoring>>

\* MONITOR: nobody is told, and the answer is sent before the mode begins.
MONITOR(s) ==
    /\ pc[s] = "monitor"
    /\ Head(dispatchq) = s
    /\ Record(s, "ok")
    /\ dispatchq' = Tail(dispatchq)
    /\ Goto(s, "reply")
    /\ UNCHANGED <<kvVars, busVars, alive, modeVars>>

\* _pending_monitor, once the answer is out; if it cannot be sent, the
\* connection is closed.
BecomeMonitor(s) ==
    /\ pc[s] = "reply"
    /\ listeners' = [listeners EXCEPT !["monitors"] = @ \cup {<<s, AnyKey>>}]
    /\ monitoring' = [monitoring EXCEPT ![s] = TRUE]
    /\ Goto(s, "idle")
    /\ UNCHANGED <<kvVars, entries, pub, alive, subscribing, dispatchq>>

ReplyRaises(s) == pc[s] = "reply" /\ s \in Lost /\ Close(s)

\* JOURNAL CLEAR, which the journal does not record.
JOURNALClear(s) ==
    /\ Executes(s, "JOURNAL")
    /\ Clear
    /\ Respond(s)
    /\ UNCHANGED <<kvVars, listeners, alive, modeVars>>

\* PING stands for the commands that neither change anything here nor get into
\* the journal, KGET for the other ones that only look.
PING(s) ==
    /\ Executes(s, "PING")
    /\ Respond(s)
    /\ UNCHANGED <<kvVars, entries, listeners, alive, modeVars>>

KGET(s, status) ==
    /\ Executes(s, "KGET")
    /\ Answer(s, status)
    /\ UNCHANGED <<kvVars, listeners, alive, modeVars>>

CastReturns(s) ==
    /\ pc[s] = "cast"
    /\ Returns(s)
    /\ listeners' \in AfterPublish(s, Lost)
    /\ pub' = [pub EXCEPT ![s] = NoPub]
    /\ Goto(s, "idle")
    /\ UNCHANGED <<kvVars, entries, alive, modeVars, dispatchq>>

\* The exception leaves dispatch() and ends the handler of the session whose
\* command it was.
CastRaises(s) ==
    /\ pc[s] = "cast"
    /\ Raises(s)
    /\ Close(s)

-----------------------------------------------------------------------------
Execute(s) ==
    \/ \E k \in Keys : \E v \in Values : \E flags \in SUBSET {"NX", "XX", "RO"} :
          KSET(s, k, v, flags)
    \/ \E K \in (SUBSET Keys) \ {{}} : KDEL(s, K) \/ \E v \in [K -> Values] : KMSET(s, v)
    \/ KFLUSH(s) \/ JOURNALClear(s) \/ MONITOR(s)
    \/ PING(s) \/ \E status \in {"ok", "error"} : KGET(s, status)
    \/ \E cs \in SUBSET Channels :
          \/ UNSUBSCRIBE(s, cs)
          \/ \E invalid \in BOOLEAN : (cs # {} \/ invalid) /\ SUBSCRIBE(s, cs, invalid)

\* A write is over, and the publication it belongs to goes on or ends.
Publishes(s) ==
    \/ Visit(s, Lost) /\ UNCHANGED <<kvVars, entries, pc, alive, modeVars, dispatchq>>
    \/ GreetReturns(s) \/ GreetRaises(s)
    \/ KSETReturns(s)
    \/ CastReturns(s) \/ CastRaises(s)
    \/ BecomeMonitor(s) \/ ReplyRaises(s)
    \/ DropGoesOn(s) \/ DropEnds(s) \/ ByeEnds(s)

\* A step of the handler of s.
Handle(s) ==
    \/ Leave(s) \/ Closed(s)
    \/ Receive(s) \/ ReceiveRejected(s) \/ ReceiveMONITOR(s)
    \/ Execute(s)
    \/ Publishes(s)

Next == \E s \in Sessions : Connect(s) \/ Hangup(s) \/ Handle(s)

Spec == Init /\ [][Next]_vars

\* Writes are drained: every listener reads, or its connection is lost.  A
\* handler that holds the dispatch lock runs its command.  A client that has
\* gone has sent only so many commands: read() returns no data in the end.
\* It holds only so many instruments: the loop of close() ends.
Fairness ==
    \A s \in Sessions :
        /\ WF_vars(Publishes(s))
        /\ WF_vars(Execute(s))
        /\ SF_vars(Leave(s))
        /\ SF_vars(DropEnds(s))
        /\ WF_vars(Closed(s))

FairSpec == Spec /\ Fairness

-----------------------------------------------------------------------------
(* Properties *)

\* Types of every variable.
TypeOK ==
    /\ KVTypeOK
    /\ BusTypeOK
    /\ entries \in Seq([sess : Sessions, status : {"ok", "error"}])
    /\ Len(entries) <= JournalSize
    /\ pc \in [Sessions -> Pcs]
    /\ alive \in [Sessions -> BOOLEAN]
    /\ subscribing \in [Sessions -> BOOLEAN]
    /\ monitoring \in [Sessions -> BOOLEAN]
    /\ dispatchq \in Seq(Sessions)

\* The session that acts in a step that changes the store: it is in a KSET, or
\* its entry is the one the journal has just got.
ActedBy(s) ==
    IF \E t \in Sessions : pc[t] # "run" /\ pc'[t] = "run"
    THEN pc[s] # "run" /\ pc'[s] = "run"
    ELSE entries'[Len(entries')] = [sess |-> s, status |-> "ok"]

\* A read-only key keeps its value until its owner changes it: no KSET, KMSET,
\* KDEL or KFLUSH of another session gets through (and none that the journal
\* calls an error), whatever was deleted, released and taken again before.
RoProtected ==
    [][\A k \in Keys :
          owners[k] # NoSession /\ data'[k] # data[k] => ActedBy(owners[k])]_vars

\* A key is read-only only while it exists and its owner is there to change
\* it: close() releases it before the owner's handler ends.
RoLease ==
    \A k \in Keys :
        owners[k] # NoSession =>
            data[k] # NoValue /\ pc[owners[k]] \notin {"new", "bye", "gone", "closed"}

\* The store as its clients see it: the keys, and the sessions whose commands
\* may still come.
Stage(l) == CASE l = "new" -> "new" [] l \in {"bye", "gone", "closed"} -> "left" [] OTHER -> "there"
stage == [s \in Sessions |-> Stage(pc[s])]

Table == INSTANCE KeyTable
    WITH Writable <- Keys \ Reserved, Clients <- Sessions, Nobody <- NoSession,
         Absent <- NoValue, value <- data, holder <- owners

\* The server implements the table of keys: commands that are refused, raise in
\* a publication or lose their client in the middle are a command of a session
\* that is there, or none, and a connection that ends in whatever way gives back
\* its keys in one step.
KeySpec == Table!Spec

\* A closed connection is left in no list: no publication in progress, no
\* dead-subscriber cleanup and no late MONITOR puts it back.
NoResidue ==
    \A s \in Sessions : pc[s] \in {"new", "closed"} =>
        \A b \in Lists : \A l \in listeners[b] : l[1] # s

\* A connection is never in monitor and in subscriber mode at once, and the
\* monitor flag is as good as the monitors list says.
ModesExclusive ==
    \A s \in Sessions :
        /\ ~(monitoring[s] /\ subscribing[s])
        /\ <<s, AnyKey>> \in listeners["monitors"] => monitoring[s]

\* Handlers and the dispatch lock agree: who waits or runs is queued once, who
\* runs holds it, and who publishes knows on which list.
DispatchConsistent ==
    /\ \A s \in Sessions :
          /\ Cardinality({i \in DOMAIN dispatchq : dispatchq[i] = s})
                = IF pc[s] \in {"queued", "monitor", "run"} THEN 1 ELSE 0
          /\ pc[s] = "run" => Head(dispatchq) = s
          /\ pub[s].list = CASE pc[s] \in {"greet", "bye"} -> "session"
                             [] pc[s] = "drop" -> "lock"
                             [] pc[s] = "run" -> "kv"
                             [] pc[s] = "cast" -> "monitors"
                             [] OTHER -> "none"

\* JOURNAL +n count and JOURNAL count (from 1 up) return the right window.
JournalWindows ==
    \A n, count \in 0 .. JournalSize :
        /\ LET w == HeadOf(n, count)
               first == IF n = 0 THEN 1 ELSE n
           IN  \A i \in 1 .. JournalSize :
                  i \in DOMAIN w <=>
                      /\ i <= count /\ first + i - 1 <= Len(entries)
                      /\ i \in DOMAIN w => w[i] = entries[first + i - 1]
        /\ count > 0 =>
              \E old \in {SubSeq(entries, 1, i) : i \in 0 .. Len(entries)} :
                  old \o TailOf(count) = entries /\ (old = <<>> \/ Len(TailOf(count)) = count)

\* A command that has been received is answered, or its session is closed.
CommandAnswered ==
    \A s \in Sessions :
        pc[s] \in {"queued", "monitor"} ~> pc[s] \in {"idle", "closed"}

\* A session whose client has gone ends.
SessionEnds == \A s \in Sessions : (s \in Connected /\ ~alive[s]) ~> pc[s] = "closed"
=============================================================================
