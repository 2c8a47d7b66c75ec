------------------------------ MODULE Shutdown -------------------------------
(***************************************************************************)
(* The end of the server: TestCoreServer.stop() over the sessions of       *)
(* Server, and the interrupt that makes run_server call it.  stop()        *)
(* cancels every handler's task once and waits for all of them; then it    *)
(* stops guards and health tasks, makes every instrument safe and          *)
(* disconnects it, without an await; at last it closes the listening       *)
(* socket and waits for asyncio's Server.wait_closed().                    *)
(*                                                                         *)
(* A cancelled handler gets CancelledError where it is suspended.  Its     *)
(* finally runs close(), unless it is in close() already: then that is cut *)
(* short at the await it is in, since close() only catches Exception.      *)
(***************************************************************************)
EXTENDS Server, Picks

CONSTANT WaitsForClients    \* does wait_closed() wait until every accepted
                            \* connection is closed (from Python 3.12 on)?

ASSUME WaitAssumption == WaitsForClients \in BOOLEAN

VARIABLES
    stopping,   \* "no", "interrupted" (start() was cancelled), "gather"
                \* (awaiting the handlers), "closing" (in wait_closed()), "done"
    listening,  \* does the socket still accept connections?
    cancelling, \* handlers cancelled and not yet resumed
    gathered,   \* handlers that stop() waits for
    cutShort    \* where in close() a handler was cancelled, or "no" (history)

stopVars == <<stopping, listening, cancelling, gathered, cutShort>>
allVars == <<vars, stopVars>>

InClose == {"drop", "bye", "gone"}

StopInit ==
    /\ Init
    /\ stopping = "no" /\ listening = TRUE
    /\ cancelling = {} /\ gathered = {}
    /\ cutShort = [s \in Sessions |-> "no"]

\* Handlers that never come to writer.close(): their connections stay open
\* unless the client resets them.
Dangling == {s \in Sessions : cutShort[s] \in {"drop", "bye"}}

\* Ctrl-C: the task of start() is cancelled.  serve_forever closes the socket
\* and waits in wait_closed() before run_server gets to stop().
Interrupt ==
    /\ stopping = "no"
    /\ stopping' = "interrupted" /\ listening' = FALSE
    /\ UNCHANGED <<vars, cancelling, gathered, cutShort>>

\* stop() after that, or by itself while start() runs (and goes on accepting):
\* task.cancel() on all of the clients.  Without any it does not wait for them.
Stop ==
    /\ \/ stopping = "no"
       \/ stopping = "interrupted" /\ (WaitsForClients => Connected = {})
    /\ stopping' = IF Connected = {} THEN "closing" ELSE "gather"
    /\ listening' = (listening /\ Connected # {})
    /\ cancelling' = Connected /\ gathered' = Connected
    /\ UNCHANGED <<vars, cutShort>>

\* Mutated form of Cancelled: handle() swallows the exception and reads on.
CancelledReadsOn(s) ==
    /\ s \in cancelling
    /\ cancelling' = cancelling \ {s}
    /\ pc[s] \notin InClose
    /\ Goto(s, "idle")
    /\ pub' = [pub EXCEPT ![s] = NoPub]
    /\ dispatchq' = Without(dispatchq, {s})
    /\ UNCHANGED <<kvVars, entries, listeners, alive, modeVars, stopping, listening, gathered, cutShort>>

\* Mutated form of Cancelled: the queue of the dispatch lock is not left.
CancelledKeepsLock(s) ==
    /\ s \in cancelling
    /\ cancelling' = cancelling \ {s}
    /\ pc[s] \notin InClose
    /\ BeginClose(s)
    /\ UNCHANGED <<dispatchq, stopping, listening, gathered, cutShort>>

\* The handler is resumed by CancelledError: it leaves the publication it is in
\* and the dispatch lock or its queue, and closes.
Cancelled(s) ==
    /\ s \in cancelling
    /\ cancelling' = cancelling \ {s}
    /\ pc[s] \notin InClose
    /\ BeginClose(s)
    /\ dispatchq' = Without(dispatchq, {s})
    /\ UNCHANGED <<stopping, listening, gathered, cutShort>>

\* The same at an await of close(): what comes behind it is not done, neither
\* the release of keys and subscriptions nor writer.close(), as far as they do.
\* Only the task's callback runs.
CancelledInClose(s) ==
    /\ s \in cancelling
    /\ cancelling' = cancelling \ {s}
    /\ pc[s] \in InClose
    /\ cutShort' = [cutShort EXCEPT ![s] = pc[s]]
    /\ listeners' = WithoutListener(s, {"monitors"}, listeners)
    /\ pub' = [pub EXCEPT ![s] = NoPub]
    /\ Goto(s, "closed")
    /\ UNCHANGED <<kvVars, entries, alive, modeVars, dispatchq, stopping, listening, gathered>>

\* asyncio.gather returns; the rest of stop() up to wait_closed().
Gathered ==
    /\ stopping = "gather"
    /\ gathered \cap Connected = {}
    /\ stopping' = "closing" /\ listening' = FALSE
    /\ UNCHANGED <<vars, cancelling, gathered, cutShort>>

\* wait_closed() returns.
Stopped ==
    /\ stopping = "closing"
    /\ WaitsForClients => Connected = {}
    /\ stopping' = "done"
    /\ UNCHANGED <<vars, listening, cancelling, gathered, cutShort>>

StopNext ==
    \/ \E s \in Sessions :
          \/ /\ \/ listening /\ Connect(s)
                \/ Hangup(s)
                \/ s \notin cancelling /\ Handle(s)
             /\ UNCHANGED stopVars
          \/ Cancelled(s) \/ CancelledInClose(s)
    \/ Interrupt \/ Stop \/ Gathered \/ Stopped

\* Stopped is fair only while no connection dangles.
StopSpec ==
    /\ StopInit /\ [][StopNext]_allVars
    /\ \A s \in Sessions :
          /\ WF_allVars(\/ /\ s \notin cancelling
                           /\ Execute(s) \/ Publishes(s) \/ Closed(s)
                           /\ UNCHANGED stopVars
                        \/ Cancelled(s) \/ CancelledInClose(s))
          /\ SF_allVars(s \notin cancelling /\ (Leave(s) \/ DropEnds(s)) /\ UNCHANGED stopVars)
    /\ WF_allVars(stopping = "interrupted" /\ Stop)
    /\ WF_allVars(Gathered)
    /\ WF_allVars(Stopped /\ Dangling = {})

-----------------------------------------------------------------------------
(* Properties *)

\* Wherever the handlers are when they are cancelled, a session that is over has
\* left every list and the dispatch lock and has given back its keys.  Only one
\* whose close() was cut short may leave something behind, and only what close()
\* had not come to: its subscriptions if it was before the end of its last
\* publication, its keys if it was still at the instruments.
ClosedLeavesNothing ==
    \A s \in Sessions : pc[s] = "closed" =>
        /\ \A b \in Lists : \A l \in listeners[b] : l[1] = s => s \in Dangling /\ b # "monitors"
        /\ \A k \in Keys : owners[k] = s => cutShort[s] = "drop"
        /\ \A i \in DOMAIN dispatchq : dispatchq[i] # s

\* Whom wait_closed() may wait for: clients accepted after stop() had cancelled
\* the others, and connections whose handler was cut short.
Unattended == (Connected \ gathered) \cup Dangling

\* stop() gets through its handlers, who tell each other that they go, as long
\* as clients read what is written to them, and comes to its end unless it waits
\* for ever for a connection nobody will close.
StopEnds ==
    stopping \in {"gather", "closing"} ~>
        \/ stopping = "done"
        \/ [](stopping = "closing" /\ Unattended # {})

-----------------------------------------------------------------------------
(* Claims that the code does not keep *)

\* "Close all client connections (triggers lock cleanup per client)"
\* (server.py:316): when stop() is done, the cleanup of every client was.
StopCleansUp ==
    stopping = "done" =>
        \A s \in gathered :
            /\ \A b \in Lists : \A l \in listeners[b] : l[1] # s
            /\ \A k \in Keys : owners[k] # s

\* "Stop the server gracefully" (server.py:314): whoever interrupts or stops the
\* server sees it end.
StopReturns == stopping # "no" ~> stopping = "done"
=============================================================================
