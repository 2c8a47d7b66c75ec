# A TLA+ model of TestCore

TestCore is a TCP server (RESP2 protocol, one asyncio event loop) between test
programs and laboratory instruments. Sessions lock instruments, read and write
their resources, share key-value data and measurements, and listen to events.
This directory models the server's own logic, checks it with TLC on small
instances and proves part of it with TLAPS for all instances.

## 1. Inventory

| Part | State | Operations | Talks to |
|---|---|---|---|
| Instrument registry, `instruments.py` | per instrument: state (IDLE, LOCKED, READY, UNRESPONSIVE, FAULT), owner, resources, `_lock`, `_busy` | `add`, `remove`, `lock`, `unlock`, `reset`, `init_instrument`, `align`, `_call_driver` and the tracked calls | drivers, in worker threads under a watchdog timeout |
| MEAS store, `store.py` | value, time and status of every reading | `write_meas`, `invalidate_meas` | IREAD/IMREAD with MEAS, guards, unlock |
| Watch guards, `watch.py` | one task per guarded resource | `start`, `stop`, `stop_instrument`, the polling loop, `_guard_trip` | registry, MEAS, event bus |
| Health monitor, `health.py` | one task per monitored instrument, `health_failures` | `start`, `stop`, the ping loop | registry, event bus |
| Key-value store, `store.py` | data, owner of read-only keys | `set`, `mset`, `delete`, `flushdb`, `release_owner` | KV commands, disconnect |
| Journal, `journal.py` | ring buffer of commands | `record`, `tail`, `head`, `clear` | dispatcher |
| Event bus, `events.py`; monitors, `server.py` | channel → set of subscriptions; set of monitors | `subscribe`, `unsubscribe(_all)`, `publish`, `broadcast_monitors` | everybody's sockets |
| Dispatcher, `commands.py` | one global `asyncio.Lock` | `dispatch` and the handlers | all of the above |
| Connections, `server.py` | handler tasks, `subscribing`, `monitoring` | connect, read, answer, `close` | dispatcher, registry, store, bus |
| Shutdown and bench file, `server.py`, `__main__.py` | `running`, the listening socket | `stop`, `load_bench_config` | everything |
| RESP parser and serializer, `protocol.py` | input buffer | `feed`, `RESPSerializer` | connections |
| SCPI drivers and transports, `base_driver.py`, `drivers/`, `transport.py` | `_transport`; the socket's blocking mode, bytes on the line | `connect`, `init`, `read`, `write`, `safe_state`, `info`, ...; `send`, `query` | registry (in threads, or on the event loop), the instrument |
| Client library, `testcore_client/` | socket, buffer | `send_command`, `send_pipeline`, `subscribe`, `listen`, `reconnect` | the server |
| Command-line client, `cli/` | socket | | the server |

What is hard. Commands are serial, but the dispatch lock does not cover
everything that changes state: guards and health pings run beside commands,
`close()` of a dead session runs beside them too, and every `await` (a driver
call, the drain of an event) lets the others in. What was checked before an
`await` may be stale after it; a task may be cancelled while it waits for or holds
`inst._lock`; a call that the watchdog gave up on continues in its thread; a
publication iterates over a set that others change, and raises. Shutdown cancels handlers
wherever they are suspended. Reads cut messages anywhere. RESP has no request ids and neither
has SCPI: whoever times out and goes on may take the next answer for his. `PROJECT.json` lists these
hazards at their lines, with the properties about each.

What makes the parts correct: fields of an instrument agree with its state; a lock
has an owner who will release it; nobody drives an instrument that is not his;
guards live exactly as long as the ownership they protect; the lock queues contain
the tasks that wait, each once; commands and cleanups end; read-only keys are
protected and released; no closed session is left in any list; what is parsed is what
was sent; an answer goes to the question it answers; the server can be stopped.

## 2. Modules

```
Picks <- Instruments <- MeasStore <- WatchManager  \
         Instruments <- HealthMonitor               >- Bench <- BenchClaims <- MCBench
LockTable (abstract, INSTANCEd by Bench)           /
KeyTable (abstract, INSTANCEd by Server)
Clients <- KVStore, EventBus; Journal: Server <- ServerClaims <- MCServer
                                       Server <- Shutdown <- MCShutdown
RESPScalars <- RESP    \
RESPScalars <- Framing  >- MCFraming
ClientConnection        ScpiDriver

Picks <- PicksProofs      Bench  <- BenchProofs <- QueueProofs
                          Server <- ServerProofs <- ShutdownProofs
                          ClientConnection <- ClientProofs
                          ScpiDriver <- ScpiProofs      Framing <- FramingProofs
```

Bench looks at instruments, Server at sessions and events, Shutdown at the end of both ends'
tasks; Framing is the bytes below a connection, ClientConnection the messages on it,
ScpiDriver what is inside a driver call that Bench takes for one step.

**Instruments** keeps the registry. `reg`, `state`, `owner` and `resources` are the
fields of the same names. `lockq[n]` is `inst._lock`: its holder, then the
waiters in the order `asyncio.Lock` serves them. A driver call is two steps: the caller queues (`Enqueue`),
and later the call of the queue's head ends (`Pop`) with one of
`Outcomes`: `ok`, `drverr` (DriverError), `exc` (anything else) or `timeout`.
`orphan[n]` holds calls whose thread outlives its await, and `hw[n]` says whether
the hardware is driven or safe; `WriteLands` and `OrphanEnds` are what such threads do. `Drives` are the calls that may
change outputs: write, passthrough, load, and `configure()`, which sends the lines of an IINIT's file.
**Picks** removes elements from a queue (cancelled waiters, the arguments of a command that concern one instrument).
**MeasStore**, **WatchManager** and **HealthMonitor** add the MEAS statuses, the guard
tasks (`watch[n][r]`: none, sleeping, in a call, about to trip, dead) and the health tasks.
A publication that raises ends a guard or a health task, as in the code.

**Bench** composes them. `cmd` is the command that holds the dispatch lock, with
the instruments it works on; one action per command starts it (with the checks of
its handler) and one per kind of call resumes it. `conn`, `todo` and `aborted` are
the state of `close()`: its loop over a copy of the instrument names is cut at
the publications it awaits, so that IREMOVE can intervene. `CallEnds(n)` lets the head of `lockq[n]`
return to whoever called: a command, a guard or a health task. ILOCK and IUNLOCK are cut at the dispatch lock: `ILOCK` and `IUNLOCK` are given it,
`HandleLock` is the body of `handle_lock` (all names validated, then all taken), `UnlockResumes` a round of `handle_unlock`'s loop.
`UnlockAborts` is an IUNLOCK whose publication raised: the names left keep their locks.

**LockTable** is what the locks promise to clients. `floor` is the request being served, with its names. A request for locks is granted as a whole
(`Grant`: every name exists and is free or the asker's own) or changes nothing (`Refuse`). A lock is given back by a request of its holder that
names it (`GiveBack`), by the cleanup after its holder left (`Leave`, `CleanUp`), or with the instrument (`Remove`); it is never handed from one session to another.
`LeaseSpec` in Bench states that Bench implements it under `holder <- owner`, `connected <- {s : conn[s] = "open"}`, `there <- reg` and
`floor <- Floor`, the ILOCK or IUNLOCK that holds the dispatch lock. An ILOCK that took some of its names would be no step of LockTable: its names are in `floor` before it acts.

**KVStore**, **Journal** and **EventBus** are the three services. A publication is
`pub[s]`: the list, the size of the set when the iteration began, the listener being
written to, those to come and those found dead. Python's set iterator raises as soon as
the size differs; that is `Raises`.

**Server** composes them with connections and the dispatch lock (`dispatchq`, holder
first). `pc[s]` is where the handler of session s is suspended. Each KV, SUBSCRIBE,
MONITOR and JOURNAL command is an action; `PING` and `KGET` stand for the commands that only look.
The release of instrument locks in `close()` is in Bench; here it is the publications
it awaits (`pc` "drop": any number of them, one per instrument), before the read-only keys are released, the session's end is published ("bye"), and the subscriptions go.

**KeyTable** is what the store promises about read-only keys: a session that is there changes keys that are free or its own,
several at once or none, a held key is stored, and the step in which the session leaves gives back all its keys, and only those. `KeySpec` in Server
states the refinement, under `value <- data, holder <- owners` and `stage`, which `pc` determines: a session is there from its connection to the
release of its keys in `close()`. Shutdown does not implement it: a handler cancelled among the publications of the release loop ends with its keys.

**Shutdown** adds `stop()`, and the interrupt before it, to Server. `cancelling` are the handlers to which `task.cancel()` has been
applied and that have not run since. One that is resumed by CancelledError gives up its place in the
dispatch queue and its publication and runs `close()` (`Cancelled`), unless it is in
`close()` already, which is then cut short at the await it is in (`CancelledInClose`): it only catches Exception. `cutShort` remembers where. When `gather` has returned
(`Gathered`) `stop()` closes the socket and waits in `wait_closed()` (`Stopped`). `WaitsForClients` says what that waits for: from Python 3.12 on, for every accepted
connection; before, for nothing. `Unattended` are those who will not close by themselves: clients accepted after the others were cancelled, and connections whose
handler was cut short before `writer.close()` (`Dangling`).

**RESPScalars** has the serializer and the parsers of strings, lines and numbers as operators on sequences of bytes, **RESP** the parsers of whole
messages (arrays, which nest, and inline commands) for server and client. **Framing** is the reads of either end: a stream of items, cut into reads in
every way. `Feed` is `RESPParser.feed` up to its loop, with the limit, `Receive` is `Connection._recv_more`; a round of the loop is a step
(`Take`, `Drained`, `Raise`), and `batch` is what feed() has parsed and not yet returned, lost when it raises. The parser is a parameter of Framing, so
that it can be proved about although RESP is recursive; `MCFraming` gives it RESP's. `ParserContract` is what the loops need of it, and the
reference for what comes out is the list of values that were given to the serializer.

**ClientConnection** is a thread in the client library and the handler it talks to. `call` is the library's call in progress
with the number of messages it will still read, `toServer`, `out` and `toClient` are the requests and
messages under way. Messages carry the number of the request they answer, which the code does not have: the properties compare it
with the request they are taken for. `spoilt` records whether a read timed out or an event was counted as an
answer since the connection was made; `reconnect()` clears it.

**ScpiDriver** opens a driver call: `thread[i]` is the i-th call with the step of its method (`Program`) and of
`Transport.query` it is in, each on the transport that `self._transport` named when the step began.
`lockq`, the watchdog and cancellation are those of `instruments.py`; `loop` is a method that the event loop runs itself (`safe_state()`
in unlock, `info()` in IINFO, `connect()` in IRESET), during which nothing else of the server moves. A query on the wire and
a line received are named by the call that asked. `trusted` are calls that began with the line to themselves.

**BenchClaims**, **ServerClaims** and the last sections of Shutdown, ClientConnection and ScpiDriver state what the
documentation says and the code does not do. **MCBench**, **MCServer**, **MCShutdown** and **MCFraming** hold constants for TLC.

### Abstractions

* Driver results are outcomes, thresholds a choice between in and out of range, time
  is absent: a tick, a timeout or a poll may come at any moment it is possible.
* Refused commands that change nothing are not written as actions of Bench; in Server they are,
  because they take the lock and get into the journal.
* `close()` visits the instruments in any order (the code: in order of registration).
* In Bench a publication that further steps follow may raise at any time; when it does, and who is reached before, is in Server.
* A protocol error, which closes the connection, is in Framing; in Server it is one of the ways a client goes.
* In Framing a byte is a symbol, bytes that are not UTF-8 are one symbol, numbers have one digit; the limit of the
  buffer and the size of a read are small constants.
* In ScpiDriver an answer is a whole line, *TST? is part of every IINIT, and `discover()` asks the instrument nothing, as in the bundled
  driver. The methods that are one command or one query are "write" or "read".
* Shutdown keeps sessions, subscriptions, keys and the dispatch lock. The instruments whose locks a cleanup that was cut short leaves behind are not composed with it; `stop()` makes them
  safe in any case. A connection whose writer is dropped without `close()` stays open as far as the model knows.
* In Server the events of IUNLOCK and MEAS that `close()` awaits are all on the channel lock. `Connect` is the acceptance of a connection and the handler's first step.
* `safe_state()` is the only thing that makes the hardware safe again: the *RST of an IINIT is not counted.
* In ScpiDriver an instrument that closes its socket (`recv` returns nothing) is one that does not answer.
* A listener that replaces another under a publication's iterator (the size unchanged)
  is not visited; in Python that depends on hash order.

## 3. Runs

Passing runs on Bench (module MCBench):

| Run | Instance | Shows |
|---|---|---|
| `bench_guards` | 1 instrument, 2 resources, 2 sessions, calls that succeed, raise or hang | consistency of state, ownership, guards and lock queue under every interleaving of commands, polls, trips, timeouts and disconnects; a broken instrument leaves its state only by IRESET (to LOCKED), a release, or the IINIT or IALIGN under way |
| `bench_many` | 2 instruments, IMREAD of two | the same for commands with several names and for close() against IREMOVE; implements LockTable: an ILOCK takes all its names or none, only the holder or its cleanup gives back |
| `bench_quiet` | 1 monitored instrument, no timeouts, `safe_state()` works, no IREMOVE | UNRESPONSIVE only after three failed pings; an IDLE instrument stays safe, but for the lines of an IINIT's file that reach it after its owner has gone; MEAS is OK only while the instrument is owned |
| `bench_live` | 1 monitored instrument with a guard, fairness | a command, a guard and a health task compete for one lock: the queue stays right, every command ends; types |

Passing runs on Server (module MCServer):

| Run | Instance | Shows |
|---|---|---|
| `kv_store` | 2 sessions, a plain and a reserved key, 2 values, subscriptions to one key, journal of 2 | read-only keys are protected and released, through publications too, and implement KeyTable; the windows of JOURNAL |
| `server_events` | 3 sessions, 2 at a time, channels session and lock, MONITOR | session events and monitored commands against joins, leaves and hang-ups: no residue, modes exclude each other, no leaked dispatch lock; types |
| `server_live` | 2 sessions, KSET events and MONITOR, fairness | commands are answered, sessions end |

Passing runs on the other modules:

| Run | Instance | Shows |
|---|---|---|
| `shutdown` | 2 sessions, a key, KSET, lock and kv events, `WaitsForClients`, fairness | handlers cancelled anywhere leave the dispatch lock, every list and their keys; one cut short in close() leaves what close() had not come to, and no more; `stop()` ends, or waits for ever for an unattended connection |
| `framing` | streams of up to 3 messages in either direction, reads of up to 4 bytes, a buffer of 19, among them inline, nested, empty, malformed and undecodable ones and one as long as never overflows; all cuts into reads | the parsers keep to each message, with up to 3 arbitrary bytes behind it; what is parsed is what was sent; exceptions only for a cause; the client raises for every error reply and otherwise only for a string that begins with the error mark |
| `client_calls` | 2 channels, 4 requests, pipelines of 2, monitors present, fairness of reads | answers go to their requests unless a read timed out or an event was counted as an answer; `reconnect()` restores this; every call ends |
| `scpi_calls` | 3 driver calls on a socket and on a serial port, 2 transports | a call that begins undisturbed returns the answer to its own query |

Refutations: what the documentation or a comment says and the code does not do. The first one is a
run of `PROJECT.json`, with a finding; the others can be repeated in the same way
(`tlc -config claim_x.cfg M` with the module given).

| Configuration | Module | Property | What happens |
|---|---|---|---|
| `claim_calls_wrapped` | ScpiDriver | `CallsWrapped` | IINFO and IRESET query the instrument on the event loop, on a socket whose timeout `query` has removed: no answer, and the server hangs (commands.py:452, transport.py:95) |
| `claim_access_serialised` | ScpiDriver | `AccessSerialised` | an IINFO during a guard's read: one of them gets the other's answer (commands.py:452) |
| `claim_safe_state_reports` | ScpiDriver | `SafeStateReports` | the drivers' `safe_state()` swallows exceptions, so the unlock ends in IDLE, not in FAULT (base_driver.py:257) |
| `claim_response_mine` | ClientConnection | `ResponseIsMine` | an answer that comes after the timeout is returned by the next command (connection.py:115) |
| `claim_listen_drains` | ClientConnection | `ListenDrains` | events are counted as answers to UNSUBSCRIBE; the rest is left for the next command (client.py:637) |
| `claim_inline_lf` | MCFraming | `DecodesWhatWasSent` | lines that end with LF are joined when a CRLF follows in the same read (protocol.py:104) |
| `claim_close_releases` | MCBench | `ClosedOwnsNothing` | IREMOVE while close() publishes ends the release loop; a dead session keeps a lock (server.py:162) |
| `claim_locked_owned` | MCBench | `LockedIsOwned` | a ping of an unowned instrument times out, IRESET makes it LOCKED by nobody, for ever (instruments.py:305) |
| `claim_fault_blocks` | MCBench | `FaultBlocksWrites` | a write that queued behind a guard's read is executed after the guard tripped (instruments.py:232) |
| `claim_broken_sticky` | MCBench | `BrokenUntilReset` | IINIT overwrites a guard's FAULT with READY (instruments.py:272) |
| `claim_guard_runs` | MCBench | `GuardRunsWhileReady` | an exception other than DriverError kills a guard silently (watch.py:132) |
| `claim_guards_stop` | MCBench | `GuardsStopWithLock` | a refused IUNLOCK disarms the owner's guards (commands.py:778) |
| `claim_delivered` | MCServer | `AllDelivered` | a join or leave makes publish() raise before it has reached everybody (events.py:176) |
| `claim_subscriber_mode` | MCServer | `SubscribersInMode` | SUBSCRIBE that fails half-way leaves subscriptions outside subscriber mode (commands.py:1283) |

The others need no configuration of their own; each is a configuration above with the changes given:

* `bench_guards` with `TransportExclusive`: after a timeout and IRESET two threads use one transport (instruments.py:241);
* `claim_guard_runs` with `Outcomes = {"ok", "drverr"}`, `Commands = {"IADD", "ILOCK", "IINIT"}` and `IdleIsSafe`: README.md:72 says "The bench is always safe", but the lines of a
  configuration file that another session's IINIT sends reach the instrument after its owner has left and `safe_state()` has run (instruments.py:265);
* `bench_quiet` with `timeout` among the outcomes: an abandoned write reaches the hardware after `safe_state()`
  (`IdleStaysSafe`, instruments.py:241), and one ping that times out is enough (`ThreeStrikes`, health.py:87). The proofs
  therefore assume that there are no timeouts;
* `bench_quiet` with IREMOVE: MEAS entries survive it as OK (`MeasOkMeansOwned`, commands.py:398);
* `claim_locked_owned` with the property `ResetRestoresReady`: README.md:753 says IRESET "restores `READY` state", but it leads to LOCKED, as README.md:581 says (instruments.py:305);
  with `ResetByOwner`: README.md:581 says "Requires owner", but any session may reset (commands.py:667);
* `kv_store` with `TailCounts`: JOURNAL 0 returns every entry, where journal.py:74 says "Return last N entries" (journal.py:77);
* `claim_delivered` with `StoredMeansOk`: a KSET that stored is answered with an error (commands.py:208);
* `server_events` with `ClosedOnlyWhenGone`: a change of the monitors closes the connection of another client (server.py:252);
* `shutdown` with `StopCleansUp`: server.py:316 says that stop() "triggers lock cleanup per client", but a handler cancelled in close() leaves its keys and subscriptions (server.py:330);
  with `StopReturns`: it waits for a connection nobody will close, and after Ctrl-C for every client to go by itself (server.py:366);
* `claim_inline_lf` with `Replies <- TwoLines` and no requests: an error text with a CRLF becomes two messages
  (protocol.py:358); with `Replies <- Answers`, no requests and `RaisesOnlyForErrors`: a stored value that begins with `ERR_` raises in the
  client, where connection.py:98 says "Raises on errors" (connection.py:101).

**Bounds.** Two sessions suffice for a conflict over a lock. Two guards, or a guard and a health task, and a
command are three waiters in one queue, so that FIFO order and the cancellation of a holder, a middle and a last
waiter all occur. Interaction between instruments comes only from commands with several names and from close(),
which `bench_many` covers with two (the refutation of close() needs a third). A connection that closes and two
that follow it need three session ids, two of them connected at a time: the limit of `max_clients` is met. A
publication needs one who publishes and one who joins or leaves. `shutdown` leaves out MONITOR and the channel session, whose lists
`server_events` has, to fit kv and lock: a handler is cancelled in a KSET's publication and in those of close(); the theorems of Shutdown have all of them. The journal is checked at every fill from empty to
its size. In `framing` three messages show what one leaves behind for the next, and the limit of the buffer is met
from both sides. In `client_calls` four requests are enough for a command after a listen() that followed a reconnection.
In `scpi_calls` three calls are one that is abandoned, one that it meets, and one after it or on the event loop; two transports are
one before and one after IRESET. Sessions, resources and values are interchangeable; symmetry is used in safety runs only. Deadlock is not
checked: when every session has left nothing needs to happen.

**Fairness.** In Bench: driver calls end (the watchdog bounds each: `wait_for` has a timeout), an ILOCK that has been given the dispatch lock runs, and a
handler or `close()` that waits for a publication resumes. No fairness is assumed of clients, guards or
health tasks. In Server: writes are drained, the handler at the head of the dispatch queue runs (the loop schedules
every ready task), `close()` completes, and (strong) a handler whose client has gone reads the end of the
stream, since only finitely many commands are buffered. That writes are drained is an assumption about
clients: `_write` has no timeout, and a subscriber that stops reading stops the server. In Server (strong) the release loop of `close()` ends: a session holds finitely many
locks. Shutdown adds that a cancelled handler is resumed, that `gather` returns, that `run_server` gets to `stop()` once `start()` has ended, and that `wait_closed()` returns when it may and no connection dangles. In ClientConnection a read ends, by a message or by the socket's timeout; the
server need not answer. In ScpiDriver (for the refutation) threads, the watchdog and the loop run; the instrument need not answer.

## 4. Proofs

Everything below is proved for all values of the constants, from the assumptions that the modules name: `NoOwner` is
not a session, `NoRes` not a resource, `Outcomes` and `SafeOutcomes` are subsets of the possible ones, `NoValue` is not a
value, the bounds are natural numbers, a client has finitely many channels, an item on the wire is not empty. Each invariant was first checked by TLC on
the instances of section 3, with its strengthening. Where a proof says a step at a time what the step disturbs there is one lemma per action (or
per group with the same effect), then one for `Next`, then the temporal theorem.

**The registry** (`BenchProofs`). `IInv` is inductive: the types; `StateMatchesFields`; `OwnerWillRelease`;
`OwnerDuringCall`; `GuardsOwned` (a guard starts under the owner's lock, and every step that takes the
owner away stops the guards first); and `TasksOnRegistered`, the strengthening: commands and health tasks work on
registered instruments only. Without it a call could return to an instrument that has been removed and make it
READY. `Locking` is inductive beside it: an ILOCK or IUNLOCK that has the dispatch lock belongs to a session that is still
connected (otherwise it could lock for one that has left, or release for `NoOwner`). The action property `BrokenLeavesBy` follows from both.
The same module proves `ImplementsLockTable`, `Spec => LeaseSpec`: initial states map to
initial states and each action to the action of LockTable that it is: ILOCK and IUNLOCK to an Ask, `HandleLock` to a Grant or a Refuse, a round of IUNLOCK to a GiveBack or a
Refuse, the steps of `close()` to a Leave or a CleanUp, IADD and IREMOVE to Add and Remove, everything else to a stutter. What makes `Grant` possible is that
`Lockable` implies free or the session's own, by `StateMatchesFields` (IDLE has no owner).

**The lock queues** (`QueueProofs`). `QueueMatchesTasks` and `CommandIsQueued` count the entries of `inst._lock`'s queue. What is
inductive is `QInv`, which says the same without counting: `Fits(q, B, room)`, a queue holds each call of the set
B once, no other background call, and of the command in progress no call, one, or many, as `room` says. `B` is what
the guard and health tasks of the instrument are in (`Calling`), `room` what the command works on (`Room`); `CommandWaits` says that a command
that waits has a call somewhere, and `OneAtATime` that only IMREAD has more than one. There is a lemma on `Fits` for each thing that happens to a queue: a task joins,
the head leaves, tasks are cancelled out of the middle, a call is replaced by the next one of IINIT or IALIGN. Cancellation removes
elements from a sequence; the model defines that by positions instead of recursion (`Picks`), and `PicksProofs` shows for sequences of any length
that the elements that stay are there once each, in their order (`PickedElements`, `WithoutElements`). The counts follow at the end.

**The quiet bench** (`QueueProofs`, second part). Three properties hold under a hypothesis on the constants that `bench_quiet` meets, and section 3 shows that each
is needed. `MeasOkMeansOwned` without IREMOVE: from `GuardsOwned` and `OwnerDuringCall`, since who writes OK is a guard or
the command of an owner. `ThreeStrikes` without timeouts: the strengthening `Strikes` adds that no ping of an UNRESPONSIVE instrument is under way,
or its answer could set the counter back to 0. `IdleStaysSafe` without timeouts and with a `safe_state()` that works: the strengthening `DrivesTracked` says that
no abandoned thread drives outputs and that a write, passthrough or load is queued only for the command in progress, whose
session still owns the instrument. `configure()`, of a session that need not own it, is what the property excepts.

**The server** (`ServerProofs`). `IInv(cut)` is inductive: the types; that lists are finite; `LineUp` (the dispatch queue holds the handlers that
wait or run, each once, and the one that publishes under the lock is its head); `PubLists` (each suspended publication is on the list
that its handler's place says); `Unlisted(cut)` (who has left is in no list), with `ModesSettled` (a handler whose command waits for the lock has
left monitor mode, and one about to enter it is no subscriber); `ModesExclusive`; `Leases(cut)`, which is `RoLease` but for the sessions that were cut short before the release of their keys. `Unlisted` needs
that a session's entries go before its handler ends and that no publication puts one back, whatever it raises. `cut` says where each session's `close()` was cut
short: nowhere in Server. From it follow `RoLease`, `ModesExclusive`, `NoResidue` and `DispatchConsistent`. `RoProtected` also needs a journal that
holds at least one entry, because it recognises the command by its entry; `JournalWindows` is an argument on windows of a sequence no
longer than `JournalSize`. `ImplementsKeyTable`, `Spec => KeySpec`, needs no journal and of the invariants only the types: what a
command does to keys it does in one step, between the dispatch lock and the first await, with the check of the owner in it; however its publication ends, the steps that follow
map to stutters or to the end of the session.

**The end of the server** (`ShutdownProofs`). Shutdown's steps are Server's, two of a cancelled handler and those of `stop()` itself. The lemmas about `IInv(cut)` hold for any `cut`, so
that `IInv(cutShort)` needs only the two: a handler that is cancelled leaves the queue from any place in it (`CancelledLeavesLine`, from `WithoutElements`), and a cleanup that
is cut short, among the publications of the release loop, in the last one or while its writer closes, joins `cut` with that place. Then `ClosedLeavesNothing`, and `StopKeepsOrder`: the types, the modes, the dispatch queue, and
`Leases(cutShort)`. Neither depends on `WaitsForClients`. That read-only keys are given back by every session that ends is not among them, since it is not so (section 3, `StopCleansUp`).

**The client** (`ClientProofs`). `InStep` and `AnswersMatch` relate the messages that the library still expects to those that requests under
way will produce. `CInv` says what is under way in each phase of a call on a connection on which nothing has gone wrong: nothing (`Resting`); answers numbered
upward from the one expected, then requests (`Asking`); confirmations among events, fewer than expected or else all of them, and then
the server's subscriptions are the client's (`Confirming`); events only (`Listening`); events, then the answers to UNSUBSCRIBE (`Draining`). The
hard step is the refusal of SUBSCRIBE: with one channel its error looks like the confirmation, and `Agreed` says why the call that follows still gets as many answers as it
expects, because UNSUBSCRIBE without subscriptions has one answer. `MonitorsThere`, the length of pipelines and the number of channels are arbitrary.

**The driver** (`ScpiProofs`). `AnswersOwnQuery` speaks of the answer a call has got; what is inductive, `DInv`, is about who is on the line and what lies on it:
the types, with each call at a step of its program; `LockOK` (the lock's queue holds each call once, all but its head still wait, none
is abandoned); `Accounted` (who runs in a thread holds the lock, is the event loop's or is abandoned); `Believed` (beside a call that may be
believed only `safe_state()` runs, and its line is `Clean`: nothing is owed before it asks, on a socket nothing is left after the flush, and
afterwards every query and answer there is its own). That `safe_state()` may run beside it is where the programs matter: it sends and never
asks. A program with two queries would break the proof, since a call whose first query on a serial port timed out may find
that answer when it asks again: it would still be its own, but the line would not be clean.

**Framing** (`FramingProofs`). The loops over the buffers are proved for any parser of a single message that keeps to the items (`KeepsToItems`: no
proper part of an item is taken for a message, all of it has its value and length whatever bytes of the same read lie behind it; a malformed one raises and is never
taken for a message), any number of items, any size of reads and of the buffer. `FInv` is inductive: where the items lie in the stream (`Layout`); that the
messages and the batch are the first items (`TakenInOrder`); that the buffer is the stream from the next item to the last byte read
(`BufferIsNext`); and `Remainder`, why the hypothesis applies: when the loop has ended the next item is not complete, so that while it runs less than one read lies
behind the next. From it follow `DecodesWhatWasSent`, `FailsOnlyForCause` and, for replies whose bytes are what the serializer makes of their values (`FromSerializer`: stored values that begin with the mark,
arrays of them, numbers and nulls included; only simple strings, which are the server's own words, are without the mark), `RaisesForErrors`: the client raises for the error replies and the marked strings, and for nothing else. The hypothesis is what `ParserContract` says and TLC
checks of the items of `framing`; for two kinds of items it is proved as well. `BulkStringsKeep`: `ParseBulk` keeps to the bulk string of any decodable string (a CRLF or a type byte
in it included) as long as its length has one digit, which is the model's bound on numbers. `LinesKeep`: `ParseLine` keeps to simple strings and errors of any length
without a CRLF in the text; with one it does not (section 3). Both assume that the parser of messages hands `$`, `+` and `-` on to these (`HandsOn`), as the definitions of `ParseRESP`,
`ParseMessage` and `TryParse` do.

**Only model-checked.** Liveness (`CommandEnds`, `CommandAnswered`, `SessionEnds`, `StopEnds`, `CallEnds`), which is out of the prover's reach.
`ParserContract` for integers and nulls, of which the model has finitely many, and for arrays and inline commands: the parsers of these are recursive, on messages that nest, and what they compute for every input would need an
induction over data.

## 5. Not modelled

The bench file and the start-up (arguments, files, then IADD); introspection commands, which read and format; the typed methods of
the client library, each a command and the parsing of its answer; VISA, whose library is not the repository's, and the choice of a transport by address; the
dry-run driver, which has no transport; the CLI and the vendored linenoise. The thread pool is unbounded in the model, and
`asyncio.wait_for` behaves as in Python 3.12. The package asks for Python 3.9 or later, and `Server.wait_closed` has changed since: `WaitsForClients`
is TRUE for 3.12.1 and later (the run) and FALSE before (the theorems have both). In 3.12 `serve_forever`, too, waits for the clients when it is cancelled, so that Ctrl-C comes to `stop()` only when none is connected.

## 6. Plan

Done: Instruments, MeasStore, WatchManager, HealthMonitor, Bench with publications that raise, LockTable with its refinement;
Clients, KVStore, Journal, EventBus, Server, KeyTable with its refinement, Shutdown; RESPScalars, RESP and Framing; ClientConnection; ScpiDriver; the proofs of section 4. Next:

1. Cancellation inside the release loop of Bench's `close()`, and the last pass of `stop()` over the instruments: nobody owns
   anything afterwards.
2. A bounded thread pool under ScpiDriver.
