# TimeFuse-Server: models, checks and proofs

TimeFuse-Server pairs clients of a calendar service with worker processes. This directory holds TLA+
models of it, the TLC instances that check them, and theorems about them that TLAPS proves. Paths
are relative to the repository; `master_node.cpp` and the like stand in its `src/`.

## The system

Two programs are built from one source (`main.cpp` chooses): one **master**, and any number of
**workers**. A worker opens a socket to the master, says `REQUEST_CLIENT` and where it listens, and
waits for `OK`. A client says `REQUEST_WORKER` to the master and is sent the location of a worker;
it connects there, sends one command line, gets one answer and is disconnected. Workers share a
MySQL database.

| Component | State it keeps | Operations | Hard behaviour | What makes it correct |
|---|---|---|---|---|
| Master node (`master_node.*`, `*_connection.*`) | queues of waiting clients and workers, a mutex and a semaphore for each, connection objects | `handle_client_connect`, `handle_worker_connect`, `handle_disconnect`, `run`, `stop` | two threads, two mutexes in two orders, check and dequeue under different locks, answers posted to the other thread | nobody lost or duplicated between queue, thread and answer; no dangling socket; a worker goes to one client; waiting pairs are paired |
| TCP thread, master mode (`tcp_thread.*`) | sockets, posted events | `acceptConnection`, `readFromClient`, `disconnected`, `send_pair_info` | answers and deferred deletions are delivered later | the worker hears `OK` before its client comes; an answer reaches a live socket |
| Worker node (`worker_node.*`: `run`, `stop`, `handle_client_disconnect`) | `served_client`, state of the link to the master | register, wait for a job, wait for the client | one flag for all clients, cleared and set by two threads; timeouts; registrations that outlive their socket | waits only for a client that is to come, and leaves the wait when it was served, timed out or gone |
| TCP thread, worker mode | `currentSocket`, `m_p_timer` | accept, read, timeout, disconnected, `disconnect_client` | one timer pointer and one socket pointer for every client | each client has its own timeout and one answer; what one client does to timer and pointers does not reach the next |
| Request handlers (`worker_node.cpp` 1581-3104) | none | 26 commands | checks repeated by hand in each, exceptions, `contains()` dispatch | one answer per line, password and membership first, no missing field read |
| Database operations (`worker_node.cpp` 273-1521, `*.sql`) | users, groups, schedules, events, friendships | inserts, joins, renames, lists | concurrent workers, several autocommitted statements, no UNIQUE | no duplicates, no orphans, calendars follow their owner |
| Calendar (`event_struct.*`, `worker_node.cpp` 479-715) | none; reads calendars and the clock | `check_overlap`, `schedule_between`, the searches for free times | midnight, equal times, consecutive days, the order of a hash set, calendars that change during a search | proposals lie between events; what a group is told suits its members |
| User codec (`user.*`) | none | stream operators | order of the fields | reading gives back what was written |

Interactions: the master's two threads share its queues; the TCP thread calls the nodes' handlers
directly, on the main thread (`Qt::DirectConnection`); the master's `run` reaches the TCP thread
through queued signals. Worker and master talk over one socket, client and worker over another.
Workers meet each other only in the database.

## Modules

| Module | Models |
|---|---|
| `MasterNode` | the master: both threads, sockets, queues, locks, posted events |
| `PairingService` | what the master promises its sockets; `MasterNode` implements it |
| `MCMasterNode` | instances of the master for TLC |
| `MasterNodeProofs` | lemmas and theorems about it: types, locks, semaphores |
| `MasterQueueProofs`, `MasterPairingProofs`, `MasterServiceProofs` | the queues, the pairs, the refinement |
| `WorkerNode` | a worker's two threads, its clients' sockets and timers; the master as environment |
| `MCWorkerNode`, `WorkerNodeProofs` | instances, theorems |
| `Requests` | the dispatch of one line and the handlers, as a table over one control flow |
| `LineOutcome` | what `WorkerNode` assumes of a handled line; `Requests` implements it |
| `MCRequests`, `RequestsProofs` | its instance, theorems |
| `Database` | the database operations of several workers, statement by statement, over the tables |
| `Registry` | what those operations promise together; `Database` implements it while nothing disturbs it |
| `MCDatabase`, `DatabaseProofs` | instances, theorems |
| `Calendar` | a worker's search for free times, with the arithmetic of `event_struct.cpp` |
| `MCCalendar`, `CalendarProofs` | instances, theorems |

### MasterNode

Variables have the code's names (`m_client_connections`, `m_worker_connections`, ...);
`client_mutex` and `worker_mutex` hold their owner, `pcLoop` is the line of `run()`, `c` and `w` are
its locals, `events` is the main thread's queue of posted events, `sock` the state of each socket:
`closing` after `disconnectFromHost`, `gone` after the `disconnected` signal, `deleted` after the
deferred deletion. A critical section that holds one mutex and does not block is one action. `run()`
is split wherever it waits (`LockClient`, `LockWorkerAndCheck`, `TakeClient`, `LockWorkerAgain`,
`TakeWorker`) and between the unlocked steps (`Pair`, `EmitWorker`, `EmitClient`);
`handle_disconnect` is split between its two locks (`Disconnected`, `HandleDisconnect`).

`operator==` on connections compares the peer's port only (its name is empty on the accepting side),
so `MayEqual` and `MustEqual` go by `Port`, a constant. Using a destroyed socket is undefined: the
model lets the process end or lets it go on with what the freed memory may hold. The uninitialised
timer pointer deleted by `disconnected` (`tcp_thread.cpp:72`) may end the process or not.

`PairingService` has no threads, locks or events: `Ask`, `Offer`, `Match`, `Answer`, `Leave`, `Forget`
act on two queues in order of arrival, the answers still owed, in order, and those heard. In the
mapping `Service` a client or worker that `run()` has taken still waits until `Pair`, which is
`Match`; from then on its answer is owed, first by `run()`, then by the posted event. A worker that
drops between the check and the second lock is forgotten, and `run()` finds nobody to match. The
posted deletion of a socket that left is an `End`, which takes its turn among the answers: it stands
behind what was posted before the drop, and may stand before what `run()` still holds. Entries may
be forgotten only when their socket has left, so the refinement fails where `handle_disconnect`
takes the wrong entry out, as it may with equal ports.

### WorkerNode

`run()` is one action per label of the code. `link` is the present socket as the master sees it,
`stale` counts sockets the worker has deleted and the master still has queued; `read` is `dirty`
once a line that was not `OK` is left in it. `job` names the client that the present `OK` speaks of:
the code does not keep it, the properties need it. Sections of `m_p_mutex` read or write
`served_client` once and are part of the action around them. `ReadFromClient` includes the whole
handler of the line, which runs on the main thread without interruption. Deferred deletions come in
any order with other sockets' notifications.

Nothing keeps clients apart: the master may still pair a registration that the worker gave up after
30 s (`MasterPairsStale`), and a client may come while the previous one is still there. Two connected
clients share `m_p_timer` and `currentSocket`; then a timer is stopped or deleted for the wrong one,
twice, or not at all, and one that is left running goes off at whoever connects later. The model
does all of that. `met` is a history variable: the clients that were connected while another was.
The properties of timers are about clients outside it, in any behaviour, also after others have met
and left timers behind: the damage stays with those who meet. Only for `AnsweredOnce` it does not: a
timer left running may go off at a lone client that has just been answered, so its first half ends
with the first meeting. `TypeOK` includes that each accepted client has a timer and that the two
pointers, which nobody initialises, are set before any handler uses them.

### Requests and LineOutcome

A handler is a record: accepted numbers of fields, fields read, calls in order. `Found` is the chain
of `text.contains()`, a line is the set of keywords in it: those of its command and those hidden in
a field (`payload`). Each call returns true, returns false or throws. The order of answer and
`served_client = true` differs between branches; nobody else runs in between on the main thread and
`run()` sees only the flag, so both are one step. The contents of answers are reduced to their kind.

`LineOutcome` has the outcomes `WorkerNode.ReadFromClient` chooses from: answered and `run()` told,
answered only, told only, or the process ended. `ImplementsLineOutcome` shows `Requests` to be an
implementation of it, with the mapping `Abstract`.

### Database and Registry

Nobody opens a transaction, so every statement is committed by itself: one statement is one action,
and those of different workers interleave. `call` is the operation a worker is in, `pc` the index of
its next statement in `Statements`, `local` the variables of the procedure (`uid`, `gid`, `X` ...).
A procedure's IF belongs to the statement before it. Actions are named for the statement and shared
by the operations that execute it (`FindGroup` serves three procedures). The tables are sets of rows
with the ids that AUTO_INCREMENT gave; a foreign key is a guard of the statement it may refuse.
`SELECT INTO` leaves its variable at 0 when it finds no row and is an error when it finds two;
`select_schedule_id` takes the first of any number, so it is a choice. An event has a place, a
start, a duration, and is immutable or not. One that is not is stored to start its duration earlier
(`StoredStart`), but the duplicate test compares stored starts with the start asked for (`Items`):
asking for it again inserts it again, and an immutable event may be refused because a mutable one is
stored where it would start. Events of groups are always asked for as mutable. `update_user` renames those
of the accounts of a name that have the password, so it renames any subset. `StatementFails` is the
server or the connection failing a statement: the operation throws, or returns false where the code
opens the connection first; what was committed stays. A worker that dies between two statements does
to the tables what a failed statement does. `schedule_item.is_repeated` is NOT NULL, has no default
and is not given by `AddPersonalEvent`: on a server in strict mode every insertion fails, otherwise
none does. The model contains both.

`Registry` is an account book whose calls act at one moment: `Act`, or `Reply` with its effect. Its
calendar is a bag of entries, since the code accepts some events twice: `Can` refuses an event when
an entry starts at that place at the time asked for, and `Entered` says where it is entered itself.
The mapping `Book` turns rows into names and makes a removal take effect when the members are gone.
`seen` is a history variable: which of the things the procedures do not provide for have happened.
They are calls that overlap and mention a common name (`overlap`; with a removal among them
`removal`), a `rename`, an `error`, and a `shared owner` (a schedule made for a name that has one).
Each property says which of them it needs absent, and no more: uniqueness of account names survives
failures, uniqueness of group names survives overlapping calls. `ImplementsRegistry` is void as soon
as any has happened.

### Calendar

Dates are day numbers, times of day seconds (milliseconds are left out), durations minutes.
`Suggest` is `suggest_event_times` for one user with everything it calls: the calendar is read once,
the hash set lists its elements in any order, and the deadline has any duration in `Garbage`,
because the code never sets it (`worker_node.cpp:540`). `Check` is one call of `is_valid_for_user`,
which reads the clock and the calendar again; between any two steps the clock may move (`Tick`) and
another worker may add an event (`AddEvent`). `asked` and `late` are history: the clock at the
request, and the events added when their owner's check had begun. Searches of `suggest_user_events`
(one user, no checks) and `suggest_group_events` are both in the model.

## Checks

All runs finish within three minutes with two TLC workers. Bounds are constants of the
configurations.

| Run | Shows |
|---|---|
| `master_queues` | 2 clients, 2 workers, one request each, distinct ports, symmetry, any two of the four leave (`FewLeave`): `PairingService` implemented, so nobody is lost, duplicated, overtaken or removed for somebody else; queue entries live, a worker is given once |
| `master_equal_ports` | 2 clients and a worker on one port, `stop()` allowed, so wrong entries are removed and freed sockets scanned: the semaphores still never block, a worker hears first, waiting pairs are served and taken clients answered, the mutex deadlock excepted |
| `worker_clients` | 2 clients, connected at once or one after the other, `stop()`, one registration that outlives its socket: who meets nobody has a timer of its own and is sent away when silent; one answer each until two have met; nobody is closed on without a line; a closing or not yet answered client releases `run()` |
| `requests_all` | every command, 1 to 10 fields, every keyword hidden in a field, every outcome of every call: password and membership checked first, no missing field read, `run()` told, the slot chosen by the chain; `LineOutcome` implemented |
| `database` | 2 workers, 2 account names and 2 group names of which one is the same, an account and a group to begin with, any 3 calls, one immutable and two mutable events of which two are stored at one start, failing statements: what stays unique under which disturbances; `Registry` implemented |
| `calendar` | a group of two, 4 possible events (around noon, at 16:00, past midnight, of eight hours), 3 deadlines, 2 lengths, a clock before and after midnight, events added during the search: proposals fit a gap, answers are ahead and clear of events but for the exceptions |

Runs that end in a violation, each for a sentence of the repository the code does not keep:

| Run | What the code does |
|---|---|
| `master_deadlock` | `run()` and `handle_disconnect` lock the two mutexes in opposite orders |
| `master_dangling` | an answer is sent to a socket deleted in the meantime |
| `worker_lost_wakeup` | the client is served before `served_client` is cleared: `run()` waits for ever |
| `worker_timers` | two connected clients share the timer pointer: a silent one is never sent away |
| `database_removal` | a group with an event loses its members and its row, then the removal throws |
| `calendar_conflict` | a time that starts with a member's event is sent to the group as free |

The models also do the following, for which no run is kept: a worker told `BYE` is queued with an
empty location, which a client is then sent (`RequestClient`); `run()` dequeues a worker from a
queue that a disconnection has emptied since it looked (`TakeWorker`); with equal ports a dropped
connection takes another peer's entry out of the queue (`MayEqual`); after `BYE` a worker waits for
a client that was never sent (`ReadBye`); another client's service ends the wait for the present one
(`ServedByDisconnect`); a keyword in a field selects an earlier slot (`Found`); an account that
could not be inserted is not answered (`CallReturnsFalse`). In the database: a renamed account
leaves its calendar to its old name, and whoever registers that name again shares it
(`FirstSchedule`); an account and a group of one name can be given no events (`FindSchedule`); the
duplicate test for events does not look at the date, and does not find an event that was stored
earlier than asked for, so a mutable event can be entered any number of times (`Items`).

Many hazards of the database and of the search are documented and not caught: that two workers
insert the same relation or account, that a renamed account's calendar stays behind, what follows
when two schedules have one owner, that two days are taken for one. The code guards against none of
them and no sentence of the repository says what should happen, so the properties except them by
name (`overlap`, `rename`, `shared owner` in `seen`; the disjuncts of `FitsAGap`). `PROJECT.json`
lists each with that note.

Why the bounds are enough. In the master every hazard needs at most two of a kind: two entries in a
queue, one removed while the other stays, two drops between two steps of `run()`. The instance in
which all four may leave has been checked too; it takes longer than a run should. `run()` keeps no
memory from one round to the next but the queues and the semaphores' surplus, which a second client
exercises; clients that ask more than once are left to the proofs, where the bound on requests is
any number. In the worker two clients are enough to be connected at once, or for one to come while
the other's answer or closing is under way; a lone client after two that have met takes a third,
which is left to the theorems, where the set of clients is any. `MaxStale` bounds the registrations
that outlive their socket at a time: one is enough for a client to come unannounced, and the theorems
hold for any bound. A client sends one line; a second line on one connection is not modelled. In the database a
duplicate needs two calls that overlap and a third that suffers from the result; renaming and
registering again takes two; theorems cover any number of calls and workers. In the calendar two
events make every kind of neighbours with the present and the deadline, and one late event for each
of two members every order of checking and adding. `CHECK_DEADLOCK` is off everywhere because the
systems may stop: `stop()`, a crash, a handled line, nobody left to connect, the last call returned
or an answer given.

Fairness. `FairSpec` of the master: the thread of `run()` is scheduled, the event loop finishes the
handler it is in and delivers posted events. Of the worker: the thread of `run()` is scheduled, a
running timer fires, a closing socket gets closed and deleted. Of a request: the handler goes on.
Clients, workers and, for the worker, the master owe nothing. `Database` and `Calendar` state safety
only: that a call returns is the server's affair.

## Proofs

For every value of the constants, under the named assumptions of each module.

- `TypeCorrect`, `SemaphoresNeverBlock` (`MasterNodeProofs`): `TypeOK` and `AcquireNeverBlocks`. The
  inductive invariant has four parts: the types; who holds which mutex at which line of `run()` and
  inside `handle_disconnect`; that each semaphore has at least as many units as its queue has
  entries (they may have more, as drops take no unit back) and that `run()` still has a unit when it
  comes to `acquire()`, although the queue may be shorter by then; and that `run()`'s locals are set
  where they are used. Freed sockets and equal ports are included.
- `QueuesHoldLiveSockets` (`MasterQueueProofs`): `QueuedSocketsLive`, when ports differ and each
  client asks once. The invariant adds that a queue holds a connection at most once and that a
  socket's deletion is posted only after it was disconnected. Then the scan of `handle_disconnect`
  removes exactly the dropped socket, because no queued socket is deleted and no other has its port.
  Without either premise an entry can be left behind.
- `WorkersServeOneClient`, `WorkersToldFirst` (`MasterPairingProofs`): `WorkerServesOneClient` and
  `WorkerToldFirst`, with no premise: equal ports, wrong entries removed, clients that ask again and
  freed sockets included. A worker offers itself once, because it gave its location or was closed
  (`WorkerOnceInv`): from then on it stands in the queue once, or is in `run()`'s hands, or was given
  to one client. A request is queued, or in `run()`'s hands, or posted, never two of these
  (`ClientOnceInv`). A client's event is posted behind its worker's, unless the worker was told or
  its socket closed (`ToldInv`).
- `MasterImplementsService` (`MasterServiceProofs`): `ImplementsPairingService`, when ports differ;
  clients may ask any number of times. One lemma per step of the code names the step of
  `PairingService` it maps to. Most are stutters; the hard ones are the drop of a socket and
  `handle_disconnect`. There the invariant says that whoever is gone stays gone, that the end of a
  socket is posted once, and that with distinct ports the scan stops only at entries of a socket
  that has left (`EqualIsGone`).
- `WorkerTypeCorrect` (`WorkerNodeProofs`): `TypeOK` for any set of clients.
- `TimerIsTheClients`, `OneAnswerEach` (`WorkerNodeProofs`): `ConnectedClientOwnsTimer` and
  `AnsweredOnce`, for any set of clients, connected at once or not, without a premise. Neither is
  inductive. `AloneInv` says of clients connected at one time that they have all met, so a client
  outside `met` is alone; `Apart` and `OwnTimer` carry its timer through the steps of the others.
  That a timeout never follows an answer needs that an answered client's timer is stopped, and that
  needs that the timer stopped was its own: `InStep` ties the socket's state, the request, the
  answers and the timer of each client together as long as nobody has met.
- `TypesHold`, `FieldsSuffice`, `ChecksAlwaysFirst`, `RunIsReleased`, `ChainDecides`
  (`RequestsProofs`): `TypeOK`, `ReadsWithinFields`, `ChecksComeFirst`, `HandlersReleaseRun` and
  `SlotFollowsTheChain`, for lines with any number of fields. The table of handlers is constant, so
  what is true of every row comes first, and then what the common control flow makes of it. That the
  chain takes the first keyword of the line needs that a set of numbers has a least element
  (`LeastExists`, from a well-founded order: the library's induction cannot be used).
- `OutcomesAreAllowed` (`RequestsProofs`): every step of a request is a step of `LineOutcome` or none.
- `TypesHold`, `AccountNamesStayUnique`, `GroupNamesStayUnique` (`DatabaseProofs`): `TypeOK`,
  `AccountNamesUnique` and `GroupNamesUnique`, for any number of workers and calls. For accounts the
  invariant says that calls that mention a common name are apart and that the name of a `try_create`
  past its look-up is still free. For groups that is not enough, as creations may overlap; there the
  invariant counts schedules. A worker that has inserted the schedule of a new group has a claim to
  the name, a group has a schedule of its name, and only a removal deletes schedules. Two claims, or
  a claim and a group, therefore come with two schedules of that name, and whoever finds exactly one
  holds the only claim. A removal that overlaps breaks this, which is why the property excepts it.
- `RelationsStayOnce`, `CalendarsStayApart` (`DatabaseProofs`): `RelationsOnce` and `CalendarsApart`,
  for any number of workers and calls. Both rest on what a call has read staying true until it
  writes. For relations: the ids that two calls have looked up belong to accounts of different names
  (`FoundUsers`), also when accounts are renamed meanwhile, because a renaming mentions the names it
  touches; so what was counted as absent is still absent when it is inserted (`Counted`). For
  calendars: whoever has inserted a schedule found none of that name, hence nobody has the name
  (`Unclaimed`); the schedule it found is not deleted by others; and `RemoveGroup` deletes no
  schedule a row refers to, because the foreign keys refuse.
- `TypesHold`, `ProposalsAlwaysFit`, `GroupTimesAreClear`, `AnswersAreAhead` (`CalendarProofs`):
  `TypeOK`, `ProposalsFit`, `GroupTimesClear` and `AnswerIsAhead`, for any members, events and
  moments. `ProposalsFit` has the premise that no negative duration is asked for: a client may send
  one, and then the time found does not lie in the gap. The invariant of the other two is
  `SearchInv`: the clock only goes forward, what is written comes from what is proposed, and a time
  that was examined for a user overlaps no event the user has from today on but for those added
  late, and was ahead of the clock. The lemma `ConflictSeen` says that `check_overlap` sees every
  conflict but the listed exceptions.

Only model-checked: everything temporal beyond `[]` (liveness and `ENABLED` are out of the prover's
reach), so also the fairness that `ImplementsLineOutcome` adds to `OutcomesAreAllowed`; and
`ImplementsRegistry` of the database.

## Plan

1. done: `MasterNode`, `WorkerNode` and their proofs; `Requests`, `LineOutcome`.
2. done: `Database` with `Registry`, `Calendar`, and their proofs.
3. done: `PairingService`. Next, `TimeFuse`: `PairingService` and two workers composed on the
   interface of `WorkerNode`'s environment.
4. done: proofs of the pairs and of the refinement of the master; of the requests;
   of the relations and calendars of the database. Next: `ImplementsRegistry`.

## Not modelled

Of the database operations: `reset_password`, `absent` and `present` read and set one attribute of a
user, and attributes are left out; the lists, `select_user`, `user_in_group` and
`group_exists` change nothing (`Requests` has them as calls with any outcome); `cleanup_*` serve the
tests. An empty name is refused before the first statement and changes nothing. Of an event the date, the
name, the time zone and the deadline columns are left out in `Database`, and a duration is shorter
than a day. In `Calendar` milliseconds are left out and the several reads of the clock in one
function are one. The bitmap of a
month's days (`list_user_month_events`) is a function of one query's rows. The codec of `user.*` has
no caller. `main.cpp` parses arguments; `tcp_comm.hpp` is a blocking helper of which one constant is
used; `worker.hpp` is unused; `list_groups.sql` is never called (its text is a copy of `AddGroup`); `thread_init_exception.hpp` has no state. `tcp_thread::writeData`,
`sendMessage` and `echoReceived` have no caller. Partial lines on a socket appear only where the
code tests for them (`canReadLine`); wording, logging and encryption are left out. `init()` ignoring
a failed `listen` in the master and the destructors are outside the models: they begin when the
threads run.
