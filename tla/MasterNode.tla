----------------------------- MODULE MasterNode -----------------------------
(***************************************************************************)
(* The master: master_node.cpp and the master mode of tcp_thread.cpp.      *)
(*                                                                         *)
(* Two threads share the queues of waiting clients and waiting workers.    *)
(* The main thread runs the Qt event loop: it accepts sockets, reads one   *)
(* request line from each (readFromClient) and calls the master's handlers *)
(* directly; it hears of disconnections, and it delivers the posted events *)
(* (send_info and deleteLater) in order.  The master thread runs run():    *)
(* it takes one client and one worker and posts the two answers.           *)
(*                                                                         *)
(* A critical section that holds one mutex only and does not block is one  *)
(* action, enabled while that mutex is free.  Sections that wait for a     *)
(* second mutex, or for a semaphore, are split where they wait.            *)
(***************************************************************************)
EXTENDS Integers, Sequences, FiniteSets

CONSTANTS
    Clients,      \* sockets on which somebody asks for a worker
    Workers,      \* sockets on which a worker_node offers itself
    Port,         \* Port[x]: peerPort() of socket x
    MayStop,      \* whether anybody calls stop(): only the tests do
    MaxRequests,  \* bound: REQUEST_WORKER lines one client socket sends
    Blank         \* the empty QString, and the null connection pointer

Sockets == Clients \cup Workers

ASSUME SocketAssumption ==
    /\ Clients \cap Workers = {}
    /\ Blank \notin Sockets \cup {"OK", "BYE"}
    /\ {"OK", "BYE"} \cap Sockets = {}
ASSUME PortAssumption == DOMAIN Port = Sockets
ASSUME StopAssumption == MayStop \in BOOLEAN
ASSUME BoundAssumption == MaxRequests \in Nat \ {0}

(* A client_connection is made for every REQUEST_WORKER line, a            *)
(* worker_connection once per socket: worker_node::run greets the master   *)
(* once on each socket it opens.                                           *)
ClientConns == Clients \X (1 .. MaxRequests)
WorkerConns == Workers

VARIABLES
    sock,                 \* state of each socket
    requested,            \* REQUEST_WORKER lines read from each client
    worker_host,          \* m_hostname of each worker_connection
    paired_host,          \* m_paired_host of each client_connection
    m_client_connections, \* the queue of waiting clients
    m_worker_connections, \* the queue of waiting workers
    client_sema,          \* m_p_client_sema
    worker_sema,          \* m_p_worker_sema
    client_mutex,         \* owner of m_p_client_mutex
    worker_mutex,         \* owner of m_p_worker_mutex
    pcLoop,               \* where the master thread is in run()
    c, w,                 \* run()'s locals: the client and worker taken
    pcMain,               \* "idle", or "hd_client" inside handle_disconnect
    dropped,              \* handle_disconnect's argument
    events,               \* events posted to the main thread, oldest first
    sent,                 \* lines written to each socket
    m_continue,           \* FALSE once stop() was called
    alive                 \* FALSE once undefined behaviour ended the process

sockVars  == <<sock, requested, sent>>
connVars  == <<worker_host, paired_host>>
queueVars == <<m_client_connections, m_worker_connections, client_sema, worker_sema>>
lockVars  == <<client_mutex, worker_mutex>>
loopVars  == <<pcLoop, c, w>>
mainVars  == <<pcMain, dropped>>
flagVars  == <<m_continue, alive>>
vars == <<sockVars, connVars, queueVars, lockVars, loopVars, mainVars, events, flagVars>>

-----------------------------------------------------------------------------
SockStates == {"new", "open", "closing", "gone", "deleted"}
LoopPlaces == {"test", "lock_client", "lock_worker", "take_client",
               "lock_worker_again", "take_worker", "pair",
               "emit_worker", "emit_client", "returned"}
Lines == Workers \cup {Blank, "OK", "BYE"}
Events == [type : {"send_client"}, conn : ClientConns]
          \cup [type : {"send_worker"}, conn : WorkerConns]
          \cup [type : {"delete"}, conn : Sockets]

(* Every variable keeps to the values the code can store in it. *)
TypeOK ==
    /\ sock \in [Sockets -> SockStates]
    /\ requested \in [Clients -> 0 .. MaxRequests]
    /\ worker_host \in [WorkerConns -> Workers \cup {Blank}]
    /\ paired_host \in [ClientConns -> Workers \cup {Blank}]
    /\ m_client_connections \in Seq(ClientConns)
    /\ m_worker_connections \in Seq(WorkerConns)
    /\ client_sema \in Nat /\ worker_sema \in Nat
    /\ client_mutex \in {"free", "loop", "main"}
    /\ worker_mutex \in {"free", "loop", "main"}
    /\ pcLoop \in LoopPlaces
    /\ c \in ClientConns \cup {Blank}
    /\ w \in WorkerConns \cup {Blank}
    /\ pcMain \in {"idle", "hd_client"}
    /\ dropped \in Sockets \cup {Blank}
    /\ events \in Seq(Events)
    /\ sent \in [Sockets -> SUBSET Lines]
    /\ m_continue \in BOOLEAN
    /\ alive \in BOOLEAN

Init ==
    /\ sock = [x \in Sockets |-> "new"]
    /\ requested = [x \in Clients |-> 0]
    /\ worker_host = [x \in WorkerConns |-> Blank]
    /\ paired_host = [x \in ClientConns |-> Blank]
    /\ m_client_connections = <<>> /\ m_worker_connections = <<>>
    /\ client_sema = 0 /\ worker_sema = 0
    /\ client_mutex = "free" /\ worker_mutex = "free"
    /\ pcLoop = "test" /\ c = Blank /\ w = Blank
    /\ pcMain = "idle" /\ dropped = Blank
    /\ events = <<>>
    /\ sent = [x \in Sockets |-> {}]
    /\ m_continue = TRUE /\ alive = TRUE

(* A wrong release(): the unit is forgotten. *)
ReleaseForgotten(sema) == sema
(* release() of a semaphore. *)
Release(sema) == sema + 1

(* A wrong dequeue(): the first entry is read and left in the queue. *)
DequeuedPeek(q) == q
(* What dequeue() leaves of a queue. *)
Dequeued(q) == Tail(q)

(* A wrong removeAt: it removes the first entry, whatever the index. *)
WithoutFirst(q, i) == Tail(q)
(* What removeAt leaves of a queue. *)
Without(q, i) == SubSeq(q, 1, i - 1) \o SubSeq(q, i + 1, Len(q))

(* Wrong event queues: one served last in first out, one that drops what   *)
(* does not fit.                                                           *)
PostInFront(e) == <<e>> \o events
PostIfEmpty(e) == IF events = <<>> THEN <<e>> ELSE events
(* Posting an event to the main thread. *)
Post(e) == Append(events, e)

(* Touching a destroyed QTcpSocket either ends the process or finds the   *)
(* freed memory still readable and goes on.                               *)
Touch(x) == IF sock[x] = "deleted" THEN alive' \in BOOLEAN ELSE alive' = TRUE

Writable(x) == sock[x] \in {"open", "closing"}

(* p->write(line); p->disconnectFromHost(): a no-op once disconnected.    *)
WriteAndClose(x, line) ==
    /\ sent' = IF Writable(x) THEN [sent EXCEPT ![x] = @ \cup {line}] ELSE sent
    /\ sock' = IF Writable(x) THEN [sock EXCEPT ![x] = "closing"] ELSE sock

-----------------------------------------------------------------------------
(* The main thread.                                                       *)

MainReady == alive /\ pcMain = "idle"

Accept(x) ==
    /\ MainReady /\ sock[x] = "new"
    /\ sock' = [sock EXCEPT ![x] = "open"]
    /\ UNCHANGED <<requested, sent, connVars, queueVars, lockVars, loopVars,
                   mainVars, events, flagVars>>

(* readFromClient on "REQUEST_WORKER", with handle_client_connect. *)
RequestWorker(x) ==
    /\ MainReady /\ sock[x] = "open" /\ requested[x] < MaxRequests
    /\ client_mutex = "free"
    /\ requested' = [requested EXCEPT ![x] = @ + 1]
    /\ client_sema' = Release(client_sema)
    /\ m_client_connections' = Append(m_client_connections, <<x, requested[x] + 1>>)
    /\ UNCHANGED <<sock, sent, connVars, m_worker_connections, worker_sema,
                   lockVars, loopVars, mainVars, events, flagVars>>

(* readFromClient on "REQUEST_CLIENT", with handle_worker_connect.  When   *)
(* the location line has not arrived yet the socket is told BYE and        *)
(* closed, but nothing returns: the worker is queued with an empty         *)
(* location all the same.                                                  *)
RequestClient(x) ==
    /\ MainReady /\ sock[x] = "open" /\ worker_host[x] = Blank
    /\ worker_mutex = "free"
    /\ \/ /\ worker_host' = [worker_host EXCEPT ![x] = x]
          /\ UNCHANGED <<sock, sent>>
       \/ WriteAndClose(x, "BYE") /\ UNCHANGED worker_host
    /\ worker_sema' = Release(worker_sema)
    /\ m_worker_connections' = Append(m_worker_connections, x)
    /\ UNCHANGED <<requested, paired_host, m_client_connections, client_sema,
                   lockVars, loopVars, mainVars, events, flagVars>>

(* readFromClient on any other line. *)
InvalidRequest(x) ==
    /\ MainReady /\ sock[x] = "open"
    /\ WriteAndClose(x, "BYE")
    /\ UNCHANGED <<requested, connVars, queueVars, lockVars, loopVars,
                   mainVars, events, flagVars>>

(* The disconnected signal: the socket's deletion was connected first and *)
(* is posted first; tcp_thread::disconnected then deletes m_p_timer, which *)
(* is never initialised in master mode (harmless where that memory holds   *)
(* zero), and calls handle_disconnect, which takes the worker mutex.       *)
Disconnected(x) ==
    /\ MainReady /\ Writable(x)
    /\ sock' = [sock EXCEPT ![x] = "gone"]
    /\ events' = Post([type |-> "delete", conn |-> x])
    /\ \/ /\ worker_mutex = "free"
          /\ worker_mutex' = "main"
          /\ pcMain' = "hd_client" /\ dropped' = x
          /\ UNCHANGED alive
       \/ alive' = FALSE /\ UNCHANGED <<worker_mutex, mainVars>>
    /\ UNCHANGED <<requested, sent, connVars, queueVars, client_mutex,
                   loopVars, m_continue>>

(* A wrong comparison: made when the port has been cleared already.        *)
MayEqualLate(x) == sock[x] = "deleted"

(* tcp_connection::operator== compares peer name, which is empty for every *)
(* accepted socket, and peer port, which Qt clears once the disconnected   *)
(* signal has been handled.  The bytes of a destroyed socket compare       *)
(* either way.                                                             *)
MayEqual(x) == \/ x = dropped
               \/ sock[x] = "deleted"
               \/ Writable(x) /\ Port[x] = Port[dropped]
MustEqual(x) == MayEqual(x) /\ sock[x] # "deleted"

SocketOf(conn) == conn[1]

(* The scan stops at position i of a queue whose sockets are s[1], s[2]... *)
StopsAt(s, i) == MayEqual(s[i]) /\ \A j \in 1 .. i - 1 : ~MustEqual(s[j])
PassesOver(s) == \A i \in DOMAIN s : ~MustEqual(s[i])

ClientSockets == [i \in DOMAIN m_client_connections |->
                    SocketOf(m_client_connections[i])]

DropWorker ==
    \E i \in DOMAIN m_worker_connections :
        /\ StopsAt(m_worker_connections, i)
        /\ m_worker_connections' = Without(m_worker_connections, i)
        /\ UNCHANGED m_client_connections

DropClient ==
    /\ PassesOver(m_worker_connections)
    /\ \E i \in DOMAIN m_client_connections :
        /\ StopsAt(ClientSockets, i)
        /\ m_client_connections' = Without(m_client_connections, i)
        /\ UNCHANGED m_worker_connections

DropNothing ==
    /\ PassesOver(m_worker_connections) /\ PassesOver(ClientSockets)
    /\ UNCHANGED <<m_client_connections, m_worker_connections>>

ScanTouchesFreed ==
    \E x \in Sockets : /\ sock[x] = "deleted"
                       /\ \/ \E i \in DOMAIN m_worker_connections :
                                m_worker_connections[i] = x
                          \/ \E i \in DOMAIN m_client_connections :
                                ClientSockets[i] = x

(* The rest of handle_disconnect: take the client mutex, remove the first  *)
(* queued connection that compares equal, workers first, and release both  *)
(* mutexes.  The semaphores are not taken back.                            *)
HandleDisconnect ==
    /\ alive /\ pcMain = "hd_client" /\ client_mutex = "free"
    /\ DropWorker \/ DropClient \/ DropNothing
    /\ IF ScanTouchesFreed THEN alive' \in BOOLEAN ELSE alive' = TRUE
    /\ worker_mutex' = "free"
    /\ pcMain' = "idle" /\ dropped' = Blank
    /\ UNCHANGED <<sockVars, connVars, client_sema, worker_sema, client_mutex,
                   loopVars, events, m_continue>>

NextEvent(type) == MainReady /\ events # <<>> /\ Head(events).type = type

(* send_pair_info for a worker. *)
SendWorkerInfo ==
    /\ NextEvent("send_worker")
    /\ LET x == Head(events).conn IN Touch(x) /\ WriteAndClose(x, "OK")
    /\ events' = Tail(events)
    /\ UNCHANGED <<requested, connVars, queueVars, lockVars, loopVars,
                   mainVars, m_continue>>

(* send_pair_info for a client: its line is the location of its worker. *)
SendClientInfo ==
    /\ NextEvent("send_client")
    /\ LET conn == Head(events).conn
       IN  /\ Touch(SocketOf(conn))
           /\ WriteAndClose(SocketOf(conn), paired_host[conn])
    /\ events' = Tail(events)
    /\ UNCHANGED <<requested, connVars, queueVars, lockVars, loopVars,
                   mainVars, m_continue>>

(* The deferred deletion of a disconnected socket. *)
DeleteSocket ==
    /\ NextEvent("delete")
    /\ sock' = [sock EXCEPT ![Head(events).conn] = "deleted"]
    /\ events' = Tail(events)
    /\ UNCHANGED <<requested, sent, connVars, queueVars, lockVars, loopVars,
                   mainVars, flagVars>>

Stop ==
    /\ MainReady /\ m_continue /\ MayStop
    /\ m_continue' = FALSE
    /\ UNCHANGED <<sockVars, connVars, queueVars, lockVars, loopVars,
                   mainVars, events, alive>>

DeliverEvent == SendWorkerInfo \/ SendClientInfo \/ DeleteSocket
Main == \/ \E x \in Sockets : Accept(x) \/ InvalidRequest(x) \/ Disconnected(x)
        \/ \E x \in Clients : RequestWorker(x)
        \/ \E x \in Workers : RequestClient(x)
        \/ HandleDisconnect \/ DeliverEvent \/ Stop

-----------------------------------------------------------------------------
(* The master thread, run().                                              *)

Goto(from, to) == alive /\ pcLoop = from /\ pcLoop' = to

TestContinue ==
    /\ Goto("test", IF m_continue THEN "lock_client" ELSE "returned")
    /\ UNCHANGED <<sockVars, connVars, queueVars, lockVars, c, w, mainVars,
                   events, flagVars>>

LockClient ==
    /\ Goto("lock_client", "lock_worker")
    /\ client_mutex = "free" /\ client_mutex' = "loop"
    /\ UNCHANGED <<sockVars, connVars, queueVars, worker_mutex, c, w, mainVars,
                   events, flagVars>>

BothWaiting == m_client_connections # <<>> /\ m_worker_connections # <<>>

(* A wrong check: the early continue keeps the client mutex. *)
LockWorkerAndKeep ==
    /\ worker_mutex = "free"
    /\ \/ BothWaiting /\ Goto("lock_worker", "take_client")
       \/ ~BothWaiting /\ Goto("lock_worker", "test")
    /\ UNCHANGED <<sockVars, connVars, queueVars, lockVars, c, w, mainVars,
                   events, flagVars>>

(* With both mutexes: go round again unless both queues hold something;    *)
(* otherwise keep only the client mutex.                                   *)
LockWorkerAndCheck ==
    /\ worker_mutex = "free"
    /\ \/ BothWaiting /\ Goto("lock_worker", "take_client") /\ UNCHANGED client_mutex
       \/ ~BothWaiting /\ Goto("lock_worker", "test") /\ client_mutex' = "free"
    /\ UNCHANGED <<sockVars, connVars, queueVars, worker_mutex, c, w, mainVars,
                   events, flagVars>>

TakeClient ==
    /\ Goto("take_client", "lock_worker_again")
    /\ client_sema > 0 /\ client_sema' = client_sema - 1
    /\ c' = Head(m_client_connections)
    /\ m_client_connections' = Dequeued(m_client_connections)
    /\ client_mutex' = "free"
    /\ UNCHANGED <<sockVars, connVars, m_worker_connections, worker_sema,
                   worker_mutex, w, mainVars, events, flagVars>>

LockWorkerAgain ==
    /\ Goto("lock_worker_again", "take_worker")
    /\ worker_mutex = "free" /\ worker_mutex' = "loop"
    /\ UNCHANGED <<sockVars, connVars, queueVars, client_mutex, c, w, mainVars,
                   events, flagVars>>

(* dequeue() of an empty QQueue is undefined: what it returns is not a     *)
(* worker_connection, and run() goes on to use it.                         *)
TakeWorker ==
    /\ Goto("take_worker", "pair")
    /\ worker_sema > 0 /\ worker_sema' = worker_sema - 1
    /\ IF m_worker_connections # <<>>
       THEN /\ w' = Head(m_worker_connections)
            /\ m_worker_connections' = Dequeued(m_worker_connections)
            /\ UNCHANGED alive
       ELSE alive' = FALSE /\ UNCHANGED <<w, m_worker_connections>>
    /\ worker_mutex' = "free"
    /\ UNCHANGED <<sockVars, connVars, m_client_connections, client_sema,
                   client_mutex, c, mainVars, events, m_continue>>

(* w->add_client(c) reads the client's socket; c->add_worker(w) stores the *)
(* worker's location.                                                      *)
Pair ==
    /\ Goto("pair", "emit_worker")
    /\ Touch(SocketOf(c))
    /\ paired_host' = [paired_host EXCEPT ![c] = worker_host[w]]
    /\ UNCHANGED <<sockVars, worker_host, queueVars, lockVars, c, w, mainVars,
                   events, m_continue>>

(* A wrong emission: the worker goes out as a client. *)
WorkerInfoAsClient(x) == [type |-> "send_client", conn |-> x]
(* send_info's argument, which send_pair_info casts back. *)
WorkerInfo(x) == [type |-> "send_worker", conn |-> x]

EmitWorker ==
    /\ Goto("emit_worker", "emit_client")
    /\ events' = Post(WorkerInfo(w))
    /\ UNCHANGED <<sockVars, connVars, queueVars, lockVars, c, w, mainVars, flagVars>>

(* The body of the loop ends here, and with it the life of c and w.        *)
EmitClient ==
    /\ Goto("emit_client", "test")
    /\ events' = Post([type |-> "send_client", conn |-> c])
    /\ c' = Blank /\ w' = Blank
    /\ UNCHANGED <<sockVars, connVars, queueVars, lockVars, mainVars, flagVars>>

Loop == \/ TestContinue \/ LockClient \/ LockWorkerAndCheck \/ TakeClient
        \/ LockWorkerAgain \/ TakeWorker \/ Pair \/ EmitWorker \/ EmitClient

-----------------------------------------------------------------------------
Next == Main \/ Loop

Spec == Init /\ [][Next]_vars

(* The operating system keeps running the master thread, and the event    *)
(* loop finishes the handler it is in and delivers what was posted.        *)
(* Nobody is obliged to connect, to ask, or to leave.                      *)
Fairness == WF_vars(Loop) /\ WF_vars(HandleDisconnect) /\ WF_vars(DeliverEvent)
FairSpec == Spec /\ Fairness

-----------------------------------------------------------------------------
(* Properties.                                                            *)

SendEvents == {events[i] : i \in {j \in DOMAIN events : events[j].type # "delete"}}
QueuedClients == {m_client_connections[i] : i \in DOMAIN m_client_connections}
QueuedWorkers == {m_worker_connections[i] : i \in DOMAIN m_worker_connections}

(* Places at which run() holds a client that is in no queue and not yet in *)
(* a posted event.                                                         *)
HoldsClient == pcLoop \in {"lock_worker_again", "take_worker", "pair",
                           "emit_worker", "emit_client"}

(* run() never sleeps on a semaphore while it holds a mutex: whenever it   *)
(* reaches an acquire() the semaphore has a unit, although                 *)
(* handle_disconnect removes queue entries without taking units back       *)
(* (master_node.cpp:166 and 176 against 205 and 216).                      *)
AcquireNeverBlocks ==
    /\ pcLoop = "take_client" => client_sema > 0
    /\ pcLoop = "take_worker" => worker_sema > 0

(* The queues never point at a destroyed socket: handle_disconnect takes a *)
(* connection out before the posted deletion of its socket is delivered    *)
(* (tcp_thread.cpp:98-99), and at the only moment a queued socket is       *)
(* disconnected its handler is running.                                    *)
QueuedSocketsLive ==
    \A x \in QueuedWorkers \cup {SocketOf(q) : q \in QueuedClients} :
        \/ Writable(x)
        \/ sock[x] = "gone" /\ pcMain = "hd_client" /\ dropped = x
        \/ ~alive

(* Two clients are never sent to the same worker: a registered worker      *)
(* serves one client and asks again (master_node.cpp:181-185).             *)
WorkerServesOneClient ==
    \A p, q \in ClientConns :
        p # q /\ paired_host[p] = paired_host[q] => paired_host[p] = Blank

(* A client is told where its worker is only after that worker was told    *)
(* OK, or had left: the two answers are posted in that order and delivered *)
(* in that order (master_node.cpp:188-189, tcp_thread.cpp:319-329).        *)
WorkerToldFirst ==
    \A x \in Clients : \A h \in sent[x] \cap Workers :
        "OK" \in sent[h] \/ ~Writable(h)

(* run() holds the client mutex and waits for the worker mutex, while      *)
(* handle_disconnect holds the worker mutex and waits for the client mutex *)
(* (master_node.cpp:151-153 against 197-198).                              *)
MutexDeadlock == pcLoop = "lock_worker" /\ pcMain = "hd_client"

Halted == ~alive \/ ~m_continue

(* When a client and a worker are both waiting, run() takes a pair or one  *)
(* of them leaves: the deadlock of the two mutexes is the only thing that  *)
(* can stop it (master_node.cpp:149-190).                                  *)
PairsUnlessDeadlocked ==
    BothWaiting ~> (~BothWaiting \/ pcLoop = "pair" \/ Halted \/ MutexDeadlock)

(* A client that run() has taken out of the queue is answered, unless it   *)
(* left or the process stopped (master_node.cpp:168-189 with               *)
(* tcp_thread.cpp:313-333).                                                *)
TakenClientAnswered ==
    \A q \in ClientConns :
        (HoldsClient /\ c = q) ~>
            \/ sent[SocketOf(q)] \cap (Workers \cup {Blank}) # {}
            \/ ~Writable(SocketOf(q)) \/ ~alive \/ MutexDeadlock

-----------------------------------------------------------------------------
(* The master as a pairing service: what run() holds still waits until     *)
(* Pair, and from there until it is posted its answer is owed.             *)

(* What an event brings to its socket: an answer, or the end. *)
AnswerOf(e) ==
    CASE e.type = "send_worker" -> [to |-> e.conn, line |-> "OK"]
      [] e.type = "send_client" -> [to |-> SocketOf(e.conn), line |-> paired_host[e.conn]]
      [] e.type = "delete"      -> [to |-> e.conn, line |-> "END"]

PostedAnswers == [i \in DOMAIN events |-> AnswerOf(events[i])]

UnpostedAnswers ==
    LET toWorker == AnswerOf(WorkerInfo(w))
        toClient == AnswerOf([type |-> "send_client", conn |-> c])
    IN  CASE pcLoop = "emit_worker" -> <<toWorker, toClient>>
          [] pcLoop = "emit_client" -> <<toClient>>
          [] OTHER -> <<>>

TakenClient == IF pcLoop \in {"lock_worker_again", "take_worker", "pair"}
               THEN <<SocketOf(c)>> ELSE <<>>
TakenWorker == IF pcLoop = "pair" /\ w # Blank THEN <<w>> ELSE <<>>
WorkersInTurn == TakenWorker \o m_worker_connections

Waiting == TakenClient \o ClientSockets
Free == [i \in DOMAIN WorkersInTurn |->
            LET x == WorkersInTurn[i] IN [worker |-> x, at |-> worker_host[x]]]
Owed == PostedAnswers \o UnpostedAnswers
Heard == [x \in Sockets |-> sent[x] \ {"BYE"}]
Gone == {x \in Sockets : sock[x] \in {"gone", "deleted"}}

Service == INSTANCE PairingService
    WITH waiting <- Waiting, free <- Free, owed <- Owed, heard <- Heard, gone <- Gone

(* The two threads, with their queues, locks and events, behave as one     *)
(* service that matches first come, first served: nobody is lost,          *)
(* duplicated, overtaken, matched twice or forgotten before leaving, and   *)
(* each of a pair gets its own answer (master_node.cpp:98-227,             *)
(* tcp_thread.cpp:90-112 and 313-333).  It takes distinct ports: otherwise *)
(* handle_disconnect removes the wrong entry.                              *)
ImplementsPairingService == Service!Spec

-----------------------------------------------------------------------------
(* What the comments say and the code does not do.                        *)

(* "pairs a client to a worker when both are available"                    *)
(* (master_node.cpp:140-141), with no exception for the two mutexes.       *)
PairsWhenBothAvailable ==
    BothWaiting ~> (~BothWaiting \/ pcLoop = "pair" \/ Halted)

(* "A tcp_connection is our way of keeping track of our clients, as they   *)
(* connect and disconnect asynchronously" (tcp_connection.cpp:20-22): the  *)
(* connection an answer is sent to still has its socket.                   *)
AnswersReachLiveSockets ==
    alive => \A e \in SendEvents :
        sock[IF e.type = "send_client" THEN SocketOf(e.conn) ELSE e.conn] # "deleted"

=============================================================================
