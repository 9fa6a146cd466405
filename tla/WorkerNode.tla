----------------------------- MODULE WorkerNode -----------------------------
(***************************************************************************)
(* A worker: worker_node::run() and the worker mode of tcp_thread.cpp.     *)
(*                                                                         *)
(* Two threads share one flag, served_client.  The worker's thread runs    *)
(* run(): it registers with the master, waits for OK, and then polls       *)
(* served_client.  The main thread runs the Qt event loop: it accepts the  *)
(* clients, starts one timer for each, handles one request line of each    *)
(* (module Requests says how) and hears of disconnections.                 *)
(*                                                                         *)
(* Every critical section of m_p_mutex reads or writes served_client once, *)
(* so it is part of the action around it.  The master is the environment:  *)
(* it answers a registration at most once, and it may still pair one whose *)
(* socket the worker has deleted meanwhile (module MasterNode): so nothing *)
(* keeps two clients from being connected at once, although the code has   *)
(* one timer pointer and one socket pointer for all of them.               *)
(***************************************************************************)
EXTENDS Integers, FiniteSets

CONSTANTS
    Clients,   \* the clients the master may send here
    None,      \* no client
    MayStop,   \* whether anybody calls stop(): only the tests do
    MaxStale   \* bound: registrations that outlive their socket at a time

ASSUME NoneAssumption == None \notin Clients
ASSUME FlagAssumption == MayStop \in BOOLEAN
ASSUME BoundAssumption == MaxStale \in Nat

VARIABLES
    pcRun,         \* where the worker's thread is in run()
    link,          \* pSocket, as the master sees it
    stale,         \* deleted sockets that the master still has queued
    read,          \* the local `read`: empty, or lines that were not OK
    served_client,
    job,           \* the client that the master named on the current link
    told,          \* clients that were sent this worker's location
    sock,          \* state of each client's socket
    asked,         \* clients whose request line was read
    replies,       \* what was written to each client
    timer,         \* the QTimer made when the client was accepted
    currentSocket, \* the client accepted last: m_p_timer is its timer
    met,           \* history: clients that were connected while another was
    m_continue,    \* FALSE once stop() was called
    alive          \* FALSE once an exception or undefined behaviour ended
                   \* the process

runVars    == <<pcRun, read>>
masterVars == <<link, stale, job, told>>
clientVars == <<sock, asked, replies, timer, currentSocket, met>>
flagVars   == <<m_continue, alive>>
vars == <<runVars, masterVars, clientVars, served_client, flagVars>>

-----------------------------------------------------------------------------
RunPlaces == {"test", "connect", "wait_for_job", "reset", "wait_for_client", "returned"}
LinkStates == {"down", "registered", "answered", "bye"}
SockStates == {"away", "open", "closing", "gone", "deleted"}
TimerStates == {"none", "running", "stopped", "deleted"}

(* Every variable keeps to the values the code can store in it; a client   *)
(* has a timer from the moment it was accepted, and m_p_timer and          *)
(* currentSocket, which nobody initialises, are set from the first one on. *)
TypeOK ==
    /\ pcRun \in RunPlaces
    /\ link \in LinkStates
    /\ stale \in 0 .. MaxStale
    /\ read \in {"clean", "dirty"}
    /\ served_client \in BOOLEAN
    /\ job \in Clients \cup {None}
    /\ told \subseteq Clients /\ asked \subseteq Clients
    /\ sock \in [Clients -> SockStates]
    /\ replies \in [Clients -> SUBSET {"reply", "timeout"}]
    /\ timer \in [Clients -> TimerStates]
    /\ currentSocket \in Clients \cup {None}
    /\ met \subseteq Clients
    /\ \A x \in Clients : /\ timer[x] = "none" <=> sock[x] = "away"
                          /\ currentSocket = None => sock[x] = "away"
                          /\ currentSocket = x => sock[x] # "away"
    /\ m_continue \in BOOLEAN
    /\ alive \in BOOLEAN

Init ==
    /\ pcRun = "test" /\ read = "clean"
    /\ link = "down" /\ stale = 0
    /\ served_client = FALSE
    /\ job = None /\ told = {} /\ asked = {}
    /\ sock = [x \in Clients |-> "away"]
    /\ replies = [x \in Clients |-> {}]
    /\ timer = [x \in Clients |-> "none"]
    /\ currentSocket = None /\ met = {}
    /\ m_continue = TRUE /\ alive = TRUE

-----------------------------------------------------------------------------
(* The worker's thread, run().                                            *)

Goto(from, to) == alive /\ pcRun = from /\ pcRun' = to

TestContinue ==
    /\ Goto("test", IF m_continue THEN "connect" ELSE "returned")
    /\ UNCHANGED <<read, masterVars, clientVars, served_client, flagVars>>

(* A registration that was not answered outlives its socket until the      *)
(* master notices.                                                         *)
StaleAfterDelete == IF link = "registered" /\ stale < MaxStale THEN stale + 1 ELSE stale

(* connect_to_master: served_client is cleared without the mutex, the old  *)
(* socket is deleted, and a new one is connected and greets the master.    *)
Connect ==
    /\ \/ Goto("connect", "wait_for_job") /\ link' = "registered"
       \/ Goto("connect", "test") /\ link' = "down"
    /\ served_client' = FALSE
    /\ stale' = StaleAfterDelete
    /\ job' = None
    /\ UNCHANGED <<read, told, clientVars, flagVars>>

(* OK arrives: the socket is closed and deleted.  After a line that was    *)
(* not OK `read` never equals OK again; the master closes the socket.      *)
ReadAnswer ==
    /\ link = "answered" /\ Goto("wait_for_job", "reset")
    /\ link' = "down" /\ UNCHANGED read

(* Any other line falls through to the wait, and stays in `read`. *)
ReadBye ==
    /\ link = "bye" /\ Goto("wait_for_job", "reset")
    /\ link' = "down" /\ read' = "dirty"

(* waitForReadyRead gives up after 30 s, or the master hung up, or the     *)
(* line is not complete yet.  `read` is empty unless an older line is left *)
(* in it.                                                                  *)
ReadNothing ==
    /\ Goto("wait_for_job", IF read = "clean" THEN "test" ELSE "reset")
    /\ UNCHANGED <<link, read>>

WaitForJob ==
    /\ ReadAnswer \/ ReadBye \/ ReadNothing
    /\ UNCHANGED <<stale, job, told, clientVars, served_client, flagVars>>

Reset ==
    /\ Goto("reset", "wait_for_client")
    /\ served_client' = FALSE
    /\ UNCHANGED <<read, masterVars, clientVars, flagVars>>

(* wait_for_client polls served_client, and neither m_continue nor a clock. *)
WaitForClient ==
    /\ served_client /\ Goto("wait_for_client", "test")
    /\ UNCHANGED <<read, masterVars, clientVars, served_client, flagVars>>

Run == TestContinue \/ Connect \/ WaitForJob \/ Reset \/ WaitForClient

-----------------------------------------------------------------------------
(* The main thread.                                                       *)

Writable(x) == sock[x] \in {"open", "closing"}

(* disconnect_client: write, then disconnectFromHost; no-ops when the      *)
(* socket is disconnected.                                                 *)
DisconnectClient(x, line) ==
    /\ replies' = IF Writable(x) THEN [replies EXCEPT ![x] = @ \cup {line}] ELSE replies
    /\ sock' = IF Writable(x) THEN [sock EXCEPT ![x] = "closing"] ELSE sock

(* Using a destroyed object ends the process or goes unnoticed. *)
Use(destroyed) == IF destroyed THEN alive' \in BOOLEAN ELSE UNCHANGED alive

(* A wrong acceptConnection: the timer is made and never started. *)
NewTimerIdle == "stopped"
(* The timer that acceptConnection makes: it fires again and again. *)
NewTimer == "running"

Others(x) == {y \in Clients : Writable(y)} \ {x}
Meet(x) == met' = met \cup Others(x) \cup (IF Others(x) = {} THEN {} ELSE {x})

(* A wrong acceptConnection: `!m_master_mode` has lost its negation. *)
AcceptAsMaster(x) ==
    /\ alive /\ x \in told /\ sock[x] = "away"
    /\ sock' = [sock EXCEPT ![x] = "open"]
    /\ Meet(x)
    /\ UNCHANGED <<runVars, masterVars, asked, replies, timer, currentSocket,
                   served_client, flagVars>>

Accept(x) ==
    /\ alive /\ x \in told /\ sock[x] = "away"
    /\ sock' = [sock EXCEPT ![x] = "open"]
    /\ timer' = [timer EXCEPT ![x] = NewTimer]
    /\ currentSocket' = x
    /\ Meet(x)
    /\ UNCHANGED <<runVars, masterVars, asked, replies, served_client, flagVars>>

(* A wrong readFromClient: the timer goes on. *)
TimerLeftRunning == timer
(* m_p_timer->stop(): the timer of the client accepted last. *)
TimerStopped ==
    IF timer[currentSocket] = "running"
    THEN [timer EXCEPT ![currentSocket] = "stopped"] ELSE timer

(* A handler answers and sets served_client; a line that is no command is  *)
(* answered only; an account that could not be created sets served_client  *)
(* and answers nothing; an exception outside the handler's try ends the    *)
(* process.  A client sends one line (bound).                              *)
ReadFromClient(x) ==
    /\ alive /\ sock[x] = "open" /\ x \notin asked
    /\ asked' = asked \cup {x}
    /\ timer' = TimerStopped
    /\ \/ DisconnectClient(x, "reply") /\ served_client' \in {served_client, TRUE}
       \/ served_client' = TRUE /\ UNCHANGED <<sock, replies>>
    /\ Use(timer[currentSocket] = "deleted") \/ alive' = FALSE
    /\ UNCHANGED <<runVars, masterVars, currentSocket, met, m_continue>>

(* timeout_disconnect: whoever's timer fired, the client accepted last is  *)
(* sent away.                                                              *)
Timeout(x) ==
    /\ alive /\ timer[x] = "running"
    /\ DisconnectClient(currentSocket, "timeout")
    /\ Use(sock[currentSocket] = "deleted")
    /\ UNCHANGED <<runVars, masterVars, asked, timer, currentSocket, met,
                   served_client, m_continue>>

(* A wrong disconnected: m_p_timer is not deleted. *)
TimerKept == timer
(* What `delete m_p_timer` leaves. *)
TimerDeleted == [timer EXCEPT ![currentSocket] = "deleted"]

(* A wrong handle_client_disconnect: served_client is not set. *)
ServedUnchanged == served_client
ServedByDisconnect == TRUE

(* The disconnected signal: m_p_timer is deleted, whoever left, and        *)
(* handle_client_disconnect sets served_client.                            *)
Disconnected(x) ==
    /\ alive /\ Writable(x)
    /\ sock' = [sock EXCEPT ![x] = "gone"]
    /\ timer' = TimerDeleted
    /\ Use(timer[currentSocket] = "deleted")
    /\ served_client' = ServedByDisconnect
    /\ UNCHANGED <<runVars, masterVars, asked, replies, currentSocket, met, m_continue>>

(* The deferred deletion.  Another socket's notification may come first.  *)
DeleteSocket(x) ==
    /\ alive /\ sock[x] = "gone"
    /\ sock' = [sock EXCEPT ![x] = "deleted"]
    /\ UNCHANGED <<runVars, masterVars, asked, replies, timer, currentSocket, met,
                   served_client, flagVars>>

Stop ==
    /\ alive /\ MayStop /\ m_continue
    /\ m_continue' = FALSE
    /\ UNCHANGED <<runVars, masterVars, clientVars, served_client, alive>>

Main == Stop \/ \E x \in Clients : Accept(x) \/ ReadFromClient(x) \/ Timeout(x)
                                   \/ Disconnected(x) \/ DeleteSocket(x)

-----------------------------------------------------------------------------
(* The master, as the worker meets it.                                    *)

(* run() pairs the registration: OK on the socket, our location to x.     *)
MasterPairs(x) ==
    /\ link = "registered" /\ x \notin told
    /\ link' = "answered" /\ job' = x /\ told' = told \cup {x}
    /\ UNCHANGED <<stale, runVars, clientVars, served_client, flagVars>>

(* It pairs one whose socket is gone: x comes, OK does not.               *)
MasterPairsStale(x) ==
    /\ stale > 0 /\ x \notin told
    /\ stale' = stale - 1 /\ told' = told \cup {x}
    /\ UNCHANGED <<link, job, runVars, clientVars, served_client, flagVars>>

(* It notices that a socket is gone.                                      *)
MasterForgets ==
    /\ stale > 0 /\ stale' = stale - 1
    /\ UNCHANGED <<link, job, told, runVars, clientVars, served_client, flagVars>>

(* It answers BYE, because the location line came late, or hangs up.      *)
MasterRefuses ==
    /\ link = "registered" /\ link' \in {"bye", "down"}
    /\ UNCHANGED <<stale, job, told, runVars, clientVars, served_client, flagVars>>

Master == \/ \E x \in Clients : MasterPairs(x) \/ MasterPairsStale(x)
          \/ MasterForgets \/ MasterRefuses

-----------------------------------------------------------------------------
Next == Run \/ Main \/ Master

Spec == Init /\ [][Next]_vars

(* The operating system keeps running the worker's thread; a running timer *)
(* fires; a socket that is closing gets closed, and then deleted.  Nobody  *)
(* else is obliged to do anything: clients and the master may be silent.   *)
FinishClose(x) == sock[x] = "closing" /\ Disconnected(x)
Fairness == /\ WF_vars(Run)
            /\ \A x \in Clients : WF_vars(Timeout(x)) /\ WF_vars(FinishClose(x))
                                 /\ WF_vars(DeleteSocket(x))
FairSpec == Spec /\ Fairness

-----------------------------------------------------------------------------
(* Properties.                                                            *)

(* Two clients that are connected at once share m_p_timer and              *)
(* currentSocket, and the harm stays with them: a client that never met    *)
(* another has its own timer, not deleted, under m_p_timer as long as it   *)
(* is connected, and the timer goes when it leaves, whatever timers others *)
(* have left running or deleted before (tcp_thread.cpp:72, 89, 113, 163).  *)
ConnectedClientOwnsTimer ==
    alive => \A x \in Clients \ met :
        /\ Writable(x) => currentSocket = x /\ timer[x] \in {"running", "stopped"}
        /\ timer[x] = "running" => Writable(x)

(* The worker closes a connection only with an answer or a timeout, and    *)
(* sends nobody both, until two clients have met: a timer that one of them *)
(* left running goes off at whoever is connected (tcp_thread.cpp:163 and   *)
(* 335-340).                                                               *)
AnsweredOnce ==
    alive => \A x \in Clients :
        /\ met = {} => Cardinality(replies[x]) <= 1
        /\ sock[x] = "closing" => replies[x] # {}

(* A connection that is there while run() waits releases it in the end: by *)
(* its closing, though its answer came before the wait, or, if the client  *)
(* has not asked yet, by its answer, its timeout or its leaving; but for a *)
(* client that meets another and is still open (worker_node.cpp:209-217    *)
(* and 260-265).                                                           *)
ConnectedClientReleases ==
    \A x \in Clients :
        (pcRun = "wait_for_client"
         /\ (sock[x] = "closing" \/ (sock[x] = "open" /\ x \notin asked)))
            ~> (pcRun # "wait_for_client" \/ (sock[x] = "open" /\ x \in met) \/ ~alive)

(* A client that connects, sends nothing and meets nobody is sent away,    *)
(* whatever happened to the timers of earlier clients (tcp_thread.cpp:91). *)
LoneClientTimesOut ==
    \A x \in Clients :
        (sock[x] = "open" /\ x \notin asked)
            ~> (sock[x] # "open" \/ x \in asked \/ x \in met \/ ~alive)

-----------------------------------------------------------------------------
(* What the documents say and the code does not do.                       *)

(* "WAIT_FOR_CLIENT_CONNECT, /* wait for a client to connect */"           *)
(* (worker_connection_state.hpp:21): the client run() waits for is still   *)
(* to come, or to leave, or the flag is set already.                       *)
AwaitedClientStillComes ==
    (alive /\ pcRun = "wait_for_client" /\ read = "clean") =>
        served_client \/ sock[job] \in {"away", "open", "closing"}

(* "10 second timeout" (tcp_thread.cpp:91): a client that connects and     *)
(* sends nothing is sent away.                                             *)
SilentClientTimesOut ==
    \A x \in Clients :
        (sock[x] = "open" /\ x \notin asked)
            ~> (sock[x] # "open" \/ x \in asked \/ ~alive)
=============================================================================
