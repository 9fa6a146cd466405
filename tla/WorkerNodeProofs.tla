-------------------------- MODULE WorkerNodeProofs --------------------------
(***************************************************************************)
(* Proofs about WorkerNode, for every set of clients.                      *)
(***************************************************************************)
EXTENDS WorkerNode, FiniteSetTheorems, TLAPS

USE DEF StaleAfterDelete, NewTimer, TimerStopped, TimerDeleted, ServedByDisconnect

LEMMA WorkerTypeInit == Init => TypeOK
<1> SUFFICES ASSUME Init PROVE TypeOK
    OBVIOUS
<1>1. stale \in 0 .. MaxStale
    BY BoundAssumption DEF Init
<1>2. /\ sock \in [Clients -> SockStates] /\ timer \in [Clients -> TimerStates]
      /\ replies \in [Clients -> SUBSET {"reply", "timeout"}]
    BY DEF Init, SockStates, TimerStates
<1>3. \A x \in Clients : sock[x] = "away" /\ timer[x] = "none" /\ currentSocket # x
    BY NoneAssumption DEF Init
<1> QED
    BY <1>1, <1>2, <1>3 DEF Init, TypeOK, RunPlaces, LinkStates

(* The part of the type invariant that ties timers and currentSocket to    *)
(* the sockets: what preserves it, whoever moves.                          *)
TimersSet ==
    \A x \in Clients : /\ timer[x] = "none" <=> sock[x] = "away"
                       /\ currentSocket = None => sock[x] = "away"
                       /\ currentSocket = x => sock[x] # "away"

LEMMA WorkerTypeStep == TypeOK /\ [Next]_vars => TypeOK'
<1> SUFFICES ASSUME TypeOK, [Next]_vars PROVE TypeOK'
    OBVIOUS
<1>0. TimersSet
    BY DEF TypeOK, TimersSet
<1> USE NoneAssumption, BoundAssumption
        DEF TypeOK, RunPlaces, LinkStates, SockStates, TimerStates,
             runVars, masterVars, clientVars, flagVars, Goto, Use
<1>1. CASE TestContinue
    BY <1>1 DEF TestContinue
<1>2. CASE Connect
    <2>1. stale' \in 0 .. MaxStale
        BY <1>2 DEF Connect
    <2> QED
        BY <1>2, <2>1 DEF Connect
<1>3. CASE WaitForJob
    BY <1>3 DEF WaitForJob, ReadAnswer, ReadBye, ReadNothing
<1>4. CASE Reset
    BY <1>4 DEF Reset
<1>5. CASE WaitForClient
    BY <1>5 DEF WaitForClient
<1>6. CASE Stop
    BY <1>6 DEF Stop
<1>7. ASSUME NEW x \in Clients, Accept(x) PROVE TypeOK'
    <2>1. met' \subseteq Clients
        BY <1>7 DEF Accept, Meet, Others
    <2>2. TimersSet'
        BY <1>0, <1>7 DEF Accept, TimersSet
    <2> QED
        BY <1>7, <2>1, <2>2 DEF Accept, TimersSet
<1>8. ASSUME NEW x \in Clients, ReadFromClient(x) PROVE TypeOK'
    <2>1. timer' \in [Clients -> TimerStates]
        BY <1>8 DEF ReadFromClient
    <2>2. /\ sock' \in [Clients -> SockStates]
          /\ replies' \in [Clients -> SUBSET {"reply", "timeout"}]
          /\ \A y \in Clients : sock'[y] = "away" <=> sock[y] = "away"
        <3>1. \/ DisconnectClient(x, "reply")
              \/ UNCHANGED <<sock, replies>>
            BY <1>8 DEF ReadFromClient
        <3>2. replies[x] \cup {"reply"} \in SUBSET {"reply", "timeout"}
            OBVIOUS
        <3> QED
            BY <3>1, <3>2 DEF DisconnectClient, Writable
    <2>3. asked' \subseteq Clients
        BY <1>8 DEF ReadFromClient
    <2>4. UNCHANGED <<pcRun, read, link, stale, job, told, currentSocket, met, m_continue>>
        BY <1>8 DEF ReadFromClient
    <2>5. alive' \in BOOLEAN
        <3>1. alive \in BOOLEAN /\ (alive' \in BOOLEAN \/ alive' = alive \/ alive' = FALSE)
            BY <1>8, Zenon DEF ReadFromClient
        <3> QED
            BY <3>1, Zenon
    <2>6. served_client' \in BOOLEAN
        BY <1>8 DEF ReadFromClient
    <2>7. \A y \in Clients : timer'[y] = "none" <=> timer[y] = "none"
        BY <1>8 DEF ReadFromClient
    <2>8. TimersSet'
        BY <1>0, <2>2, <2>4, <2>7 DEF TimersSet
    <2> QED
        BY <2>1, <2>2, <2>3, <2>4, <2>5, <2>6, <2>8 DEF TimersSet
<1>9. ASSUME NEW x \in Clients, Timeout(x) PROVE TypeOK'
    <2>1. UNCHANGED <<pcRun, read, link, stale, job, told, asked, timer, currentSocket, met,
                      served_client, m_continue>>
        BY <1>9 DEF Timeout
    <2>2. /\ sock' \in [Clients -> SockStates]
          /\ \A y \in Clients : sock'[y] = "away" <=> sock[y] = "away"
        BY <1>9 DEF Timeout, DisconnectClient, Writable
    <2>3. replies' \in [Clients -> SUBSET {"reply", "timeout"}]
        <3>1. \A y \in Clients : replies[y] \cup {"timeout"} \in SUBSET {"reply", "timeout"}
            OBVIOUS
        <3> QED
            BY <1>9, <3>1 DEF Timeout, DisconnectClient
    <2>4. alive' \in BOOLEAN
        BY <1>9, Zenon DEF Timeout
    <2>5. TimersSet'
        BY <1>0, <2>1, <2>2 DEF TimersSet
    <2> QED
        BY <2>1, <2>2, <2>3, <2>4, <2>5 DEF TimersSet
<1>10. ASSUME NEW x \in Clients, Disconnected(x) PROVE TypeOK'
    <2>1. currentSocket \in Clients /\ sock[currentSocket] # "away"
        BY <1>0, <1>10 DEF Disconnected, Writable, TimersSet
    <2>2. TimersSet'
        BY <1>0, <1>10, <2>1 DEF Disconnected, Writable, TimersSet
    <2> QED
        BY <1>10, <2>2 DEF Disconnected, TimersSet
<1>11. ASSUME NEW x \in Clients, DeleteSocket(x) PROVE TypeOK'
    <2>1. TimersSet'
        BY <1>0, <1>11 DEF DeleteSocket, TimersSet
    <2> QED
        BY <1>11, <2>1 DEF DeleteSocket, TimersSet
<1>12. ASSUME NEW x \in Clients, MasterPairs(x) \/ MasterPairsStale(x) PROVE TypeOK'
    BY <1>12 DEF MasterPairs, MasterPairsStale
<1>13. CASE MasterForgets \/ MasterRefuses
    BY <1>13 DEF MasterForgets, MasterRefuses
<1>14. CASE UNCHANGED vars
    BY <1>14 DEF vars
<1> QED
    BY <1>1, <1>2, <1>3, <1>4, <1>5, <1>6, <1>7, <1>8, <1>9, <1>10, <1>11, <1>12,
       <1>13, <1>14 DEF Next, Run, Main, Master

(* The worker's variables keep their types (worker_node.cpp:144-223 and    *)
(* tcp_thread.cpp:67-115).                                                 *)
THEOREM WorkerTypeCorrect == Spec => []TypeOK
<1> QED
    BY WorkerTypeInit, WorkerTypeStep, PTL DEF Spec

-----------------------------------------------------------------------------
(* What is known of one client that never met another, by the state of its *)
(* socket; and that connected clients that are two have met.               *)
OwnTimer(x) ==
    /\ Writable(x) => currentSocket = x /\ timer[x] \in {"running", "stopped"}
    /\ sock[x] \in {"gone", "deleted"} => timer[x] = "deleted"
    /\ sock[x] = "away" => timer[x] = "none"

Apart ==
    \A x, y \in Clients : Writable(x) /\ Writable(y) /\ x # y => x \in met /\ y \in met

AloneInv == TypeOK /\ (alive => Apart /\ \A x \in Clients \ met : OwnTimer(x))

LEMMA AloneInit == Init => AloneInv
<1> SUFFICES ASSUME Init PROVE AloneInv
    OBVIOUS
<1>1. TypeOK
    BY WorkerTypeInit
<1> QED
    BY <1>1 DEF Init, AloneInv, Apart, OwnTimer, Writable

LEMMA AloneStep == AloneInv /\ [Next]_vars => AloneInv'
<1> SUFFICES ASSUME AloneInv, [Next]_vars PROVE AloneInv'
    OBVIOUS
<1>0. TypeOK /\ TypeOK'
    BY WorkerTypeStep DEF AloneInv
<1> SUFFICES ASSUME alive' PROVE Apart' /\ \A z \in Clients \ met' : OwnTimer(z)'
    BY <1>0 DEF AloneInv
<1>1. CASE alive /\ UNCHANGED clientVars
    BY <1>1 DEF AloneInv, Apart, OwnTimer, Writable, clientVars
<1>2. CASE Run
    <2>1. alive /\ UNCHANGED clientVars
        BY <1>2 DEF Run, TestContinue, Connect, WaitForJob, ReadAnswer, ReadBye,
                    ReadNothing, Reset, WaitForClient, Goto
    <2> QED
        BY <1>1, <2>1
<1>3. CASE Master
    <2>1. UNCHANGED <<clientVars, alive>>
        BY <1>3 DEF Master, MasterPairs, MasterPairsStale, MasterForgets,
                    MasterRefuses, flagVars
    <2> QED
        BY <1>1, <2>1
<1>4. CASE Stop \/ UNCHANGED vars
    <2>1. UNCHANGED <<clientVars, alive>>
        BY <1>4 DEF Stop, vars, flagVars
    <2> QED
        BY <1>1, <2>1
<1>5. ASSUME NEW x \in Clients, Accept(x)
      PROVE  Apart' /\ \A z \in Clients \ met' : OwnTimer(z)'
    <2>1. alive /\ sock[x] = "away"
        BY <1>5 DEF Accept
    <2>2. /\ sock' = [sock EXCEPT ![x] = "open"] /\ timer' = [timer EXCEPT ![x] = "running"]
          /\ currentSocket' = x
        BY <1>5 DEF Accept
    <2>3. /\ met \subseteq met'
          /\ \A y \in Clients : Writable(y) /\ y # x => y \in met' /\ x \in met'
        BY <1>5 DEF Accept, Meet, Others
    <2>4. \A y \in Clients : Writable(y)' => Writable(y) \/ y = x
        BY <1>0, <2>2 DEF Writable, TypeOK
    <2>5. Apart'
        BY <2>1, <2>3, <2>4 DEF AloneInv, Apart
    <2>6. ASSUME NEW z \in Clients \ met' PROVE OwnTimer(z)'
        <3>1. CASE z = x
            BY <1>0, <2>2, <3>1 DEF OwnTimer, Writable, TypeOK
        <3>2. CASE z # x
            <4>1. OwnTimer(z) /\ ~Writable(z)
                BY <2>1, <2>3, <3>2 DEF AloneInv
            <4> QED
                BY <1>0, <2>2, <3>2, <4>1 DEF OwnTimer, Writable, TypeOK
        <3> QED
            BY <3>1, <3>2
    <2> QED
        BY <2>5, <2>6
<1>6. ASSUME NEW x \in Clients, ReadFromClient(x)
      PROVE  Apart' /\ \A z \in Clients \ met' : OwnTimer(z)'
    <2>1. alive /\ UNCHANGED <<currentSocket, met>>
        BY <1>6 DEF ReadFromClient
    <2>2. \A y \in Clients :
              /\ Writable(y)' <=> Writable(y)
              /\ ~Writable(y) => sock'[y] = sock[y]
        BY <1>0, <1>6 DEF ReadFromClient, DisconnectClient, Writable, TypeOK
    <2>3. \A y \in Clients :
              timer'[y] = timer[y] \/ (timer[y] = "running" /\ timer'[y] = "stopped")
        BY <1>0, <1>6 DEF ReadFromClient, TypeOK
    <2> QED
        BY <2>1, <2>2, <2>3 DEF AloneInv, Apart, OwnTimer, Writable
<1>7. ASSUME NEW x \in Clients, Timeout(x)
      PROVE  Apart' /\ \A z \in Clients \ met' : OwnTimer(z)'
    <2>1. alive /\ UNCHANGED <<timer, currentSocket, met>>
        BY <1>7 DEF Timeout
    <2>2. \A y \in Clients :
              /\ Writable(y)' <=> Writable(y)
              /\ ~Writable(y) => sock'[y] = sock[y]
        BY <1>0, <1>7 DEF Timeout, DisconnectClient, Writable, TypeOK
    <2> QED
        BY <2>1, <2>2 DEF AloneInv, Apart, OwnTimer, Writable
<1>8. ASSUME NEW x \in Clients, Disconnected(x)
      PROVE  Apart' /\ \A z \in Clients \ met' : OwnTimer(z)'
    <2>1. alive /\ Writable(x) /\ UNCHANGED <<currentSocket, met>>
        BY <1>8 DEF Disconnected
    <2>2. /\ sock' = [sock EXCEPT ![x] = "gone"]
          /\ timer' = [timer EXCEPT ![currentSocket] = "deleted"]
        BY <1>8 DEF Disconnected
    <2>3. \A y \in Clients : Writable(y)' => Writable(y) /\ y # x
        BY <1>0, <2>2 DEF Writable, TypeOK
    <2>4. Apart'
        BY <2>1, <2>3 DEF AloneInv, Apart
    <2>5. ASSUME NEW z \in Clients \ met' PROVE OwnTimer(z)'
        <3>1. OwnTimer(z) /\ (Writable(z) => z = x)
            BY <2>1 DEF AloneInv, Apart
        <3>2. CASE z = x
            BY <1>0, <2>1, <2>2, <3>1, <3>2 DEF OwnTimer, Writable, TypeOK
        <3>3. CASE z # x
            <4>1. sock[z] = "away" => currentSocket # z
                BY <1>0 DEF TypeOK
            <4> QED
                BY <1>0, <2>1, <2>2, <3>1, <3>3, <4>1 DEF OwnTimer, Writable, TypeOK
        <3> QED
            BY <3>2, <3>3
    <2> QED
        BY <2>4, <2>5
<1>9. ASSUME NEW x \in Clients, DeleteSocket(x)
      PROVE  Apart' /\ \A z \in Clients \ met' : OwnTimer(z)'
    <2>1. alive /\ UNCHANGED <<timer, currentSocket, met>> /\ sock[x] = "gone"
          /\ sock' = [sock EXCEPT ![x] = "deleted"]
        BY <1>9 DEF DeleteSocket
    <2> QED
        BY <1>0, <2>1 DEF AloneInv, Apart, OwnTimer, Writable, TypeOK
<1> QED
    BY <1>2, <1>3, <1>4, <1>5, <1>6, <1>7, <1>8, <1>9 DEF Next, Main

(* A client that never met another has its own timer under m_p_timer as    *)
(* long as it is connected, and its timer goes with it, whatever became of *)
(* the timers of clients that did meet (tcp_thread.cpp:72, 89, 113, 163).  *)
THEOREM TimerIsTheClients == Spec => []ConnectedClientOwnsTimer
<1>1. AloneInv => ConnectedClientOwnsTimer
    <2> SUFFICES ASSUME AloneInv, alive, NEW x \in Clients \ met
                 PROVE /\ Writable(x) => currentSocket = x /\ timer[x] \in {"running", "stopped"}
                       /\ timer[x] = "running" => Writable(x)
        BY DEF ConnectedClientOwnsTimer
    <2>1. OwnTimer(x) /\ sock[x] \in SockStates
        BY DEF AloneInv, TypeOK
    <2> QED
        BY <2>1 DEF OwnTimer, Writable, SockStates
<1> QED
    BY <1>1, AloneInit, AloneStep, PTL DEF Spec

-----------------------------------------------------------------------------
(* As long as nobody has met.  Whether a client was answered is tied to    *)
(* whether its timer still runs, which is why a timeout never follows an   *)
(* answer; and whoever is sent away is sent a line, met or not.            *)
InStep(x) ==
    /\ sock[x] = "away" => replies[x] = {} /\ timer[x] = "none" /\ x \notin asked
    /\ sock[x] = "open" => /\ currentSocket = x /\ replies[x] = {}
                           /\ timer[x] = (IF x \in asked THEN "stopped" ELSE "running")
    /\ sock[x] = "closing" =>
        /\ currentSocket = x
        /\ \/ x \in asked /\ replies[x] = {"reply"} /\ timer[x] = "stopped"
           \/ x \notin asked /\ replies[x] = {"timeout"} /\ timer[x] = "running"
    /\ sock[x] \in {"gone", "deleted"} =>
        /\ replies[x] \in {{}, {"reply"}, {"timeout"}}
        /\ timer[x] = "deleted"

InTurnInv == TypeOK /\ (alive /\ met = {} => \A x \in Clients : InStep(x))

LEMMA InTurnInit == Init => InTurnInv
<1> SUFFICES ASSUME Init PROVE InTurnInv
    OBVIOUS
<1>1. TypeOK
    BY WorkerTypeInit
<1> QED
    BY <1>1 DEF Init, InTurnInv, InStep

LEMMA InTurnStep == InTurnInv /\ [Next]_vars => InTurnInv'
<1> SUFFICES ASSUME InTurnInv, [Next]_vars PROVE InTurnInv'
    OBVIOUS
<1>0. TypeOK /\ TypeOK'
    BY WorkerTypeStep DEF InTurnInv
<1> SUFFICES ASSUME alive', met' = {}, NEW z \in Clients PROVE InStep(z)'
    BY <1>0 DEF InTurnInv
<1>1. CASE Run
    <2>1. alive /\ UNCHANGED clientVars
        BY <1>1 DEF Run, TestContinue, Connect, WaitForJob, ReadAnswer, ReadBye,
                    ReadNothing, Reset, WaitForClient, Goto
    <2> QED
        BY <2>1 DEF InTurnInv, InStep, clientVars
<1>2. CASE Master
    <2>1. UNCHANGED <<clientVars, alive>>
        BY <1>2 DEF Master, MasterPairs, MasterPairsStale, MasterForgets,
                    MasterRefuses, flagVars
    <2> QED
        BY <2>1 DEF InTurnInv, InStep, clientVars
<1>3. CASE Stop \/ UNCHANGED vars
    BY <1>3 DEF Stop, vars, clientVars, flagVars, InTurnInv, InStep
<1>4. ASSUME NEW x \in Clients, Accept(x) PROVE InStep(z)'
    <2>1. alive /\ met = {} /\ sock[x] = "away" /\ (z # x => ~Writable(z))
        BY <1>4 DEF Accept, Meet, Others
    <2>2. sock' = [sock EXCEPT ![x] = "open"] /\ timer' = [timer EXCEPT ![x] = "running"]
            /\ currentSocket' = x /\ UNCHANGED <<asked, replies>>
        BY <1>4 DEF Accept
    <2> QED
        BY <1>0, <2>1, <2>2 DEF InTurnInv, InStep, Writable, TypeOK, SockStates
<1>5. ASSUME NEW x \in Clients, ReadFromClient(x) PROVE InStep(z)'
    <2>1. alive /\ met = {} /\ InStep(x) /\ InStep(z)
        BY <1>5 DEF ReadFromClient, InTurnInv
    <2>2. currentSocket = x /\ sock[x] = "open" /\ x \notin asked /\ timer[x] = "running"
            /\ replies[x] = {}
        BY <1>5, <2>1 DEF ReadFromClient, InStep
    <2>3. asked' = asked \cup {x} /\ timer' = [timer EXCEPT ![x] = "stopped"]
            /\ UNCHANGED currentSocket
        BY <1>5, <2>2 DEF ReadFromClient
    <2>4. \/ replies' = [replies EXCEPT ![x] = {"reply"}] /\ sock' = [sock EXCEPT ![x] = "closing"]
          \/ UNCHANGED <<sock, replies>>
        <3>1. replies[x] \cup {"reply"} = {"reply"}
            BY <2>2
        <3>2. [replies EXCEPT ![x] = @ \cup {"reply"}] = [replies EXCEPT ![x] = {"reply"}]
            BY <3>1, Zenon
        <3>3. Writable(x)
            BY <2>2 DEF Writable
        <3>4. DisconnectClient(x, "reply") \/ UNCHANGED <<sock, replies>>
            BY <1>5, Zenon DEF ReadFromClient
        <3> QED
            BY <3>2, <3>3, <3>4, Zenon DEF DisconnectClient
    <2> QED
        BY <1>0, <2>1, <2>2, <2>3, <2>4 DEF InStep, TypeOK
<1>6. ASSUME NEW x \in Clients, Timeout(x) PROVE InStep(z)'
    <2>1. alive /\ met = {} /\ InStep(x) /\ InStep(z)
        BY <1>6 DEF Timeout, InTurnInv
    <2>2. Writable(x) /\ currentSocket = x /\ timer[x] = "running" /\ x \notin asked
            /\ replies[x] \in {{}, {"timeout"}}
        BY <1>0, <1>6, <2>1 DEF Timeout, InStep, Writable, TypeOK, SockStates
    <2>3. /\ replies' = [replies EXCEPT ![x] = {"timeout"}]
          /\ sock' = [sock EXCEPT ![x] = "closing"]
          /\ UNCHANGED <<asked, timer, currentSocket>>
        <3>1. replies[x] \cup {"timeout"} = {"timeout"}
            BY <2>2
        <3>2. [replies EXCEPT ![x] = @ \cup {"timeout"}] = [replies EXCEPT ![x] = {"timeout"}]
            BY <3>1, Zenon
        <3> QED
            BY <1>6, <2>2, <3>2, Zenon DEF Timeout, DisconnectClient
    <2> QED
        BY <1>0, <2>1, <2>2, <2>3 DEF InStep, TypeOK
<1>7. ASSUME NEW x \in Clients, Disconnected(x) PROVE InStep(z)'
    <2>1. alive /\ met = {} /\ InStep(x) /\ InStep(z)
        BY <1>7 DEF Disconnected, InTurnInv
    <2>2. Writable(x) /\ currentSocket = x
        BY <1>7, <2>1 DEF Disconnected, InStep, Writable
    <2>3. /\ sock' = [sock EXCEPT ![x] = "gone"]
          /\ timer' = [timer EXCEPT ![x] = "deleted"]
          /\ UNCHANGED <<asked, replies, currentSocket>>
        BY <1>7, <2>2 DEF Disconnected
    <2> QED
        BY <1>0, <2>1, <2>2, <2>3 DEF InStep, Writable, TypeOK
<1>8. ASSUME NEW x \in Clients, DeleteSocket(x) PROVE InStep(z)'
    BY <1>0, <1>8 DEF DeleteSocket, InTurnInv, InStep, TypeOK
<1> QED
    BY <1>1, <1>2, <1>3, <1>4, <1>5, <1>6, <1>7, <1>8 DEF Next, Main

LEMMA SpokenStep ==
    ASSUME TypeOK, [Next]_vars,
           \A x \in Clients : sock[x] = "closing" => replies[x] # {}
    PROVE  \A x \in Clients : sock'[x] = "closing" => replies'[x] # {}
<1>1. CASE UNCHANGED <<sock, replies>>
    BY <1>1
<1>2. ASSUME NEW y \in Clients, NEW line, DisconnectClient(y, line)
      PROVE  \A x \in Clients : sock'[x] = "closing" => replies'[x] # {}
    BY <1>2 DEF DisconnectClient, TypeOK
<1>3. ASSUME NEW y \in Clients, NEW state,
             sock' = [sock EXCEPT ![y] = state], state # "closing", UNCHANGED replies
      PROVE  \A x \in Clients : sock'[x] = "closing" => replies'[x] # {}
    BY <1>3 DEF TypeOK
<1>4. CASE Run \/ Master \/ Stop \/ UNCHANGED vars
    <2>1. UNCHANGED clientVars
        BY <1>4 DEF Run, TestContinue, Connect, WaitForJob, Reset, WaitForClient, Master,
                    MasterPairs, MasterPairsStale, MasterForgets, MasterRefuses, Stop, vars
    <2> QED
        BY <1>1, <2>1 DEF clientVars
<1>5. ASSUME NEW x \in Clients, Accept(x) \/ Disconnected(x) \/ DeleteSocket(x)
      PROVE  \A z \in Clients : sock'[z] = "closing" => replies'[z] # {}
    BY <1>3, <1>5 DEF Accept, Disconnected, DeleteSocket
<1>6. ASSUME NEW x \in Clients, ReadFromClient(x)
      PROVE  \A z \in Clients : sock'[z] = "closing" => replies'[z] # {}
    BY <1>1, <1>2, <1>6 DEF ReadFromClient
<1>7. ASSUME NEW x \in Clients, Timeout(x)
      PROVE  \A z \in Clients : sock'[z] = "closing" => replies'[z] # {}
    <2>1. currentSocket \in Clients
        BY <1>7, NoneAssumption DEF Timeout, TypeOK
    <2> QED
        BY <1>2, <1>7, <2>1 DEF Timeout
<1> QED
    BY <1>4, <1>5, <1>6, <1>7 DEF Next, Main

(* The worker closes a connection only after it sent a line, and sends no  *)
(* client both an answer and a timeout until two clients have met          *)
(* (tcp_thread.cpp:163 and 335-340).                                       *)
THEOREM OneAnswerEach == Spec => []AnsweredOnce
<1> DEFINE Spoken == \A x \in Clients : sock[x] = "closing" => replies[x] # {}
           Inv == InTurnInv /\ Spoken
<1>1. Init => Inv
    BY InTurnInit DEF Init
<1>2. Inv /\ [Next]_vars => Inv'
    BY InTurnStep, SpokenStep DEF InTurnInv
<1>3. Inv => AnsweredOnce
    <2> SUFFICES ASSUME Inv, alive, NEW x \in Clients, met = {}
                 PROVE Cardinality(replies[x]) <= 1
        BY DEF AnsweredOnce
    <2>1. replies[x] \in {{}, {"reply"}, {"timeout"}}
        BY DEF InTurnInv, InStep, TypeOK, SockStates
    <2>2. Cardinality({}) = 0 /\ Cardinality({"reply"}) = 1 /\ Cardinality({"timeout"}) = 1
        BY FS_EmptySet, FS_Singleton
    <2> QED
        BY <2>1, <2>2
<1> QED
    BY <1>1, <1>2, <1>3, PTL DEF Spec

=============================================================================
