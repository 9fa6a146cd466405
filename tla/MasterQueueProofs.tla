------------------------- MODULE MasterQueueProofs --------------------------
(***************************************************************************)
(* The queues of the master hold live sockets only, as long as no two      *)
(* sockets share a peer port and every client asks once.  Both conditions  *)
(* are needed: the comparison in handle_disconnect sees nothing but the    *)
(* port, and a client that asked twice is removed once.                    *)
(***************************************************************************)
EXTENDS MasterNodeProofs

USE DEF Release, Dequeued, Post, WorkerInfo

PortsDiffer == \A x, y \in Sockets : Port[x] = Port[y] => x = y
AskOnce == MaxRequests = 1

-----------------------------------------------------------------------------
(* A queued socket is connected; or its disconnection is being handled; or *)
(* the process died handling it.                                           *)
Live(x) == \/ Writable(x)
           \/ sock[x] = "gone" /\ pcMain = "hd_client" /\ dropped = x
           \/ ~alive

WorkerQueueInv ==
    /\ \A i \in DOMAIN m_worker_connections : Live(m_worker_connections[i])
    /\ \A i, j \in DOMAIN m_worker_connections :
           m_worker_connections[i] = m_worker_connections[j] => i = j
    /\ \A i \in DOMAIN m_worker_connections :
           \/ worker_host[m_worker_connections[i]] # Blank
           \/ sock[m_worker_connections[i]] # "open"

ClientQueueInv ==
    /\ \A i \in DOMAIN ClientSockets : Live(ClientSockets[i])
    /\ \A i, j \in DOMAIN ClientSockets : ClientSockets[i] = ClientSockets[j] => i = j
    /\ \A i \in DOMAIN ClientSockets : requested[ClientSockets[i]] = 1

Ended == {"gone", "deleted"}

(* A socket whose deletion is posted has been disconnected, and so has the *)
(* one handle_disconnect is working on.                                    *)
GoneInv ==
    /\ \A i \in DOMAIN events :
           events[i].type = "delete" => sock[events[i].conn] \in Ended
    /\ pcMain = "hd_client" => dropped \in Sockets /\ sock[dropped] = "gone"

QueueInv == WorkerQueueInv /\ ClientQueueInv /\ GoneInv

-----------------------------------------------------------------------------
(* ClientSockets lists the sockets of the client queue, in its order.      *)
LEMMA ClientSocketsType ==
    ASSUME m_client_connections \in Seq(ClientConns)
    PROVE  /\ ClientSockets \in Seq(Clients)
           /\ DOMAIN ClientSockets = 1 .. Len(m_client_connections)
           /\ Len(ClientSockets) = Len(m_client_connections)
<1>1. \A i \in 1 .. Len(m_client_connections) :
          SocketOf(m_client_connections[i]) \in Clients
  BY DEF SocketOf, ClientConns
<1>2. DOMAIN m_client_connections = 1 .. Len(m_client_connections)
      /\ Len(m_client_connections) \in Nat
  BY LenProperties
<1>3. QED
  BY <1>1, <1>2 DEF ClientSockets

(* The posted deletions are of sockets.                                    *)
LEMMA DeletionsAreOfSockets ==
    ASSUME TypeOK
    PROVE  \A i \in DOMAIN events :
               events[i].type = "delete" => events[i].conn \in Sockets
<1>1. \A i \in DOMAIN events : events[i] \in Events
  BY LenProperties, ElementOfSeq DEF TypeOK
<1>2. QED
  BY <1>1 DEF Events

(* Writing and closing never revives a socket, and an open socket written  *)
(* to is no longer open.                                                   *)
LEMMA WriteAndCloseKeeps ==
    ASSUME TypeOK, NEW x \in Sockets, NEW line, WriteAndClose(x, line)
    PROVE  /\ \A y \in Sockets : Writable(y)' <=> Writable(y)
           /\ \A y \in Sockets : sock'[y] = "open" => sock[y] = "open"
           /\ \A y \in Sockets : sock[y] \in Ended => sock'[y] = sock[y]
           /\ sock'[x] # "open"
BY DEF TypeOK, WriteAndClose, Writable, SockStates, Ended

(* With distinct ports the scan of handle_disconnect recognises, among     *)
(* live sockets, the dropped one and no other.                             *)
LEMMA ScanIsExact ==
    ASSUME PortsDiffer, GoneInv, alive, pcMain = "hd_client",
           NEW x \in Sockets, Live(x)
    PROVE  (MayEqual(x) <=> x = dropped) /\ (MustEqual(x) <=> x = dropped)
BY DEF PortsDiffer, GoneInv, Live, MayEqual, MustEqual, Writable

(* handle_disconnect leaves in the worker queue entries that were there,   *)
(* in particular none of the dropped socket.                               *)
LEMMA DropLeavesWorkers ==
    ASSUME TypeOK, QueueInv, PortsDiffer, alive, pcMain = "hd_client",
           DropWorker \/ DropClient \/ DropNothing
    PROVE  /\ \A i, j \in DOMAIN m_worker_connections' :
                m_worker_connections'[i] = m_worker_connections'[j] => i = j
           /\ \A k \in DOMAIN m_worker_connections' :
                \E i \in DOMAIN m_worker_connections :
                    /\ m_worker_connections'[k] = m_worker_connections[i]
                    /\ m_worker_connections[i] # dropped
<1> DEFINE q == m_worker_connections
<1>1. q \in Seq(WorkerConns) /\ DOMAIN q = 1 .. Len(q)
  BY LenProperties DEF TypeOK
<1>2. \A i \in DOMAIN q : q[i] \in Sockets /\ Live(q[i])
  BY <1>1, ElementOfSeq DEF QueueInv, WorkerQueueInv, WorkerConns, Sockets
<1>3. \A i, j \in 1 .. Len(q) : q[i] = q[j] => i = j
  BY <1>1 DEF QueueInv, WorkerQueueInv
<1>4. CASE DropWorker
  <2>1. PICK i \in DOMAIN q : StopsAt(q, i) /\ q' = Without(q, i)
    BY <1>4 DEF DropWorker
  <2>2. q[i] = dropped
    BY <1>2, <2>1, ScanIsExact DEF QueueInv, StopsAt
  <2>3. /\ DOMAIN q' = 1 .. Len(q) - 1 /\ Len(q) \in Nat
        /\ \A k \in 1 .. Len(q) - 1 : q'[k] = IF k < i THEN q[k] ELSE q[k + 1]
    BY <1>1, <2>1, WithoutProperties, LenProperties
  <2>4. /\ \A j, k \in 1 .. Len(q) - 1 : q'[j] = q'[k] => j = k
        /\ \A k \in 1 .. Len(q) - 1 : \E j \in 1 .. Len(q) : q'[k] = q[j] /\ j # i
    <3> HIDE DEF q
    <3>1. QED
      BY <1>3, <2>1, <2>3, ShiftDistinct, SMTT(30)
  <2>5. QED
    BY <1>1, <1>3, <2>2, <2>3, <2>4
<1>5. CASE DropClient \/ DropNothing
  <2>1. UNCHANGED q /\ PassesOver(q)
    BY <1>5 DEF DropClient, DropNothing
  <2>2. \A i \in DOMAIN q : q[i] # dropped
    BY <1>2, <2>1, ScanIsExact DEF QueueInv, PassesOver
  <2>3. QED
    BY <1>1, <1>3, <2>1, <2>2
<1>6. QED
  BY <1>4, <1>5

(* The same of the client queue. *)
LEMMA DropLeavesClients ==
    ASSUME TypeOK, QueueInv, PortsDiffer, alive, pcMain = "hd_client",
           DropWorker \/ DropClient \/ DropNothing
    PROVE  /\ \A i, j \in DOMAIN ClientSockets' :
                ClientSockets'[i] = ClientSockets'[j] => i = j
           /\ \A k \in DOMAIN ClientSockets' :
                \E i \in DOMAIN ClientSockets :
                    /\ ClientSockets'[k] = ClientSockets[i]
                    /\ ClientSockets[i] # dropped
<1> DEFINE q == m_client_connections
           s == ClientSockets
<1>1. /\ q \in Seq(ClientConns) /\ DOMAIN q = 1 .. Len(q) /\ Len(q) \in Nat
      /\ s \in Seq(Clients) /\ DOMAIN s = 1 .. Len(q) /\ Len(s) = Len(q)
  BY ClientSocketsType, LenProperties DEF TypeOK
<1>2. \A i \in DOMAIN s : s[i] \in Clients /\ s[i] \in Sockets /\ Live(s[i])
  BY <1>1, ElementOfSeq DEF QueueInv, ClientQueueInv, Sockets
<1>3. \A i, j \in 1 .. Len(q) : s[i] = s[j] => i = j
  BY <1>1 DEF QueueInv, ClientQueueInv
<1>4. CASE DropWorker
  <2>1. PICK i \in DOMAIN m_worker_connections : StopsAt(m_worker_connections, i)
    BY <1>4 DEF DropWorker
  <2>2. m_worker_connections[i] \in Workers /\ Live(m_worker_connections[i])
    BY <2>1, LenProperties, ElementOfSeq DEF TypeOK, WorkerConns, QueueInv, WorkerQueueInv
  <2>3. dropped \in Workers
    BY <2>1, <2>2, ScanIsExact DEF QueueInv, StopsAt, Sockets
  <2>4. UNCHANGED s
    BY <1>4 DEF DropWorker, ClientSockets, SocketOf
  <2>5. QED
    BY <1>1, <1>2, <1>3, <2>3, <2>4, SocketAssumption
<1>5. CASE DropClient
  <2>1. PICK i \in DOMAIN q : StopsAt(s, i) /\ q' = Without(q, i)
    BY <1>5 DEF DropClient
  <2>2. s[i] = dropped
    BY <1>1, <1>2, <2>1, ScanIsExact DEF QueueInv, StopsAt
  <2>3. /\ q' \in Seq(ClientConns) /\ Len(q') = Len(q) - 1
        /\ \A k \in 1 .. Len(q) - 1 : q'[k] = IF k < i THEN q[k] ELSE q[k + 1]
    BY <1>1, <2>1, WithoutProperties
  <2>4. /\ DOMAIN q' = 1 .. Len(q) - 1
        /\ \A k \in 1 .. Len(q) - 1 : s'[k] = IF k < i THEN s[k] ELSE s[k + 1]
    BY <1>1, <2>1, <2>3, LenProperties DEF ClientSockets
  <2>5. DOMAIN s' = 1 .. Len(q) - 1
    BY <2>4 DEF ClientSockets
  <2>6. /\ \A j, k \in 1 .. Len(q) - 1 : s'[j] = s'[k] => j = k
        /\ \A k \in 1 .. Len(q) - 1 : \E j \in 1 .. Len(q) : s'[k] = s[j] /\ j # i
    <3>1. Len(q) \in Nat /\ i \in 1 .. Len(q)
      BY <1>1
    <3> HIDE DEF q, s
    <3>2. QED
      BY <1>3, <2>4, <3>1, ShiftDistinct, SMTT(30)
  <2>7. QED
    BY <1>1, <1>3, <2>1, <2>2, <2>5, <2>6
<1>6. CASE DropNothing
  <2>1. UNCHANGED s /\ PassesOver(s)
    BY <1>6 DEF DropNothing, ClientSockets, SocketOf
  <2>2. \A i \in DOMAIN s : s[i] # dropped
    BY <1>2, <2>1, ScanIsExact DEF QueueInv, PassesOver
  <2>3. QED
    BY <1>1, <1>3, <2>1, <2>2
<1>7. QED
  BY <1>4, <1>5, <1>6

-----------------------------------------------------------------------------
(* Steps that leave the queues as they are, end no connection in them and  *)
(* open none.                                                              *)
LEMMA QuietStep ==
    ASSUME TypeOK, QueueInv,
           UNCHANGED <<m_client_connections, m_worker_connections, worker_host,
                       requested>>,
           \A y \in Sockets : Live(y) => Live(y)',
           \A y \in Sockets : Live(y) /\ sock'[y] = "open" => sock[y] = "open"
    PROVE  WorkerQueueInv' /\ ClientQueueInv'
<1>1. /\ \A i \in DOMAIN m_worker_connections : m_worker_connections[i] \in Sockets
      /\ \A i \in DOMAIN ClientSockets : ClientSockets[i] \in Sockets
  BY ClientSocketsType, LenProperties, ElementOfSeq DEF TypeOK, WorkerConns, Sockets
<1>2. UNCHANGED ClientSockets
  BY DEF ClientSockets, SocketOf
<1>3. WorkerQueueInv'
  BY <1>1 DEF QueueInv, WorkerQueueInv
<1>4. ClientQueueInv'
  BY <1>1, <1>2 DEF QueueInv, ClientQueueInv
<1>5. QED
  BY <1>3, <1>4

(* Posting an answer, or delivering an event, keeps GoneInv: no            *)
(* disconnected socket comes back.                                         *)
LEMMA PostSend ==
    ASSUME TypeOK, GoneInv, NEW e \in Events, e.type # "delete",
           events' = Append(events, e), UNCHANGED <<sock, pcMain, dropped>>
    PROVE  GoneInv'
<1>1. /\ DOMAIN events' = 1 .. Len(events) + 1 /\ DOMAIN events = 1 .. Len(events)
      /\ Len(events) \in Nat
      /\ \A i \in 1 .. Len(events) : events'[i] = events[i]
      /\ events'[Len(events) + 1] = e
  BY AppendProperties, LenProperties DEF TypeOK
<1>2. QED
  BY <1>1 DEF GoneInv

LEMMA Deliver ==
    ASSUME TypeOK, GoneInv, events # <<>>, events' = Tail(events),
           \A y \in Sockets : sock[y] \in Ended => sock'[y] \in Ended,
           pcMain' = "idle"
    PROVE  GoneInv'
<1>1. /\ DOMAIN events' = 1 .. Len(events) - 1 /\ DOMAIN events = 1 .. Len(events)
      /\ Len(events) \in Nat
      /\ \A i \in 1 .. Len(events) - 1 : events'[i] = events[i + 1]
      /\ \A i \in 1 .. Len(events) : events[i] \in Events
  BY HeadTailProperties, LenProperties, ElementOfSeq DEF TypeOK
<1>2. ASSUME NEW i \in DOMAIN events', events'[i].type = "delete"
      PROVE sock'[events'[i].conn] \in Ended
  <2>1. /\ i + 1 \in DOMAIN events /\ events[i + 1].type = "delete"
        /\ events'[i] = events[i + 1]
    BY <1>1, <1>2
  <2>2. PICK y \in Sockets : y = events[i + 1].conn /\ sock[y] \in Ended
    BY <1>1, <2>1 DEF GoneInv, Events
  <2>3. QED
    BY <2>1, <2>2
<1>3. QED
  BY <1>2 DEF GoneInv

-----------------------------------------------------------------------------
(* A connection is queued: its socket was not in the queue.                *)
LEMMA RequestWorkerStep ==
    ASSUME AskOnce, TypeOK, QueueInv, NEW x \in Clients, RequestWorker(x)
    PROVE  QueueInv'
<1> USE DEF sockVars, connVars, queueVars, lockVars, loopVars, mainVars, flagVars
<1> DEFINE s == ClientSockets
           n == Len(m_client_connections)
<1>1. requested[x] = 0 /\ requested'[x] = 1 /\ x \in Sockets
  BY DEF RequestWorker, AskOnce, TypeOK, Sockets
<1>2. /\ DOMAIN s = 1 .. n /\ n \in Nat
      /\ \A i \in 1 .. n : s[i] \in Clients /\ s[i] \in Sockets /\ s[i] # x
  <2>1. DOMAIN s = 1 .. n /\ n \in Nat /\ \A i \in 1 .. n : s[i] \in Clients
    BY ClientSocketsType, LenProperties, ElementOfSeq DEF TypeOK
  <2>2. \A i \in 1 .. n : s[i] # x
    BY <1>1, <2>1 DEF QueueInv, ClientQueueInv
  <2>3. QED
    BY <2>1, <2>2 DEF Sockets
<1>3. /\ DOMAIN s' = 1 .. n + 1 /\ s'[n + 1] = x
      /\ \A i \in 1 .. n : s'[i] = s[i]
  <2>1. <<x, requested[x] + 1>> \in ClientConns
    BY <1>1, BoundAssumption DEF ClientConns, TypeOK
  <2>2. /\ m_client_connections' \in Seq(ClientConns) /\ Len(m_client_connections') = n + 1
        /\ \A i \in 1 .. n : m_client_connections'[i] = m_client_connections[i]
        /\ m_client_connections'[n + 1] = <<x, requested[x] + 1>>
    BY <2>1, AppendProperties DEF RequestWorker, TypeOK
  <2>3. DOMAIN m_client_connections' = 1 .. n + 1 /\ DOMAIN m_client_connections = 1 .. n
    BY <2>2, LenProperties DEF TypeOK
  <2>4. QED
    BY <1>2, <2>2, <2>3 DEF ClientSockets, SocketOf
<1>4. UNCHANGED <<sock, alive, pcMain, dropped, m_worker_connections, worker_host, events>>
  BY DEF RequestWorker
<1>5. ClientQueueInv'
  <2>1. \A i \in 1 .. n + 1 : Live(s[i])'
    <3>1. \A i \in 1 .. n : Live(s[i])'
      BY <1>2, <1>3, <1>4 DEF QueueInv, ClientQueueInv, Live, Writable
    <3>2. Live(x)'
      BY <1>4 DEF RequestWorker, Live, Writable
    <3>3. \A i \in 1 .. n + 1 : i \in 1 .. n \/ i = n + 1
      BY <1>2
    <3>4. QED
      BY <1>3, <3>1, <3>2, <3>3 DEF Live, Writable
  <2>2. \A i, j \in 1 .. n + 1 : s'[i] = s'[j] => i = j
    BY <1>2, <1>3 DEF QueueInv, ClientQueueInv
  <2>3. \A i \in 1 .. n + 1 : requested'[s'[i]] = 1
    <3>1. \A y \in Clients : y # x => requested'[y] = requested[y]
      BY DEF RequestWorker, TypeOK
    <3>2. \A i \in 1 .. n : requested'[s'[i]] = 1
      BY <1>2, <1>3, <3>1 DEF QueueInv, ClientQueueInv
    <3>3. \A i \in 1 .. n + 1 : i \in 1 .. n \/ i = n + 1
      BY <1>2
    <3>4. QED
      BY <1>1, <1>3, <3>2, <3>3
  <2>4. QED
    BY <1>3, <2>1, <2>2, <2>3 DEF ClientQueueInv, Live, Writable
<1>6. WorkerQueueInv' /\ GoneInv'
  BY <1>4 DEF QueueInv, WorkerQueueInv, GoneInv, Live, Writable
<1>7. QED
  BY <1>5, <1>6 DEF QueueInv

LEMMA RequestClientStep ==
    ASSUME TypeOK, QueueInv, NEW x \in Workers, RequestClient(x)
    PROVE  QueueInv'
<1> USE DEF sockVars, connVars, queueVars, lockVars, loopVars, mainVars, flagVars
<1> DEFINE q == m_worker_connections
           n == Len(q)
<1>1. x \in Sockets /\ sock[x] = "open" /\ worker_host[x] = Blank
  BY DEF RequestClient, Sockets
<1>2. /\ DOMAIN q = 1 .. n /\ n \in Nat
      /\ \A i \in 1 .. n : q[i] \in Workers /\ q[i] \in Sockets /\ q[i] # x
  <2>1. DOMAIN q = 1 .. n /\ n \in Nat /\ \A i \in 1 .. n : q[i] \in Workers
    BY LenProperties, ElementOfSeq DEF TypeOK, WorkerConns
  <2>2. \A i \in 1 .. n : q[i] # x
    BY <1>1, <2>1 DEF QueueInv, WorkerQueueInv
  <2>3. QED
    BY <2>1, <2>2 DEF Sockets
<1>3. /\ DOMAIN q' = 1 .. n + 1 /\ q'[n + 1] = x
      /\ \A i \in 1 .. n : q'[i] = q[i]
      /\ \A i \in 1 .. n + 1 : i \in 1 .. n \/ i = n + 1
  BY <1>2, AppendProperties, LenProperties DEF RequestClient, TypeOK, WorkerConns
<1>4. UNCHANGED <<alive, pcMain, dropped, m_client_connections, requested, events>>
  BY DEF RequestClient
<1>5. /\ \A y \in Sockets : Writable(y)' <=> Writable(y)
      /\ \A y \in Sockets : sock'[y] = "open" => sock[y] = "open"
      /\ \A y \in Sockets : sock[y] \in Ended => sock'[y] = sock[y]
      /\ worker_host'[x] # Blank \/ sock'[x] # "open"
      /\ \A y \in Workers : y # x => worker_host'[y] = worker_host[y]
  <2>1. CASE UNCHANGED sock /\ worker_host' = [worker_host EXCEPT ![x] = x]
    BY <1>1, <2>1, SocketAssumption DEF Writable, TypeOK, WorkerConns
  <2>2. CASE WriteAndClose(x, "BYE") /\ UNCHANGED worker_host
    BY <1>1, <2>2, WriteAndCloseKeeps
  <2>3. QED
    BY <2>1, <2>2 DEF RequestClient
<1>6. \A y \in Sockets : Live(y) => Live(y)'
  BY <1>4, <1>5 DEF Live, Ended
<1>7. WorkerQueueInv'
  <2>1. \A i \in 1 .. n + 1 : Live(q[i])'
    <3>1. Live(x) /\ Live(x)'
      BY <1>1, <1>6 DEF Live, Writable
    <3>2. QED
      BY <1>2, <1>3, <1>6, <3>1 DEF QueueInv, WorkerQueueInv, Live, Writable
  <2>2. \A i, j \in 1 .. n + 1 : q'[i] = q'[j] => i = j
    BY <1>2, <1>3 DEF QueueInv, WorkerQueueInv
  <2>3. \A i \in 1 .. n + 1 : worker_host'[q'[i]] # Blank \/ sock'[q'[i]] # "open"
    <3>1. \A i \in 1 .. n : worker_host'[q[i]] # Blank \/ sock'[q[i]] # "open"
      BY <1>2, <1>5 DEF QueueInv, WorkerQueueInv
    <3>2. QED
      BY <1>3, <1>5, <3>1
  <2>4. QED
    BY <1>3, <2>1, <2>2, <2>3 DEF WorkerQueueInv, Live, Writable
<1>8. ClientQueueInv'
  <2>1. \A i \in DOMAIN ClientSockets : ClientSockets[i] \in Sockets
    BY ClientSocketsType, ElementOfSeq DEF TypeOK, Sockets
  <2>2. UNCHANGED ClientSockets
    BY <1>4 DEF ClientSockets, SocketOf
  <2>3. QED
    BY <1>4, <1>6, <2>1, <2>2 DEF QueueInv, ClientQueueInv
<1>9. GoneInv'
  <2>1. \A i \in DOMAIN events : events[i].type = "delete" => events[i].conn \in Sockets
    BY DeletionsAreOfSockets
  <2>2. QED
    BY <1>4, <1>5, <2>1 DEF QueueInv, GoneInv, Ended
<1>10. QED
  BY <1>7, <1>8, <1>9 DEF QueueInv

-----------------------------------------------------------------------------
(* A socket that disconnects is marked before its deletion is posted.      *)
LEMMA DisconnectedIsGone ==
    ASSUME TypeOK, GoneInv, NEW x \in Sockets, Disconnected(x)
    PROVE  GoneInv'
<1>1. /\ pcMain = "idle"
      /\ \/ pcMain' = "hd_client" /\ dropped' = x
         \/ UNCHANGED <<pcMain, dropped>>
      /\ sock' = [sock EXCEPT ![x] = "gone"]
  BY DEF Disconnected, MainReady, mainVars
<1>2. sock'[x] = "gone" /\ \A y \in Sockets : y # x => sock'[y] = sock[y]
  BY <1>1 DEF TypeOK
<1>3. [type |-> "delete", conn |-> x] \in Events
  BY DEF Events
<1>4. /\ DOMAIN events' = 1 .. Len(events) + 1 /\ DOMAIN events = 1 .. Len(events)
      /\ Len(events) \in Nat
      /\ \A i \in 1 .. Len(events) : events'[i] = events[i] /\ events[i] \in Events
      /\ events'[Len(events) + 1] = [type |-> "delete", conn |-> x]
  BY <1>3, AppendProperties, LenProperties, ElementOfSeq DEF Disconnected, TypeOK
<1>5. \A y \in Sockets : sock[y] \in Ended => sock'[y] \in Ended
  BY <1>2 DEF Ended
<1>6. ASSUME NEW i \in 1 .. Len(events) + 1, events'[i].type = "delete"
      PROVE  sock'[events'[i].conn] \in Ended
  <2>1. CASE i = Len(events) + 1
    BY <1>2, <1>4, <2>1 DEF Ended
  <2>2. CASE i \in 1 .. Len(events)
    <3>1. PICK y \in Sockets : y = events[i].conn /\ sock[y] \in Ended
      BY <1>4, <1>6, <2>2 DEF GoneInv, Events
    <3>2. QED
      BY <1>4, <1>5, <2>2, <3>1
  <2>3. QED
    BY <1>4, <2>1, <2>2
<1>7. pcMain' = "hd_client" => dropped' \in Sockets /\ sock'[dropped'] = "gone"
  BY <1>1, <1>2
<1>8. QED
  BY <1>4, <1>6, <1>7 DEF GoneInv

(* A socket disconnects: it may be queued until its handler has finished.  *)
LEMMA DisconnectedStep ==
    ASSUME TypeOK, QueueInv, NEW x \in Sockets, Disconnected(x)
    PROVE  QueueInv'
<1> USE DEF sockVars, connVars, queueVars, lockVars, loopVars, mainVars, flagVars
<1>1. /\ pcMain = "idle" /\ alive
      /\ \/ pcMain' = "hd_client" /\ dropped' = x /\ alive' = alive
         \/ ~alive' /\ UNCHANGED <<pcMain, dropped>>
      /\ sock' = [sock EXCEPT ![x] = "gone"]
      /\ UNCHANGED <<m_client_connections, m_worker_connections, worker_host, requested>>
  BY DEF Disconnected, MainReady
<1>2. sock'[x] = "gone" /\ \A y \in Sockets : y # x => sock'[y] = sock[y]
  BY <1>1 DEF TypeOK
<1>3. /\ \A y \in Sockets : Live(y) => Live(y)'
      /\ \A y \in Sockets : Live(y) /\ sock'[y] = "open" => sock[y] = "open"
  BY <1>1, <1>2 DEF Live, Writable
<1>4. WorkerQueueInv' /\ ClientQueueInv'
  BY <1>1, <1>3, QuietStep
<1>5. GoneInv'
  BY DisconnectedIsGone DEF QueueInv
<1>6. QED
  BY <1>4, <1>5 DEF QueueInv

(* handle_disconnect ends: the dropped socket is in neither queue.         *)
LEMMA HandleDisconnectStep ==
    ASSUME PortsDiffer, TypeOK, QueueInv, HandleDisconnect
    PROVE  QueueInv'
<1> USE DEF sockVars, connVars, queueVars, lockVars, loopVars, mainVars, flagVars
<1> DEFINE q == m_worker_connections
           s == ClientSockets
<1>1. /\ alive /\ pcMain = "hd_client" /\ pcMain' = "idle"
      /\ DropWorker \/ DropClient \/ DropNothing
      /\ UNCHANGED <<sock, events, worker_host, requested>>
  BY DEF HandleDisconnect
<1>2. /\ \A i, j \in DOMAIN q' : q'[i] = q'[j] => i = j
      /\ \A k \in DOMAIN q' : \E i \in DOMAIN q : q'[k] = q[i] /\ q[i] # dropped
  BY <1>1, DropLeavesWorkers
<1>3. /\ \A i, j \in DOMAIN s' : s'[i] = s'[j] => i = j
      /\ \A k \in DOMAIN s' : \E i \in DOMAIN s : s'[k] = s[i] /\ s[i] # dropped
  BY <1>1, DropLeavesClients
<1>4. WorkerQueueInv'
  BY <1>1, <1>2 DEF QueueInv, WorkerQueueInv, Live, Writable
<1>5. ClientQueueInv'
  BY <1>1, <1>3 DEF QueueInv, ClientQueueInv, Live, Writable
<1>6. GoneInv'
  BY <1>1 DEF QueueInv, GoneInv
<1>7. QED
  BY <1>4, <1>5, <1>6 DEF QueueInv

(* An answer is written, or a socket deleted: the queues do not notice.    *)
LEMMA DeliverEventStep ==
    ASSUME TypeOK, QueueInv, DeliverEvent
    PROVE  QueueInv'
<1> USE DEF sockVars, connVars, queueVars, lockVars, loopVars, mainVars, flagVars
<1>1. /\ alive /\ pcMain = "idle" /\ pcMain' = "idle" /\ dropped' = dropped
      /\ events # <<>> /\ events' = Tail(events)
      /\ UNCHANGED <<m_client_connections, m_worker_connections, worker_host, requested>>
  BY DEF DeliverEvent, SendWorkerInfo, SendClientInfo, DeleteSocket, NextEvent, MainReady
<1>2. Head(events) \in Events /\ 1 \in DOMAIN events /\ Head(events) = events[1]
  BY <1>1, HeadTailProperties, LenProperties, EmptySeq DEF TypeOK
<1>3. /\ \A y \in Sockets : Live(y) => Live(y)'
      /\ \A y \in Sockets : Live(y) /\ sock'[y] = "open" => sock[y] = "open"
      /\ \A y \in Sockets : sock[y] \in Ended => sock'[y] \in Ended
  <2>1. ASSUME NEW x \in Sockets, NEW line, WriteAndClose(x, line)
        PROVE  /\ \A y \in Sockets : Live(y) => Live(y)'
               /\ \A y \in Sockets : Live(y) /\ sock'[y] = "open" => sock[y] = "open"
               /\ \A y \in Sockets : sock[y] \in Ended => sock'[y] \in Ended
    BY <1>1, <2>1, WriteAndCloseKeeps DEF Live
  <2>2. CASE SendWorkerInfo
    <3>1. Head(events).conn \in Sockets
      BY <1>2, <2>2 DEF SendWorkerInfo, NextEvent, Events, WorkerConns, Sockets
    <3>2. QED
      BY <2>1, <2>2, <3>1 DEF SendWorkerInfo
  <2>3. CASE SendClientInfo
    <3>1. SocketOf(Head(events).conn) \in Sockets
      BY <1>2, <2>3 DEF SendClientInfo, NextEvent, Events, ClientConns, SocketOf, Sockets
    <3>2. QED
      BY <2>1, <2>3, <3>1 DEF SendClientInfo
  <2>4. CASE DeleteSocket
    <3>1. PICK x \in Sockets : /\ sock[x] \in Ended
                               /\ sock' = [sock EXCEPT ![x] = "deleted"]
      BY <1>2, <2>4 DEF DeleteSocket, NextEvent, Events, QueueInv, GoneInv
    <3>2. sock'[x] = "deleted" /\ \A y \in Sockets : y # x => sock'[y] = sock[y]
      BY <3>1 DEF TypeOK
    <3>3. QED
      BY <1>1, <3>1, <3>2 DEF Live, Writable, Ended
  <2>5. QED
    BY <2>2, <2>3, <2>4 DEF DeliverEvent
<1>4. WorkerQueueInv' /\ ClientQueueInv'
  BY <1>1, <1>3, QuietStep
<1>5. GoneInv'
  BY <1>1, <1>3, Deliver DEF QueueInv
<1>6. QED
  BY <1>4, <1>5 DEF QueueInv

(* The master thread's steps. *)
LEMMA LoopStep ==
    ASSUME MasterInv, QueueInv, Loop
    PROVE  QueueInv'
<1> USE DEF sockVars, connVars, queueVars, lockVars, loopVars, mainVars, flagVars
<1>0. TypeOK /\ SemaInv /\ HandInv
  BY DEF MasterInv
<1>1. ASSUME UNCHANGED <<sock, pcMain, dropped, worker_host, requested>>, alive
      PROVE  /\ \A y \in Sockets : Live(y) => Live(y)'
             /\ \A y \in Sockets : Live(y) /\ sock'[y] = "open" => sock[y] = "open"
  BY <1>1 DEF Live, Writable
<1>2. CASE TestContinue \/ LockClient \/ LockWorkerAndCheck \/ LockWorkerAgain \/ Pair
  <2>1. /\ UNCHANGED <<sock, pcMain, dropped, worker_host, requested, events,
                       m_client_connections, m_worker_connections>>
        /\ alive
    BY <1>2 DEF TestContinue, LockClient, LockWorkerAndCheck, LockWorkerAgain, Pair, Goto
  <2>2. WorkerQueueInv' /\ ClientQueueInv'
    BY <1>0, <1>1, <2>1, QuietStep
  <2>3. QED
    BY <2>1, <2>2 DEF QueueInv, GoneInv
<1>3. CASE EmitWorker \/ EmitClient
  <2>1. /\ UNCHANGED <<sock, pcMain, dropped, worker_host, requested,
                       m_client_connections, m_worker_connections>>
        /\ alive
    BY <1>3 DEF EmitWorker, EmitClient, Goto
  <2>2. WorkerQueueInv' /\ ClientQueueInv'
    BY <1>0, <1>1, <2>1, QuietStep
  <2>3. CASE EmitWorker
    <3>1. [type |-> "send_worker", conn |-> w] \in Events
      BY <1>0, <2>3 DEF EmitWorker, Goto, HandInv, HoldsWorker, Events
    <3>2. GoneInv'
      BY <1>0, <2>1, <2>3, <3>1, PostSend DEF EmitWorker, QueueInv
    <3>3. QED
      BY <2>2, <3>2 DEF QueueInv
  <2>4. CASE EmitClient
    <3>1. [type |-> "send_client", conn |-> c] \in Events
      BY <1>0, <2>4 DEF EmitClient, Goto, HandInv, HoldsClient, Events
    <3>2. GoneInv'
      BY <1>0, <2>1, <2>4, <3>1, PostSend DEF EmitClient, QueueInv
    <3>3. QED
      BY <2>2, <3>2 DEF QueueInv
  <2>5. QED
    BY <1>3, <2>3, <2>4
<1>4. CASE TakeClient
  <2> DEFINE q == m_client_connections
             s == ClientSockets
  <2>1. /\ UNCHANGED <<sock, pcMain, dropped, worker_host, requested, events,
                       m_worker_connections, alive>>
        /\ q # <<>> /\ q' = Tail(q)
    BY <1>0, <1>4 DEF TakeClient, Goto, SemaInv
  <2>2. /\ DOMAIN s = 1 .. Len(q) /\ DOMAIN s' = 1 .. Len(q) - 1 /\ Len(q) \in Nat
        /\ \A k \in 1 .. Len(q) - 1 : s'[k] = s[k + 1]
    <3>1. /\ q' \in Seq(ClientConns) /\ Len(q') = Len(q) - 1
          /\ \A k \in 1 .. Len(q) - 1 : q'[k] = q[k + 1]
      BY <1>0, <2>1, HeadTailProperties DEF TypeOK
    <3>2. DOMAIN q' = 1 .. Len(q) - 1 /\ DOMAIN q = 1 .. Len(q) /\ Len(q) \in Nat
      BY <1>0, <3>1, LenProperties DEF TypeOK
    <3>3. QED
      BY <3>1, <3>2 DEF ClientSockets
  <2>3. ClientQueueInv'
    <3>1. \A k \in 1 .. Len(q) - 1 : k + 1 \in DOMAIN s /\ s'[k] = s[k + 1]
      BY <2>2
    <3>2. \A k \in DOMAIN s' : Live(s[k])'
      BY <2>1, <2>2, <3>1 DEF QueueInv, ClientQueueInv, Live, Writable
    <3>3. \A j, k \in DOMAIN s' : s'[j] = s'[k] => j = k
      BY <2>2, <3>1 DEF QueueInv, ClientQueueInv
    <3>4. \A k \in DOMAIN s' : requested'[s'[k]] = 1
      BY <2>1, <2>2, <3>1 DEF QueueInv, ClientQueueInv
    <3>5. QED
      BY <3>2, <3>3, <3>4 DEF ClientQueueInv, Live, Writable
  <2>4. QED
    BY <2>1, <2>3 DEF QueueInv, WorkerQueueInv, GoneInv, Live, Writable
<1>5. CASE TakeWorker
  <2> DEFINE q == m_worker_connections
  <2>1. /\ UNCHANGED <<sock, pcMain, dropped, worker_host, requested, events,
                       m_client_connections>>
        /\ alive' => alive
        /\ \/ q # <<>> /\ q' = Tail(q)
           \/ UNCHANGED q
    BY <1>5 DEF TakeWorker, Goto
  <2>2. ClientQueueInv' /\ GoneInv'
    <3>1. UNCHANGED ClientSockets
      BY <2>1 DEF ClientSockets, SocketOf
    <3>2. QED
      BY <2>1, <3>1 DEF QueueInv, ClientQueueInv, GoneInv, Live, Writable
  <2>3. CASE q # <<>> /\ q' = Tail(q)
    <3>1. /\ DOMAIN q = 1 .. Len(q) /\ DOMAIN q' = 1 .. Len(q) - 1 /\ Len(q) \in Nat
          /\ \A k \in 1 .. Len(q) - 1 : q'[k] = q[k + 1]
      BY <1>0, <2>3, HeadTailProperties, LenProperties DEF TypeOK
    <3>2. \A k \in 1 .. Len(q) - 1 : k + 1 \in DOMAIN q /\ q'[k] = q[k + 1]
      BY <3>1
    <3>3. \A k \in DOMAIN q' : Live(q[k])'
      BY <2>1, <3>1, <3>2 DEF QueueInv, WorkerQueueInv, Live, Writable
    <3>4. \A j, k \in DOMAIN q' : q'[j] = q'[k] => j = k
      <4> SUFFICES ASSUME NEW j \in DOMAIN q', NEW k \in DOMAIN q', q'[j] = q'[k]
                   PROVE j = k
        OBVIOUS
      <4>1. j \in 1 .. Len(q) - 1 /\ k \in 1 .. Len(q) - 1
        BY <3>1
      <4>2. j + 1 \in DOMAIN q /\ k + 1 \in DOMAIN q /\ q[j + 1] = q[k + 1]
        BY <3>2, <4>1
      <4>3. j + 1 = k + 1
        BY <4>2 DEF QueueInv, WorkerQueueInv
      <4>4. QED
        BY <3>1, <4>1, <4>3
    <3>5. \A k \in DOMAIN q' : worker_host'[q'[k]] # Blank \/ sock'[q'[k]] # "open"
      BY <2>1, <3>1, <3>2 DEF QueueInv, WorkerQueueInv
    <3>6. WorkerQueueInv'
      BY <3>3, <3>4, <3>5 DEF WorkerQueueInv, Live, Writable
    <3>7. QED
      BY <2>2, <3>6 DEF QueueInv
  <2>4. CASE UNCHANGED q
    BY <2>1, <2>2, <2>4 DEF QueueInv, WorkerQueueInv, Live, Writable
  <2>5. QED
    BY <2>1, <2>3, <2>4
<1>6. QED
  BY <1>2, <1>3, <1>4, <1>5 DEF Loop

-----------------------------------------------------------------------------
LEMMA QueueStep ==
    ASSUME PortsDiffer, AskOnce
    PROVE  MasterInv /\ QueueInv /\ [Next]_vars => QueueInv'
<1> SUFFICES ASSUME MasterInv, QueueInv, [Next]_vars PROVE QueueInv'
  OBVIOUS
<1> USE DEF sockVars, connVars, queueVars, lockVars, loopVars, mainVars, flagVars
<1>0. TypeOK
  BY DEF MasterInv
<1>1. ASSUME NEW x \in Sockets, Accept(x) PROVE QueueInv'
  <2>1. /\ alive /\ sock[x] = "new" /\ sock' = [sock EXCEPT ![x] = "open"]
        /\ UNCHANGED <<pcMain, dropped, worker_host, requested, events, alive,
                       m_client_connections, m_worker_connections>>
    BY <1>1 DEF Accept, MainReady
  <2>2. sock'[x] = "open" /\ \A y \in Sockets : y # x => sock'[y] = sock[y]
    BY <1>0, <2>1 DEF TypeOK
  <2>3. /\ \A y \in Sockets : Live(y) => Live(y)'
        /\ \A y \in Sockets : Live(y) /\ sock'[y] = "open" => sock[y] = "open"
        /\ \A y \in Sockets : sock[y] \in Ended => sock'[y] = sock[y]
    BY <2>1, <2>2 DEF Live, Writable, Ended
  <2>4. WorkerQueueInv' /\ ClientQueueInv'
    BY <1>0, <2>1, <2>3, QuietStep
  <2>5. \A i \in DOMAIN events : events[i].type = "delete" => events[i].conn \in Sockets
    BY <1>0, DeletionsAreOfSockets
  <2>6. GoneInv'
    BY <2>1, <2>3, <2>5 DEF QueueInv, GoneInv, Ended
  <2>7. QED
    BY <2>4, <2>6 DEF QueueInv
<1>2. ASSUME NEW x \in Sockets, InvalidRequest(x) PROVE QueueInv'
  <2>1. /\ WriteAndClose(x, "BYE")
        /\ UNCHANGED <<pcMain, dropped, worker_host, requested, events, alive,
                       m_client_connections, m_worker_connections>>
    BY <1>2 DEF InvalidRequest
  <2>2. /\ \A y \in Sockets : Live(y) => Live(y)'
        /\ \A y \in Sockets : Live(y) /\ sock'[y] = "open" => sock[y] = "open"
        /\ \A y \in Sockets : sock[y] \in Ended => sock'[y] = sock[y]
    BY <1>0, <2>1, WriteAndCloseKeeps DEF Live, Ended
  <2>3. WorkerQueueInv' /\ ClientQueueInv'
    BY <1>0, <2>1, <2>2, QuietStep
  <2>4. \A i \in DOMAIN events : events[i].type = "delete" => events[i].conn \in Sockets
    BY <1>0, DeletionsAreOfSockets
  <2>5. GoneInv'
    BY <2>1, <2>2, <2>4 DEF QueueInv, GoneInv, Ended
  <2>6. QED
    BY <2>3, <2>5 DEF QueueInv
<1>3. ASSUME NEW x \in Sockets, Disconnected(x) PROVE QueueInv'
  BY <1>0, <1>3, DisconnectedStep
<1>4. ASSUME NEW x \in Clients, RequestWorker(x) PROVE QueueInv'
  BY <1>0, <1>4, RequestWorkerStep
<1>5. ASSUME NEW x \in Workers, RequestClient(x) PROVE QueueInv'
  BY <1>0, <1>5, RequestClientStep
<1>6. CASE HandleDisconnect
  BY <1>0, <1>6, HandleDisconnectStep
<1>7. CASE DeliverEvent
  BY <1>0, <1>7, DeliverEventStep
<1>8. CASE Loop
  BY <1>8, LoopStep
<1>9. CASE Stop \/ UNCHANGED vars
  BY <1>9 DEF Stop, vars, QueueInv, WorkerQueueInv, ClientQueueInv, ClientSockets,
              SocketOf, GoneInv, Live, Writable
<1>10. QED
  BY <1>1, <1>2, <1>3, <1>4, <1>5, <1>6, <1>7, <1>8, <1>9 DEF Next, Main

LEMMA QueueInvariant == PortsDiffer /\ AskOnce => (Spec => []QueueInv)
<1> SUFFICES ASSUME PortsDiffer, AskOnce PROVE Spec => []QueueInv
  OBVIOUS
<1>1. Init => QueueInv
  BY DEF Init, QueueInv, WorkerQueueInv, ClientQueueInv, ClientSockets, GoneInv
<1>2. MasterInv /\ QueueInv /\ [Next]_vars => QueueInv'
  BY QueueStep
<1>3. QED
  BY <1>1, <1>2, MasterInvariant, PTL DEF Spec

(* The queues never hold a destroyed socket, nor a disconnected one except *)
(* while its disconnection is being handled: handle_disconnect always      *)
(* finds the right entry before the posted deletion is delivered.          *)
THEOREM QueuesHoldLiveSockets ==
    ASSUME PortsDiffer, AskOnce
    PROVE  Spec => []QueuedSocketsLive
<1>1. MasterInv /\ QueueInv => QueuedSocketsLive
  <2> SUFFICES ASSUME TypeOK, QueueInv PROVE QueuedSocketsLive
    BY DEF MasterInv
  <2>1. \A q \in QueuedClients : Live(SocketOf(q))
    BY DEF QueueInv, ClientQueueInv, ClientSockets, QueuedClients
  <2>2. \A x \in QueuedWorkers : Live(x)
    BY DEF QueueInv, WorkerQueueInv, QueuedWorkers
  <2>3. QED
    BY <2>1, <2>2 DEF QueuedSocketsLive, Live
<1>2. QED
  BY <1>1, MasterInvariant, QueueInvariant, PTL

=============================================================================
