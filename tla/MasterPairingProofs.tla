------------------------ MODULE MasterPairingProofs -------------------------
(***************************************************************************)
(* Theorems about whom run() sends to whom, for any sets of sockets, any   *)
(* ports and any number of requests of one client: no two clients are sent *)
(* to one worker, and no client to a worker that was not told.             *)
(***************************************************************************)
EXTENDS MasterNodeProofs

USE DEF Release, Dequeued, Post, WorkerInfo

-----------------------------------------------------------------------------
(* The inductive invariant.                                               *)

IsClientInfo(e, q) == e.type = "send_client" /\ e.conn = q

InQueue(x) == \E i \in DOMAIN m_worker_connections : m_worker_connections[i] = x
InHand(x) == HoldsWorker /\ w = x
IsPosted(x) == \E i \in DOMAIN events : events[i] = WorkerInfo(x)
IsPaired(x) == \E q \in ClientConns : paired_host[q] = x

(* Where a worker can be once it has offered itself. *)
Used(x) == InQueue(x) \/ InHand(x) \/ IsPosted(x) \/ IsPaired(x)

(* A worker offers itself once, and is then on its way to one client: it   *)
(* cannot offer itself again because it gave its location, or was closed.  *)
WorkerOnceInv ==
    /\ \A x \in Workers : worker_host[x] \in {x, Blank}
    /\ \A x \in Workers : sock[x] = "new" => worker_host[x] = Blank
    /\ \A x \in Workers : Used(x) => worker_host[x] # Blank \/ sock[x] \notin {"new", "open"}
    /\ \A i, j \in DOMAIN m_worker_connections :
           m_worker_connections[i] = m_worker_connections[j] => i = j
    /\ \A x \in Workers : InQueue(x) => ~IsPaired(x)
    /\ (alive /\ pcLoop = "pair") => ~InQueue(w) /\ ~IsPaired(w)
    /\ ~HoldsWorker /\ pcLoop # "emit_client" => w = Blank

(* The request is one of those that were read. *)
Entered(q, read) == q[2] <= read[q[1]]

(* A request is queued, or in run()'s hands, or posted, never two of these. *)
ClientOnceInv ==
    /\ \A x \in Clients : sock[x] = "new" => requested[x] = 0
    /\ \A i \in DOMAIN m_client_connections : Entered(m_client_connections[i], requested)
    /\ HoldsClient => Entered(c, requested)
    /\ \A i \in DOMAIN events : events[i].type = "send_client" => Entered(events[i].conn, requested)
    /\ \A i, j \in DOMAIN m_client_connections :
           m_client_connections[i] = m_client_connections[j] => i = j
    /\ \A i \in DOMAIN m_client_connections :
           /\ HoldsClient => m_client_connections[i] # c
           /\ \A j \in DOMAIN events : ~IsClientInfo(events[j], m_client_connections[i])
    /\ HoldsClient => \A j \in DOMAIN events : ~IsClientInfo(events[j], c)

Told(h) == sock[h] # "new" /\ ("OK" \in sent[h] \/ ~Writable(h))

(* The worker's answer is posted, and the client's is not posted before it. *)
PostedFirst(h, q) ==
    \E j \in DOMAIN events :
        /\ events[j] = WorkerInfo(h)
        /\ \A i \in 1 .. j - 1 : ~IsClientInfo(events[i], q)

ToldInv ==
    /\ \A q \in ClientConns :
           paired_host[q] # Blank =>
               \/ pcLoop = "emit_worker" /\ c = q /\ w = paired_host[q]
               \/ Told(paired_host[q])
               \/ PostedFirst(paired_host[q], q)
    /\ \A x \in Clients : \A h \in sent[x] \cap Workers : Told(h)

PairingInv == WorkerOnceInv /\ WorkerServesOneClient /\ ClientOnceInv /\ ToldInv

-----------------------------------------------------------------------------
(* Sockets.                                                               *)

(* A step never takes a socket back: not to "new", not to "open" once it   *)
(* was closed, not to a connected state; and what was written stays        *)
(* written.                                                                *)
SocketsAge ==
    \A y \in Sockets :
        /\ sock'[y] = "new" => sock[y] = "new"
        /\ sock[y] \notin {"new", "open"} => sock'[y] \notin {"new", "open"}
        /\ Writable(y)' => Writable(y) \/ sock[y] = "new"
        /\ sent[y] \subseteq sent'[y]

LEMMA WritingAges ==
    ASSUME TypeOK, NEW x \in Sockets, NEW line, WriteAndClose(x, line)
    PROVE  SocketsAge /\ sock'[x] # "open"
BY DEF TypeOK, WriteAndClose, Writable, SockStates, SocketsAge

(* The socket that an event is about. *)
LEMMA EventTarget ==
    ASSUME TypeOK
    PROVE  \A i \in DOMAIN events :
               /\ events[i] \in Events
               /\ events[i].type = "send_worker" => events[i].conn \in Workers
               /\ events[i].type = "send_client" => /\ events[i].conn \in ClientConns
                                                    /\ SocketOf(events[i].conn) \in Clients
               /\ events[i].type = "delete" => events[i].conn \in Sockets
<1>1. \A i \in DOMAIN events : events[i] \in Events
  BY LenProperties, ElementOfSeq DEF TypeOK
<1>2. QED
  BY <1>1 DEF Events, WorkerConns, ClientConns, SocketOf

LEMMA HeadEvent ==
    ASSUME TypeOK, events # <<>>
    PROVE  1 \in DOMAIN events /\ Head(events) = events[1]
BY TailAt DEF TypeOK

LEMMA SocketStep == MasterInv /\ [Next]_vars => SocketsAge
<1> SUFFICES ASSUME TypeOK, [Next]_vars PROVE SocketsAge
  BY DEF MasterInv
<1> USE DEF sockVars, connVars, queueVars, lockVars, loopVars, mainVars, flagVars
<1>1. ASSUME UNCHANGED <<sock, sent>> PROVE SocketsAge
  BY <1>1 DEF SocketsAge, Writable
<1>2. ASSUME NEW x \in Sockets, Accept(x) PROVE SocketsAge
  BY <1>2 DEF Accept, SocketsAge, Writable, TypeOK
<1>3. ASSUME NEW x \in Sockets, InvalidRequest(x) PROVE SocketsAge
  BY <1>3, WritingAges DEF InvalidRequest
<1>4. ASSUME NEW x \in Sockets, Disconnected(x) PROVE SocketsAge
  BY <1>4 DEF Disconnected, SocketsAge, Writable, TypeOK
<1>5. ASSUME NEW x \in Workers, RequestClient(x) PROVE SocketsAge
  BY <1>1, <1>5, WritingAges DEF RequestClient, Sockets
<1>6. CASE SendWorkerInfo
  <2>1. Head(events).conn \in Sockets
    BY <1>6, EventTarget, HeadEvent DEF SendWorkerInfo, NextEvent, Sockets
  <2>2. QED
    BY <1>6, <2>1, WritingAges DEF SendWorkerInfo
<1>7. CASE SendClientInfo
  <2>1. SocketOf(Head(events).conn) \in Sockets
    BY <1>7, EventTarget, HeadEvent DEF SendClientInfo, NextEvent, Sockets
  <2>2. QED
    BY <1>7, <2>1, WritingAges DEF SendClientInfo
<1>8. CASE DeleteSocket
  <2>1. PICK x \in Sockets : x = Head(events).conn
    BY <1>8, EventTarget, HeadEvent DEF DeleteSocket, NextEvent
  <2>2. sock' = [sock EXCEPT ![x] = "deleted"] /\ sent' = sent
    BY <1>8, <2>1 DEF DeleteSocket
  <2>3. QED
    BY <2>2 DEF SocketsAge, Writable, TypeOK
<1>9. CASE \/ \E x \in Clients : RequestWorker(x)
           \/ HandleDisconnect \/ Stop \/ Loop \/ UNCHANGED vars
  <2>1. UNCHANGED <<sock, sent>>
    BY <1>9 DEF RequestWorker, HandleDisconnect, Stop, Loop, TestContinue, LockClient,
       LockWorkerAndCheck, TakeClient, LockWorkerAgain, TakeWorker, Pair, EmitWorker,
       EmitClient, vars
  <2>2. QED
    BY <1>1, <2>1
<1>10. QED
  BY <1>2, <1>3, <1>4, <1>5, <1>6, <1>7, <1>8, <1>9 DEF Next, Main, DeliverEvent

(* The main thread posts deletions only, and leaves run() where it is. *)
NoAnswerPosted ==
    \A j \in DOMAIN events' :
        events'[j].type = "delete" \/ \E i \in DOMAIN events : events'[j] = events[i]

LEMMA MainPostsNoAnswer ==
    ASSUME TypeOK, Main \/ UNCHANGED vars
    PROVE  NoAnswerPosted /\ UNCHANGED loopVars /\ (alive' => alive)
<1> USE DEF sockVars, connVars, queueVars, lockVars, loopVars, mainVars, flagVars
<1>1. UNCHANGED loopVars /\ (alive' => alive)
  <2>1. Main => UNCHANGED loopVars /\ alive
    BY DEF Main, Accept, InvalidRequest, Disconnected, RequestWorker, RequestClient,
       HandleDisconnect, DeliverEvent, SendWorkerInfo, SendClientInfo, DeleteSocket, Stop,
       NextEvent, MainReady
  <2>2. UNCHANGED vars => UNCHANGED loopVars /\ (alive' => alive)
    BY DEF vars
  <2>3. QED
    BY <2>1, <2>2
<1>2. CASE events' = events
  BY <1>1, <1>2 DEF NoAnswerPosted
<1>3. CASE events # <<>> /\ events' = Tail(events)
  BY <1>1, <1>3, TailAt DEF TypeOK, NoAnswerPosted
<1>4. ASSUME NEW x \in Sockets, Disconnected(x) PROVE NoAnswerPosted
  <2>1. [type |-> "delete", conn |-> x] \in Events
    BY DEF Events
  <2>2. QED
    BY <1>4, <2>1, AppendAt DEF Disconnected, TypeOK, NoAnswerPosted
<1>5. CASE UNCHANGED vars \/ Stop \/ HandleDisconnect
  BY <1>1, <1>2, <1>5 DEF vars, Stop, HandleDisconnect
<1>6. CASE DeliverEvent
  BY <1>1, <1>3, <1>6 DEF DeliverEvent, SendWorkerInfo, SendClientInfo, DeleteSocket, NextEvent
<1>7. ASSUME NEW x \in Sockets, Accept(x) \/ InvalidRequest(x) PROVE NoAnswerPosted
  BY <1>1, <1>2, <1>7 DEF Accept, InvalidRequest
<1>8. CASE \/ \E x \in Clients : RequestWorker(x)
           \/ \E x \in Workers : RequestClient(x)
  BY <1>1, <1>2, <1>8 DEF RequestWorker, RequestClient
<1>9. QED
  BY <1>1, <1>4, <1>5, <1>6, <1>7, <1>8 DEF Main

-----------------------------------------------------------------------------
(* Workers.                                                               *)

(* A used worker's socket was accepted. *)
LEMMA UsedIsAccepted ==
    ASSUME WorkerOnceInv, NEW x \in Workers, Used(x)
    PROVE  sock[x] # "new"
BY DEF WorkerOnceInv

(* Steps that leave the worker queue and the pairs as they are, and put no *)
(* worker anywhere.                                                        *)
LEMMA WorkerQuiet ==
    ASSUME WorkerOnceInv, WorkerServesOneClient, SocketsAge,
           UNCHANGED <<worker_host, paired_host, m_worker_connections>>,
           \A x \in Workers : InHand(x)' => InHand(x),
           \A x \in Workers : IsPosted(x)' => IsPosted(x) \/ InHand(x),
           (alive /\ pcLoop = "pair")' => alive /\ pcLoop = "pair" /\ w' = w,
           (~HoldsWorker /\ pcLoop # "emit_client")' => w' = Blank
    PROVE  WorkerOnceInv' /\ WorkerServesOneClient'
<1>1. WorkerServesOneClient'
  BY DEF WorkerServesOneClient
<1>2. \A x \in Workers : x \in Sockets
  BY DEF Sockets
<1>3. \A x \in Workers : Used(x)' => Used(x)
  BY DEF Used, InQueue, IsPaired
<1>4. QED
  BY <1>1, <1>2, <1>3 DEF WorkerOnceInv, SocketsAge, InQueue, IsPaired

(* A worker offers itself: it was nowhere before, because a used worker    *)
(* has given its location or is closed.                                    *)
LEMMA WorkerOffers ==
    ASSUME TypeOK, WorkerOnceInv, WorkerServesOneClient, SocketsAge,
           NEW x \in Workers, RequestClient(x)
    PROVE  WorkerOnceInv' /\ WorkerServesOneClient'
<1> USE DEF sockVars, connVars, queueVars, lockVars, loopVars, mainVars, flagVars
<1> DEFINE q == m_worker_connections
           n == Len(q)
<1>1. sock[x] = "open" /\ worker_host[x] = Blank /\ ~Used(x) /\ x \in Sockets /\ x # Blank
  BY SocketAssumption DEF RequestClient, WorkerOnceInv, Sockets
<1>2. UNCHANGED <<paired_host, events, pcLoop, w, alive>>
  BY DEF RequestClient
<1>3. /\ \A y \in Workers : worker_host'[y] \in {y, Blank}
      /\ \A y \in Workers : y # x => worker_host'[y] = worker_host[y]
      /\ worker_host'[x] # Blank \/ sock'[x] \notin {"new", "open"}
      /\ \A y \in Sockets : y # x => sock'[y] = sock[y]
      /\ sock'[x] # "new"
  <2>1. CASE worker_host' = [worker_host EXCEPT ![x] = x] /\ UNCHANGED sock
    BY <1>1, <2>1 DEF TypeOK, WorkerOnceInv, WorkerConns
  <2>2. CASE UNCHANGED worker_host /\ WriteAndClose(x, "BYE")
    BY <1>1, <2>2 DEF TypeOK, WorkerOnceInv, WriteAndClose, Writable
  <2>3. QED
    BY <2>1, <2>2 DEF RequestClient
<1>4. /\ DOMAIN q = 1 .. n /\ n \in Nat /\ DOMAIN q' = 1 .. n + 1 /\ q'[n + 1] = x
      /\ \A i \in 1 .. n : q'[i] = q[i]
      /\ \A i \in 1 .. n + 1 : i \in 1 .. n \/ i = n + 1
  BY AppendAt DEF TypeOK, RequestClient, WorkerConns
<1>5. \A i \in 1 .. n : q[i] # x
  BY <1>1, <1>4 DEF Used, InQueue
<1>6. \A i, j \in DOMAIN q' : q'[i] = q'[j] => i = j
  BY <1>4, <1>5 DEF WorkerOnceInv
<1>7. \A y : InQueue(y)' <=> (InQueue(y) \/ y = x)
  BY <1>4 DEF InQueue
<1>8. \A y : (IsPaired(y)' <=> IsPaired(y)) /\ (InHand(y)' <=> InHand(y)) /\ (IsPosted(y)' <=> IsPosted(y))
  BY <1>2 DEF IsPaired, InHand, IsPosted, HoldsWorker
<1>9. \A y \in Workers : Used(y)' <=> (Used(y) \/ y = x)
  BY <1>7, <1>8 DEF Used
<1>10. (alive /\ pcLoop = "pair")' => ~InQueue(w)' /\ ~IsPaired(w)'
  BY <1>1, <1>2, <1>7, <1>8 DEF WorkerOnceInv, Used, InHand, HoldsWorker
<1>11. \A y \in Workers : InQueue(y)' => ~IsPaired(y)'
  BY <1>1, <1>7, <1>8 DEF WorkerOnceInv, Used
<1>12. \A y \in Workers : y \in Sockets
  BY DEF Sockets
<1>13. /\ \A y \in Workers : sock'[y] = "new" => worker_host'[y] = Blank
       /\ \A y \in Workers : Used(y)' => worker_host'[y] # Blank \/ sock'[y] \notin {"new", "open"}
  BY <1>3, <1>9, <1>12 DEF WorkerOnceInv
<1>14. WorkerServesOneClient'
  BY <1>2 DEF WorkerServesOneClient
<1>15. (~HoldsWorker /\ pcLoop # "emit_client" => w = Blank)'
  BY <1>2 DEF WorkerOnceInv, HoldsWorker
<1>16. QED
  BY <1>3, <1>6, <1>10, <1>11, <1>13, <1>14, <1>15 DEF WorkerOnceInv

(* Entries are taken out of the worker queue, at handle_disconnect or by   *)
(* run(): what is left was there, once.                                    *)
LEMMA WorkerQueueThinned ==
    ASSUME WorkerOnceInv, WorkerServesOneClient,
           UNCHANGED <<sock, worker_host, paired_host, events>>,
           \A k \in DOMAIN m_worker_connections' : InQueue(m_worker_connections'[k]),
           \A i, j \in DOMAIN m_worker_connections' :
               m_worker_connections'[i] = m_worker_connections'[j] => i = j,
           \A x \in Workers : InHand(x)' => InHand(x) \/ InQueue(x),
           (alive /\ pcLoop = "pair")' => ~InQueue(w)' /\ ~IsPaired(w)',
           (~HoldsWorker /\ pcLoop # "emit_client")' => w' = Blank
    PROVE  WorkerOnceInv' /\ WorkerServesOneClient'
<1>1. \A x : InQueue(x)' => InQueue(x)
  BY DEF InQueue
<1>2. \A x : IsPaired(x)' <=> IsPaired(x)
  BY DEF IsPaired
<1>3. \A x \in Workers : Used(x)' => Used(x)
  BY <1>1, <1>2 DEF Used, IsPosted
<1>4. WorkerServesOneClient'
  BY DEF WorkerServesOneClient
<1>5. QED
  BY <1>1, <1>2, <1>3, <1>4 DEF WorkerOnceInv

LEMMA WorkerDropped ==
    ASSUME TypeOK, WorkerOnceInv, WorkerServesOneClient, HandleDisconnect
    PROVE  WorkerOnceInv' /\ WorkerServesOneClient'
<1> USE DEF sockVars, connVars, queueVars, lockVars, loopVars, mainVars, flagVars
<1> DEFINE q == m_worker_connections
<1>1. UNCHANGED <<sock, worker_host, paired_host, events, pcLoop, w>> /\ alive
  BY DEF HandleDisconnect
<1>2. /\ \A k \in DOMAIN q' : \E i \in DOMAIN q : q'[k] = q[i]
      /\ \A i, j \in DOMAIN q' : q'[i] = q'[j] => i = j
  <2>1. q \in Seq(WorkerConns) /\ \A i, j \in DOMAIN q : q[i] = q[j] => i = j
    BY DEF TypeOK, WorkerOnceInv
  <2>2. CASE DropWorker
    <3>1. PICK i \in DOMAIN q : q' = Without(q, i)
      BY <2>2 DEF DropWorker
    <3> HIDE DEF q
    <3>2. QED
      BY <2>1, <3>1, WithoutThins
  <2>3. CASE UNCHANGED q
    BY <2>1, <2>3
  <2>4. QED
    BY <2>2, <2>3 DEF HandleDisconnect, DropClient, DropNothing
<1>3. \A k \in DOMAIN q' : InQueue(q'[k])
  BY <1>2 DEF InQueue
<1>4. \A x : (InHand(x)' <=> InHand(x)) /\ (IsPaired(x)' <=> IsPaired(x)) /\ (InQueue(x)' => InQueue(x))
  BY <1>1, <1>2 DEF InHand, HoldsWorker, IsPaired, InQueue
<1>5. (alive /\ pcLoop = "pair")' => ~InQueue(w)' /\ ~IsPaired(w)'
  BY <1>1, <1>4 DEF WorkerOnceInv
<1>6. (~HoldsWorker /\ pcLoop # "emit_client")' => w' = Blank
  BY <1>1 DEF WorkerOnceInv, HoldsWorker
<1>7. QED
  BY <1>1, <1>2, <1>3, <1>4, <1>5, <1>6, WorkerQueueThinned

(* run() takes the first worker: it is in the queue no more. *)
LEMMA WorkerTaken ==
    ASSUME TypeOK, WorkerOnceInv, WorkerServesOneClient, TakeWorker
    PROVE  WorkerOnceInv' /\ WorkerServesOneClient'
<1> USE DEF sockVars, connVars, queueVars, lockVars, loopVars, mainVars, flagVars
<1> DEFINE q == m_worker_connections
<1>1. /\ UNCHANGED <<sock, worker_host, paired_host, events>>
      /\ alive /\ pcLoop = "take_worker" /\ pcLoop' = "pair" /\ w = Blank
  BY DEF TakeWorker, Goto, WorkerOnceInv, HoldsWorker
<1>2. \A i, j \in DOMAIN q : q[i] = q[j] => i = j
  BY DEF WorkerOnceInv
<1>3. CASE q # <<>>
  <2>1. w' = Head(q) /\ q' = Tail(q)
    BY <1>3 DEF TakeWorker
  <2>2. /\ 1 \in DOMAIN q /\ Head(q) = q[1]
        /\ \A k \in DOMAIN q' : k + 1 \in DOMAIN q /\ q'[k] = q[k + 1] /\ k + 1 # 1
        /\ \A j, k \in DOMAIN q' : j + 1 = k + 1 => j = k
    BY <1>3, <2>1, TailAt DEF TypeOK
  <2>3. InQueue(w') /\ w' \in Workers
    BY <2>1, <2>2, <1>3, HeadTailProperties DEF InQueue, TypeOK, WorkerConns
  <2>4. \A k \in DOMAIN q' : InQueue(q'[k]) /\ q'[k] # w'
    BY <1>2, <2>1, <2>2 DEF InQueue
  <2>5. \A i, j \in DOMAIN q' : q'[i] = q'[j] => i = j
    BY <1>2, <2>2
  <2>6. ~InQueue(w)' /\ ~IsPaired(w)'
    <3>1. ~InQueue(w)'
      BY <2>4 DEF InQueue
    <3>2. ~IsPaired(w')
      BY <2>3 DEF WorkerOnceInv
    <3>3. QED
      BY <1>1, <3>1, <3>2 DEF IsPaired
  <2>7. \A x \in Workers : InHand(x)' => InQueue(x)
    BY <2>3 DEF InHand
  <2>8. QED
    BY <1>1, <2>4, <2>5, <2>6, <2>7, WorkerQueueThinned DEF HoldsWorker
<1>4. CASE q = <<>>
  <2>1. ~alive' /\ w' = Blank /\ UNCHANGED q
    BY <1>1, <1>4 DEF TakeWorker
  <2>2. \A x \in Workers : ~InHand(x)'
    BY <2>1, SocketAssumption DEF InHand, Sockets
  <2>3. \A k \in DOMAIN q' : InQueue(q'[k])
    BY <2>1 DEF InQueue
  <2>4. QED
    BY <1>1, <1>2, <2>1, <2>2, <2>3, WorkerQueueThinned DEF HoldsWorker
<1>5. QED
  BY <1>3, <1>4

(* run() sends the client to the worker it took: nobody was sent there. *)
LEMMA WorkerPaired ==
    ASSUME TypeOK, HandInv, WorkerOnceInv, WorkerServesOneClient, Pair
    PROVE  WorkerOnceInv' /\ WorkerServesOneClient'
<1> USE DEF sockVars, connVars, queueVars, lockVars, loopVars, mainVars, flagVars
<1>1. /\ UNCHANGED <<sock, worker_host, m_worker_connections, events, w, c>>
      /\ alive /\ pcLoop = "pair" /\ pcLoop' = "emit_worker"
      /\ paired_host' = [paired_host EXCEPT ![c] = worker_host[w]]
      /\ c \in ClientConns /\ w \in Workers
  BY DEF Pair, Goto, HandInv, HoldsWorker, HoldsClient, WorkerConns
<1>2. worker_host[w] \in {w, Blank} /\ ~InQueue(w) /\ ~IsPaired(w) /\ w # Blank
  BY <1>1, SocketAssumption DEF WorkerOnceInv, Sockets
<1>3. /\ paired_host'[c] = worker_host[w]
      /\ \A q \in ClientConns : q # c => paired_host'[q] = paired_host[q]
      /\ \A q \in ClientConns : paired_host[q] # w
  BY <1>1, <1>2 DEF TypeOK, IsPaired
<1>4. WorkerServesOneClient'
  <2> SUFFICES ASSUME NEW p \in ClientConns, NEW q \in ClientConns, p # q,
                      paired_host'[p] = paired_host'[q]
               PROVE  paired_host'[p] = Blank
    BY DEF WorkerServesOneClient
  <2>1. CASE p # c /\ q # c
    BY <1>3, <2>1 DEF WorkerServesOneClient
  <2>2. CASE p = c
    BY <1>2, <1>3, <2>2
  <2>3. CASE q = c
    BY <1>2, <1>3, <2>3
  <2>4. QED
    BY <2>1, <2>2, <2>3
<1>5. \A x \in Workers : IsPaired(x)' => IsPaired(x) \/ x = w
  BY <1>2, <1>3, SocketAssumption DEF IsPaired, Sockets
<1>6. \A x \in Workers : Used(x)' => Used(x)
  BY <1>1, <1>5 DEF Used, InQueue, IsPosted, InHand, HoldsWorker
<1>7. \A x \in Workers : InQueue(x)' => ~IsPaired(x)'
  BY <1>1, <1>2, <1>5 DEF WorkerOnceInv, InQueue
<1>8. QED
  BY <1>1, <1>4, <1>6, <1>7 DEF WorkerOnceInv, HoldsWorker

LEMMA WorkerStep ==
    MasterInv /\ WorkerOnceInv /\ WorkerServesOneClient /\ [Next]_vars
        => WorkerOnceInv' /\ WorkerServesOneClient'
<1> SUFFICES ASSUME MasterInv, WorkerOnceInv, WorkerServesOneClient, [Next]_vars
             PROVE  WorkerOnceInv' /\ WorkerServesOneClient'
  OBVIOUS
<1> USE DEF sockVars, connVars, queueVars, lockVars, loopVars, mainVars, flagVars
<1>0. TypeOK /\ HandInv /\ SocketsAge
  BY SocketStep DEF MasterInv
<1>1. CASE \/ \E x \in Sockets : Accept(x) \/ InvalidRequest(x) \/ Disconnected(x)
           \/ \E x \in Clients : RequestWorker(x)
           \/ DeliverEvent \/ Stop \/ UNCHANGED vars
  <2>1. UNCHANGED <<worker_host, paired_host, m_worker_connections>>
    BY <1>1 DEF Accept, InvalidRequest, Disconnected, RequestWorker, DeliverEvent,
       SendWorkerInfo, SendClientInfo, DeleteSocket, Stop, vars
  <2>2. NoAnswerPosted /\ UNCHANGED <<pcLoop, w>> /\ (alive' => alive)
    BY <1>0, <1>1, MainPostsNoAnswer DEF Main
  <2>3. \A x \in Workers : (IsPosted(x)' => IsPosted(x)) /\ (InHand(x)' => InHand(x))
    BY <2>2 DEF NoAnswerPosted, IsPosted, InHand, HoldsWorker
  <2>4. (~HoldsWorker /\ pcLoop # "emit_client")' => w' = Blank
    BY <2>2 DEF WorkerOnceInv, HoldsWorker
  <2>5. QED
    BY <1>0, <2>1, <2>2, <2>3, <2>4, WorkerQuiet
<1>2. ASSUME NEW x \in Workers, RequestClient(x)
      PROVE  WorkerOnceInv' /\ WorkerServesOneClient'
  BY <1>0, <1>2, WorkerOffers
<1>3. CASE HandleDisconnect
  BY <1>0, <1>3, WorkerDropped
<1>4. CASE TakeWorker
  BY <1>0, <1>4, WorkerTaken
<1>5. CASE Pair
  BY <1>0, <1>5, WorkerPaired
<1>6. CASE TestContinue \/ LockClient \/ LockWorkerAndCheck \/ TakeClient \/ LockWorkerAgain
  <2>1. /\ UNCHANGED <<worker_host, paired_host, m_worker_connections, events, w, alive>>
        /\ pcLoop \notin {"pair", "emit_worker", "emit_client"}
        /\ pcLoop' \notin {"pair", "emit_worker", "emit_client"}
    BY <1>6 DEF TestContinue, LockClient, LockWorkerAndCheck, TakeClient, LockWorkerAgain, Goto
  <2>2. \A x \in Workers : (IsPosted(x)' => IsPosted(x)) /\ ~InHand(x)'
    BY <2>1 DEF IsPosted, InHand, HoldsWorker
  <2>3. w' = Blank
    BY <2>1 DEF WorkerOnceInv, HoldsWorker
  <2>4. QED
    BY <1>0, <2>1, <2>2, <2>3, WorkerQuiet
<1>7. CASE EmitWorker
  <2>1. /\ UNCHANGED <<worker_host, paired_host, m_worker_connections, w, alive>>
        /\ pcLoop = "emit_worker" /\ pcLoop' = "emit_client" /\ w \in WorkerConns
        /\ events' = Append(events, WorkerInfo(w))
    BY <1>0, <1>7 DEF EmitWorker, Goto, HandInv, HoldsWorker
  <2>2. \A j \in DOMAIN events' :
            events'[j] = WorkerInfo(w) \/ \E i \in DOMAIN events : events'[j] = events[i]
    <3>1. WorkerInfo(w) \in Events
      BY <2>1 DEF Events
    <3>2. QED
      BY <1>0, <2>1, <3>1, AppendAt DEF TypeOK
  <2>3. \A x \in Workers : (IsPosted(x)' => IsPosted(x) \/ InHand(x)) /\ ~InHand(x)'
    BY <2>1, <2>2 DEF IsPosted, InHand, HoldsWorker
  <2>4. QED
    BY <1>0, <2>1, <2>3, WorkerQuiet
<1>8. CASE EmitClient
  <2>1. /\ UNCHANGED <<worker_host, paired_host, m_worker_connections, alive>>
        /\ pcLoop = "emit_client" /\ pcLoop' = "test" /\ c \in ClientConns /\ w' = Blank
        /\ events' = Append(events, [type |-> "send_client", conn |-> c])
    BY <1>0, <1>8 DEF EmitClient, Goto, HandInv, HoldsClient
  <2>2. \A j \in DOMAIN events' :
            \/ events'[j].type = "send_client"
            \/ \E i \in DOMAIN events : events'[j] = events[i]
    <3>1. [type |-> "send_client", conn |-> c] \in Events
      BY <2>1 DEF Events
    <3>2. QED
      BY <1>0, <2>1, <3>1, AppendAt DEF TypeOK
  <2>3. \A x \in Workers : (IsPosted(x)' => IsPosted(x)) /\ ~InHand(x)'
    BY <2>1, <2>2 DEF IsPosted, InHand, HoldsWorker
  <2>4. QED
    BY <1>0, <2>1, <2>3, WorkerQuiet
<1>9. QED
  BY <1>1, <1>2, <1>3, <1>4, <1>5, <1>6, <1>7, <1>8 DEF Next, Main, Loop

-----------------------------------------------------------------------------
(* Requests.                                                              *)

(* Steps that leave the requests where they are. *)
LEMMA ClientQuiet ==
    ASSUME TypeOK, ClientOnceInv, SocketsAge,
           UNCHANGED <<requested, m_client_connections>>,
           HoldsClient' => HoldsClient /\ c' = c,
           NoAnswerPosted \/ \E x \in Workers : events' = Append(events, WorkerInfo(x))
    PROVE  ClientOnceInv'
<1>1. \A j \in DOMAIN events' : events'[j].type = "send_client" =>
          \E i \in DOMAIN events : events'[j] = events[i]
  <2>1. CASE NoAnswerPosted
    BY <2>1 DEF NoAnswerPosted
  <2>2. ASSUME NEW x \in Workers, events' = Append(events, WorkerInfo(x))
        PROVE  \A j \in DOMAIN events' : events'[j].type = "send_client" =>
                   \E i \in DOMAIN events : events'[j] = events[i]
    <3>1. WorkerInfo(x) \in Events
      BY DEF Events, WorkerConns
    <3>2. QED
      BY <2>2, <3>1, AppendAt DEF TypeOK
  <2>3. QED
    BY <2>1, <2>2
<1>2. \A q : (\A i \in DOMAIN events : ~IsClientInfo(events[i], q))
                => \A j \in DOMAIN events' : ~IsClientInfo(events'[j], q)
  BY <1>1 DEF IsClientInfo
<1>3. \A x \in Clients : x \in Sockets
  BY DEF Sockets
<1>4. \A x \in Clients : sock'[x] = "new" => requested'[x] = 0
  BY <1>3 DEF ClientOnceInv, SocketsAge
<1>5. \A j \in DOMAIN events' : events'[j].type = "send_client" => Entered(events'[j].conn, requested')
  BY <1>1 DEF ClientOnceInv, Entered
<1>6. HoldsClient' => Entered(c', requested')
  BY DEF ClientOnceInv, Entered
<1>7. \A i \in DOMAIN m_client_connections : Entered(m_client_connections[i], requested')
  BY DEF ClientOnceInv, Entered
<1>8. \A i \in DOMAIN m_client_connections :
          /\ HoldsClient' => m_client_connections[i] # c'
          /\ \A j \in DOMAIN events' : ~IsClientInfo(events'[j], m_client_connections[i])
  BY <1>2 DEF ClientOnceInv
<1>9. HoldsClient' => \A j \in DOMAIN events' : ~IsClientInfo(events'[j], c')
  BY <1>2 DEF ClientOnceInv
<1>10. QED
  BY <1>4, <1>5, <1>6, <1>7, <1>8, <1>9 DEF ClientOnceInv, IsClientInfo, Entered

(* A new request: its number is one that no earlier request has. *)
LEMMA ClientAsks ==
    ASSUME TypeOK, HandInv, ClientOnceInv, NEW x \in Clients, RequestWorker(x)
    PROVE  ClientOnceInv'
<1> USE DEF sockVars, connVars, queueVars, lockVars, loopVars, mainVars, flagVars
<1> DEFINE q == m_client_connections
           n == Len(q)
           r == <<x, requested[x] + 1>>
<1>1. /\ UNCHANGED <<sock, events, pcLoop, c>> /\ sock[x] = "open" /\ x \in Sockets
      /\ requested[x] \in Nat /\ requested'[x] = requested[x] + 1
      /\ \A y \in Clients : y # x => requested'[y] = requested[y]
  BY DEF RequestWorker, TypeOK, Sockets
<1>2. r \in ClientConns
  BY BoundAssumption DEF RequestWorker, ClientConns, TypeOK
<1>3. /\ DOMAIN q = 1 .. n /\ n \in Nat /\ DOMAIN q' = 1 .. n + 1 /\ q'[n + 1] = r
      /\ \A i \in 1 .. n : q'[i] = q[i] /\ q[i] \in ClientConns
      /\ \A i \in 1 .. n + 1 : i \in 1 .. n \/ i = n + 1
  BY <1>2, AppendAt, ElementOfSeq DEF TypeOK, RequestWorker
<1>4. \A p \in ClientConns : Entered(p, requested) => Entered(p, requested') /\ p # r
  <2> SUFFICES ASSUME NEW y \in Clients, NEW k \in 1 .. MaxRequests, k <= requested[y]
               PROVE  k <= requested'[y] /\ <<y, k>> # r
    BY DEF ClientConns, Entered
  <2>1. CASE y = x
    BY <1>1, <2>1, BoundAssumption
  <2>2. CASE y # x
    BY <1>1, <2>2
  <2>3. QED
    BY <2>1, <2>2
<1>5. Entered(r, requested')
  BY <1>1 DEF Entered
<1>6. \A i \in 1 .. n : Entered(q[i], requested) /\ q[i] # r
  BY <1>3, <1>4 DEF ClientOnceInv
<1>7. HoldsClient => c \in ClientConns /\ c # r /\ Entered(c', requested')
  <2>1. HoldsClient => c \in ClientConns /\ Entered(c, requested)
    BY DEF ClientOnceInv, HandInv
  <2>2. QED
    BY <1>1, <1>4, <2>1
<1>8. \A j \in DOMAIN events : events[j].type = "send_client" =>
          events[j].conn # r /\ Entered(events[j].conn, requested')
  BY <1>4, EventTarget DEF ClientOnceInv
<1>9. \A y \in Clients : sock'[y] = "new" => requested'[y] = 0
  BY <1>1 DEF ClientOnceInv
<1>10. \A i \in DOMAIN q' : Entered(q'[i], requested')
  <2>1. \A i \in 1 .. n : Entered(q[i], requested')
    BY <1>3, <1>4, <1>6
  <2>2. QED
    BY <1>3, <1>5, <2>1 DEF Entered
<1>11. \A i, j \in DOMAIN q' : q'[i] = q'[j] => i = j
  BY <1>3, <1>6 DEF ClientOnceInv
<1>12. \A i \in DOMAIN q' : /\ HoldsClient' => q'[i] # c'
                            /\ \A j \in DOMAIN events' : ~IsClientInfo(events'[j], q'[i])
  <2>1. ASSUME NEW i \in DOMAIN q'
        PROVE  q'[i] = r \/ (i \in DOMAIN q /\ q'[i] = q[i])
    BY <1>3
  <2>2. ASSUME NEW i \in DOMAIN q'
        PROVE  HoldsClient' => q'[i] # c'
    <3>1. CASE q'[i] = r
      BY <1>1, <1>7, <3>1 DEF HoldsClient
    <3>2. CASE i \in DOMAIN q /\ q'[i] = q[i]
      BY <1>1, <3>2 DEF ClientOnceInv, HoldsClient
    <3>3. QED
      BY <2>1, <3>1, <3>2
  <2>3. ASSUME NEW i \in DOMAIN q', NEW j \in DOMAIN events'
        PROVE  ~IsClientInfo(events'[j], q'[i])
    <3>1. CASE q'[i] = r
      BY <1>1, <1>8, <3>1 DEF IsClientInfo
    <3>2. CASE i \in DOMAIN q /\ q'[i] = q[i]
      BY <1>1, <3>2 DEF ClientOnceInv, IsClientInfo
    <3>3. QED
      BY <2>1, <3>1, <3>2
  <2>4. QED
    BY <2>2, <2>3
<1>13. /\ HoldsClient' => Entered(c', requested')
       /\ \A j \in DOMAIN events' : events'[j].type = "send_client" => Entered(events'[j].conn, requested')
       /\ HoldsClient' => \A j \in DOMAIN events' : ~IsClientInfo(events'[j], c')
  BY <1>1, <1>7, <1>8 DEF ClientOnceInv, HoldsClient, Entered, IsClientInfo
<1> HIDE DEF q
<1>14. QED
  BY <1>9, <1>10, <1>11, <1>12, <1>13 DEF ClientOnceInv, q

(* handle_disconnect takes a request out. *)
LEMMA ClientDropped ==
    ASSUME TypeOK, ClientOnceInv, HandleDisconnect
    PROVE  ClientOnceInv'
<1> USE DEF sockVars, connVars, queueVars, lockVars, loopVars, mainVars, flagVars
<1> DEFINE q == m_client_connections
<1>1. UNCHANGED <<sock, requested, events, pcLoop, c>>
  BY DEF HandleDisconnect
<1>2. /\ \A k \in DOMAIN q' : \E i \in DOMAIN q : q'[k] = q[i]
      /\ \A i, j \in DOMAIN q' : q'[i] = q'[j] => i = j
  <2>1. q \in Seq(ClientConns) /\ \A i, j \in DOMAIN q : q[i] = q[j] => i = j
    BY DEF TypeOK, ClientOnceInv
  <2>2. CASE DropClient
    <3>1. PICK i \in DOMAIN q : q' = Without(q, i)
      BY <2>2 DEF DropClient
    <3> HIDE DEF q
    <3>2. QED
      BY <2>1, <3>1, WithoutThins
  <2>3. CASE UNCHANGED q
    BY <2>1, <2>3
  <2>4. QED
    BY <2>2, <2>3 DEF HandleDisconnect, DropWorker, DropNothing
<1>3. QED
  BY <1>1, <1>2 DEF ClientOnceInv, HoldsClient, Entered, IsClientInfo

(* run() takes the first request. *)
LEMMA ClientTaken ==
    ASSUME TypeOK, SemaInv, ClientOnceInv, TakeClient
    PROVE  ClientOnceInv'
<1> USE DEF sockVars, connVars, queueVars, lockVars, loopVars, mainVars, flagVars
<1> DEFINE q == m_client_connections
<1>1. /\ UNCHANGED <<sock, requested, events>> /\ q # <<>>
      /\ c' = Head(q) /\ q' = Tail(q)
      /\ pcLoop = "take_client" /\ pcLoop' = "lock_worker_again"
  BY DEF TakeClient, Goto, SemaInv
<1>2. /\ 1 \in DOMAIN q /\ c' = q[1]
      /\ \A k \in DOMAIN q' : k + 1 \in DOMAIN q /\ q'[k] = q[k + 1] /\ k + 1 # 1
      /\ \A j, k \in DOMAIN q' : j + 1 = k + 1 => j = k
  BY <1>1, TailAt DEF TypeOK
<1>3. \A i, j \in DOMAIN q' : q'[i] = q'[j] => i = j
  BY <1>2 DEF ClientOnceInv
<1>4. \A i \in DOMAIN q' : q'[i] # c'
  BY <1>2 DEF ClientOnceInv
<1>5. QED
  BY <1>1, <1>2, <1>3, <1>4 DEF ClientOnceInv, HoldsClient, Entered, IsClientInfo

(* The request's answer is posted, and run() lets go of it. *)
LEMMA ClientPosted ==
    ASSUME TypeOK, HandInv, ClientOnceInv, EmitClient
    PROVE  ClientOnceInv'
<1> USE DEF sockVars, connVars, queueVars, lockVars, loopVars, mainVars, flagVars
<1> DEFINE q == m_client_connections
           e == [type |-> "send_client", conn |-> c]
<1>1. /\ UNCHANGED <<sock, requested, q>>
      /\ HoldsClient /\ ~HoldsClient' /\ c \in ClientConns /\ events' = Append(events, e)
  BY DEF EmitClient, Goto, HoldsClient, HandInv
<1>2. e \in Events
  BY <1>1 DEF Events
<1>3. \A j \in DOMAIN events' :
          IF j \in DOMAIN events THEN events'[j] = events[j] ELSE events'[j] = e
  BY <1>1, <1>2, AppendAt DEF TypeOK
<1>4. \A j \in DOMAIN events' : events'[j].type = "send_client" => Entered(events'[j].conn, requested')
  BY <1>1, <1>3 DEF ClientOnceInv, Entered
<1>5. \A i \in DOMAIN q : \A j \in DOMAIN events' : ~IsClientInfo(events'[j], q[i])
  BY <1>1, <1>3 DEF ClientOnceInv, IsClientInfo
<1>6. QED
  BY <1>1, <1>4, <1>5 DEF ClientOnceInv, Entered, IsClientInfo

LEMMA ClientStep == MasterInv /\ ClientOnceInv /\ [Next]_vars => ClientOnceInv'
<1> SUFFICES ASSUME MasterInv, ClientOnceInv, [Next]_vars PROVE ClientOnceInv'
  OBVIOUS
<1> USE DEF sockVars, connVars, queueVars, lockVars, loopVars, mainVars, flagVars
<1>0. TypeOK /\ HandInv /\ SemaInv /\ SocketsAge
  BY SocketStep DEF MasterInv
<1>1. CASE \/ \E x \in Sockets : Accept(x) \/ InvalidRequest(x) \/ Disconnected(x)
           \/ \E x \in Workers : RequestClient(x)
           \/ DeliverEvent \/ Stop \/ UNCHANGED vars
  <2>1. UNCHANGED <<requested, m_client_connections>>
    BY <1>1 DEF Accept, InvalidRequest, Disconnected, RequestClient, DeliverEvent,
       SendWorkerInfo, SendClientInfo, DeleteSocket, Stop, vars
  <2>2. NoAnswerPosted /\ UNCHANGED <<pcLoop, c>>
    BY <1>0, <1>1, MainPostsNoAnswer DEF Main
  <2>3. HoldsClient' => HoldsClient /\ c' = c
    BY <2>2 DEF HoldsClient
  <2>4. QED
    BY <1>0, <2>1, <2>2, <2>3, ClientQuiet
<1>2. ASSUME NEW x \in Clients, RequestWorker(x) PROVE ClientOnceInv'
  BY <1>0, <1>2, ClientAsks
<1>3. CASE HandleDisconnect
  BY <1>0, <1>3, ClientDropped
<1>4. CASE TakeClient
  BY <1>0, <1>4, ClientTaken
<1>5. CASE TestContinue \/ LockClient \/ LockWorkerAndCheck \/ LockWorkerAgain
           \/ TakeWorker \/ Pair
  <2>1. /\ UNCHANGED <<requested, m_client_connections, events>>
        /\ HoldsClient' => HoldsClient /\ c' = c
    BY <1>5 DEF TestContinue, LockClient, LockWorkerAndCheck, LockWorkerAgain, TakeWorker,
       Pair, Goto, HoldsClient
  <2>2. NoAnswerPosted
    BY <2>1 DEF NoAnswerPosted
  <2>3. QED
    BY <1>0, <2>1, <2>2, ClientQuiet
<1>6. CASE EmitWorker
  <2>1. /\ UNCHANGED <<requested, m_client_connections>>
        /\ HoldsClient /\ c' = c /\ w \in Workers /\ events' = Append(events, WorkerInfo(w))
    BY <1>0, <1>6 DEF EmitWorker, Goto, HoldsClient, HandInv, HoldsWorker, WorkerConns
  <2>2. QED
    BY <1>0, <2>1, ClientQuiet
<1>7. CASE EmitClient
  BY <1>0, <1>7, ClientPosted
<1>8. QED
  BY <1>1, <1>2, <1>3, <1>4, <1>5, <1>6, <1>7 DEF Next, Main, Loop

-----------------------------------------------------------------------------
(* Answers.                                                               *)

LEMMA ToldStays ==
    ASSUME SocketsAge, NEW h \in Workers, Told(h)
    PROVE  Told(h)'
<1>1. h \in Sockets
  BY DEF Sockets
<1>2. QED
  BY <1>1 DEF Told, SocketsAge

(* A worker whose own answer is delivered has been told. *)
LEMMA ToldOnDelivery ==
    ASSUME TypeOK, NEW h \in Workers, sock[h] # "new", WriteAndClose(h, "OK")
    PROVE  Told(h)'
BY DEF TypeOK, Told, WriteAndClose, Writable, Sockets

(* Events posted at the end come after the ones posted before. *)
LEMMA PostedFirstStays ==
    ASSUME TypeOK, NEW e \in Events, events' = Append(events, e),
           NEW h, NEW q, PostedFirst(h, q)
    PROVE  PostedFirst(h, q)'
<1>1. PICK j \in DOMAIN events : /\ events[j] = WorkerInfo(h)
                                 /\ \A i \in 1 .. j - 1 : ~IsClientInfo(events[i], q)
  BY DEF PostedFirst
<1>2. /\ DOMAIN events = 1 .. Len(events) /\ Len(events) \in Nat
      /\ DOMAIN events' = 1 .. Len(events) + 1
      /\ \A i \in 1 .. Len(events) : events'[i] = events[i]
  BY AppendAt DEF TypeOK
<1>3. j \in DOMAIN events' /\ \A i \in 1 .. j - 1 : events'[i] = events[i]
  BY <1>1, <1>2
<1>4. events'[j] = WorkerInfo(h) /\ \A i \in 1 .. j - 1 : ~IsClientInfo(events'[i], q)
  BY <1>1, <1>2, <1>3
<1>5. QED
  BY <1>3, <1>4 DEF PostedFirst, IsClientInfo

(* When the first event is delivered, it was the worker's answer, or that  *)
(* answer moves up by one.                                                 *)
LEMMA PostedFirstMovesUp ==
    ASSUME TypeOK, events # <<>>, events' = Tail(events),
           NEW h, NEW q, PostedFirst(h, q)
    PROVE  Head(events) = WorkerInfo(h) \/ PostedFirst(h, q)'
<1>1. PICK j \in DOMAIN events : /\ events[j] = WorkerInfo(h)
                                 /\ \A i \in 1 .. j - 1 : ~IsClientInfo(events[i], q)
  BY DEF PostedFirst
<1>2. /\ DOMAIN events = 1 .. Len(events) /\ Len(events) \in Nat /\ Head(events) = events[1]
      /\ DOMAIN events' = 1 .. Len(events) - 1
      /\ \A k \in 1 .. Len(events) - 1 : events'[k] = events[k + 1]
  BY TailAt DEF TypeOK
<1>3. CASE j = 1
  BY <1>1, <1>2, <1>3
<1>4. CASE j # 1
  <2>1. j - 1 \in DOMAIN events' /\ events'[j - 1] = events[j]
    BY <1>2, <1>4
  <2>2. \A i \in 1 .. (j - 1) - 1 : i + 1 \in 1 .. j - 1 /\ events'[i] = events[i + 1]
    BY <1>2, <1>4
  <2>3. \A i \in 1 .. (j - 1) - 1 : ~IsClientInfo(events'[i], q)
    BY <1>1, <2>2
  <2>4. QED
    BY <1>1, <2>1, <2>3 DEF PostedFirst, IsClientInfo
<1>5. QED
  BY <1>3, <1>4

(* Steps that write no client's answer, and pair nobody. *)
LEMMA ToldQuiet ==
    ASSUME TypeOK, ToldInv, SocketsAge, UNCHANGED paired_host,
           (pcLoop = "emit_worker") => UNCHANGED <<pcLoop, c, w>>,
           \A h \in Workers : \A q \in ClientConns :
               PostedFirst(h, q) => PostedFirst(h, q)' \/ Told(h)',
           \A x \in Clients : sent'[x] \cap Workers = sent[x] \cap Workers
    PROVE  ToldInv'
<1>1. ASSUME NEW q \in ClientConns, paired_host[q] # Blank
      PROVE  \/ (pcLoop = "emit_worker" /\ c = q /\ w = paired_host[q])'
             \/ Told(paired_host[q])'
             \/ PostedFirst(paired_host[q], q)'
  <2>1. PICK h \in Workers : h = paired_host[q]
    BY <1>1 DEF TypeOK
  <2>2. CASE pcLoop = "emit_worker" /\ c = q /\ w = paired_host[q]
    BY <2>2
  <2>3. CASE Told(paired_host[q])
    BY <2>1, <2>3, ToldStays
  <2>4. CASE PostedFirst(paired_host[q], q)
    BY <2>1, <2>4
  <2>5. QED
    BY <1>1, <2>2, <2>3, <2>4 DEF ToldInv
<1>2. \A x \in Clients : \A h \in sent'[x] \cap Workers : Told(h)'
  <2> SUFFICES ASSUME NEW x \in Clients, NEW h \in sent'[x] \cap Workers PROVE Told(h)'
    OBVIOUS
  <2>1. h \in Workers /\ Told(h)
    BY DEF ToldInv
  <2>2. QED
    BY <2>1, ToldStays
<1>3. QED
  BY <1>1, <1>2 DEF ToldInv

(* The main thread's steps that write no answer. *)
LEMMA MainTellsNobody ==
    ASSUME TypeOK, ToldInv, SocketsAge,
           \/ \E x \in Sockets : Accept(x) \/ InvalidRequest(x) \/ Disconnected(x)
           \/ \E x \in Clients : RequestWorker(x)
           \/ \E x \in Workers : RequestClient(x)
           \/ HandleDisconnect \/ Stop \/ UNCHANGED vars
    PROVE  ToldInv'
<1> USE DEF sockVars, connVars, queueVars, lockVars, loopVars, mainVars, flagVars
<1>1. UNCHANGED <<paired_host, pcLoop, c, w>>
  BY DEF Accept, InvalidRequest, Disconnected, RequestWorker, RequestClient,
     HandleDisconnect, Stop, vars
<1>2. events' = events \/ \E x \in Sockets : events' = Append(events, [type |-> "delete", conn |-> x])
  BY DEF Accept, InvalidRequest, Disconnected, RequestWorker, RequestClient,
     HandleDisconnect, Stop, vars
<1>3. \A h, q : PostedFirst(h, q) => PostedFirst(h, q)'
  <2>1. CASE events' = events
    BY <2>1 DEF PostedFirst, IsClientInfo
  <2>2. ASSUME NEW x \in Sockets, events' = Append(events, [type |-> "delete", conn |-> x])
        PROVE  \A h, q : PostedFirst(h, q) => PostedFirst(h, q)'
    <3>1. [type |-> "delete", conn |-> x] \in Events
      BY DEF Events
    <3>2. QED
      BY <2>2, <3>1, PostedFirstStays
  <2>3. QED
    BY <1>2, <2>1, <2>2
<1>4. \A x \in Clients : sent'[x] \cap Workers = sent[x] \cap Workers
  <2>1. CASE sent' = sent
    BY <2>1
  <2>2. ASSUME NEW x \in Sockets, WriteAndClose(x, "BYE")
        PROVE  \A y \in Clients : sent'[y] \cap Workers = sent[y] \cap Workers
    <3>1. "BYE" \notin Workers /\ \A y \in Clients : y \in Sockets
      BY SocketAssumption DEF Sockets
    <3>2. QED
      BY <2>2, <3>1 DEF WriteAndClose, TypeOK
  <2>3. \A x \in Workers : x \in Sockets
    BY DEF Sockets
  <2>4. CASE \/ \E x \in Sockets : Accept(x) \/ Disconnected(x)
             \/ \E x \in Clients : RequestWorker(x)
             \/ HandleDisconnect \/ Stop \/ UNCHANGED vars
    BY <2>1, <2>4 DEF Accept, Disconnected, RequestWorker, HandleDisconnect, Stop, vars
  <2>5. CASE \E x \in Sockets : InvalidRequest(x)
    BY <2>2, <2>5 DEF InvalidRequest
  <2>6. CASE \E x \in Workers : RequestClient(x)
    BY <2>1, <2>2, <2>3, <2>6 DEF RequestClient
  <2>7. QED
    BY <2>4, <2>5, <2>6
<1>5. QED
  BY <1>1, <1>3, <1>4, ToldQuiet

(* A worker hears OK. *)
LEMMA WorkerIsTold ==
    ASSUME TypeOK, WorkerOnceInv, ToldInv, SocketsAge, SendWorkerInfo
    PROVE  ToldInv'
<1> USE DEF sockVars, connVars, queueVars, lockVars, loopVars, mainVars, flagVars
<1>1. PICK x \in Workers : Head(events) = WorkerInfo(x)
  <2>1. Head(events) \in Events /\ Head(events).type = "send_worker"
    BY EventTarget, HeadEvent DEF SendWorkerInfo, NextEvent
  <2>2. QED
    BY <2>1 DEF Events, WorkerConns
<1>2. /\ UNCHANGED <<paired_host, pcLoop, c, w>>
      /\ events # <<>> /\ events' = Tail(events) /\ WriteAndClose(x, "OK")
  BY <1>1 DEF SendWorkerInfo, NextEvent
<1>3. Told(x)'
  <2>1. Used(x)
    BY <1>1, <1>2, HeadEvent DEF Used, IsPosted
  <2>2. QED
    BY <1>2, <2>1, UsedIsAccepted, ToldOnDelivery
<1>4. \A h \in Workers : \A q \in ClientConns :
          PostedFirst(h, q) => PostedFirst(h, q)' \/ Told(h)'
  <2> SUFFICES ASSUME NEW h \in Workers, NEW q \in ClientConns, PostedFirst(h, q)
               PROVE  PostedFirst(h, q)' \/ Told(h)'
    OBVIOUS
  <2>1. Head(events) = WorkerInfo(h) \/ PostedFirst(h, q)'
    BY <1>2, PostedFirstMovesUp
  <2>2. Head(events) = WorkerInfo(h) => h = x
    BY <1>1
  <2>3. QED
    BY <1>3, <2>1, <2>2
<1>5. \A y \in Clients : sent'[y] \cap Workers = sent[y] \cap Workers
  <2>1. "OK" \notin Workers /\ \A y \in Clients : y \in Sockets
    BY SocketAssumption DEF Sockets
  <2>2. QED
    BY <1>2, <2>1 DEF WriteAndClose, TypeOK
<1>6. QED
  BY <1>2, <1>4, <1>5, ToldQuiet

(* A client hears of its worker, which was told: nothing is posted before  *)
(* the event that is delivered.                                            *)
LEMMA ClientIsTold ==
    ASSUME TypeOK, ClientOnceInv, ToldInv, SocketsAge, SendClientInfo
    PROVE  ToldInv'
<1> USE DEF sockVars, connVars, queueVars, lockVars, loopVars, mainVars, flagVars
<1> DEFINE q == Head(events).conn
           x == SocketOf(q)
<1>1. /\ q \in ClientConns /\ x \in Clients /\ IsClientInfo(events[1], q)
      /\ 1 \in DOMAIN events /\ Head(events) = events[1] /\ Head(events).type = "send_client"
  BY EventTarget, HeadEvent DEF SendClientInfo, NextEvent, IsClientInfo
<1>2. /\ UNCHANGED <<paired_host, pcLoop, c, w>>
      /\ events # <<>> /\ events' = Tail(events) /\ WriteAndClose(x, paired_host[q])
  BY DEF SendClientInfo, NextEvent
<1>3. paired_host[q] # Blank => Told(paired_host[q])
  <2>1. ~(pcLoop = "emit_worker" /\ c = q)
    BY <1>1 DEF ClientOnceInv, HoldsClient
  <2>2. ~PostedFirst(paired_host[q], q)
    <3> SUFFICES ASSUME NEW j \in DOMAIN events, events[j] = WorkerInfo(paired_host[q]),
                        \A i \in 1 .. j - 1 : ~IsClientInfo(events[i], q)
                 PROVE  FALSE
      BY DEF PostedFirst
    <3>1. j # 1
      BY <1>1 DEF IsClientInfo
    <3>2. DOMAIN events = 1 .. Len(events) /\ Len(events) \in Nat
      BY LenProperties DEF TypeOK
    <3>3. 1 \in 1 .. j - 1
      BY <3>1, <3>2
    <3>4. QED
      BY <1>1, <3>3
  <2>3. QED
    BY <1>1, <2>1, <2>2 DEF ToldInv
<1>4. ASSUME NEW p \in ClientConns, paired_host[p] # Blank
      PROVE  \/ (pcLoop = "emit_worker" /\ c = p /\ w = paired_host[p])'
             \/ Told(paired_host[p])'
             \/ PostedFirst(paired_host[p], p)'
  <2>1. PICK h \in Workers : h = paired_host[p]
    BY <1>4 DEF TypeOK
  <2>2. CASE pcLoop = "emit_worker" /\ c = p /\ w = paired_host[p]
    BY <1>2, <2>2
  <2>3. CASE Told(paired_host[p])
    BY <1>2, <2>1, <2>3, ToldStays
  <2>4. CASE PostedFirst(paired_host[p], p)
    <3>1. Head(events) # WorkerInfo(h)
      BY <1>1
    <3>2. PostedFirst(h, p)'
      BY <1>2, <2>1, <2>4, <3>1, PostedFirstMovesUp
    <3>3. QED
      BY <1>2, <2>1, <3>2
  <2>5. QED
    BY <1>4, <2>2, <2>3, <2>4 DEF ToldInv
<1>5. \A y \in Clients : \A h \in sent'[y] \cap Workers : Told(h)'
  <2> SUFFICES ASSUME NEW y \in Clients, NEW h \in sent'[y] \cap Workers PROVE Told(h)'
    OBVIOUS
  <2>1. h \in sent[y] \/ h = paired_host[q]
    <3>1. y \in Sockets /\ x \in Sockets
      BY <1>1 DEF Sockets
    <3> HIDE DEF x, q
    <3>2. QED
      BY <1>2, <3>1 DEF WriteAndClose, TypeOK
  <2>2. h \in Workers /\ h # Blank
    BY SocketAssumption DEF Sockets
  <2>3. Told(h)
    BY <1>3, <2>1, <2>2 DEF ToldInv
  <2>4. QED
    BY <2>2, <2>3, ToldStays
<1>6. QED
  BY <1>2, <1>4, <1>5 DEF ToldInv

(* From Pair on, the worker's answer is the next thing that is posted, and *)
(* until then the client's is not.                                         *)
LEMMA PairIsToldNext ==
    ASSUME TypeOK, HandInv, WorkerOnceInv, ToldInv, SocketsAge, Pair
    PROVE  ToldInv'
<1> USE DEF sockVars, connVars, queueVars, lockVars, loopVars, mainVars, flagVars
<1>1. /\ UNCHANGED <<sock, sent, events, w, c>>
      /\ alive /\ pcLoop = "pair" /\ pcLoop' = "emit_worker"
      /\ paired_host' = [paired_host EXCEPT ![c] = worker_host[w]]
      /\ c \in ClientConns /\ w \in Workers
  BY DEF Pair, Goto, HandInv, HoldsWorker, HoldsClient, WorkerConns
<1>2. worker_host[w] \in {w, Blank}
  BY <1>1 DEF WorkerOnceInv
<1>3. /\ paired_host'[c] = worker_host[w]
      /\ \A q \in ClientConns : q # c => paired_host'[q] = paired_host[q]
  BY <1>1 DEF TypeOK
<1>4. ASSUME NEW q \in ClientConns, paired_host'[q] # Blank
      PROVE  \/ pcLoop' = "emit_worker" /\ c' = q /\ w' = paired_host'[q]
             \/ Told(paired_host[q])'
             \/ PostedFirst(paired_host[q], q)'
  <2>1. CASE q = c
    BY <1>1, <1>2, <1>3, <1>4, <2>1
  <2>2. CASE q # c
    <3>1. PICK h \in Workers : h = paired_host[q] /\ h = paired_host'[q]
      BY <1>3, <1>4, <2>2 DEF TypeOK
    <3>2. Told(h) \/ PostedFirst(h, q)
      BY <1>1, <1>3, <1>4, <2>2, <3>1 DEF ToldInv
    <3>3. Told(h)' \/ PostedFirst(h, q)'
      BY <1>1, <3>2, ToldStays DEF PostedFirst, IsClientInfo
    <3>4. QED
      BY <3>1, <3>3
  <2>3. QED
    BY <2>1, <2>2
<1>5. \A y \in Clients : \A h \in sent'[y] \cap Workers : Told(h)'
  BY <1>1, ToldStays DEF ToldInv
<1>6. QED
  BY <1>4, <1>5 DEF ToldInv

LEMMA WorkerPostedFirst ==
    ASSUME TypeOK, HandInv, ClientOnceInv, ToldInv, SocketsAge, EmitWorker
    PROVE  ToldInv'
<1> USE DEF sockVars, connVars, queueVars, lockVars, loopVars, mainVars, flagVars
<1>1. /\ UNCHANGED <<sock, sent, paired_host, w, c>>
      /\ alive /\ pcLoop = "emit_worker" /\ events' = Append(events, WorkerInfo(w))
      /\ HoldsClient /\ c \in ClientConns /\ w \in Workers
  BY DEF EmitWorker, Goto, HandInv, HoldsWorker, HoldsClient, WorkerConns
<1>2. WorkerInfo(w) \in Events
  BY <1>1 DEF Events, WorkerConns
<1>3. PostedFirst(w, c)'
  <2>1. /\ DOMAIN events = 1 .. Len(events) /\ Len(events) \in Nat
        /\ DOMAIN events' = 1 .. Len(events) + 1
        /\ \A i \in 1 .. Len(events) : events'[i] = events[i]
        /\ events'[Len(events) + 1] = WorkerInfo(w)
    BY <1>1, <1>2, AppendAt DEF TypeOK
  <2>2. \A i \in 1 .. Len(events) : ~IsClientInfo(events'[i], c)
    BY <1>1, <2>1 DEF ClientOnceInv
  <2>3. (Len(events) + 1) - 1 = Len(events) /\ Len(events) + 1 \in DOMAIN events'
    BY <2>1
  <2>4. \E j \in DOMAIN events' : /\ events'[j] = WorkerInfo(w)
                                  /\ \A i \in 1 .. j - 1 : ~IsClientInfo(events'[i], c)
    BY <2>1, <2>2, <2>3
  <2>5. QED
    BY <1>1, <2>4 DEF PostedFirst, IsClientInfo
<1>4. ASSUME NEW q \in ClientConns, paired_host[q] # Blank
      PROVE  Told(paired_host[q])' \/ PostedFirst(paired_host[q], q)'
  <2>1. PICK h \in Workers : h = paired_host[q]
    BY <1>4 DEF TypeOK
  <2>2. CASE c = q /\ w = h
    BY <1>1, <1>3, <2>1, <2>2
  <2>3. CASE Told(h)
    BY <1>1, <2>1, <2>3, ToldStays
  <2>4. CASE PostedFirst(h, q)
    BY <1>1, <1>2, <2>1, <2>4, PostedFirstStays
  <2>5. QED
    BY <1>4, <2>1, <2>2, <2>3, <2>4 DEF ToldInv
<1>5. \A y \in Clients : \A h \in sent'[y] \cap Workers : Told(h)'
  BY <1>1, ToldStays DEF ToldInv
<1>6. QED
  BY <1>1, <1>4, <1>5 DEF ToldInv

LEMMA ToldStep ==
    MasterInv /\ WorkerOnceInv /\ ClientOnceInv /\ ToldInv /\ [Next]_vars => ToldInv'
<1> SUFFICES ASSUME MasterInv, WorkerOnceInv, ClientOnceInv, ToldInv, [Next]_vars
             PROVE  ToldInv'
  OBVIOUS
<1> USE DEF sockVars, connVars, queueVars, lockVars, loopVars, mainVars, flagVars
<1>0. TypeOK /\ HandInv /\ SocketsAge
  BY SocketStep DEF MasterInv
<1>1. CASE \/ \E x \in Sockets : Accept(x) \/ InvalidRequest(x) \/ Disconnected(x)
           \/ \E x \in Clients : RequestWorker(x)
           \/ \E x \in Workers : RequestClient(x)
           \/ HandleDisconnect \/ Stop \/ UNCHANGED vars
  BY <1>0, <1>1, MainTellsNobody
<1>2. CASE SendWorkerInfo
  BY <1>0, <1>2, WorkerIsTold
<1>3. CASE SendClientInfo
  BY <1>0, <1>3, ClientIsTold
<1>4. CASE DeleteSocket
  <2>1. /\ UNCHANGED <<paired_host, pcLoop, c, w, sent>>
        /\ events # <<>> /\ events' = Tail(events) /\ Head(events).type = "delete"
    BY <1>4 DEF DeleteSocket, NextEvent
  <2>2. \A h, q : PostedFirst(h, q) => PostedFirst(h, q)'
    <3>1. \A h : Head(events) # WorkerInfo(h)
      BY <2>1
    <3>2. QED
      BY <1>0, <2>1, <3>1, PostedFirstMovesUp
  <2>3. QED
    BY <1>0, <2>1, <2>2, ToldQuiet
<1>5. CASE TestContinue \/ LockClient \/ LockWorkerAndCheck \/ TakeClient
           \/ LockWorkerAgain \/ TakeWorker
  <2>1. UNCHANGED <<paired_host, sent, events>> /\ pcLoop # "emit_worker"
    BY <1>5 DEF TestContinue, LockClient, LockWorkerAndCheck, TakeClient, LockWorkerAgain,
       TakeWorker, Goto
  <2>2. \A h, q : PostedFirst(h, q) => PostedFirst(h, q)'
    BY <2>1 DEF PostedFirst, IsClientInfo
  <2>3. QED
    BY <1>0, <2>1, <2>2, ToldQuiet
<1>6. CASE Pair
  BY <1>0, <1>6, PairIsToldNext
<1>7. CASE EmitWorker
  BY <1>0, <1>7, WorkerPostedFirst
<1>8. CASE EmitClient
  <2>1. /\ UNCHANGED <<paired_host, sent>> /\ pcLoop # "emit_worker" /\ c \in ClientConns
        /\ events' = Append(events, [type |-> "send_client", conn |-> c])
    BY <1>0, <1>8 DEF EmitClient, Goto, HandInv, HoldsClient
  <2>2. \A h, q : PostedFirst(h, q) => PostedFirst(h, q)'
    <3>1. [type |-> "send_client", conn |-> c] \in Events
      BY <2>1 DEF Events
    <3>2. QED
      BY <1>0, <2>1, <3>1, PostedFirstStays
  <2>3. QED
    BY <1>0, <2>1, <2>2, ToldQuiet
<1>9. QED
  BY <1>1, <1>2, <1>3, <1>4, <1>5, <1>6, <1>7, <1>8 DEF Next, Main, DeliverEvent, Loop

-----------------------------------------------------------------------------
(* The theorems.                                                          *)

LEMMA PairingInvariant == Spec => [](MasterInv /\ PairingInv)
<1>1. Init => PairingInv
  <2> SUFFICES ASSUME Init PROVE PairingInv
    OBVIOUS
  <2>1. WorkerOnceInv
    <3>1. \A x \in Workers : worker_host[x] = Blank /\ x # Blank /\ x \in Sockets
      BY SocketAssumption DEF Init, WorkerConns, Sockets
    <3>2. \A x \in Workers : ~Used(x)
      BY <3>1 DEF Init, Used, InQueue, InHand, IsPosted, IsPaired, HoldsWorker
    <3>3. QED
      BY <3>1, <3>2 DEF Init, WorkerOnceInv, InQueue
  <2>2. WorkerServesOneClient
    BY DEF Init, WorkerServesOneClient
  <2>3. ClientOnceInv
    BY DEF Init, ClientOnceInv, HoldsClient
  <2>4. ToldInv
    BY DEF Init, ToldInv, Sockets
  <2>5. QED
    BY <2>1, <2>2, <2>3, <2>4 DEF PairingInv
<1>2. MasterInv /\ PairingInv /\ [Next]_vars => PairingInv'
  BY WorkerStep, ClientStep, ToldStep DEF PairingInv
<1>3. QED
  BY <1>1, <1>2, MasterInvariant, PTL DEF Spec

(* Two clients are never sent to the same worker, whatever the ports and   *)
(* however often a client asks: a wrong entry removed from a queue can     *)
(* lose a worker, never serve it twice.                                    *)
THEOREM WorkersServeOneClient == Spec => []WorkerServesOneClient
<1>1. MasterInv /\ PairingInv => WorkerServesOneClient
  BY DEF PairingInv
<1>2. QED
  BY <1>1, PairingInvariant, PTL

(* A client learns where its worker is only after the worker was told, or  *)
(* had left.                                                               *)
THEOREM WorkersToldFirst == Spec => []WorkerToldFirst
<1>1. MasterInv /\ PairingInv => WorkerToldFirst
  BY DEF PairingInv, ToldInv, Told, WorkerToldFirst
<1>2. QED
  BY <1>1, PairingInvariant, PTL
=============================================================================
