-------------------------- MODULE MasterNodeProofs --------------------------
(***************************************************************************)
(* Theorems about the master, for any sets of sockets, any ports and any   *)
(* bound on repeated requests.                                             *)
(***************************************************************************)
EXTENDS MasterNode, SequenceTheorems, TLAPS

USE DEF Release, Dequeued, Post, WorkerInfo

-----------------------------------------------------------------------------
(* Removing position i of a sequence shifts the entries after it.          *)
LEMMA WithoutProperties ==
    ASSUME NEW S, NEW q \in Seq(S), NEW i \in 1 .. Len(q)
    PROVE  /\ Without(q, i) \in Seq(S)
           /\ Len(Without(q, i)) = Len(q) - 1
           /\ \A k \in 1 .. Len(q) - 1 :
                Without(q, i)[k] = IF k < i THEN q[k] ELSE q[k + 1]
<1> DEFINE head == SubSeq(q, 1, i - 1)
           tail == SubSeq(q, i + 1, Len(q))
<1>1. /\ head \in Seq(S) /\ Len(head) = i - 1
      /\ \A k \in 1 .. i - 1 : head[k] = q[k]
  BY SubSeqProperties
<1>2. /\ tail \in Seq(S) /\ Len(tail) = Len(q) - i
      /\ \A k \in 1 .. Len(q) - i : tail[k] = q[k + i]
  BY SubSeqProperties
<1>3. Without(q, i) = head \o tail
  BY DEF Without
<1> HIDE DEF head, tail
<1>4. /\ head \o tail \in Seq(S)
      /\ Len(head \o tail) = Len(head) + Len(tail)
      /\ \A k \in 1 .. Len(head) + Len(tail) :
           (head \o tail)[k] = IF k <= Len(head) THEN head[k] ELSE tail[k - Len(head)]
  BY <1>1, <1>2, ConcatProperties
<1>5. QED
  BY <1>1, <1>2, <1>3, <1>4

(* Shifting the entries after position i down by one, in a sequence        *)
(* without repetitions, leaves one without repetitions, made of the other  *)
(* entries.                                                                *)
LEMMA ShiftDistinct ==
    ASSUME NEW q, NEW r, NEW n \in Nat, NEW i \in 1 .. n,
           \A j, k \in 1 .. n : q[j] = q[k] => j = k,
           \A k \in 1 .. n - 1 : r[k] = IF k < i THEN q[k] ELSE q[k + 1]
    PROVE  /\ \A j, k \in 1 .. n - 1 : r[j] = r[k] => j = k
           /\ \A k \in 1 .. n - 1 : \E j \in 1 .. n : r[k] = q[j] /\ j # i
<1>1. ASSUME NEW j \in 1 .. n - 1, NEW k \in 1 .. n - 1, r[j] = r[k] PROVE j = k
  <2>1. CASE j < i /\ k < i
    BY <1>1, <2>1
  <2>2. CASE j < i /\ ~(k < i)
    BY <1>1, <2>2
  <2>3. CASE ~(j < i) /\ k < i
    BY <1>1, <2>3
  <2>4. CASE ~(j < i) /\ ~(k < i)
    BY <1>1, <2>4
  <2>5. QED
    BY <2>1, <2>2, <2>3, <2>4
<1>2. ASSUME NEW k \in 1 .. n - 1
      PROVE \E j \in 1 .. n : r[k] = q[j] /\ j # i
  <2>1. CASE k < i
    BY <2>1
  <2>2. CASE ~(k < i)
    BY <2>2
  <2>3. QED
    BY <2>1, <2>2
<1>3. QED
  BY <1>1, <1>2

(* Where the entries of a sequence are after it was lengthened, shortened  *)
(* or thinned.                                                             *)
LEMMA AppendAt ==
    ASSUME NEW S, NEW q \in Seq(S), NEW e \in S
    PROVE  /\ DOMAIN q = 1 .. Len(q) /\ Len(q) \in Nat
           /\ DOMAIN Append(q, e) = 1 .. Len(q) + 1
           /\ \A i \in 1 .. Len(q) : Append(q, e)[i] = q[i]
           /\ Append(q, e)[Len(q) + 1] = e
           /\ \A i \in 1 .. Len(q) + 1 : i \in 1 .. Len(q) \/ i = Len(q) + 1
BY AppendProperties, LenProperties

LEMMA TailAt ==
    ASSUME NEW S, NEW q \in Seq(S), q # <<>>
    PROVE  /\ DOMAIN q = 1 .. Len(q) /\ Len(q) \in Nat
           /\ 1 \in DOMAIN q /\ Head(q) = q[1]
           /\ DOMAIN Tail(q) = 1 .. Len(q) - 1
           /\ \A k \in DOMAIN Tail(q) : k + 1 \in DOMAIN q /\ Tail(q)[k] = q[k + 1] /\ k + 1 # 1
           /\ \A j, k \in DOMAIN Tail(q) : j + 1 = k + 1 => j = k
<1>1. /\ Len(q) \in Nat \ {0} /\ DOMAIN q = 1 .. Len(q)
      /\ Tail(q) \in Seq(S) /\ Len(Tail(q)) = Len(q) - 1
      /\ \A k \in 1 .. Len(Tail(q)) : Tail(q)[k] = q[k + 1]
  BY HeadTailProperties, LenProperties, EmptySeq
<1>2. DOMAIN Tail(q) = 1 .. Len(q) - 1
  BY <1>1, LenProperties
<1>3. QED
  BY <1>1, <1>2

LEMMA WithoutThins ==
    ASSUME NEW S, NEW q \in Seq(S), NEW i \in DOMAIN q
    PROVE  /\ \A k \in DOMAIN Without(q, i) : \E j \in DOMAIN q : Without(q, i)[k] = q[j]
           /\ (\A j, k \in DOMAIN q : q[j] = q[k] => j = k) =>
                  \A j, k \in DOMAIN Without(q, i) :
                      Without(q, i)[j] = Without(q, i)[k] => j = k
<1> DEFINE r == Without(q, i)
           n == Len(q)
<1>1. /\ DOMAIN q = 1 .. n /\ n \in Nat /\ DOMAIN r = 1 .. n - 1
      /\ \A k \in 1 .. n - 1 : r[k] = IF k < i THEN q[k] ELSE q[k + 1]
  BY WithoutProperties, LenProperties
<1> HIDE DEF r, n
<1>2. \A k \in 1 .. n - 1 : \E j \in 1 .. n : r[k] = q[j]
  <2> SUFFICES ASSUME NEW k \in 1 .. n - 1 PROVE \E j \in 1 .. n : r[k] = q[j]
    OBVIOUS
  <2>1. k \in 1 .. n /\ k + 1 \in 1 .. n
    BY <1>1
  <2>2. QED
    BY <1>1, <2>1
<1>3. ASSUME \A j, k \in 1 .. n : q[j] = q[k] => j = k
      PROVE  \A j, k \in 1 .. n - 1 : r[j] = r[k] => j = k
  BY <1>1, <1>3, ShiftDistinct, SMTT(30)
<1>4. QED
  BY <1>1, <1>2, <1>3 DEF r

(* The events a step may post. *)
LEMMA AppendEvent ==
    ASSUME NEW e \in Events, events \in Seq(Events)
    PROVE  Append(events, e) \in Seq(Events)
BY AppendProperties

(* Writing a line and closing leaves every socket in a known state.        *)
LEMMA WriteAndCloseType ==
    ASSUME TypeOK, NEW x \in Sockets, NEW line \in Lines, WriteAndClose(x, line)
    PROVE  /\ sock' \in [Sockets -> SockStates]
           /\ sent' \in [Sockets -> SUBSET Lines]
BY DEF TypeOK, WriteAndClose, SockStates

(* handle_disconnect's scan leaves two queues of connections.              *)
LEMMA DropType ==
    ASSUME TypeOK, DropWorker \/ DropClient \/ DropNothing
    PROVE  /\ m_client_connections' \in Seq(ClientConns)
           /\ m_worker_connections' \in Seq(WorkerConns)
           /\ Len(m_client_connections') <= Len(m_client_connections)
           /\ Len(m_worker_connections') <= Len(m_worker_connections)
<1>1. CASE DropWorker
  BY <1>1, WithoutProperties, SMTT(20) DEF DropWorker, TypeOK
<1>2. CASE DropClient
  BY <1>2, WithoutProperties DEF DropClient, TypeOK
<1>3. CASE DropNothing
  BY <1>3 DEF DropNothing, TypeOK
<1>4. QED
  BY <1>1, <1>2, <1>3

-----------------------------------------------------------------------------
(* The inductive invariant.  TypeOK is not inductive alone: that run()     *)
(* never dequeues from an empty client queue rests on the client mutex it  *)
(* has kept since its check, and what it emits rests on where its locals   *)
(* are set.                                                                *)

(* Who holds which mutex, read off the two program counters. *)
LockInv ==
    /\ client_mutex = IF pcLoop \in {"lock_worker", "take_client"} THEN "loop" ELSE "free"
    /\ worker_mutex = IF pcLoop = "take_worker" THEN "loop"
                      ELSE IF pcMain = "hd_client" THEN "main" ELSE "free"
    /\ ~(pcLoop = "take_worker" /\ pcMain = "hd_client")

(* The semaphores count at least what is queued; and from the check on,    *)
(* until run() has acquired it, there is a unit for the worker it saw.     *)
SemaInv ==
    /\ Len(m_client_connections) <= client_sema
    /\ Len(m_worker_connections) <= worker_sema
    /\ pcLoop = "take_client" => m_client_connections # <<>>
    /\ pcLoop \in {"take_client", "lock_worker_again", "take_worker"} => worker_sema > 0

(* Places at which run() holds a worker that is in no queue and not yet in *)
(* a posted event.                                                         *)
HoldsWorker == pcLoop \in {"pair", "emit_worker"}

(* The locals of run() are connections wherever they are used. *)
HandInv ==
    /\ HoldsClient => c \in ClientConns
    /\ alive /\ (HoldsWorker \/ pcLoop = "emit_client") => w \in WorkerConns

MasterInv == TypeOK /\ LockInv /\ SemaInv /\ HandInv

(* Each step keeps every variable in its type. *)
LEMMA TypeStep == MasterInv /\ [Next]_vars => TypeOK'
<1> SUFFICES ASSUME MasterInv, [Next]_vars PROVE TypeOK'
  OBVIOUS
<1> USE DEF sockVars, connVars, queueVars, lockVars, loopVars, mainVars, flagVars
<1>0. TypeOK /\ LockInv /\ SemaInv /\ HandInv
  BY DEF MasterInv
<1>1. ASSUME NEW x \in Sockets, Accept(x) PROVE TypeOK'
  BY <1>0, <1>1 DEF Accept, TypeOK, SockStates
<1>2. ASSUME NEW x \in Sockets, InvalidRequest(x) PROVE TypeOK'
  <2>1. "BYE" \in Lines
    BY DEF Lines
  <2>2. QED
    BY <1>0, <1>2, <2>1, WriteAndCloseType DEF InvalidRequest, TypeOK
<1>3. ASSUME NEW x \in Sockets, Disconnected(x) PROVE TypeOK'
  <2>1. [type |-> "delete", conn |-> x] \in Events
    BY DEF Events
  <2>2. events' \in Seq(Events)
    BY <1>0, <1>3, <2>1, AppendProperties DEF Disconnected, TypeOK
  <2>3. QED
    BY <1>0, <1>3, <2>2 DEF Disconnected, TypeOK, SockStates
<1>4. ASSUME NEW x \in Clients, RequestWorker(x) PROVE TypeOK'
  <2>1. requested[x] + 1 \in 1 .. MaxRequests
    BY <1>0, <1>4, BoundAssumption DEF RequestWorker, TypeOK
  <2>2. m_client_connections' \in Seq(ClientConns)
    BY <1>0, <1>4, <2>1, AppendProperties DEF RequestWorker, TypeOK, ClientConns
  <2>3. requested' \in [Clients -> 0 .. MaxRequests]
    BY <1>0, <1>4, <2>1, BoundAssumption DEF RequestWorker, TypeOK
  <2>4. QED
    BY <1>0, <1>4, <2>2, <2>3 DEF RequestWorker, TypeOK
<1>5. ASSUME NEW x \in Workers, RequestClient(x) PROVE TypeOK'
  <2>1. "BYE" \in Lines /\ x \in Sockets
    BY DEF Lines, Sockets
  <2>2. m_worker_connections' \in Seq(WorkerConns)
    BY <1>0, <1>5, AppendProperties DEF RequestClient, TypeOK, WorkerConns
  <2>3. /\ sock' \in [Sockets -> SockStates]
        /\ sent' \in [Sockets -> SUBSET Lines]
    BY <1>0, <1>5, <2>1, WriteAndCloseType DEF RequestClient, TypeOK
  <2>4. worker_host' \in [WorkerConns -> Workers \cup {Blank}] /\ worker_sema' \in Nat
    <3>1. CASE worker_host' = [worker_host EXCEPT ![x] = x]
      BY <1>0, <1>5, <3>1 DEF RequestClient, TypeOK, WorkerConns
    <3>2. CASE UNCHANGED worker_host
      BY <1>0, <1>5, <3>2 DEF RequestClient, TypeOK
    <3>3. QED
      BY <1>5, <3>1, <3>2 DEF RequestClient
  <2>5. QED
    BY <1>0, <1>5, <2>2, <2>3, <2>4 DEF RequestClient, TypeOK
<1>6. ASSUME HandleDisconnect PROVE TypeOK'
  BY <1>0, <1>6, DropType DEF HandleDisconnect, TypeOK
<1>7. ASSUME SendWorkerInfo PROVE TypeOK'
  <2>1. Head(events) \in Events /\ events' \in Seq(Events)
    BY <1>0, <1>7, HeadTailProperties DEF SendWorkerInfo, NextEvent, TypeOK
  <2>2. Head(events).conn \in Sockets /\ "OK" \in Lines
    BY <1>0, <1>7, <2>1 DEF SendWorkerInfo, NextEvent, Events, WorkerConns, Sockets, Lines
  <2>3. QED
    BY <1>0, <1>7, <2>1, <2>2, WriteAndCloseType DEF SendWorkerInfo, Touch, TypeOK, NextEvent, MainReady
<1>8. ASSUME SendClientInfo PROVE TypeOK'
  <2> DEFINE conn == Head(events).conn
  <2>1. Head(events) \in Events /\ events' \in Seq(Events)
    BY <1>0, <1>8, HeadTailProperties DEF SendClientInfo, NextEvent, TypeOK
  <2>2. conn \in ClientConns
    BY <1>0, <1>8, <2>1 DEF SendClientInfo, NextEvent, Events
  <2>3. SocketOf(conn) \in Sockets /\ paired_host[conn] \in Lines
    BY <1>0, <2>2 DEF ClientConns, SocketOf, Sockets, Lines, TypeOK
  <2>4. QED
    BY <1>0, <1>8, <2>1, <2>3, WriteAndCloseType DEF SendClientInfo, Touch, TypeOK, NextEvent, MainReady
<1>9. ASSUME DeleteSocket PROVE TypeOK'
  <2>1. events' \in Seq(Events)
    BY <1>0, <1>9, HeadTailProperties DEF DeleteSocket, NextEvent, TypeOK
  <2>2. QED
    BY <1>0, <1>9, <2>1, ZenonT(40) DEF DeleteSocket, TypeOK, SockStates
<1>10. ASSUME Stop PROVE TypeOK'
  BY <1>0, <1>10 DEF Stop, TypeOK
<1>11. ASSUME TestContinue \/ LockClient \/ LockWorkerAndCheck \/ LockWorkerAgain
       PROVE TypeOK'
  BY <1>0, <1>11 DEF TestContinue, LockClient, LockWorkerAndCheck, LockWorkerAgain,
               Goto, TypeOK, LoopPlaces
<1>12. ASSUME TakeClient PROVE TypeOK'
  BY <1>0, <1>12, HeadTailProperties DEF TakeClient, Goto, TypeOK, LoopPlaces, SemaInv
<1>13. ASSUME TakeWorker PROVE TypeOK'
  <2>1. CASE m_worker_connections # <<>>
    <3>1. /\ worker_sema' \in Nat /\ worker_mutex' = "free" /\ alive' = alive
          /\ w' = Head(m_worker_connections) /\ pcLoop' = "pair"
          /\ m_worker_connections' = Tail(m_worker_connections)
      BY <1>0, <1>13, <2>1 DEF TakeWorker, Goto, TypeOK
    <3>2. w' \in WorkerConns /\ m_worker_connections' \in Seq(WorkerConns)
      BY <1>0, <2>1, <3>1, HeadTailProperties DEF TypeOK
    <3>3. QED
      BY <1>0, <1>13, <3>1, <3>2 DEF TakeWorker, TypeOK, LoopPlaces
  <2>2. CASE m_worker_connections = <<>>
    <3>1. /\ worker_sema' \in Nat /\ worker_mutex' = "free" /\ alive' = FALSE
          /\ w' = w /\ m_worker_connections' = m_worker_connections /\ pcLoop' = "pair"
      BY <1>0, <1>13, <2>2 DEF TakeWorker, Goto, TypeOK
    <3>2. QED
      BY <1>0, <1>13, <3>1 DEF TakeWorker, TypeOK, LoopPlaces
  <2>3. QED
    BY <2>1, <2>2
<1>14. ASSUME Pair PROVE TypeOK'
  <2>1. c \in ClientConns /\ w \in WorkerConns
    BY <1>0, <1>14 DEF Pair, Goto, HandInv, HoldsClient, HoldsWorker
  <2>2. alive' \in BOOLEAN
    BY <1>14 DEF Pair, Touch
  <2>3. QED
    BY <1>0, <1>14, <2>1, <2>2 DEF Pair, Goto, TypeOK, LoopPlaces
<1>15. ASSUME EmitWorker PROVE TypeOK'
  <2>1. w \in WorkerConns
    BY <1>0, <1>15 DEF EmitWorker, Goto, HandInv, HoldsWorker
  <2>2. events' \in Seq(Events)
    BY <1>0, <1>15, <2>1, AppendProperties DEF EmitWorker, Events, TypeOK
  <2>3. QED
    BY <1>0, <1>15, <2>2 DEF EmitWorker, Goto, TypeOK, LoopPlaces
<1>16. ASSUME EmitClient PROVE TypeOK'
  <2>1. c \in ClientConns
    BY <1>0, <1>16 DEF EmitClient, Goto, HandInv, HoldsClient
  <2>2. events' \in Seq(Events)
    BY <1>0, <1>16, <2>1, AppendProperties DEF EmitClient, Events, TypeOK
  <2>3. QED
    BY <1>0, <1>16, <2>2 DEF EmitClient, Goto, TypeOK, LoopPlaces
<1>17. CASE UNCHANGED vars
  BY <1>0, <1>17 DEF vars, TypeOK
<1>18. QED
  BY <1>1, <1>2, <1>3, <1>4, <1>5, <1>6, <1>7, <1>8, <1>9, <1>10, <1>11,
     <1>12, <1>13, <1>14, <1>15, <1>16, <1>17
     DEF Next, Main, Loop, DeliverEvent

(* Each step keeps the mutexes with the threads that locked them.          *)
LEMMA LockStep == MasterInv /\ [Next]_vars => LockInv'
<1> SUFFICES ASSUME MasterInv, [Next]_vars PROVE LockInv'
  OBVIOUS
<1> USE DEF LockInv, sockVars, connVars, queueVars, lockVars, loopVars, mainVars,
            flagVars
<1>0. TypeOK /\ LockInv
  BY DEF MasterInv
<1>1. ASSUME NEW x \in Sockets, Accept(x) \/ InvalidRequest(x) PROVE LockInv'
  BY <1>0, <1>1 DEF Accept, InvalidRequest
<1>2. ASSUME NEW x \in Sockets, Disconnected(x) PROVE LockInv'
  BY <1>0, <1>2 DEF Disconnected, MainReady, TypeOK
<1>3. ASSUME NEW x \in Clients, RequestWorker(x) PROVE LockInv'
  BY <1>0, <1>3 DEF RequestWorker
<1>4. ASSUME NEW x \in Workers, RequestClient(x) PROVE LockInv'
  BY <1>0, <1>4 DEF RequestClient
<1>5. ASSUME HandleDisconnect PROVE LockInv'
  BY <1>0, <1>5 DEF HandleDisconnect
<1>6. ASSUME DeliverEvent \/ Stop PROVE LockInv'
  BY <1>0, <1>6 DEF DeliverEvent, SendWorkerInfo, SendClientInfo, DeleteSocket, Stop
<1>7. ASSUME Loop PROVE LockInv'
  BY <1>0, <1>7 DEF Loop, TestContinue, LockClient, LockWorkerAndCheck, TakeClient,
       LockWorkerAgain, TakeWorker, Pair, EmitWorker, EmitClient, Goto, TypeOK
<1>8. CASE UNCHANGED vars
  BY <1>0, <1>8 DEF vars
<1>9. QED
  BY <1>1, <1>2, <1>3, <1>4, <1>5, <1>6, <1>7, <1>8 DEF Next, Main

(* Each step keeps the semaphores ahead of the queues.  The two steps that *)
(* matter: a disconnection shortens a queue and leaves the semaphore       *)
(* alone, and is kept off the client queue by run()'s client mutex.        *)
LEMMA SemaStep == MasterInv /\ [Next]_vars => SemaInv'
<1> SUFFICES ASSUME MasterInv, [Next]_vars PROVE SemaInv'
  OBVIOUS
<1> USE DEF SemaInv, sockVars, connVars, queueVars, lockVars, loopVars, mainVars,
            flagVars
<1>0. TypeOK /\ LockInv /\ SemaInv
  BY DEF MasterInv
<1>1. ASSUME NEW x \in Sockets, Accept(x) \/ InvalidRequest(x) \/ Disconnected(x)
      PROVE SemaInv'
  BY <1>0, <1>1 DEF Accept, InvalidRequest, Disconnected
<1>2. ASSUME NEW x \in Clients, RequestWorker(x) PROVE SemaInv'
  <2>1. <<x, requested[x] + 1>> \in ClientConns
    BY <1>0, <1>2, BoundAssumption DEF RequestWorker, ClientConns, TypeOK
  <2>2. /\ Len(m_client_connections') = Len(m_client_connections) + 1
        /\ m_client_connections' # <<>>
    BY <1>0, <1>2, <2>1, AppendProperties DEF RequestWorker, TypeOK
  <2>3. QED
    BY <1>0, <1>2, <2>2, LenProperties DEF RequestWorker, TypeOK
<1>3. ASSUME NEW x \in Workers, RequestClient(x) PROVE SemaInv'
  <2>1. Len(m_worker_connections') = Len(m_worker_connections) + 1
    BY <1>0, <1>3, AppendProperties DEF RequestClient, TypeOK, WorkerConns
  <2>2. QED
    BY <1>0, <1>3, <2>1, LenProperties DEF RequestClient, TypeOK
<1>4. ASSUME HandleDisconnect PROVE SemaInv'
  <2>1. pcLoop # "take_client"
    BY <1>0, <1>4 DEF HandleDisconnect, LockInv
  <2>2. /\ Len(m_client_connections') \in Nat /\ Len(m_worker_connections') \in Nat
        /\ Len(m_client_connections') <= Len(m_client_connections)
        /\ Len(m_worker_connections') <= Len(m_worker_connections)
    BY <1>0, <1>4, DropType, LenProperties DEF HandleDisconnect
  <2>3. QED
    BY <1>0, <1>4, <2>1, <2>2, LenProperties DEF HandleDisconnect, TypeOK
<1>5. ASSUME DeliverEvent \/ Stop PROVE SemaInv'
  BY <1>0, <1>5 DEF DeliverEvent, SendWorkerInfo, SendClientInfo, DeleteSocket, Stop
<1>6. ASSUME LockWorkerAndCheck PROVE SemaInv'
  <2>1. m_worker_connections # <<>> => Len(m_worker_connections) > 0
    BY <1>0, EmptySeq, LenProperties DEF TypeOK
  <2>2. QED
    BY <1>0, <1>6, <2>1, LenProperties DEF LockWorkerAndCheck, BothWaiting, Goto, TypeOK
<1>7. ASSUME TakeClient PROVE SemaInv'
  <2>1. Len(m_client_connections') = Len(m_client_connections) - 1
    BY <1>0, <1>7, HeadTailProperties DEF TakeClient, Goto, TypeOK
  <2>2. QED
    BY <1>0, <1>7, <2>1, LenProperties DEF TakeClient, Goto, TypeOK
<1>8. ASSUME TakeWorker PROVE SemaInv'
  <2>1. \/ Len(m_worker_connections') = Len(m_worker_connections) - 1
        \/ Len(m_worker_connections') = 0
    BY <1>0, <1>8, HeadTailProperties, EmptySeq DEF TakeWorker, TypeOK
  <2>2. QED
    BY <1>0, <1>8, <2>1, LenProperties DEF TakeWorker, Goto, TypeOK
<1>9. ASSUME TestContinue \/ LockClient \/ LockWorkerAgain \/ Pair \/ EmitWorker
             \/ EmitClient
      PROVE SemaInv'
  BY <1>0, <1>9 DEF TestContinue, LockClient, LockWorkerAgain, Pair, EmitWorker,
                    EmitClient, Goto
<1>10. CASE UNCHANGED vars
  BY <1>0, <1>10 DEF vars
<1>11. QED
  BY <1>1, <1>2, <1>3, <1>4, <1>5, <1>6, <1>7, <1>8, <1>9, <1>10 DEF Next, Main, Loop

(* Each step keeps run()'s locals set where they are used. *)
LEMMA HandStep == MasterInv /\ [Next]_vars => HandInv'
<1> SUFFICES ASSUME MasterInv, [Next]_vars PROVE HandInv'
  OBVIOUS
<1> USE DEF HandInv, HoldsClient, HoldsWorker, sockVars, connVars, queueVars, lockVars,
            loopVars, mainVars, flagVars
<1>0. TypeOK /\ SemaInv /\ HandInv
  BY DEF MasterInv
<1>1. ASSUME Main PROVE HandInv'
  <2>1. UNCHANGED loopVars /\ alive
    BY <1>0, <1>1 DEF Main, Accept, InvalidRequest, Disconnected, RequestWorker,
         RequestClient, HandleDisconnect, DeliverEvent, SendWorkerInfo, SendClientInfo,
         DeleteSocket, Stop, MainReady, NextEvent
  <2>2. QED
    BY <1>0, <2>1
<1>2. ASSUME TakeClient PROVE HandInv'
  BY <1>0, <1>2, HeadTailProperties DEF TakeClient, Goto, TypeOK, SemaInv
<1>3. ASSUME TakeWorker PROVE HandInv'
  <2>1. alive' => w' \in WorkerConns
    BY <1>0, <1>3, HeadTailProperties DEF TakeWorker, TypeOK
  <2>2. QED
    BY <1>0, <1>3, <2>1, SMTT(30) DEF TakeWorker, Goto
<1>4. ASSUME Loop, ~TakeClient, ~TakeWorker PROVE HandInv'
  BY <1>0, <1>4 DEF Loop, TestContinue, LockClient, LockWorkerAndCheck,
       LockWorkerAgain, Pair, EmitWorker, EmitClient, Goto
<1>5. CASE UNCHANGED vars
  BY <1>0, <1>5 DEF vars
<1>6. QED
  BY <1>1, <1>2, <1>3, <1>4, <1>5 DEF Next

-----------------------------------------------------------------------------
(* The inductive invariant holds of every execution.                       *)
LEMMA MasterInvariant == Spec => []MasterInv
<1>1. Init => MasterInv
  <2> SUFFICES ASSUME Init PROVE MasterInv
    OBVIOUS
  <2>1. TypeOK
    BY BoundAssumption DEF Init, TypeOK, SockStates, LoopPlaces, Events
  <2>2. LockInv /\ HandInv
    BY DEF Init, LockInv, HandInv, HoldsClient, HoldsWorker
  <2>3. SemaInv
    BY DEF Init, SemaInv
  <2>4. QED
    BY <2>1, <2>2, <2>3 DEF MasterInv
<1>2. MasterInv /\ [Next]_vars => MasterInv'
  BY TypeStep, LockStep, SemaStep, HandStep DEF MasterInv
<1>3. QED
  BY <1>1, <1>2, PTL DEF Spec

(* Every variable keeps its type, whatever the two threads and the peers   *)
(* do: in particular the posted events are well formed, run() only pairs   *)
(* connections that were queued, and the semaphores never go negative.     *)
THEOREM TypeCorrect == Spec => []TypeOK
<1>1. MasterInv => TypeOK
  BY DEF MasterInv
<1>2. QED
  BY <1>1, MasterInvariant, PTL

(* run() never waits for a semaphore while it holds a mutex, however many  *)
(* connections handle_disconnect removes behind it: the mutexes alone can  *)
(* block it.                                                               *)
THEOREM SemaphoresNeverBlock == Spec => []AcquireNeverBlocks
<1>1. MasterInv => AcquireNeverBlocks
  <2> SUFFICES ASSUME MasterInv PROVE AcquireNeverBlocks
    OBVIOUS
  <2>1. TypeOK /\ SemaInv
    BY DEF MasterInv
  <2>2. m_client_connections # <<>> => Len(m_client_connections) > 0
    BY <2>1, EmptySeq, LenProperties DEF TypeOK
  <2>3. QED
    BY <2>1, <2>2, LenProperties DEF SemaInv, AcquireNeverBlocks, TypeOK
<1>2. QED
  BY <1>1, MasterInvariant, PTL

=============================================================================
