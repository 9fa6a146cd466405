------------------------- MODULE MasterServiceProofs ------------------------
(***************************************************************************)
(* The master implements PairingService, for any sets of sockets and any   *)
(* number of requests, as long as no two sockets share a peer port: every  *)
(* step of the two threads is a step of the service or changes nothing of  *)
(* it.  With equal ports handle_disconnect may forget somebody who is      *)
(* still there.                                                            *)
(***************************************************************************)
EXTENDS MasterQueueProofs, MasterPairingProofs

USE DEF Release, Dequeued, Post, WorkerInfo

-----------------------------------------------------------------------------
(* Sequences: what happens to a concatenation when one part changes.       *)

LEMMA SingleProperties ==
    ASSUME NEW S, NEW e \in S
    PROVE  <<e>> \in Seq(S) /\ Len(<<e>>) = 1 /\ <<e>>[1] = e
OBVIOUS

LEMMA PairProperties ==
    ASSUME NEW S, NEW e \in S, NEW f \in S
    PROVE  /\ <<e, f>> \in Seq(S) /\ <<e, f>> # <<>>
           /\ Head(<<e, f>>) = e /\ Tail(<<e, f>>) = <<f>>
OBVIOUS

LEMMA AppendToConcat ==
    ASSUME NEW S, NEW s \in Seq(S), NEW t \in Seq(S), NEW e \in S
    PROVE  s \o Append(t, e) = Append(s \o t, e)
<1>1. Append(t, e) = t \o <<e>> /\ <<e>> \in Seq(S) /\ s \o t \in Seq(S)
  BY AppendIsConcat, ConcatProperties, SingleProperties
<1>2. Append(s \o t, e) = (s \o t) \o <<e>>
  BY <1>1, AppendIsConcat
<1>3. QED
  BY <1>1, <1>2, ConcatAssociative

LEMMA HeadThenTail ==
    ASSUME NEW S, NEW s \in Seq(S), s # <<>>
    PROVE  <<Head(s)>> \o Tail(s) = s
<1> DEFINE h == <<Head(s)>>
           r == h \o Tail(s)
<1>1. /\ Head(s) \in S /\ Tail(s) \in Seq(S) /\ Len(s) \in Nat \ {0}
      /\ Len(Tail(s)) = Len(s) - 1 /\ Head(s) = s[1]
      /\ \A i \in 1 .. Len(s) - 1 : Tail(s)[i] = s[i + 1]
  BY HeadTailProperties, EmptySeq, TailAt
<1>2. h \in Seq(S) /\ Len(h) = 1 /\ h[1] = s[1]
  BY <1>1, SingleProperties
<1> HIDE DEF h
<1>3. /\ r \in Seq(S) /\ Len(r) = Len(s)
      /\ \A i \in 1 .. Len(s) : r[i] = IF i <= 1 THEN h[i] ELSE Tail(s)[i - 1]
  <2>1. /\ r \in Seq(S) /\ Len(r) = Len(h) + Len(Tail(s))
        /\ \A i \in 1 .. Len(h) + Len(Tail(s)) :
               r[i] = IF i <= Len(h) THEN h[i] ELSE Tail(s)[i - Len(h)]
    BY <1>1, <1>2, ConcatProperties
  <2>2. Len(h) + Len(Tail(s)) = Len(s) /\ Len(h) = 1
    BY <1>1, <1>2
  <2> HIDE DEF r
  <2>3. QED
    BY <2>1, <2>2
<1> HIDE DEF r
<1>4. \A i \in 1 .. Len(s) : r[i] = s[i]
  <2> SUFFICES ASSUME NEW i \in 1 .. Len(s) PROVE r[i] = s[i]
    OBVIOUS
  <2>1. CASE i = 1
    BY <1>2, <1>3, <2>1
  <2>2. CASE i # 1
    <3>1. i - 1 \in 1 .. Len(s) - 1 /\ (i - 1) + 1 = i /\ ~(i <= 1)
      BY <1>1, <2>2
    <3>2. QED
      BY <1>1, <1>3, <3>1
  <2>3. QED
    BY <2>1, <2>2
<1>5. QED
  BY <1>3, <1>4, SeqEqual DEF r, h

LEMMA TailOfConcat ==
    ASSUME NEW S, NEW s \in Seq(S), NEW t \in Seq(S), s # <<>>
    PROVE  s \o t # <<>> /\ Head(s \o t) = Head(s) /\ Tail(s \o t) = Tail(s) \o t
<1> DEFINE u == s \o t
           r == Tail(s) \o t
<1>1. /\ Len(s) \in Nat \ {0} /\ Len(t) \in Nat /\ Head(s) = s[1]
      /\ Tail(s) \in Seq(S) /\ Len(Tail(s)) = Len(s) - 1
      /\ \A i \in 1 .. Len(s) - 1 : Tail(s)[i] = s[i + 1]
  BY HeadTailProperties, EmptySeq, TailAt, LenProperties
<1>2. /\ u \in Seq(S) /\ Len(u) = Len(s) + Len(t)
      /\ \A i \in 1 .. Len(s) + Len(t) : u[i] = IF i <= Len(s) THEN s[i] ELSE t[i - Len(s)]
  BY ConcatProperties
<1>3. /\ r \in Seq(S) /\ Len(r) = (Len(s) - 1) + Len(t)
      /\ \A i \in 1 .. (Len(s) - 1) + Len(t) :
             r[i] = IF i <= Len(s) - 1 THEN Tail(s)[i] ELSE t[i - (Len(s) - 1)]
  BY <1>1, ConcatProperties
<1> HIDE DEF u, r
<1>4. u # <<>>
  BY <1>1, <1>2, EmptySeq
<1>5. /\ Head(u) = u[1] /\ Tail(u) \in Seq(S) /\ Len(Tail(u)) = Len(u) - 1
      /\ \A i \in 1 .. Len(u) - 1 : Tail(u)[i] = u[i + 1]
  BY <1>2, <1>4, HeadTailProperties, TailAt
<1>6. Head(u) = Head(s)
  <2>1. 1 \in 1 .. Len(s) + Len(t) /\ 1 <= Len(s)
    BY <1>1
  <2>2. QED
    BY <1>1, <1>2, <1>5, <2>1
<1>7. \A i \in 1 .. Len(r) : Tail(u)[i] = r[i]
  <2> SUFFICES ASSUME NEW i \in 1 .. Len(r) PROVE Tail(u)[i] = r[i]
    OBVIOUS
  <2>1. /\ i \in 1 .. (Len(s) - 1) + Len(t) /\ i + 1 \in 1 .. Len(s) + Len(t)
        /\ i \in 1 .. Len(u) - 1 /\ (i + 1) - Len(s) = i - (Len(s) - 1)
        /\ (i + 1 <= Len(s) <=> i <= Len(s) - 1)
    BY <1>1, <1>2, <1>3
  <2>2. i <= Len(s) - 1 => i \in 1 .. Len(s) - 1
    BY <1>1, <2>1
  <2>3. QED
    BY <1>1, <1>2, <1>3, <1>5, <2>1, <2>2
<1>8. Len(Tail(u)) = Len(r)
  BY <1>1, <1>2, <1>3, <1>5
<1>9. Tail(u) = r
  BY <1>3, <1>5, <1>7, <1>8, SeqEqual
<1>10. QED
  BY <1>4, <1>6, <1>9 DEF u, r

(* What is put between two parts is inserted at the place between them.    *)
Inserted(q, i, e) == SubSeq(q, 1, i) \o <<e>> \o SubSeq(q, i + 1, Len(q))

LEMMA InsertBetween ==
    ASSUME NEW S, NEW s \in Seq(S), NEW t \in Seq(S), NEW e \in S
    PROVE  /\ Len(s) \in 0 .. Len(s \o t)
           /\ Append(s, e) \o t = Inserted(s \o t, Len(s), e)
<1> DEFINE u == s \o t
           n == Len(s)
<1>1. /\ n \in Nat /\ Len(t) \in Nat /\ u \in Seq(S) /\ Len(u) = n + Len(t)
      /\ \A i \in 1 .. n + Len(t) : u[i] = IF i <= n THEN s[i] ELSE t[i - n]
  BY ConcatProperties, LenProperties
<1> HIDE DEF u
<1>2. SubSeq(u, 1, n) = s
  <2>1. \A i \in 1 .. n : u[i] \in S /\ u[i] = s[i]
    BY <1>1, ElementOfSeq
  <2>2. /\ SubSeq(u, 1, n) \in Seq(S) /\ Len(SubSeq(u, 1, n)) = n
        /\ \A i \in 1 .. n : SubSeq(u, 1, n)[i] = u[i]
    BY <1>1, <2>1, SubSeqProperties
  <2>3. QED
    BY <1>1, <2>1, <2>2, SeqEqual
<1>3. SubSeq(u, n + 1, Len(u)) = t
  <2> DEFINE v == SubSeq(u, n + 1, Len(u))
  <2>1. \A i \in n + 1 .. Len(u) : u[i] \in S
    BY <1>1, ElementOfSeq
  <2>2. /\ v \in Seq(S) /\ Len(v) = Len(t)
        /\ \A i \in 1 .. Len(t) : v[i] = u[n + i]
    BY <1>1, <2>1, SubSeqProperties
  <2> HIDE DEF v
  <2>3. \A i \in 1 .. Len(t) : u[n + i] = t[i]
    <3> SUFFICES ASSUME NEW i \in 1 .. Len(t) PROVE u[n + i] = t[i]
      OBVIOUS
    <3>1. n + i \in 1 .. n + Len(t) /\ ~(n + i <= n) /\ (n + i) - n = i
      BY <1>1
    <3>2. QED
      BY <1>1, <3>1
  <2>4. \A i \in 1 .. Len(t) : v[i] = t[i]
    BY <2>2, <2>3
  <2>5. v = t
    BY <2>2, <2>4, SeqEqual
  <2>6. QED
    BY <2>5 DEF v
<1>4. Append(s, e) = s \o <<e>>
  BY AppendIsConcat
<1>5. n \in 0 .. Len(u)
  BY <1>1
<1>6. QED
  BY <1>2, <1>3, <1>4, <1>5 DEF u, Inserted

(* What is removed from the second part is removed from the whole.         *)
LEMMA WithoutInConcat ==
    ASSUME NEW S, NEW s \in Seq(S), NEW t \in Seq(S), NEW i \in DOMAIN t
    PROVE  /\ Len(s) + i \in DOMAIN (s \o t)
           /\ (s \o t)[Len(s) + i] = t[i]
           /\ s \o Without(t, i) = Without(s \o t, Len(s) + i)
<1> DEFINE u == s \o t
           n == Len(s)
           m == Len(t)
           r == Without(t, i)
           a == s \o r
           b == Without(u, n + i)
<1>1. /\ n \in Nat /\ m \in Nat /\ DOMAIN t = 1 .. m /\ i \in 1 .. m
      /\ u \in Seq(S) /\ Len(u) = n + m /\ DOMAIN u = 1 .. n + m
      /\ \A k \in 1 .. n + m : u[k] = IF k <= n THEN s[k] ELSE t[k - n]
  BY ConcatProperties, LenProperties
<1>2. /\ r \in Seq(S) /\ Len(r) = m - 1
      /\ \A k \in 1 .. m - 1 : r[k] = IF k < i THEN t[k] ELSE t[k + 1]
  BY <1>1, WithoutProperties
<1> HIDE DEF u, r
<1>3. n + i \in 1 .. Len(u) /\ ~(n + i <= n) /\ (n + i) - n = i
  BY <1>1
<1>4. /\ b \in Seq(S) /\ Len(b) = (n + m) - 1
      /\ \A k \in 1 .. (n + m) - 1 : b[k] = IF k < n + i THEN u[k] ELSE u[k + 1]
  BY <1>1, <1>3, WithoutProperties
<1>5. /\ a \in Seq(S) /\ Len(a) = n + (m - 1)
      /\ \A k \in 1 .. n + (m - 1) : a[k] = IF k <= n THEN s[k] ELSE r[k - n]
  <2>1. /\ a \in Seq(S) /\ Len(a) = n + Len(r)
        /\ \A k \in 1 .. n + Len(r) : a[k] = IF k <= n THEN s[k] ELSE r[k - n]
    BY <1>2, ConcatProperties
  <2> HIDE DEF a, n
  <2>2. QED
    BY <1>2, <2>1
<1> HIDE DEF a, b
<1>6. \A k \in 1 .. Len(a) : a[k] = b[k]
  <2> SUFFICES ASSUME NEW k \in 1 .. Len(a) PROVE a[k] = b[k]
    OBVIOUS
  <2>1. k \in 1 .. n + (m - 1) /\ k \in 1 .. (n + m) - 1 /\ k \in 1 .. n + m /\ k + 1 \in 1 .. n + m
    <3>1. n \in Nat /\ m \in Nat /\ Len(a) = n + (m - 1)
      BY <1>1, <1>5
    <3> HIDE DEF n, m
    <3>2. k \in 1 .. n + (m - 1)
      BY <3>1
    <3>3. QED
      BY <3>1, <3>2
  <2>2. CASE k <= n
    <3>1. k < n + i
      BY <1>1, <2>2
    <3>2. QED
      BY <1>1, <1>4, <1>5, <2>1, <2>2, <3>1
  <2>3. CASE ~(k <= n) /\ k < n + i
    <3>1. k - n \in 1 .. m - 1 /\ k - n < i
      BY <1>1, <2>1, <2>3
    <3>2. QED
      BY <1>1, <1>2, <1>4, <1>5, <2>1, <2>3, <3>1
  <2>4. CASE ~(k <= n) /\ ~(k < n + i)
    <3>1. k - n \in 1 .. m - 1 /\ ~(k - n < i) /\ ~(k + 1 <= n) /\ (k + 1) - n = (k - n) + 1
      BY <1>1, <2>1, <2>4
    <3>2. QED
      BY <1>1, <1>2, <1>4, <1>5, <2>1, <2>4, <3>1
  <2>5. QED
    BY <2>2, <2>3, <2>4
<1>7. Len(a) = Len(b)
  BY <1>1, <1>4, <1>5
<1>8. a = b
  BY <1>4, <1>5, <1>6, <1>7, SeqEqual
<1>9. QED
  BY <1>1, <1>3, <1>8 DEF a, b, u, r

-----------------------------------------------------------------------------
(* The parts of the mapping.                                              *)

Answers == [to : Sockets, line : Lines \cup {"END"}]
Entries == [worker : Workers, at : Workers \cup {Blank}]

LEMMA AnswerType ==
    ASSUME TypeOK, NEW e \in Events
    PROVE  AnswerOf(e) \in Answers
<1>1. CASE e.type = "send_worker"
  <2>1. e.conn \in Sockets /\ "OK" \in Lines
    BY <1>1 DEF Events, WorkerConns, Sockets, Lines
  <2>2. AnswerOf(e) = [to |-> e.conn, line |-> "OK"]
    BY <1>1 DEF AnswerOf
  <2>3. QED
    BY <2>1, <2>2 DEF Answers
<1>2. CASE e.type = "send_client"
  <2>1. e.conn \in ClientConns
    BY <1>2 DEF Events
  <2>2. SocketOf(e.conn) \in Sockets /\ paired_host[e.conn] \in Lines
    BY <2>1 DEF ClientConns, SocketOf, Sockets, Lines, TypeOK
  <2>3. AnswerOf(e) = [to |-> SocketOf(e.conn), line |-> paired_host[e.conn]]
    BY <1>2 DEF AnswerOf
  <2>4. QED
    BY <2>2, <2>3 DEF Answers
<1>3. CASE e.type = "delete"
  <2>1. e.conn \in Sockets
    BY <1>3 DEF Events
  <2>2. AnswerOf(e) = [to |-> e.conn, line |-> "END"]
    BY <1>3 DEF AnswerOf
  <2>3. QED
    BY <2>1, <2>2 DEF Answers
<1>4. QED
  BY <1>1, <1>2, <1>3 DEF Events

LEMMA PostedType ==
    ASSUME TypeOK
    PROVE  /\ PostedAnswers \in Seq(Answers)
           /\ Len(PostedAnswers) = Len(events)
           /\ \A i \in 1 .. Len(events) : PostedAnswers[i] = AnswerOf(events[i])
<1>1. DOMAIN events = 1 .. Len(events) /\ Len(events) \in Nat
  BY LenProperties DEF TypeOK
<1>2. \A i \in 1 .. Len(events) : AnswerOf(events[i]) \in Answers
  BY <1>1, AnswerType, ElementOfSeq DEF TypeOK
<1>3. PostedAnswers = [i \in 1 .. Len(events) |-> AnswerOf(events[i])]
  BY <1>1 DEF PostedAnswers
<1>4. QED
  BY <1>1, <1>2, <1>3

(* What run() is about to post. *)
ToWorker == [to |-> w, line |-> "OK"]
ToClient == [to |-> SocketOf(c), line |-> paired_host[c]]

LEMMA UnpostedCases ==
    /\ pcLoop = "emit_worker" => UnpostedAnswers = <<ToWorker, ToClient>>
    /\ pcLoop = "emit_client" => UnpostedAnswers = <<ToClient>>
    /\ pcLoop \notin {"emit_worker", "emit_client"} => UnpostedAnswers = <<>>
BY DEF UnpostedAnswers, AnswerOf, ToWorker, ToClient

LEMMA InHandType ==
    ASSUME TypeOK, HandInv, alive
    PROVE  /\ pcLoop \in {"emit_worker", "emit_client"} => ToClient \in Answers
           /\ pcLoop = "emit_worker" => ToWorker \in Answers
<1>1. ASSUME pcLoop \in {"emit_worker", "emit_client"} PROVE ToClient \in Answers
  <2>1. c \in ClientConns
    BY <1>1 DEF HandInv, HoldsClient
  <2>2. SocketOf(c) \in Sockets /\ paired_host[c] \in Lines
    BY <2>1 DEF ClientConns, SocketOf, Sockets, Lines, TypeOK
  <2>3. QED
    BY <2>2 DEF Answers, ToClient
<1>2. ASSUME pcLoop = "emit_worker" PROVE ToWorker \in Answers
  <2>1. w \in Sockets /\ "OK" \in Lines
    BY <1>2 DEF HandInv, HoldsWorker, WorkerConns, Sockets, Lines
  <2>2. QED
    BY <2>1 DEF Answers, ToWorker
<1>3. QED
  BY <1>1, <1>2

LEMMA UnpostedType ==
    ASSUME TypeOK, HandInv, alive
    PROVE  UnpostedAnswers \in Seq(Answers)
<1>1. CASE pcLoop = "emit_worker"
  <2>1. ToWorker \in Answers /\ ToClient \in Answers
    BY <1>1, InHandType
  <2>2. <<ToWorker, ToClient>> \in Seq(Answers)
    BY <2>1, PairProperties
  <2>3. QED
    BY <1>1, <2>2, UnpostedCases
<1>2. CASE pcLoop = "emit_client"
  <2>1. ToClient \in Answers
    BY <1>2, InHandType
  <2>2. <<ToClient>> \in Seq(Answers)
    BY <2>1, SingleProperties
  <2>3. QED
    BY <1>2, <2>2, UnpostedCases
<1>3. CASE pcLoop \notin {"emit_worker", "emit_client"}
  BY <1>3, UnpostedCases
<1>4. QED
  BY <1>1, <1>2, <1>3

LEMMA TakenClientType ==
    ASSUME TypeOK, HandInv
    PROVE  TakenClient \in Seq(Clients)
<1>1. CASE pcLoop \in {"lock_worker_again", "take_worker", "pair"}
  <2>1. SocketOf(c) \in Clients
    BY <1>1 DEF HandInv, HoldsClient, ClientConns, SocketOf
  <2>2. QED
    BY <1>1, <2>1 DEF TakenClient
<1>2. CASE pcLoop \notin {"lock_worker_again", "take_worker", "pair"}
  BY <1>2 DEF TakenClient
<1>3. QED
  BY <1>1, <1>2

LEMMA TurnType ==
    ASSUME TypeOK
    PROVE  TakenWorker \in Seq(Workers) /\ WorkersInTurn \in Seq(Workers)
<1>1. TakenWorker \in Seq(Workers)
  <2>1. CASE pcLoop = "pair" /\ w # Blank
    <3>1. w \in Workers
      BY <2>1 DEF TypeOK, WorkerConns
    <3>2. QED
      BY <2>1, <3>1 DEF TakenWorker
  <2>2. CASE ~(pcLoop = "pair" /\ w # Blank)
    <3>1. TakenWorker = <<>>
      BY <2>2 DEF TakenWorker
    <3>2. QED
      BY <3>1
  <2>3. QED
    BY <2>1, <2>2
<1>2. QED
  BY <1>1, ConcatProperties DEF WorkersInTurn, TypeOK, WorkerConns

LEMMA FreeType ==
    ASSUME TypeOK
    PROVE  /\ Free \in Seq(Entries)
           /\ Len(Free) = Len(WorkersInTurn)
           /\ \A i \in 1 .. Len(WorkersInTurn) :
                  Free[i] = [worker |-> WorkersInTurn[i], at |-> worker_host[WorkersInTurn[i]]]
<1> DEFINE t == WorkersInTurn
<1>1. t \in Seq(Workers) /\ DOMAIN t = 1 .. Len(t) /\ Len(t) \in Nat
  BY TurnType, LenProperties
<1>2. \A i \in 1 .. Len(t) : [worker |-> t[i], at |-> worker_host[t[i]]] \in Entries
  <2>1. \A i \in 1 .. Len(t) : t[i] \in Workers
    BY <1>1, ElementOfSeq
  <2>2. \A x \in Workers : worker_host[x] \in Workers \cup {Blank}
    BY DEF TypeOK, WorkerConns
  <2> HIDE DEF t
  <2>3. QED
    BY <2>1, <2>2 DEF Entries
<1>3. Free = [i \in 1 .. Len(t) |-> [worker |-> t[i], at |-> worker_host[t[i]]]]
  BY <1>1 DEF Free
<1>4. QED
  BY <1>1, <1>2, <1>3

(* Free follows WorkersInTurn: its entries are told apart by position.     *)
LEMMA FreeEqual ==
    ASSUME TypeOK, TypeOK', UNCHANGED <<WorkersInTurn, worker_host>>
    PROVE  Free' = Free
BY DEF Free

-----------------------------------------------------------------------------
(* What the mapping reads, and what leaves it alone.                       *)

LEMMA WaitingStays ==
    ASSUME UNCHANGED <<pcLoop, c, m_client_connections>>
    PROVE  Waiting' = Waiting
BY DEF Waiting, TakenClient, ClientSockets

LEMMA FreeStays ==
    ASSUME UNCHANGED <<pcLoop, w, m_worker_connections, worker_host>>
    PROVE  Free' = Free
BY DEF Free, WorkersInTurn, TakenWorker

LEMMA OwedStays ==
    ASSUME UNCHANGED <<pcLoop, c, w, events, paired_host>>
    PROVE  Owed' = Owed
BY DEF Owed, PostedAnswers, UnpostedAnswers, AnswerOf

LEMMA HeardStays ==
    ASSUME UNCHANGED sent
    PROVE  Heard' = Heard
BY DEF Heard

LEMMA GoneStays ==
    ASSUME \A y \in Sockets : sock'[y] \in Ended <=> sock[y] \in Ended
    PROVE  Gone' = Gone
BY DEF Gone, Ended

(* Writing a line ends no socket; BYE is no answer; any other line is      *)
(* heard by whoever is still there.                                        *)
LEMMA WritingEndsNobody ==
    ASSUME TypeOK, NEW x \in Sockets, NEW line, WriteAndClose(x, line)
    PROVE  Gone' = Gone
<1>1. \A y \in Sockets : sock'[y] \in Ended <=> sock[y] \in Ended
  BY DEF WriteAndClose, Writable, Ended, TypeOK, SockStates
<1>2. QED
  BY <1>1, GoneStays

LEMMA ByeIsNoAnswer ==
    ASSUME TypeOK, NEW x \in Sockets, WriteAndClose(x, "BYE")
    PROVE  Heard' = Heard
<1>1. \A y \in Sockets : sent'[y] \ {"BYE"} = sent[y] \ {"BYE"}
  BY DEF WriteAndClose, TypeOK
<1>2. QED
  BY <1>1 DEF Heard

LEMMA AnswerIsHeard ==
    ASSUME TypeOK, NEW x \in Sockets, NEW line, line # "BYE", sock[x] # "new",
           WriteAndClose(x, line)
    PROVE  Heard' = IF x \in Gone THEN Heard ELSE [Heard EXCEPT ![x] = @ \cup {line}]
<1>1. x \in Gone <=> ~Writable(x)
  BY DEF Gone, Writable, TypeOK, SockStates
<1>2. CASE ~Writable(x)
  BY <1>1, <1>2, HeardStays DEF WriteAndClose
<1>3. CASE Writable(x)
  <2>1. sent' = [sent EXCEPT ![x] = @ \cup {line}]
    BY <1>3 DEF WriteAndClose
  <2>2. \A y \in Sockets :
            sent'[y] = IF y = x THEN sent[x] \cup {line} ELSE sent[y]
    BY <2>1 DEF TypeOK
  <2>3. (sent[x] \cup {line}) \ {"BYE"} = (sent[x] \ {"BYE"}) \cup {line}
    OBVIOUS
  <2>4. \A y \in Sockets :
            sent'[y] \ {"BYE"} =
                IF y = x THEN (sent[x] \ {"BYE"}) \cup {line} ELSE sent[y] \ {"BYE"}
    BY <2>2, <2>3
  <2>5. Heard' = [Heard EXCEPT ![x] = @ \cup {line}]
    BY <2>4 DEF Heard
  <2>6. QED
    BY <1>1, <1>3, <2>5
<1>4. QED
  BY <1>2, <1>3

(* Posting and delivering, seen as answers. *)
LEMMA PostedNext ==
    ASSUME TypeOK, events' \in Seq(Events), UNCHANGED paired_host
    PROVE  /\ PostedAnswers' \in Seq(Answers)
           /\ Len(PostedAnswers') = Len(events')
           /\ \A i \in 1 .. Len(events') : PostedAnswers'[i] = AnswerOf(events'[i])
<1>1. DOMAIN events' = 1 .. Len(events') /\ Len(events') \in Nat
  BY LenProperties
<1>2. \A i \in 1 .. Len(events') : AnswerOf(events'[i]) \in Answers
  BY <1>1, AnswerType, ElementOfSeq
<1>3. PostedAnswers' = [i \in 1 .. Len(events') |-> AnswerOf(events'[i])]
  BY <1>1 DEF PostedAnswers, AnswerOf
<1>4. QED
  BY <1>1, <1>2, <1>3

LEMMA PostedGrows ==
    ASSUME TypeOK, NEW e \in Events, events' = Append(events, e),
           UNCHANGED paired_host
    PROVE  PostedAnswers' = Append(PostedAnswers, AnswerOf(e)) /\ AnswerOf(e) \in Answers
<1> DEFINE p == PostedAnswers
           a == AnswerOf(e)
           n == Len(events)
<1>1. /\ p \in Seq(Answers) /\ Len(p) = n /\ n \in Nat
      /\ \A i \in 1 .. n : p[i] = AnswerOf(events[i])
  BY PostedType, LenProperties DEF TypeOK
<1>2. a \in Answers
  BY AnswerType
<1>3. /\ p' \in Seq(Answers) /\ Len(p') = Len(events')
      /\ \A i \in 1 .. Len(events') : p'[i] = AnswerOf(events'[i])
  BY AppendEvent, PostedNext DEF TypeOK
<1>4. /\ Len(events') = n + 1
      /\ \A i \in 1 .. n + 1 : events'[i] = IF i = n + 1 THEN e ELSE events[i]
  BY AppendProperties DEF TypeOK
<1>5. /\ Append(p, a) \in Seq(Answers) /\ Len(Append(p, a)) = n + 1
      /\ \A i \in 1 .. n + 1 : Append(p, a)[i] = IF i = n + 1 THEN a ELSE p[i]
  BY <1>1, <1>2, AppendProperties
<1>6. \A i \in 1 .. n + 1 : i \in 1 .. n \/ i = n + 1
  BY <1>1
<1> HIDE DEF p, n
<1>7. \A i \in 1 .. n + 1 : p'[i] = Append(p, a)[i]
  <2> SUFFICES ASSUME NEW i \in 1 .. n + 1 PROVE p'[i] = Append(p, a)[i]
    OBVIOUS
  <2>1. CASE i = n + 1
    BY <1>3, <1>4, <1>5, <2>1
  <2>2. CASE i # n + 1
    BY <1>1, <1>3, <1>4, <1>5, <1>6, <2>2
  <2>3. QED
    BY <2>1, <2>2
<1>8. Len(p') = Len(Append(p, a))
  BY <1>3, <1>4, <1>5
<1>9. p' = Append(p, a)
  BY <1>3, <1>5, <1>7, <1>8, SeqEqual
<1>10. QED
  BY <1>2, <1>9 DEF p

LEMMA PostedShrinks ==
    ASSUME TypeOK, events # <<>>, events' = Tail(events), UNCHANGED paired_host
    PROVE  /\ PostedAnswers # <<>> /\ PostedAnswers' = Tail(PostedAnswers)
           /\ Head(PostedAnswers) = AnswerOf(Head(events))
<1> DEFINE p == PostedAnswers
           t == Tail(p)
           n == Len(events)
<1>1. /\ p \in Seq(Answers) /\ Len(p) = n
      /\ \A i \in 1 .. n : p[i] = AnswerOf(events[i])
  BY PostedType
<1>2. /\ n \in Nat \ {0} /\ Head(events) = events[1]
      /\ events' \in Seq(Events) /\ Len(events') = n - 1
      /\ \A i \in 1 .. n - 1 : events'[i] = events[i + 1]
  BY HeadTailProperties, EmptySeq, LenProperties DEF TypeOK
<1>3. /\ p' \in Seq(Answers) /\ Len(p') = n - 1
      /\ \A i \in 1 .. n - 1 : p'[i] = AnswerOf(events'[i])
  BY <1>2, PostedNext
<1> HIDE DEF p, n
<1>4. p # <<>>
  BY <1>1, <1>2, EmptySeq
<1>5. /\ Head(p) = p[1] /\ t \in Seq(Answers) /\ Len(t) = n - 1
      /\ \A i \in 1 .. n - 1 : t[i] = p[i + 1]
  BY <1>1, <1>4, HeadTailProperties
<1> HIDE DEF t
<1>6. \A i \in 1 .. n - 1 : p'[i] = t[i]
  <2> SUFFICES ASSUME NEW i \in 1 .. n - 1 PROVE p'[i] = t[i]
    OBVIOUS
  <2>1. i + 1 \in 1 .. n
    BY <1>2
  <2>2. QED
    BY <1>1, <1>2, <1>3, <1>5, <2>1
<1>7. p' = t
  BY <1>3, <1>5, <1>6, SeqEqual
<1>8. 1 \in 1 .. n
  BY <1>2
<1>9. QED
  BY <1>1, <1>2, <1>4, <1>5, <1>7, <1>8 DEF p, t

-----------------------------------------------------------------------------
(* The main thread's steps, one by one.                                    *)

(* Answering: what the head event brings is what is due next. *)
LEMMA HeadIsAnswered ==
    ASSUME TypeOK, HandInv, alive, events # <<>>, events' = Tail(events),
           UNCHANGED <<pcLoop, c, w, paired_host>>
    PROVE  /\ Owed # <<>> /\ Owed' = Tail(Owed)
           /\ Head(Owed) = AnswerOf(Head(events))
<1>1. PostedAnswers \in Seq(Answers) /\ UnpostedAnswers \in Seq(Answers)
  BY PostedType, UnpostedType
<1>2. UnpostedAnswers' = UnpostedAnswers
  BY DEF UnpostedAnswers, AnswerOf
<1>3. /\ PostedAnswers # <<>> /\ PostedAnswers' = Tail(PostedAnswers)
      /\ Head(PostedAnswers) = AnswerOf(Head(events))
  BY PostedShrinks
<1>4. Owed' = Tail(PostedAnswers) \o UnpostedAnswers
  BY <1>2, <1>3 DEF Owed
<1>5. QED
  BY <1>1, <1>3, <1>4, TailOfConcat DEF Owed

LEMMA AcceptIsQuiet ==
    ASSUME TypeOK, NEW x \in Sockets, Accept(x)
    PROVE  UNCHANGED <<Waiting, Free, Owed, Heard, Gone>>
<1>1. \A y \in Sockets : sock'[y] \in Ended <=> sock[y] \in Ended
  BY DEF Accept, Ended, TypeOK, SockStates
<1>2. UNCHANGED <<requested, sent, connVars, queueVars, loopVars, events>>
  BY DEF Accept
<1>3. QED
  BY <1>1, <1>2, WaitingStays, FreeStays, OwedStays, HeardStays, GoneStays
     DEF connVars, queueVars, loopVars

LEMMA InvalidRequestIsQuiet ==
    ASSUME TypeOK, NEW x \in Sockets, InvalidRequest(x)
    PROVE  UNCHANGED <<Waiting, Free, Owed, Heard, Gone>>
<1>1. WriteAndClose(x, "BYE") /\ UNCHANGED <<connVars, queueVars, loopVars, events>>
  BY DEF InvalidRequest
<1>2. QED
  BY <1>1, WaitingStays, FreeStays, OwedStays, ByeIsNoAnswer, WritingEndsNobody
     DEF connVars, queueVars, loopVars

LEMMA DisconnectedLeaves ==
    ASSUME TypeOK, HandInv, NEW x \in Sockets, Disconnected(x)
    PROVE  Service!Leave(x)
<1> DEFINE e == [type |-> "delete", conn |-> x]
<1>1. /\ alive /\ Writable(x) /\ sock' = [sock EXCEPT ![x] = "gone"]
      /\ events' = Append(events, e)
      /\ UNCHANGED <<requested, sent, connVars, queueVars, loopVars>>
  BY DEF Disconnected, MainReady
<1>2. e \in Events /\ AnswerOf(e) = Service!End(x)
  <2>1. e \in [type : {"delete"}, conn : Sockets]
    OBVIOUS
  <2>2. e \in Events
    BY <2>1 DEF Events
  <2>3. AnswerOf(e) = [to |-> x, line |-> "END"]
    BY DEF AnswerOf
  <2>4. QED
    BY <2>2, <2>3 DEF Service!End
<1> HIDE DEF e
<1>3. x \notin Gone /\ Gone' = Gone \cup {x}
  <2>1. \A y \in Sockets : sock'[y] = IF y = x THEN "gone" ELSE sock[y]
    BY <1>1 DEF TypeOK
  <2>2. QED
    BY <1>1, <2>1 DEF Gone, Writable
<1>4. UNCHANGED <<Waiting, Free, Heard>>
  BY <1>1, WaitingStays, FreeStays, HeardStays DEF connVars, queueVars, loopVars
<1>5. \E i \in 0 .. Len(Owed) :
          Owed' = SubSeq(Owed, 1, i) \o <<Service!End(x)>> \o SubSeq(Owed, i + 1, Len(Owed))
  <2>1. PostedAnswers \in Seq(Answers) /\ UnpostedAnswers \in Seq(Answers)
    BY <1>1, PostedType, UnpostedType
  <2>2. UnpostedAnswers' = UnpostedAnswers
    BY <1>1 DEF UnpostedAnswers, AnswerOf, loopVars, connVars
  <2>3. /\ PostedAnswers' = Append(PostedAnswers, Service!End(x))
        /\ Service!End(x) \in Answers
    BY <1>1, <1>2, PostedGrows DEF connVars
  <2> DEFINE p == PostedAnswers
             u == UnpostedAnswers
             f == Service!End(x)
  <2>4. Owed = p \o u /\ Owed' = Append(p, f) \o u
    BY <2>2, <2>3 DEF Owed
  <2>5. p \in Seq(Answers) /\ u \in Seq(Answers) /\ f \in Answers
    BY <2>1, <2>3
  <2> HIDE DEF p, u, f
  <2>6. Len(p) \in 0 .. Len(Owed) /\ Owed' = Inserted(Owed, Len(p), f)
    BY <2>4, <2>5, InsertBetween
  <2>7. \E i \in 0 .. Len(Owed) : Owed' = Inserted(Owed, i, f)
    BY <2>6
  <2>8. QED
    BY <2>7 DEF f, Inserted
<1>6. QED
  BY <1>3, <1>4, <1>5 DEF Service!Leave

LEMMA RequestWorkerAsks ==
    ASSUME TypeOK, HandInv, NEW x \in Clients, RequestWorker(x)
    PROVE  Service!Ask(x)
<1> DEFINE e == <<x, requested[x] + 1>>
<1>1. /\ alive /\ sock[x] = "open" /\ requested[x] < MaxRequests
      /\ m_client_connections' = Append(m_client_connections, e)
      /\ UNCHANGED <<sock, sent, connVars, m_worker_connections, loopVars, events>>
  BY DEF RequestWorker, MainReady
<1>2. e \in ClientConns /\ SocketOf(e) = x
  BY <1>1, BoundAssumption DEF ClientConns, SocketOf, TypeOK
<1> HIDE DEF e
<1>3. UNCHANGED <<Free, Owed, Heard, Gone>>
  BY <1>1, FreeStays, OwedStays, HeardStays, GoneStays DEF connVars, loopVars
<1>4. x \notin Gone
  BY <1>1 DEF Gone
<1>5. ClientSockets' = Append(ClientSockets, x)
  <2> DEFINE n == Len(m_client_connections)
             s == ClientSockets
             t == Append(s, x)
  <2>1. /\ m_client_connections \in Seq(ClientConns) /\ n \in Nat
        /\ m_client_connections' \in Seq(ClientConns)
        /\ Len(m_client_connections') = n + 1
        /\ \A i \in 1 .. n + 1 :
               m_client_connections'[i] = IF i = n + 1 THEN e ELSE m_client_connections[i]
    BY <1>1, <1>2, AppendProperties, LenProperties DEF TypeOK
  <2>2. /\ s \in Seq(Clients) /\ Len(s) = n
        /\ \A i \in 1 .. n : s[i] = SocketOf(m_client_connections[i])
    BY <2>1, ClientSocketsType DEF ClientSockets
  <2>3. DOMAIN m_client_connections' = 1 .. n + 1
    BY <2>1, LenProperties
  <2>4. ClientSockets' = [i \in 1 .. n + 1 |-> SocketOf(m_client_connections'[i])]
    BY <2>3 DEF ClientSockets, SocketOf
  <2> HIDE DEF s, n
  <2>5. /\ t \in Seq(Clients) /\ Len(t) = n + 1
        /\ \A i \in 1 .. n + 1 : t[i] = IF i = n + 1 THEN x ELSE s[i]
    BY <2>2, AppendProperties
  <2>6. \A i \in 1 .. n + 1 : i \in 1 .. n \/ i = n + 1
    BY <2>1
  <2>7. \A i \in 1 .. n + 1 : SocketOf(m_client_connections'[i]) = t[i]
    BY <1>2, <2>1, <2>2, <2>5, <2>6
  <2> HIDE DEF t
  <2>8. t = [i \in 1 .. n + 1 |-> t[i]]
    BY <2>1, <2>5, LenProperties
  <2>9. QED
    BY <2>4, <2>7, <2>8 DEF s, t
<1>6. TakenClient' = TakenClient
  BY <1>1 DEF TakenClient, loopVars
<1>7. Waiting' = Append(Waiting, x)
  <2>1. TakenClient \in Seq(Clients) /\ ClientSockets \in Seq(Clients)
    BY TakenClientType, ClientSocketsType DEF TypeOK
  <2>2. QED
    BY <1>5, <1>6, <2>1, AppendToConcat DEF Waiting
<1>8. QED
  BY <1>3, <1>4, <1>7 DEF Service!Ask

(* Free follows WorkersInTurn. *)
LEMMA FreeNext ==
    ASSUME TypeOK, WorkersInTurn' \in Seq(Workers),
           worker_host' \in [WorkerConns -> Workers \cup {Blank}]
    PROVE  /\ Free' \in Seq(Entries)
           /\ Len(Free') = Len(WorkersInTurn')
           /\ \A i \in 1 .. Len(WorkersInTurn') :
                  Free'[i] = [worker |-> WorkersInTurn'[i],
                              at |-> worker_host'[WorkersInTurn'[i]]]
<1> DEFINE t == WorkersInTurn'
<1>1. t \in Seq(Workers) /\ DOMAIN t = 1 .. Len(t) /\ Len(t) \in Nat
  BY LenProperties
<1>2. \A i \in 1 .. Len(t) : [worker |-> t[i], at |-> worker_host'[t[i]]] \in Entries
  <2>1. \A i \in 1 .. Len(t) : t[i] \in Workers
    BY <1>1, ElementOfSeq
  <2>2. \A x \in Workers : worker_host'[x] \in Workers \cup {Blank}
    BY DEF WorkerConns
  <2> HIDE DEF t
  <2>3. QED
    BY <2>1, <2>2 DEF Entries
<1>3. Free' = [i \in 1 .. Len(t) |-> [worker |-> t[i], at |-> worker_host'[t[i]]]]
  BY <1>1 DEF Free
<1> HIDE DEF t
<1>4. /\ Free' \in Seq(Entries) /\ Len(Free') = Len(t)
      /\ \A i \in 1 .. Len(t) : Free'[i] = [worker |-> t[i], at |-> worker_host'[t[i]]]
  BY <1>1, <1>2, <1>3
<1>5. QED
  BY <1>4 DEF t

LEMMA FreeGrows ==
    ASSUME TypeOK, NEW x \in Workers,
           WorkersInTurn' = Append(WorkersInTurn, x),
           worker_host' \in [WorkerConns -> Workers \cup {Blank}],
           \A i \in 1 .. Len(WorkersInTurn) :
               worker_host'[WorkersInTurn[i]] = worker_host[WorkersInTurn[i]]
    PROVE  Free' = Append(Free, [worker |-> x, at |-> worker_host'[x]])
<1> DEFINE t == WorkersInTurn
           u == WorkersInTurn'
           n == Len(t)
           e == [worker |-> x, at |-> worker_host'[x]]
           r == Append(Free, e)
<1>1. /\ t \in Seq(Workers) /\ n \in Nat
      /\ u \in Seq(Workers) /\ Len(u) = n + 1
      /\ \A i \in 1 .. n + 1 : u[i] = IF i = n + 1 THEN x ELSE t[i]
  BY TurnType, AppendProperties, LenProperties
<1>2. /\ Free \in Seq(Entries) /\ Len(Free) = n
      /\ \A i \in 1 .. n : Free[i] = [worker |-> t[i], at |-> worker_host[t[i]]]
  BY FreeType
<1>3. /\ Free' \in Seq(Entries) /\ Len(Free') = n + 1
      /\ \A i \in 1 .. n + 1 : Free'[i] = [worker |-> u[i], at |-> worker_host'[u[i]]]
  BY <1>1, FreeNext
<1>4. e \in Entries
  <2>1. worker_host'[x] \in Workers \cup {Blank}
    BY DEF WorkerConns
  <2>2. QED
    BY <2>1 DEF Entries
<1>5. /\ r \in Seq(Entries) /\ Len(r) = n + 1
      /\ \A i \in 1 .. n + 1 : r[i] = IF i = n + 1 THEN e ELSE Free[i]
  BY <1>2, <1>4, AppendProperties
<1>6. \A i \in 1 .. n + 1 : i \in 1 .. n \/ i = n + 1
  BY <1>1
<1> HIDE DEF r, n
<1>7. \A i \in 1 .. n + 1 : Free'[i] = r[i]
  <2> SUFFICES ASSUME NEW i \in 1 .. n + 1 PROVE Free'[i] = r[i]
    OBVIOUS
  <2>1. CASE i = n + 1
    <3>1. u[i] = x
      BY <1>1, <2>1
    <3>2. Free'[i] = [worker |-> u[i], at |-> worker_host'[u[i]]]
      BY <1>3
    <3>3. r[i] = e
      BY <1>5, <2>1
    <3>4. QED
      BY <3>1, <3>2, <3>3
  <2>2. CASE i # n + 1
    <3>1. i \in 1 .. n /\ u[i] = t[i]
      BY <1>1, <1>6, <2>2
    <3>2. worker_host'[t[i]] = worker_host[t[i]]
      BY <3>1 DEF n
    <3>3. Free'[i] = [worker |-> t[i], at |-> worker_host[t[i]]]
      BY <1>3, <3>1, <3>2
    <3>4. QED
      BY <1>2, <1>5, <2>2, <3>1, <3>3
  <2>3. QED
    BY <2>1, <2>2
<1>8. Free' = r
  BY <1>3, <1>5, <1>7, SeqEqual
<1>9. QED
  BY <1>8 DEF r

LEMMA FreeThins ==
    ASSUME TypeOK, NEW i \in DOMAIN WorkersInTurn,
           WorkersInTurn' = Without(WorkersInTurn, i), UNCHANGED worker_host
    PROVE  /\ i \in DOMAIN Free /\ Free[i].worker = WorkersInTurn[i]
           /\ Free' = Without(Free, i)
<1> DEFINE t == WorkersInTurn
           u == WorkersInTurn'
           n == Len(t)
           r == Without(Free, i)
<1>1. t \in Seq(Workers) /\ n \in Nat /\ i \in 1 .. n
  BY TurnType, LenProperties
<1>2. /\ u \in Seq(Workers) /\ Len(u) = n - 1
      /\ \A k \in 1 .. n - 1 : u[k] = IF k < i THEN t[k] ELSE t[k + 1]
  BY <1>1, WithoutProperties
<1>3. /\ Free \in Seq(Entries) /\ Len(Free) = n
      /\ \A k \in 1 .. n : Free[k] = [worker |-> t[k], at |-> worker_host[t[k]]]
  BY FreeType
<1>4. /\ Free' \in Seq(Entries) /\ Len(Free') = n - 1
      /\ \A k \in 1 .. n - 1 : Free'[k] = [worker |-> u[k], at |-> worker_host[u[k]]]
  BY <1>2, FreeNext DEF TypeOK
<1>5. /\ r \in Seq(Entries) /\ Len(r) = n - 1
      /\ \A k \in 1 .. n - 1 : r[k] = IF k < i THEN Free[k] ELSE Free[k + 1]
  BY <1>1, <1>3, WithoutProperties
<1>6. i \in DOMAIN Free
  BY <1>1, <1>3, LenProperties
<1> HIDE DEF r, n, t, u
<1>7. \A k \in 1 .. n - 1 : Free'[k] = r[k]
  <2> SUFFICES ASSUME NEW k \in 1 .. n - 1 PROVE Free'[k] = r[k]
    OBVIOUS
  <2>1. k \in 1 .. n /\ k + 1 \in 1 .. n
    BY <1>1
  <2>2. QED
    BY <1>2, <1>3, <1>4, <1>5, <2>1
<1>8. Free' = r
  BY <1>4, <1>5, <1>7, SeqEqual
<1>9. QED
  BY <1>1, <1>3, <1>6, <1>8 DEF r, t

LEMMA FreeShrinks ==
    ASSUME TypeOK, WorkersInTurn # <<>>, WorkersInTurn' = Tail(WorkersInTurn),
           UNCHANGED worker_host
    PROVE  /\ Free # <<>> /\ Free' = Tail(Free)
           /\ Head(Free) = [worker |-> Head(WorkersInTurn),
                            at |-> worker_host[Head(WorkersInTurn)]]
<1> DEFINE t == WorkersInTurn
           u == WorkersInTurn'
           n == Len(t)
           r == Tail(Free)
<1>1. /\ t \in Seq(Workers) /\ n \in Nat \ {0} /\ Head(t) = t[1]
      /\ u \in Seq(Workers) /\ Len(u) = n - 1
      /\ \A k \in 1 .. n - 1 : u[k] = t[k + 1]
  BY TurnType, HeadTailProperties, LenProperties, EmptySeq
<1>2. /\ Free \in Seq(Entries) /\ Len(Free) = n
      /\ \A k \in 1 .. n : Free[k] = [worker |-> t[k], at |-> worker_host[t[k]]]
  BY FreeType
<1>3. /\ Free' \in Seq(Entries) /\ Len(Free') = n - 1
      /\ \A k \in 1 .. n - 1 : Free'[k] = [worker |-> u[k], at |-> worker_host[u[k]]]
  BY <1>1, FreeNext DEF TypeOK
<1> HIDE DEF n, t, u
<1>4. Free # <<>>
  BY <1>1, <1>2, EmptySeq
<1>5. /\ r \in Seq(Entries) /\ Len(r) = n - 1 /\ Head(Free) = Free[1]
      /\ \A k \in 1 .. n - 1 : r[k] = Free[k + 1]
  BY <1>1, <1>2, <1>4, HeadTailProperties
<1> HIDE DEF r
<1>6. \A k \in 1 .. n - 1 : Free'[k] = r[k]
  <2> SUFFICES ASSUME NEW k \in 1 .. n - 1 PROVE Free'[k] = r[k]
    OBVIOUS
  <2>1. k + 1 \in 1 .. n
    BY <1>1
  <2>2. Free'[k] = [worker |-> u[k], at |-> worker_host[u[k]]]
    BY <1>3
  <2>3. Free[k + 1] = [worker |-> t[k + 1], at |-> worker_host[t[k + 1]]]
    BY <1>2, <2>1
  <2>4. u[k] = t[k + 1] /\ r[k] = Free[k + 1]
    BY <1>1, <1>5
  <2>5. QED
    BY <2>2, <2>3, <2>4
<1>7. Free' = r
  BY <1>3, <1>5, <1>6, SeqEqual
<1>8. 1 \in 1 .. n
  BY <1>1
<1>9. QED
  BY <1>1, <1>2, <1>4, <1>5, <1>7, <1>8 DEF r, t

(* Whoever is in turn is queued, or in run()'s hands. *)
LEMMA InTurnIsUsed ==
    ASSUME TypeOK
    PROVE  \A i \in 1 .. Len(WorkersInTurn) : InQueue(WorkersInTurn[i]) \/ InHand(WorkersInTurn[i])
<1> DEFINE t == TakenWorker
           q == m_worker_connections
           u == t \o q
<1>1. /\ t \in Seq(Workers) /\ q \in Seq(Workers) /\ Len(t) \in Nat /\ Len(q) \in Nat
      /\ DOMAIN q = 1 .. Len(q)
  BY TurnType, LenProperties DEF TypeOK, WorkerConns
<1>2. /\ Len(u) = Len(t) + Len(q)
      /\ \A i \in 1 .. Len(t) + Len(q) : u[i] = IF i <= Len(t) THEN t[i] ELSE q[i - Len(t)]
  BY <1>1, ConcatProperties
<1>3. \A i \in 1 .. Len(t) : InHand(t[i])
  <2>1. CASE pcLoop = "pair" /\ w # Blank
    <3>1. t = <<w>>
      BY <2>1 DEF TakenWorker
    <3>2. \A i \in 1 .. Len(t) : t[i] = w
      BY <3>1
    <3>3. QED
      BY <2>1, <3>2 DEF InHand, HoldsWorker
  <2>2. CASE ~(pcLoop = "pair" /\ w # Blank)
    <3>1. t = <<>>
      BY <2>2 DEF TakenWorker
    <3>2. QED
      BY <3>1
  <2>3. QED
    BY <2>1, <2>2
<1>4. \A i \in 1 .. Len(q) : InQueue(q[i])
  BY <1>1 DEF InQueue
<1> HIDE DEF t, q, u
<1>5. \A i \in 1 .. Len(t) + Len(q) : InQueue(u[i]) \/ InHand(u[i])
  <2> SUFFICES ASSUME NEW i \in 1 .. Len(t) + Len(q) PROVE InQueue(u[i]) \/ InHand(u[i])
    OBVIOUS
  <2>1. CASE i <= Len(t)
    BY <1>1, <1>2, <1>3, <2>1
  <2>2. CASE ~(i <= Len(t))
    <3>1. i - Len(t) \in 1 .. Len(q)
      BY <1>1, <2>2
    <3>2. QED
      BY <1>2, <1>4, <2>2, <3>1
  <2>3. QED
    BY <2>1, <2>2
<1>6. QED
  BY <1>2, <1>5 DEF t, q, u, WorkersInTurn

LEMMA RequestClientOffers ==
    ASSUME TypeOK, WorkerOnceInv, NEW x \in Workers, RequestClient(x)
    PROVE  Service!Offer(x)
<1>1. /\ alive /\ sock[x] = "open" /\ worker_host[x] = Blank
      /\ m_worker_connections' = Append(m_worker_connections, x)
      /\ UNCHANGED <<requested, paired_host, m_client_connections, loopVars, events>>
  BY DEF RequestClient, MainReady
<1>2. /\ worker_host' \in [WorkerConns -> Workers \cup {Blank}]
      /\ worker_host'[x] \in {x, Blank}
      /\ \A y \in Workers : y # x => worker_host'[y] = worker_host[y]
      /\ Heard' = Heard /\ Gone' = Gone
  <2>1. CASE worker_host' = [worker_host EXCEPT ![x] = x] /\ UNCHANGED <<sock, sent>>
    BY <2>1, HeardStays, GoneStays DEF TypeOK, WorkerConns
  <2>2. CASE WriteAndClose(x, "BYE") /\ UNCHANGED worker_host
    <3>1. Heard' = Heard /\ Gone' = Gone
      BY <2>2, ByeIsNoAnswer, WritingEndsNobody DEF Sockets
    <3>2. QED
      BY <1>1, <2>2, <3>1 DEF TypeOK, WorkerConns
  <2>3. QED
    BY <2>1, <2>2 DEF RequestClient
<1>3. Waiting' = Waiting /\ Owed' = Owed
  BY <1>1, WaitingStays, OwedStays DEF loopVars
<1>4. WorkersInTurn' = Append(WorkersInTurn, x)
  <2>1. TakenWorker' = TakenWorker
    BY <1>1 DEF TakenWorker, loopVars
  <2>2. TakenWorker \in Seq(Workers) /\ m_worker_connections \in Seq(Workers)
    BY TurnType DEF TypeOK, WorkerConns
  <2>3. QED
    BY <1>1, <2>1, <2>2, AppendToConcat DEF WorkersInTurn
<1>5. \A i \in 1 .. Len(WorkersInTurn) :
          worker_host'[WorkersInTurn[i]] = worker_host[WorkersInTurn[i]]
  <2> SUFFICES ASSUME NEW i \in 1 .. Len(WorkersInTurn)
               PROVE  worker_host'[WorkersInTurn[i]] = worker_host[WorkersInTurn[i]]
    OBVIOUS
  <2>1. WorkersInTurn[i] \in Workers
    BY TurnType, ElementOfSeq
  <2>2. ~Used(x)
    BY <1>1 DEF WorkerOnceInv
  <2>3. WorkersInTurn[i] # x
    BY <2>2, InTurnIsUsed DEF Used
  <2>4. QED
    BY <1>2, <2>1, <2>3
<1>6. Free' = Append(Free, [worker |-> x, at |-> worker_host'[x]])
  BY <1>2, <1>4, <1>5, FreeGrows
<1>7. x \notin Gone
  BY <1>1 DEF Gone
<1>8. \E at \in {x, Blank} : Free' = Append(Free, [worker |-> x, at |-> at])
  BY <1>2, <1>6
<1>9. QED
  BY <1>2, <1>3, <1>7, <1>8 DEF Service!Offer

-----------------------------------------------------------------------------
(* Whatever a client asks, only sockets that have left are deleted, and    *)
(* handle_disconnect runs for one that has left.                           *)

LEMMA EndedForGood ==
    ASSUME MasterInv, [Next]_vars
    PROVE  \A y \in Sockets : sock[y] \in Ended => sock'[y] \in Ended
<1>1. SocketsAge /\ TypeOK'
  BY SocketStep, TypeStep
<1>2. \A y \in Sockets : sock'[y] \in SockStates
  BY <1>1 DEF TypeOK
<1>3. QED
  BY <1>1, <1>2 DEF SocketsAge, Writable, Ended, SockStates

LEMMA GoneStep == MasterInv /\ GoneInv /\ [Next]_vars => GoneInv'
<1> SUFFICES ASSUME MasterInv, GoneInv, [Next]_vars PROVE GoneInv'
  OBVIOUS
<1> USE DEF MasterInv
<1>1. \A y \in Sockets : sock[y] \in Ended => sock'[y] \in Ended
  BY EndedForGood
<1>2. ASSUME UNCHANGED events, pcMain' = "idle" PROVE GoneInv'
  BY <1>1, <1>2, DeletionsAreOfSockets DEF GoneInv
<1>3. ASSUME UNCHANGED <<sock, events, pcMain, dropped>> PROVE GoneInv'
  BY <1>3 DEF GoneInv
<1>4. ASSUME NEW x \in Sockets, Accept(x) \/ InvalidRequest(x) PROVE GoneInv'
  BY <1>2, <1>4 DEF Accept, InvalidRequest, MainReady, mainVars
<1>5. ASSUME NEW x \in Sockets, Disconnected(x) PROVE GoneInv'
  BY <1>5, DisconnectedIsGone
<1>6. ASSUME NEW x \in Clients, RequestWorker(x) PROVE GoneInv'
  BY <1>2, <1>6 DEF RequestWorker, MainReady, mainVars
<1>7. ASSUME NEW x \in Workers, RequestClient(x) PROVE GoneInv'
  BY <1>2, <1>7 DEF RequestClient, MainReady, mainVars
<1>8. CASE HandleDisconnect
  BY <1>2, <1>8 DEF HandleDisconnect
<1>9. CASE DeliverEvent
  <2>1. events # <<>> /\ events' = Tail(events) /\ pcMain' = "idle"
    BY <1>9 DEF DeliverEvent, SendWorkerInfo, SendClientInfo, DeleteSocket, NextEvent,
                MainReady, mainVars
  <2>2. QED
    BY <1>1, <2>1, Deliver
<1>10. CASE EmitWorker
  <2>1. WorkerInfo(w) \in Events
    BY <1>10 DEF EmitWorker, Goto, HandInv, HoldsWorker, Events
  <2>2. QED
    BY <1>10, <2>1, PostSend DEF EmitWorker, sockVars, mainVars
<1>11. CASE EmitClient
  <2>1. [type |-> "send_client", conn |-> c] \in Events
    BY <1>11 DEF EmitClient, Goto, HandInv, HoldsClient, Events
  <2>2. QED
    BY <1>11, <2>1, PostSend DEF EmitClient, sockVars, mainVars
<1>12. CASE Loop /\ ~EmitWorker /\ ~EmitClient
  BY <1>3, <1>12 DEF Loop, TestContinue, LockClient, LockWorkerAndCheck, TakeClient,
     LockWorkerAgain, TakeWorker, Pair, sockVars, mainVars
<1>13. CASE Stop \/ UNCHANGED vars
  BY <1>3, <1>13 DEF Stop, vars, sockVars, mainVars
<1>14. QED
  BY <1>4, <1>5, <1>6, <1>7, <1>8, <1>9, <1>10, <1>11, <1>12, <1>13 DEF Next, Main

LEMMA GoneInvariant == Spec => []GoneInv
<1>1. Init => GoneInv
  BY DEF Init, GoneInv
<1>2. QED
  BY <1>1, GoneStep, MasterInvariant, PTL DEF Spec

LEMMA ForgottenClient ==
    ASSUME TypeOK, NEW i \in DOMAIN m_client_connections,
           m_client_connections' = Without(m_client_connections, i)
    PROVE  /\ i \in DOMAIN ClientSockets
           /\ ClientSockets' = Without(ClientSockets, i)
<1> DEFINE q == m_client_connections
           r == m_client_connections'
           n == Len(q)
           s == ClientSockets
           t == Without(s, i)
<1>1. q \in Seq(ClientConns) /\ n \in Nat /\ DOMAIN q = 1 .. n /\ i \in 1 .. n
  BY LenProperties DEF TypeOK
<1>2. /\ r \in Seq(ClientConns) /\ Len(r) = n - 1 /\ DOMAIN r = 1 .. n - 1
      /\ \A k \in 1 .. n - 1 : r[k] = IF k < i THEN q[k] ELSE q[k + 1]
  BY <1>1, WithoutProperties, LenProperties
<1>3. /\ s \in Seq(Clients) /\ Len(s) = n /\ DOMAIN s = 1 .. n
      /\ \A k \in 1 .. n : s[k] = SocketOf(q[k])
  BY <1>1, ClientSocketsType DEF ClientSockets
<1>4. s' = [k \in 1 .. n - 1 |-> SocketOf(r[k])]
  BY <1>2 DEF ClientSockets, SocketOf
<1> HIDE DEF s, n, q, r
<1>5. /\ t \in Seq(Clients) /\ Len(t) = n - 1
      /\ \A k \in 1 .. n - 1 : t[k] = IF k < i THEN s[k] ELSE s[k + 1]
  BY <1>1, <1>3, WithoutProperties
<1> HIDE DEF t
<1>6. \A k \in 1 .. n - 1 : SocketOf(r[k]) = t[k]
  <2> SUFFICES ASSUME NEW k \in 1 .. n - 1 PROVE SocketOf(r[k]) = t[k]
    OBVIOUS
  <2>1. k \in 1 .. n /\ k + 1 \in 1 .. n
    BY <1>1
  <2>2. QED
    BY <1>2, <1>3, <1>5, <2>1
<1>7. t = [k \in 1 .. n - 1 |-> t[k]]
  BY <1>1, <1>5, LenProperties
<1>8. s' = t
  BY <1>4, <1>6, <1>7
<1>9. QED
  BY <1>1, <1>3, <1>8 DEF s, t

(* With distinct ports the scan stops only at sockets that have left: the  *)
(* dropped one, or one destroyed before.                                   *)
LEMMA EqualIsGone ==
    ASSUME PortsDiffer, GoneInv, pcMain = "hd_client", NEW x \in Sockets, MayEqual(x)
    PROVE  x \in Gone
<1>1. dropped \in Sockets /\ sock[dropped] = "gone"
  BY DEF GoneInv
<1>2. CASE x = dropped
  BY <1>1, <1>2 DEF Gone
<1>3. CASE sock[x] = "deleted"
  BY <1>3 DEF Gone
<1>4. CASE Writable(x) /\ Port[x] = Port[dropped]
  <2>1. x = dropped
    BY <1>1, <1>4 DEF PortsDiffer
  <2>2. QED
    BY <1>1, <1>4, <2>1 DEF Writable
<1>5. QED
  BY <1>2, <1>3, <1>4 DEF MayEqual

(* handle_disconnect forgets a socket that left, or nobody. *)
LEMMA HandleDisconnectForgets ==
    ASSUME PortsDiffer, TypeOK, HandInv, GoneInv, HandleDisconnect
    PROVE  Service!Forget \/ UNCHANGED <<Waiting, Free, Owed, Heard, Gone>>
<1>1. /\ alive /\ pcMain = "hd_client"
      /\ DropWorker \/ DropClient \/ DropNothing
      /\ UNCHANGED <<sockVars, connVars, loopVars, events>>
  BY DEF HandleDisconnect
<1>2. UNCHANGED <<Owed, Heard, Gone>>
  BY <1>1, OwedStays, HeardStays, GoneStays DEF sockVars, connVars, loopVars
<1>3. TakenClient' = TakenClient /\ TakenWorker' = TakenWorker
  BY <1>1 DEF TakenClient, TakenWorker, loopVars
<1>4. \A x \in Sockets : MayEqual(x) => x \in Gone
  BY <1>1, EqualIsGone
<1>5. CASE DropWorker
  <2>1. PICK i \in DOMAIN m_worker_connections :
            /\ MayEqual(m_worker_connections[i])
            /\ m_worker_connections' = Without(m_worker_connections, i)
            /\ UNCHANGED m_client_connections
    BY <1>5 DEF DropWorker, StopsAt
  <2>2. m_worker_connections[i] \in Gone
    <3>1. m_worker_connections[i] \in Sockets
      BY ElementOfSeq, LenProperties DEF TypeOK, WorkerConns, Sockets
    <3>2. QED
      BY <1>4, <2>1, <3>1
  <2> DEFINE j == Len(TakenWorker) + i
  <2>3. /\ j \in DOMAIN WorkersInTurn
        /\ WorkersInTurn[j] = m_worker_connections[i]
        /\ WorkersInTurn' = Without(WorkersInTurn, j)
    <3>1. TakenWorker \in Seq(Workers) /\ m_worker_connections \in Seq(Workers)
      BY TurnType DEF TypeOK, WorkerConns
    <3>2. QED
      BY <1>3, <2>1, <3>1, WithoutInConcat DEF WorkersInTurn
  <2>4. /\ j \in DOMAIN Free /\ Free[j].worker = m_worker_connections[i]
        /\ Free' = Without(Free, j)
    <3> HIDE DEF j
    <3>1. QED
      BY <1>1, <2>3, FreeThins DEF connVars
  <2>5. \E k \in DOMAIN Free : Free[k].worker \in Gone /\ Free' = Service!But(Free, k)
    <3> HIDE DEF j
    <3>1. Free' = Service!But(Free, j)
      BY <2>4 DEF Service!But, Without
    <3>2. QED
      BY <2>2, <2>4, <3>1
  <2>6. Waiting' = Waiting
    BY <1>1, <2>1, WaitingStays DEF loopVars
  <2>7. QED
    BY <1>2, <2>5, <2>6 DEF Service!Forget
<1>6. CASE DropClient
  <2>1. PICK i \in DOMAIN m_client_connections :
            /\ MayEqual(ClientSockets[i])
            /\ m_client_connections' = Without(m_client_connections, i)
            /\ UNCHANGED m_worker_connections
    BY <1>6 DEF DropClient, StopsAt
  <2>2. /\ ClientSockets \in Seq(Clients) /\ i \in DOMAIN ClientSockets
        /\ ClientSockets' = Without(ClientSockets, i)
    BY <2>1, ForgottenClient, ClientSocketsType DEF TypeOK
  <2>3. ClientSockets[i] \in Gone
    <3>1. ClientSockets[i] \in Sockets
      BY <2>2, ElementOfSeq, LenProperties DEF Sockets
    <3>2. QED
      BY <1>4, <2>1, <3>1
  <2> DEFINE j == Len(TakenClient) + i
  <2>4. /\ j \in DOMAIN Waiting /\ Waiting[j] = ClientSockets[i]
        /\ Waiting' = Without(Waiting, j)
    BY <1>3, <2>2, TakenClientType, WithoutInConcat DEF Waiting
  <2>5. \E k \in DOMAIN Waiting : Waiting[k] \in Gone /\ Waiting' = Service!But(Waiting, k)
    <3> HIDE DEF j
    <3>1. Waiting' = Service!But(Waiting, j)
      BY <2>4 DEF Service!But, Without
    <3>2. QED
      BY <2>3, <2>4, <3>1
  <2>6. Free' = Free
    BY <1>1, <2>1, FreeStays DEF loopVars, connVars
  <2>7. QED
    BY <1>2, <2>5, <2>6 DEF Service!Forget
<1>7. CASE DropNothing
  <2>1. Waiting' = Waiting /\ Free' = Free
    BY <1>1, <1>7, WaitingStays, FreeStays DEF DropNothing, loopVars, connVars
  <2>2. QED
    BY <1>2, <2>1
<1>8. QED
  BY <1>1, <1>5, <1>6, <1>7

(* The three deliveries. *)
LEMMA SendWorkerInfoAnswers ==
    ASSUME TypeOK, HandInv, WorkerOnceInv, SendWorkerInfo
    PROVE  Service!Answer
<1> DEFINE e == Head(events)
           x == e.conn
           a == Head(Owed)
<1>1. /\ alive /\ events # <<>> /\ e.type = "send_worker"
      /\ WriteAndClose(x, "OK") /\ events' = Tail(events)
      /\ UNCHANGED <<connVars, queueVars, loopVars>>
  BY DEF SendWorkerInfo, NextEvent, MainReady
<1>2. 1 \in DOMAIN events /\ e = events[1] /\ e \in Events /\ x \in Workers
  BY <1>1, HeadEvent, EventTarget
<1>3. sock[x] # "new"
  <2>1. e = WorkerInfo(x)
    BY <1>1, <1>2 DEF Events
  <2>2. Used(x)
    BY <1>2, <2>1 DEF Used, IsPosted
  <2>3. QED
    BY <1>2, <2>2, UsedIsAccepted
<1>4. a = [to |-> x, line |-> "OK"] /\ Owed # <<>> /\ Owed' = Tail(Owed)
  BY <1>1, HeadIsAnswered DEF AnswerOf, loopVars, connVars
<1>5. Waiting' = Waiting /\ Free' = Free
  BY <1>1, WaitingStays, FreeStays DEF loopVars, connVars, queueVars
<1>6. x \in Sockets
  BY <1>2 DEF Sockets
<1> HIDE DEF x
<1>7. Gone' = Gone
  BY <1>1, <1>6, WritingEndsNobody
<1>8. Heard' = IF x \in Gone THEN Heard ELSE [Heard EXCEPT ![x] = @ \cup {"OK"}]
  BY <1>1, <1>3, <1>6, AnswerIsHeard
<1>9. a.to = x /\ a.line = "OK"
  BY <1>4
<1> HIDE DEF a
<1>10. QED
  BY <1>4, <1>5, <1>7, <1>8, <1>9 DEF Service!Answer, a

LEMMA SendClientInfoAnswers ==
    ASSUME TypeOK, HandInv, ClientOnceInv, SendClientInfo
    PROVE  Service!Answer
<1> DEFINE e == Head(events)
           q == e.conn
           x == SocketOf(q)
           line == paired_host[q]
           a == Head(Owed)
<1>1. /\ alive /\ events # <<>> /\ e.type = "send_client"
      /\ WriteAndClose(x, line) /\ events' = Tail(events)
      /\ UNCHANGED <<connVars, queueVars, loopVars>>
  BY DEF SendClientInfo, NextEvent, MainReady
<1>2. /\ 1 \in DOMAIN events /\ e = events[1] /\ e \in Events
      /\ q \in ClientConns /\ x \in Clients
  BY <1>1, HeadEvent, EventTarget
<1>3. sock[x] # "new"
  <2>1. Entered(q, requested)
    BY <1>1, <1>2 DEF ClientOnceInv
  <2>2. q[2] \in 1 .. MaxRequests /\ q[2] <= requested[x]
    BY <1>2, <2>1 DEF Entered, ClientConns, SocketOf
  <2>3. requested[x] # 0
    BY <2>2, BoundAssumption
  <2>4. QED
    BY <1>2, <2>3 DEF ClientOnceInv
<1>4. line # "BYE"
  BY <1>2, SocketAssumption DEF TypeOK, Sockets
<1>5. a = [to |-> x, line |-> line] /\ Owed # <<>> /\ Owed' = Tail(Owed)
  BY <1>1, HeadIsAnswered DEF AnswerOf, loopVars, connVars
<1>6. Waiting' = Waiting /\ Free' = Free
  BY <1>1, WaitingStays, FreeStays DEF loopVars, connVars, queueVars
<1>7. x \in Sockets
  BY <1>2 DEF Sockets
<1> HIDE DEF x, line
<1>8. Gone' = Gone
  BY <1>1, <1>7, WritingEndsNobody
<1>9. Heard' = IF x \in Gone THEN Heard ELSE [Heard EXCEPT ![x] = @ \cup {line}]
  BY <1>1, <1>3, <1>4, <1>7, AnswerIsHeard
<1>10. a.to = x /\ a.line = line
  BY <1>5
<1> HIDE DEF a
<1>11. QED
  BY <1>5, <1>6, <1>8, <1>9, <1>10 DEF Service!Answer, a

LEMMA DeleteSocketAnswers ==
    ASSUME TypeOK, HandInv, GoneInv, DeleteSocket
    PROVE  Service!Answer
<1> DEFINE e == Head(events)
           x == e.conn
           a == Head(Owed)
<1>1. /\ alive /\ events # <<>> /\ e.type = "delete"
      /\ sock' = [sock EXCEPT ![x] = "deleted"] /\ events' = Tail(events)
      /\ UNCHANGED <<sent, connVars, queueVars, loopVars>>
  BY DEF DeleteSocket, NextEvent, MainReady
<1>2. 1 \in DOMAIN events /\ e = events[1] /\ x \in Sockets
  BY <1>1, HeadEvent, EventTarget
<1>3. sock[x] \in Ended
  BY <1>1, <1>2 DEF GoneInv
<1>4. a = [to |-> x, line |-> "END"] /\ Owed # <<>> /\ Owed' = Tail(Owed)
  BY <1>1, HeadIsAnswered DEF AnswerOf, loopVars, connVars
<1>5. Waiting' = Waiting /\ Free' = Free /\ Heard' = Heard
  BY <1>1, WaitingStays, FreeStays, HeardStays DEF loopVars, connVars, queueVars
<1> HIDE DEF x
<1>6. Gone' = Gone /\ x \in Gone
  <2>1. \A y \in Sockets : sock'[y] \in Ended <=> sock[y] \in Ended
    BY <1>1, <1>2, <1>3 DEF Ended, TypeOK
  <2>2. QED
    BY <1>2, <1>3, <2>1, GoneStays DEF Gone, Ended
<1>7. a.to = x
  BY <1>4
<1> HIDE DEF a
<1>8. QED
  BY <1>4, <1>5, <1>6, <1>7 DEF Service!Answer, a

LEMMA StopIsQuiet ==
    ASSUME Stop \/ UNCHANGED vars
    PROVE  UNCHANGED <<Waiting, Free, Owed, Heard, Gone>>
<1>1. UNCHANGED <<sockVars, connVars, queueVars, loopVars, events>>
  BY DEF Stop, vars
<1>2. QED
  BY <1>1, WaitingStays, FreeStays, OwedStays, HeardStays, GoneStays
     DEF sockVars, connVars, queueVars, loopVars

-----------------------------------------------------------------------------
(* run()'s steps, one by one.                                              *)

LEMMA LoopIsQuiet ==
    ASSUME TestContinue \/ LockClient \/ LockWorkerAndCheck \/ LockWorkerAgain
    PROVE  UNCHANGED <<Waiting, Free, Owed, Heard, Gone>>
<1>1. UNCHANGED <<sockVars, connVars, queueVars, c, w, events>>
  BY DEF TestContinue, LockClient, LockWorkerAndCheck, LockWorkerAgain
<1>2. /\ TakenClient' = TakenClient /\ TakenWorker' = TakenWorker
      /\ UnpostedAnswers' = UnpostedAnswers
  <2>1. CASE LockWorkerAgain
    BY <2>1 DEF LockWorkerAgain, Goto, TakenClient, TakenWorker, UnpostedAnswers
  <2>2. CASE TestContinue \/ LockClient \/ LockWorkerAndCheck
    <3> DEFINE Places == {"test", "lock_client", "lock_worker", "take_client", "returned"}
    <3>1. pcLoop \in Places /\ pcLoop' \in Places
      BY <2>2 DEF TestContinue, LockClient, LockWorkerAndCheck, Goto
    <3>2. QED
      BY <3>1 DEF TakenClient, TakenWorker, UnpostedAnswers
  <2>3. QED
    BY <2>1, <2>2
<1>3. Waiting' = Waiting
  BY <1>1, <1>2 DEF Waiting, ClientSockets, queueVars
<1>4. Free' = Free
  BY <1>1, <1>2 DEF Free, WorkersInTurn, queueVars, connVars
<1>5. Owed' = Owed
  BY <1>1, <1>2 DEF Owed, PostedAnswers, AnswerOf, connVars
<1>6. QED
  BY <1>1, <1>3, <1>4, <1>5, HeardStays, GoneStays DEF sockVars

(* The client run() takes is still the first one waiting. *)
LEMMA TakeClientIsQuiet ==
    ASSUME TypeOK, SemaInv, TakeClient
    PROVE  UNCHANGED <<Waiting, Free, Owed, Heard, Gone>>
<1> DEFINE q == m_client_connections
           n == Len(q)
           s == ClientSockets
<1>1. /\ pcLoop = "take_client" /\ pcLoop' = "lock_worker_again"
      /\ c' = Head(q) /\ m_client_connections' = Tail(q)
      /\ UNCHANGED <<sockVars, connVars, m_worker_connections, w, events>>
  BY DEF TakeClient, Goto
<1>2. /\ q \in Seq(ClientConns) /\ n \in Nat \ {0} /\ Head(q) = q[1]
      /\ Tail(q) \in Seq(ClientConns) /\ DOMAIN Tail(q) = 1 .. n - 1
      /\ \A k \in 1 .. n - 1 : Tail(q)[k] = q[k + 1]
  <2>1. q # <<>> /\ q \in Seq(ClientConns)
    BY <1>1 DEF SemaInv, TypeOK
  <2>2. QED
    BY <2>1, HeadTailProperties, LenProperties, EmptySeq
<1>3. /\ s \in Seq(Clients) /\ Len(s) = n
      /\ \A k \in 1 .. n : s[k] = SocketOf(q[k])
  BY <1>2, ClientSocketsType, LenProperties DEF ClientSockets
<1>4. s' = [k \in 1 .. n - 1 |-> SocketOf(q[k + 1])]
  BY <1>1, <1>2 DEF ClientSockets, SocketOf
<1> HIDE DEF s, q, n
<1>5. /\ s # <<>> /\ Head(s) = s[1] /\ Tail(s) \in Seq(Clients) /\ Len(Tail(s)) = n - 1
      /\ \A k \in 1 .. n - 1 : Tail(s)[k] = s[k + 1]
  <2>1. s # <<>>
    BY <1>2, <1>3, EmptySeq
  <2>2. QED
    BY <1>3, <2>1, HeadTailProperties
<1>6. \A k \in 1 .. n - 1 : SocketOf(q[k + 1]) = Tail(s)[k]
  <2> SUFFICES ASSUME NEW k \in 1 .. n - 1 PROVE SocketOf(q[k + 1]) = Tail(s)[k]
    OBVIOUS
  <2>1. k + 1 \in 1 .. n
    BY <1>2
  <2>2. QED
    BY <1>3, <1>5, <2>1
<1>7. Tail(s) = [k \in 1 .. n - 1 |-> Tail(s)[k]]
  BY <1>2, <1>5, LenProperties
<1>8. s' = Tail(s)
  BY <1>4, <1>6, <1>7
<1>9. SocketOf(Head(q)) = Head(s)
  <2>1. 1 \in 1 .. n
    BY <1>2
  <2>2. QED
    BY <1>2, <1>3, <1>5, <2>1
<1>10. Waiting' = Waiting
  <2>1. TakenClient = <<>> /\ TakenClient' = <<Head(s)>>
    BY <1>1, <1>9 DEF TakenClient, SocketOf, q
  <2>2. Waiting' = <<Head(s)>> \o Tail(s)
    BY <1>8, <2>1 DEF Waiting, s
  <2>3. Waiting = <<>> \o s
    BY <2>1 DEF Waiting, s
  <2>4. <<>> \o s = s
    BY <1>3, ConcatEmptySeq
  <2>5. <<Head(s)>> \o Tail(s) = s
    BY <1>3, <1>5, HeadThenTail
  <2>6. QED
    BY <2>2, <2>3, <2>4, <2>5
<1>11. Free' = Free
  <2>1. TakenWorker' = TakenWorker
    BY <1>1 DEF TakenWorker
  <2>2. QED
    BY <1>1, <2>1 DEF Free, WorkersInTurn, connVars
<1>12. Owed' = Owed
  <2>1. UnpostedAnswers = <<>> /\ UnpostedAnswers' = <<>>
    BY <1>1 DEF UnpostedAnswers
  <2>2. PostedAnswers' = PostedAnswers
    BY <1>1 DEF PostedAnswers, AnswerOf, connVars
  <2>3. QED
    BY <2>1, <2>2 DEF Owed
<1>13. QED
  BY <1>1, <1>10, <1>11, <1>12, HeardStays, GoneStays DEF sockVars

(* So is the worker it takes; if there was none the process ended.         *)
LEMMA TakeWorkerIsQuiet ==
    ASSUME TypeOK, WorkerOnceInv, TakeWorker
    PROVE  UNCHANGED <<Waiting, Free, Owed, Heard, Gone>>
<1>1. /\ pcLoop = "take_worker" /\ pcLoop' = "pair"
      /\ UNCHANGED <<sockVars, connVars, m_client_connections, c, events>>
  BY DEF TakeWorker, Goto
<1>2. Waiting' = Waiting
  <2>1. TakenClient' = TakenClient
    BY <1>1 DEF TakenClient
  <2>2. QED
    BY <1>1, <2>1 DEF Waiting, ClientSockets
<1>3. TakenWorker = <<>> /\ m_worker_connections \in Seq(Workers)
  BY <1>1 DEF TakenWorker, TypeOK, WorkerConns
<1>4. WorkersInTurn = m_worker_connections
  BY <1>3, ConcatEmptySeq DEF WorkersInTurn
<1>5. WorkersInTurn' = WorkersInTurn
  <2>1. CASE m_worker_connections # <<>>
    <3> DEFINE q == m_worker_connections
    <3>1. w' = Head(q) /\ m_worker_connections' = Tail(q)
      BY <2>1 DEF TakeWorker
    <3>2. Head(q) # Blank
      BY <1>3, <2>1, HeadTailProperties, SocketAssumption DEF Sockets
    <3>3. TakenWorker' = <<Head(q)>>
      BY <1>1, <3>1, <3>2 DEF TakenWorker
    <3>4. WorkersInTurn' = <<Head(q)>> \o Tail(q)
      BY <3>1, <3>3 DEF WorkersInTurn
    <3>5. QED
      BY <1>3, <1>4, <2>1, <3>4, HeadThenTail
  <2>2. CASE m_worker_connections = <<>>
    <3>1. w' = w /\ m_worker_connections' = m_worker_connections
      BY <2>2 DEF TakeWorker
    <3>2. w = Blank
      BY <1>1 DEF WorkerOnceInv, HoldsWorker
    <3>3. TakenWorker' = <<>>
      BY <3>1, <3>2 DEF TakenWorker
    <3>4. WorkersInTurn' = <<>> \o m_worker_connections
      BY <3>1, <3>3 DEF WorkersInTurn
    <3>5. QED
      BY <1>3, <1>4, <3>4, ConcatEmptySeq
  <2>3. QED
    BY <2>1, <2>2
<1>6. Free' = Free
  BY <1>1, <1>5 DEF Free, connVars
<1>7. Owed' = Owed
  <2>1. UnpostedAnswers = <<>> /\ UnpostedAnswers' = <<>>
    BY <1>1 DEF UnpostedAnswers
  <2>2. PostedAnswers' = PostedAnswers
    BY <1>1 DEF PostedAnswers, AnswerOf, connVars
  <2>3. QED
    BY <2>1, <2>2 DEF Owed
<1>8. QED
  BY <1>1, <1>2, <1>6, <1>7, HeardStays, GoneStays DEF sockVars

LEMMA PairMatches ==
    ASSUME TypeOK, HandInv, ClientOnceInv, Pair
    PROVE  Service!Match
<1>1. /\ alive /\ pcLoop = "pair" /\ pcLoop' = "emit_worker"
      /\ paired_host' = [paired_host EXCEPT ![c] = worker_host[w]]
      /\ UNCHANGED <<sockVars, worker_host, queueVars, c, w, events>>
  BY DEF Pair, Goto
<1>2. c \in ClientConns /\ w \in Workers /\ w # Blank
  BY <1>1, SocketAssumption DEF HandInv, HoldsClient, HoldsWorker, WorkerConns, Sockets
<1>3. SocketOf(c) \in Clients
  BY <1>2 DEF ClientConns, SocketOf
<1>4. /\ Waiting # <<>> /\ Head(Waiting) = SocketOf(c)
      /\ Waiting' = Tail(Waiting)
  <2> DEFINE x == SocketOf(c)
             t == <<x>>
             s == ClientSockets
  <2>1. Waiting = t \o s
    BY <1>1 DEF Waiting, TakenClient
  <2>2. Waiting' = <<>> \o s
    BY <1>1 DEF Waiting, TakenClient, ClientSockets, queueVars
  <2>3. s \in Seq(Clients)
    BY ClientSocketsType DEF TypeOK
  <2> HIDE DEF x, s
  <2>4. t \in Seq(Clients) /\ t # <<>> /\ Head(t) = x /\ Tail(t) = <<>>
    BY <1>3 DEF x
  <2> HIDE DEF t
  <2>5. t \o s # <<>> /\ Head(t \o s) = Head(t) /\ Tail(t \o s) = Tail(t) \o s
    BY <2>3, <2>4, TailOfConcat
  <2>6. QED
    BY <2>1, <2>2, <2>4, <2>5 DEF x
<1>5. /\ WorkersInTurn # <<>> /\ Head(WorkersInTurn) = w
      /\ WorkersInTurn' = Tail(WorkersInTurn)
  <2> DEFINE t == <<w>>
             q == m_worker_connections
  <2>1. WorkersInTurn = t \o q
    BY <1>1, <1>2 DEF WorkersInTurn, TakenWorker
  <2>2. WorkersInTurn' = <<>> \o q
    BY <1>1 DEF WorkersInTurn, TakenWorker, queueVars
  <2>3. q \in Seq(Workers)
    BY DEF TypeOK, WorkerConns
  <2>4. t \in Seq(Workers) /\ t # <<>> /\ Head(t) = w /\ Tail(t) = <<>>
    BY <1>2
  <2> HIDE DEF t
  <2>5. t \o q # <<>> /\ Head(t \o q) = Head(t) /\ Tail(t \o q) = Tail(t) \o q
    BY <2>3, <2>4, TailOfConcat
  <2>6. QED
    BY <2>1, <2>2, <2>4, <2>5
<1>6. /\ Free # <<>> /\ Free' = Tail(Free)
      /\ Head(Free) = [worker |-> w, at |-> worker_host[w]]
  BY <1>1, <1>5, FreeShrinks
<1>7. PostedAnswers' = PostedAnswers
  <2>1. \A i \in DOMAIN events : AnswerOf(events[i])' = AnswerOf(events[i])
    <3> SUFFICES ASSUME NEW i \in DOMAIN events
                 PROVE  AnswerOf(events[i])' = AnswerOf(events[i])
      OBVIOUS
    <3>1. ~IsClientInfo(events[i], c)
      BY <1>1 DEF ClientOnceInv, HoldsClient
    <3>2. CASE events[i].type = "send_client"
      <4>1. events[i].conn # c /\ events[i].conn \in ClientConns
        BY <3>1, <3>2, EventTarget DEF IsClientInfo
      <4>2. paired_host'[events[i].conn] = paired_host[events[i].conn]
        BY <1>1, <4>1 DEF TypeOK
      <4>3. QED
        BY <1>1, <3>2, <4>2 DEF AnswerOf, SocketOf
    <3>3. CASE events[i].type = "send_worker"
      BY <1>1, <3>3 DEF AnswerOf
    <3>4. CASE events[i].type = "delete"
      BY <1>1, <3>4 DEF AnswerOf
    <3>5. events[i].type \in {"send_client", "send_worker", "delete"}
      BY EventTarget DEF Events
    <3>6. QED
      BY <3>2, <3>3, <3>4, <3>5
  <2>2. QED
    BY <1>1, <2>1 DEF PostedAnswers
<1>8. Owed' = Owed \o <<[to |-> w, line |-> "OK"],
                         [to |-> SocketOf(c), line |-> worker_host[w]]>>
  <2>1. Owed = PostedAnswers \o <<>> /\ PostedAnswers \in Seq(Answers)
    BY <1>1, PostedType DEF Owed, UnpostedAnswers
  <2>2. Owed = PostedAnswers
    BY <2>1, ConcatEmptySeq
  <2>3. paired_host'[c] = worker_host[w]
    BY <1>1, <1>2 DEF TypeOK
  <2>4. UnpostedAnswers' = <<[to |-> w, line |-> "OK"],
                             [to |-> SocketOf(c), line |-> worker_host[w]]>>
    BY <1>1, <2>3 DEF UnpostedAnswers, AnswerOf, SocketOf
  <2>5. QED
    BY <1>7, <2>2, <2>4 DEF Owed
<1>9. Heard' = Heard /\ Gone' = Gone
  BY <1>1, HeardStays, GoneStays DEF sockVars
<1>10. Head(Free).worker = w /\ Head(Free).at = worker_host[w]
  BY <1>6
<1>11. QED
  BY <1>4, <1>6, <1>8, <1>9, <1>10 DEF Service!Match

(* An answer that was owed is owed still when it has been posted.          *)
LEMMA EmitWorkerIsQuiet ==
    ASSUME TypeOK, HandInv, EmitWorker
    PROVE  UNCHANGED <<Waiting, Free, Owed, Heard, Gone>>
<1>1. /\ alive /\ pcLoop = "emit_worker" /\ pcLoop' = "emit_client"
      /\ events' = Append(events, WorkerInfo(w))
      /\ UNCHANGED <<sockVars, connVars, queueVars, c, w>>
  BY DEF EmitWorker, Goto
<1>2. TakenClient' = TakenClient /\ TakenWorker' = TakenWorker
  BY <1>1 DEF TakenClient, TakenWorker
<1>3. Waiting' = Waiting /\ Free' = Free
  BY <1>1, <1>2 DEF Waiting, ClientSockets, Free, WorkersInTurn, queueVars, connVars
<1>4. Owed' = Owed
  <2> DEFINE p == PostedAnswers
             a == ToWorker
             b == ToClient
  <2>1. p \in Seq(Answers) /\ a \in Answers /\ b \in Answers
    BY <1>1, PostedType, InHandType
  <2>2. PostedAnswers' = Append(p, a)
    <3>1. WorkerInfo(w) \in Events /\ AnswerOf(WorkerInfo(w)) = a
      BY <1>1 DEF HandInv, HoldsWorker, Events, AnswerOf, ToWorker
    <3>2. QED
      BY <1>1, <3>1, PostedGrows DEF connVars
  <2>3. Owed = p \o <<a, b>>
    BY <1>1, UnpostedCases DEF Owed
  <2>4. UnpostedAnswers' = <<b>>
    BY <1>1 DEF UnpostedAnswers, AnswerOf, SocketOf, ToClient, connVars
  <2>5. Owed' = Append(p, a) \o <<b>>
    BY <2>2, <2>4 DEF Owed
  <2> HIDE DEF p, a, b
  <2>6. Append(p, a) = p \o <<a>> /\ <<a>> \in Seq(Answers) /\ <<b>> \in Seq(Answers)
    BY <2>1, AppendIsConcat, SingleProperties
  <2>7. (p \o <<a>>) \o <<b>> = p \o (<<a>> \o <<b>>)
    BY <2>1, <2>6, ConcatAssociative
  <2>8. <<a>> \o <<b>> = <<a, b>>
    <3> DEFINE t == <<a, b>>
    <3>1. t \in Seq(Answers) /\ t # <<>> /\ Head(t) = a /\ Tail(t) = <<b>>
      BY <2>1, PairProperties
    <3> HIDE DEF t
    <3>2. <<Head(t)>> \o Tail(t) = t
      BY <3>1, HeadThenTail
    <3>3. QED
      BY <3>1, <3>2 DEF t
  <2>9. QED
    BY <2>3, <2>5, <2>6, <2>7, <2>8
<1>5. QED
  BY <1>1, <1>3, <1>4, HeardStays, GoneStays DEF sockVars

LEMMA EmitClientIsQuiet ==
    ASSUME TypeOK, HandInv, EmitClient
    PROVE  UNCHANGED <<Waiting, Free, Owed, Heard, Gone>>
<1> DEFINE e == [type |-> "send_client", conn |-> c]
<1>1. /\ alive /\ pcLoop = "emit_client" /\ pcLoop' = "test"
      /\ events' = Append(events, e)
      /\ UNCHANGED <<sockVars, connVars, queueVars>>
  BY DEF EmitClient, Goto
<1>2. TakenClient' = TakenClient /\ TakenWorker' = TakenWorker
  BY <1>1 DEF TakenClient, TakenWorker
<1>3. Waiting' = Waiting /\ Free' = Free
  BY <1>1, <1>2 DEF Waiting, ClientSockets, Free, WorkersInTurn, queueVars, connVars
<1>4. Owed' = Owed
  <2> DEFINE p == PostedAnswers
             b == ToClient
  <2>1. p \in Seq(Answers) /\ b \in Answers
    BY <1>1, PostedType, InHandType
  <2>2. PostedAnswers' = Append(p, b)
    <3>1. e \in Events /\ AnswerOf(e) = b
      BY <1>1 DEF HandInv, HoldsClient, Events, AnswerOf, ToClient
    <3> HIDE DEF e
    <3>2. QED
      BY <1>1, <3>1, PostedGrows DEF connVars
  <2>3. Owed = p \o <<b>>
    BY <1>1, UnpostedCases DEF Owed
  <2>4. UnpostedAnswers' = <<>>
    BY <1>1 DEF UnpostedAnswers
  <2>5. Owed' = Append(p, b) \o <<>>
    BY <2>2, <2>4 DEF Owed
  <2> HIDE DEF p, b
  <2>6. Append(p, b) \in Seq(Answers) /\ Append(p, b) = p \o <<b>>
    BY <2>1, AppendProperties, AppendIsConcat
  <2>7. QED
    BY <2>3, <2>5, <2>6, ConcatEmptySeq
<1>5. QED
  BY <1>1, <1>3, <1>4, HeardStays, GoneStays DEF sockVars

-----------------------------------------------------------------------------
LEMMA ServiceInit == Init => Service!Init
<1> SUFFICES ASSUME Init PROVE Service!Init
  OBVIOUS
<1>1. TakenClient = <<>> /\ TakenWorker = <<>> /\ UnpostedAnswers = <<>>
  BY DEF Init, TakenClient, TakenWorker, UnpostedAnswers
<1>2. Waiting = <<>>
  <2>1. ClientSockets = <<>>
    BY DEF Init, ClientSockets
  <2>2. QED
    BY <1>1, <2>1 DEF Waiting
<1>3. Free = <<>>
  <2>1. WorkersInTurn = <<>>
    BY <1>1 DEF Init, WorkersInTurn
  <2>2. QED
    BY <2>1 DEF Free
<1>4. Owed = <<>>
  <2>1. PostedAnswers = <<>>
    BY DEF Init, PostedAnswers
  <2>2. QED
    BY <1>1, <2>1 DEF Owed
<1>5. Heard = [x \in Sockets |-> {}] /\ Gone = {}
  BY DEF Init, Heard, Gone
<1>6. QED
  BY <1>2, <1>3, <1>4, <1>5 DEF Service!Init, Service!Sockets, Sockets

LEMMA ServiceStep ==
    ASSUME PortsDiffer, MasterInv, PairingInv, GoneInv, [Next]_vars
    PROVE  Service!Next \/ UNCHANGED <<Waiting, Free, Owed, Heard, Gone>>
<1> USE DEF MasterInv, PairingInv
<1>1. ASSUME NEW x \in Sockets, Accept(x) \/ InvalidRequest(x)
      PROVE  UNCHANGED <<Waiting, Free, Owed, Heard, Gone>>
  BY <1>1, AcceptIsQuiet, InvalidRequestIsQuiet
<1>2. ASSUME NEW x \in Sockets, Disconnected(x) PROVE Service!Next
  BY <1>2, DisconnectedLeaves DEF Service!Next, Service!Sockets, Sockets
<1>3. ASSUME NEW x \in Clients, RequestWorker(x) PROVE Service!Next
  BY <1>3, RequestWorkerAsks DEF Service!Next
<1>4. ASSUME NEW x \in Workers, RequestClient(x) PROVE Service!Next
  BY <1>4, RequestClientOffers DEF Service!Next
<1>5. CASE HandleDisconnect
  BY <1>5, HandleDisconnectForgets DEF Service!Next
<1>6. CASE DeliverEvent
  BY <1>6, SendWorkerInfoAnswers, SendClientInfoAnswers, DeleteSocketAnswers
     DEF DeliverEvent, Service!Next
<1>7. CASE Pair
  BY <1>7, PairMatches DEF Service!Next
<1>8. CASE Loop /\ ~Pair
  BY <1>8, LoopIsQuiet, TakeClientIsQuiet, TakeWorkerIsQuiet, EmitWorkerIsQuiet,
     EmitClientIsQuiet DEF Loop
<1>9. CASE Stop \/ UNCHANGED vars
  BY <1>9, StopIsQuiet
<1>10. QED
  BY <1>1, <1>2, <1>3, <1>4, <1>5, <1>6, <1>7, <1>8, <1>9 DEF Next, Main

(* The two threads, with their queues, locks and events, behave as one     *)
(* service that matches first come, first served: nobody is lost,          *)
(* duplicated, overtaken, matched twice or forgotten before leaving, each  *)
(* of a pair gets its own answer, and answers and ends are given in the    *)
(* order they came to be owed (master_node.cpp:98-227,                     *)
(* tcp_thread.cpp:90-112 and 313-333).                                     *)
THEOREM MasterImplementsService ==
    ASSUME PortsDiffer
    PROVE  Spec => ImplementsPairingService
<1>1. /\ MasterInv /\ PairingInv /\ GoneInv /\ [Next]_vars
         => [Service!Next]_<<Waiting, Free, Owed, Heard, Gone>>
  BY ServiceStep
<1>2. QED
  BY <1>1, ServiceInit, PairingInvariant, GoneInvariant, PTL
     DEF Spec, ImplementsPairingService, Service!Spec
=============================================================================
