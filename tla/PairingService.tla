--------------------------- MODULE PairingService ---------------------------
(***************************************************************************)
(* What the master promises to the sockets it serves: clients and workers  *)
(* are matched first come, first served.  Each of a pair is owed one       *)
(* answer, the worker's before the client's, and answers are given in the  *)
(* order they came to be owed.  Who has left may be forgotten while        *)
(* waiting; nobody else is.  The end of a socket that left takes its turn  *)
(* among the answers.                                                      *)
(*                                                                         *)
(* Locks, semaphores, threads and posted events are not part of it.        *)
(***************************************************************************)
EXTENDS Sequences, Naturals

CONSTANTS
    Clients, Workers,
    Blank               \* the location of a worker that gave none

VARIABLES
    waiting,   \* clients not yet matched, the first come first
    free,      \* workers not yet matched, each with its location
    owed,      \* answers not yet given, each with the line that is due,
               \* and the ends of the sockets that left
    heard,     \* heard[x]: answers that were given to x
    gone       \* sockets that have left

Sockets == Clients \cup Workers

Init ==
    /\ waiting = <<>> /\ free = <<>> /\ owed = <<>>
    /\ heard = [x \in Sockets |-> {}]
    /\ gone = {}

Ask(x) ==
    /\ x \notin gone
    /\ waiting' = Append(waiting, x)
    /\ UNCHANGED <<free, owed, heard, gone>>

(* A worker may be late with its location. *)
Offer(x) ==
    /\ x \notin gone
    /\ \E at \in {x, Blank} : free' = Append(free, [worker |-> x, at |-> at])
    /\ UNCHANGED <<waiting, owed, heard, gone>>

Match ==
    /\ waiting # <<>> /\ free # <<>>
    /\ waiting' = Tail(waiting) /\ free' = Tail(free)
    /\ owed' = owed \o <<[to |-> Head(free).worker, line |-> "OK"],
                         [to |-> Head(waiting), line |-> Head(free).at]>>
    /\ UNCHANGED <<heard, gone>>

(* An answer to somebody who has left is lost; an end is one of these. *)
Answer ==
    /\ owed # <<>> /\ owed' = Tail(owed)
    /\ LET a == Head(owed)
       IN  heard' = IF a.to \in gone THEN heard ELSE [heard EXCEPT ![a.to] = @ \cup {a.line}]
    /\ UNCHANGED <<waiting, free, gone>>

End(x) == [to |-> x, line |-> "END"]

Leave(x) ==
    /\ x \notin gone /\ gone' = gone \cup {x}
    /\ \E i \in 0 .. Len(owed) :
           owed' = SubSeq(owed, 1, i) \o <<End(x)>> \o SubSeq(owed, i + 1, Len(owed))
    /\ UNCHANGED <<waiting, free, heard>>

But(q, i) == SubSeq(q, 1, i - 1) \o SubSeq(q, i + 1, Len(q))

Forget ==
    /\ \/ /\ \E i \in DOMAIN waiting : waiting[i] \in gone /\ waiting' = But(waiting, i)
          /\ UNCHANGED free
       \/ /\ \E i \in DOMAIN free : free[i].worker \in gone /\ free' = But(free, i)
          /\ UNCHANGED waiting
    /\ UNCHANGED <<owed, heard, gone>>

Next == \/ Match \/ Answer \/ Forget
        \/ \E x \in Clients : Ask(x)
        \/ \E x \in Workers : Offer(x)
        \/ \E x \in Sockets : Leave(x)

Spec == Init /\ [][Next]_<<waiting, free, owed, heard, gone>>
=============================================================================
