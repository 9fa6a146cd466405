------------------------------ MODULE Registry ------------------------------
(***************************************************************************)
(* What the database operations of worker_node.cpp promise together: an    *)
(* account book whose calls take effect at one moment each, although       *)
(* several workers make them.  A call is answered TRUE when it could be    *)
(* done and FALSE when it could not, and then it has changed nothing.      *)
(*                                                                         *)
(* The promise ends when something happens that the procedures do not      *)
(* provide for; `void` is TRUE from then on and anything goes.             *)
(***************************************************************************)
EXTENDS Integers, Bags

CONSTANTS Workers, Calls, Idle

VARIABLES
    accounts,     \* names that have an account
    groups,       \* names of the groups
    membership,   \* pairs: account name, group name
    friendship,   \* records: who asked whom, and whether it was accepted
    calendar,     \* bag of entries: owner, location and start
    asked,        \* the call that each worker is in, or Idle
    acted,        \* whether that call has taken effect
    answer,       \* the answer given by the last step, or "none"
    void

tables == <<accounts, groups, membership, friendship, calendar>>

Between(u, v) == {f \in friendship : {f.from, f.to} = {u, v}}
Owners == accounts \cup groups

(* An event that is not immutable is entered to end at the time given. *)
Entered(x) ==
    [owner |-> x.name, location |-> x.other.location,
     start |-> IF x.other.immutable THEN x.other.start ELSE x.other.start - x.other.duration]
(* The entry that stands in the way of an event: one that starts, there,   *)
(* at the time given.                                                      *)
InTheWay(x) == [owner |-> x.name, location |-> x.other.location, start |-> x.other.start]

(* Whether a call can be done. *)
Can(x) ==
    CASE x.do = "try_create"            -> x.name \notin accounts
      [] x.do = "insert_group"          -> x.name \notin groups
      [] x.do = "remove_group"          -> x.name \in groups
      [] x.do = "join_group"            -> /\ x.name \in accounts /\ x.other \in groups
                                           /\ <<x.name, x.other>> \notin membership
      [] x.do = "leave_group"           -> <<x.name, x.other>> \in membership
      [] x.do = "create_friendship"     -> /\ {x.name, x.other} \subseteq accounts
                                           /\ Between(x.name, x.other) = {}
      [] x.do \in {"accept_friend", "delete_friend"} -> Between(x.name, x.other) # {}
      [] x.do = "create_personal_event" -> /\ x.name \in Owners
                                           /\ ~BagIn(InTheWay(x), calendar)
      [] x.do = "update_user"           -> TRUE

(* What a call that can be done changes. *)
Effect(x) ==
    /\ accounts' = IF x.do = "try_create" THEN accounts \cup {x.name} ELSE accounts
    /\ groups' = CASE x.do = "insert_group" -> groups \cup {x.name}
                   [] x.do = "remove_group" -> groups \ {x.name}
                   [] OTHER -> groups
    /\ membership' =
           CASE x.do = "join_group"   -> membership \cup {<<x.name, x.other>>}
             [] x.do = "leave_group"  -> membership \ {<<x.name, x.other>>}
             [] x.do = "remove_group" -> {m \in membership : m[2] # x.name}
             [] OTHER -> membership
    /\ friendship' =
           LET old == Between(x.name, x.other)
           IN  CASE x.do = "create_friendship" ->
                        friendship \cup {[from |-> x.name, to |-> x.other, accepted |-> FALSE]}
                 [] x.do = "accept_friend" ->
                        (friendship \ old) \cup {[f EXCEPT !.accepted = TRUE] : f \in old}
                 [] x.do = "delete_friend" -> friendship \ old
                 [] OTHER -> friendship
    /\ calendar' =
           IF x.do = "create_personal_event"
           THEN calendar (+) SetToBag({Entered(x)}) ELSE calendar

Init ==
    /\ asked = [k \in Workers |-> Idle] /\ acted = [k \in Workers |-> FALSE]
    /\ answer = "none" /\ void = FALSE

Ask(k) ==
    /\ asked[k] = Idle
    /\ \E x \in Calls : asked' = [asked EXCEPT ![k] = x]
    /\ answer' = "none" /\ UNCHANGED <<tables, acted>>

Act(k) ==
    /\ asked[k] # Idle /\ ~acted[k] /\ Can(asked[k]) /\ Effect(asked[k])
    /\ acted' = [acted EXCEPT ![k] = TRUE]
    /\ answer' = "none" /\ UNCHANGED asked

Return(k, value) ==
    /\ asked' = [asked EXCEPT ![k] = Idle] /\ acted' = [acted EXCEPT ![k] = FALSE]
    /\ answer' = value

Reply(k) ==
    /\ asked[k] # Idle
    /\ \/ acted[k] /\ Return(k, "true") /\ UNCHANGED tables
       \/ ~acted[k] /\ Can(asked[k]) /\ Effect(asked[k]) /\ Return(k, "true")
       \/ ~acted[k] /\ ~Can(asked[k]) /\ Return(k, "false") /\ UNCHANGED tables

(* Between two statements nothing can be seen. *)
Silent == answer' = "none" /\ UNCHANGED <<tables, asked, acted>>

Next == \/ void'
        \/ ~void /\ ~void' /\ (Silent \/ \E k \in Workers : Ask(k) \/ Act(k) \/ Reply(k))

Spec == Init /\ [][Next]_<<tables, asked, acted, answer, void>>
=============================================================================
