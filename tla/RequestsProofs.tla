--------------------------- MODULE RequestsProofs ---------------------------
(***************************************************************************)
(* Theorems about the handling of one request line, for lines of any       *)
(* number of fields.  The handlers are data here, so there are two parts:  *)
(* what is true of every handler's record, and what the common control     *)
(* flow makes of it.                                                       *)
(***************************************************************************)
EXTENDS Requests, WellFoundedInduction, TLAPS

-----------------------------------------------------------------------------
(* The chain of text.contains().                                          *)

(* A set of numbers that is not empty has a least element. *)
LEMMA LeastExists ==
    ASSUME NEW I \in SUBSET Nat, I # {}
    PROVE  \E x \in I : \A y \in I : x <= y
<1> DEFINE R == OpToRel(<, Nat)
<1>1. IsWellFoundedOn(R, Nat)
  BY NatLessThanWellFounded
<1>2. \A x, y \in Nat : y < x => <<y, x>> \in R
  BY DEF OpToRel
<1> HIDE DEF R
<1>3. PICK x \in I : \A y \in I : ~(<<y, x>> \in R)
  BY <1>1, WFMin
<1>4. ASSUME NEW y \in I PROVE x <= y
  <2>1. x \in Nat /\ y \in Nat
    OBVIOUS
  <2>2. ~(y < x)
    BY <1>2, <1>3, <2>1
  <2>3. QED
    BY <2>1, <2>2
<1>5. QED
  BY <1>4

(* What SelectInSeq finds is the first match, if there is one. *)
LEMMA LeastIsMin ==
    ASSUME NEW I \in SUBSET Nat, I # {}
    PROVE  Min(I) \in I /\ \A y \in I : Min(I) <= y
BY LeastExists DEF Min

LEMMA KeywordsAreDistinct ==
    /\ Len(Keywords) = 26 /\ DOMAIN Keywords = 1 .. 26
    /\ \A i, j \in 1 .. 26 : Keywords[i] = Keywords[j] => i = j
<1>1. Len(Keywords) = 26 /\ DOMAIN Keywords = 1 .. 26
  BY DEF Keywords
<1>2. \A i, j \in 1 .. 26 : Keywords[i] = Keywords[j] => i = j
  BY DEF Keywords
<1>3. QED
  BY <1>1, <1>2

LEMMA VerbsAreKeywords ==
    /\ \A i \in 1 .. 26 : Keywords[i] \in Verbs
    /\ \A k \in Verbs : \E i \in 1 .. 26 : k = Keywords[i]
BY KeywordsAreDistinct DEF Verbs, ToSet

LEMMA NothingIsNoVerb == Nothing \notin Verbs
<1>1. \A i \in 1 .. 26 : Keywords[i] # Nothing
  BY DEF Keywords, Nothing
<1>2. QED
  BY <1>1, VerbsAreKeywords

(* The first keyword of a line wins. *)
LEMMA FirstFound ==
    ASSUME NEW text
    PROVE  /\ Found(text) # 0 => /\ Found(text) \in 1 .. 26
                                 /\ Keywords[Found(text)] \in text
           /\ \A i \in 1 .. 26 : Keywords[i] \in text => Found(text) <= i
<1> DEFINE I == {i \in 1 .. Len(Keywords) : Keywords[i] \in text}
<1>1. Found(text) = IF I # {} THEN Min(I) ELSE 0
  BY DEF Found, SelectInSeq
<1>2. I \in SUBSET Nat /\ \A i : i \in I <=> i \in 1 .. 26 /\ Keywords[i] \in text
  BY KeywordsAreDistinct
<1> HIDE DEF I
<1>3. I # {} => Min(I) \in I /\ \A i \in I : Min(I) <= i
  BY <1>2, LeastIsMin
<1>4. QED
  BY <1>1, <1>2, <1>3

LEMMA PositionIsIndex == \A i \in 1 .. 26 : Position(Keywords[i]) = i
<1> SUFFICES ASSUME NEW i \in 1 .. 26 PROVE Position(Keywords[i]) = i
  OBVIOUS
<1> DEFINE I == {j \in 1 .. Len(Keywords) : Keywords[j] = Keywords[i]}
<1>1. Position(Keywords[i]) = IF I # {} THEN Min(I) ELSE 0
  BY DEF Position, SelectInSeq
<1>2. I = {i} /\ I \in SUBSET Nat
  BY KeywordsAreDistinct
<1> HIDE DEF I
<1>3. QED
  BY <1>1, <1>2, LeastIsMin

-----------------------------------------------------------------------------
(* The handlers.                                                          *)

LEMMA SlotOfKeyword ==
    /\ Slot("CREATE_ACCOUNT")                = request_create_account
    /\ Slot("REQUEST_LOGIN")                 = request_login
    /\ Slot("CREATE_GROUP_EVENT")            = request_group_event
    /\ Slot("CREATE_GROUP")                  = request_create_group
    /\ Slot("JOIN_GROUP")                    = request_add_to_group
    /\ Slot("LEAVE_GROUP")                   = request_leave_group
    /\ Slot("UPDATE_ACCOUNT")                = request_update_user
    /\ Slot("REQUEST_GROUPS")                = request_user_groups
    /\ Slot("REQUEST_ACCOUNT")               = request_account_info
    /\ Slot("DELETE_GROUP")                  = request_delete_group
    /\ Slot("REQUEST_USERS")                 = request_group_users
    /\ Slot("CREATE_USER_EVENT")             = request_personal_event
    /\ Slot("REQUEST_RESET")                 = request_reset_password
    /\ Slot("REQUEST_EVENTS")                = request_user_events
    /\ Slot("REQUEST_GROUP_EVENTS")          = request_group_events
    /\ Slot("REQUEST_PERSONAL_MONTH_EVENTS") = request_personal_month_events
    /\ Slot("REQUEST_GROUP_MONTH_EVENTS")    = request_group_month_events
    /\ Slot("CREATE_FRIENDSHIP")             = request_create_friendship
    /\ Slot("ACCEPT_FRIEND")                 = request_accept_friend
    /\ Slot("REQUEST_FRIENDS")               = request_friends
    /\ Slot("DELETE_FRIEND")                 = request_delete_friend
    /\ Slot("FRIEND_REQUESTS")               = request_friend_requests
    /\ Slot("ABSENT")                        = request_absent
    /\ Slot("PRESENT")                       = request_present
    /\ Slot("SUGGEST_TIMES")                 = request_suggest_user_times
    /\ Slot("REQUEST_TIMES")                 = request_suggest_group_times
BY DEF Slot

(* What the proofs need of the handler h of keyword k: it reads no further *)
(* than it has counted, it checks the password first, and the membership   *)
(* before a group's calendar; only create_account leaves a call unguarded. *)
Sound(k, h) ==
    /\ Len(h.calls) \in 1 .. 4 /\ DOMAIN h.calls = 1 .. Len(h.calls)
    /\ h.fields \subseteq 1 .. MaxFields
    /\ \A n \in h.fields : h.used + (IF n \in h.more THEN 1 ELSE 0) <= n
    /\ k = "CREATE_ACCOUNT" => h.guarded = 1 /\ Len(h.calls) = 2
    /\ k # "CREATE_ACCOUNT" => h.guarded = Len(h.calls)
    /\ k \notin {"CREATE_ACCOUNT", "REQUEST_RESET"} => h.calls[1] = "try_login"
    /\ \A i \in 1 .. Len(h.calls) :
           h.calls[i] \in ReadsCalendar /\ k \in CalendarOfGroup =>
               \E j \in 1 .. i - 1 : h.calls[j] = "user_in_group"

LEMMA HandlersAreSound == \A k \in Verbs : Sound(k, Slot(k))
<1> USE FieldsAssumption DEF Sound, Form, AtLeast, ReadsCalendar, CalendarOfGroup
<1>1. Sound("CREATE_ACCOUNT", request_create_account)
  BY DEF request_create_account
<1>2. Sound("REQUEST_LOGIN", request_login)
  BY DEF request_login
<1>3. Sound("CREATE_GROUP_EVENT", request_group_event)
  BY DEF request_group_event
<1>4. Sound("CREATE_GROUP", request_create_group)
  BY DEF request_create_group
<1>5. Sound("JOIN_GROUP", request_add_to_group)
  BY DEF request_add_to_group
<1>6. Sound("LEAVE_GROUP", request_leave_group)
  BY DEF request_leave_group
<1>7. Sound("UPDATE_ACCOUNT", request_update_user)
  BY DEF request_update_user
<1>8. Sound("REQUEST_GROUPS", request_user_groups)
  BY DEF request_user_groups
<1>9. Sound("REQUEST_ACCOUNT", request_account_info)
  BY DEF request_account_info
<1>10. Sound("DELETE_GROUP", request_delete_group)
  BY DEF request_delete_group
<1>11. Sound("REQUEST_USERS", request_group_users)
  BY DEF request_group_users
<1>12. Sound("CREATE_USER_EVENT", request_personal_event)
  BY DEF request_personal_event
<1>13. Sound("REQUEST_RESET", request_reset_password)
  BY DEF request_reset_password
<1>14. Sound("REQUEST_EVENTS", request_user_events)
  BY DEF request_user_events
<1>15. Sound("REQUEST_GROUP_EVENTS", request_group_events)
  BY DEF request_group_events
<1>16. Sound("REQUEST_PERSONAL_MONTH_EVENTS", request_personal_month_events)
  BY DEF request_personal_month_events
<1>17. Sound("REQUEST_GROUP_MONTH_EVENTS", request_group_month_events)
  BY DEF request_group_month_events
<1>18. Sound("CREATE_FRIENDSHIP", request_create_friendship)
  BY DEF request_create_friendship
<1>19. Sound("ACCEPT_FRIEND", request_accept_friend)
  BY DEF request_accept_friend
<1>20. Sound("REQUEST_FRIENDS", request_friends)
  BY DEF request_friends
<1>21. Sound("DELETE_FRIEND", request_delete_friend)
  BY DEF request_delete_friend
<1>22. Sound("FRIEND_REQUESTS", request_friend_requests)
  BY DEF request_friend_requests
<1>23. Sound("ABSENT", request_absent)
  BY DEF request_absent
<1>24. Sound("PRESENT", request_present)
  BY DEF request_present
<1>25. Sound("SUGGEST_TIMES", request_suggest_user_times)
  BY DEF request_suggest_user_times
<1>26. Sound("REQUEST_TIMES", request_suggest_group_times)
  BY DEF request_suggest_group_times
<1> HIDE DEF Sound
<1>27. \A i \in 1 .. 26 : Sound(Keywords[i], Slot(Keywords[i]))
  BY SlotOfKeyword, <1>1, <1>2, <1>3, <1>4, <1>5, <1>6, <1>7, <1>8, <1>9,
     <1>10, <1>11, <1>12, <1>13, <1>14, <1>15, <1>16, <1>17, <1>18, <1>19,
     <1>20, <1>21, <1>22, <1>23, <1>24, <1>25, <1>26 DEF Keywords
<1>28. QED
  BY <1>27, VerbsAreKeywords

-----------------------------------------------------------------------------
(* The inductive invariant.                                               *)

(* What has happened so far, told by the place alone: nothing was answered *)
(* before the handler is left, a slot was chosen once the line is          *)
(* dispatched, and the number of fields was accepted before any call.      *)
ProgressInv ==
    /\ place # "returned" => replies = <<>> /\ served_client = FALSE
    /\ place = "line" => slot = Nothing
    /\ place \in {"split", "call", "terminated"} => slot \in Verbs
    /\ place \in {"line", "split"} => call = 1
    /\ place = "call" => call <= Len(Handler.calls) + 1 /\ size \in Handler.fields

(* A handler is at its n-th call only when the calls before have said yes. *)
CallsInv ==
    /\ call = 1 => said_yes = {}
    /\ place = "call" => \A i \in 1 .. call - 1 : Handler.calls[i] \in said_yes

(* SlotFollowsTheChain, by the places of the two keywords in the list. *)
Before(k, m) == \E i, j \in 1 .. 26 : k = Keywords[i] /\ m = Keywords[j] /\ i < j
ChainInv ==
    (place # "line" /\ verb # Nothing) =>
        slot = verb \/ (slot \in Contained(payload) /\ Before(slot, verb))

RequestInv == TypeOK /\ ProgressInv /\ CallsInv /\ HandlersReleaseRun /\ ChainInv

(* At a call, the handler is one of the table's. *)
LEMMA AtCallFacts ==
    ASSUME TypeOK, ProgressInv, AtCall
    PROVE  /\ slot \in Verbs /\ Sound(slot, Handler)
           /\ call \in 1 .. Len(Handler.calls) /\ call <= 4
           /\ ThisCall \in AllCalls
<1>1. slot \in Verbs /\ Sound(slot, Handler)
  BY HandlersAreSound DEF AtCall, ProgressInv, Handler
<1>2. call \in 1 .. Len(Handler.calls) /\ call <= 4
  <2>1. call \in 1 .. 5 /\ call <= Len(Handler.calls)
    BY DEF AtCall, TypeOK
  <2>2. Len(Handler.calls) \in 1 .. 4
    BY <1>1 DEF Sound
  <2>3. call <= 4
    <3> DEFINE n == Len(Handler.calls)
    <3>1. call \in 1 .. 5 /\ call <= n /\ n \in 1 .. 4
      BY <2>1, <2>2
    <3> HIDE DEF n
    <3>2. QED
      BY <3>1
  <2>4. QED
    BY <2>1, <2>2, <2>3
<1>3. ThisCall \in Calls(Handler)
  BY <1>1, <1>2 DEF ThisCall, Calls, ToSet, Sound
<1>4. QED
  BY <1>1, <1>2, <1>3 DEF AllCalls, Handler

(* The three ways in which a step can end the handling of the line.        *)
LEMMA ReplyType ==
    ASSUME TypeOK, NEW line \in Lines, Reply(line)
    PROVE  replies' \in Seq(Lines)
BY DEF TypeOK, Reply

LEMMA TypeStep == RequestInv /\ [Next]_vars => TypeOK'
<1> SUFFICES ASSUME TypeOK, ProgressInv, [Next]_vars PROVE TypeOK'
  BY DEF RequestInv
<1> USE DEF lineVars
<1>1. CASE Dispatch
  <2>1. Keywords[Found(Contained(verb) \cup Contained(payload))] \in Verbs
    BY <1>1, FirstFound, VerbsAreKeywords DEF Dispatch
  <2>2. QED
    BY <1>1, <2>1 DEF Dispatch, TypeOK
<1>2. CASE InvalidCommand
  BY <1>2, ReplyType DEF InvalidCommand, TypeOK, Lines
<1>3. CASE CountFields
  BY <1>3, ReplyType DEF CountFields, ReplyAndServe, TypeOK, Lines
<1>4. CASE CallReturnsTrue
  BY <1>4, AtCallFacts DEF CallReturnsTrue, TypeOK
<1>5. CASE CallReturnsFalse
  BY <1>5, ReplyType DEF CallReturnsFalse, ReplyAndServe, TypeOK, Lines
<1>6. CASE CallThrows
  BY <1>6, ReplyType DEF CallThrows, ReplyAndServe, TypeOK, Lines
<1>7. CASE Finish
  BY <1>7, ReplyType DEF Finish, ReplyAndServe, TypeOK, Lines
<1>8. CASE UNCHANGED vars
  BY <1>8 DEF vars, TypeOK
<1>9. QED
  BY <1>1, <1>2, <1>3, <1>4, <1>5, <1>6, <1>7, <1>8 DEF Next

LEMMA ProgressStep == RequestInv /\ [Next]_vars => ProgressInv'
<1> SUFFICES ASSUME TypeOK, ProgressInv, [Next]_vars PROVE ProgressInv'
  BY DEF RequestInv
<1> USE DEF lineVars, Handler
<1>1. CASE Dispatch
  <2>1. Keywords[Found(Contained(verb) \cup Contained(payload))] \in Verbs
    BY <1>1, FirstFound, VerbsAreKeywords DEF Dispatch
  <2>2. QED
    BY <1>1, <2>1 DEF Dispatch, ProgressInv
<1>2. CASE InvalidCommand
  BY <1>2 DEF InvalidCommand, ProgressInv
<1>3. CASE CountFields
  <2>1. slot \in Verbs /\ Len(Slot(slot).calls) \in 1 .. 4
    BY <1>3, HandlersAreSound DEF CountFields, ProgressInv, Sound
  <2>2. QED
    BY <1>3, <2>1 DEF CountFields, ReplyAndServe, ProgressInv
<1>4. CASE CallReturnsTrue
  <2>1. slot \in Verbs /\ call \in 1 .. Len(Slot(slot).calls) /\ Len(Slot(slot).calls) \in 1 .. 4
    BY <1>4, AtCallFacts DEF CallReturnsTrue, Sound
  <2>2. QED
    BY <1>4, <2>1 DEF CallReturnsTrue, AtCall, ProgressInv
<1>5. CASE CallReturnsFalse
  BY <1>5 DEF CallReturnsFalse, ReplyAndServe, ProgressInv
<1>6. CASE CallThrows
  BY <1>6 DEF CallThrows, AtCall, ReplyAndServe, ProgressInv
<1>7. CASE Finish
  BY <1>7 DEF Finish, ReplyAndServe, ProgressInv
<1>8. CASE UNCHANGED vars
  BY <1>8 DEF vars, ProgressInv
<1>9. QED
  BY <1>1, <1>2, <1>3, <1>4, <1>5, <1>6, <1>7, <1>8 DEF Next

LEMMA CallsStep == RequestInv /\ [Next]_vars => CallsInv'
<1> SUFFICES ASSUME TypeOK, ProgressInv, CallsInv, [Next]_vars PROVE CallsInv'
  BY DEF RequestInv
<1> USE DEF lineVars, Handler
<1>1. CASE CallReturnsTrue
  <2>1. call \in Nat \ {0}
    BY DEF TypeOK
  <2>2. \A i \in 1 .. call : i \in 1 .. call - 1 \/ i = call
    BY <2>1
  <2>3. QED
    BY <1>1, <2>1, <2>2 DEF CallReturnsTrue, AtCall, ThisCall, CallsInv
<1>2. CASE CountFields
  <2>1. call = 1
    BY <1>2 DEF CountFields, ProgressInv
  <2>2. QED
    BY <1>2, <2>1 DEF CountFields, ReplyAndServe, CallsInv
<1>3. CASE Dispatch \/ InvalidCommand \/ CallReturnsFalse \/ CallThrows \/ Finish
  BY <1>3 DEF Dispatch, InvalidCommand, CallReturnsFalse, CallThrows, Finish,
     ReplyAndServe, CallsInv
<1>4. CASE UNCHANGED vars
  BY <1>4 DEF vars, CallsInv
<1>5. QED
  BY <1>1, <1>2, <1>3, <1>4 DEF Next

(* The only call outside its try is create_account's first: nothing has    *)
(* said yes when it throws.                                                *)
LEMMA ReleaseStep == RequestInv /\ [Next]_vars => HandlersReleaseRun'
<1> SUFFICES ASSUME TypeOK, ProgressInv, CallsInv, HandlersReleaseRun, [Next]_vars
             PROVE  HandlersReleaseRun'
  BY DEF RequestInv
<1> USE DEF lineVars
<1>1. CASE Dispatch
  BY <1>1 DEF Dispatch, HandlersReleaseRun
<1>2. CASE InvalidCommand
  BY <1>2 DEF InvalidCommand, ProgressInv, HandlersReleaseRun
<1>3. CASE CountFields \/ CallReturnsFalse \/ Finish
  BY <1>3 DEF CountFields, CallReturnsFalse, Finish, ReplyAndServe, HandlersReleaseRun
<1>4. CASE CallReturnsTrue
  BY <1>4 DEF CallReturnsTrue, AtCall, HandlersReleaseRun
<1>5. CASE CallThrows
  <2>1. CASE ReplyAndServe("FAILED")
    BY <2>1 DEF ReplyAndServe, HandlersReleaseRun
  <2>2. CASE /\ call <= Len(Handler.calls) - Handler.guarded
             /\ place' = "terminated" /\ UNCHANGED <<slot, call, said_yes>>
    <3>1. Sound(slot, Handler) /\ call \in 1 .. Len(Handler.calls) /\ Len(Handler.calls) \in 1 .. 4
      BY <1>5, AtCallFacts DEF CallThrows, Sound
    <3>2. slot = "CREATE_ACCOUNT" /\ Handler.guarded = 1 /\ Len(Handler.calls) = 2
      <4>1. CASE slot = "CREATE_ACCOUNT"
        BY <3>1, <4>1 DEF Sound
      <4>2. CASE slot # "CREATE_ACCOUNT"
        <5>1. Handler.guarded = Len(Handler.calls)
          BY <3>1, <4>2 DEF Sound
        <5>2. QED
          BY <2>2, <3>1, <5>1
      <4>3. QED
        BY <4>1, <4>2
    <3>3. call = 1
      BY <2>2, <3>1, <3>2
    <3>4. QED
      BY <2>2, <3>2, <3>3 DEF CallsInv, HandlersReleaseRun
  <2>3. QED
    BY <1>5, <2>1, <2>2 DEF CallThrows
<1>6. CASE UNCHANGED vars
  BY <1>6 DEF vars, HandlersReleaseRun
<1>7. QED
  BY <1>1, <1>2, <1>3, <1>4, <1>5, <1>6 DEF Next

(* The slot is chosen by the first keyword found, which comes no later     *)
(* than the command itself; of the keywords in the command, CREATE_GROUP   *)
(* is looked for after CREATE_GROUP_EVENT, which contains it.              *)
LEMMA DispatchFollowsTheChain ==
    ASSUME TypeOK, Dispatch, verb # Nothing
    PROVE  slot' = verb \/ (slot' \in Contained(payload) /\ Before(slot', verb))
<1> DEFINE text == Contained(verb) \cup Contained(payload)
           f == Found(text)
<1>1. f \in 1 .. 26 /\ Keywords[f] \in text /\ slot' = Keywords[f]
  BY FirstFound DEF Dispatch
<1>2. \A i \in 1 .. 26 : Keywords[i] \in text => f <= i
  BY FirstFound
<1>3. PICK v \in 1 .. 26 : verb = Keywords[v]
  BY VerbsAreKeywords DEF TypeOK
<1>4. verb \in text
  BY DEF Contained
<1>5. slot' \in Contained(verb) \/ slot' \in Contained(payload)
  BY <1>1
<1> HIDE DEF text, f
<1>6. f <= v
  BY <1>2, <1>3, <1>4
<1>7. CASE slot' = verb
  BY <1>7
<1>8. CASE slot' # verb /\ slot' \in Contained(payload)
  <2>1. f # v
    BY <1>1, <1>3, <1>8
  <2>2. f < v
    BY <1>1, <1>6, <2>1
  <2>3. QED
    BY <1>1, <1>3, <1>8, <2>2 DEF Before
<1>9. CASE slot' # verb /\ slot' \in Contained(verb)
  <2>1. verb = "CREATE_GROUP_EVENT" /\ slot' = "CREATE_GROUP"
    BY <1>9 DEF Contained
  <2>2. Keywords[3] = "CREATE_GROUP_EVENT" /\ Keywords[4] = "CREATE_GROUP"
    BY DEF Keywords
  <2>3. v = 3
    <3>1. Keywords[v] = Keywords[3] /\ 3 \in 1 .. 26
      BY <1>3, <2>1, <2>2
    <3>2. QED
      BY <3>1, KeywordsAreDistinct, Zenon
  <2>4. f = 4
    <3>1. Keywords[f] = Keywords[4] /\ 4 \in 1 .. 26
      BY <1>1, <2>1, <2>2
    <3>2. QED
      BY <1>1, <3>1, KeywordsAreDistinct, Zenon
  <2>5. QED
    BY <1>6, <2>3, <2>4
<1>10. QED
  BY <1>5, <1>7, <1>8, <1>9

LEMMA ChainStep == RequestInv /\ [Next]_vars => ChainInv'
<1> SUFFICES ASSUME TypeOK, ChainInv, [Next]_vars PROVE ChainInv'
  BY DEF RequestInv
<1> USE DEF lineVars
<1>1. CASE Dispatch
  <2>1. UNCHANGED <<verb, payload>>
    BY <1>1 DEF Dispatch
  <2>2. verb # Nothing =>
            slot' = verb \/ (slot' \in Contained(payload) /\ Before(slot', verb))
    BY <1>1, DispatchFollowsTheChain
  <2>3. QED
    BY <2>1, <2>2 DEF ChainInv, Before, Contained
<1>2. CASE InvalidCommand
  <2>1. verb = Nothing /\ verb' = verb
    BY <1>2 DEF InvalidCommand, Contained
  <2>2. QED
    BY <2>1 DEF ChainInv
<1>3. CASE CountFields \/ CallReturnsTrue \/ CallReturnsFalse \/ CallThrows \/ Finish
  <2>1. place # "line" /\ UNCHANGED <<verb, payload, slot>>
    BY <1>3 DEF CountFields, CallReturnsTrue, CallReturnsFalse, CallThrows, Finish,
       AtCall, ReplyAndServe
  <2>2. QED
    BY <2>1 DEF ChainInv, Before, Contained
<1>4. CASE UNCHANGED vars
  BY <1>4 DEF vars, ChainInv, Before, Contained
<1>5. QED
  BY <1>1, <1>2, <1>3, <1>4 DEF Next

LEMMA RequestInvariant == Spec => []RequestInv
<1>1. Init => RequestInv
  <2> SUFFICES ASSUME Init PROVE RequestInv
    OBVIOUS
  <2>1. TypeOK
    <3>1. replies \in Seq(Lines) /\ said_yes \subseteq AllCalls
      BY DEF Init
    <3>2. call \in 1 .. 5 /\ place \in {"line", "split", "call", "returned", "terminated"}
      BY DEF Init
    <3>3. verb \in Verbs \cup {Nothing} /\ payload \in Verbs \cup {Nothing}
          /\ size \in 1 .. MaxFields /\ slot \in Verbs \cup {Nothing}
          /\ served_client \in BOOLEAN
      BY DEF Init
    <3>4. QED
      BY <3>1, <3>2, <3>3 DEF TypeOK
  <2>2. ProgressInv /\ CallsInv /\ HandlersReleaseRun /\ ChainInv
    BY DEF Init, ProgressInv, CallsInv, HandlersReleaseRun, ChainInv
  <2>3. QED
    BY <2>1, <2>2 DEF RequestInv
<1>2. RequestInv /\ [Next]_vars => RequestInv'
  BY TypeStep, ProgressStep, CallsStep, ReleaseStep, ChainStep DEF RequestInv
<1>3. QED
  BY <1>1, <1>2, PTL DEF Spec

-----------------------------------------------------------------------------
(* The theorems.                                                          *)

(* Every variable keeps its type, for lines of any number of fields.       *)
THEOREM TypesHold == Spec => []TypeOK
<1>1. RequestInv => TypeOK
  BY DEF RequestInv
<1>2. QED
  BY <1>1, RequestInvariant, PTL

(* No handler reads a field that its line does not have.                   *)
THEOREM FieldsSuffice == Spec => []ReadsWithinFields
<1>1. RequestInv => ReadsWithinFields
  <2> SUFFICES ASSUME ProgressInv, place = "call" PROVE ReadsWithinFields
    BY DEF RequestInv, ReadsWithinFields
  <2>1. Sound(slot, Handler) /\ size \in Handler.fields
    BY HandlersAreSound DEF ProgressInv, Handler
  <2>2. QED
    BY <2>1 DEF Sound, ReadsWithinFields
<1>2. QED
  BY <1>1, RequestInvariant, PTL

(* Password and membership are asked for, and have said yes, before any    *)
(* call that depends on them.                                              *)
THEOREM ChecksAlwaysFirst == Spec => []ChecksComeFirst
<1>1. RequestInv => ChecksComeFirst
  <2> SUFFICES ASSUME TypeOK, ProgressInv, CallsInv, AtCall PROVE ChecksComeFirst
    BY DEF RequestInv, ChecksComeFirst
  <2>1. /\ Sound(slot, Handler) /\ call \in 1 .. Len(Handler.calls)
        /\ Len(Handler.calls) \in 1 .. 4
    BY AtCallFacts DEF Sound
  <2>2. \A i \in 1 .. call - 1 : Handler.calls[i] \in said_yes
    BY DEF AtCall, CallsInv
  <2>3. (ThisCall # "try_login" /\ slot \notin {"CREATE_ACCOUNT", "REQUEST_RESET"})
            => "try_login" \in said_yes
    <3> SUFFICES ASSUME ThisCall # "try_login",
                        slot \notin {"CREATE_ACCOUNT", "REQUEST_RESET"}
                 PROVE  "try_login" \in said_yes
      OBVIOUS
    <3>1. Handler.calls[1] = "try_login"
      BY <2>1 DEF Sound
    <3>2. call # 1
      BY <3>1 DEF ThisCall
    <3>3. 1 \in 1 .. call - 1
      BY <2>1, <3>2
    <3>4. QED
      BY <2>2, <3>1, <3>3
  <2>4. (ThisCall \in ReadsCalendar /\ slot \in CalendarOfGroup)
            => "user_in_group" \in said_yes
    BY <2>1, <2>2 DEF Sound, ThisCall
  <2>5. QED
    BY <2>3, <2>4 DEF ChecksComeFirst
<1>2. QED
  BY <1>1, RequestInvariant, PTL

(* Whatever a call does, run() is told; or create_account's first call     *)
(* ended the process.                                                      *)
THEOREM RunIsReleased == Spec => []HandlersReleaseRun
<1>1. RequestInv => HandlersReleaseRun
  BY DEF RequestInv
<1>2. QED
  BY <1>1, RequestInvariant, PTL

(* The slot of the line's own command, or of a keyword in a field that is  *)
(* looked for earlier.                                                     *)
THEOREM ChainDecides == Spec => []SlotFollowsTheChain
<1>1. RequestInv => SlotFollowsTheChain
  BY PositionIsIndex DEF RequestInv, ChainInv, Before, SlotFollowsTheChain
<1>2. QED
  BY <1>1, RequestInvariant, PTL

(* Every step of a request is a step of LineOutcome or none: WorkerNode    *)
(* assumes no outcome too few.  The fairness of ImplementsLineOutcome is   *)
(* left to the run.                                                        *)
THEOREM OutcomesAreAllowed == Spec => Abstract!Spec
<1> DEFINE Outcome == IF place = "returned" THEN <<"returned", Len(replies), served_client>>
                      ELSE IF place = "terminated" THEN <<"terminated">>
                      ELSE IF replies # <<>> THEN <<"answered_early">> ELSE <<"pending">>
<1>1. Init => Abstract!Init
  BY DEF Init, Abstract!Init
<1>2. RequestInv /\ [Next]_vars => [Abstract!Next]_Outcome
  <2> SUFFICES ASSUME TypeOK, ProgressInv, ProgressInv', [Next]_vars
               PROVE  [Abstract!Next]_Outcome
    BY ProgressStep DEF RequestInv
  <2>1. CASE UNCHANGED vars
    BY <2>1 DEF vars
  <2>2. CASE Next
    <3>1. place \notin {"returned", "terminated"}
      BY <2>2 DEF Next, Dispatch, InvalidCommand, CountFields, CallReturnsTrue,
         CallReturnsFalse, CallThrows, Finish, AtCall
    <3>2. replies = <<>> /\ served_client = FALSE /\ Outcome = <<"pending">>
      BY <3>1 DEF ProgressInv
    <3>3. CASE place' \notin {"returned", "terminated"}
      BY <3>1, <3>2, <3>3 DEF ProgressInv
    <3>4. CASE place' = "terminated"
      BY <3>2, <3>4 DEF Abstract!Next
    <3>5. CASE place' = "returned"
      <4>1. \/ Len(replies') = 1 /\ served_client' = TRUE
            \/ Len(replies') = 1 /\ served_client' = FALSE
            \/ Len(replies') = 0 /\ served_client' = TRUE
        BY <2>2, <3>1, <3>2, <3>5 DEF Next, Dispatch, InvalidCommand, CountFields,
           CallReturnsTrue, CallReturnsFalse, CallThrows, Finish, ReplyAndServe, Reply
      <4>2. Outcome' \in Abstract!Outcomes
        BY <3>5, <4>1, Zenon DEF Abstract!Outcomes, Abstract!Returned
      <4>3. QED
        BY <3>2, <4>2 DEF Abstract!Next
    <3>6. QED
      BY <3>3, <3>4, <3>5
  <2>3. QED
    BY <2>1, <2>2
<1>3. QED
  BY <1>1, <1>2, RequestInvariant, PTL DEF Spec, Abstract!Spec
=============================================================================
