------------------------------ MODULE Requests ------------------------------
(***************************************************************************)
(* One request line on a worker: the worker half of                        *)
(* tcp_thread::readFromClient and the request handlers of worker_node.cpp. *)
(*                                                                         *)
(* The handlers have one shape: split the line, refuse a wrong number of   *)
(* fields, make a few calls to the database that each may refuse or throw, *)
(* and answer.  What differs is a record per handler.  A handler runs on   *)
(* the main thread without interruption; the order in which it writes its  *)
(* answer and sets served_client differs from branch to branch and nobody  *)
(* can tell, so both are one step.                                         *)
(***************************************************************************)
EXTENDS Integers, Sequences, FiniteSets, SequencesExt

CONSTANT MaxFields    \* bound: fields of a request line

ASSUME FieldsAssumption == MaxFields \in Nat /\ MaxFields >= 9

-----------------------------------------------------------------------------
(* fields: the accepted numbers of fields; used: how many of them are      *)
(* read; one more is read when the number is in `more`.  guarded: how many *)
(* of the calls are made inside the handler's try, counted from the last.  *)
AtLeast(n) == n .. MaxFields
Form(fields, used, calls) ==
    [fields |-> fields, used |-> used, more |-> {}, calls |-> calls, guarded |-> Len(calls)]

request_absent == Form(AtLeast(2), 2, <<"try_login", "absent">>)
request_present == Form(AtLeast(2), 2, <<"try_login", "present">>)
request_accept_friend == Form(AtLeast(3), 3, <<"try_login", "accept_friend">>)
request_create_friendship == Form(AtLeast(3), 3, <<"try_login", "create_friendship">>)
request_friends == Form(AtLeast(2), 2, <<"try_login", "friends">>)
request_delete_friend == Form(AtLeast(3), 3, <<"try_login", "delete_friend">>)
request_friend_requests == Form(AtLeast(2), 2, <<"try_login", "friend_requests">>)
request_create_account ==
    [Form(AtLeast(3), 3, <<"username_is_free", "try_create">>)
        EXCEPT !.more = AtLeast(4), !.guarded = 1]
request_reset_password == Form(AtLeast(3), 3, <<"username_exists", "reset_password">>)
request_login == Form(AtLeast(2), 2, <<"try_login">>)

request_create_group == Form(AtLeast(3), 3, <<"try_login", "insert_group">>)
request_add_to_group == Form(AtLeast(4), 4, <<"try_login", "join_group">>)
request_delete_group == Form({3}, 3, <<"try_login", "remove_group">>)
request_leave_group == Form(AtLeast(4), 4, <<"try_login", "leave_group">>)

(* A wrong update_user: five fields are taken for six. *)
SixthFieldEarly == [Form(AtLeast(5), 5, <<"try_login", "update_user">>) EXCEPT !.more = {5, 6}]
request_update_user ==
    [Form(AtLeast(5), 5, <<"try_login", "update_user">>) EXCEPT !.more = {6}]
request_personal_event == Form({9}, 9, <<"try_login", "create_personal_event">>)
request_group_event == Form({9}, 9, <<"try_login", "create_personal_event">>)
request_user_groups == Form({2}, 2, <<"try_login", "list_groups">>)
request_account_info == Form({2}, 2, <<"try_login", "get_account_info">>)
request_group_users == Form({3}, 3, <<"try_login", "list_group_users">>)
request_user_events == Form({4}, 4, <<"try_login", "list_user_events">>)

(* A wrong group_events: membership is not asked for. *)
EventsOfAnyGroup == Form({5}, 5, <<"try_login", "list_user_events">>)
request_group_events == Form({5}, 5, <<"try_login", "user_in_group", "list_user_events">>)
request_personal_month_events == Form({4}, 4, <<"try_login", "list_user_month_events">>)
request_group_month_events ==
    Form({5}, 5, <<"try_login", "group_exists", "user_in_group", "list_user_month_events">>)
request_suggest_user_times == Form({5}, 5, <<"try_login", "suggest_user_events">>)
request_suggest_group_times ==
    Form({6}, 6, <<"try_login", "group_exists", "user_in_group", "suggest_group_events">>)

(* The keywords in the order in which readFromClient looks for them; the   *)
(* last two with the blank that follows them.                              *)
Keywords ==
    << "CREATE_ACCOUNT", "REQUEST_LOGIN", "CREATE_GROUP_EVENT", "CREATE_GROUP",
       "JOIN_GROUP", "LEAVE_GROUP", "UPDATE_ACCOUNT", "REQUEST_GROUPS",
       "REQUEST_ACCOUNT", "DELETE_GROUP", "REQUEST_USERS", "CREATE_USER_EVENT",
       "REQUEST_RESET", "REQUEST_EVENTS", "REQUEST_GROUP_EVENTS",
       "REQUEST_PERSONAL_MONTH_EVENTS", "REQUEST_GROUP_MONTH_EVENTS",
       "CREATE_FRIENDSHIP", "ACCEPT_FRIEND", "REQUEST_FRIENDS", "DELETE_FRIEND",
       "FRIEND_REQUESTS", "ABSENT", "PRESENT", "SUGGEST_TIMES", "REQUEST_TIMES" >>

(* The slot that each keyword's signal is connected to. *)
Slot(keyword) ==
    CASE keyword = "CREATE_ACCOUNT"                -> request_create_account
      [] keyword = "REQUEST_LOGIN"                 -> request_login
      [] keyword = "CREATE_GROUP_EVENT"            -> request_group_event
      [] keyword = "CREATE_GROUP"                  -> request_create_group
      [] keyword = "JOIN_GROUP"                    -> request_add_to_group
      [] keyword = "LEAVE_GROUP"                   -> request_leave_group
      [] keyword = "UPDATE_ACCOUNT"                -> request_update_user
      [] keyword = "REQUEST_GROUPS"                -> request_user_groups
      [] keyword = "REQUEST_ACCOUNT"               -> request_account_info
      [] keyword = "DELETE_GROUP"                  -> request_delete_group
      [] keyword = "REQUEST_USERS"                 -> request_group_users
      [] keyword = "CREATE_USER_EVENT"             -> request_personal_event
      [] keyword = "REQUEST_RESET"                 -> request_reset_password
      [] keyword = "REQUEST_EVENTS"                -> request_user_events
      [] keyword = "REQUEST_GROUP_EVENTS"          -> request_group_events
      [] keyword = "REQUEST_PERSONAL_MONTH_EVENTS" -> request_personal_month_events
      [] keyword = "REQUEST_GROUP_MONTH_EVENTS"    -> request_group_month_events
      [] keyword = "CREATE_FRIENDSHIP"             -> request_create_friendship
      [] keyword = "ACCEPT_FRIEND"                 -> request_accept_friend
      [] keyword = "REQUEST_FRIENDS"               -> request_friends
      [] keyword = "DELETE_FRIEND"                 -> request_delete_friend
      [] keyword = "FRIEND_REQUESTS"               -> request_friend_requests
      [] keyword = "ABSENT"                        -> request_absent
      [] keyword = "PRESENT"                       -> request_present
      [] keyword = "SUGGEST_TIMES"                 -> request_suggest_user_times
      [] keyword = "REQUEST_TIMES"                 -> request_suggest_group_times

Nothing == "NO_KEYWORD"
Verbs == ToSet(Keywords)

(* The keywords that a text contains: one of them is a part of another.    *)
Contained(keyword) ==
    IF keyword = "CREATE_GROUP_EVENT" THEN {keyword, "CREATE_GROUP"} ELSE {keyword} \ {Nothing}

-----------------------------------------------------------------------------
VARIABLES
    verb,          \* the command that the line begins with
    payload,       \* a keyword inside one of its fields
    size,          \* separated.size(), the number of fields
    slot,          \* the keyword whose signal was emitted
    place,         \* where readFromClient and the handler are
    call,          \* index of the handler's next call
    said_yes,      \* the calls that returned true
    replies,       \* the lines written to the client
    served_client  \* whether the handler set it

vars == <<verb, payload, size, slot, place, call, said_yes, replies, served_client>>
lineVars == <<verb, payload, size>>

Calls(h) == ToSet(h.calls)
AllCalls == UNION {Calls(Slot(k)) : k \in Verbs}
Lines == {"INVALID_COMMAND", "INVALID_REQUEST", "REFUSED", "FAILED", "OK"}

(* Every variable keeps to the values the code can store in it. *)
TypeOK ==
    /\ verb \in Verbs \cup {Nothing} /\ payload \in Verbs \cup {Nothing}
    /\ size \in 1 .. MaxFields
    /\ slot \in Verbs \cup {Nothing}
    /\ place \in {"line", "split", "call", "returned", "terminated"}
    /\ call \in 1 .. 5
    /\ said_yes \subseteq AllCalls
    /\ replies \in Seq(Lines)
    /\ served_client \in BOOLEAN

Init ==
    /\ verb \in Verbs \cup {Nothing} /\ payload \in Verbs \cup {Nothing}
    /\ size \in 1 .. MaxFields
    /\ slot = Nothing /\ place = "line" /\ call = 1
    /\ said_yes = {} /\ replies = <<>> /\ served_client = FALSE

(* A wrong answer: the command goes back to the client. *)
ReplyEcho(line) == replies' = Append(replies, slot)
(* disconnect_client: the line is written, and the connection closed. *)
Reply(line) == replies' = Append(replies, line)

(* A wrong branch: served_client is left alone. *)
ReplyOnly(line) ==
    /\ Reply(line) /\ place' = "returned"
    /\ UNCHANGED <<lineVars, slot, call, served_client>>

(* disconnect_client and served_client = true, in either order. *)
ReplyAndServe(line) ==
    /\ Reply(line) /\ served_client' = TRUE
    /\ place' = "returned"
    /\ UNCHANGED <<lineVars, slot, call>>

(* A wrong chain: the last of the keywords that the line contains wins. *)
FoundLast(text) == SelectLastInSeq(Keywords, LAMBDA k : k \in text)
(* The chain of text.contains(): index of the first keyword found, or 0.   *)
Found(text) == SelectInSeq(Keywords, LAMBDA k : k \in text)

(* readFromClient: the signal of the first keyword found. *)
Dispatch ==
    LET text == Contained(verb) \cup Contained(payload)
    IN  /\ place = "line" /\ Found(text) # 0
        /\ slot' = Keywords[Found(text)]
        /\ place' = "split"
        /\ UNCHANGED <<lineVars, call, said_yes, replies, served_client>>

(* No keyword: the client is answered, served_client is left to the        *)
(* disconnection.                                                          *)
InvalidCommand ==
    /\ place = "line" /\ Contained(verb) \cup Contained(payload) = {}
    /\ Reply("INVALID_COMMAND")
    /\ place' = "returned"
    /\ UNCHANGED <<lineVars, slot, call, said_yes, served_client>>

Handler == Slot(slot)

CountFields ==
    /\ place = "split"
    /\ \/ /\ size \in Handler.fields /\ place' = "call"
          /\ UNCHANGED <<lineVars, slot, call, replies, served_client>>
       \/ size \notin Handler.fields /\ ReplyAndServe("INVALID_REQUEST")
    /\ UNCHANGED said_yes

AtCall == place = "call" /\ call <= Len(Handler.calls)
ThisCall == Handler.calls[call]

CallReturnsTrue ==
    /\ AtCall
    /\ call' = call + 1
    /\ said_yes' = said_yes \cup {ThisCall}
    /\ UNCHANGED <<lineVars, slot, place, replies, served_client>>

(* A wrong refusal: the client is answered, and nothing returns. *)
RefuseAndGoOn ==
    /\ AtCall /\ ThisCall # "try_create"
    /\ Reply("REFUSED") /\ call' = call + 1
    /\ UNCHANGED <<lineVars, slot, place, said_yes, served_client>>
(* A call that returns false is answered with its own error, but an        *)
(* account that could not be created is not answered at all.               *)
CallReturnsFalse ==
    /\ AtCall
    /\ \/ ThisCall # "try_create" /\ ReplyAndServe("REFUSED")
       \/ /\ ThisCall = "try_create"
          /\ served_client' = TRUE /\ place' = "returned"
          /\ UNCHANGED <<lineVars, slot, call, replies>>
    /\ UNCHANGED said_yes

(* catch (...): but the first call of create_account is made outside the   *)
(* try, and its exception leaves the slot and ends the process.            *)
CallThrows ==
    /\ AtCall
    /\ \/ call > Len(Handler.calls) - Handler.guarded /\ ReplyAndServe("FAILED")
       \/ /\ call <= Len(Handler.calls) - Handler.guarded
          /\ place' = "terminated"
          /\ UNCHANGED <<lineVars, slot, call, replies, served_client>>
    /\ UNCHANGED said_yes

Finish ==
    /\ place = "call" /\ call > Len(Handler.calls)
    /\ ReplyAndServe("OK")
    /\ UNCHANGED said_yes

Next == \/ Dispatch \/ InvalidCommand \/ CountFields
        \/ CallReturnsTrue \/ CallReturnsFalse \/ CallThrows \/ Finish

Spec == Init /\ [][Next]_vars
FairSpec == Spec /\ WF_vars(Next)

-----------------------------------------------------------------------------
(* Properties.                                                            *)

(* Every line leads to one of the outcomes that WorkerNode takes for       *)
(* granted, none is left over, and nothing is sent or called after the     *)
(* outcome: at most one answer, and an unanswered client only when run()   *)
(* is told (worker_node.cpp:1581-3104).                                    *)
Abstract == INSTANCE LineOutcome WITH outcome <-
    IF place = "returned" THEN <<"returned", Len(replies), served_client>>
    ELSE IF place = "terminated" THEN <<"terminated">>
    ELSE IF replies # <<>> THEN <<"answered_early">> ELSE <<"pending">>
ImplementsLineOutcome == Abstract!FairSpec

(* A handler never reads a field that the line does not have: the number   *)
(* it checks covers the highest index it uses (separated[...] in every     *)
(* handler).                                                               *)
ReadsWithinFields ==
    place = "call" =>
        Handler.used + (IF size \in Handler.more THEN 1 ELSE 0) <= size

(* Whenever a handler reaches a call, everything that its request needs    *)
(* before it has said yes: the password before anything else, except in    *)
(* the two requests of somebody who has none; the membership before a      *)
(* group's calendar is read (worker_node.cpp:2796-2805, 2920-2938,         *)
(* 3055-3073).                                                             *)
CalendarOfGroup == {"REQUEST_GROUP_EVENTS", "REQUEST_GROUP_MONTH_EVENTS", "REQUEST_TIMES"}
ReadsCalendar == {"list_user_events", "list_user_month_events", "suggest_group_events"}
ChecksComeFirst ==
    AtCall =>
        /\ (ThisCall # "try_login" /\ slot \notin {"CREATE_ACCOUNT", "REQUEST_RESET"})
                => "try_login" \in said_yes
        /\ (ThisCall \in ReadsCalendar /\ slot \in CalendarOfGroup)
                => "user_in_group" \in said_yes

(* A handler that has returned has told run(), whatever went wrong; only   *)
(* an exception in create_account's first call ends the process            *)
(* (worker_node.cpp:2003).                                                 *)
HandlersReleaseRun ==
    /\ (place = "returned" /\ slot # Nothing) => served_client
    /\ place = "terminated" => slot = "CREATE_ACCOUNT" /\ said_yes = {}

(* A line whose fields contain no keyword reaches the slot of its command, *)
(* although one keyword contains another; one whose fields do may reach an *)
(* earlier slot of the chain, never a later one (tcp_thread.cpp:165-292).  *)
Position(keyword) == SelectInSeq(Keywords, LAMBDA k : k = keyword)
SlotFollowsTheChain ==
    (place # "line" /\ verb # Nothing) =>
        \/ slot = verb
        \/ slot \in Contained(payload) /\ Position(slot) < Position(verb)

=============================================================================
