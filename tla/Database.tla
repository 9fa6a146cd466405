------------------------------ MODULE Database ------------------------------
(***************************************************************************)
(* The database operations of worker_node.cpp that change rows, with the   *)
(* stored procedures they call and the tables of tables.sql.               *)
(*                                                                         *)
(* Workers share nothing but the database.  Every statement is committed   *)
(* by itself: nobody opens a transaction, neither in worker_node.cpp nor   *)
(* in the procedures.  So one statement is one action, and the statements  *)
(* of two workers interleave.  A statement that fails (a SELECT INTO that  *)
(* finds two rows, a foreign key, the server) ends its procedure, the      *)
(* operation throws, and what the statements before it did stays.          *)
(*                                                                         *)
(* Rows keep the columns that say who belongs to whom, and of an event     *)
(* where it is and when it starts; passwords, mail addresses, an event's   *)
(* date, duration, name and deadline and the flag `absent` are left out,   *)
(* and with them the operations that only read or only set those.          *)
(***************************************************************************)
EXTENDS Integers, Sequences, FiniteSets

CONSTANTS
    Workers,       \* the worker processes
    AccountNames,  \* names that clients use for accounts
    GroupNames,    \* names that clients use for groups
    Events,        \* events that clients ask for: location, start,
                   \* duration, and whether it is immutable
    Registered,    \* accounts that are there at the start, oldest first
    Founded,       \* groups that are there at the start, oldest first
    MayFail,       \* whether the server may fail a statement
    MaxCalls       \* bound: calls in a behaviour

Names == AccountNames \cup GroupNames

ASSUME NameAssumption ==
    /\ Registered \in Seq(AccountNames) /\ Founded \in Seq(GroupNames)
    /\ \A i, j \in 1 .. Len(Registered \o Founded) :
           (Registered \o Founded)[i] = (Registered \o Founded)[j] => i = j
ASSUME EventAssumption ==
    /\ Events \cap Names = {}
    /\ \A e \in Events : e.start \in Int /\ e.duration \in Nat /\ e.immutable \in BOOLEAN
ASSUME FailAssumption == MayFail \in BOOLEAN
ASSUME BoundAssumption == MaxCalls \in Nat

-----------------------------------------------------------------------------
(* The operations.  `name` is the account or group, or the owner of a      *)
(* calendar, that the call is about, `other` its second argument.          *)
(* Whoever asks for a personal event says whether it is immutable; the     *)
(* events of groups never are (worker_node.cpp:2446, 2512).                *)
None == "no argument"
Call(op, names, others) == [do : {op}, name : names, other : others]
Calls ==
    Call("try_create", AccountNames, {None})
    \cup Call("update_user", AccountNames, AccountNames)
    \cup Call("insert_group", GroupNames, {None})
    \cup Call("remove_group", GroupNames, {None})
    \cup Call("join_group", AccountNames, GroupNames)
    \cup Call("leave_group", AccountNames, GroupNames)
    \cup Call("create_friendship", AccountNames, AccountNames)
    \cup Call("accept_friend", AccountNames, AccountNames)
    \cup Call("delete_friend", AccountNames, AccountNames)
    \cup Call("create_personal_event", AccountNames, Events)
    \cup Call("create_personal_event", GroupNames, {e \in Events : ~e.immutable})
Idle == [do |-> "nothing", name |-> None, other |-> None]

(* The statements that each operation executes, in order. *)
Statements ==
    [try_create            |-> <<"user_exists", "insert_schedule", "first_schedule",
                                 "insert_user">>,
     update_user           |-> <<"rename_user">>,
     insert_group          |-> <<"group_exists", "insert_schedule", "find_schedule",
                                 "insert_group">>,
     remove_group          |-> <<"find_group", "delete_members", "delete_group",
                                 "delete_schedules">>,
     join_group            |-> <<"find_group", "find_user", "count_for_join", "insert_member">>,
     leave_group           |-> <<"find_group", "find_user", "count_for_leave", "delete_member">>,
     create_friendship     |-> <<"find_user", "find_friend", "count_friends", "insert_friend">>,
     accept_friend         |-> <<"find_user", "find_friend", "find_relation", "accept">>,
     delete_friend         |-> <<"find_user", "find_friend", "find_relation", "delete_relation">>,
     create_personal_event |-> <<"find_schedule", "count_items", "insert_item">>]

Tables == {"schedules", "users", "groups", "members", "friends", "items"}

VARIABLES
    schedules,             \* rows [id, owner]
    users,                 \* rows [id, sched, name]
    groups,                \* rows [id, sched, name]
    user_group_relation,   \* rows [id, user, group]; the id is the engine's
    user_friend_relation,  \* rows [id, user, friend, accepted]
    schedule_item,         \* rows [id, sched, location, start_time]
    next_id,               \* AUTO_INCREMENT of each table
    call,                  \* the call each worker is in, or Idle
    pc,                    \* index of its next statement
    local,                 \* the variables of its procedure
    started,               \* calls begun so far
    answer,                \* answer given by the last step, or "none"
    seen                   \* history: what has happened so far that the
                           \* procedures do not provide for

tableVars == <<schedules, users, groups, user_group_relation, user_friend_relation,
               schedule_item, next_id>>
vars == <<tableVars, call, pc, local, started, answer, seen>>

(* DECLARE gid, uid, X INT DEFAULT 0, and the schedule's id *)
Zero == [uid |-> 0, fid |-> 0, gid |-> 0, sid |-> 0, X |-> 0]
Disturbances == {"overlap", "removal", "rename", "error", "shared owner"}
Answers == {"none", "true", "false", "thrown"}
Locations == {e.location : e \in Events}

(* Every variable keeps to the values the code can store in it. *)
TypeOK ==
    /\ schedules \subseteq [id : Nat, owner : Names]
    /\ users \subseteq [id : Nat, sched : Nat, name : AccountNames]
    /\ groups \subseteq [id : Nat, sched : Nat, name : GroupNames]
    /\ user_group_relation \subseteq [id : Nat, user : Nat, group : Nat]
    /\ user_friend_relation \subseteq [id : Nat, user : Nat, friend : Nat, accepted : BOOLEAN]
    /\ schedule_item \subseteq [id : Nat, sched : Nat, location : Locations, start_time : Int]
    /\ next_id \in [Tables -> Nat]
    /\ call \in [Workers -> Calls \cup {Idle}]
    /\ pc \in [Workers -> 1 .. 4]
    /\ local \in [Workers -> [uid : Nat, fid : Nat, gid : Nat, sid : Nat, X : Nat]]
    /\ started \in 0 .. MaxCalls
    /\ answer \in Answers
    /\ seen \subseteq Disturbances

Init ==
    /\ schedules = {[id |-> i, owner |-> (Registered \o Founded)[i]] :
                        i \in 1 .. Len(Registered \o Founded)}
    /\ users = {[id |-> i, sched |-> i, name |-> Registered[i]] : i \in DOMAIN Registered}
    /\ groups = {[id |-> i, sched |-> Len(Registered) + i, name |-> Founded[i]] :
                     i \in DOMAIN Founded}
    /\ user_group_relation = {} /\ user_friend_relation = {} /\ schedule_item = {}
    /\ next_id = [t \in Tables |->
                     CASE t = "schedules" -> Len(Registered \o Founded) + 1
                       [] t = "users"     -> Len(Registered) + 1
                       [] t = "groups"    -> Len(Founded) + 1
                       [] OTHER           -> 1]
    /\ call = [k \in Workers |-> Idle] /\ pc = [k \in Workers |-> 1]
    /\ local = [k \in Workers |-> Zero]
    /\ started = 0 /\ answer = "none" /\ seen = {}

-----------------------------------------------------------------------------
(* Calls and statements.                                                  *)

Mentions(x) == {x.name, x.other} \cap Names

(* A worker begins a call.  Two calls overlap when they mention a name in  *)
(* common; calls about different names may run side by side.               *)
Rivals(x) == {j \in Workers : Mentions(call[j]) \cap Mentions(x) # {}}
Clash(x) ==
    IF Rivals(x) = {} THEN {}
    ELSE IF \E j \in Rivals(x) : "remove_group" \in {x.do, call[j].do}
    THEN {"overlap", "removal"} ELSE {"overlap"}

Begin(k, x) ==
    /\ call[k] = Idle /\ started < MaxCalls
    /\ call' = [call EXCEPT ![k] = x]
    /\ started' = started + 1
    /\ seen' = seen \cup Clash(x)
    /\ answer' = "none"
    /\ UNCHANGED <<tableVars, pc, local>>

At(k, statement) == call[k] # Idle /\ Statements[call[k].do][pc[k]] = statement

Return(k, value) ==
    /\ call' = [call EXCEPT ![k] = Idle] /\ pc' = [pc EXCEPT ![k] = 1]
    /\ local' = [local EXCEPT ![k] = Zero]
    /\ answer' = value /\ UNCHANGED started

(* The procedure stops, or returns FALSE, and this statement changed no row. *)
Refuse(k) == Return(k, "false") /\ UNCHANGED <<tableVars, seen>>
Throw(k) == Return(k, "thrown") /\ seen' = seen \cup {"error"} /\ UNCHANGED tableVars

(* On to the next statement.  After the last one the operation is true,    *)
(* unless the connection is lost before the answer is read.                *)
Continue(k, found, noticed) ==
    IF pc[k] < Len(Statements[call[k].do])
    THEN /\ pc' = [pc EXCEPT ![k] = @ + 1] /\ local' = [local EXCEPT ![k] = found]
         /\ answer' = "none" /\ seen' = seen \cup noticed
         /\ UNCHANGED <<call, started>>
    ELSE \/ Return(k, "true") /\ seen' = seen \cup noticed
         \/ MayFail /\ Return(k, "thrown") /\ seen' = seen \cup noticed \cup {"error"}
Found(k, found) == Continue(k, found, {}) /\ UNCHANGED tableVars
Wrote(k) == Continue(k, local[k], {})

(* SELECT id INTO: no row leaves the variable at 0, two are an error.      *)
Several(ids) == \E i, j \in ids : i # j
SelectInto(k, variable, ids) ==
    \/ ids = {} /\ Found(k, local[k])
    \/ \E id \in ids : ids = {id} /\ Found(k, [local[k] EXCEPT ![variable] = id])
    \/ Several(ids) /\ Throw(k)

NamedUsers(name) == {u \in users : u.name = name}
NamedGroups(name) == {g \in groups : g.name = name}
Owned(name) == {s \in schedules : s.owner = name}
Ids(rows) == {r.id : r \in rows}

-----------------------------------------------------------------------------
(* Statements about accounts and groups.                                  *)

(* A wrong form: nobody looks whether the name is taken. *)
UserNotLookedFor(k) == At(k, "user_exists") /\ Found(k, local[k])

(* username_exists, for try_create. *)
UserExists(k) ==
    /\ At(k, "user_exists")
    /\ \/ NamedUsers(call[k].name) # {} /\ Refuse(k)
       \/ NamedUsers(call[k].name) = {} /\ Found(k, local[k])

(* AddGroup counts the groups of that name. *)
GroupExists(k) ==
    /\ At(k, "group_exists")
    /\ \/ NamedGroups(call[k].name) # {} /\ Refuse(k)
       \/ NamedGroups(call[k].name) = {} /\ Found(k, local[k])

InsertSchedule(k) ==
    /\ At(k, "insert_schedule")
    /\ schedules' = schedules \cup {[id |-> next_id["schedules"], owner |-> call[k].name]}
    /\ next_id' = [next_id EXCEPT !["schedules"] = @ + 1]
    /\ Continue(k, local[k], IF Owned(call[k].name) # {} THEN {"shared owner"} ELSE {})
    /\ UNCHANGED <<users, groups, user_group_relation, user_friend_relation, schedule_item>>

(* A wrong form: the query has lost its WHERE. *)
AnySchedule(k) ==
    /\ At(k, "first_schedule")
    /\ \E s \in schedules : Found(k, [local[k] EXCEPT !.sid = s.id])

(* select_schedule_id takes the first row of any number; without one       *)
(* insert_user throws.                                                     *)
FirstSchedule(k) ==
    /\ At(k, "first_schedule")
    /\ IF Owned(call[k].name) = {} THEN Throw(k)
       ELSE \E s \in Owned(call[k].name) : Found(k, [local[k] EXCEPT !.sid = s.id])

(* A wrong form: LIMIT 1, and no error when there are two rows. *)
LimitOne(k) ==
    /\ At(k, "find_schedule")
    /\ IF Owned(call[k].name) = {} THEN Found(k, local[k])
       ELSE \E s \in Owned(call[k].name) : Found(k, [local[k] EXCEPT !.sid = s.id])

(* SELECT schedule_id INTO, in AddGroup and AddPersonalEvent. *)
FindSchedule(k) ==
    At(k, "find_schedule") /\ SelectInto(k, "sid", Ids(Owned(call[k].name)))

ScheduleIds == Ids(schedules)

InsertUser(k) ==
    /\ At(k, "insert_user")
    /\ IF local[k].sid \in ScheduleIds
       THEN /\ users' = users \cup {[id |-> next_id["users"], sched |-> local[k].sid,
                                     name |-> call[k].name]}
            /\ next_id' = [next_id EXCEPT !["users"] = @ + 1]
            /\ Wrote(k)
            /\ UNCHANGED <<schedules, groups, user_group_relation, user_friend_relation,
                           schedule_item>>
       ELSE Throw(k)

InsertGroup(k) ==
    /\ At(k, "insert_group")
    /\ IF local[k].sid \in ScheduleIds
       THEN /\ groups' = groups \cup {[id |-> next_id["groups"], sched |-> local[k].sid,
                                       name |-> call[k].name]}
            /\ next_id' = [next_id EXCEPT !["groups"] = @ + 1]
            /\ Wrote(k)
            /\ UNCHANGED <<schedules, users, user_group_relation, user_friend_relation,
                           schedule_item>>
       ELSE Throw(k)

(* A wrong form: the parameters are bound to the wrong columns. *)
BindsTheWrongColumn(k) ==
    /\ At(k, "rename_user")
    /\ users' = {IF u.name = call[k].name THEN [u EXCEPT !.name = None] ELSE u : u \in users}
    /\ Continue(k, local[k], {"rename"})
    /\ UNCHANGED <<schedules, groups, user_group_relation, user_friend_relation,
                   schedule_item, next_id>>

(* update_user: whoever has the old name and password gets the new name.   *)
(* schedules.owner is left alone, and nobody asks whether the new name is  *)
(* taken.                                                                  *)
RenameUser(k) ==
    /\ At(k, "rename_user")
    /\ \E renamed \in SUBSET NamedUsers(call[k].name) :
        /\ users' = (users \ renamed) \cup {[u EXCEPT !.name = call[k].other] : u \in renamed}
        /\ Continue(k, local[k], IF users' # users THEN {"rename"} ELSE {})
    /\ UNCHANGED <<schedules, groups, user_group_relation, user_friend_relation,
                   schedule_item, next_id>>

(* RemoveGroup: without a group of that name it is refused. *)
RemovesGroup(k) == call[k].do = "remove_group"
FindGroup(k) ==
    /\ At(k, "find_group")
    /\ LET name == IF RemovesGroup(k) THEN call[k].name ELSE call[k].other
       IN  IF RemovesGroup(k) /\ NamedGroups(name) = {} THEN Refuse(k)
           ELSE SelectInto(k, "gid", Ids(NamedGroups(name)))

DeleteMembers(k) ==
    /\ At(k, "delete_members")
    /\ user_group_relation' = {m \in user_group_relation : m.group # local[k].gid}
    /\ Wrote(k)
    /\ UNCHANGED <<schedules, users, groups, user_friend_relation, schedule_item, next_id>>

DeleteGroup(k) ==
    /\ At(k, "delete_group")
    /\ IF \E m \in user_group_relation : m.group = local[k].gid THEN Throw(k)
       ELSE /\ groups' = {g \in groups : g.id # local[k].gid}
            /\ Wrote(k)
            /\ UNCHANGED <<schedules, users, user_group_relation, user_friend_relation,
                           schedule_item, next_id>>

(* Rows of three tables refer to schedules. *)
Referenced(id) == \E r \in users \cup groups \cup schedule_item : r.sched = id
DeleteSchedules(k) ==
    /\ At(k, "delete_schedules")
    /\ IF \E s \in Owned(call[k].name) : Referenced(s.id) THEN Throw(k)
       ELSE /\ schedules' = schedules \ Owned(call[k].name)
            /\ Wrote(k)
            /\ UNCHANGED <<users, groups, user_group_relation, user_friend_relation,
                           schedule_item, next_id>>

-----------------------------------------------------------------------------
(* Statements about members, friends and events.                          *)

FindUser(k) == At(k, "find_user") /\ SelectInto(k, "uid", Ids(NamedUsers(call[k].name)))
FindFriend(k) == At(k, "find_friend") /\ SelectInto(k, "fid", Ids(NamedUsers(call[k].other)))

Members(k) == {m \in user_group_relation : m.user = local[k].uid /\ m.group = local[k].gid}

(* A wrong form: the members are not counted. *)
MembersNotCounted(k) ==
    /\ At(k, "count_for_join")
    /\ IF local[k].gid = 0 \/ local[k].uid = 0 THEN Refuse(k) ELSE Found(k, local[k])

(* AddUserToGroup goes on without such a row, RemoveFromGroup with one.    *)
CountForJoin(k) ==
    /\ At(k, "count_for_join")
    /\ IF local[k].gid = 0 \/ local[k].uid = 0 \/ Members(k) # {}
       THEN Refuse(k) ELSE Found(k, local[k])

CountForLeave(k) ==
    /\ At(k, "count_for_leave")
    /\ IF local[k].gid = 0 \/ local[k].uid = 0 \/ Members(k) = {}
       THEN Refuse(k) ELSE Found(k, local[k])

(* Both foreign keys must be there by now. *)
InsertMember(k) ==
    /\ At(k, "insert_member")
    /\ IF local[k].uid \in Ids(users) /\ local[k].gid \in Ids(groups)
       THEN /\ user_group_relation' = user_group_relation \cup
                    {[id |-> next_id["members"], user |-> local[k].uid, group |-> local[k].gid]}
            /\ next_id' = [next_id EXCEPT !["members"] = @ + 1]
            /\ Wrote(k)
            /\ UNCHANGED <<schedules, users, groups, user_friend_relation, schedule_item>>
       ELSE Throw(k)

DeleteMember(k) ==
    /\ At(k, "delete_member")
    /\ user_group_relation' = user_group_relation \ Members(k)
    /\ Wrote(k)
    /\ UNCHANGED <<schedules, users, groups, user_friend_relation, schedule_item, next_id>>

(* The rows between two users, whoever asked whom. *)
Relations(u, v) == {r \in user_friend_relation : \/ r.user = u /\ r.friend = v
                                                 \/ r.user = v /\ r.friend = u}

CountFriends(k) ==
    /\ At(k, "count_friends")
    /\ IF local[k].fid = 0 \/ local[k].uid = 0 \/ Relations(local[k].uid, local[k].fid) # {}
       THEN Refuse(k) ELSE Found(k, local[k])

InsertFriend(k) ==
    /\ At(k, "insert_friend")
    /\ IF {local[k].uid, local[k].fid} \subseteq Ids(users)
       THEN /\ user_friend_relation' = user_friend_relation \cup
                    {[id |-> next_id["friends"], user |-> local[k].uid,
                      friend |-> local[k].fid, accepted |-> FALSE]}
            /\ next_id' = [next_id EXCEPT !["friends"] = @ + 1]
            /\ Wrote(k)
            /\ UNCHANGED <<schedules, users, groups, user_group_relation, schedule_item>>
       ELSE Throw(k)

(* AcceptFriend and DeleteFriend select the row into X; either side may    *)
(* accept, the one who asked too.                                          *)
FindRelation(k) ==
    /\ At(k, "find_relation")
    /\ LET ids == Ids(Relations(local[k].uid, local[k].fid))
       IN  IF ~Several(ids) /\ (ids = {} \/ local[k].fid = 0 \/ local[k].uid = 0)
           THEN Refuse(k) ELSE SelectInto(k, "X", ids)

Accept(k) ==
    /\ At(k, "accept")
    /\ user_friend_relation' = {IF r.id = local[k].X THEN [r EXCEPT !.accepted = TRUE] ELSE r :
                                    r \in user_friend_relation}
    /\ Wrote(k)
    /\ UNCHANGED <<schedules, users, groups, user_group_relation, schedule_item, next_id>>

DeleteRelation(k) ==
    /\ At(k, "delete_relation")
    /\ user_friend_relation' = {r \in user_friend_relation : r.id # local[k].X}
    /\ Wrote(k)
    /\ UNCHANGED <<schedules, users, groups, user_group_relation, schedule_item, next_id>>

(* AddPersonalEvent looks for an event stored at that place and start      *)
(* time, on whatever date; ItemsNotCounted is a wrong form that does not.  *)
Items(k) ==
    {i \in schedule_item :
        /\ i.sched = local[k].sid
        /\ i.location = call[k].other.location /\ i.start_time = call[k].other.start}
ItemsNotCounted(k) ==
    At(k, "count_items") /\ IF local[k].sid = 0 THEN Refuse(k) ELSE Found(k, local[k])
CountItems(k) ==
    /\ At(k, "count_items")
    /\ IF local[k].sid = 0 \/ Items(k) # {} THEN Refuse(k) ELSE Found(k, local[k])

(* The time given for an event that is not immutable is its deadline, and  *)
(* it is stored to start its duration earlier: so the query above does not *)
(* find it when it is asked for again.                                     *)
StoredStart(e) == IF e.immutable THEN e.start ELSE e.start - e.duration

InsertItem(k) ==
    /\ At(k, "insert_item")
    /\ IF local[k].sid \in ScheduleIds
       THEN /\ schedule_item' = schedule_item \cup
                    {[id |-> next_id["items"], sched |-> local[k].sid,
                      location |-> call[k].other.location,
                      start_time |-> StoredStart(call[k].other)]}
            /\ next_id' = [next_id EXCEPT !["items"] = @ + 1]
            /\ Wrote(k)
            /\ UNCHANGED <<schedules, users, groups, user_group_relation,
                           user_friend_relation>>
       ELSE Throw(k)

(* A statement fails and changes nothing.  When it is the connection that  *)
(* cannot be opened, the operation returns FALSE instead of throwing;      *)
(* username_exists then returns TRUE, and try_create FALSE.  try_create    *)
(* opens it again for insert_user.                                         *)
StatementFails(k) ==
    /\ MayFail /\ call[k] # Idle
    /\ \/ Throw(k)
       \/ /\ pc[k] = 1 \/ (call[k].do = "try_create" /\ pc[k] = 2)
          /\ Return(k, "false") /\ seen' = seen \cup {"error"} /\ UNCHANGED tableVars

-----------------------------------------------------------------------------
(* The procedures' statements; they are told apart by their names.         *)
Statement(k) ==
    \/ UserExists(k) \/ GroupExists(k) \/ InsertSchedule(k) \/ FirstSchedule(k)
    \/ FindSchedule(k) \/ InsertUser(k) \/ InsertGroup(k) \/ RenameUser(k)
    \/ FindGroup(k) \/ DeleteMembers(k) \/ DeleteGroup(k) \/ DeleteSchedules(k)
    \/ FindUser(k) \/ FindFriend(k) \/ CountForJoin(k) \/ CountForLeave(k)
    \/ InsertMember(k) \/ DeleteMember(k) \/ CountFriends(k) \/ InsertFriend(k)
    \/ FindRelation(k) \/ Accept(k) \/ DeleteRelation(k)
    \/ CountItems(k) \/ InsertItem(k)

Next == \E k \in Workers :
            \/ \E x \in Calls : Begin(k, x)
            \/ Statement(k)
            \/ StatementFails(k)

Spec == Init /\ [][Next]_vars

-----------------------------------------------------------------------------
(* What the operations promise.                                           *)

NamesOf(rows) == {r.name : r \in rows}
NameOf(rows, id) == (CHOOSE r \in rows : r.id = id).name

(* A removal takes effect when the members go: from then on the group      *)
(* cannot be seen, although its row and its schedule are still there.      *)
Removing == {k \in Workers : RemovesGroup(k) /\ pc[k] > 2}
VisibleGroups == {g \in groups : \A k \in Removing : local[k].gid # g.id}

(* What the calendar shows of a row. *)
Entry(i) == [owner |-> (CHOOSE s \in schedules : s.id = i.sched).owner,
             location |-> i.location, start |-> i.start_time]
Entries == {Entry(i) : i \in schedule_item}

Book == INSTANCE Registry WITH
    accounts   <- NamesOf(users),
    groups     <- NamesOf(VisibleGroups),
    membership <- {<<p[1].name, p[2].name>> :
                      p \in {p \in users \X VisibleGroups :
                                \E m \in user_group_relation :
                                    m.user = p[1].id /\ m.group = p[2].id}},
    friendship <- {[from |-> NameOf(users, r.user), to |-> NameOf(users, r.friend),
                    accepted |-> r.accepted] : r \in user_friend_relation},
    calendar   <- [e \in Entries |-> Cardinality({i \in schedule_item : Entry(i) = e})],
    asked      <- call,
    acted      <- [k \in Workers |-> k \in Removing],
    void       <- seen # {}

(* As long as calls that mention a common name do not overlap, no account  *)
(* is renamed, no account and group share a name and no statement fails,   *)
(* the operations behave as one registry: each takes effect at one moment  *)
(* and answers TRUE, or changes nothing and answers FALSE.                 *)
ImplementsRegistry == Book!Spec

Undisturbed(kinds) == seen \cap kinds = {}

(* No two accounts have one name unless calls about it overlapped or an    *)
(* account was renamed; statements that fail do no harm here.              *)
AccountNamesUnique ==
    Undisturbed({"overlap", "rename"}) => \A u, v \in users : u.name = v.name => u = v

(* No two groups have one name, even when calls overlap: of two workers    *)
(* that create one group, the second finds two schedules and fails.  Only  *)
(* a removal at the same moment, which takes the new schedule along with   *)
(* the old one, can undo that.                                             *)
GroupNamesUnique ==
    Undisturbed({"removal"}) => \A g, h \in groups : g.name = h.name => g = h

(* Unless calls overlapped, a user is in a group once, and two users are   *)
(* related by one row: a second row makes AcceptFriend and DeleteFriend    *)
(* fail for good.                                                          *)
RelationsOnce ==
    Undisturbed({"overlap"}) =>
        /\ \A m, n \in user_group_relation : m.user = n.user /\ m.group = n.group => m = n
        /\ \A f, g \in user_friend_relation :
               {f.user, f.friend} = {g.user, g.friend} => f = g

(* Every account and group has a schedule of its own, under its name,      *)
(* which is how the calendar is found.                                     *)
CalendarsApart ==
    Undisturbed({"overlap", "rename", "shared owner"}) =>
        /\ \A r \in users \cup groups : \E s \in schedules : s.id = r.sched /\ s.owner = r.name
        /\ \A u, v \in users : u.sched = v.sched => u = v
        /\ \A g, h \in groups : g.sched = h.sched => g = h
        /\ \A u \in users, g \in groups : u.sched # g.sched

(* A removal that does not return true has left the group where it was.    *)
RemovalIsAllOrNothing ==
    [][\A k \in Workers :
          RemovesGroup(k) /\ call'[k] = Idle /\ answer' # "true" /\ local[k].gid # 0
              => \E g \in groups' : g.id = local[k].gid]_vars
=============================================================================
