--------------------------- MODULE DatabaseProofs ---------------------------
(***************************************************************************)
(* Proofs about Database: its type invariant; that no two groups and no    *)
(* two accounts come to have one name; that relations are there once; that *)
(* every account and group keeps its own calendar.                         *)
(***************************************************************************)
EXTENDS Database, TLAPS

Ops == {"try_create", "update_user", "insert_group", "remove_group", "join_group",
        "leave_group", "create_friendship", "accept_friend", "delete_friend",
        "create_personal_event"}

(* The parts of the type invariant: control and tables.  A worker is at a  *)
(* statement of the operation it is in.                                    *)
PcOK ==
    \A k \in Workers : IF call[k] = Idle THEN pc[k] = 1
                       ELSE pc[k] \in 1 .. Len(Statements[call[k].do])

Locals == [uid : Nat, fid : Nat, gid : Nat, sid : Nat, X : Nat]
ControlOK ==
    /\ call \in [Workers -> Calls \cup {Idle}]
    /\ pc \in [Workers -> 1 .. 4]
    /\ local \in [Workers -> Locals]
    /\ started \in 0 .. MaxCalls
    /\ answer \in Answers
    /\ seen \subseteq Disturbances
TablesOK ==
    /\ schedules \subseteq [id : Nat, owner : Names]
    /\ users \subseteq [id : Nat, sched : Nat, name : AccountNames]
    /\ groups \subseteq [id : Nat, sched : Nat, name : GroupNames]
    /\ user_group_relation \subseteq [id : Nat, user : Nat, group : Nat]
    /\ user_friend_relation \subseteq [id : Nat, user : Nat, friend : Nat, accepted : BOOLEAN]
    /\ schedule_item \subseteq [id : Nat, sched : Nat, location : Locations, start_time : Int]
    /\ next_id \in [Tables -> Nat]

Placed == ControlOK /\ TablesOK /\ PcOK

LEMMA CallFields ==
    ASSUME NEW x \in Calls
    PROVE  /\ x.do \in Ops /\ x # Idle
           /\ x.do \in {"try_create", "update_user"} => x.name \in AccountNames
           /\ x.do = "update_user" => x.other \in AccountNames
           /\ x.do \in {"insert_group", "remove_group"} => x.name \in GroupNames
           /\ x.do = "create_personal_event" => x.other \in Events
           /\ x.name \in Names
  <1>1. CASE x \in Call("try_create", AccountNames, {None})
    BY <1>1 DEF Call, Ops, Idle, Names
  <1>2. CASE x \in Call("update_user", AccountNames, AccountNames)
    BY <1>2 DEF Call, Ops, Idle, Names
  <1>3. CASE x \in Call("insert_group", GroupNames, {None})
    BY <1>3 DEF Call, Ops, Idle, Names
  <1>4. CASE x \in Call("remove_group", GroupNames, {None})
    BY <1>4 DEF Call, Ops, Idle, Names
  <1>5. CASE x \in Call("join_group", AccountNames, GroupNames)
    BY <1>5 DEF Call, Ops, Idle, Names
  <1>6. CASE x \in Call("leave_group", AccountNames, GroupNames)
    BY <1>6 DEF Call, Ops, Idle, Names
  <1>7. CASE x \in Call("create_friendship", AccountNames, AccountNames)
    BY <1>7 DEF Call, Ops, Idle, Names
  <1>8. CASE x \in Call("accept_friend", AccountNames, AccountNames)
    BY <1>8 DEF Call, Ops, Idle, Names
  <1>9. CASE x \in Call("delete_friend", AccountNames, AccountNames)
    BY <1>9 DEF Call, Ops, Idle, Names
  <1>10. CASE x \in Call("create_personal_event", AccountNames, Events)
    BY <1>10 DEF Call, Ops, Idle, Names
  <1>11. CASE x \in Call("create_personal_event", GroupNames, {e \in Events : ~e.immutable})
    BY <1>11 DEF Call, Ops, Idle, Names
  <1> QED  BY <1>1, <1>2, <1>3, <1>4, <1>5, <1>6, <1>7, <1>8, <1>9, <1>10, <1>11 DEF Calls

LEMMA StatementsLength ==
    ASSUME NEW op \in Ops
    PROVE  Len(Statements[op]) \in 1 .. 4
  BY DEF Ops, Statements

(* Where each statement that matters below stands. *)
LEMMA Places ==
    ASSUME NEW k \in Workers, Placed, call[k] # Idle, NEW statement, At(k, statement)
    PROVE  /\ call[k] \in Calls
           /\ statement = "insert_schedule" =>
                 pc[k] = 2 /\ call[k].do \in {"try_create", "insert_group"}
           /\ statement = "first_schedule" => pc[k] = 3 /\ call[k].do = "try_create"
           /\ statement = "find_schedule" =>
                 \/ pc[k] = 3 /\ call[k].do = "insert_group"
                 \/ pc[k] = 1 /\ call[k].do = "create_personal_event"
           /\ statement = "insert_user" => pc[k] = 4 /\ call[k].do = "try_create"
           /\ statement = "user_exists" => pc[k] = 1 /\ call[k].do = "try_create"
           /\ statement = "group_exists" => pc[k] = 1 /\ call[k].do = "insert_group"
           /\ statement = "insert_group" => pc[k] = 4 /\ call[k].do = "insert_group"
           /\ statement = "rename_user" => pc[k] = 1 /\ call[k].do = "update_user"
           /\ statement = "find_group" =>
                 pc[k] = 1 /\ call[k].do \in {"remove_group", "join_group", "leave_group"}
           /\ statement = "delete_members" => pc[k] = 2 /\ call[k].do = "remove_group"
           /\ statement = "delete_group" => pc[k] = 3 /\ call[k].do = "remove_group"
           /\ statement = "delete_schedules" => pc[k] = 4 /\ call[k].do = "remove_group"
           /\ call[k].do = "remove_group" =>
                 statement \in {"find_group", "delete_members", "delete_group",
                                "delete_schedules"}
           /\ call[k].do = "insert_group" =>
                 statement \in {"group_exists", "insert_schedule", "find_schedule",
                                "insert_group"}
           /\ call[k].do = "try_create" =>
                 statement \in {"user_exists", "insert_schedule", "first_schedule",
                                "insert_user"}
           /\ statement \in {"count_items", "insert_item"} =>
                 call[k].do = "create_personal_event"
           /\ statement = "insert_member" => pc[k] = 4 /\ call[k].do = "join_group"
           /\ statement = "insert_friend" => pc[k] = 4 /\ call[k].do = "create_friendship"
  <1>1. call[k] \in Calls /\ pc[k] \in 1 .. Len(Statements[call[k].do])
    BY DEF Placed, ControlOK, PcOK
  <1>2. call[k].do \in Ops
    BY <1>1, CallFields
  <1>3. statement = Statements[call[k].do][pc[k]]
    BY DEF At
  <1>4. CASE call[k].do = "try_create"
    BY <1>1, <1>3, <1>4 DEF Statements
  <1>5. CASE call[k].do = "update_user"
    BY <1>1, <1>3, <1>5 DEF Statements
  <1>6. CASE call[k].do = "insert_group"
    BY <1>1, <1>3, <1>6 DEF Statements
  <1>7. CASE call[k].do = "remove_group"
    BY <1>1, <1>3, <1>7 DEF Statements
  <1>8. CASE call[k].do = "join_group"
    BY <1>1, <1>3, <1>8 DEF Statements
  <1>9. CASE call[k].do = "leave_group"
    BY <1>1, <1>3, <1>9 DEF Statements
  <1>10. CASE call[k].do = "create_friendship"
    BY <1>1, <1>3, <1>10 DEF Statements
  <1>11. CASE call[k].do = "accept_friend"
    BY <1>1, <1>3, <1>11 DEF Statements
  <1>12. CASE call[k].do = "delete_friend"
    BY <1>1, <1>3, <1>12 DEF Statements
  <1>13. CASE call[k].do = "create_personal_event"
    BY <1>1, <1>3, <1>13 DEF Statements
  <1> QED  BY <1>2, <1>4, <1>5, <1>6, <1>7, <1>8, <1>9, <1>10, <1>11, <1>12, <1>13 DEF Ops

-----------------------------------------------------------------------------
(* How a statement leaves its worker: at the next one, or idle.           *)

Moves(k) ==
    /\ call' = call /\ pc' = [pc EXCEPT ![k] = @ + 1]
    /\ \E l \in Locals : local' = [local EXCEPT ![k] = l]
Ends(k) ==
    /\ call' = [call EXCEPT ![k] = Idle] /\ pc' = [pc EXCEPT ![k] = 1]
    /\ local' = [local EXCEPT ![k] = Zero]
Left(k) == ControlOK' /\ PcOK' /\ seen \subseteq seen' /\ (Moves(k) \/ Ends(k))

LEMMA ReturnLeft ==
    ASSUME Placed, NEW k \in Workers, NEW value \in Answers, Return(k, value),
           seen \subseteq seen', seen' \subseteq Disturbances
    PROVE  Left(k) /\ Ends(k)
  <1>1. ControlOK /\ PcOK
    BY DEF Placed
  <1>2. Zero \in Locals
    BY DEF Zero, Locals
  <1>3. ControlOK'
    BY <1>1, <1>2 DEF ControlOK, Return, Answers
  <1>4. PcOK'
    BY <1>1 DEF ControlOK, PcOK, Return
  <1> QED  BY <1>3, <1>4 DEF Left, Ends, Return

LEMMA ThrowLeft ==
    ASSUME Placed, NEW k \in Workers, Throw(k)
    PROVE  Left(k) /\ Ends(k)
  <1>1. seen \subseteq seen' /\ seen' \subseteq Disturbances
    BY DEF Placed, ControlOK, Throw, Disturbances
  <1> QED  BY <1>1, ReturnLeft DEF Throw, Answers

LEMMA RefuseLeft ==
    ASSUME Placed, NEW k \in Workers, Refuse(k)
    PROVE  Left(k) /\ Ends(k)
  <1>1. seen \subseteq seen' /\ seen' \subseteq Disturbances
    BY DEF Placed, ControlOK, Refuse
  <1> QED  BY <1>1, ReturnLeft DEF Refuse, Answers

LEMMA ContinueLeft ==
    ASSUME Placed, NEW k \in Workers, call[k] # Idle,
           NEW found \in Locals, NEW noticed \in SUBSET Disturbances,
           Continue(k, found, noticed)
    PROVE  Left(k)
  <1>1. ControlOK /\ PcOK
    BY DEF Placed
  <1>2. CASE pc[k] < Len(Statements[call[k].do])
    <2>1. /\ pc' = [pc EXCEPT ![k] = @ + 1] /\ local' = [local EXCEPT ![k] = found]
          /\ answer' = "none" /\ seen' = seen \cup noticed
          /\ UNCHANGED <<call, started>>
      BY <1>2 DEF Continue
    <2>2. Len(Statements[call[k].do]) \in 1 .. 4
      BY <1>1, CallFields, StatementsLength DEF ControlOK
    <2>3. pc[k] + 1 \in 1 .. Len(Statements[call[k].do])
      BY <1>1, <1>2, <2>2 DEF ControlOK
    <2>4. pc' \in [Workers -> 1 .. 4]
      <3>0. \A top \in 1 .. 4 : 1 .. top \subseteq 1 .. 4
        OBVIOUS
      <3>1. pc[k] + 1 \in 1 .. 4
        BY <2>2, <2>3, <3>0, Zenon
      <3> QED  BY <1>1, <2>1, <3>1 DEF ControlOK
    <2>5. ControlOK'
      BY <1>1, <2>1, <2>4 DEF ControlOK, Answers
    <2>6. PcOK'
      BY <1>1, <2>1, <2>3 DEF ControlOK, PcOK
    <2> QED  BY <2>1, <2>5, <2>6 DEF Left, Moves
  <1>3. CASE ~(pc[k] < Len(Statements[call[k].do]))
    <2>1. (Return(k, "true") \/ Return(k, "thrown")) /\ seen \subseteq seen'
      BY <1>3 DEF Continue
    <2>2. seen' \subseteq Disturbances
      BY <1>1, <1>3 DEF Continue, ControlOK, Disturbances
    <2> QED  BY <2>1, <2>2, ReturnLeft DEF Answers
  <1> QED  BY <1>2, <1>3

LEMMA FoundLeft ==
    ASSUME Placed, NEW k \in Workers, call[k] # Idle, NEW found \in Locals, Found(k, found)
    PROVE  Left(k) /\ UNCHANGED tableVars
  BY ContinueLeft DEF Found

LEMMA WroteLeft ==
    ASSUME Placed, NEW k \in Workers, call[k] # Idle, Wrote(k)
    PROVE  Left(k)
  <1>1. local[k] \in Locals
    BY DEF Placed, ControlOK
  <1> QED  BY <1>1, ContinueLeft DEF Wrote

LEMMA SelectLeft ==
    ASSUME Placed, NEW k \in Workers, call[k] # Idle,
           NEW variable \in {"uid", "fid", "gid", "sid", "X"}, NEW ids \in SUBSET Nat,
           SelectInto(k, variable, ids)
    PROVE  Left(k) /\ UNCHANGED tableVars
  <1>1. local[k] \in Locals
    BY DEF Placed, ControlOK
  <1>2. \A id \in ids : [local[k] EXCEPT ![variable] = id] \in Locals
    BY <1>1 DEF Locals
  <1>3. CASE ids = {} /\ Found(k, local[k])
    BY <1>1, <1>3, FoundLeft
  <1>4. CASE \E id \in ids : ids = {id} /\ Found(k, [local[k] EXCEPT ![variable] = id])
    BY <1>2, <1>4, FoundLeft
  <1>5. CASE Several(ids) /\ Throw(k)
    BY <1>5, ThrowLeft DEF Throw
  <1> QED  BY <1>3, <1>4, <1>5 DEF SelectInto

-----------------------------------------------------------------------------
(* Every statement keeps the types.                                       *)

LEMMA SameTables ==
    ASSUME TablesOK, UNCHANGED tableVars
    PROVE  TablesOK'
  BY DEF TablesOK, tableVars

LEMMA IdsAreNat ==
    ASSUME TablesOK
    PROVE  /\ \A name : Ids(Owned(name)) \in SUBSET Nat
           /\ \A name : Ids(NamedUsers(name)) \in SUBSET Nat
           /\ \A name : Ids(NamedGroups(name)) \in SUBSET Nat
           /\ \A u, v : Ids(Relations(u, v)) \in SUBSET Nat
  BY DEF TablesOK, Ids, Owned, NamedUsers, NamedGroups, Relations

LEMMA BeginKeeps ==
    ASSUME Placed, NEW k \in Workers, NEW x \in Calls, Begin(k, x)
    PROVE  Placed'
  <1>1. ControlOK /\ PcOK /\ TablesOK
    BY DEF Placed
  <1>2. TablesOK'
    BY <1>1, SameTables DEF Begin
  <1>3. Clash(x) \subseteq Disturbances
    BY DEF Clash, Disturbances
  <1>4. started' \in 0 .. MaxCalls
    BY <1>1, BoundAssumption DEF ControlOK, Begin
  <1>5. ControlOK'
    BY <1>1, <1>3, <1>4 DEF ControlOK, Begin, Answers
  <1>6. x.do \in Ops /\ x # Idle
    BY CallFields
  <1>7. Len(Statements[x.do]) \in 1 .. 4
    BY <1>6, StatementsLength
  <1>8. 1 \in 1 .. Len(Statements[x.do])
    <2>1. \A top \in 1 .. 4 : 1 \in 1 .. top
      OBVIOUS
    <2> QED  BY <1>7, <2>1, Zenon
  <1>9. PcOK'
    BY <1>1, <1>6, <1>8 DEF ControlOK, PcOK, Begin
  <1> QED  BY <1>2, <1>5, <1>9 DEF Placed

LEMMA FailureKeeps ==
    ASSUME Placed, NEW k \in Workers, StatementFails(k)
    PROVE  Left(k) /\ Ends(k) /\ UNCHANGED tableVars
  <1>1. CASE Throw(k)
    BY <1>1, ThrowLeft DEF Throw
  <1>2. CASE Return(k, "false") /\ seen' = seen \cup {"error"} /\ UNCHANGED tableVars
    <2>1. seen \subseteq seen' /\ seen' \subseteq Disturbances
      BY <1>2 DEF Placed, ControlOK, Disturbances
    <2> QED  BY <1>2, <2>1, ReturnLeft DEF Answers
  <1> QED  BY <1>1, <1>2 DEF StatementFails

LEMMA StatementKeeps ==
    ASSUME Placed, NEW k \in Workers, Statement(k)
    PROVE  Left(k) /\ TablesOK'
  <1> USE DEF tableVars
  <1>0. ControlOK /\ PcOK /\ TablesOK
    BY DEF Placed
  <1>1. local[k] \in Locals
    BY <1>0 DEF ControlOK
  <1>2. ASSUME Refuse(k) \/ Throw(k)
        PROVE  Left(k) /\ TablesOK'
    BY <1>0, <1>2, RefuseLeft, ThrowLeft, SameTables DEF Refuse, Throw
  <1>3. ASSUME call[k] # Idle, Found(k, local[k])
        PROVE  Left(k) /\ TablesOK'
    BY <1>0, <1>1, <1>3, FoundLeft, SameTables
  <1>4. ASSUME call[k] # Idle, NEW variable \in {"uid", "fid", "gid", "sid", "X"},
               NEW ids \in SUBSET Nat, SelectInto(k, variable, ids)
        PROVE  Left(k) /\ TablesOK'
    BY <1>0, <1>4, SelectLeft, SameTables
  <1>5. ASSUME call[k] # Idle, Wrote(k)
        PROVE  Left(k)
    BY <1>5, WroteLeft
  <1>10. CASE UserExists(k)
    BY <1>10, <1>2, <1>3 DEF UserExists, At
  <1>11. CASE GroupExists(k)
    BY <1>11, <1>2, <1>3 DEF GroupExists, At
  <1>12. CASE InsertSchedule(k)
    <2>1. call[k] # Idle /\ call[k] \in Calls
      BY <1>12, <1>0 DEF InsertSchedule, At, ControlOK
    <2>2. Left(k)
      BY <1>12, <1>1, <2>1, ContinueLeft DEF InsertSchedule, Disturbances
    <2>3. call[k].name \in Names
      BY <2>1, CallFields
    <2>4. /\ schedules' = schedules \cup
                   {[id |-> next_id["schedules"], owner |-> call[k].name]}
          /\ next_id' = [next_id EXCEPT !["schedules"] = @ + 1]
          /\ UNCHANGED <<users, groups, user_group_relation, user_friend_relation,
                         schedule_item>>
      BY <1>12 DEF InsertSchedule
    <2>5. next_id["schedules"] \in Nat /\ next_id' \in [Tables -> Nat]
      BY <1>0, <2>4 DEF TablesOK, Tables
    <2>6. TablesOK'
      BY <1>0, <2>3, <2>4, <2>5 DEF TablesOK
    <2> QED  BY <2>2, <2>6
  <1>13. CASE FirstSchedule(k)
    <2>1. ASSUME NEW t \in Owned(call[k].name) PROVE [local[k] EXCEPT !.sid = t.id] \in Locals
      BY <1>0, <1>1 DEF TablesOK, Owned, Locals
    <2>2. ASSUME call[k] # Idle, NEW found \in Locals, Found(k, found) PROVE Left(k) /\ TablesOK'
      BY <1>0, <2>2, FoundLeft, SameTables
    <2> QED  BY <1>13, <1>2, <2>1, <2>2 DEF FirstSchedule, At
  <1>14. CASE FindSchedule(k)
    BY <1>14, <1>0, <1>2, <1>4, IdsAreNat DEF FindSchedule, At
  <1>15. CASE InsertUser(k)
    <2>1. CASE Throw(k)
      BY <1>15, <1>2, <2>1
    <2>2. CASE ~Throw(k)
      <3>1. call[k] # Idle /\ Wrote(k) /\ At(k, "insert_user")
        BY <1>15, <2>2 DEF InsertUser, At
      <3>2. call[k].name \in AccountNames
        BY <3>1, Places, CallFields
      <3>3. TablesOK'
        BY <1>15, <1>0, <1>1, <2>2, <3>2 DEF InsertUser, TablesOK, Tables, Locals
      <3> QED  BY <1>5, <3>1, <3>3
    <2> QED  BY <2>1, <2>2
  <1>16. CASE InsertGroup(k)
    <2>1. CASE Throw(k)
      BY <1>16, <1>2, <2>1
    <2>2. CASE ~Throw(k)
      <3>1. call[k] # Idle /\ Wrote(k) /\ At(k, "insert_group")
        BY <1>16, <2>2 DEF InsertGroup, At
      <3>2. call[k].name \in GroupNames
        BY <3>1, Places, CallFields
      <3>3. TablesOK'
        BY <1>16, <1>0, <1>1, <2>2, <3>2 DEF InsertGroup, TablesOK, Tables, Locals
      <3> QED  BY <1>5, <3>1, <3>3
    <2> QED  BY <2>1, <2>2
  <1>17. CASE RenameUser(k)
    <2>1. call[k] # Idle /\ At(k, "rename_user")
      BY <1>17 DEF RenameUser, At
    <2>2. call[k].other \in AccountNames
      BY <2>1, Places, CallFields
    <2>3. PICK renamed \in SUBSET NamedUsers(call[k].name) :
            /\ users' = (users \ renamed) \cup {[u EXCEPT !.name = call[k].other] : u \in renamed}
            /\ Continue(k, local[k], IF users' # users THEN {"rename"} ELSE {})
      BY <1>17 DEF RenameUser
    <2>4. Left(k)
      BY <1>1, <2>1, <2>3, ContinueLeft DEF Disturbances
    <2>5. users' \subseteq [id : Nat, sched : Nat, name : AccountNames]
      BY <1>0, <2>2, <2>3 DEF TablesOK, NamedUsers
    <2>6. TablesOK'
      BY <1>17, <1>0, <2>5 DEF RenameUser, TablesOK
    <2> QED  BY <2>4, <2>6
  <1>18. CASE FindGroup(k)
    <2>1. call[k] # Idle
      BY <1>18 DEF FindGroup, At
    <2>2. \/ Refuse(k)
          \/ \E name : SelectInto(k, "gid", Ids(NamedGroups(name)))
      BY <1>18 DEF FindGroup
    <2> QED  BY <1>0, <1>2, <1>4, <2>1, <2>2, IdsAreNat
  <1>19. CASE DeleteMembers(k)
    <2>1. CASE Throw(k)
      BY <1>19, <1>2, <2>1
    <2>2. CASE ~Throw(k)
      <3>1. call[k] # Idle /\ Wrote(k)
        BY <1>19, <2>2 DEF DeleteMembers, At
      <3>2. TablesOK'
        BY <1>19, <1>0, <1>1, <2>2 DEF DeleteMembers, TablesOK, Tables, Locals
      <3> QED  BY <1>5, <3>1, <3>2
    <2> QED  BY <2>1, <2>2
  <1>20. CASE DeleteGroup(k)
    <2>1. CASE Throw(k)
      BY <1>20, <1>2, <2>1
    <2>2. CASE ~Throw(k)
      <3>1. call[k] # Idle /\ Wrote(k)
        BY <1>20, <2>2 DEF DeleteGroup, At
      <3>2. TablesOK'
        BY <1>20, <1>0, <1>1, <2>2 DEF DeleteGroup, TablesOK, Tables, Locals
      <3> QED  BY <1>5, <3>1, <3>2
    <2> QED  BY <2>1, <2>2
  <1>21. CASE DeleteSchedules(k)
    <2>1. CASE Throw(k)
      BY <1>21, <1>2, <2>1
    <2>2. CASE ~Throw(k)
      <3>1. call[k] # Idle /\ Wrote(k)
        BY <1>21, <2>2 DEF DeleteSchedules, At
      <3>2. TablesOK'
        BY <1>21, <1>0, <1>1, <2>2 DEF DeleteSchedules, TablesOK, Tables, Locals
      <3> QED  BY <1>5, <3>1, <3>2
    <2> QED  BY <2>1, <2>2
  <1>22. CASE FindUser(k)
    BY <1>22, <1>0, <1>2, <1>4, IdsAreNat DEF FindUser, At
  <1>23. CASE FindFriend(k)
    BY <1>23, <1>0, <1>2, <1>4, IdsAreNat DEF FindFriend, At
  <1>24. CASE CountForJoin(k)
    BY <1>24, <1>2, <1>3 DEF CountForJoin, At
  <1>25. CASE CountForLeave(k)
    BY <1>25, <1>2, <1>3 DEF CountForLeave, At
  <1>26. CASE InsertMember(k)
    <2>1. CASE Throw(k)
      BY <1>26, <1>2, <2>1
    <2>2. CASE ~Throw(k)
      <3>1. call[k] # Idle /\ Wrote(k)
        BY <1>26, <2>2 DEF InsertMember, At
      <3>2. TablesOK'
        BY <1>26, <1>0, <1>1, <2>2 DEF InsertMember, TablesOK, Tables, Locals
      <3> QED  BY <1>5, <3>1, <3>2
    <2> QED  BY <2>1, <2>2
  <1>27. CASE DeleteMember(k)
    <2>1. CASE Throw(k)
      BY <1>27, <1>2, <2>1
    <2>2. CASE ~Throw(k)
      <3>1. call[k] # Idle /\ Wrote(k)
        BY <1>27, <2>2 DEF DeleteMember, At
      <3>2. TablesOK'
        BY <1>27, <1>0, <1>1, <2>2 DEF DeleteMember, TablesOK, Tables, Locals, Members
      <3> QED  BY <1>5, <3>1, <3>2
    <2> QED  BY <2>1, <2>2
  <1>28. CASE CountFriends(k)
    BY <1>28, <1>2, <1>3 DEF CountFriends, At
  <1>29. CASE InsertFriend(k)
    <2>1. CASE Throw(k)
      BY <1>29, <1>2, <2>1
    <2>2. CASE ~Throw(k)
      <3>1. call[k] # Idle /\ Wrote(k)
        BY <1>29, <2>2 DEF InsertFriend, At
      <3>2. next_id["friends"] \in Nat /\ next_id' \in [Tables -> Nat]
        BY <1>29, <1>0, <2>2 DEF InsertFriend, TablesOK, Tables
      <3>3. local[k].uid \in Nat /\ local[k].fid \in Nat
        BY <1>1 DEF Locals
      <3>4. user_friend_relation' \subseteq
                [id : Nat, user : Nat, friend : Nat, accepted : BOOLEAN]
        <4>1. user_friend_relation' = user_friend_relation \cup
                  {[id |-> next_id["friends"], user |-> local[k].uid,
                    friend |-> local[k].fid, accepted |-> FALSE]}
          BY <1>29, <2>2 DEF InsertFriend
        <4>2. [id |-> next_id["friends"], user |-> local[k].uid,
               friend |-> local[k].fid, accepted |-> FALSE]
                  \in [id : Nat, user : Nat, friend : Nat, accepted : BOOLEAN]
          BY <3>2, <3>3
        <4> QED  BY <1>0, <4>1, <4>2 DEF TablesOK
      <3>5. TablesOK'
        BY <1>29, <1>0, <2>2, <3>2, <3>4 DEF InsertFriend, TablesOK
      <3> QED  BY <1>5, <3>1, <3>5
    <2> QED  BY <2>1, <2>2
  <1>30. CASE FindRelation(k)
    <2>1. call[k] # Idle
      BY <1>30 DEF FindRelation, At
    <2>2. \/ Refuse(k)
          \/ \E u, v : SelectInto(k, "X", Ids(Relations(u, v)))
      BY <1>30 DEF FindRelation
    <2> QED  BY <1>0, <1>2, <1>4, <2>1, <2>2, IdsAreNat
  <1>31. CASE Accept(k)
    <2>1. call[k] # Idle /\ Wrote(k)
      BY <1>31 DEF Accept, At
    <2>2. \A r \in user_friend_relation :
            [r EXCEPT !.accepted = TRUE] \in
                [id : Nat, user : Nat, friend : Nat, accepted : BOOLEAN]
      BY <1>0 DEF TablesOK
    <2>3. user_friend_relation' \subseteq
            [id : Nat, user : Nat, friend : Nat, accepted : BOOLEAN]
      BY <1>31, <1>0, <2>2 DEF Accept, TablesOK
    <2>4. TablesOK'
      BY <1>31, <1>0, <2>3 DEF Accept, TablesOK
    <2> QED  BY <1>5, <2>1, <2>4
  <1>32. CASE DeleteRelation(k)
    <2>1. CASE Throw(k)
      BY <1>32, <1>2, <2>1
    <2>2. CASE ~Throw(k)
      <3>1. call[k] # Idle /\ Wrote(k)
        BY <1>32, <2>2 DEF DeleteRelation, At
      <3>2. TablesOK'
        BY <1>32, <1>0, <1>1, <2>2 DEF DeleteRelation, TablesOK, Tables, Locals
      <3> QED  BY <1>5, <3>1, <3>2
    <2> QED  BY <2>1, <2>2
  <1>33. CASE CountItems(k)
    BY <1>33, <1>2, <1>3 DEF CountItems, At
  <1>34. CASE InsertItem(k)
    <2>1. CASE Throw(k)
      BY <1>34, <1>2, <2>1
    <2>2. CASE ~Throw(k)
      <3>1. call[k] # Idle /\ Wrote(k) /\ At(k, "insert_item")
        BY <1>34, <2>2 DEF InsertItem, At
      <3>2. call[k].other \in Events
        BY <3>1, Places, CallFields
      <3>3. call[k].other.location \in Locations /\ StoredStart(call[k].other) \in Int
        BY <3>2, EventAssumption DEF Locations, StoredStart
      <3>4. TablesOK'
        BY <1>34, <1>0, <1>1, <2>2, <3>3 DEF InsertItem, TablesOK, Tables, Locals
      <3> QED  BY <1>5, <3>1, <3>4
    <2> QED  BY <2>1, <2>2
  <1> QED  BY <1>10, <1>11, <1>12, <1>13, <1>14, <1>15, <1>16, <1>17, <1>18, <1>19,
              <1>20, <1>21, <1>22, <1>23, <1>24, <1>25, <1>26, <1>27, <1>28, <1>29,
              <1>30, <1>31, <1>32, <1>33, <1>34 DEF Statement

LEMMA InitPlaced == Init => Placed
  <1> SUFFICES ASSUME Init PROVE Placed
    OBVIOUS
  <1>1. Registered \in Seq(AccountNames) /\ Founded \in Seq(GroupNames)
    BY NameAssumption
  <1>2. Registered \o Founded \in Seq(Names)
    BY <1>1 DEF Names
  <1>3. schedules \subseteq [id : Nat, owner : Names]
    BY <1>2 DEF Init
  <1>4. Len(Registered) \in Nat /\ Len(Founded) \in Nat
    BY <1>1
  <1>5. users \subseteq [id : Nat, sched : Nat, name : AccountNames]
    BY <1>1 DEF Init
  <1>6. groups \subseteq [id : Nat, sched : Nat, name : GroupNames]
    BY <1>1 DEF Init
  <1>7. next_id \in [Tables -> Nat]
    BY <1>1, <1>2 DEF Init, Tables
  <1>8. TablesOK
    BY <1>3, <1>5, <1>6, <1>7 DEF Init, TablesOK
  <1>9. ControlOK
    BY BoundAssumption DEF Init, ControlOK, Answers, Locals, Zero
  <1>10. PcOK
    BY DEF Init, PcOK
  <1> QED  BY <1>8, <1>9, <1>10 DEF Placed

LEMMA StepPlaced == Placed /\ [Next]_vars => Placed'
  <1> SUFFICES ASSUME Placed, [Next]_vars PROVE Placed'
    OBVIOUS
  <1>0. TablesOK
    BY DEF Placed
  <1>1. CASE UNCHANGED vars
    BY <1>1 DEF Placed, ControlOK, TablesOK, PcOK, vars, tableVars
  <1>2. ASSUME NEW k \in Workers, NEW x \in Calls, Begin(k, x) PROVE Placed'
    BY <1>2, BeginKeeps
  <1>3. ASSUME NEW k \in Workers, Statement(k) PROVE Placed'
    BY <1>3, StatementKeeps DEF Left, Placed
  <1>4. ASSUME NEW k \in Workers, StatementFails(k) PROVE Placed'
    BY <1>0, <1>4, FailureKeeps, SameTables DEF Left, Placed
  <1> QED  BY <1>1, <1>2, <1>3, <1>4 DEF Next

(* Whatever the workers do, every row, every procedure's variable and      *)
(* every answer keeps its type.                                            *)
THEOREM TypesHold == Spec => []TypeOK
  <1>1. Placed => TypeOK
    BY DEF Placed, ControlOK, TablesOK, TypeOK, Locals
  <1> QED  BY <1>1, InitPlaced, StepPlaced, PTL DEF Spec

-----------------------------------------------------------------------------
(* Which statement a worker executes is told by its place in the call; the *)
(* table below says who writes and who finds what.                         *)

LEMMA WhichStatement ==
    ASSUME NEW k \in Workers, Statement(k)
    PROVE  \E statement :
              /\ At(k, statement)
              /\ statement = "user_exists" => UserExists(k)
              /\ statement = "group_exists" => GroupExists(k)
              /\ statement = "insert_schedule" => InsertSchedule(k)
              /\ statement = "first_schedule" => FirstSchedule(k)
              /\ statement = "find_schedule" => FindSchedule(k)
              /\ statement = "insert_user" => InsertUser(k)
              /\ statement = "insert_group" => InsertGroup(k)
              /\ statement = "rename_user" => RenameUser(k)
              /\ statement = "find_group" => FindGroup(k)
              /\ statement = "delete_members" => DeleteMembers(k)
              /\ statement = "delete_group" => DeleteGroup(k)
              /\ statement = "delete_schedules" => DeleteSchedules(k)
              /\ statement = "find_user" => FindUser(k)
              /\ statement = "find_friend" => FindFriend(k)
              /\ statement = "count_for_join" => CountForJoin(k)
              /\ statement = "count_for_leave" => CountForLeave(k)
              /\ statement = "insert_member" => InsertMember(k)
              /\ statement = "delete_member" => DeleteMember(k)
              /\ statement = "count_friends" => CountFriends(k)
              /\ statement = "insert_friend" => InsertFriend(k)
              /\ statement = "find_relation" => FindRelation(k)
              /\ statement = "accept" => Accept(k)
              /\ statement = "delete_relation" => DeleteRelation(k)
              /\ statement = "count_items" => CountItems(k)
              /\ statement = "insert_item" => InsertItem(k)
  <1>10. CASE UserExists(k)
    <2>1. At(k, "user_exists")
      BY <1>10 DEF UserExists
    <2> QED  BY <1>10, <2>1
  <1>11. CASE GroupExists(k)
    <2>1. At(k, "group_exists")
      BY <1>11 DEF GroupExists
    <2> QED  BY <1>11, <2>1
  <1>12. CASE InsertSchedule(k)
    <2>1. At(k, "insert_schedule")
      BY <1>12 DEF InsertSchedule
    <2> QED  BY <1>12, <2>1
  <1>13. CASE FirstSchedule(k)
    <2>1. At(k, "first_schedule")
      BY <1>13 DEF FirstSchedule
    <2> QED  BY <1>13, <2>1
  <1>14. CASE FindSchedule(k)
    <2>1. At(k, "find_schedule")
      BY <1>14 DEF FindSchedule
    <2> QED  BY <1>14, <2>1
  <1>15. CASE InsertUser(k)
    <2>1. At(k, "insert_user")
      BY <1>15 DEF InsertUser
    <2> QED  BY <1>15, <2>1
  <1>16. CASE InsertGroup(k)
    <2>1. At(k, "insert_group")
      BY <1>16 DEF InsertGroup
    <2> QED  BY <1>16, <2>1
  <1>17. CASE RenameUser(k)
    <2>1. At(k, "rename_user")
      BY <1>17 DEF RenameUser
    <2> QED  BY <1>17, <2>1
  <1>18. CASE FindGroup(k)
    <2>1. At(k, "find_group")
      BY <1>18 DEF FindGroup
    <2> QED  BY <1>18, <2>1
  <1>19. CASE DeleteMembers(k)
    <2>1. At(k, "delete_members")
      BY <1>19 DEF DeleteMembers
    <2> QED  BY <1>19, <2>1
  <1>20. CASE DeleteGroup(k)
    <2>1. At(k, "delete_group")
      BY <1>20 DEF DeleteGroup
    <2> QED  BY <1>20, <2>1
  <1>21. CASE DeleteSchedules(k)
    <2>1. At(k, "delete_schedules")
      BY <1>21 DEF DeleteSchedules
    <2> QED  BY <1>21, <2>1
  <1>22. CASE FindUser(k)
    <2>1. At(k, "find_user")
      BY <1>22 DEF FindUser
    <2> QED  BY <1>22, <2>1
  <1>23. CASE FindFriend(k)
    <2>1. At(k, "find_friend")
      BY <1>23 DEF FindFriend
    <2> QED  BY <1>23, <2>1
  <1>24. CASE CountForJoin(k)
    <2>1. At(k, "count_for_join")
      BY <1>24 DEF CountForJoin
    <2> QED  BY <1>24, <2>1
  <1>25. CASE CountForLeave(k)
    <2>1. At(k, "count_for_leave")
      BY <1>25 DEF CountForLeave
    <2> QED  BY <1>25, <2>1
  <1>26. CASE InsertMember(k)
    <2>1. At(k, "insert_member")
      BY <1>26 DEF InsertMember
    <2> QED  BY <1>26, <2>1
  <1>27. CASE DeleteMember(k)
    <2>1. At(k, "delete_member")
      BY <1>27 DEF DeleteMember
    <2> QED  BY <1>27, <2>1
  <1>28. CASE CountFriends(k)
    <2>1. At(k, "count_friends")
      BY <1>28 DEF CountFriends
    <2> QED  BY <1>28, <2>1
  <1>29. CASE InsertFriend(k)
    <2>1. At(k, "insert_friend")
      BY <1>29 DEF InsertFriend
    <2> QED  BY <1>29, <2>1
  <1>30. CASE FindRelation(k)
    <2>1. At(k, "find_relation")
      BY <1>30 DEF FindRelation
    <2> QED  BY <1>30, <2>1
  <1>31. CASE Accept(k)
    <2>1. At(k, "accept")
      BY <1>31 DEF Accept
    <2> QED  BY <1>31, <2>1
  <1>32. CASE DeleteRelation(k)
    <2>1. At(k, "delete_relation")
      BY <1>32 DEF DeleteRelation
    <2> QED  BY <1>32, <2>1
  <1>33. CASE CountItems(k)
    <2>1. At(k, "count_items")
      BY <1>33 DEF CountItems
    <2> QED  BY <1>33, <2>1
  <1>34. CASE InsertItem(k)
    <2>1. At(k, "insert_item")
      BY <1>34 DEF InsertItem
    <2> QED  BY <1>34, <2>1
  <1> QED  BY <1>10, <1>11, <1>12, <1>13, <1>14, <1>15, <1>16, <1>17, <1>18,
              <1>19, <1>20, <1>21, <1>22, <1>23, <1>24, <1>25, <1>26, <1>27,
              <1>28, <1>29, <1>30, <1>31, <1>32, <1>33, <1>34 DEF Statement

LEMMA StatementMeansBusy ==
    ASSUME NEW k \in Workers, Statement(k)
    PROVE  call[k] # Idle
  BY WhichStatement DEF At

(* Who writes which table. *)
LEMMA WhatItWrites ==
    ASSUME TablesOK, NEW k \in Workers, Statement(k)
    PROVE  /\ \/ users' = users /\ next_id'["users"] = next_id["users"]
              \/ InsertUser(k) /\ ~Throw(k)
              \/ RenameUser(k)
           /\ \/ schedules' = schedules /\ next_id'["schedules"] = next_id["schedules"]
              \/ InsertSchedule(k)
              \/ DeleteSchedules(k) /\ ~Throw(k)
           /\ groups' \subseteq groups \/ (InsertGroup(k) /\ ~Throw(k))
           /\ \/ user_group_relation' \subseteq user_group_relation
              \/ InsertMember(k) /\ ~Throw(k)
           /\ \/ user_friend_relation' \subseteq user_friend_relation
              \/ InsertFriend(k) /\ ~Throw(k)
              \/ Accept(k)
  <1> DEFINE Nothing == UNCHANGED <<schedules, users, groups, user_group_relation,
                                    user_friend_relation, next_id>>
  <1>1. next_id \in [Tables -> Nat]
    BY DEF TablesOK
  <1>2. ASSUME Refuse(k) \/ Throw(k) \/ \E found : Found(k, found)
        PROVE  Nothing
    BY <1>2 DEF Refuse, Throw, Found, tableVars
  <1>3. ASSUME NEW variable, NEW ids, SelectInto(k, variable, ids)
        PROVE  Nothing
    BY <1>2, <1>3 DEF SelectInto
  <1>10. CASE UserExists(k)
    <2>1. Nothing
      BY <1>10, <1>2, <1>3 DEF UserExists
    <2> QED  BY <2>1
  <1>11. CASE GroupExists(k)
    <2>1. Nothing
      BY <1>11, <1>2, <1>3 DEF GroupExists
    <2> QED  BY <2>1
  <1>12. CASE InsertSchedule(k)
    BY <1>12, <1>1 DEF InsertSchedule, Tables
  <1>13. CASE FirstSchedule(k)
    <2>1. Nothing
      BY <1>13, <1>2, <1>3 DEF FirstSchedule
    <2> QED  BY <2>1
  <1>14. CASE FindSchedule(k)
    <2>1. Nothing
      BY <1>14, <1>2, <1>3 DEF FindSchedule
    <2> QED  BY <2>1
  <1>15. CASE InsertUser(k)
    BY <1>15, <1>1, <1>2 DEF InsertUser, Tables
  <1>16. CASE InsertGroup(k)
    BY <1>16, <1>1, <1>2 DEF InsertGroup, Tables
  <1>17. CASE RenameUser(k)
    BY <1>17, <1>1 DEF RenameUser, Tables
  <1>18. CASE FindGroup(k)
    <2>1. Nothing
      BY <1>18, <1>2, <1>3 DEF FindGroup
    <2> QED  BY <2>1
  <1>19. CASE DeleteMembers(k)
    BY <1>19, <1>1 DEF DeleteMembers, Tables
  <1>20. CASE DeleteGroup(k)
    BY <1>20, <1>1, <1>2 DEF DeleteGroup, Tables
  <1>21. CASE DeleteSchedules(k)
    BY <1>21, <1>1, <1>2 DEF DeleteSchedules, Tables
  <1>22. CASE FindUser(k)
    <2>1. Nothing
      BY <1>22, <1>2, <1>3 DEF FindUser
    <2> QED  BY <2>1
  <1>23. CASE FindFriend(k)
    <2>1. Nothing
      BY <1>23, <1>2, <1>3 DEF FindFriend
    <2> QED  BY <2>1
  <1>24. CASE CountForJoin(k)
    <2>1. Nothing
      BY <1>24, <1>2, <1>3 DEF CountForJoin
    <2> QED  BY <2>1
  <1>25. CASE CountForLeave(k)
    <2>1. Nothing
      BY <1>25, <1>2, <1>3 DEF CountForLeave
    <2> QED  BY <2>1
  <1>26. CASE InsertMember(k)
    BY <1>26, <1>1, <1>2 DEF InsertMember, Tables
  <1>27. CASE DeleteMember(k)
    BY <1>27, <1>1 DEF DeleteMember, Tables
  <1>28. CASE CountFriends(k)
    <2>1. Nothing
      BY <1>28, <1>2, <1>3 DEF CountFriends
    <2> QED  BY <2>1
  <1>29. CASE InsertFriend(k)
    BY <1>29, <1>1, <1>2 DEF InsertFriend, Tables
  <1>30. CASE FindRelation(k)
    <2>1. Nothing
      BY <1>30, <1>2, <1>3 DEF FindRelation
    <2> QED  BY <2>1
  <1>31. CASE Accept(k)
    BY <1>31, <1>1 DEF Accept, Tables
  <1>32. CASE DeleteRelation(k)
    BY <1>32, <1>1 DEF DeleteRelation, Tables
  <1>33. CASE CountItems(k)
    <2>1. Nothing
      BY <1>33, <1>2, <1>3 DEF CountItems
    <2> QED  BY <2>1
  <1>34. CASE InsertItem(k)
    BY <1>34, <1>1, <1>2 DEF InsertItem, Tables
  <1> QED  BY <1>10, <1>11, <1>12, <1>13, <1>14, <1>15, <1>16, <1>17, <1>18,
              <1>19, <1>20, <1>21, <1>22, <1>23, <1>24, <1>25, <1>26, <1>27,
              <1>28, <1>29, <1>30, <1>31, <1>32, <1>33, <1>34 DEF Statement

(* What a statement leaves in the procedure's variables, when the call     *)
(* goes on.                                                                *)
LEMMA ContinueFinds ==
    ASSUME Placed, NEW k \in Workers, Moves(k), NEW found, NEW noticed,
           Continue(k, found, noticed)
    PROVE  local'[k] = found
  <1>1. pc'[k] # 1
    BY DEF Moves, Placed, ControlOK
  <1>2. ~Return(k, "true") /\ ~Return(k, "thrown")
    BY <1>1 DEF Return, Placed, ControlOK
  <1> QED  BY <1>2 DEF Continue, Placed, ControlOK

LEMMA MovesOn ==
    ASSUME Placed, NEW k \in Workers, Moves(k)
    PROVE  ~Refuse(k) /\ ~Throw(k)
  <1>1. pc'[k] # 1
    BY DEF Moves, Placed, ControlOK
  <1> QED  BY <1>1 DEF Refuse, Throw, Return, Placed, ControlOK

LEMMA SelectFinds ==
    ASSUME Placed, NEW k \in Workers, Moves(k), NEW variable, NEW ids,
           SelectInto(k, variable, ids)
    PROVE  \/ local'[k] = local[k]
           \/ \E id \in ids : local'[k] = [local[k] EXCEPT ![variable] = id]
  BY MovesOn, ContinueFinds DEF SelectInto, Found

LEMMA WhatItFinds ==
    ASSUME Placed, NEW k \in Workers, Statement(k), Moves(k)
    PROVE  /\ \/ local'[k].uid = local[k].uid
              \/ local'[k].uid \in Ids(NamedUsers(call[k].name))
           /\ \/ local'[k].fid = local[k].fid
              \/ local'[k].fid \in Ids(NamedUsers(call[k].other))
           /\ \/ local'[k].sid = local[k].sid
              \/ local'[k].sid \in Ids(Owned(call[k].name))
  <1>1. local[k] \in Locals
    BY DEF Placed, ControlOK
  <1>2. ASSUME Refuse(k) \/ Throw(k) \/ Wrote(k) \/ Found(k, local[k])
        PROVE  local'[k] = local[k]
    BY <1>2, MovesOn, ContinueFinds DEF Wrote, Found
  <1>10. CASE UserExists(k)
    BY <1>10, <1>2 DEF UserExists
  <1>11. CASE GroupExists(k)
    BY <1>11, <1>2 DEF GroupExists
  <1>12. CASE InsertSchedule(k)
    BY <1>12, ContinueFinds DEF InsertSchedule
  <1>13. CASE FirstSchedule(k)
    <2>1. \E id \in Ids(Owned(call[k].name)) : local'[k] = [local[k] EXCEPT !.sid = id]
      BY <1>13, MovesOn, ContinueFinds DEF FirstSchedule, Found, Ids
    <2> QED  BY <1>1, <2>1 DEF Locals
  <1>14. CASE FindSchedule(k)
    <2>1. \/ local'[k] = local[k]
          \/ \E id \in Ids(Owned(call[k].name)) : local'[k] = [local[k] EXCEPT !.sid = id]
      BY <1>14, <1>2, SelectFinds DEF FindSchedule
    <2> QED  BY <1>1, <2>1 DEF Locals
  <1>15. CASE InsertUser(k)
    BY <1>15, <1>2 DEF InsertUser
  <1>16. CASE InsertGroup(k)
    BY <1>16, <1>2 DEF InsertGroup
  <1>17. CASE RenameUser(k)
    BY <1>17, ContinueFinds DEF RenameUser
  <1>18. CASE FindGroup(k)
    <2>1. \/ local'[k] = local[k]
          \/ \E id : local'[k] = [local[k] EXCEPT !.gid = id]
      BY <1>18, <1>2, SelectFinds DEF FindGroup
    <2> QED  BY <1>1, <2>1 DEF Locals
  <1>19. CASE DeleteMembers(k)
    BY <1>19, <1>2 DEF DeleteMembers
  <1>20. CASE DeleteGroup(k)
    BY <1>20, <1>2 DEF DeleteGroup
  <1>21. CASE DeleteSchedules(k)
    BY <1>21, <1>2 DEF DeleteSchedules
  <1>22. CASE FindUser(k)
    <2>1. \/ local'[k] = local[k]
          \/ \E id \in Ids(NamedUsers(call[k].name)) : local'[k] = [local[k] EXCEPT !.uid = id]
      BY <1>22, <1>2, SelectFinds DEF FindUser
    <2> QED  BY <1>1, <2>1 DEF Locals
  <1>23. CASE FindFriend(k)
    <2>1. \/ local'[k] = local[k]
          \/ \E id \in Ids(NamedUsers(call[k].other)) : local'[k] = [local[k] EXCEPT !.fid = id]
      BY <1>23, <1>2, SelectFinds DEF FindFriend
    <2> QED  BY <1>1, <2>1 DEF Locals
  <1>24. CASE CountForJoin(k)
    BY <1>24, <1>2 DEF CountForJoin
  <1>25. CASE CountForLeave(k)
    BY <1>25, <1>2 DEF CountForLeave
  <1>26. CASE InsertMember(k)
    BY <1>26, <1>2 DEF InsertMember
  <1>27. CASE DeleteMember(k)
    BY <1>27, <1>2 DEF DeleteMember
  <1>28. CASE CountFriends(k)
    BY <1>28, <1>2 DEF CountFriends
  <1>29. CASE InsertFriend(k)
    BY <1>29, <1>2 DEF InsertFriend
  <1>30. CASE FindRelation(k)
    <2>1. \/ local'[k] = local[k]
          \/ \E id : local'[k] = [local[k] EXCEPT !.X = id]
      BY <1>30, <1>2, SelectFinds DEF FindRelation
    <2> QED  BY <1>1, <2>1 DEF Locals
  <1>31. CASE Accept(k)
    BY <1>31, <1>2 DEF Accept
  <1>32. CASE DeleteRelation(k)
    BY <1>32, <1>2 DEF DeleteRelation
  <1>33. CASE CountItems(k)
    BY <1>33, <1>2 DEF CountItems
  <1>34. CASE InsertItem(k)
    BY <1>34, <1>2 DEF InsertItem
  <1> QED  BY <1>10, <1>11, <1>12, <1>13, <1>14, <1>15, <1>16, <1>17, <1>18,
              <1>19, <1>20, <1>21, <1>22, <1>23, <1>24, <1>25, <1>26, <1>27,
              <1>28, <1>29, <1>30, <1>31, <1>32, <1>33, <1>34 DEF Statement

-----------------------------------------------------------------------------
(* No two groups of one name.  A worker that has inserted the schedule of  *)
(* a new group has a claim to the name.  Whoever finds one schedule of     *)
(* that name is the only one with a claim, since two claims, or a claim    *)
(* and a group, come with two schedules.                                   *)

Claims(k, name) == call[k].do = "insert_group" /\ call[k].name = name /\ pc[k] > 2

Fresh == \A s \in schedules : s.id < next_id["schedules"]
RemovalAlone ==
    \A j, k \in Workers :
        RemovesGroup(k) /\ j # k /\ call[j] # Idle => Mentions(call[j]) \cap Mentions(call[k]) = {}
RemovalAims ==
    \A k \in Workers : RemovesGroup(k) =>
        /\ pc[k] > 1 => \A g \in groups : g.name = call[k].name => g.id = local[k].gid
        /\ pc[k] > 3 => \A g \in groups : g.name # call[k].name
SchedulesThere ==
    /\ \A k \in Workers : \A n \in GroupNames : Claims(k, n) => Owned(n) # {}
    /\ \A g \in groups : Owned(g.name) # {}
ClaimsCounted ==
    /\ \A j, k \in Workers : \A n \in GroupNames :
           j # k /\ Claims(j, n) /\ Claims(k, n) => Several(Ids(Owned(n)))
    /\ \A k \in Workers : \A g \in groups :
           Claims(k, g.name) => Several(Ids(Owned(g.name)))
FinderAlone ==
    \A k \in Workers : \A n \in GroupNames : Claims(k, n) /\ pc[k] = 4 =>
        /\ \A g \in groups : g.name # n
        /\ \A j \in Workers : j # k => ~(Claims(j, n) /\ pc[j] = 4)
NamesUnique == \A g, h \in groups : g.name = h.name => g = h

ClaimsOK == SchedulesThere /\ ClaimsCounted /\ FinderAlone /\ NamesUnique
GroupInv == Fresh /\ ("removal" \notin seen => RemovalAlone /\ RemovalAims /\ ClaimsOK)

LEMMA OthersStay ==
    ASSUME Placed, NEW k \in Workers, Moves(k) \/ Ends(k)
    PROVE  /\ \A j \in Workers : j # k =>
                  call'[j] = call[j] /\ pc'[j] = pc[j] /\ local'[j] = local[j]
           /\ Moves(k) => call'[k] = call[k] /\ pc'[k] = pc[k] + 1
           /\ Ends(k) => call'[k] = Idle /\ pc'[k] = 1
           /\ call'[k].do # "nothing" => Moves(k)
  BY DEF Placed, ControlOK, Moves, Ends, Idle, Zero

LEMMA AloneKept ==
    ASSUME Placed, RemovalAlone, NEW k \in Workers, Moves(k) \/ Ends(k)
    PROVE  RemovalAlone'
  <1>1. \A j \in Workers : call'[j] = call[j] \/ call'[j] = Idle
    BY OthersStay
  <1>2. Idle.do # "remove_group"
    BY DEF Idle
  <1> QED  BY <1>1, <1>2 DEF RemovalAlone, RemovesGroup, Mentions

(* Claims that are given up, groups that go and schedules that come do no  *)
(* harm.                                                                   *)
LEMMA ClaimsKept ==
    ASSUME Placed, ClaimsOK, groups' \subseteq groups, schedules \subseteq schedules',
           \A j \in Workers : \A n \in GroupNames : Claims(j, n)' => Claims(j, n) /\ pc'[j] = pc[j]
    PROVE  ClaimsOK'
  <1>0. \A g \in groups : g.name \in GroupNames
    BY DEF Placed, TablesOK
  <1>1. \A n \in GroupNames : Owned(n) \subseteq Owned(n)'
    BY DEF Owned
  <1>2. \A n \in GroupNames : Several(Ids(Owned(n))) => Several(Ids(Owned(n)))'
    BY <1>1 DEF Several, Ids
  <1>3. SchedulesThere'
    BY <1>0, <1>1 DEF ClaimsOK, SchedulesThere
  <1>4. ClaimsCounted'
    BY <1>0, <1>2 DEF ClaimsOK, ClaimsCounted
  <1>5. FinderAlone'
    BY DEF ClaimsOK, FinderAlone
  <1>6. NamesUnique'
    BY DEF ClaimsOK, NamesUnique
  <1> QED  BY <1>3, <1>4, <1>5, <1>6 DEF ClaimsOK

(* A step that touches neither groups nor schedules, nor brings a worker   *)
(* to a claim or along its removal.                                        *)
LEMMA QuietKeeps ==
    ASSUME Placed, GroupInv, NEW k \in Workers, Moves(k) \/ Ends(k), seen \subseteq seen',
           schedules' = schedules, groups' = groups,
           next_id'["schedules"] = next_id["schedules"],
           Moves(k) => ~RemovesGroup(k) /\ (call[k].do = "insert_group" => pc[k] = 1)
    PROVE  GroupInv'
  <1>1. Fresh'
    BY DEF GroupInv, Fresh
  <1>2. SUFFICES ASSUME "removal" \notin seen PROVE (RemovalAlone /\ RemovalAims /\ ClaimsOK)'
    BY <1>1 DEF GroupInv
  <1>3. RemovalAlone /\ RemovalAims /\ ClaimsOK
    BY <1>2 DEF GroupInv
  <1>4. RemovalAims'
    BY <1>3, OthersStay DEF RemovalAims, RemovesGroup, Idle
  <1>5. ASSUME NEW j \in Workers, NEW n \in GroupNames, Claims(j, n)'
        PROVE  Claims(j, n) /\ pc'[j] = pc[j]
    <2>1. CASE j # k
      BY <1>5, <2>1, OthersStay DEF Claims
    <2>2. CASE j = k
      BY <1>5, <2>2, OthersStay DEF Claims, Placed, ControlOK
    <2> QED  BY <2>1, <2>2
  <1>6. ClaimsOK'
    BY <1>3, <1>5, ClaimsKept
  <1> QED  BY <1>3, <1>4, <1>6, AloneKept

LEMMA BeginKeepsGroups ==
    ASSUME Placed, GroupInv, NEW k \in Workers, NEW x \in Calls, Begin(k, x)
    PROVE  GroupInv'
  <1>1. /\ call[k] = Idle /\ pc' = pc /\ local' = local /\ seen' = seen \cup Clash(x)
        /\ schedules' = schedules /\ groups' = groups /\ next_id' = next_id
        /\ call' = [call EXCEPT ![k] = x]
    BY DEF Begin, tableVars
  <1>2. pc[k] = 1 /\ x # Idle /\ \A j \in Workers : call'[j] = IF j = k THEN x ELSE call[j]
    BY <1>1, CallFields DEF Placed, PcOK, ControlOK
  <1>3. Fresh'
    BY <1>1 DEF GroupInv, Fresh
  <1>4. SUFFICES ASSUME "removal" \notin seen'
                 PROVE  (RemovalAlone /\ RemovalAims /\ ClaimsOK)'
    BY <1>3 DEF GroupInv
  <1>5. RemovalAlone /\ RemovalAims /\ ClaimsOK
    BY <1>1, <1>4 DEF GroupInv
  <1>6. ASSUME NEW j \in Workers, j # k, x.do = "remove_group" \/ call[j].do = "remove_group"
        PROVE  Mentions(call[j]) \cap Mentions(x) = {}
    <2>1. j \notin Rivals(x)
      BY <1>1, <1>4, <1>6 DEF Clash
    <2> QED  BY <1>6, <2>1 DEF Rivals
  <1>7. RemovalAlone'
    <2> SUFFICES ASSUME NEW i \in Workers, NEW j \in Workers, call'[j].do = "remove_group",
                        i # j, call'[i] # Idle
                 PROVE  Mentions(call'[i]) \cap Mentions(call'[j]) = {}
      BY DEF RemovalAlone, RemovesGroup, Mentions
    <2> QED  BY <1>2, <1>5, <1>6 DEF RemovalAlone, RemovesGroup
  <1>8. RemovalAims'
    BY <1>1, <1>2, <1>5 DEF RemovalAims, RemovesGroup
  <1>9. ASSUME NEW j \in Workers, NEW n \in GroupNames, Claims(j, n)'
        PROVE  Claims(j, n) /\ pc'[j] = pc[j]
    BY <1>1, <1>2, <1>9 DEF Claims
  <1>10. ClaimsOK'
    BY <1>1, <1>5, <1>9, ClaimsKept
  <1> QED  BY <1>7, <1>8, <1>10

LEMMA InsertScheduleKeepsGroups ==
    ASSUME Placed, GroupInv, NEW k \in Workers, InsertSchedule(k), Left(k)
    PROVE  GroupInv'
  <1> DEFINE new == [id |-> next_id["schedules"], owner |-> call[k].name]
  <1>1. /\ pc[k] = 2 /\ ~RemovesGroup(k)
        /\ call[k].do = "insert_group" => call[k].name \in GroupNames
    BY Places, CallFields DEF InsertSchedule, At, RemovesGroup
  <1>2. /\ schedules' = schedules \cup {new} /\ groups' = groups
        /\ next_id' = [next_id EXCEPT !["schedules"] = @ + 1]
    BY DEF InsertSchedule
  <1>3. next_id["schedules"] \in Nat /\ next_id'["schedules"] = next_id["schedules"] + 1
    BY <1>2 DEF Placed, TablesOK, Tables
  <1>4. \A s \in schedules : s.id \in Nat
    BY DEF Placed, TablesOK
  <1>5. Fresh'
    BY <1>2, <1>3, <1>4 DEF GroupInv, Fresh
  <1>6. SUFFICES ASSUME "removal" \notin seen PROVE (RemovalAlone /\ RemovalAims /\ ClaimsOK)'
    BY <1>5 DEF GroupInv, Left
  <1>7. RemovalAlone /\ RemovalAims /\ ClaimsOK /\ Fresh
    BY <1>6 DEF GroupInv
  <1>8. RemovalAims'
    BY <1>1, <1>2, <1>7, OthersStay DEF RemovalAims, RemovesGroup, Left, Idle
  <1>9. ASSUME NEW j \in Workers, NEW n \in GroupNames, Claims(j, n)'
        PROVE  IF j = k THEN n = call[k].name /\ pc'[j] = 3 /\ call[k].do = "insert_group"
                        ELSE Claims(j, n) /\ pc'[j] = pc[j]
    BY <1>1, <1>9, OthersStay DEF Claims, Left, Idle
  <1>10. \A n \in GroupNames : /\ Owned(n) \subseteq Owned(n)'
                               /\ n = call[k].name => new \in Owned(n)'
    BY <1>2 DEF Owned
  <1>11. \A n \in GroupNames : Several(Ids(Owned(n))) => Several(Ids(Owned(n)))'
    BY <1>10 DEF Several, Ids
  <1>12. \A n \in GroupNames :
            n = call[k].name /\ Owned(n) # {} => Several(Ids(Owned(n)))'
    <2> SUFFICES ASSUME NEW n \in GroupNames, n = call[k].name, NEW s \in Owned(n)
                 PROVE  Several(Ids(Owned(n)))'
      OBVIOUS
    <2>1. s.id # new.id
      BY <1>3, <1>4, <1>7 DEF Fresh, Owned
    <2>2. s \in Owned(n)' /\ new \in Owned(n)'
      BY <1>10
    <2> QED  BY <2>1, <2>2 DEF Several, Ids
  <1>13. \A g \in groups : g.name \in GroupNames
    BY DEF Placed, TablesOK
  <1>14. SchedulesThere'
    BY <1>2, <1>7, <1>9, <1>10, <1>13 DEF ClaimsOK, SchedulesThere
  <1>15. ClaimsCounted'
    <2>1. ASSUME NEW i \in Workers, NEW j \in Workers, NEW n \in GroupNames,
                 i # j, Claims(i, n)', Claims(j, n)'
          PROVE  Several(Ids(Owned(n)))'
      <3>1. CASE i # k /\ j # k
        BY <1>7, <1>9, <1>11, <2>1, <3>1 DEF ClaimsOK, ClaimsCounted
      <3>2. CASE i = k \/ j = k
        BY <1>7, <1>9, <1>12, <2>1, <3>2 DEF ClaimsOK, SchedulesThere
      <3> QED  BY <3>1, <3>2
    <2>2. ASSUME NEW j \in Workers, NEW g \in groups, Claims(j, g.name)'
          PROVE  Several(Ids(Owned(g.name)))'
      <3>1. CASE j # k
        BY <1>7, <1>9, <1>11, <1>13, <2>2, <3>1 DEF ClaimsOK, ClaimsCounted
      <3>2. CASE j = k
        BY <1>7, <1>9, <1>12, <1>13, <2>2, <3>2 DEF ClaimsOK, SchedulesThere
      <3> QED  BY <3>1, <3>2
    <2> QED  BY <1>2, <2>1, <2>2 DEF ClaimsCounted
  <1>16. FinderAlone'
    BY <1>2, <1>7, <1>9 DEF ClaimsOK, FinderAlone
  <1>17. NamesUnique'
    BY <1>2, <1>7 DEF ClaimsOK, NamesUnique
  <1> QED  BY <1>7, <1>8, <1>14, <1>15, <1>16, <1>17, AloneKept DEF ClaimsOK, Left

LEMMA FindScheduleKeepsGroups ==
    ASSUME Placed, GroupInv, NEW k \in Workers, FindSchedule(k), Left(k)
    PROVE  GroupInv'
  <1>0. UNCHANGED tableVars
    BY DEF FindSchedule, SelectInto, Found, Throw
  <1>1. \/ pc[k] = 3 /\ call[k].do = "insert_group" /\ call[k].name \in GroupNames
        \/ call[k].do = "create_personal_event"
    BY Places, CallFields DEF FindSchedule, At
  <1>2. CASE ~Moves(k) \/ call[k].do = "create_personal_event"
    BY <1>0, <1>2, QuietKeeps DEF Left, RemovesGroup, tableVars
  <1>3. CASE Moves(k) /\ pc[k] = 3 /\ call[k].do = "insert_group" /\ call[k].name \in GroupNames
    <2>1. schedules' = schedules /\ groups' = groups /\ next_id' = next_id
      BY <1>0 DEF tableVars
    <2>2. Fresh'
      BY <2>1 DEF GroupInv, Fresh
    <2>3. SUFFICES ASSUME "removal" \notin seen
                   PROVE  (RemovalAlone /\ RemovalAims /\ ClaimsOK)'
      BY <2>2 DEF GroupInv, Left
    <2>4. RemovalAlone /\ RemovalAims /\ ClaimsOK
      BY <2>3 DEF GroupInv
    <2>5. /\ \A j \in Workers : j # k => local'[j] = local[j]
          /\ \A j \in Workers : call'[j] = call[j] /\ (j # k => pc'[j] = pc[j])
          /\ pc'[k] = 4
      BY <1>3, OthersStay
    <2>6. \A j \in Workers : \A n \in GroupNames : Claims(j, n)' <=> Claims(j, n)
      BY <1>3, <2>5 DEF Claims
    <2>7. Claims(k, call[k].name)
      BY <1>3 DEF Claims
    <2>8. ~Throw(k)
      BY <1>3, ThrowLeft DEF Moves, Ends, Placed, ControlOK, PcOK, Throw, Return
    <2>9. \E id : Ids(Owned(call[k].name)) = {id}
      <3>1. Ids(Owned(call[k].name)) # {}
        BY <1>3, <2>4, <2>7 DEF ClaimsOK, SchedulesThere, Ids
      <3> QED  BY <2>8, <3>1 DEF FindSchedule, SelectInto
    <2>10. ~Several(Ids(Owned(call[k].name)))
      BY <2>9 DEF Several
    <2>11. /\ \A g \in groups : g.name # call[k].name
           /\ \A j \in Workers : j # k => ~Claims(j, call[k].name)
      BY <1>3, <2>4, <2>7, <2>10 DEF ClaimsOK, ClaimsCounted
    <2>12. RemovalAims'
      BY <1>3, <2>1, <2>4, <2>5 DEF RemovalAims, RemovesGroup
    <2>13. SchedulesThere' /\ ClaimsCounted' /\ NamesUnique'
      <3>1. \A n : Owned(n)' = Owned(n)
        BY <2>1 DEF Owned
      <3>2. \A g \in groups : g.name \in GroupNames
        BY DEF Placed, TablesOK
      <3>3. SchedulesThere'
        BY <2>1, <2>4, <2>6, <3>1 DEF ClaimsOK, SchedulesThere
      <3>4. \A n : Several(Ids(Owned(n)))' <=> Several(Ids(Owned(n)))
        BY <3>1 DEF Several, Ids
      <3>5. ClaimsCounted'
        BY <2>1, <2>4, <2>6, <3>2, <3>4 DEF ClaimsOK, ClaimsCounted
      <3>6. NamesUnique'
        BY <2>1, <2>4 DEF ClaimsOK, NamesUnique
      <3> QED  BY <3>3, <3>5, <3>6
    <2>14. FinderAlone'
      <3> SUFFICES ASSUME NEW i \in Workers, NEW n \in GroupNames, Claims(i, n)', pc'[i] = 4
                   PROVE  /\ \A g \in groups : g.name # n
                          /\ \A j \in Workers : j # i => ~(Claims(j, n)' /\ pc'[j] = 4)
        BY <2>1 DEF FinderAlone
      <3>1. CASE i = k
        <4>1. n = call[k].name
          BY <2>6, <3>1 DEF Claims
        <4> QED  BY <2>6, <2>11, <3>1, <4>1
      <3>2. CASE i # k
        <4>1. Claims(i, n) /\ pc[i] = 4
          BY <2>5, <2>6, <3>2
        <4>2. n # call[k].name
          BY <2>11, <3>2, <4>1
        <4>3. ~Claims(k, n)
          BY <4>2 DEF Claims
        <4> QED  BY <2>4, <2>5, <2>6, <4>1, <4>3 DEF ClaimsOK, FinderAlone
      <3> QED  BY <3>1, <3>2
    <2> QED  BY <2>4, <2>12, <2>13, <2>14, AloneKept DEF ClaimsOK, Left
  <1> QED  BY <1>1, <1>2, <1>3

LEMMA InsertGroupKeepsGroups ==
    ASSUME Placed, GroupInv, NEW k \in Workers, InsertGroup(k), Left(k)
    PROVE  GroupInv'
  <1> DEFINE name == call[k].name
             new == [id |-> next_id["groups"], sched |-> local[k].sid, name |-> name]
  <1>1. pc[k] = 4 /\ call[k].do = "insert_group" /\ name \in GroupNames
    BY Places, CallFields DEF InsertGroup, At
  <1>2. ~Moves(k)
    BY <1>1 DEF Moves, Left, Placed, ControlOK
  <1>3. Ends(k)
    BY <1>2 DEF Left
  <1>4. CASE Throw(k)
    BY <1>2, <1>3, <1>4, QuietKeeps DEF Left, Throw, tableVars
  <1>5. CASE ~Throw(k)
    <2>1. /\ groups' = groups \cup {new} /\ schedules' = schedules
          /\ next_id' = [next_id EXCEPT !["groups"] = @ + 1]
      BY <1>5 DEF InsertGroup
    <2>2. Fresh'
      BY <2>1 DEF GroupInv, Fresh, Placed, TablesOK, Tables
    <2>3. SUFFICES ASSUME "removal" \notin seen
                   PROVE  (RemovalAlone /\ RemovalAims /\ ClaimsOK)'
      BY <2>2 DEF GroupInv, Left
    <2>4. RemovalAlone /\ RemovalAims /\ ClaimsOK
      BY <2>3 DEF GroupInv
    <2>5. Claims(k, name)
      BY <1>1 DEF Claims
    <2>6. /\ \A g \in groups : g.name # name
          /\ \A j \in Workers : j # k => ~(Claims(j, name) /\ pc[j] = 4)
      BY <1>1, <2>4, <2>5 DEF ClaimsOK, FinderAlone
    <2>7. ASSUME NEW j \in Workers, NEW n \in GroupNames, Claims(j, n)'
          PROVE  j # k /\ Claims(j, n) /\ pc'[j] = pc[j]
      BY <1>3, <2>7, OthersStay DEF Claims, Idle
    <2>8. \A n : Owned(n)' = Owned(n)
      BY <2>1 DEF Owned
    <2>9. \A n : Several(Ids(Owned(n)))' <=> Several(Ids(Owned(n)))
      BY <2>8 DEF Several, Ids
    <2>10. \A g \in groups : g.name \in GroupNames
      BY DEF Placed, TablesOK
    <2>11. RemovalAims'
      <3> SUFFICES ASSUME NEW j \in Workers, call'[j].do = "remove_group"
                   PROVE  /\ pc'[j] > 1 => \A g \in groups' : g.name = call'[j].name => g.id = local'[j].gid
                          /\ pc'[j] > 3 => \A g \in groups' : g.name # call'[j].name
        BY DEF RemovalAims, RemovesGroup
      <3>1. j # k /\ call'[j] = call[j] /\ pc'[j] = pc[j] /\ local'[j] = local[j]
        BY <1>3, OthersStay DEF Idle
      <3>2. Mentions(call[j]) \cap Mentions(call[k]) = {}
        BY <1>1, <2>4, <3>1 DEF RemovalAlone, RemovesGroup, Idle
      <3>3. call[j].name # name
        BY <1>1, <3>2 DEF Mentions, Names
      <3> QED  BY <2>1, <2>4, <3>1, <3>3 DEF RemovalAims, RemovesGroup
    <2>12. SchedulesThere'
      BY <1>1, <2>1, <2>4, <2>5, <2>7, <2>8 DEF ClaimsOK, SchedulesThere
    <2>13. ClaimsCounted'
      <3>1. ASSUME NEW i \in Workers, NEW j \in Workers, NEW n \in GroupNames,
                   i # j, Claims(i, n)', Claims(j, n)'
            PROVE  Several(Ids(Owned(n)))'
        BY <2>4, <2>7, <2>9, <3>1 DEF ClaimsOK, ClaimsCounted
      <3>2. ASSUME NEW j \in Workers, NEW g \in groups', Claims(j, g.name)'
            PROVE  Several(Ids(Owned(g.name)))'
        <4>1. CASE g \in groups
          BY <2>4, <2>7, <2>9, <2>10, <3>2, <4>1 DEF ClaimsOK, ClaimsCounted
        <4>2. CASE g = new
          <5>1. g.name = name
            BY <4>2
          <5>2. j # k /\ Claims(j, name)
            BY <1>1, <2>7, <3>2, <5>1
          <5>3. Several(Ids(Owned(name)))
            BY <1>1, <2>4, <2>5, <5>2 DEF ClaimsOK, ClaimsCounted
          <5> QED  BY <2>9, <5>1, <5>3
        <4> QED  BY <2>1, <4>1, <4>2
      <3> QED  BY <3>1, <3>2 DEF ClaimsCounted
    <2>14. FinderAlone'
      <3> SUFFICES ASSUME NEW i \in Workers, NEW n \in GroupNames, Claims(i, n)', pc'[i] = 4
                   PROVE  /\ \A g \in groups' : g.name # n
                          /\ \A j \in Workers : j # i => ~(Claims(j, n)' /\ pc'[j] = 4)
        BY DEF FinderAlone
      <3>1. i # k /\ Claims(i, n) /\ pc[i] = 4
        BY <2>7
      <3>2. n # name
        BY <2>6, <3>1
      <3> QED  BY <2>1, <2>4, <2>7, <3>1, <3>2 DEF ClaimsOK, FinderAlone
    <2>15. NamesUnique'
      BY <2>1, <2>4, <2>6 DEF ClaimsOK, NamesUnique
    <2> QED  BY <1>3, <2>4, <2>11, <2>12, <2>13, <2>14, <2>15, AloneKept DEF ClaimsOK
  <1> QED  BY <1>4, <1>5

LEMMA RemovalKeepsGroups ==
    ASSUME Placed, GroupInv, NEW k \in Workers, Left(k), RemovesGroup(k),
           FindGroup(k) \/ DeleteMembers(k) \/ DeleteGroup(k) \/ DeleteSchedules(k)
    PROVE  GroupInv'
  <1> DEFINE name == call[k].name
  <1>1. name \in GroupNames /\ call[k] # Idle
    BY Places, CallFields DEF FindGroup, DeleteMembers, DeleteGroup, DeleteSchedules, At, RemovesGroup
  <1>2. CASE /\ Ends(k) /\ schedules' = schedules /\ groups' = groups
             /\ next_id'["schedules"] = next_id["schedules"]
    <2>1. ~Moves(k) \/ ~RemovesGroup(k)'
      BY <1>2, OthersStay DEF RemovesGroup, Idle
    <2>2. ~Moves(k)
      BY <1>2, <2>1, OthersStay DEF RemovesGroup, Idle
    <2> QED  BY <1>2, <2>2, QuietKeeps DEF Left
  <1>3. ASSUME next_id' = next_id, schedules' \subseteq schedules, groups' \subseteq groups
        PROVE  /\ Fresh'
               /\ "removal" \notin seen =>
                     /\ RemovalAlone' /\ FinderAlone' /\ NamesUnique'
                     /\ (schedules' = schedules => ClaimsOK')
                     /\ ((Moves(k) =>
                            /\ pc'[k] > 1 => \A g \in groups' : g.name = name => g.id = local'[k].gid
                            /\ pc'[k] > 3 => \A g \in groups' : g.name # name)
                         => RemovalAims')
    <2>1. Fresh'
      BY <1>3 DEF GroupInv, Fresh
    <2>2. SUFFICES ASSUME "removal" \notin seen
                   PROVE  /\ RemovalAlone' /\ FinderAlone' /\ NamesUnique'
                          /\ (schedules' = schedules => ClaimsOK')
                          /\ ((Moves(k) =>
                                 /\ pc'[k] > 1 => \A g \in groups' :
                                       g.name = name => g.id = local'[k].gid
                                 /\ pc'[k] > 3 => \A g \in groups' : g.name # name)
                              => RemovalAims')
      BY <2>1
    <2>3. RemovalAlone /\ RemovalAims /\ ClaimsOK
      BY <2>2 DEF GroupInv
    <2>4. ASSUME NEW j \in Workers, NEW n \in GroupNames, Claims(j, n)'
          PROVE  Claims(j, n) /\ pc'[j] = pc[j]
      BY <2>4, OthersStay DEF Claims, Idle, Left, RemovesGroup
    <2>5. FinderAlone' /\ NamesUnique'
      BY <1>3, <2>3, <2>4 DEF ClaimsOK, FinderAlone, NamesUnique
    <2>6. schedules' = schedules => ClaimsOK'
      BY <1>3, <2>3, <2>4, ClaimsKept
    <2>7. ASSUME Moves(k) =>
                   /\ pc'[k] > 1 => \A g \in groups' : g.name = name => g.id = local'[k].gid
                   /\ pc'[k] > 3 => \A g \in groups' : g.name # name
          PROVE  RemovalAims'
      <3> SUFFICES ASSUME NEW j \in Workers, call'[j].do = "remove_group"
                   PROVE  /\ pc'[j] > 1 => \A g \in groups' :
                                g.name = call'[j].name => g.id = local'[j].gid
                          /\ pc'[j] > 3 => \A g \in groups' : g.name # call'[j].name
        BY DEF RemovalAims, RemovesGroup
      <3>1. CASE j = k
        BY <2>7, <3>1, OthersStay DEF Left, Idle
      <3>2. CASE j # k
        BY <1>3, <2>3, <3>2, OthersStay DEF RemovalAims, RemovesGroup, Left
      <3> QED  BY <3>1, <3>2
    <2> QED  BY <2>3, <2>5, <2>6, <2>7, AloneKept DEF Left
  <1>4. CASE FindGroup(k)
    <2>1. UNCHANGED tableVars
      BY <1>4 DEF FindGroup, SelectInto, Found, Refuse, Throw
    <2>2. ASSUME Moves(k) PROVE \A g \in groups : g.name = name => g.id = local'[k].gid
      <3>0. ~Refuse(k) /\ ~Throw(k)
        BY <1>1, <2>2 DEF Refuse, Throw, Return, Moves, Left, PcOK, Placed, ControlOK
      <3>1. \/ Ids(NamedGroups(name)) = {} /\ NamedGroups(name) # {}
            \/ \E id \in Ids(NamedGroups(name)) :
                  Ids(NamedGroups(name)) = {id} /\ Found(k, [local[k] EXCEPT !.gid = id])
        BY <1>4, <3>0 DEF FindGroup, SelectInto
      <3>2. PICK id : Ids(NamedGroups(name)) = {id} /\ Found(k, [local[k] EXCEPT !.gid = id])
        BY <3>1 DEF Ids
      <3>3. local'[k].gid = id
        <4>1. pc'[k] # 1
          BY <2>2 DEF Moves, Placed, ControlOK
        <4>2. ~Return(k, "true") /\ ~Return(k, "thrown")
          BY <4>1 DEF Return, Placed, ControlOK
        <4>3. local' = [local EXCEPT ![k] = [local[k] EXCEPT !.gid = id]]
          BY <3>2, <4>2 DEF Found, Continue
        <4> QED  BY <4>3 DEF Placed, ControlOK, Locals
      <3> QED  BY <3>2, <3>3 DEF Ids, NamedGroups
    <2>3. Moves(k) => pc'[k] = 2
      BY <1>4, Places, OthersStay DEF FindGroup, At, RemovesGroup
    <2> QED  BY <1>3, <2>1, <2>2, <2>3 DEF GroupInv, Left, tableVars, ClaimsOK
  <1>5. CASE DeleteMembers(k)
    <2>1. pc[k] = 2 /\ schedules' = schedules /\ groups' = groups /\ next_id' = next_id
      BY <1>5, Places DEF DeleteMembers, At
    <2>2. Moves(k) => pc'[k] = 3
      BY <2>1, OthersStay
    <2>3. Moves(k) => local'[k].gid = local[k].gid
      <3>1. SUFFICES ASSUME Moves(k) PROVE local'[k].gid = local[k].gid
        OBVIOUS
      <3>2. ~Return(k, "true") /\ ~Return(k, "thrown")
        BY <2>2, <3>1 DEF Return, Placed, ControlOK
      <3> QED  BY <1>5, <3>2 DEF DeleteMembers, Wrote, Continue, Placed, ControlOK
    <2> QED  BY <1>3, <2>1, <2>2, <2>3 DEF GroupInv, Left, RemovalAims
  <1>6. CASE DeleteGroup(k)
    <2>1. CASE Throw(k)
      BY <1>2, <2>1, ThrowLeft DEF Throw, tableVars
    <2>2. CASE ~Throw(k)
      <3>1. /\ groups' = {g \in groups : g.id # local[k].gid}
            /\ schedules' = schedules /\ next_id' = next_id /\ pc[k] = 3
        BY <1>6, <2>2, Places DEF DeleteGroup, At
      <3>2. "removal" \notin seen => \A g \in groups' : g.name # name
        BY <3>1 DEF GroupInv, RemovalAims
      <3> QED  BY <1>3, <3>1, <3>2 DEF GroupInv, Left
    <2> QED  BY <2>1, <2>2
  <1>7. CASE DeleteSchedules(k)
    <2>1. CASE Throw(k)
      BY <1>2, <2>1, ThrowLeft DEF Throw, tableVars
    <2>2. CASE ~Throw(k)
      <3>1. /\ schedules' = schedules \ Owned(name) /\ groups' = groups /\ next_id' = next_id
            /\ pc[k] = 4
        BY <1>7, <2>2, Places DEF DeleteSchedules, At
      <3>2. ~Moves(k)
        BY <3>1 DEF Moves, Left, Placed, ControlOK
      <3>3. ASSUME "removal" \notin seen PROVE SchedulesThere' /\ ClaimsCounted'
        <4>1. RemovalAlone /\ RemovalAims /\ ClaimsOK
          BY <3>3 DEF GroupInv
        <4>2. ASSUME NEW j \in Workers, NEW n \in GroupNames, Claims(j, n)'
              PROVE  Claims(j, n) /\ n # name
          <5>1. j # k /\ Claims(j, n) /\ call[j].name = n /\ call[j] # Idle
            BY <3>2, <4>2, OthersStay DEF Claims, Idle, Left
          <5>2. Mentions(call[j]) \cap Mentions(call[k]) = {}
            BY <4>1, <5>1 DEF RemovalAlone
          <5> QED  BY <1>1, <5>1, <5>2 DEF Mentions, Names
        <4>3. \A g \in groups : g.name # name /\ g.name \in GroupNames
          BY <3>1, <4>1 DEF RemovalAims, Placed, TablesOK
        <4>4. \A n \in GroupNames : n # name => Owned(n)' = Owned(n)
          BY <3>1 DEF Owned
        <4>5. \A n \in GroupNames :
                n # name => (Several(Ids(Owned(n)))' <=> Several(Ids(Owned(n))))
          BY <4>4 DEF Several, Ids
        <4>6. SchedulesThere'
          BY <3>1, <4>1, <4>2, <4>3, <4>4 DEF ClaimsOK, SchedulesThere
        <4>7. ClaimsCounted'
          BY <3>1, <4>1, <4>2, <4>3, <4>5 DEF ClaimsOK, ClaimsCounted
        <4> QED  BY <4>6, <4>7
      <3> QED  BY <1>3, <3>1, <3>2, <3>3 DEF GroupInv, Left, ClaimsOK
    <2> QED  BY <2>1, <2>2
  <1> QED  BY <1>4, <1>5, <1>6, <1>7

(* The statements that touch neither groups nor schedules.                 *)
LEMMA OtherStatements ==
    ASSUME Placed, NEW k \in Workers,
           \/ UserExists(k) \/ GroupExists(k) \/ FirstSchedule(k) \/ InsertUser(k)
           \/ RenameUser(k) \/ FindUser(k) \/ FindFriend(k) \/ CountForJoin(k)
           \/ CountForLeave(k) \/ InsertMember(k) \/ DeleteMember(k) \/ CountFriends(k)
           \/ InsertFriend(k) \/ FindRelation(k) \/ Accept(k) \/ DeleteRelation(k)
           \/ CountItems(k) \/ InsertItem(k)
    PROVE  /\ schedules' = schedules /\ groups' = groups
           /\ next_id'["schedules"] = next_id["schedules"]
           /\ ~RemovesGroup(k) /\ (call[k].do = "insert_group" => pc[k] = 1)
  <1> USE DEF Placed, TablesOK, Tables
  <1>1. ASSUME UNCHANGED tableVars
        PROVE  /\ schedules' = schedules /\ groups' = groups
               /\ next_id'["schedules"] = next_id["schedules"]
    BY <1>1 DEF tableVars
  <1>2. ASSUME NEW variable, NEW ids, SelectInto(k, variable, ids)
        PROVE  UNCHANGED tableVars
    BY <1>2 DEF SelectInto, Found, Throw
  <1>3. ASSUME Refuse(k) \/ Throw(k) \/ \E found : Found(k, found)
        PROVE  UNCHANGED tableVars
    BY <1>3 DEF Refuse, Throw, Found
  <1>10. CASE UserExists(k)
    <2>1. ~RemovesGroup(k) /\ (call[k].do = "insert_group" => pc[k] = 1)
      BY <1>10, Places DEF UserExists, At, RemovesGroup
    <2> QED  BY <1>10, <1>1, <1>3, <2>1 DEF UserExists
  <1>11. CASE GroupExists(k)
    <2>1. ~RemovesGroup(k) /\ (call[k].do = "insert_group" => pc[k] = 1)
      BY <1>11, Places DEF GroupExists, At, RemovesGroup
    <2> QED  BY <1>11, <1>1, <1>3, <2>1 DEF GroupExists
  <1>12. CASE FirstSchedule(k)
    <2>1. ~RemovesGroup(k) /\ (call[k].do = "insert_group" => pc[k] = 1)
      BY <1>12, Places DEF FirstSchedule, At, RemovesGroup
    <2> QED  BY <1>12, <1>1, <1>3, <2>1 DEF FirstSchedule
  <1>13. CASE InsertUser(k)
    <2>1. ~RemovesGroup(k) /\ (call[k].do = "insert_group" => pc[k] = 1)
      BY <1>13, Places DEF InsertUser, At, RemovesGroup
    <2>2. CASE Throw(k)
      BY <1>1, <1>3, <2>1, <2>2
    <2>3. CASE ~Throw(k)
      BY <1>13, <2>1, <2>3 DEF InsertUser
    <2> QED  BY <2>2, <2>3
  <1>14. CASE RenameUser(k)
    <2>1. ~RemovesGroup(k) /\ (call[k].do = "insert_group" => pc[k] = 1)
      BY <1>14, Places DEF RenameUser, At, RemovesGroup
    <2> QED  BY <1>14, <2>1 DEF RenameUser
  <1>15. CASE FindUser(k)
    <2>1. ~RemovesGroup(k) /\ (call[k].do = "insert_group" => pc[k] = 1)
      BY <1>15, Places DEF FindUser, At, RemovesGroup
    <2> QED  BY <1>15, <1>1, <1>2, <1>3, <2>1 DEF FindUser
  <1>16. CASE FindFriend(k)
    <2>1. ~RemovesGroup(k) /\ (call[k].do = "insert_group" => pc[k] = 1)
      BY <1>16, Places DEF FindFriend, At, RemovesGroup
    <2> QED  BY <1>16, <1>1, <1>2, <1>3, <2>1 DEF FindFriend
  <1>17. CASE CountForJoin(k)
    <2>1. ~RemovesGroup(k) /\ (call[k].do = "insert_group" => pc[k] = 1)
      BY <1>17, Places DEF CountForJoin, At, RemovesGroup
    <2> QED  BY <1>17, <1>1, <1>3, <2>1 DEF CountForJoin
  <1>18. CASE CountForLeave(k)
    <2>1. ~RemovesGroup(k) /\ (call[k].do = "insert_group" => pc[k] = 1)
      BY <1>18, Places DEF CountForLeave, At, RemovesGroup
    <2> QED  BY <1>18, <1>1, <1>3, <2>1 DEF CountForLeave
  <1>19. CASE InsertMember(k)
    <2>1. ~RemovesGroup(k) /\ (call[k].do = "insert_group" => pc[k] = 1)
      BY <1>19, Places DEF InsertMember, At, RemovesGroup
    <2>2. CASE Throw(k)
      BY <1>1, <1>3, <2>1, <2>2
    <2>3. CASE ~Throw(k)
      BY <1>19, <2>1, <2>3 DEF InsertMember
    <2> QED  BY <2>2, <2>3
  <1>20. CASE DeleteMember(k)
    <2>1. ~RemovesGroup(k) /\ (call[k].do = "insert_group" => pc[k] = 1)
      BY <1>20, Places DEF DeleteMember, At, RemovesGroup
    <2> QED  BY <1>20, <2>1 DEF DeleteMember
  <1>21. CASE CountFriends(k)
    <2>1. ~RemovesGroup(k) /\ (call[k].do = "insert_group" => pc[k] = 1)
      BY <1>21, Places DEF CountFriends, At, RemovesGroup
    <2> QED  BY <1>21, <1>1, <1>3, <2>1 DEF CountFriends
  <1>22. CASE InsertFriend(k)
    <2>1. ~RemovesGroup(k) /\ (call[k].do = "insert_group" => pc[k] = 1)
      BY <1>22, Places DEF InsertFriend, At, RemovesGroup
    <2>2. CASE Throw(k)
      BY <1>1, <1>3, <2>1, <2>2
    <2>3. CASE ~Throw(k)
      BY <1>22, <2>1, <2>3 DEF InsertFriend
    <2> QED  BY <2>2, <2>3
  <1>23. CASE FindRelation(k)
    <2>1. ~RemovesGroup(k) /\ (call[k].do = "insert_group" => pc[k] = 1)
      BY <1>23, Places DEF FindRelation, At, RemovesGroup
    <2> QED  BY <1>23, <1>1, <1>2, <1>3, <2>1 DEF FindRelation
  <1>24. CASE Accept(k)
    <2>1. ~RemovesGroup(k) /\ (call[k].do = "insert_group" => pc[k] = 1)
      BY <1>24, Places DEF Accept, At, RemovesGroup
    <2> QED  BY <1>24, <2>1 DEF Accept
  <1>25. CASE DeleteRelation(k)
    <2>1. ~RemovesGroup(k) /\ (call[k].do = "insert_group" => pc[k] = 1)
      BY <1>25, Places DEF DeleteRelation, At, RemovesGroup
    <2> QED  BY <1>25, <2>1 DEF DeleteRelation
  <1>26. CASE CountItems(k)
    <2>1. ~RemovesGroup(k) /\ (call[k].do = "insert_group" => pc[k] = 1)
      BY <1>26, Places DEF CountItems, At, RemovesGroup
    <2> QED  BY <1>26, <1>1, <1>3, <2>1 DEF CountItems
  <1>27. CASE InsertItem(k)
    <2>1. ~RemovesGroup(k) /\ (call[k].do = "insert_group" => pc[k] = 1)
      BY <1>27, Places DEF InsertItem, At, RemovesGroup
    <2>2. CASE Throw(k)
      BY <1>1, <1>3, <2>1, <2>2
    <2>3. CASE ~Throw(k)
      BY <1>27, <2>1, <2>3 DEF InsertItem
    <2> QED  BY <2>2, <2>3
  <1> QED  BY <1>10, <1>11, <1>12, <1>13, <1>14, <1>15, <1>16, <1>17, <1>18, <1>19,
              <1>20, <1>21, <1>22, <1>23, <1>24, <1>25, <1>26, <1>27

LEMMA StepGroups == Placed /\ GroupInv /\ [Next]_vars => GroupInv'
  <1> SUFFICES ASSUME Placed, GroupInv, [Next]_vars PROVE GroupInv'
    OBVIOUS
  <1>1. CASE UNCHANGED vars
    <2>1. /\ schedules' = schedules /\ groups' = groups /\ next_id' = next_id
          /\ call' = call /\ pc' = pc /\ local' = local /\ seen' = seen
      BY <1>1 DEF vars, tableVars
    <2>2. Fresh'
      BY <2>1 DEF GroupInv, Fresh
    <2>3. SUFFICES ASSUME "removal" \notin seen
                   PROVE  (RemovalAlone /\ RemovalAims /\ ClaimsOK)'
      BY <2>1, <2>2 DEF GroupInv
    <2>4. RemovalAlone /\ RemovalAims /\ ClaimsOK
      BY <2>3 DEF GroupInv
    <2>5. RemovalAlone' /\ RemovalAims'
      BY <2>1, <2>4 DEF RemovalAlone, RemovalAims, RemovesGroup, Mentions
    <2>6. \A j \in Workers : \A n \in GroupNames :
             Claims(j, n)' => Claims(j, n) /\ pc'[j] = pc[j]
      BY <2>1 DEF Claims
    <2> QED  BY <2>1, <2>4, <2>5, <2>6, ClaimsKept
  <1>2. ASSUME NEW k \in Workers, NEW x \in Calls, Begin(k, x) PROVE GroupInv'
    BY <1>2, BeginKeepsGroups
  <1>3. ASSUME NEW k \in Workers, StatementFails(k) PROVE GroupInv'
    <2>1. Ends(k) /\ ~Moves(k)
      <3>1. Ends(k) /\ call[k] # Idle
        BY <1>3, FailureKeeps DEF StatementFails
      <3> QED  BY <3>1, OthersStay
    <2> QED  BY <1>3, <2>1, FailureKeeps, QuietKeeps DEF Left, tableVars
  <1>4. ASSUME NEW k \in Workers, Statement(k) PROVE GroupInv'
    <2>1. Left(k)
      BY <1>4, StatementKeeps
    <2>2. CASE InsertSchedule(k)
      BY <2>1, <2>2, InsertScheduleKeepsGroups
    <2>3. CASE FindSchedule(k)
      BY <2>1, <2>3, FindScheduleKeepsGroups
    <2>4. CASE InsertGroup(k)
      BY <2>1, <2>4, InsertGroupKeepsGroups
    <2>5. CASE FindGroup(k) \/ DeleteMembers(k) \/ DeleteGroup(k) \/ DeleteSchedules(k)
      <3>1. CASE RemovesGroup(k)
        BY <2>1, <2>5, <3>1, RemovalKeepsGroups
      <3>2. CASE ~RemovesGroup(k)
        <4>1. FindGroup(k) /\ call[k].do # "insert_group"
          BY <2>5, <3>2, Places
             DEF FindGroup, DeleteMembers, DeleteGroup, DeleteSchedules, At, RemovesGroup
        <4>2. UNCHANGED tableVars
          BY <4>1 DEF FindGroup, SelectInto, Found, Refuse, Throw
        <4> QED  BY <2>1, <3>2, <4>1, <4>2, QuietKeeps DEF Left, tableVars
      <3> QED  BY <3>1, <3>2
    <2>6. CASE ~ \/ InsertSchedule(k) \/ FindSchedule(k) \/ InsertGroup(k) \/ FindGroup(k)
                 \/ DeleteMembers(k) \/ DeleteGroup(k) \/ DeleteSchedules(k)
      <3>1. /\ schedules' = schedules /\ groups' = groups
            /\ next_id'["schedules"] = next_id["schedules"]
            /\ ~RemovesGroup(k) /\ (call[k].do = "insert_group" => pc[k] = 1)
        BY <1>4, <2>6, OtherStatements DEF Statement
      <3> QED  BY <2>1, <3>1, QuietKeeps DEF Left
    <2> QED  BY <2>2, <2>3, <2>4, <2>5, <2>6
  <1> QED  BY <1>1, <1>2, <1>3, <1>4 DEF Next

LEMMA InitGroups == Init => GroupInv
  <1> SUFFICES ASSUME Init PROVE GroupInv
    OBVIOUS
  <1> DEFINE r == Len(Registered)
             f == Len(Founded)
  <1>1. /\ Registered \in Seq(AccountNames) /\ Founded \in Seq(GroupNames)
        /\ \A i, j \in 1 .. Len(Registered \o Founded) :
               (Registered \o Founded)[i] = (Registered \o Founded)[j] => i = j
    BY NameAssumption
  <1>2. r \in Nat /\ f \in Nat /\ Len(Registered \o Founded) = r + f
    BY <1>1
  <1>3. \A i \in 1 .. f : (Registered \o Founded)[r + i] = Founded[i] /\ r + i \in 1 .. r + f
    BY <1>1
  <1>4. Fresh
    BY <1>2 DEF Init, Fresh, Tables
  <1>5. \A k \in Workers : call[k] = Idle
    BY DEF Init
  <1>6. RemovalAlone /\ RemovalAims
    BY <1>5 DEF RemovalAlone, RemovalAims, RemovesGroup, Idle
  <1>7. \A k \in Workers, n \in GroupNames : ~Claims(k, n)
    BY <1>5 DEF Claims, Idle
  <1>8. \A g \in groups : \E i \in 1 .. f : g = [id |-> i, sched |-> r + i, name |-> Founded[i]]
    BY <1>1 DEF Init
  <1>9. ASSUME NEW g \in groups PROVE Owned(g.name) # {}
    <2>1. PICK i \in 1 .. f : g = [id |-> i, sched |-> r + i, name |-> Founded[i]]
      BY <1>8
    <2>2. [id |-> r + i, owner |-> Founded[i]] \in schedules
      BY <1>2, <1>3 DEF Init
    <2> QED  BY <2>1, <2>2 DEF Owned
  <1>10. NamesUnique
    <2> SUFFICES ASSUME NEW g \in groups, NEW h \in groups, g.name = h.name PROVE g = h
      BY DEF NamesUnique
    <2>1. PICK i \in 1 .. f : g = [id |-> i, sched |-> r + i, name |-> Founded[i]]
      BY <1>8
    <2>2. PICK j \in 1 .. f : h = [id |-> j, sched |-> r + j, name |-> Founded[j]]
      BY <1>8
    <2>3. r + i = r + j
      BY <1>1, <1>2, <1>3, <2>1, <2>2
    <2> QED  BY <1>2, <2>1, <2>2, <2>3
  <1>11. \A g \in groups : g.name \in GroupNames
    BY <1>1, <1>8
  <1> QED  BY <1>4, <1>6, <1>7, <1>9, <1>10, <1>11
              DEF GroupInv, ClaimsOK, SchedulesThere, ClaimsCounted, FinderAlone

(* Workers that create groups side by side never create two of one name,   *)
(* unless a removal of that group goes on at the same time.                *)
THEOREM GroupNamesStayUnique == Spec => []GroupNamesUnique
  <1>1. GroupInv => GroupNamesUnique
    BY DEF GroupInv, ClaimsOK, NamesUnique, GroupNamesUnique, Undisturbed
  <1> QED  BY <1>1, InitPlaced, StepPlaced, InitGroups, StepGroups, PTL DEF Spec

-----------------------------------------------------------------------------
(* No two accounts of one name.  While calls do not overlap, a name that   *)
(* was free when it was looked up stays free until the account is there.   *)

Calm == Undisturbed({"overlap", "rename"})
CallsApart ==
    \A j, k \in Workers :
        j # k /\ call[j] # Idle /\ call[k] # Idle => Mentions(call[j]) \cap Mentions(call[k]) = {}
NameFree ==
    \A k \in Workers : call[k].do = "try_create" /\ pc[k] > 1 =>
        \A u \in users : u.name # call[k].name
AccountInv ==
    Calm => CallsApart /\ NameFree /\ (\A u, v \in users : u.name = v.name => u = v)

LEMMA ApartKept ==
    ASSUME Placed, CallsApart, NEW k \in Workers, Moves(k) \/ Ends(k)
    PROVE  CallsApart'
  <1>1. \A j \in Workers : call'[j] = call[j] \/ call'[j] = Idle
    BY OthersStay
  <1> QED  BY <1>1 DEF CallsApart, Mentions

(* The steps that leave the accounts as they are. *)
LEMMA SameUsersKeep ==
    ASSUME Placed, AccountInv, NEW k \in Workers, Moves(k) \/ Ends(k), seen \subseteq seen',
           users' = users,
           Calm /\ Moves(k) /\ call[k].do = "try_create" /\ pc[k] = 1
               => \A u \in users : u.name # call[k].name
    PROVE  AccountInv'
  <1>1. SUFFICES ASSUME Calm'
                 PROVE  CallsApart' /\ NameFree' /\ (\A u, v \in users : u.name = v.name => u = v)
    BY DEF AccountInv
  <1>2. Calm
    BY <1>1 DEF Calm, Undisturbed
  <1>3. NameFree'
    <2> SUFFICES ASSUME NEW j \in Workers, call'[j].do = "try_create", pc'[j] > 1
                 PROVE  \A u \in users : u.name # call'[j].name
      BY DEF NameFree
    <2>1. CASE j # k
      BY <1>2, <2>1, OthersStay DEF AccountInv, NameFree
    <2>2. CASE j = k
      <3>1. Moves(k) /\ call'[k] = call[k] /\ pc[k] \in 1 .. 4
        BY <2>2, OthersStay DEF Placed, ControlOK
      <3>2. pc[k] = 1 \/ pc[k] > 1
        BY <3>1
      <3> QED  BY <1>2, <2>2, <3>1, <3>2 DEF AccountInv, NameFree
    <2> QED  BY <2>1, <2>2
  <1> QED  BY <1>2, <1>3, ApartKept DEF AccountInv

LEMMA InsertUserKeepsAccounts ==
    ASSUME Placed, AccountInv, NEW k \in Workers, InsertUser(k), Left(k)
    PROVE  AccountInv'
  <1> DEFINE name == call[k].name
             new == [id |-> next_id["users"], sched |-> local[k].sid, name |-> name]
  <1>1. pc[k] = 4 /\ call[k].do = "try_create" /\ name \in Names /\ call[k] # Idle
    BY Places, CallFields DEF InsertUser, At
  <1>2. Ends(k)
    BY <1>1 DEF Moves, Left, Placed, ControlOK
  <1>3. CASE Throw(k)
    BY <1>1, <1>2, <1>3, SameUsersKeep DEF Left, Throw, tableVars
  <1>4. CASE ~Throw(k)
    <2>1. users' = users \cup {new}
      BY <1>4 DEF InsertUser
    <2>2. SUFFICES ASSUME Calm'
                   PROVE  CallsApart' /\ NameFree' /\ (\A u, v \in users : u.name = v.name => u = v)'
      BY DEF AccountInv
    <2>3. Calm
      BY <2>2 DEF Calm, Undisturbed, Left
    <2>4. \A u \in users : u.name # name
      BY <1>1, <2>3 DEF AccountInv, NameFree
    <2>5. NameFree'
      <3> SUFFICES ASSUME NEW j \in Workers, call'[j].do = "try_create", pc'[j] > 1
                   PROVE  \A u \in users' : u.name # call'[j].name
        BY DEF NameFree
      <3>1. j # k /\ call'[j] = call[j] /\ pc'[j] = pc[j] /\ call[j] # Idle
        BY <1>2, OthersStay DEF Idle
      <3>2. call[j].name # name
        BY <1>1, <2>3, <3>1 DEF AccountInv, CallsApart, Mentions
      <3> QED  BY <2>1, <2>3, <3>1, <3>2 DEF AccountInv, NameFree
    <2> QED  BY <1>2, <2>1, <2>3, <2>4, <2>5, ApartKept DEF AccountInv
  <1> QED  BY <1>3, <1>4

LEMMA StatementKeepsAccounts ==
    ASSUME Placed, AccountInv, NEW k \in Workers, Statement(k)
    PROVE  AccountInv'
  <1>1. Left(k)
    BY StatementKeeps
  <1>2. CASE InsertUser(k)
    BY <1>1, <1>2, InsertUserKeepsAccounts
  <1>3. CASE UserExists(k)
    <2>1. UNCHANGED tableVars
      BY <1>3 DEF UserExists, Refuse, Found
    <2>2. Moves(k) => \A u \in users : u.name # call[k].name
      <3>1. Refuse(k) => ~Moves(k)
        <4>1. call[k] # Idle
          BY <1>3 DEF UserExists, At
        <4> QED  BY <4>1 DEF Refuse, Return, Moves, Placed, ControlOK
      <3> QED  BY <1>3, <3>1 DEF UserExists, NamedUsers
    <2> QED  BY <1>1, <2>1, <2>2, SameUsersKeep DEF Left, tableVars
  <1>4. CASE RenameUser(k)
    <2>1. call[k].do = "update_user"
      BY <1>4, Places DEF RenameUser, At
    <2>2. CASE users' = users
      BY <1>1, <2>1, <2>2, SameUsersKeep DEF Left
    <2>3. CASE users' # users
      <3>1. "rename" \in seen'
        BY <1>4, <2>3 DEF RenameUser, Continue
      <3> QED  BY <3>1 DEF AccountInv, Calm, Undisturbed
    <2> QED  BY <2>2, <2>3
  <1>5. CASE ~InsertUser(k) /\ ~UserExists(k) /\ ~RenameUser(k)
    <2>1. users' = users
      BY <1>5, WhatItWrites DEF Placed
    <2>2. ~(call[k].do = "try_create" /\ pc[k] = 1)
      <3> SUFFICES ASSUME call[k].do = "try_create", pc[k] = 1 PROVE FALSE
        OBVIOUS
      <3>1. At(k, "user_exists")
        BY StatementMeansBusy DEF At, Statements
      <3> QED  BY <1>5, <3>1, WhichStatement DEF At
    <2> QED  BY <1>1, <2>1, <2>2, SameUsersKeep DEF Left
  <1> QED  BY <1>2, <1>3, <1>4, <1>5

LEMMA StepAccounts == Placed /\ AccountInv /\ [Next]_vars => AccountInv'
  <1> SUFFICES ASSUME Placed, AccountInv, [Next]_vars PROVE AccountInv'
    OBVIOUS
  <1>1. CASE UNCHANGED vars
    BY <1>1 DEF vars, tableVars, AccountInv, Calm, Undisturbed, CallsApart, NameFree, Mentions
  <1>2. ASSUME NEW k \in Workers, NEW x \in Calls, Begin(k, x) PROVE AccountInv'
    <2>1. /\ call[k] = Idle /\ pc' = pc /\ seen' = seen \cup Clash(x)
          /\ users' = users /\ call' = [call EXCEPT ![k] = x]
      BY <1>2 DEF Begin, tableVars
    <2>2. pc[k] = 1 /\ \A j \in Workers : call'[j] = IF j = k THEN x ELSE call[j]
      BY <2>1 DEF Placed, PcOK, ControlOK
    <2>3. SUFFICES ASSUME Calm'
                   PROVE  CallsApart' /\ NameFree' /\ (\A u, v \in users : u.name = v.name => u = v)'
      BY DEF AccountInv
    <2>4. Calm
      BY <2>1, <2>3 DEF Calm, Undisturbed
    <2>5. Rivals(x) = {}
      BY <2>1, <2>3 DEF Clash, Calm, Undisturbed
    <2>6. \A j \in Workers : Mentions(call[j]) \cap Mentions(x) = {}
      BY <2>5 DEF Rivals
    <2>7. CallsApart'
      <3> SUFFICES ASSUME NEW i \in Workers, NEW j \in Workers, i # j,
                          call'[i] # Idle, call'[j] # Idle
                   PROVE  Mentions(call'[i]) \cap Mentions(call'[j]) = {}
        BY DEF CallsApart, Mentions
      <3> QED  BY <2>2, <2>4, <2>6 DEF AccountInv, CallsApart
    <2>8. NameFree'
      BY <2>1, <2>2, <2>4 DEF AccountInv, NameFree
    <2> QED  BY <2>1, <2>4, <2>7, <2>8 DEF AccountInv
  <1>3. ASSUME NEW k \in Workers, StatementFails(k) PROVE AccountInv'
    <2>1. Ends(k) /\ ~Moves(k)
      <3>1. Ends(k) /\ call[k] # Idle
        BY <1>3, FailureKeeps DEF StatementFails
      <3> QED  BY <3>1, OthersStay
    <2> QED  BY <1>3, <2>1, FailureKeeps, SameUsersKeep DEF Left, tableVars
  <1>4. ASSUME NEW k \in Workers, Statement(k) PROVE AccountInv'
    BY <1>4, StatementKeepsAccounts
  <1> QED  BY <1>1, <1>2, <1>3, <1>4 DEF Next

LEMMA InitAccounts == Init => AccountInv
  <1> SUFFICES ASSUME Init PROVE AccountInv
    OBVIOUS
  <1>1. \A k \in Workers : call[k] = Idle
    BY DEF Init
  <1>2. CallsApart /\ NameFree
    BY <1>1 DEF CallsApart, NameFree, Idle
  <1>3. \A u \in users : \E i \in DOMAIN Registered :
            u = [id |-> i, sched |-> i, name |-> Registered[i]]
    BY DEF Init
  <1>4. \A i, j \in DOMAIN Registered : Registered[i] = Registered[j] => i = j
    <2>1. /\ Registered \in Seq(AccountNames) /\ Founded \in Seq(GroupNames)
          /\ \A i, j \in 1 .. Len(Registered \o Founded) :
                 (Registered \o Founded)[i] = (Registered \o Founded)[j] => i = j
      BY NameAssumption
    <2>2. \A i \in DOMAIN Registered :
            /\ i \in 1 .. Len(Registered \o Founded)
            /\ (Registered \o Founded)[i] = Registered[i]
      BY <2>1
    <2> QED  BY <2>1, <2>2
  <1>5. \A u, v \in users : u.name = v.name => u = v
    <2> SUFFICES ASSUME NEW u \in users, NEW v \in users, u.name = v.name PROVE u = v
      OBVIOUS
    <2>1. PICK i \in DOMAIN Registered : u = [id |-> i, sched |-> i, name |-> Registered[i]]
      BY <1>3
    <2>2. PICK j \in DOMAIN Registered : v = [id |-> j, sched |-> j, name |-> Registered[j]]
      BY <1>3
    <2>3. Registered[i] = Registered[j]
      BY <2>1, <2>2
    <2> QED  BY <1>4, <2>1, <2>2, <2>3
  <1> QED  BY <1>2, <1>5 DEF AccountInv

(* No two accounts get one name as long as calls about it do not overlap   *)
(* and nobody is renamed, whatever statements fail.                        *)
THEOREM AccountNamesStayUnique == Spec => []AccountNamesUnique
  <1>1. AccountInv => AccountNamesUnique
    BY DEF AccountInv, Calm, AccountNamesUnique
  <1> QED  BY <1>1, InitPlaced, StepPlaced, InitAccounts, StepAccounts, PTL DEF Spec

-----------------------------------------------------------------------------
(* Unless calls overlapped, those under way mention different names.       *)
ApartInv == Undisturbed({"overlap"}) => CallsApart

LEMMA StepApart == Placed /\ ApartInv /\ [Next]_vars => ApartInv'
  <1> SUFFICES ASSUME Placed, ApartInv, [Next]_vars, Undisturbed({"overlap"})' PROVE CallsApart'
    BY DEF ApartInv
  <1>1. CASE UNCHANGED vars
    BY <1>1 DEF vars, ApartInv, Undisturbed, CallsApart, Mentions
  <1>2. ASSUME NEW k \in Workers, NEW x \in Calls, Begin(k, x) PROVE CallsApart'
    <2>1. /\ call[k] = Idle /\ seen' = seen \cup Clash(x) /\ call' = [call EXCEPT ![k] = x]
      BY <1>2 DEF Begin
    <2>2. \A j \in Workers : call'[j] = IF j = k THEN x ELSE call[j]
      BY <2>1 DEF Placed, ControlOK
    <2>3. CallsApart /\ Rivals(x) = {}
      BY <2>1 DEF ApartInv, Undisturbed, Clash
    <2>4. \A j \in Workers : Mentions(call[j]) \cap Mentions(x) = {}
      BY <2>3 DEF Rivals
    <2> SUFFICES ASSUME NEW i \in Workers, NEW j \in Workers, i # j,
                        call'[i] # Idle, call'[j] # Idle
                 PROVE  Mentions(call'[i]) \cap Mentions(call'[j]) = {}
      BY DEF CallsApart, Mentions
    <2> QED  BY <2>2, <2>3, <2>4 DEF CallsApart
  <1>3. ASSUME NEW k \in Workers, StatementFails(k) \/ Statement(k) PROVE CallsApart'
    <2>1. Left(k)
      BY <1>3, FailureKeeps, StatementKeeps
    <2>2. CallsApart
      BY <2>1 DEF ApartInv, Undisturbed, Left
    <2> QED  BY <2>1, <2>2, ApartKept DEF Left
  <1> QED  BY <1>1, <1>2, <1>3 DEF Next

LEMMA InitApart == Init => ApartInv
  BY DEF Init, ApartInv, CallsApart

-----------------------------------------------------------------------------
(* Relations are there once.  What a procedure has looked up stays what it *)
(* is while nobody else's call mentions the name.                          *)

UserIds ==
    /\ \A u \in users : u.id < next_id["users"]
    /\ \A u, v \in users : u.id = v.id => u = v
Zeroed == \A k \in Workers : call[k] = Idle => local[k] = Zero
FoundUsers ==
    \A k \in Workers :
        /\ local[k].uid # 0 => \E u \in users : u.id = local[k].uid /\ u.name = call[k].name
        /\ local[k].fid # 0 => \E u \in users : u.id = local[k].fid /\ u.name = call[k].other
Counted ==
    \A k \in Workers : pc[k] = 4 =>
        /\ call[k].do = "join_group" => local[k].uid # 0 /\ Members(k) = {}
        /\ call[k].do = "create_friendship" =>
               /\ local[k].uid # 0 /\ local[k].fid # 0
               /\ Relations(local[k].uid, local[k].fid) = {}
MembersOnce ==
    \A m, n \in user_group_relation : m.user = n.user /\ m.group = n.group => m = n
FriendsOnce ==
    \A f, g \in user_friend_relation : {f.user, f.friend} = {g.user, g.friend} => f = g
RelationInv ==
    /\ UserIds /\ Zeroed
    /\ Undisturbed({"overlap"}) => FoundUsers /\ Counted /\ MembersOnce /\ FriendsOnce

LEMMA UserIdsKept ==
    ASSUME Placed, UserIds, NEW k \in Workers, Statement(k)
    PROVE  UserIds'
  <1>0. TablesOK
    BY DEF Placed
  <1>1. CASE users' = users /\ next_id'["users"] = next_id["users"]
    BY <1>1 DEF UserIds
  <1>2. CASE InsertUser(k) /\ ~Throw(k)
    <2> DEFINE new == [id |-> next_id["users"], sched |-> local[k].sid, name |-> call[k].name]
    <2>1. users' = users \cup {new} /\ next_id' = [next_id EXCEPT !["users"] = @ + 1]
      BY <1>2 DEF InsertUser
    <2>2. next_id["users"] \in Nat /\ next_id'["users"] = next_id["users"] + 1
      BY <1>0, <2>1 DEF TablesOK, Tables
    <2>3. \A u \in users : u.id \in Nat
      BY <1>0 DEF TablesOK
    <2> QED  BY <2>1, <2>2, <2>3 DEF UserIds
  <1>3. CASE RenameUser(k)
    <2>1. PICK renamed \in SUBSET NamedUsers(call[k].name) :
              users' = (users \ renamed) \cup {[u EXCEPT !.name = call[k].other] : u \in renamed}
      BY <1>3 DEF RenameUser
    <2>2. \A u \in renamed : u \in users /\ [u EXCEPT !.name = call[k].other].id = u.id
      BY <1>0 DEF TablesOK, NamedUsers
    <2>3. \A u \in users' : \E v \in users : /\ v.id = u.id
                                             /\ u = IF v \in renamed
                                                    THEN [v EXCEPT !.name = call[k].other] ELSE v
      BY <2>1, <2>2
    <2>4. next_id' = next_id
      BY <1>3 DEF RenameUser
    <2> QED  BY <2>3, <2>4 DEF UserIds
  <1> QED  BY <1>0, <1>1, <1>2, <1>3, WhatItWrites

LEMMA ZeroedKept ==
    ASSUME Placed, Zeroed, NEW k \in Workers, call[k] # Idle, Moves(k) \/ Ends(k)
    PROVE  Zeroed'
  <1> SUFFICES ASSUME NEW j \in Workers, call'[j] = Idle PROVE local'[j] = Zero
    BY DEF Zeroed
  <1>1. CASE j = k
    BY <1>1 DEF Moves, Ends, Placed, ControlOK
  <1>2. CASE j # k
    BY <1>2, OthersStay DEF Zeroed
  <1> QED  BY <1>1, <1>2

(* An account that another call mentions is left alone.                    *)
LEMMA MentionedStays ==
    ASSUME Placed, CallsApart, NEW k \in Workers, Statement(k),
           NEW j \in Workers, j # k, call[j] # Idle,
           NEW u \in users, u.name = call[j].name \/ u.name = call[j].other
    PROVE  u \in users' /\ u.name # call[k].name /\ u.name # call[k].other
  <1>1. u.name \in Names
    BY DEF Placed, TablesOK, Names
  <1>2. u.name \in Mentions(call[j])
    BY <1>1 DEF Mentions
  <1>3. u.name # call[k].name /\ u.name # call[k].other
    BY <1>1, <1>2, StatementMeansBusy DEF CallsApart, Mentions
  <1>4. CASE users' = users \/ (InsertUser(k) /\ ~Throw(k))
    BY <1>3, <1>4 DEF InsertUser
  <1>5. CASE RenameUser(k)
    BY <1>3, <1>5 DEF RenameUser, NamedUsers
  <1> QED  BY <1>3, <1>4, <1>5, WhatItWrites DEF Placed

LEMMA FoundUsersKept ==
    ASSUME Placed, CallsApart, Zeroed, FoundUsers, NEW k \in Workers, Statement(k), Left(k)
    PROVE  FoundUsers'
  <1> SUFFICES ASSUME NEW j \in Workers
               PROVE  /\ local'[j].uid # 0 =>
                             \E u \in users' : u.id = local'[j].uid /\ u.name = call'[j].name
                      /\ local'[j].fid # 0 =>
                             \E u \in users' : u.id = local'[j].fid /\ u.name = call'[j].other
    BY DEF FoundUsers
  <1>1. CASE j # k
    <2>1. call'[j] = call[j] /\ local'[j] = local[j]
      BY <1>1, OthersStay DEF Left
    <2>2. call[j] = Idle => local[j].uid = 0 /\ local[j].fid = 0
      BY DEF Zeroed, Zero
    <2> QED  BY <1>1, <2>1, <2>2, MentionedStays DEF FoundUsers
  <1>2. CASE j = k /\ Ends(k)
    <2>1. local'[k] = Zero
      BY <1>2 DEF Ends, Placed, ControlOK
    <2> QED  BY <1>2, <2>1 DEF Zero
  <1>3. CASE j = k /\ Moves(k)
    <2>1. call'[k] = call[k]
      BY <1>3, OthersStay
    <2>2. users \subseteq users'
      <3>1. CASE users' = users \/ (InsertUser(k) /\ ~Throw(k))
        BY <3>1 DEF InsertUser
      <3>2. CASE RenameUser(k)
        <4>1. call[k].do = "update_user" /\ pc[k] = 1 /\ call[k] # Idle
          BY <3>2, Places, StatementMeansBusy DEF RenameUser
        <4>2. call'[k].do = "update_user" /\ pc'[k] = 2 /\ call'[k] # Idle
          BY <1>3, <2>1, <4>1, OthersStay
        <4>3. pc'[k] \in 1 .. Len(Statements[call'[k].do])
          BY <4>2 DEF Left, PcOK
        <4> QED  BY <4>2, <4>3 DEF Statements
      <3> QED  BY <3>1, <3>2, WhatItWrites DEF Placed
    <2>3. /\ local'[k].uid = local[k].uid \/ local'[k].uid \in Ids(NamedUsers(call[k].name))
          /\ local'[k].fid = local[k].fid \/ local'[k].fid \in Ids(NamedUsers(call[k].other))
      BY <1>3, WhatItFinds
    <2> QED  BY <1>3, <2>1, <2>2, <2>3 DEF FoundUsers, Ids, NamedUsers
  <1> QED  BY <1>1, <1>2, <1>3 DEF Left

(* So the ids that two calls have looked up differ.                        *)
LEMMA OthersId ==
    ASSUME Placed, UserIds, CallsApart, FoundUsers, NEW k \in Workers, Statement(k),
           NEW j \in Workers, j # k, call[j] # Idle, local[k].uid # 0
    PROVE  local[j].uid # local[k].uid /\ local[j].fid # local[k].uid
  <1>1. PICK u \in users : u.id = local[k].uid /\ u.name = call[k].name
    BY DEF FoundUsers
  <1>2. ASSUME NEW v \in users, v.id = local[k].uid,
               v.name = call[j].name \/ v.name = call[j].other
        PROVE  FALSE
    <2>1. v = u
      BY <1>1, <1>2 DEF UserIds
    <2>2. v.name # call[k].name
      BY <1>2, MentionedStays
    <2> QED  BY <1>1, <2>1, <2>2
  <1> QED  BY <1>2 DEF FoundUsers

LEMMA CountedKept ==
    ASSUME Placed, UserIds, CallsApart, FoundUsers, Counted,
           NEW k \in Workers, Statement(k), Left(k)
    PROVE  Counted'
  <1> SUFFICES ASSUME NEW j \in Workers, pc'[j] = 4
               PROVE  /\ call'[j].do = "join_group" => local'[j].uid # 0 /\ Members(j)' = {}
                      /\ call'[j].do = "create_friendship" =>
                             /\ local'[j].uid # 0 /\ local'[j].fid # 0
                             /\ Relations(local[j].uid, local[j].fid)' = {}
    BY DEF Counted
  <1>1. CASE j # k
    <2>1. call'[j] = call[j] /\ local'[j] = local[j] /\ pc'[j] = pc[j]
      BY <1>1, OthersStay DEF Left
    <2>2. CASE call[j].do = "join_group"
      <3>1. local[j].uid # 0 /\ Members(j) = {} /\ call[j] # Idle
        BY <2>1, <2>2 DEF Counted, Idle
      <3>2. CASE user_group_relation' \subseteq user_group_relation
        BY <2>1, <2>2, <3>1, <3>2 DEF Members
      <3>3. CASE InsertMember(k) /\ ~Throw(k)
        <4>1. pc[k] = 4 /\ call[k].do = "join_group"
          BY <3>3, Places, StatementMeansBusy DEF InsertMember
        <4>2. local[j].uid # local[k].uid
          BY <1>1, <3>1, <4>1, OthersId DEF Counted
        <4>3. user_group_relation' = user_group_relation \cup
                {[id |-> next_id["members"], user |-> local[k].uid, group |-> local[k].gid]}
          BY <3>3 DEF InsertMember
        <4> QED  BY <2>1, <2>2, <3>1, <4>2, <4>3 DEF Members
      <3> QED  BY <3>2, <3>3, WhatItWrites DEF Placed
    <2>3. CASE call[j].do = "create_friendship"
      <3> DEFINE u == local[j].uid
                 v == local[j].fid
      <3>1. u # 0 /\ v # 0 /\ Relations(u, v) = {} /\ call[j] # Idle
        BY <2>1, <2>3 DEF Counted, Idle
      <3>2. SUFFICES \A r \in user_friend_relation' : /\ ~(r.user = u /\ r.friend = v)
                                                      /\ ~(r.user = v /\ r.friend = u)
        BY <2>1, <2>3, <3>1 DEF Relations
      <3>3. \A r \in user_friend_relation : /\ ~(r.user = u /\ r.friend = v)
                                            /\ ~(r.user = v /\ r.friend = u)
        BY <3>1 DEF Relations
      <3>4. CASE user_friend_relation' \subseteq user_friend_relation
        BY <3>3, <3>4
      <3>5. CASE InsertFriend(k) /\ ~Throw(k)
        <4>1. pc[k] = 4 /\ call[k].do = "create_friendship"
          BY <3>5, Places, StatementMeansBusy DEF InsertFriend
        <4>2. u # local[k].uid /\ v # local[k].uid
          BY <1>1, <3>1, <4>1, OthersId DEF Counted
        <4>3. user_friend_relation' = user_friend_relation \cup
                {[id |-> next_id["friends"], user |-> local[k].uid,
                  friend |-> local[k].fid, accepted |-> FALSE]}
          BY <3>5 DEF InsertFriend
        <4> QED  BY <3>3, <4>2, <4>3
      <3>6. CASE Accept(k)
        <4>1. \A r \in user_friend_relation : /\ [r EXCEPT !.accepted = TRUE].user = r.user
                                              /\ [r EXCEPT !.accepted = TRUE].friend = r.friend
          BY DEF Placed, TablesOK
        <4>2. \A r \in user_friend_relation' : \E q \in user_friend_relation :
                  r.user = q.user /\ r.friend = q.friend
          BY <3>6, <4>1 DEF Accept
        <4> QED  BY <3>3, <4>2
      <3> QED  BY <3>4, <3>5, <3>6, WhatItWrites DEF Placed
    <2> QED  BY <2>1, <2>2, <2>3
  <1>2. CASE j = k /\ Ends(k)
    BY <1>2, OthersStay DEF Idle
  <1>3. CASE j = k /\ Moves(k)
    <2>1. call'[k] = call[k] /\ pc[k] = 3 /\ call[k] # Idle
      BY <1>3, OthersStay, StatementMeansBusy DEF Placed, ControlOK
    <2>2. ~Refuse(k)
      BY <1>3, MovesOn
    <2>3. CASE call[k].do = "join_group"
      <3>1. At(k, "count_for_join")
        BY <2>1, <2>3 DEF At, Statements
      <3>2. CountForJoin(k)
        BY <3>1, WhichStatement DEF At
      <3>3. local[k].uid # 0 /\ Members(k) = {} /\ Found(k, local[k])
        BY <2>2, <3>2 DEF CountForJoin
      <3>4. local'[k] = local[k]
        BY <1>3, <3>3, ContinueFinds DEF Found
      <3>5. user_group_relation' = user_group_relation
        BY <3>3 DEF Found, tableVars
      <3> QED  BY <1>3, <2>1, <2>3, <3>3, <3>4, <3>5 DEF Members
    <2>4. CASE call[k].do = "create_friendship"
      <3>1. At(k, "count_friends")
        BY <2>1, <2>4 DEF At, Statements
      <3>2. CountFriends(k)
        BY <3>1, WhichStatement DEF At
      <3>3. /\ local[k].uid # 0 /\ local[k].fid # 0
            /\ Relations(local[k].uid, local[k].fid) = {} /\ Found(k, local[k])
        BY <2>2, <3>2 DEF CountFriends
      <3>4. local'[k] = local[k]
        BY <1>3, <3>3, ContinueFinds DEF Found
      <3>5. user_friend_relation' = user_friend_relation
        BY <3>3 DEF Found, tableVars
      <3> QED  BY <1>3, <2>1, <2>4, <3>3, <3>4, <3>5 DEF Relations
    <2> QED  BY <1>3, <2>1, <2>3, <2>4
  <1> QED  BY <1>1, <1>2, <1>3 DEF Left

LEMMA MembersOnceKept ==
    ASSUME Placed, Counted, MembersOnce, NEW k \in Workers, Statement(k)
    PROVE  MembersOnce'
  <1>1. CASE user_group_relation' \subseteq user_group_relation
    BY <1>1 DEF MembersOnce
  <1>2. CASE InsertMember(k) /\ ~Throw(k)
    <2> DEFINE new == [id |-> next_id["members"], user |-> local[k].uid, group |-> local[k].gid]
    <2>1. pc[k] = 4 /\ call[k].do = "join_group"
      BY <1>2, Places, StatementMeansBusy DEF InsertMember
    <2>2. user_group_relation' = user_group_relation \cup {new}
      BY <1>2 DEF InsertMember
    <2>3. \A m \in user_group_relation : ~(m.user = new.user /\ m.group = new.group)
      BY <2>1 DEF Counted, Members
    <2> QED  BY <2>2, <2>3 DEF MembersOnce
  <1> QED  BY <1>1, <1>2, WhatItWrites DEF Placed

LEMMA FriendsOnceKept ==
    ASSUME Placed, Counted, FriendsOnce, NEW k \in Workers, Statement(k)
    PROVE  FriendsOnce'
  <1>1. CASE user_friend_relation' \subseteq user_friend_relation
    BY <1>1 DEF FriendsOnce
  <1>2. CASE InsertFriend(k) /\ ~Throw(k)
    <2> DEFINE new == [id |-> next_id["friends"], user |-> local[k].uid,
                       friend |-> local[k].fid, accepted |-> FALSE]
    <2>1. pc[k] = 4 /\ call[k].do = "create_friendship"
      BY <1>2, Places, StatementMeansBusy DEF InsertFriend
    <2>2. user_friend_relation' = user_friend_relation \cup {new}
      BY <1>2 DEF InsertFriend
    <2>3. ASSUME NEW f \in user_friend_relation, {f.user, f.friend} = {new.user, new.friend}
          PROVE  FALSE
      <3>1. \/ f.user = new.user /\ f.friend = new.friend
            \/ f.user = new.friend /\ f.friend = new.user
        BY <2>3
      <3> QED  BY <2>1, <3>1 DEF Counted, Relations
    <2> HIDE DEF new
    <2> QED  BY <2>2, <2>3 DEF FriendsOnce
  <1>3. CASE Accept(k)
    <2> DEFINE Kept(r) == IF r.id = local[k].X THEN [r EXCEPT !.accepted = TRUE] ELSE r
    <2>1. \A r \in user_friend_relation : Kept(r).user = r.user /\ Kept(r).friend = r.friend
      BY DEF Placed, TablesOK
    <2>2. user_friend_relation' = {Kept(r) : r \in user_friend_relation}
      BY <1>3 DEF Accept
    <2> HIDE DEF Kept
    <2> SUFFICES ASSUME NEW f \in user_friend_relation, NEW g \in user_friend_relation,
                        {Kept(f).user, Kept(f).friend} = {Kept(g).user, Kept(g).friend}
                 PROVE  f = g
      BY <2>2 DEF FriendsOnce
    <2> QED  BY <2>1 DEF FriendsOnce
  <1> QED  BY <1>1, <1>2, <1>3, WhatItWrites DEF Placed

LEMMA StepRelations == Placed /\ ApartInv /\ RelationInv /\ [Next]_vars => RelationInv'
  <1> SUFFICES ASSUME Placed, ApartInv, RelationInv, [Next]_vars PROVE RelationInv'
    OBVIOUS
  <1> USE DEF RelationInv
  <1>1. CASE UNCHANGED vars
    BY <1>1 DEF vars, tableVars, UserIds, Zeroed, FoundUsers, Counted, MembersOnce,
                FriendsOnce, Undisturbed, Members, Relations
  <1>2. ASSUME NEW k \in Workers, NEW x \in Calls, Begin(k, x) PROVE RelationInv'
    <2>1. /\ call[k] = Idle /\ UNCHANGED <<tableVars, pc, local>> /\ seen \subseteq seen'
          /\ call' = [call EXCEPT ![k] = x]
      BY <1>2 DEF Begin
    <2>2. /\ x # Idle /\ pc[k] = 1
          /\ \A j \in Workers : call'[j] = IF j = k THEN x ELSE call[j]
      BY <2>1, CallFields DEF Placed, PcOK, ControlOK
    <2>3. local[k].uid = 0 /\ local[k].fid = 0
      BY <2>1 DEF Zeroed, Zero
    <2>4. UserIds' /\ Zeroed'
      BY <2>1, <2>2 DEF tableVars, UserIds, Zeroed
    <2> SUFFICES ASSUME Undisturbed({"overlap"})'
                 PROVE  (FoundUsers /\ Counted /\ MembersOnce /\ FriendsOnce)'
      BY <2>4
    <2>5. FoundUsers /\ Counted /\ MembersOnce /\ FriendsOnce
      BY <2>1 DEF Undisturbed
    <2>6. FoundUsers'
      BY <2>1, <2>2, <2>3, <2>5 DEF tableVars, FoundUsers
    <2>7. Counted'
      <3>1. \A j \in Workers : Members(j)' = Members(j)
        BY <2>1 DEF tableVars, Members
      <3>2. \A u, v : Relations(u, v)' = Relations(u, v)
        BY <2>1 DEF tableVars, Relations
      <3> QED  BY <2>1, <2>2, <2>5, <3>1, <3>2 DEF Counted
    <2> QED  BY <2>1, <2>5, <2>6, <2>7 DEF tableVars, MembersOnce, FriendsOnce
  <1>3. ASSUME NEW k \in Workers, StatementFails(k) PROVE RelationInv'
    <2>1. Left(k) /\ Ends(k) /\ UNCHANGED tableVars /\ call[k] # Idle
      BY <1>3, FailureKeeps DEF StatementFails
    <2>2. UserIds' /\ Zeroed'
      BY <2>1, ZeroedKept DEF tableVars, UserIds
    <2> SUFFICES ASSUME Undisturbed({"overlap"})'
                 PROVE  (FoundUsers /\ Counted /\ MembersOnce /\ FriendsOnce)'
      BY <2>2
    <2>3. FoundUsers /\ Counted /\ MembersOnce /\ FriendsOnce
      BY <2>1 DEF Undisturbed, Left
    <2>4. local'[k] = Zero /\ call'[k].do = "nothing"
      BY <2>1, OthersStay DEF Ends, Placed, ControlOK, Idle
    <2>5. FoundUsers'
      BY <2>1, <2>3, <2>4, OthersStay DEF tableVars, FoundUsers, Zero
    <2>6. Counted'
      BY <2>1, <2>3, <2>4, OthersStay DEF tableVars, Counted, Members, Relations
    <2> QED  BY <2>1, <2>3, <2>5, <2>6 DEF tableVars, MembersOnce, FriendsOnce
  <1>4. ASSUME NEW k \in Workers, Statement(k) PROVE RelationInv'
    <2>1. Left(k) /\ call[k] # Idle
      BY <1>4, StatementKeeps, StatementMeansBusy
    <2>2. UserIds' /\ Zeroed'
      BY <1>4, <2>1, UserIdsKept, ZeroedKept DEF Left
    <2> SUFFICES ASSUME Undisturbed({"overlap"})'
                 PROVE  (FoundUsers /\ Counted /\ MembersOnce /\ FriendsOnce)'
      BY <2>2
    <2>3. CallsApart /\ FoundUsers /\ Counted /\ MembersOnce /\ FriendsOnce
      BY <2>1 DEF Undisturbed, Left, ApartInv
    <2> QED  BY <1>4, <2>1, <2>3, FoundUsersKept, CountedKept, MembersOnceKept, FriendsOnceKept
  <1> QED  BY <1>1, <1>2, <1>3, <1>4 DEF Next

LEMMA InitRelations == Init => RelationInv
  <1> SUFFICES ASSUME Init PROVE RelationInv
    OBVIOUS
  <1>1. \A u \in users : \E i \in DOMAIN Registered :
            u = [id |-> i, sched |-> i, name |-> Registered[i]]
    BY DEF Init
  <1>2. DOMAIN Registered = 1 .. Len(Registered) /\ Len(Registered) \in Nat
    BY NameAssumption
  <1>3. next_id["users"] = Len(Registered) + 1
    BY DEF Init, Tables
  <1>4. UserIds
    BY <1>1, <1>2, <1>3 DEF UserIds
  <1>5. \A k \in Workers : call[k] = Idle /\ pc[k] = 1 /\ local[k] = Zero
    BY DEF Init
  <1>6. Zeroed /\ FoundUsers /\ Counted
    BY <1>5 DEF Zeroed, FoundUsers, Counted, Zero
  <1> QED  BY <1>4, <1>6 DEF Init, RelationInv, MembersOnce, FriendsOnce

(* A user is in a group once, and two users are related once, as long as   *)
(* calls that mention them do not overlap: what was counted is still true  *)
(* when the row is inserted, whatever others do, rename or fail.           *)
THEOREM RelationsStayOnce == Spec => []RelationsOnce
  <1>1. RelationInv => RelationsOnce
    BY DEF RelationInv, MembersOnce, FriendsOnce, RelationsOnce
  <1> QED  BY <1>1, InitPlaced, StepPlaced, InitApart, StepApart, InitRelations,
              StepRelations, PTL DEF Spec

-----------------------------------------------------------------------------
(* Calendars.  Whoever has inserted a schedule found none of that name, so *)
(* nobody else has the name; a schedule that somebody has is not deleted.  *)

Still == Undisturbed({"overlap", "rename", "shared owner"})

ScheduleKeys ==
    /\ next_id["schedules"] > 0
    /\ \A s \in schedules : 0 < s.id /\ s.id < next_id["schedules"]
    /\ \A s, t \in schedules : s.id = t.id => s = t
Holders == users \cup groups
OwnSchedules ==
    \A r \in Holders : \E s \in schedules : s.id = r.sched /\ s.owner = r.name
FoundSchedules ==
    \A k \in Workers : local[k].sid # 0 =>
        \E s \in schedules : s.id = local[k].sid /\ s.owner = call[k].name
Unclaimed ==
    \A k \in Workers : call[k].do \in {"try_create", "insert_group"} /\ pc[k] > 2 =>
        \A r \in Holders : r.name # call[k].name
NamesApart ==
    /\ \A u, v \in users : u.name = v.name => u = v
    /\ \A g, h \in groups : g.name = h.name => g = h
    /\ \A u \in users, g \in groups : u.name # g.name
CalendarInv ==
    /\ ScheduleKeys
    /\ Still => OwnSchedules /\ FoundSchedules /\ Unclaimed /\ NamesApart

LEMMA ScheduleIdsKept ==
    ASSUME Placed, ScheduleKeys, NEW k \in Workers, Statement(k)
    PROVE  ScheduleKeys'
  <1>0. TablesOK
    BY DEF Placed
  <1>1. CASE schedules' = schedules /\ next_id'["schedules"] = next_id["schedules"]
    BY <1>1 DEF ScheduleKeys
  <1>2. CASE InsertSchedule(k)
    <2> DEFINE new == [id |-> next_id["schedules"], owner |-> call[k].name]
    <2>1. schedules' = schedules \cup {new} /\ next_id' = [next_id EXCEPT !["schedules"] = @ + 1]
      BY <1>2 DEF InsertSchedule
    <2>2. next_id["schedules"] \in Nat /\ next_id'["schedules"] = next_id["schedules"] + 1
      BY <1>0, <2>1 DEF TablesOK, Tables
    <2>3. \A s \in schedules : s.id \in Nat
      BY <1>0 DEF TablesOK
    <2> QED  BY <2>1, <2>2, <2>3 DEF ScheduleKeys
  <1>3. CASE DeleteSchedules(k) /\ ~Throw(k)
    <2>1. schedules' \subseteq schedules /\ next_id' = next_id
      BY <1>3 DEF DeleteSchedules
    <2> QED  BY <2>1 DEF ScheduleKeys
  <1> QED  BY <1>0, <1>1, <1>2, <1>3, WhatItWrites

(* While nobody is renamed, rows come only at the end of the two creations.*)
NewHolder(k) ==
    /\ pc[k] = 4 /\ Ends(k) /\ local[k].sid \in ScheduleIds /\ schedules' = schedules
    /\ \/ /\ call[k].do = "try_create" /\ groups' = groups
          /\ users' = users \cup {[id |-> next_id["users"], sched |-> local[k].sid,
                                   name |-> call[k].name]}
       \/ /\ call[k].do = "insert_group" /\ users' = users
          /\ groups' = groups \cup {[id |-> next_id["groups"], sched |-> local[k].sid,
                                     name |-> call[k].name]}

LEMMA WhoComes ==
    ASSUME Placed, NEW k \in Workers, Statement(k), Left(k), "rename" \notin seen'
    PROVE  \/ users' = users /\ groups' \subseteq groups
           \/ NewHolder(k)
  <1>1. CASE InsertUser(k) /\ ~Throw(k)
    <2>1. pc[k] = 4 /\ call[k].do = "try_create"
      BY <1>1, Places, StatementMeansBusy DEF InsertUser
    <2>2. Ends(k)
      BY <2>1 DEF Moves, Left, Placed, ControlOK
    <2> QED  BY <1>1, <2>1, <2>2 DEF InsertUser, NewHolder
  <1>2. CASE InsertGroup(k) /\ ~Throw(k)
    <2>1. pc[k] = 4 /\ call[k].do = "insert_group"
      BY <1>2, Places, StatementMeansBusy DEF InsertGroup
    <2>2. Ends(k)
      BY <2>1 DEF Moves, Left, Placed, ControlOK
    <2> QED  BY <1>2, <2>1, <2>2 DEF InsertGroup, NewHolder
  <1>3. CASE RenameUser(k)
    <2>1. groups' = groups /\ (users' # users => "rename" \in seen')
      BY <1>3 DEF RenameUser, Continue
    <2> QED  BY <2>1
  <1> QED  BY <1>1, <1>2, <1>3, WhatItWrites DEF Placed

(* The name of a row that another call is about to insert, or has found    *)
(* the schedule of, is nobody's in the calls of others.                    *)
LEMMA NamesDiffer ==
    ASSUME Placed, CallsApart, NEW k \in Workers, NEW j \in Workers, j # k,
           call[j] # Idle, call[k] # Idle, call[j].name \in Names
    PROVE  call[j].name # call[k].name
  BY DEF CallsApart, Mentions

LEMMA OwnSchedulesKept ==
    ASSUME Placed, ScheduleKeys, OwnSchedules, FoundSchedules,
           NEW k \in Workers, Statement(k), Left(k), "rename" \notin seen'
    PROVE  OwnSchedules'
  <1>1. ASSUME NEW r \in Holders
        PROVE  \E s \in schedules' : s.id = r.sched /\ s.owner = r.name
    <2>1. PICK s \in schedules : s.id = r.sched /\ s.owner = r.name
      BY DEF OwnSchedules
    <2>2. s \in schedules'
      <3>1. CASE schedules' = schedules \/ InsertSchedule(k)
        BY <3>1 DEF InsertSchedule
      <3>2. CASE DeleteSchedules(k) /\ ~Throw(k)
        <4>1. /\ \A t \in Owned(call[k].name) : ~Referenced(t.id)
              /\ schedules' = schedules \ Owned(call[k].name)
          BY <3>2 DEF DeleteSchedules
        <4>2. Referenced(s.id)
          BY <2>1 DEF Referenced, Holders
        <4> QED  BY <4>1, <4>2
      <3> QED  BY <3>1, <3>2, WhatItWrites DEF Placed
    <2> QED  BY <2>1, <2>2
  <1>2. CASE users' = users /\ groups' \subseteq groups
    BY <1>1, <1>2 DEF OwnSchedules, Holders
  <1>3. CASE NewHolder(k)
    <2>1. local[k].sid # 0
      BY <1>3 DEF NewHolder, ScheduleIds, Ids, ScheduleKeys
    <2>2. \E s \in schedules' : s.id = local[k].sid /\ s.owner = call[k].name
      BY <1>3, <2>1 DEF NewHolder, FoundSchedules
    <2>3. \A r \in Holders' : \/ r \in Holders
                              \/ r.sched = local[k].sid /\ r.name = call[k].name
      BY <1>3 DEF NewHolder, Holders
    <2> QED  BY <1>1, <2>2, <2>3 DEF OwnSchedules
  <1> QED  BY <1>2, <1>3, WhoComes

LEMMA FoundSchedulesKept ==
    ASSUME Placed, CallsApart, Zeroed, FoundSchedules, NEW k \in Workers, Statement(k), Left(k)
    PROVE  FoundSchedules'
  <1> SUFFICES ASSUME NEW j \in Workers, local'[j].sid # 0
               PROVE  \E s \in schedules' : s.id = local'[j].sid /\ s.owner = call'[j].name
    BY DEF FoundSchedules
  <1>1. CASE j # k
    <2>1. call'[j] = call[j] /\ local'[j] = local[j]
      BY <1>1, OthersStay DEF Left
    <2>2. PICK s \in schedules : s.id = local[j].sid /\ s.owner = call[j].name
      BY <2>1 DEF FoundSchedules
    <2>3. call[j] # Idle /\ call[j].name \in Names
      BY <2>1, <2>2 DEF Zeroed, Zero, Placed, TablesOK
    <2>4. s \in schedules'
      <3>1. CASE schedules' = schedules \/ InsertSchedule(k)
        BY <3>1 DEF InsertSchedule
      <3>2. CASE DeleteSchedules(k) /\ ~Throw(k)
        BY <1>1, <2>2, <2>3, <3>2, NamesDiffer, StatementMeansBusy DEF DeleteSchedules, Owned
      <3> QED  BY <3>1, <3>2, WhatItWrites DEF Placed
    <2> QED  BY <2>1, <2>2, <2>4
  <1>2. CASE j = k /\ Ends(k)
    BY <1>2 DEF Ends, Placed, ControlOK, Zero
  <1>3. CASE j = k /\ Moves(k)
    <2>1. call'[k] = call[k] /\ pc'[k] = pc[k] + 1
      BY <1>3, OthersStay
    <2>2. schedules \subseteq schedules'
      <3>1. CASE schedules' = schedules \/ InsertSchedule(k)
        BY <3>1 DEF InsertSchedule
      <3>2. CASE DeleteSchedules(k) /\ ~Throw(k)
        <4>1. pc[k] = 4
          BY <3>2, Places, StatementMeansBusy DEF DeleteSchedules
        <4> QED  BY <2>1, <4>1 DEF Left, ControlOK
      <3> QED  BY <3>1, <3>2, WhatItWrites DEF Placed
    <2>3. local'[k].sid = local[k].sid \/ local'[k].sid \in Ids(Owned(call[k].name))
      BY <1>3, WhatItFinds
    <2> QED  BY <1>3, <2>1, <2>2, <2>3 DEF FoundSchedules, Ids, Owned
  <1> QED  BY <1>1, <1>2, <1>3 DEF Left

LEMMA UnclaimedKept ==
    ASSUME Placed, CallsApart, OwnSchedules, Unclaimed,
           NEW k \in Workers, Statement(k), Left(k), Still'
    PROVE  Unclaimed'
  <1> SUFFICES ASSUME NEW j \in Workers, call'[j].do \in {"try_create", "insert_group"},
                      pc'[j] > 2, NEW r \in Holders'
               PROVE  r.name # call'[j].name
    BY DEF Unclaimed
  <1>0. (users' = users /\ groups' \subseteq groups) \/ NewHolder(k)
    BY WhoComes DEF Still, Undisturbed
  <1>1. CASE j # k
    <2>1. call'[j] = call[j] /\ pc'[j] = pc[j] /\ call[j] # Idle
      BY <1>1, OthersStay DEF Left, Idle
    <2>2. CASE r \in Holders
      BY <2>1, <2>2 DEF Unclaimed
    <2>3. CASE r \notin Holders
      <3>1. r.name = call[k].name
        BY <1>0, <2>3 DEF NewHolder, Holders
      <3>2. call[j].name \in Names
        BY <2>1, CallFields DEF Placed, ControlOK
      <3> QED  BY <1>1, <2>1, <3>1, <3>2, NamesDiffer, StatementMeansBusy
    <2> QED  BY <2>2, <2>3
  <1>2. CASE j = k
    <2>1. Moves(k) /\ call'[k] = call[k] /\ pc'[k] = pc[k] + 1
      BY <1>2, OthersStay DEF Left, Idle
    <2>2. r \in Holders
      BY <1>0, <1>2, <2>1, OthersStay DEF NewHolder, Holders
    <2>3. CASE pc[k] > 2
      BY <1>2, <2>1, <2>2, <2>3 DEF Unclaimed
    <2>4. CASE ~(pc[k] > 2)
      <3>1. pc[k] = 2 /\ call[k] # Idle
        BY <1>2, <2>1, <2>4, StatementMeansBusy DEF Placed, ControlOK
      <3>2. At(k, "insert_schedule")
        BY <1>2, <2>1, <3>1 DEF At, Statements
      <3>3. InsertSchedule(k)
        BY <3>2, WhichStatement DEF At
      <3>4. Owned(call[k].name) = {}
        <4>1. Owned(call[k].name) # {} => "shared owner" \in seen'
          BY <3>3 DEF InsertSchedule, Continue
        <4> QED  BY <4>1 DEF Still, Undisturbed
      <3>5. r.name # call[k].name
        BY <2>2, <3>4 DEF OwnSchedules, Owned
      <3> QED  BY <1>2, <2>1, <3>5
    <2> QED  BY <2>3, <2>4
  <1> QED  BY <1>1, <1>2

LEMMA NamesApartKept ==
    ASSUME Placed, NamesApart, Unclaimed,
           NEW k \in Workers, Statement(k), Left(k), "rename" \notin seen'
    PROVE  NamesApart'
  <1>1. CASE users' = users /\ groups' \subseteq groups
    BY <1>1 DEF NamesApart
  <1>2. CASE NewHolder(k)
    <2>1. \A r \in Holders : r.name # call[k].name
      BY <1>2 DEF NewHolder, Unclaimed
    <2>2. CASE \E new : new.name = call[k].name /\ users' = users \cup {new} /\ groups' = groups
      BY <2>1, <2>2 DEF NamesApart, Holders
    <2>3. CASE \E new : new.name = call[k].name /\ groups' = groups \cup {new} /\ users' = users
      BY <2>1, <2>3 DEF NamesApart, Holders
    <2> QED  BY <1>2, <2>2, <2>3 DEF NewHolder
  <1> QED  BY <1>1, <1>2, WhoComes

LEMMA StepCalendars ==
    Placed /\ ApartInv /\ RelationInv /\ CalendarInv /\ [Next]_vars => CalendarInv'
  <1> SUFFICES ASSUME Placed, ApartInv, RelationInv, CalendarInv, [Next]_vars PROVE CalendarInv'
    OBVIOUS
  <1> USE DEF CalendarInv
  <1>0. Zeroed
    BY DEF RelationInv
  <1>1. CASE UNCHANGED vars
    BY <1>1 DEF vars, tableVars, ScheduleKeys, OwnSchedules, FoundSchedules, Unclaimed,
                NamesApart, Holders, Still, Undisturbed
  <1>2. ASSUME NEW k \in Workers, call[k] = Idle \/ call'[k] = Idle, seen \subseteq seen',
               UNCHANGED tableVars, pc'[k] = 1, local'[k] = Zero,
               \A j \in Workers : j # k =>
                   call'[j] = call[j] /\ pc'[j] = pc[j] /\ local'[j] = local[j]
        PROVE  CalendarInv'
    <2>1. ScheduleKeys'
      BY <1>2 DEF tableVars, ScheduleKeys
    <2> SUFFICES ASSUME Still'
                 PROVE  (OwnSchedules /\ FoundSchedules /\ Unclaimed /\ NamesApart)'
      BY <2>1
    <2>2. OwnSchedules /\ FoundSchedules /\ Unclaimed /\ NamesApart
      BY <1>2 DEF Still, Undisturbed
    <2>3. OwnSchedules' /\ NamesApart'
      BY <1>2, <2>2 DEF tableVars, OwnSchedules, NamesApart, Holders
    <2>4. FoundSchedules'
      BY <1>2, <2>2 DEF tableVars, FoundSchedules, Zero
    <2>5. Unclaimed'
      BY <1>2, <2>2 DEF tableVars, Unclaimed, Holders
    <2> QED  BY <2>3, <2>4, <2>5
  <1>3. ASSUME NEW k \in Workers, NEW x \in Calls, Begin(k, x) PROVE CalendarInv'
    <2>1. /\ call[k] = Idle /\ UNCHANGED <<tableVars, pc, local>> /\ seen \subseteq seen'
          /\ call' = [call EXCEPT ![k] = x]
      BY <1>3 DEF Begin
    <2>2. pc'[k] = 1 /\ local'[k] = Zero
      BY <1>0, <2>1 DEF Placed, PcOK, Zeroed
    <2>3. \A j \in Workers : j # k =>
              call'[j] = call[j] /\ pc'[j] = pc[j] /\ local'[j] = local[j]
      BY <2>1 DEF Placed, ControlOK
    <2> QED  BY <1>2, <2>1, <2>2, <2>3
  <1>4. ASSUME NEW k \in Workers, StatementFails(k) PROVE CalendarInv'
    <2>1. Left(k) /\ Ends(k) /\ UNCHANGED tableVars
      BY <1>4, FailureKeeps
    <2>2. call'[k] = Idle /\ pc'[k] = 1 /\ local'[k] = Zero
      BY <2>1 DEF Ends, Placed, ControlOK
    <2> QED  BY <1>2, <2>1, <2>2, OthersStay DEF Left
  <1>5. ASSUME NEW k \in Workers, Statement(k) PROVE CalendarInv'
    <2>1. Left(k)
      BY <1>5, StatementKeeps
    <2>2. ScheduleKeys'
      BY <1>5, ScheduleIdsKept
    <2> SUFFICES ASSUME Still'
                 PROVE  (OwnSchedules /\ FoundSchedules /\ Unclaimed /\ NamesApart)'
      BY <2>2
    <2>3. OwnSchedules /\ FoundSchedules /\ Unclaimed /\ NamesApart /\ CallsApart
      BY <2>1 DEF Still, Undisturbed, Left, ApartInv
    <2>4. "rename" \notin seen'
      BY DEF Still, Undisturbed
    <2> QED  BY <1>0, <1>5, <2>1, <2>3, <2>4, OwnSchedulesKept, FoundSchedulesKept,
                UnclaimedKept, NamesApartKept
  <1> QED  BY <1>1, <1>3, <1>4, <1>5 DEF Next

LEMMA InitCalendars == Init => CalendarInv
  <1> SUFFICES ASSUME Init PROVE CalendarInv
    OBVIOUS
  <1> DEFINE r == Len(Registered)
             f == Len(Founded)
             all == Registered \o Founded
  <1>1. /\ Registered \in Seq(AccountNames) /\ Founded \in Seq(GroupNames)
        /\ \A i, j \in 1 .. Len(all) : all[i] = all[j] => i = j
    BY NameAssumption
  <1>2. r \in Nat /\ f \in Nat /\ Len(all) = r + f
    BY <1>1
  <1>3. /\ \A i \in 1 .. r : all[i] = Registered[i] /\ i \in 1 .. r + f
        /\ \A i \in 1 .. f : all[r + i] = Founded[i] /\ r + i \in 1 .. r + f
        /\ DOMAIN Registered = 1 .. r /\ DOMAIN Founded = 1 .. f
    BY <1>1
  <1>4. /\ schedules = {[id |-> i, owner |-> all[i]] : i \in 1 .. r + f}
        /\ users = {[id |-> i, sched |-> i, name |-> Registered[i]] : i \in 1 .. r}
        /\ groups = {[id |-> i, sched |-> r + i, name |-> Founded[i]] : i \in 1 .. f}
        /\ next_id["schedules"] = r + f + 1
    BY <1>2, <1>3 DEF Init, Tables
  <1>5. \A k \in Workers : call[k] = Idle /\ pc[k] = 1 /\ local[k] = Zero
    BY DEF Init
  <1>6. ASSUME NEW u \in users
        PROVE  \E i \in 1 .. r : u = [id |-> i, sched |-> i, name |-> all[i]]
    BY <1>3, <1>4
  <1>7. ASSUME NEW g \in groups
        PROVE  \E i \in 1 .. f : g = [id |-> i, sched |-> r + i, name |-> all[r + i]]
    BY <1>3, <1>4
  <1> HIDE DEF r, f, all
  <1>8. ScheduleKeys
    BY <1>2, <1>4 DEF ScheduleKeys
  <1>9. OwnSchedules
    <2>1. \A i \in 1 .. r + f : \E s \in schedules : s.id = i /\ s.owner = all[i]
      <3> TAKE i \in 1 .. r + f
      <3> DEFINE s == [id |-> i, owner |-> all[i]]
      <3>1. s \in schedules
        BY <1>4
      <3> QED  BY <3>1
    <2>2. ASSUME NEW u \in users PROVE \E i \in 1 .. r + f : u.sched = i /\ u.name = all[i]
      <3>1. PICK i \in 1 .. r : u = [id |-> i, sched |-> i, name |-> all[i]]
        BY <1>6
      <3> QED  BY <1>3, <3>1
    <2>3. ASSUME NEW g \in groups PROVE \E i \in 1 .. r + f : g.sched = i /\ g.name = all[i]
      <3>1. PICK i \in 1 .. f : g = [id |-> i, sched |-> r + i, name |-> all[r + i]]
        BY <1>7
      <3> QED  BY <1>3, <3>1
    <2> QED  BY <2>1, <2>2, <2>3 DEF OwnSchedules, Holders
  <1>10. FoundSchedules /\ Unclaimed
    BY <1>5 DEF FoundSchedules, Unclaimed, Zero
  <1>11. NamesApart
    <2>1. ASSUME NEW u \in users, NEW v \in users, u.name = v.name PROVE u = v
      <3>1. PICK i \in 1 .. r : u = [id |-> i, sched |-> i, name |-> all[i]]
        BY <1>6
      <3>2. PICK j \in 1 .. r : v = [id |-> j, sched |-> j, name |-> all[j]]
        BY <1>6
      <3>3. i = j
        BY <1>1, <1>2, <1>3, <2>1, <3>1, <3>2
      <3> QED  BY <3>1, <3>2, <3>3
    <2>2. ASSUME NEW g \in groups, NEW h \in groups, g.name = h.name PROVE g = h
      <3>1. PICK i \in 1 .. f : g = [id |-> i, sched |-> r + i, name |-> all[r + i]]
        BY <1>7
      <3>2. PICK j \in 1 .. f : h = [id |-> j, sched |-> r + j, name |-> all[r + j]]
        BY <1>7
      <3>3. r + i = r + j
        BY <1>1, <1>2, <1>3, <2>2, <3>1, <3>2
      <3> QED  BY <1>2, <3>1, <3>2, <3>3
    <2>3. ASSUME NEW u \in users, NEW g \in groups, u.name = g.name PROVE FALSE
      <3>1. PICK i \in 1 .. r : u = [id |-> i, sched |-> i, name |-> all[i]]
        BY <1>6
      <3>2. PICK j \in 1 .. f : g = [id |-> j, sched |-> r + j, name |-> all[r + j]]
        BY <1>7
      <3>3. i = r + j
        BY <1>1, <1>2, <1>3, <2>3, <3>1, <3>2
      <3> QED  BY <1>2, <3>1, <3>2, <3>3
    <2> QED  BY <2>1, <2>2, <2>3 DEF NamesApart
  <1> QED  BY <1>8, <1>9, <1>10, <1>11 DEF CalendarInv

(* Every account and group keeps a schedule of its own, under its name,    *)
(* whatever statements fail, until calls overlap, an account is renamed or *)
(* a schedule is made for a name that has one.                             *)
THEOREM CalendarsStayApart == Spec => []CalendarsApart
  <1>1. CalendarInv => CalendarsApart
    <2> SUFFICES ASSUME CalendarInv, Still
                 PROVE  /\ OwnSchedules
                        /\ \A u, v \in users : u.sched = v.sched => u = v
                        /\ \A g, h \in groups : g.sched = h.sched => g = h
                        /\ \A u \in users, g \in groups : u.sched # g.sched
      BY DEF CalendarsApart, Still, OwnSchedules, Holders
    <2>1. ScheduleKeys /\ OwnSchedules /\ NamesApart
      BY DEF CalendarInv
    <2>2. \A q, r \in Holders : q.sched = r.sched => q.name = r.name
      BY <2>1 DEF ScheduleKeys, OwnSchedules
    <2> QED  BY <2>1, <2>2 DEF NamesApart, Holders
  <1> QED  BY <1>1, InitPlaced, StepPlaced, InitApart, StepApart, InitRelations,
              StepRelations, InitCalendars, StepCalendars, PTL DEF Spec
=============================================================================
