---------------------------- MODULE CalendarProofs ----------------------------
(***************************************************************************)
(* Proofs about Calendar: its type invariant, that times proposed lie in   *)
(* gaps, and that times written to a group conflict with no event that the *)
(* comparison can see.                                                     *)
(***************************************************************************)
EXTENDS Calendar, FiniteSetTheorems, TLAPS

Moments == [date : Int, time : TimesOfDay]
Listed == [date : Int, time : TimesOfDay, duration : Int]

-----------------------------------------------------------------------------
(* The arithmetic of event_struct.cpp.                                    *)

LEMMA Remainder ==
    ASSUME NEW n \in Nat, n > 0, NEW x \in Int
    PROVE  x % n \in 0 .. n - 1 /\ (0 <= x /\ x < n => x % n = x)
  OBVIOUS

LEMMA Minutes ==
    ASSUME NEW x \in Nat
    PROVE  x % 60 \in 0 .. 59 /\ x % 60 <= x /\ (x - (x % 60)) % 60 = 0
  OBVIOUS

(* What is used of the length of a day: it is cited instead of the number. *)
LEMMA DayLength == Day \in Nat /\ Day > 0 /\ Day % 60 = 0 /\ 16 * 3600 \in TimesOfDay
  BY DEF Day, TimesOfDay

LEMMA AddSecsType ==
    ASSUME NEW time \in Int, NEW seconds \in Int
    PROVE  AddSecs(time, seconds) \in TimesOfDay
  <1>1. time + seconds \in Int
    OBVIOUS
  <1> QED  BY <1>1, DayLength, Remainder DEF AddSecs, TimesOfDay

LEMMA AddSecsWithinDay ==
    ASSUME NEW time \in Int, NEW seconds \in Int, 0 <= time + seconds, time + seconds < Day
    PROVE  AddSecs(time, seconds) = time + seconds
  <1>1. time + seconds \in Int
    OBVIOUS
  <1> QED  BY <1>1, DayLength, Remainder DEF AddSecs

LEMMA TimeIsInt == TimesOfDay \subseteq Int
  BY DayLength DEF TimesOfDay

LEMMA FinishTimeType ==
    ASSUME NEW e \in Listed
    PROVE  FinishTime(e) \in TimesOfDay
  <1>0. e.time \in TimesOfDay /\ e.duration \in Int
    BY DEF Listed
  <1>1. e.time \in Int
    BY <1>0, TimeIsInt
  <1>2. 60 * e.duration \in Int
    BY <1>0
  <1>3. AddSecs(e.time, 60 * e.duration) \in TimesOfDay
    BY <1>1, <1>2, AddSecsType, Zenon
  <1> QED  BY <1>3 DEF FinishTime

(* The event found between two neighbours is an event of a day, no earlier *)
(* than the first of them.                                                 *)
LEMMA FoundBetween ==
    ASSUME NEW list, NEW x, NEW d \in Int, list[x] \in Listed, list[x + 1] \in Listed,
           NEW t \in schedule_between(list, x, d)
    PROVE  t \in Times /\ t.date >= list[x].date
  <1> DEFINE e1 == list[x]
             e2 == list[x + 1]
             days == e2.date - e1.date
             gap == e2.time - FinishTime(e1)
             middle == AddSecs(FinishTime(e1), gap \div 2)
  <1>1. /\ e1.date \in Int /\ e1.time \in Int /\ e2.date \in Int /\ e2.time \in Int
        /\ FinishTime(e1) \in Int
    BY FinishTimeType, TimeIsInt DEF Listed
  <1>2. CASE t = [date |-> e1.date + days \div 2, time |-> 16 * 3600, duration |-> d] /\ days > 1
    <2>1. days \div 2 \in Int /\ days \div 2 >= 0
      BY <1>1, <1>2
    <2>2. t.date = e1.date + days \div 2
      BY <1>2
    <2>3. t \in Times
      <3> HIDE DEF days
      <3> QED  BY <1>1, <1>2, <2>1, DayLength DEF Times
    <2> QED  BY <1>1, <2>1, <2>2, <2>3
  <1>3. CASE t = [date |-> e1.date, time |-> AddSecs(middle, -30 * d), duration |-> d]
    <2>1. gap \div 2 \in Int /\ -30 * d \in Int
      BY <1>1
    <2>2. middle \in Int
      BY <1>1, <2>1, AddSecsType, TimeIsInt
    <2>3. AddSecs(middle, -30 * d) \in TimesOfDay
      BY <2>1, <2>2, AddSecsType
    <2> QED  BY <1>1, <1>3, <2>3 DEF Times
  <1> QED  BY <1>2, <1>3 DEF schedule_between

-----------------------------------------------------------------------------
(* Type correctness.                                                      *)

LEMMA Given ==
    /\ Deadlines \subseteq Moments /\ Lengths \subseteq Int /\ Garbage \subseteq Int
    /\ Clocks \subseteq Moments /\ Events \subseteq Listed /\ IsFiniteSet(Events)
  <1>1. Events \subseteq Listed
    BY EventsAssumption DEF Listed
  <1> QED  BY <1>1, EventsAssumption, ClockAssumption, RequestAssumption, GarbageAssumption
              DEF Moments

(* Who is asked for: a client alone, or its whole group.                  *)
LEMMA RequestUsers ==
    ASSUME NEW r \in Requests
    PROVE  /\ Len(r.users) \in Nat
           /\ \A i \in 1 .. Len(r.users) : r.users[i] \in Users
           /\ r.deadline \in Deadlines /\ r.duration \in Lengths
           /\ r # NoRequest
  <1>1. Members \in Seq(STRING)
    BY MembersAssumption
  <1>2. r.users = Members \/ \E u \in Users : r.users = <<u>>
    BY DEF Requests
  <1>3. r.deadline \in Deadlines /\ r.duration \in Lengths
    BY DEF Requests
  <1>4. r # NoRequest
    BY DEF Requests, NoRequest
  <1>5. CASE r.users = Members
    BY <1>1, <1>3, <1>4, <1>5 DEF Users
  <1>6. CASE \E u \in Users : r.users = <<u>>
    BY <1>3, <1>4, <1>6
  <1> QED  BY <1>2, <1>5, <1>6

LEMMA KnownType ==
    ASSUME TypeOK, phase = "suggest", NEW u \in Users, NEW garbage \in Garbage
    PROVE  Known(u, garbage) \subseteq Listed /\ Cardinality(Known(u, garbage)) \in Nat
  <1> DEFINE present == [date |-> now.date, time |-> now.time, duration |-> 0]
             deadline == [date |-> request.deadline.date, time |-> request.deadline.time,
                          duration |-> garbage]
             own == {e \in events[u] : now.date <= e.date /\ e.date <= request.deadline.date}
  <1>1. now \in Moments /\ request.deadline \in Moments
    <2>1. now \in Clocks /\ request \in Requests
      BY DEF TypeOK
    <2> QED  BY <2>1, Given, RequestUsers
  <1>2. present \in Listed /\ deadline \in Listed
    BY <1>1, Given DEF Moments, Listed
  <1>3. own \subseteq Events
    BY DEF TypeOK
  <1>4. IsFiniteSet(own)
    BY <1>3, Given, FS_Subset
  <1>5. IsFiniteSet({present, deadline})
    <2>1. IsFiniteSet({present}) /\ IsFiniteSet({deadline})
      BY FS_Singleton
    <2>2. {present, deadline} = {present} \cup {deadline}
      OBVIOUS
    <2> QED  BY <2>1, <2>2, FS_Union
  <1>6. IsFiniteSet({present, deadline} \cup own)
    BY <1>4, <1>5, FS_Union
  <1>7. Known(u, garbage) = {present, deadline} \cup own
    BY DEF Known
  <1>8. Cardinality(Known(u, garbage)) \in Nat
    BY <1>6, <1>7, FS_CardinalityType
  <1> QED  BY <1>2, <1>3, <1>7, <1>8, Given

LEMMA BetweenType ==
    ASSUME NEW known, known \subseteq Listed, Cardinality(known) \in Nat,
           NEW list \in Injection(1 .. Cardinality(known), known), NEW t \in Between(list),
           request.duration \in Int
    PROVE  t \in Times /\ \E e \in known : t.date >= e.date
  <1>1. list \in [1 .. Cardinality(known) -> known]
    BY DEF Injection
  <1>2. Len(list) = Cardinality(known)
    BY <1>1
  <1>3. PICK x \in 1 .. Len(list) - 1 : t \in schedule_between(list, x, request.duration)
    BY DEF Between
  <1>4. list[x] \in known /\ list[x + 1] \in known
    BY <1>1, <1>2, <1>3
  <1> QED  BY <1>3, <1>4, FoundBetween

LEMMA InitTyped == Init => TypeOK
  <1> SUFFICES ASSUME Init PROVE TypeOK
    OBVIOUS
  <1>1. Len(request.users) = 0
    BY DEF Init, NoRequest
  <1> QED  BY <1>1 DEF Init, TypeOK, Phases

LEMMA StepTyped == TypeOK /\ [Next]_vars => TypeOK'
  <1> SUFFICES ASSUME TypeOK, [Next]_vars PROVE TypeOK'
    OBVIOUS
  <1> USE DEF TypeOK, Phases
  <1>1. CASE UNCHANGED vars
    BY <1>1 DEF vars
  <1>2. ASSUME NEW forGroup \in BOOLEAN, Ask(forGroup) PROVE TypeOK'
    <2>1. PICK deadline \in Deadlines, d \in Lengths,
               users \in (IF forGroup THEN {Members} ELSE {<<u>> : u \in Users}) :
              request' = [users |-> users, group |-> forGroup,
                          deadline |-> deadline, duration |-> d]
      BY <1>2 DEF Ask
    <2>2. request' \in Requests
      BY <2>1 DEF Requests
    <2>3. user = 0
      <3>1. user \in 0 .. Len(request.users)
        OBVIOUS
      <3> QED  BY <1>2, <3>1 DEF Ask, NoRequest
    <2> QED  BY <1>2, <2>2, <2>3, RequestUsers DEF Ask
  <1>3. CASE Suggest
    <2>1. request \in Requests /\ user + 1 \in 1 .. Len(request.users)
      BY <1>3, RequestUsers DEF Suggest
    <2>2. request.users[user + 1] \in Users /\ request.duration \in Int
      BY <2>1, RequestUsers, Given
    <2>3. PICK garbage \in Garbage :
             LET known == Known(request.users[user + 1], garbage)
             IN  \E list \in Injection(1 .. Cardinality(known), known) :
                     group_times' = group_times \cup Between(list)
      BY <1>3 DEF Suggest
    <2> DEFINE known == Known(request.users[user + 1], garbage)
    <2>4. PICK list \in Injection(1 .. Cardinality(known), known) :
             group_times' = group_times \cup Between(list)
      BY <2>3
    <2>5. known \subseteq Listed /\ Cardinality(known) \in Nat
      BY <1>3, <2>2, KnownType DEF Suggest
    <2> HIDE DEF known
    <2>6. Between(list) \subseteq Times
      BY <2>2, <2>4, <2>5, BetweenType
    <2> QED  BY <1>3, <2>1, <2>4, <2>6 DEF Suggest
  <1>4. CASE StartChecks
    BY <1>4, RequestUsers DEF StartChecks
  <1>5. CASE NextUser
    BY <1>5, RequestUsers DEF NextUser
  <1>6. CASE Reply
    <2>1. ASSUME NEW t \in Times PROVE Shown(t) \in Times
      <3>1. t.time \in Nat /\ t.time < Day
        BY DayLength DEF Times, TimesOfDay
      <3>2. t.time % 60 \in 0 .. 59 /\ t.time % 60 <= t.time
        BY <3>1, Minutes
      <3>3. t.time - (t.time % 60) \in TimesOfDay
        BY <3>1, <3>2, DayLength DEF TimesOfDay
      <3> QED  BY <3>3 DEF Shown, Times
    <2> QED  BY <1>6, <2>1 DEF Reply
  <1>7. ASSUME NEW t \in unchecked, Check(t) PROVE TypeOK'
    BY <1>7 DEF Check
  <1>8. ASSUME NEW u \in Users, NEW e \in Events, AddEvent(u, e) PROVE TypeOK'
    <2>1. events' \in [Users -> SUBSET Events] /\ late' \subseteq Users \X Events
      BY <1>8 DEF AddEvent
    <2> QED  BY <1>8, <2>1 DEF AddEvent
  <1>9. CASE Tick
    BY <1>9 DEF Tick
  <1> QED  BY <1>1, <1>2, <1>3, <1>4, <1>5, <1>6, <1>7, <1>8, <1>9 DEF Next

(* Dates, times of day and lengths stay such, in particular those that     *)
(* schedule_between computes, and a request is of the kind it was.         *)
THEOREM TypesHold == Spec => []TypeOK
  BY InitTyped, StepTyped, PTL DEF Spec

-----------------------------------------------------------------------------
(* Times lie in gaps.                                                     *)

LEMMA Halves ==
    ASSUME NEW x \in Int
    PROVE  x \div 2 \in Int /\ 2 * (x \div 2) <= x /\ x <= 2 * (x \div 2) + 1
  OBVIOUS

LEMMA FoundFits ==
    ASSUME NEW list, NEW x, NEW d \in Nat, list[x] \in Listed, list[x + 1] \in Listed,
           NEW t \in schedule_between(list, x, d)
    PROVE  \/ /\ list[x + 1].date - list[x].date > 1 /\ list[x].date < t.date
              /\ t.date < list[x + 1].date /\ t.time = 16 * 3600
           \/ /\ t.date = list[x].date /\ FinishTime(list[x]) <= t.time
              /\ t.time + 60 * t.duration <= list[x + 1].time
  <1> DEFINE e1 == list[x]
             e2 == list[x + 1]
             days == e2.date - e1.date
             end == FinishTime(e1)
             gap == e2.time - end
             middle == AddSecs(end, gap \div 2)
  <1>1. /\ e1.date \in Int /\ e2.date \in Int
        /\ e2.time \in TimesOfDay /\ end \in TimesOfDay
    BY FinishTimeType DEF Listed
  <1>2. CASE t = [date |-> e1.date + days \div 2, time |-> 16 * 3600, duration |-> d] /\ days > 1
    <2>1. days \in Int /\ t.date = e1.date + days \div 2 /\ t.time = 16 * 3600
      BY <1>1, <1>2
    <2>2. 1 <= days \div 2 /\ days \div 2 < days
      BY <1>2, <2>1, Halves
    <2> QED  BY <1>1, <1>2, <2>1, <2>2, Halves
  <1>3. CASE /\ t = [date |-> e1.date, time |-> AddSecs(middle, -30 * d), duration |-> d]
             /\ gap >= 60 * d
    <2> DEFINE half == gap \div 2
    <2>1. t.date = e1.date /\ t.duration = d /\ t.time = AddSecs(middle, -30 * d)
      BY <1>3
    <2>2. end \in Nat /\ e2.time \in Nat /\ e2.time < Day /\ gap \in Int
      BY <1>1, DayLength DEF TimesOfDay
    <2>3. half \in Int /\ 2 * half <= gap /\ gap <= 2 * half + 1
      BY <2>2, Halves
    <2> HIDE DEF half
    <2>4. half >= 30 * d /\ end + half + 30 * d <= e2.time
      BY <1>3, <2>2, <2>3
    <2>5. middle = end + half
      BY <2>2, <2>3, <2>4, DayLength, AddSecsWithinDay DEF half
    <2> HIDE DEF middle
    <2>6. middle \in Int /\ -30 * d \in Int /\ 0 <= middle + (-30 * d) /\ middle + (-30 * d) < Day
      BY <2>2, <2>3, <2>4, <2>5, DayLength
    <2>7. AddSecs(middle, -30 * d) = middle + (-30 * d)
      BY <2>6, AddSecsWithinDay
    <2> HIDE DEF end
    <2>8. end <= t.time /\ t.time + 60 * d <= e2.time
      BY <2>1, <2>2, <2>3, <2>4, <2>5, <2>7
    <2> QED  BY <2>1, <2>8 DEF end
  <1> QED  BY <1>2, <1>3 DEF schedule_between

LEMMA SuggestFits ==
    ASSUME TypeOK, Suggest, \A d \in Lengths : d >= 0, NEW t \in group_times' \ group_times
    PROVE  \E garbage \in Garbage : FitsAGap(t, Known(Present, garbage))
  <1>1. request \in Requests /\ user + 1 \in 1 .. Len(request.users) /\ phase = "suggest"
    BY RequestUsers DEF Suggest, TypeOK
  <1>2. request.users[user + 1] \in Users /\ request.duration \in Nat
    <2>1. request.users[user + 1] \in Users /\ request.duration \in Lengths
      BY <1>1, RequestUsers
    <2>2. request.duration \in Int /\ request.duration >= 0
      BY <2>1, Given
    <2> QED  BY <2>1, <2>2
  <1>3. PICK garbage \in Garbage :
           LET known == Known(request.users[user + 1], garbage)
           IN  \E list \in Injection(1 .. Cardinality(known), known) :
                   group_times' = group_times \cup Between(list)
    BY DEF Suggest
  <1> DEFINE known == Known(request.users[user + 1], garbage)
  <1>4. PICK list \in Injection(1 .. Cardinality(known), known) : t \in Between(list)
    BY <1>3
  <1>5. known \subseteq Listed /\ Cardinality(known) \in Nat
    BY <1>1, <1>2, KnownType
  <1>6. known = Known(Present, garbage)
    BY DEF Present
  <1> HIDE DEF known
  <1>7. list \in [1 .. Cardinality(known) -> known] /\ Len(list) = Cardinality(known)
    <2>1. list \in [1 .. Cardinality(known) -> known]
      BY DEF Injection
    <2> QED  BY <1>5, <2>1
  <1>8. PICK x \in 1 .. Len(list) - 1 : t \in schedule_between(list, x, request.duration)
    BY <1>4 DEF Between
  <1>9. list[x] \in known /\ list[x + 1] \in known
    BY <1>5, <1>7, <1>8
  <1>10. FitsAGap(t, known)
    BY <1>2, <1>5, <1>8, <1>9, FoundFits DEF FitsAGap
  <1> QED  BY <1>6, <1>10

(* Whatever garbage the deadline's duration is, and in whatever order the  *)
(* events are listed, a time proposed lies in the gap it was made for,     *)
(* when no client asks for a negative length.                              *)
THEOREM ProposalsAlwaysFit == (\A d \in Lengths : d >= 0) => (Spec => ProposalsFit)
  <1> SUFFICES ASSUME \A d \in Lengths : d >= 0 PROVE Spec => ProposalsFit
    OBVIOUS
  <1>1. TypeOK /\ [Next]_vars =>
            [phase = "suggest" /\ phase' = "suggest" =>
                \A t \in group_times' \ group_times :
                    \E garbage \in Garbage : FitsAGap(t, Known(Present, garbage))]_vars
    <2> SUFFICES ASSUME TypeOK, Next, phase = "suggest", phase' = "suggest",
                        NEW t \in group_times' \ group_times
                 PROVE  \E garbage \in Garbage : FitsAGap(t, Known(Present, garbage))
      OBVIOUS
    <2>1. Suggest
      BY DEF Next, Ask, StartChecks, NextUser, Reply, Check, AddEvent, Tick
    <2> QED  BY <2>1, SuggestFits
  <1> QED  BY <1>1, TypesHold, PTL DEF Spec, ProposalsFit

-----------------------------------------------------------------------------
(* What a group is answered.  A time that was checked for a user and is    *)
(* still proposed overlaps no event that the user had then, and was ahead  *)
(* of the clock then.                                                      *)

Examined(i, t) ==
    \/ phase = "answered"
    \/ phase = "validate" /\ (i <= user \/ (i = user + 1 /\ t \notin unchecked))
ClearOf(u, t) ==
    \A e \in events[u] : e.date >= now.date /\ check_overlap(t, e) => <<u, e>> \in late
AheadOf(t) ==
    now.date = asked.date /\ now.time + 60 * t.duration < Day
        => asked.time + 60 * t.duration <= t.time

Forward == ~Later(asked, now)
Written == answer = IF phase = "answered" THEN {Shown(t) : t \in group_times} ELSE {}
Asking ==
    /\ phase = "idle" => group_times = {}
    /\ group_times # {} => Len(request.users) >= 1
    /\ phase # "idle" /\ request.group => request.users = Members
NotBefore ==
    \A t \in group_times : t.date >= asked.date \/ t.date >= request.deadline.date
Examinations ==
    phase # "idle" /\ request.group =>
        \A t \in group_times, i \in 1 .. Len(request.users) :
            Examined(i, t) => ClearOf(request.users[i], t) /\ AheadOf(t)

SearchInv == TypeOK /\ Forward /\ Written /\ Asking /\ NotBefore /\ Examinations

(* An end that the day still holds is found by FinishTime. *)
LEMMA FinishSameDay ==
    ASSUME NEW e \in Listed, 0 <= e.time + 60 * e.duration, e.time + 60 * e.duration < Day
    PROVE  FinishTime(e) = e.time + 60 * e.duration
  <1>1. e.time \in TimesOfDay /\ e.duration \in Int
    BY DEF Listed
  <1>2. e.time \in Int
    BY <1>1, TimeIsInt
  <1>3. 60 * e.duration \in Int
    BY <1>1
  <1>4. AddSecs(e.time, 60 * e.duration) = e.time + 60 * e.duration
    BY <1>2, <1>3, AddSecsWithinDay
  <1> QED  BY <1>4 DEF FinishTime

LEMMA Monotone ==
    ASSUME NEW n \in Nat, n > 0, NEW a \in Int, NEW b \in Int, n * a < n * (b + 1)
    PROVE  a <= b
  <1> SUFFICES ASSUME a >= b + 1 PROVE FALSE
    OBVIOUS
  <1>1. a - (b + 1) \in Nat
    OBVIOUS
  <1>2. n * (a - (b + 1)) >= 0
    BY <1>1
  <1>3. n * (a - (b + 1)) = n * a - n * (b + 1)
    OBVIOUS
  <1> QED  BY <1>2, <1>3

(* check_overlap sees every conflict but those that GroupTimesClear lists. *)
LEMMA ConflictSeen ==
    ASSUME NEW t \in Times, NEW e \in Events, Conflict(Shown(t), e),
           ~PassesMidnight(Shown(t)), ~PassesMidnight(e),
           Shown(t).time # e.time, e.time % 60 = 0
    PROVE  e.date = t.date /\ check_overlap(t, e)
  <1> DEFINE s == t.time - (t.time % 60)
             d == 60 * t.duration
             f == 60 * e.duration
  <1>1. /\ t.date \in Int /\ t.time \in Nat /\ t.duration \in Int /\ t.time < Day
        /\ t \in Listed
    BY DayLength DEF Times, Listed, TimesOfDay
  <1>2. /\ e.date \in Int /\ e.time \in Nat /\ e.duration \in Nat /\ e.time < Day
        /\ e \in Listed
    <2>1. e \in [date : Int, time : TimesOfDay, duration : 0 .. 1439] /\ e \in Listed
      BY Given, EventsAssumption
    <2> QED  BY <2>1, DayLength DEF TimesOfDay
  <1>3. /\ s \in Int /\ 0 <= s /\ s <= t.time /\ t.time < s + 60 /\ s % 60 = 0
    BY <1>1, Minutes
  <1>4. Shown(t) = [t EXCEPT !.time = s]
    BY DEF Shown
  <1>5. /\ Shown(t).time = s /\ Shown(t).date = t.date /\ Shown(t).duration = t.duration
    BY <1>1, <1>4 DEF Times
  <1> HIDE DEF s
  <1>6. d \in Int /\ f \in Nat
    BY <1>1, <1>2
  <1>7. /\ Start(Shown(t)) = Day * t.date + s /\ Finish(Shown(t)) = Day * t.date + s + d
        /\ Start(e) = Day * e.date + e.time /\ Finish(e) = Day * e.date + e.time + f
    BY <1>5 DEF Start, Finish
  <1>8. s + d < Day /\ e.time + f < Day /\ s # e.time
    <2>1. ~(s + d >= Day) /\ ~(e.time + f >= Day)
      BY <1>5 DEF PassesMidnight
    <2> QED  BY <1>2, <1>3, <1>5, <1>6, <2>1, DayLength
  <1> HIDE DEF d, f
  <1>9. e.date = t.date /\ s < e.time + f /\ e.time < s + d
    <2>1. /\ Day * t.date + s < Day * e.date + e.time + f
          /\ Day * e.date + e.time < Day * t.date + s + d
      BY <1>7 DEF Conflict
    <2>2. /\ 0 <= s /\ 0 <= e.time /\ s \in Int /\ e.time \in Int /\ d \in Int /\ f \in Int
          /\ t.date \in Int /\ e.date \in Int
      BY <1>1, <1>2, <1>3, <1>6
    <2> DEFINE a == t.date
               b == e.date
               r == e.time
    <2>3. /\ Day * a + s < Day * b + r + f /\ Day * b + r < Day * a + s + d
          /\ s + d < Day /\ r + f < Day /\ 0 <= s /\ 0 <= r
          /\ a \in Int /\ b \in Int /\ r \in Int
      BY <1>8, <2>1, <2>2
    <2> HIDE DEF a, b, r
    <2>4. Day * (a + 1) = Day * a + Day /\ Day * (b + 1) = Day * b + Day
      BY <2>3, DayLength
    <2>5. Day * a < Day * (b + 1) /\ Day * b < Day * (a + 1)
      BY <2>2, <2>3, <2>4, DayLength
    <2>6. a <= b /\ b <= a
      BY <2>3, <2>5, DayLength, Monotone
    <2>7. a = b
      BY <2>3, <2>6
    <2>8. s < r + f /\ r < s + d
      BY <2>2, <2>3, <2>7, DayLength
    <2> QED  BY <2>7, <2>8 DEF a, b, r
  <1>10. CASE s < e.time
    <2>1. s + 60 <= e.time /\ t.time < e.time
      BY <1>1, <1>2, <1>3, <1>10
    <2>2. t.time + d < Day /\ 0 <= t.time + d
      <3>1. (s + d) % 60 = 0 /\ Day % 60 = 0
        BY <1>1, <1>3, <1>6, DayLength DEF d
      <3>2. s + d + 60 <= Day
        BY <1>3, <1>6, <1>8, <3>1, DayLength
      <3> QED  BY <1>1, <1>2, <1>3, <1>6, <1>9, <3>2, DayLength
    <2>3. FinishTime(t) = t.time + d
      BY <1>1, <2>2, DayLength, FinishSameDay DEF d
    <2> QED  BY <1>1, <1>2, <1>3, <1>6, <1>8, <1>9, <2>1, <2>3 DEF check_overlap
  <1>11. CASE s > e.time
    <2>1. FinishTime(e) = e.time + f
      BY <1>2, <1>6, <1>8, DayLength, FinishSameDay DEF f
    <2>2. t.time < e.time + f
      <3>1. (e.time + f) % 60 = 0
        BY <1>2 DEF f
      <3>2. s + 60 <= e.time + f
        BY <1>2, <1>3, <1>6, <1>8, <1>9, <3>1
      <3> QED  BY <1>1, <1>2, <1>3, <1>6, <3>2
    <2> QED  BY <1>1, <1>2, <1>3, <1>6, <1>8, <1>9, <1>11, <2>1, <2>2 DEF check_overlap
  <1> QED  BY <1>2, <1>3, <1>8, <1>10, <1>11

LEMMA LaterOrder ==
    ASSUME NEW a \in Moments, NEW b \in Moments, NEW c \in Moments, ~Later(a, b), Later(c, b)
    PROVE  /\ ~Later(a, c) /\ b.date <= c.date /\ a.date <= b.date
           /\ c.date = a.date => b.date = a.date /\ b.time <= c.time
  <1>1. /\ a.date \in Int /\ b.date \in Int /\ c.date \in Int
        /\ a.time \in TimesOfDay /\ b.time \in TimesOfDay /\ c.time \in TimesOfDay
    BY DEF Moments
  <1>2. a.time \in Int /\ b.time \in Int /\ c.time \in Int
    BY <1>1, TimeIsInt
  <1> QED  BY <1>1, <1>2 DEF Later

LEMMA ClockTypes ==
    ASSUME TypeOK
    PROVE  /\ now \in Moments /\ asked \in Moments
           /\ now.date \in Int /\ now.time \in Int /\ asked.date \in Int /\ asked.time \in Int
  <1>1. now \in Moments /\ asked \in Moments
    BY Given DEF TypeOK
  <1>2. now.time \in TimesOfDay /\ asked.time \in TimesOfDay
    BY <1>1 DEF Moments
  <1> QED  BY <1>1, <1>2, TimeIsInt DEF Moments

(* What a user's check of a time shows. *)
LEMMA ValidIsClear ==
    ASSUME TypeOK, Forward, NEW u, NEW t \in Times, is_valid_for_user(u, t)
    PROVE  ClearOf(u, t) /\ AheadOf(t)
  <1>1. ClearOf(u, t)
    BY DEF is_valid_for_user, ClearOf
  <1>2. AheadOf(t)
    <2> SUFFICES ASSUME now.date = asked.date, now.time + 60 * t.duration < Day
                 PROVE  asked.time + 60 * t.duration <= t.time
      BY DEF AheadOf
    <2> DEFINE d == 60 * t.duration
    <2>1. t.time \in TimesOfDay /\ t.duration \in Int
      BY DEF Times
    <2>2. d \in Int /\ t.time \in Int
      <3>1. d \in Int
        BY <2>1
      <3>2. t.time \in Int
        BY <2>1, TimeIsInt
      <3> QED  BY <3>1, <3>2
    <2>3. asked.time <= now.time
      BY ClockTypes DEF Forward, Later
    <2>4. AddSecs(now.time, d) <= t.time /\ now.time + d < Day
      BY DEF is_valid_for_user
    <2> HIDE DEF d
    <2>5. now.time + d <= AddSecs(now.time, d)
      <3>1. CASE 0 <= now.time + d
        <4>1. AddSecs(now.time, d) = now.time + d
          BY <2>2, <2>4, <3>1, ClockTypes, AddSecsWithinDay
        <4> QED  BY <2>2, <4>1, ClockTypes
      <3>2. CASE now.time + d < 0
        <4>1. AddSecs(now.time, d) \in TimesOfDay
          BY <2>2, ClockTypes, AddSecsType
        <4>2. AddSecs(now.time, d) \in Int /\ AddSecs(now.time, d) >= 0
          BY <4>1, DayLength DEF TimesOfDay
        <4> QED  BY <2>2, <3>2, <4>2, ClockTypes
      <3> QED  BY <2>2, <3>1, <3>2, ClockTypes
    <2>6. AddSecs(now.time, d) \in Int
      BY <2>2, ClockTypes, AddSecsType, TimeIsInt
    <2>7. asked.time + d <= t.time
      BY <2>2, <2>3, <2>4, <2>5, <2>6, ClockTypes
    <2> QED  BY <2>7 DEF d
  <1> QED  BY <1>1, <1>2

(* A time that schedule_between finds is on no day before the request and  *)
(* the deadline.                                                           *)
LEMMA SuggestedDates ==
    ASSUME TypeOK, Forward, Suggest, NEW t \in group_times'
    PROVE  t \in group_times \/ t.date >= asked.date \/ t.date >= request.deadline.date
  <1> SUFFICES ASSUME t \notin group_times
               PROVE  t.date >= asked.date \/ t.date >= request.deadline.date
    OBVIOUS
  <1>1. request \in Requests /\ user + 1 \in 1 .. Len(request.users) /\ phase = "suggest"
    BY RequestUsers DEF Suggest, TypeOK
  <1>2. /\ request.users[user + 1] \in Users /\ request.duration \in Lengths
        /\ request.deadline \in Deadlines
    BY <1>1, RequestUsers
  <1>3. PICK garbage \in Garbage :
           LET known == Known(request.users[user + 1], garbage)
           IN  \E list \in Injection(1 .. Cardinality(known), known) :
                   group_times' = group_times \cup Between(list)
    BY DEF Suggest
  <1> DEFINE known == Known(request.users[user + 1], garbage)
  <1>4. PICK list \in Injection(1 .. Cardinality(known), known) : t \in Between(list)
    BY <1>3
  <1>5. known \subseteq Listed /\ Cardinality(known) \in Nat
    BY <1>1, <1>2, KnownType
  <1>6. \A e \in known : e.date >= now.date \/ e.date = request.deadline.date
    <2> SUFFICES ASSUME NEW e \in known
                 PROVE  e.date >= now.date \/ e.date = request.deadline.date
      OBVIOUS
    <2>1. now.date >= now.date
      BY ClockTypes
    <2> QED  BY <2>1 DEF Known
  <1> HIDE DEF known
  <1>7. request.duration \in Int
    BY <1>2, Given
  <1>8. PICK e \in known : t \in Times /\ t.date >= e.date
    BY <1>4, <1>5, <1>7, BetweenType
  <1>9. t.date \in Int /\ e.date \in Int /\ request.deadline.date \in Int
    <2>1. request.deadline \in Moments
      BY <1>2, Given
    <2> QED  BY <1>5, <1>8, <2>1 DEF Times, Listed, Moments
  <1>10. asked.date <= now.date
    BY ClockTypes DEF Forward, Later
  <1> QED  BY <1>6, <1>8, <1>9, <1>10, ClockTypes

LEMMA InitSearch == Init => SearchInv
  <1> SUFFICES ASSUME Init PROVE SearchInv
    OBVIOUS
  <1>1. TypeOK
    BY InitTyped
  <1>2. Forward
    BY <1>1, ClockTypes DEF Init, Forward, Later
  <1>3. Written /\ Asking /\ NotBefore /\ Examinations
    BY DEF Init, Written, Asking, NotBefore, Examinations
  <1> QED  BY <1>1, <1>2, <1>3 DEF SearchInv

(* The clock and the times proposed have not moved. *)
LEMMA StillAhead ==
    ASSUME UNCHANGED <<now, asked>>, NEW t, AheadOf(t)
    PROVE  AheadOf(t)'
  BY DEF AheadOf

LEMMA StepSearch == SearchInv /\ [Next]_vars => SearchInv'
  <1> SUFFICES ASSUME SearchInv, [Next]_vars PROVE SearchInv'
    OBVIOUS
  <1> USE DEF SearchInv
  <1>1. TypeOK'
    BY StepTyped
  <1>2. CASE UNCHANGED vars
    BY <1>1, <1>2 DEF vars, Forward, Written, Asking, NotBefore, Examinations, Examined,
                      ClearOf, AheadOf
  <1>3. ASSUME NEW forGroup \in BOOLEAN, Ask(forGroup) PROVE SearchInv'
    <2>1. group_times = {} /\ group_times' = {} /\ answer' = {} /\ phase' = "suggest"
      BY <1>3 DEF Ask, Asking, Written
    <2>2. asked' = now /\ now' = now
      BY <1>3 DEF Ask
    <2>3. Forward'
      <3>1. now.date \in Int /\ now.time \in Int
        BY ClockTypes
      <3> QED  BY <2>2, <3>1 DEF Forward, Later
    <2>4. request'.group => request'.users = Members
      <3>1. PICK deadline \in Deadlines, d \in Lengths,
                 users \in (IF forGroup THEN {Members} ELSE {<<u>> : u \in Users}) :
                request' = [users |-> users, group |-> forGroup,
                            deadline |-> deadline, duration |-> d]
        BY <1>3 DEF Ask
      <3> QED  BY <3>1
    <2>5. Written' /\ Asking' /\ NotBefore' /\ Examinations'
      BY <2>1, <2>4 DEF Written, Asking, NotBefore, Examinations
    <2> QED  BY <1>1, <2>3, <2>5
  <1>4. CASE Suggest
    <2>1. /\ phase = "suggest" /\ phase' = "suggest" /\ user < Len(request.users)
          /\ UNCHANGED <<events, now, request, answer, asked, late>>
      BY <1>4 DEF Suggest
    <2>2. Forward' /\ Written'
      BY <2>1 DEF Forward, Later, Written
    <2>3. Asking'
      <3>1. Len(request.users) \in Nat /\ user \in 0 .. Len(request.users)
        BY <2>1, RequestUsers DEF TypeOK
      <3>2. Len(request.users) >= 1
        BY <2>1, <3>1
      <3> QED  BY <2>1, <3>2 DEF Asking
    <2>4. NotBefore'
      <3> SUFFICES ASSUME NEW t \in group_times'
                   PROVE  t.date >= asked.date \/ t.date >= request.deadline.date
        BY <2>1 DEF NotBefore
      <3> QED  BY <1>4, SuggestedDates DEF NotBefore
    <2>5. Examinations'
      BY <2>1 DEF Examinations, Examined
    <2> QED  BY <1>1, <2>2, <2>3, <2>4, <2>5
  <1>5. CASE StartChecks
    <2>1. /\ phase = "suggest" /\ phase' = "validate" /\ user' = 0 /\ unchecked' = group_times
          /\ UNCHANGED <<events, now, request, group_times, answer, asked, late>>
      BY <1>5 DEF StartChecks
    <2>2. Forward' /\ Written' /\ Asking' /\ NotBefore'
      BY <2>1 DEF Forward, Later, Written, Asking, NotBefore
    <2>3. Examinations'
      <3>1. \A i \in 1 .. Len(request'.users), t \in group_times' : ~Examined(i, t)'
        BY <2>1 DEF Examined
      <3> QED  BY <3>1 DEF Examinations
    <2> QED  BY <1>1, <2>2, <2>3
  <1>6. CASE NextUser
    <2>1. /\ phase = "validate" /\ user' = user + 1 /\ unchecked = {} /\ unchecked' = group_times
          /\ UNCHANGED <<events, now, phase, request, group_times, answer, asked, late>>
      BY <1>6 DEF NextUser
    <2>2. Forward' /\ Written' /\ Asking' /\ NotBefore'
      BY <2>1 DEF Forward, Later, Written, Asking, NotBefore
    <2>3. Examinations'
      <3>1. user \in Int
        BY <2>1, RequestUsers DEF TypeOK
      <3>2. \A i \in 1 .. Len(request.users), t \in group_times : Examined(i, t)' => Examined(i, t)
        BY <2>1, <3>1 DEF Examined
      <3> QED  BY <2>1, <3>2 DEF Examinations, ClearOf, AheadOf
    <2> QED  BY <1>1, <2>2, <2>3
  <1>7. CASE Reply
    <2>1. /\ phase # "idle" /\ phase' = "answered" /\ answer' = {Shown(t) : t \in group_times}
          /\ user = Len(request.users) /\ (request.group => phase = "validate")
          /\ UNCHANGED <<events, now, request, user, group_times, unchecked, asked, late>>
      BY <1>7 DEF Reply
    <2>2. Forward' /\ Written' /\ Asking' /\ NotBefore'
      BY <2>1 DEF Forward, Later, Written, Asking, NotBefore
    <2>3. Examinations'
      <3>1. request.group => \A i \in 1 .. Len(request.users), t \in group_times : Examined(i, t)
        BY <2>1 DEF Examined
      <3> QED  BY <2>1, <3>1 DEF Examinations, ClearOf, AheadOf
    <2> QED  BY <1>1, <2>2, <2>3
  <1>8. ASSUME NEW t \in unchecked, Check(t) PROVE SearchInv'
    <2>1. /\ phase = "validate" /\ user < Len(request.users) /\ unchecked' = unchecked \ {t}
          /\ UNCHANGED <<events, now, phase, request, user, answer, asked, late>>
          /\ group_times' \subseteq group_times
          /\ t \in group_times' => is_valid_for_user(Present, t)
      BY <1>8 DEF Check
    <2>2. Forward' /\ Written' /\ Asking' /\ NotBefore'
      BY <2>1 DEF Forward, Later, Written, Asking, NotBefore
    <2>3. Examinations'
      <3> SUFFICES ASSUME request.group, NEW s \in group_times', NEW i \in 1 .. Len(request.users),
                          Examined(i, s)'
                   PROVE  ClearOf(request.users[i], s)' /\ AheadOf(s)'
        BY <2>1 DEF Examinations
      <3>1. SUFFICES ClearOf(request.users[i], s) /\ AheadOf(s)
        BY <2>1 DEF ClearOf, AheadOf
      <3>2. CASE Examined(i, s)
        BY <2>1, <3>2 DEF Examinations
      <3>3. CASE ~Examined(i, s)
        <4>1. i = user + 1 /\ s = t
          BY <2>1, <3>3 DEF Examined
        <4>2. is_valid_for_user(request.users[i], s) /\ s \in Times
          BY <2>1, <4>1 DEF Present, TypeOK
        <4> QED  BY <4>2, ValidIsClear
      <3> QED  BY <3>2, <3>3
    <2> QED  BY <1>1, <2>2, <2>3
  <1>9. ASSUME NEW u \in Users, NEW e \in Events, AddEvent(u, e) PROVE SearchInv'
    <2>1. /\ UNCHANGED <<now, phase, request, user, group_times, unchecked, answer, asked>>
          /\ late \subseteq late' /\ (CheckBegun(u) => <<u, e>> \in late')
      BY <1>9 DEF AddEvent
    <2>2. Forward' /\ Written' /\ Asking' /\ NotBefore'
      BY <2>1 DEF Forward, Later, Written, Asking, NotBefore
    <2>3. Examinations'
      <3> SUFFICES ASSUME phase # "idle", request.group, NEW s \in group_times,
                          NEW i \in 1 .. Len(request.users), Examined(i, s)
                   PROVE  ClearOf(request.users[i], s)' /\ AheadOf(s)'
        BY <2>1 DEF Examinations, Examined
      <3>1. ClearOf(request.users[i], s) /\ AheadOf(s)
        BY DEF Examinations
      <3>2. request.users[i] = u => CheckBegun(u)
        <4>1. user \in Int
          BY RequestUsers DEF TypeOK
        <4> QED  BY <4>1 DEF Examined, CheckBegun
      <3>3. request.users[i] \in Users
        BY RequestUsers DEF TypeOK
      <3>4. \A f \in events'[request.users[i]] :
               f \in events[request.users[i]] \/ (request.users[i] = u /\ f = e)
        BY <1>9, <3>3 DEF AddEvent, TypeOK
      <3> QED  BY <2>1, <3>1, <3>2, <3>4 DEF ClearOf, AheadOf
    <2> QED  BY <1>1, <2>2, <2>3
  <1>10. CASE Tick
    <2>1. UNCHANGED <<events, phase, request, user, group_times, unchecked, answer, asked, late>>
      BY <1>10 DEF Tick
    <2>2. now' \in Moments /\ Later(now', now) /\ now \in Moments /\ asked \in Moments
      <3>1. now' \in Clocks /\ Later(now', now)
        BY <1>10 DEF Tick
      <3> QED  BY <3>1, Given, ClockTypes
    <2>3. /\ ~Later(asked, now') /\ now.date <= now'.date
          /\ now'.date = asked.date => now.date = asked.date /\ now.time <= now'.time
      BY <2>2, LaterOrder DEF Forward
    <2>4. Forward' /\ Written' /\ Asking' /\ NotBefore'
      BY <2>1, <2>3 DEF Forward, Later, Written, Asking, NotBefore
    <2>5. Examinations'
      <3> SUFFICES ASSUME phase # "idle", request.group, NEW t \in group_times,
                          NEW i \in 1 .. Len(request.users), Examined(i, t)
                   PROVE  ClearOf(request.users[i], t)' /\ AheadOf(t)'
        BY <2>1 DEF Examinations, Examined
      <3>1. ClearOf(request.users[i], t) /\ AheadOf(t)
        BY DEF Examinations
      <3>2. now.date \in Int /\ now'.date \in Int /\ now.time \in Int /\ now'.time \in Int
        <4>1. now.time \in TimesOfDay /\ now'.time \in TimesOfDay
          BY <2>2 DEF Moments
        <4> QED  BY <2>2, <4>1, TimeIsInt DEF Moments
      <3>3. ClearOf(request.users[i], t)'
        <4>1. request.users[i] \in Users
          BY RequestUsers DEF TypeOK
        <4>2. \A e \in events[request.users[i]] : e.date \in Int
          BY <4>1, Given DEF TypeOK, Listed
        <4> QED  BY <2>1, <2>3, <3>1, <3>2, <4>2 DEF ClearOf
      <3>4. AheadOf(t)'
        <4>1. 60 * t.duration \in Int
          BY DEF TypeOK, Times
        <4> QED  BY <2>1, <2>3, <3>1, <3>2, <4>1, DayLength DEF AheadOf
      <3> QED  BY <3>3, <3>4
    <2> QED  BY <1>1, <2>4, <2>5
  <1> QED  BY <1>2, <1>3, <1>4, <1>5, <1>6, <1>7, <1>8, <1>9, <1>10 DEF Next

LEMMA SearchAlways == Spec => []SearchInv
  BY InitSearch, StepSearch, PTL DEF Spec

(* A time written to a group conflicts with no event that a member had     *)
(* when the member was checked, but for the cases check_overlap misses.    *)
THEOREM GroupTimesAreClear == Spec => []GroupTimesClear
  <1>1. ASSUME SearchInv PROVE GroupTimesClear
    <2> SUFFICES ASSUME request # NoRequest, request.group, NEW s \in answer, NEW p \in OfMembers,
                        Conflict(s, p[2]), p \notin late, s.time # p[2].time,
                        ~(s.date < now.date), ~PassesMidnight(s), ~PassesMidnight(p[2]),
                        p[2].time % 60 = 0
                 PROVE  FALSE
      BY DEF GroupTimesClear
    <2>1. phase = "answered" /\ phase # "idle"
      BY <1>1 DEF SearchInv, Written
    <2>2. PICK t \in group_times : s = Shown(t)
      BY <1>1, <2>1 DEF SearchInv, Written
    <2>3. p[1] \in Users /\ p[2] \in Events /\ p[2] \in events[p[1]] /\ p = <<p[1], p[2]>>
      BY DEF OfMembers
    <2>4. t \in Times
      BY <1>1 DEF SearchInv, TypeOK
    <2>5. p[2].date = t.date /\ check_overlap(t, p[2])
      BY <2>2, <2>3, <2>4, ConflictSeen
    <2>6. PICK i \in 1 .. Len(request.users) : request.users[i] = p[1]
      <3>1. request.users = Members /\ Members \in Seq(STRING)
        BY <1>1, <2>1, MembersAssumption DEF SearchInv, Asking
      <3> QED  BY <2>3, <3>1 DEF Users
    <2>7. ClearOf(p[1], t)
      BY <1>1, <2>1, <2>6 DEF SearchInv, Examinations, Examined
    <2>8. s.date = t.date
      BY <2>2, <2>4 DEF Shown, Times
    <2>9. p[2].date >= now.date
      <3>1. p[2].date \in Int
        BY <2>3, Given DEF Listed
      <3> QED  BY <1>1, <2>5, <2>8, <3>1, ClockTypes DEF SearchInv
    <2> QED  BY <2>3, <2>5, <2>7, <2>9 DEF ClearOf
  <1> QED  BY <1>1, SearchAlways, PTL

(* A time of the answer is not before the request and its deadline, and    *)
(* leaves the members as long as the event takes, while the day lasts.     *)
THEOREM AnswersAreAhead == Spec => []AnswerIsAhead
  <1>1. ASSUME SearchInv PROVE AnswerIsAhead
    <2> SUFFICES ASSUME NEW s \in answer
                 PROVE  /\ s.date >= asked.date \/ s.date >= request.deadline.date
                        /\ request.group /\ now.date = asked.date /\ now.time + 60 * s.duration < Day
                               => s.time + 60 > asked.time + 60 * s.duration
      BY DEF AnswerIsAhead
    <2>1. phase = "answered" /\ phase # "idle"
      BY <1>1 DEF SearchInv, Written
    <2>2. PICK t \in group_times : s = Shown(t)
      BY <1>1, <2>1 DEF SearchInv, Written
    <2>3. t \in Times
      BY <1>1 DEF SearchInv, TypeOK
    <2>4. /\ t.time \in Nat /\ t.duration \in Int
      BY <2>3, DayLength DEF Times, TimesOfDay
    <2>5. s.date = t.date /\ s.duration = t.duration /\ s.time = t.time - (t.time % 60)
      BY <2>2, <2>3 DEF Shown, Times
    <2>6. s.date >= asked.date \/ s.date >= request.deadline.date
      BY <1>1, <2>5 DEF SearchInv, NotBefore
    <2>7. ASSUME request.group, now.date = asked.date, now.time + 60 * s.duration < Day
          PROVE  s.time + 60 > asked.time + 60 * s.duration
      <3>1. 1 \in 1 .. Len(request.users)
        <4>1. Len(request.users) \in Nat /\ Len(request.users) >= 1
          BY <1>1, <2>1, RequestUsers DEF SearchInv, Asking, TypeOK
        <4> QED  BY <4>1
      <3>2. AheadOf(t)
        BY <1>1, <2>1, <2>7, <3>1 DEF SearchInv, Examinations, Examined
      <3>3. asked.time + 60 * t.duration <= t.time
        BY <2>5, <2>7, <3>2 DEF AheadOf
      <3>4. t.time % 60 \in 0 .. 59
        BY <2>4, Minutes
      <3>5. asked.time \in Int /\ 60 * t.duration \in Int
        <4>1. asked.time \in Int
          BY <1>1, ClockTypes DEF SearchInv
        <4>2. 60 * t.duration \in Int
          BY <2>4
        <4> QED  BY <4>1, <4>2
      <3> QED  BY <2>4, <2>5, <3>3, <3>4, <3>5
    <2> QED  BY <2>6, <2>7
  <1> QED  BY <1>1, SearchAlways, PTL
=============================================================================
