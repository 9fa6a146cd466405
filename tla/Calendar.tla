------------------------------ MODULE Calendar ------------------------------
(***************************************************************************)
(* The search for free times: suggest_user_events and                      *)
(* suggest_group_events of worker_node.cpp, with the arithmetic of         *)
(* event_struct.cpp.                                                       *)
(*                                                                         *)
(* A worker asks the database for the events of one member after another,  *)
(* proposes times between them, and then asks again, member by member and  *)
(* time by time, whether the time suits.  Meanwhile the clock moves on and *)
(* other workers add events.                                               *)
(*                                                                         *)
(* Dates are day numbers (QDate), times of day seconds (QTime, whose       *)
(* milliseconds are left out), durations minutes.                          *)
(***************************************************************************)
EXTENDS Integers, Sequences, FiniteSets, Functions

CONSTANTS
    Members,    \* users of the group, in the order the database lists them
    Events,     \* events that may be in a calendar
    Clocks,     \* moments the worker's clock may show
    Deadlines,  \* deadlines a client may ask for
    Lengths,    \* durations a client may ask for
    Garbage,    \* values the memory of an uninitialised int may have
    MaxEvents   \* bound: events added in a behaviour

Day == 86400
TimesOfDay == 0 .. Day - 1

ASSUME MembersAssumption == Members \in Seq(STRING)
ASSUME EventsAssumption ==
    /\ Events \subseteq [date : Int, time : TimesOfDay, duration : 0 .. 1439]
    /\ IsFiniteSet(Events)
ASSUME ClockAssumption == Clocks \subseteq [date : Int, time : TimesOfDay]
ASSUME RequestAssumption ==
    Deadlines \subseteq [date : Int, time : TimesOfDay] /\ Lengths \subseteq Int
ASSUME GarbageAssumption == Garbage \subseteq Int
ASSUME BoundAssumption == MaxEvents \in Nat

Users == {Members[i] : i \in DOMAIN Members}

-----------------------------------------------------------------------------
(* event_struct.cpp.                                                      *)

AddSecs(time, seconds) == (time + seconds) % Day
FinishTime(e) == AddSecs(e.time, 60 * e.duration)

(* A wrong form: whether e2 starts during e1 is not asked. *)
StartsDuring(e1, e2) ==
    e1.date = e2.date /\ e1.time > e2.time /\ e1.time <= FinishTime(e2)

check_overlap(e1, e2) ==
    /\ e1.date = e2.date
    /\ \/ e1.time > e2.time /\ e1.time <= FinishTime(e2)
       \/ e2.time > e1.time /\ e2.time <= FinishTime(e1)

SameStart(e1, e2) == e1.date = e2.date /\ e1.time = e2.time

(* Wrong forms: the new event starts in the middle of the gap; a failure   *)
(* is not reported, and the caller takes the blank event.                  *)
StartsInTheMiddle(list, x, d) ==
    LET e1  == list[x]
        gap == list[x + 1].time - FinishTime(e1)
    IN  IF gap < 60 * d THEN {}
        ELSE {[date |-> e1.date, time |-> AddSecs(FinishTime(e1), gap \div 2), duration |-> d]}
FailureNotReported(list, x, d) ==
    IF list[x + 1].time - FinishTime(list[x]) < 60 * d
    THEN {[date |-> 0, time |-> -1, duration |-> d]} ELSE StartsInTheMiddle(list, x, d)

(* The event found between two neighbours of the list, if one is found.    *)
(* Two dates that are not more than a day apart, or in the wrong order,    *)
(* are taken for one day.                                                  *)
schedule_between(list, x, d) ==
    LET e1     == list[x]
        e2     == list[x + 1]
        days   == e2.date - e1.date
        gap    == e2.time - FinishTime(e1)
        middle == AddSecs(FinishTime(e1), gap \div 2)
    IN  {e \in {[date |-> e1.date + days \div 2, time |-> 16 * 3600, duration |-> d]} :
            days > 1}
        \cup
        {e \in {[date |-> e1.date, time |-> AddSecs(middle, -30 * d), duration |-> d]} :
            /\ days <= 1 /\ gap >= 60 * d
            /\ \A y \in DOMAIN list : ~SameStart(e, list[y])}

-----------------------------------------------------------------------------
VARIABLES
    events,       \* each user's calendar in the database
    now,          \* the worker's clock
    phase,        \* idle, suggest, validate, answered
    request,      \* deadline, duration and the users asked for
    user,         \* how many of those users have been dealt with in this phase
    group_times,  \* the times still proposed
    unchecked,    \* those not yet checked for the present user
    answer,       \* the times as they are written to the client
    asked,        \* history: clock at the request
    late          \* history: events added after their owner's check began

vars == <<events, now, phase, request, user, group_times, unchecked, answer, asked, late>>

Phases == {"idle", "suggest", "validate", "answered"}
Times == [date : Int, time : TimesOfDay, duration : Int]
Requests == [users : {Members} \cup {<<u>> : u \in Users}, group : BOOLEAN,
             deadline : Deadlines, duration : Lengths]
NoRequest == [users |-> <<>>]

(* Every variable keeps to the values the code can store in it; a blank    *)
(* event is never among the times.                                         *)
TypeOK ==
    /\ events \in [Users -> SUBSET Events] /\ now \in Clocks /\ asked \in Clocks
    /\ phase \in Phases
    /\ request \in Requests \cup {NoRequest} /\ (phase = "idle" <=> request = NoRequest)
    /\ user \in 0 .. Len(request.users)
    /\ group_times \subseteq Times /\ unchecked \subseteq Times /\ answer \subseteq Times
    /\ late \subseteq Users \X Events

Init ==
    /\ events = [u \in Users |-> {}] /\ now \in Clocks
    /\ phase = "idle" /\ request = NoRequest /\ user = 0
    /\ group_times = {} /\ unchecked = {} /\ answer = {} /\ asked = now /\ late = {}

(* The client asks for itself, or for its group. *)
Ask(forGroup) ==
    /\ phase = "idle"
    /\ \E deadline \in Deadlines, d \in Lengths,
          users \in (IF forGroup THEN {Members} ELSE {<<u>> : u \in Users}) :
           request' = [users |-> users, group |-> forGroup,
                       deadline |-> deadline, duration |-> d]
    /\ phase' = "suggest" /\ asked' = now
    /\ UNCHANGED <<events, now, user, group_times, unchecked, answer, late>>

(* suggest_event_times: the events from today up to the deadline, with the *)
(* present and the deadline, in whatever order the hash set lists them;    *)
(* the deadline's duration is never set.                                   *)
Known(u, garbage) ==
    {[date |-> now.date, time |-> now.time, duration |-> 0],
     [date |-> request.deadline.date, time |-> request.deadline.time, duration |-> garbage]}
    \cup {e \in events[u] : now.date <= e.date /\ e.date <= request.deadline.date}

Between(list) == UNION {schedule_between(list, x, request.duration) : x \in 1 .. Len(list) - 1}

Suggest ==
    /\ phase = "suggest" /\ user < Len(request.users)
    /\ \E garbage \in Garbage :
          LET known == Known(request.users[user + 1], garbage)
          IN  \E list \in Injection(1 .. Cardinality(known), known) :
                  group_times' = group_times \cup Between(list)
    /\ user' = user + 1
    /\ UNCHANGED <<events, now, phase, request, unchecked, answer, asked, late>>

(* The times are copied to a list, which is gone through for every user. *)
StartChecks ==
    /\ phase = "suggest" /\ request.group /\ user = Len(request.users)
    /\ phase' = "validate" /\ user' = 0 /\ unchecked' = group_times
    /\ UNCHANGED <<events, now, request, group_times, answer, asked, late>>

(* A wrong form: the clock is not asked. *)
NoOverlap(u, event) ==
    \A e \in events[u] : e.date >= now.date => ~check_overlap(event, e)

(* is_valid_for_user compares times of day, on whatever date. *)
is_valid_for_user(u, event) ==
    /\ AddSecs(now.time, 60 * event.duration) <= event.time
    /\ \A e \in events[u] : e.date >= now.date => ~check_overlap(event, e)

Present == request.users[user + 1]

(* A time found bad stays in the code's list and is checked again for the  *)
(* next users, which changes nothing: the set only gets smaller.           *)
Check(t) ==
    /\ phase = "validate" /\ user < Len(request.users) /\ t \in unchecked
    /\ unchecked' = unchecked \ {t}
    /\ group_times' = IF is_valid_for_user(Present, t) THEN group_times ELSE group_times \ {t}
    /\ UNCHANGED <<events, now, phase, request, user, answer, asked, late>>

NextUser ==
    /\ phase = "validate" /\ user < Len(request.users) /\ unchecked = {}
    /\ user' = user + 1 /\ unchecked' = group_times
    /\ UNCHANGED <<events, now, phase, request, group_times, answer, asked, late>>

(* The client is written the hours and minutes. *)
Shown(t) == [t EXCEPT !.time = @ - (@ % 60)]

Reply ==
    /\ \/ phase = "validate"
       \/ phase = "suggest" /\ ~request.group
    /\ user = Len(request.users)
    /\ phase' = "answered" /\ answer' = {Shown(t) : t \in group_times}
    /\ UNCHANGED <<events, now, request, user, group_times, unchecked, asked, late>>

-----------------------------------------------------------------------------
(* What happens around the worker.                                        *)

CheckBegun(u) ==
    \/ phase = "answered"
    \/ phase = "validate" /\ \E i \in 1 .. user + 1 : i <= Len(request.users) /\ request.users[i] = u

AddEvent(u, e) ==
    /\ e \notin events[u]
    /\ Cardinality({p \in Users \X Events : p[2] \in events[p[1]]}) < MaxEvents
    /\ events' = [events EXCEPT ![u] = @ \cup {e}]
    /\ late' = IF CheckBegun(u) THEN late \cup {<<u, e>>} ELSE late
    /\ UNCHANGED <<now, phase, request, user, group_times, unchecked, answer, asked>>

Later(c, d) == c.date > d.date \/ (c.date = d.date /\ c.time > d.time)

Tick ==
    /\ \E c \in Clocks : Later(c, now) /\ now' = c
    /\ UNCHANGED <<events, phase, request, user, group_times, unchecked, answer, asked, late>>

Next ==
    \/ \E forGroup \in BOOLEAN : Ask(forGroup)
    \/ Suggest \/ StartChecks \/ NextUser \/ Reply
    \/ \E t \in unchecked : Check(t)
    \/ \E u \in Users, e \in Events : AddEvent(u, e)
    \/ Tick

Spec == Init /\ [][Next]_vars

-----------------------------------------------------------------------------
(* What the answer is worth.                                              *)

Start(e) == Day * e.date + e.time
Finish(e) == Start(e) + 60 * e.duration
Conflict(e1, e2) == Start(e1) < Finish(e2) /\ Start(e2) < Finish(e1)
PassesMidnight(e) == e.time + 60 * e.duration >= Day

OfMembers == {p \in Users \X Events : p[2] \in events[p[1]]}

(* No time written to a group conflicts with an event that any member had  *)
(* when the member was checked, but for what the comparison cannot see:    *)
(* the same start, an end after midnight, a day gone by, an event that     *)
(* does not start on a full minute.                                        *)
GroupTimesClear ==
    request # NoRequest /\ request.group =>
        \A t \in answer, p \in OfMembers :
            Conflict(t, p[2]) =>
                \/ p \in late \/ t.time = p[2].time \/ t.date < now.date
                \/ PassesMidnight(t) \/ PassesMidnight(p[2]) \/ p[2].time % 60 # 0

(* A time on the day of the request leaves the members as long as the      *)
(* event lasts, if the day is not over; no time is on an earlier day than  *)
(* the request and its deadline.                                           *)
AnswerIsAhead ==
    \A t \in answer :
        /\ t.date >= asked.date \/ t.date >= request.deadline.date
        /\ request.group /\ now.date = asked.date /\ now.time + 60 * t.duration < Day
               => t.time + 60 > asked.time + 60 * t.duration

(* A time proposed is 16:00 on a day between two dates, or it lies within  *)
(* the time of day between the end of one known event and the start of     *)
(* another.                                                                *)
FitsAGap(t, known) ==
    \E e1, e2 \in known :
        \/ e2.date - e1.date > 1 /\ e1.date < t.date /\ t.date < e2.date /\ t.time = 16 * 3600
        \/ /\ t.date = e1.date
           /\ FinishTime(e1) <= t.time /\ t.time + 60 * t.duration <= e2.time
ProposalsFit ==
    [][phase = "suggest" /\ phase' = "suggest" =>
          \A t \in group_times' \ group_times :
              \E garbage \in Garbage : FitsAGap(t, Known(Present, garbage))]_vars

(* What the source says of the group's times: they work for everyone.      *)
GroupTimesWorkForEveryone ==
    request # NoRequest /\ request.group =>
        \A t \in answer, p \in OfMembers : Conflict(t, p[2]) => p \in late
=============================================================================
