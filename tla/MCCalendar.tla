---------------------------- MODULE MCCalendar ----------------------------
EXTENDS Calendar

at(date, hour, minute) == [date |-> date, time |-> 3600 * hour + 60 * minute]
event(date, hour, minute, duration) ==
    [date |-> date, time |-> 3600 * hour + 60 * minute, duration |-> duration]

TwoMembers == <<"ann", "bob">>

(* Around the middle of a day, at 16:00 on the days that a search chooses, *)
(* and past midnight.                                                      *)
SomeEvents == {event(1, 13, 0, 120), event(1, 23, 30, 60), event(2, 12, 0, 480),
               event(2, 16, 0, 60)}
SomeClocks == {at(1, 9, 0), at(1, 14, 30), at(2, 0, 10)}
OneClock == {at(1, 9, 0)}
SomeDeadlines == {at(1, 18, 0), at(2, 20, 0), at(3, 12, 0)}
=============================================================================
