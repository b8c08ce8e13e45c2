---------------------------- MODULE MCCalendarSync ----------------------------
(* A small instance of CalendarSync: an ordinary event and a booking's own.    *)
EXTENDS CalendarSync
==============================================================================
