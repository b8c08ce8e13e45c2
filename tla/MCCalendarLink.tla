---------------------------- MODULE MCCalendarLink ----------------------------
(* A small instance of CalendarLink: one booking, two connections with a       *)
(* calendar each, and requests that race.                                      *)
EXTENDS CalendarLink, TLC

MCSymmetry == Permutations(Events) \cup Permutations(Requests)
==============================================================================
