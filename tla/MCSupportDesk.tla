---------------------------- MODULE MCSupportDesk ----------------------------
(* A small instance of SupportDesk: two mails of one thread.                  *)
EXTENDS SupportDesk

CONSTANT oneThread
MCThreadOf == [m \in Mails |-> oneThread]
==============================================================================
