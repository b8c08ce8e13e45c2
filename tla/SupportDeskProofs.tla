-------------------------- MODULE SupportDeskProofs --------------------------
(***************************************************************************)
(* Proofs about SupportDesk, for any mails, threads, tickets, requests and  *)
(* decisions: a mail is filed once, the mails of a thread in one ticket,    *)
(* and a ticket waits for the side that did not write last, each with the   *)
(* exceptions the property names.                                           *)
(***************************************************************************)
EXTENDS SupportDesk, SequenceTheorems, TLAPS

------------------------------------------------------------------------------
(* Types, and what a request has at its statement.                         *)

RequestState == [pc : PCs, kind : Kinds, mail : Mails \cup {Nil},
                 ticket : Tickets \cup {Nil}, seen : TicketStatuses \cup {"none"}]

\* A request that files a mail has one; a message and a decision name a ticket.
Knows(x) ==
    /\ x \in RequestState
    /\ x.kind = "mail" /\ x.pc # "idle" => x.mail \in Mails
    /\ x.kind # "mail" => x.mail = Nil
    /\ x.pc \in {"insert", "find", "create", "finish"} => x.kind = "mail"
    /\ x.pc = "status" <=> x.kind \in Decisions
    /\ x.pc \in {"read", "write", "finish", "status"} => x.ticket \in Tickets

\* A ticket that a mail or a request has exists.
TicketsExist ==
    /\ \A r \in Requests : request[r].pc \in {"read", "write", "finish", "status"} =>
           ticket[request[r].ticket] # "none"
    /\ \A m \in Mails : inbound[m].ticket # Nil => ticket[inbound[m].ticket] # "none"

TypeInv ==
    /\ TypeOK
    /\ filed \in [Mails -> Seq(Tickets)]
    /\ \A r \in Requests : Knows(request[r])
    /\ TicketsExist

LEMMA Blank ==
    ASSUME SupportAssumption
    PROVE  Knows(Idle)
BY DEF SupportAssumption, Knows, Idle, RequestState, PCs, Kinds, TicketStatuses

\* A message aims at one of the two sides, a decision at itself.
LEMMA Aims ==
    ASSUME SupportAssumption
    PROVE  /\ Aim("mail") = "pending_operator" /\ Aim("customer") = "pending_operator"
           /\ Aim("operator") = "pending_customer"
           /\ \A d \in Decisions : Aim(d) = d
           /\ \A k \in Kinds : Aim(k) \in TicketStatuses
BY DEF SupportAssumption, Aim, Kinds, TicketStatuses

LEMMA TypeInit ==
    ASSUME SupportAssumption, Init
    PROVE  TypeInv
<1>1. \A r \in Requests : request[r] = Idle
  BY DEF Init
<1>2. request \in [Requests -> RequestState]
  BY <1>1, Blank DEF Init, Knows
<1>3. TypeOK
  BY <1>2, SupportAssumption DEF Init, TypeOK, RequestState, Range, SupportAssumption
<1>4. filed \in [Mails -> Seq(Tickets)]
  BY DEF Init
<1> QED BY <1>1, <1>3, <1>4, Blank DEF Init, TypeInv, TicketsExist, Idle

\* What a step does to the other requests, and to the rows it does not write.
LEMMA TypeNext ==
    ASSUME SupportAssumption, TypeInv, [Next]_vars
    PROVE  TypeInv'
<1> USE DEF TypeInv
<1>t. /\ request \in [Requests -> RequestState]
      /\ \A r \in Requests : Knows(request[r])
  BY DEF TypeOK, RequestState
<1>a. ASSUME NEW r \in Requests, NEW x, Knows(x), request' = [request EXCEPT ![r] = x]
      PROVE  request' \in [Requests -> RequestState] /\ \A q \in Requests : Knows(request'[q])
  BY <1>t, <1>a DEF Knows
<1>b. ASSUME NEW r \in Requests, Return(r)
      PROVE  /\ request' \in [Requests -> RequestState]
             /\ \A q \in Requests : Knows(request'[q])
             /\ request'[r] = Idle
             /\ \A q \in Requests \ {r} : request'[q] = request[q]
  BY <1>t, <1>b, <1>a, Blank DEF Return
<1>1. ASSUME NEW r \in Requests, NEW m \in Mails, Deliver(r, m)
      PROVE  TypeInv'
  <2> DEFINE x == [Idle EXCEPT !.pc = "insert", !.mail = m]
  <2>1. Knows(x) /\ x.pc = "insert"
    BY SupportAssumption DEF SupportAssumption, Knows, Idle, RequestState, PCs, Kinds, TicketStatuses
  <2>2. request' = [request EXCEPT ![r] = x]
    BY <1>1 DEF Deliver
  <2> HIDE DEF x
  <2>3. request' \in [Requests -> RequestState] /\ \A q \in Requests : Knows(request'[q])
    BY <2>1, <2>2, <1>a
  <2>4. TicketsExist'
    BY <2>1, <2>2, <1>1, <1>t DEF Deliver, rowVars, TicketsExist
  <2> QED BY <1>1, <2>3, <2>4 DEF Deliver, TypeOK, RequestState, rowVars, historyVars
<1>2. ASSUME NEW r \in Requests, InsertInbound(r)
      PROVE  TypeInv'
  <2> DEFINE m == request[r].mail
  <2>1. m \in Mails
    BY <1>2, <1>t DEF InsertInbound, Knows
  <2>2. /\ request' \in [Requests -> RequestState]
        /\ \A q \in Requests : Knows(request'[q])
        /\ request'[r].pc \in {"find", "idle"}
        /\ \A q \in Requests \ {r} : request'[q] = request[q]
    <3>1. CASE Return(r)
      BY <3>1, <1>b DEF Idle
    <3>2. CASE Goto(r, "find")
      <4> DEFINE y == request[r]
                 x == [y EXCEPT !.pc = "find"]
      <4>1. Knows(y) /\ y.pc = "insert"
        BY <1>2, <1>t DEF InsertInbound
      <4>2. request' = [request EXCEPT ![r] = x]
        BY <3>2 DEF Goto
      <4> HIDE DEF y
      <4>3. Knows(x) /\ x.pc = "find"
        BY <4>1, SupportAssumption DEF SupportAssumption, Knows, RequestState, PCs
      <4> HIDE DEF x
      <4> QED BY <4>2, <4>3, <1>a, <1>t
    <3> QED BY <1>2, <3>1, <3>2 DEF InsertInbound
  <2>3. /\ inbound' \in [Mails -> [status : {"none", "received", "processed", "failed"},
                                   ticket : Tickets \cup {Nil}]]
        /\ \A n \in Mails : inbound'[n].ticket = inbound[n].ticket
        /\ \A n \in Mails : inbound'[n].status = "processed" => inbound[n].status = "processed"
        /\ accepted' \subseteq Mails
    <3>1. CASE inbound[m].status = "none"
      <4>1. inbound' = [inbound EXCEPT ![m].status = "received"] /\ accepted' = accepted
        BY <1>2, <3>1 DEF InsertInbound
      <4> HIDE DEF m
      <4> QED BY <2>1, <4>1 DEF TypeOK
    <3>2. CASE inbound[m].status # "none"
      BY <1>2, <2>1, <3>2 DEF InsertInbound, TypeOK
    <3> QED BY <3>1, <3>2
  <2>4. TicketsExist'
    BY <2>2, <2>3, <1>2 DEF InsertInbound, TicketsExist
  <2> QED BY <1>2, <2>2, <2>3, <2>4 DEF InsertInbound, TypeOK, RequestState, historyVars
<1>3. ASSUME NEW r \in Requests, FindTicket(r)
      PROVE  TypeInv'
  <2> DEFINE y == request[r]
  <2>1. Knows(y) /\ y.pc = "find" /\ y.kind = "mail" /\ y.mail \in Mails
    BY <1>3, <1>t DEF FindTicket, Knows
  <2>2. /\ request' \in [Requests -> RequestState]
        /\ \A q \in Requests : Knows(request'[q])
        /\ TicketsExist'
    <3>1. CASE Goto(r, "create")
      <4> DEFINE x == [y EXCEPT !.pc = "create"]
      <4>1. request' = [request EXCEPT ![r] = x]
        BY <3>1 DEF Goto
      <4>2. Knows(x) /\ x.pc = "create"
        <5> HIDE DEF y
        <5> QED BY <2>1 DEF Knows, RequestState, PCs
      <4> HIDE DEF x, y
      <4>3. UNCHANGED <<ticket, inbound>>
        BY <1>3 DEF FindTicket, rowVars
      <4> QED BY <4>1, <4>2, <4>3, <1>a, <1>t DEF TicketsExist
    <3>2. ASSUME NEW m \in Mails, inbound[m].ticket # Nil,
                 request' = [request EXCEPT ![r].pc = "read", ![r].ticket = inbound[m].ticket]
          PROVE  /\ request' \in [Requests -> RequestState]
                 /\ \A q \in Requests : Knows(request'[q])
                 /\ TicketsExist'
      <4> DEFINE t == inbound[m].ticket
                 x == [y EXCEPT !.pc = "read", !.ticket = t]
      <4>1. request' = [request EXCEPT ![r] = x]
        BY <3>2
      <4>2. t \in Tickets /\ ticket[t] # "none"
        BY <3>2 DEF TypeOK, TicketsExist
      <4>3. Knows(x) /\ x.pc = "read" /\ x.ticket = t
        <5> HIDE DEF y, t
        <5> QED BY <2>1, <4>2 DEF Knows, RequestState, PCs
      <4> HIDE DEF x, y, t
      <4>4. UNCHANGED <<ticket, inbound>>
        BY <1>3 DEF FindTicket, rowVars
      <4> QED BY <4>1, <4>2, <4>3, <4>4, <1>a, <1>t DEF TicketsExist
    <3> QED BY <1>3, <3>1, <3>2 DEF FindTicket, IsLatest, Linked
  <2>3. split' \subseteq {ThreadOf[m] : m \in Mails}
    BY <1>3, <2>1 DEF FindTicket, TypeOK
  <2> QED BY <1>3, <2>2, <2>3 DEF FindTicket, TypeOK, RequestState, rowVars
<1>4. ASSUME NEW r \in Requests, CreateTicket(r)
      PROVE  TypeInv'
  <2> DEFINE y == request[r]
             x == [y EXCEPT !.pc = "read", !.ticket = NewTicket]
  <2>1. Knows(y) /\ y.pc = "create"
    BY <1>4, <1>t DEF CreateTicket
  <2>2. NewTicket \in Tickets /\ ticket[NewTicket] = "none"
    BY <1>4 DEF CreateTicket, NewTicket
  <2>3. request' = [request EXCEPT ![r] = x]
    BY <1>4 DEF CreateTicket
  <2>4. Knows(x) /\ x.pc = "read" /\ x.ticket = NewTicket
    <3> HIDE DEF y
    <3> QED BY <2>1, <2>2 DEF Knows, RequestState, PCs
  <2> HIDE DEF x, y
  <2>5. request' \in [Requests -> RequestState] /\ \A q \in Requests : Knows(request'[q])
    BY <2>3, <2>4, <1>a
  <2>6. /\ ticket' \in [Tickets -> TicketStatuses \cup {"none"}]
        /\ \A t \in Tickets : ticket[t] # "none" => ticket'[t] # "none"
        /\ ticket'[NewTicket] # "none"
    BY <1>4, <2>2 DEF CreateTicket, TypeOK, TicketStatuses
  <2>7. TicketsExist'
    <3>1. \A m \in Mails : inbound[m].ticket # Nil => inbound[m].ticket \in Tickets
      BY DEF TypeOK
    <3>2. \A q \in Requests : request[q].pc \in {"read", "write", "finish", "status"} =>
              request[q].ticket \in Tickets
      BY <1>t DEF Knows
    <3>3. inbound' = inbound
      BY <1>4 DEF CreateTicket
    <3> QED BY <3>1, <3>2, <3>3, <2>3, <2>4, <2>6, <1>t DEF TicketsExist
  <2> QED BY <1>4, <2>5, <2>6, <2>7 DEF CreateTicket, TypeOK, RequestState, historyVars
<1>5. ASSUME NEW r \in Requests, MarkProcessed(r)
      PROVE  TypeInv'
  <2> DEFINE m == request[r].mail
             t == request[r].ticket
  <2>1. m \in Mails /\ t \in Tickets /\ ticket[t] # "none" /\ t # Nil
    BY <1>5, <1>t, SupportAssumption DEF MarkProcessed, Knows, TicketsExist, SupportAssumption
  <2>2. /\ inbound' \in [Mails -> [status : {"none", "received", "processed", "failed"},
                                   ticket : Tickets \cup {Nil}]]
        /\ inbound'[m] = [status |-> "processed", ticket |-> t]
        /\ \A n \in Mails \ {m} : inbound'[n] = inbound[n]
    BY <1>5, <2>1 DEF MarkProcessed, TypeOK
  <2>3. /\ request' \in [Requests -> RequestState]
        /\ \A q \in Requests : Knows(request'[q])
        /\ request'[r].pc = "idle"
        /\ \A q \in Requests \ {r} : request'[q] = request[q]
    BY <1>5, <1>b DEF MarkProcessed, Idle
  <2>4. TicketsExist'
    BY <1>5, <2>1, <2>2, <2>3 DEF MarkProcessed, TicketsExist
  <2>5. accepted' \subseteq Mails
    BY <1>5, <2>1 DEF MarkProcessed, TypeOK
  <2>6. \A n \in Mails : inbound'[n].status = "processed" => inbound'[n].ticket # Nil
    BY <2>1, <2>2 DEF TypeOK
  <2> QED BY <1>5, <2>2, <2>3, <2>4, <2>5, <2>6 DEF MarkProcessed, TypeOK, RequestState, historyVars
<1>6. ASSUME NEW r \in Requests, NEW t \in Tickets, NEW author \in {"customer", "operator"},
             AddMessage(r, t, author)
      PROVE  TypeInv'
  <2> DEFINE x == [Idle EXCEPT !.pc = "read", !.kind = author, !.ticket = t]
  <2>1. Knows(x) /\ x.ticket = t
    BY SupportAssumption DEF SupportAssumption, Knows, Idle, RequestState, PCs, Kinds, TicketStatuses
  <2>2. request' = [request EXCEPT ![r] = x]
    BY <1>6 DEF AddMessage
  <2> HIDE DEF x
  <2>3. request' \in [Requests -> RequestState] /\ \A q \in Requests : Knows(request'[q])
    BY <2>1, <2>2, <1>a
  <2>4. TicketsExist'
    BY <2>1, <2>2, <1>6, <1>t DEF AddMessage, rowVars, TicketsExist
  <2> QED BY <1>6, <2>3, <2>4 DEF AddMessage, TypeOK, RequestState, rowVars, historyVars
<1>7. ASSUME NEW r \in Requests, ReadTicket(r)
      PROVE  TypeInv'
  <2> DEFINE y == request[r]
             x == [y EXCEPT !.pc = "write", !.seen = ticket[y.ticket]]
  <2>1. Knows(y) /\ y.pc = "read" /\ y.ticket \in Tickets /\ ticket[y.ticket] # "none"
    BY <1>7, <1>t DEF ReadTicket, Knows, TicketsExist
  <2>2. request' = [request EXCEPT ![r] = x]
    BY <1>7 DEF ReadTicket
  <2>3. Knows(x) /\ x.ticket = y.ticket
    <3>1. ticket[y.ticket] \in TicketStatuses \cup {"none"}
      BY <2>1 DEF TypeOK
    <3> HIDE DEF y
    <3> QED BY <2>1, <3>1 DEF Knows, RequestState, PCs
  <2>4. request' \in [Requests -> RequestState] /\ \A q \in Requests : Knows(request'[q])
    BY <2>2, <2>3, <1>a
  <2> HIDE DEF x
  <2>5. TicketsExist'
    BY <2>1, <2>2, <2>3, <1>7, <1>t DEF ReadTicket, rowVars, TicketsExist
  <2>6. turn' \in [Tickets -> {"any", "raced", "pending_operator", "pending_customer"}]
    BY <1>7 DEF ReadTicket, TypeOK
  <2> QED BY <1>7, <2>4, <2>5, <2>6 DEF ReadTicket, TypeOK, RequestState, rowVars
<1>8. ASSUME NEW r \in Requests, PersistMessage(r)
      PROVE  TypeInv'
  <2> DEFINE y == request[r]
  <2>1. /\ Knows(y) /\ y.pc = "write" /\ y.ticket \in Tickets
        /\ y.kind \in {"mail", "customer", "operator"}
        /\ y.kind = "mail" => y.mail \in Mails
    BY <1>8, <1>t DEF PersistMessage, Knows, RequestState, Kinds
  <2>2. Aim(y.kind) \in {"pending_operator", "pending_customer"}
    BY <2>1, Aims, SupportAssumption
  <2>3. /\ request' \in [Requests -> RequestState]
        /\ \A q \in Requests : Knows(request'[q])
        /\ request'[r].pc \in {"idle", "finish"}
        /\ request'[r].pc = "finish" => request'[r].ticket = y.ticket
        /\ \A q \in Requests \ {r} : request'[q] = request[q]
    <3>1. CASE y.kind = "mail"
      <4> DEFINE x == [y EXCEPT !.pc = "finish", !.seen = "none"]
      <4>1. request' = [request EXCEPT ![r] = x]
        BY <1>8, <3>1 DEF PersistMessage
      <4>2. Knows(x) /\ x.pc = "finish" /\ x.ticket = y.ticket
        <5> HIDE DEF y
        <5> QED BY <2>1, <3>1 DEF Knows, RequestState, PCs
      <4> HIDE DEF x
      <4> QED BY <4>1, <4>2, <1>a, <1>t
    <3>2. CASE y.kind # "mail"
      BY <1>8, <3>2, <1>b DEF PersistMessage, Idle
    <3> QED BY <3>1, <3>2
  <2>4. filed' \in [Mails -> Seq(Tickets)]
    <3>1. \A m \in Mails : Append(filed[m], y.ticket) \in Seq(Tickets)
      BY <2>1
    <3> QED BY <1>8, <2>1, <3>1 DEF PersistMessage
  <2>5. /\ ticket' \in [Tickets -> TicketStatuses \cup {"none"}]
        /\ turn' \in [Tickets -> {"any", "raced", "pending_operator", "pending_customer"}]
        /\ \A t \in Tickets : ticket[t] # "none" => ticket'[t] # "none"
    BY <1>8, <2>1, <2>2 DEF PersistMessage, TypeOK, TicketStatuses
  <2>6. TicketsExist'
    <3>1. \A m \in Mails : inbound[m].ticket # Nil => inbound[m].ticket \in Tickets
      BY DEF TypeOK
    <3>2. \A q \in Requests : request[q].pc \in {"read", "write", "finish", "status"} =>
              request[q].ticket \in Tickets
      BY <1>t DEF Knows
    <3>3. inbound' = inbound
      BY <1>8 DEF PersistMessage
    <3> QED BY <3>1, <3>2, <3>3, <2>1, <2>3, <2>5 DEF TicketsExist
  <2>7. \A m \in Mails : Range(filed'[m]) \subseteq Tickets
    BY <2>4 DEF Range
  <2> QED BY <1>8, <2>3, <2>4, <2>5, <2>6, <2>7 DEF PersistMessage, TypeOK, RequestState
<1>9. ASSUME NEW r \in Requests, NEW t \in Tickets, NEW status \in Decisions,
             ReadStatus(r, t, status)
      PROVE  TypeInv'
  <2> DEFINE x == [Idle EXCEPT !.pc = "status", !.kind = status, !.ticket = t]
  <2>1. Knows(x) /\ x.ticket = t
    BY SupportAssumption DEF SupportAssumption, Knows, Idle, RequestState, PCs, Kinds, TicketStatuses
  <2>2. request' = [request EXCEPT ![r] = x]
    BY <1>9 DEF ReadStatus
  <2> HIDE DEF x
  <2>3. request' \in [Requests -> RequestState] /\ \A q \in Requests : Knows(request'[q])
    BY <2>1, <2>2, <1>a
  <2>4. TicketsExist'
    BY <2>1, <2>2, <1>9, <1>t DEF ReadStatus, rowVars, TicketsExist
  <2>5. turn' \in [Tickets -> {"any", "raced", "pending_operator", "pending_customer"}]
    BY <1>9 DEF ReadStatus, TypeOK
  <2> QED BY <1>9, <2>3, <2>4, <2>5 DEF ReadStatus, TypeOK, RequestState, rowVars
<1>10. ASSUME NEW r \in Requests, WriteStatus(r)
       PROVE  TypeInv'
  <2> DEFINE y == request[r]
  <2>1. y.pc = "status" /\ y.ticket \in Tickets /\ y.kind \in Decisions
    BY <1>10, <1>t DEF WriteStatus, Knows
  <2>2. y.kind \in TicketStatuses
    BY <2>1, SupportAssumption DEF SupportAssumption
  <2>3. /\ request' \in [Requests -> RequestState]
        /\ \A q \in Requests : Knows(request'[q])
        /\ request'[r].pc = "idle"
        /\ \A q \in Requests \ {r} : request'[q] = request[q]
    BY <1>10, <1>b DEF WriteStatus, Idle
  <2>4. /\ ticket' \in [Tickets -> TicketStatuses \cup {"none"}]
        /\ turn' \in [Tickets -> {"any", "raced", "pending_operator", "pending_customer"}]
        /\ \A t \in Tickets : ticket[t] # "none" => ticket'[t] # "none"
    BY <1>10, <2>1, <2>2 DEF WriteStatus, TypeOK, TicketStatuses
  <2>5. TicketsExist'
    <3>1. \A m \in Mails : inbound[m].ticket # Nil => inbound[m].ticket \in Tickets
      BY DEF TypeOK
    <3>2. \A q \in Requests : request[q].pc \in {"read", "write", "finish", "status"} =>
              request[q].ticket \in Tickets
      BY <1>t DEF Knows
    <3>3. inbound' = inbound
      BY <1>10 DEF WriteStatus
    <3> QED BY <3>1, <3>2, <3>3, <2>3, <2>4 DEF TicketsExist
  <2> QED BY <1>10, <2>3, <2>4, <2>5 DEF WriteStatus, TypeOK, RequestState
<1>11. ASSUME NEW r \in Requests, Fault, Splits(r), request[r].pc # "idle"
       PROVE  faults' \in 0..MaxFaults /\ split' \subseteq {ThreadOf[m] : m \in Mails}
  BY <1>11, <1>t, SupportAssumption DEF Fault, Splits, TypeOK, SupportAssumption, Knows
<1>12. ASSUME NEW r \in Requests, StatementThrows(r)
       PROVE  TypeInv'
  <2> DEFINE m == request[r].mail
  <2>1. /\ inbound' \in [Mails -> [status : {"none", "received", "processed", "failed"},
                                   ticket : Tickets \cup {Nil}]]
        /\ \A n \in Mails :
               \/ inbound'[n] = inbound[n]
               \/ inbound'[n].status = "failed" /\ inbound'[n].ticket = Nil
    <3>1. \/ inbound' = inbound
          \/ /\ inbound' = [inbound EXCEPT ![m] = [status |-> "failed", ticket |-> Nil]]
             /\ m \in Mails
      BY <1>12, <1>t DEF StatementThrows, Knows
    <3> HIDE DEF m
    <3>2. CASE inbound' = inbound
      BY <3>2 DEF TypeOK
    <3>3. CASE inbound' # inbound
      <4>1. \A n \in Mails : inbound'[n] = IF n = m THEN [status |-> "failed", ticket |-> Nil]
                                           ELSE inbound[n]
        BY <3>1, <3>3 DEF TypeOK
      <4> QED BY <3>1, <3>3, <4>1 DEF TypeOK
    <3> QED BY <3>2, <3>3
  <2>2. /\ request' \in [Requests -> RequestState]
        /\ \A q \in Requests : Knows(request'[q])
        /\ request'[r].pc = "idle"
        /\ \A q \in Requests \ {r} : request'[q] = request[q]
    BY <1>12, <1>b DEF StatementThrows, Idle
  <2>3. ticket' = ticket
    BY <1>12 DEF StatementThrows
  <2>4. TicketsExist'
    BY <2>1, <2>2, <2>3 DEF TicketsExist
  <2>5. faults' \in 0..MaxFaults /\ split' \subseteq {ThreadOf[n] : n \in Mails}
    BY <1>12, <1>11 DEF StatementThrows
  <2>6. \A n \in Mails : inbound'[n].status = "processed" => inbound'[n].ticket # Nil
    BY <2>1 DEF TypeOK
  <2> QED BY <1>12, <2>1, <2>2, <2>4, <2>5, <2>6 DEF StatementThrows, TypeOK, RequestState
<1>13. ASSUME NEW r \in Requests, Crash(r)
       PROVE  TypeInv'
  <2>1. /\ request' \in [Requests -> RequestState]
        /\ \A q \in Requests : Knows(request'[q])
        /\ request'[r].pc = "idle"
        /\ \A q \in Requests \ {r} : request'[q] = request[q]
    BY <1>13, <1>b DEF Crash, Idle
  <2>2. TicketsExist'
    BY <2>1, <1>13 DEF Crash, rowVars, TicketsExist
  <2>3. faults' \in 0..MaxFaults /\ split' \subseteq {ThreadOf[n] : n \in Mails}
    BY <1>13, <1>11 DEF Crash
  <2>4. died' \subseteq Mails
    BY <1>13, <1>t DEF Crash, TypeOK, Knows
  <2> QED BY <1>13, <2>1, <2>2, <2>3, <2>4 DEF Crash, TypeOK, RequestState, rowVars
<1>14. CASE UNCHANGED vars
  BY <1>14 DEF vars, rowVars, historyVars, TypeOK, TicketsExist
<1> QED BY <1>1, <1>2, <1>3, <1>4, <1>5, <1>6, <1>7, <1>8, <1>9, <1>10, <1>12, <1>13, <1>14
        DEF Next, Proceed

\* Every row and request keeps its type, whatever the numbers of mails and requests.
THEOREM TypeCorrect == ASSUME SupportAssumption PROVE Spec => []TypeOK
<1>1. Init => TypeInv
  BY TypeInit
<1>2. TypeInv /\ [Next]_vars => TypeInv'
  BY TypeNext
<1>3. TypeInv => TypeOK
  BY DEF TypeInv
<1> QED BY <1>1, <1>2, <1>3, PTL DEF Spec

------------------------------------------------------------------------------
(* What each action does to the requests.                                  *)

\* Only request r changes.
Keeps(r) == \A q \in Requests \ {r} : request'[q] = request[q]

\* Request r begins, or ends.
Began(r, pc, kind, m, t) ==
    /\ Keeps(r)
    /\ request'[r].pc = pc
    /\ request'[r].kind = kind
    /\ request'[r].mail = m
    /\ request'[r].ticket = t

\* Request r goes on, with what it knows now.
Moved(r, pc, t, seen) ==
    /\ Keeps(r)
    /\ request'[r].pc = pc
    /\ request'[r].kind = request[r].kind
    /\ request'[r].mail = request[r].mail
    /\ request'[r].ticket = t
    /\ request'[r].seen = seen

LEMMA Beginnings ==
    ASSUME SupportAssumption, TypeInv, NEW r \in Requests
    PROVE  /\ Return(r) => Began(r, "idle", "mail", Nil, Nil)
           /\ \A m \in Mails : Deliver(r, m) => Began(r, "insert", "mail", m, Nil)
           /\ \A t \in Tickets, a \in {"customer", "operator"} :
                  AddMessage(r, t, a) => Began(r, "read", a, Nil, t)
           /\ \A t \in Tickets, d \in Decisions :
                  ReadStatus(r, t, d) => Began(r, "status", d, Nil, t)
<1>1. DOMAIN request = Requests
  BY DEF TypeInv, TypeOK
<1>2. Return(r) => Began(r, "idle", "mail", Nil, Nil)
  BY <1>1 DEF Return, Began, Keeps, Idle
<1>3. ASSUME NEW m \in Mails, Deliver(r, m)
      PROVE  Began(r, "insert", "mail", m, Nil)
  BY <1>1, <1>3 DEF Deliver, Began, Keeps, Idle
<1>4. ASSUME NEW t \in Tickets, NEW a \in {"customer", "operator"}, AddMessage(r, t, a)
      PROVE  Began(r, "read", a, Nil, t)
  BY <1>1, <1>4 DEF AddMessage, Began, Keeps, Idle
<1>5. ASSUME NEW t \in Tickets, NEW d \in Decisions, ReadStatus(r, t, d)
      PROVE  Began(r, "status", d, Nil, t)
  BY <1>1, <1>5 DEF ReadStatus, Began, Keeps, Idle
<1> QED BY <1>2, <1>3, <1>4, <1>5

LEMMA Moves ==
    ASSUME SupportAssumption, TypeInv, NEW r \in Requests
    PROVE  /\ \A pc : Goto(r, pc) => Moved(r, pc, request[r].ticket, request[r].seen)
           /\ FindTicket(r) =>
                  \/ /\ Linked(ThreadOf[request[r].mail]) = {}
                     /\ Moved(r, "create", request[r].ticket, request[r].seen)
                  \/ \E m \in Linked(ThreadOf[request[r].mail]) :
                        Moved(r, "read", inbound[m].ticket, request[r].seen)
           /\ CreateTicket(r) => Moved(r, "read", NewTicket, request[r].seen)
           /\ ReadTicket(r) => Moved(r, "write", request[r].ticket, ticket[request[r].ticket])
           /\ PersistMessage(r) /\ request[r].kind = "mail" =>
                  Moved(r, "finish", request[r].ticket, "none")
<1> DEFINE y == request[r]
<1>1. request \in [Requests -> RequestState] /\ y \in RequestState
  BY DEF TypeInv, TypeOK, RequestState
<1>3. ASSUME NEW pc, Goto(r, pc)
      PROVE  Moved(r, pc, y.ticket, y.seen)
  BY <1>1, <1>3 DEF Goto, Moved, Keeps, RequestState
<1>4. ASSUME FindTicket(r), NEW m, request' = [request EXCEPT ![r].pc = "read", ![r].ticket = inbound[m].ticket]
      PROVE  Moved(r, "read", inbound[m].ticket, y.seen)
  BY <1>1, <1>4 DEF Moved, Keeps, RequestState
<1>5. FindTicket(r) =>
         \/ /\ Linked(ThreadOf[y.mail]) = {}
            /\ Moved(r, "create", y.ticket, y.seen)
         \/ \E m \in Linked(ThreadOf[y.mail]) : Moved(r, "read", inbound[m].ticket, y.seen)
  BY <1>3, <1>4 DEF FindTicket, IsLatest
<1>6. CreateTicket(r) => Moved(r, "read", NewTicket, y.seen)
  BY <1>1 DEF CreateTicket, Moved, Keeps, RequestState
<1>7. ReadTicket(r) => Moved(r, "write", y.ticket, ticket[y.ticket])
  BY <1>1 DEF ReadTicket, Moved, Keeps, RequestState
<1>8. PersistMessage(r) /\ y.kind = "mail" => Moved(r, "finish", y.ticket, "none")
  BY <1>1 DEF PersistMessage, Moved, Keeps, RequestState
<1> QED BY <1>3, <1>5, <1>6, <1>7, <1>8

------------------------------------------------------------------------------
(* A mail is filed once.                                                   *)

\* A request that works on a stored mail.
Works(x) == x.kind = "mail" /\ x.pc \notin {"idle", "insert"}

\* A stored mail is worked on by one request, which has filed it once it is at its
\* last statement and not before.
HasWork ==
    \A r \in Requests : Works(request[r]) =>
        /\ inbound[request[r].mail].status = "received"
        /\ request[r].pc = "finish" => filed[request[r].mail] = <<request[r].ticket>>
        /\ request[r].pc # "finish" => filed[request[r].mail] = << >>

OneWorker ==
    \A r, q \in Requests :
        Works(request[r]) /\ Works(request[q]) /\ request[r].mail = request[q].mail => r = q

\* What became of a mail shows in its row, and a mail is linked to the ticket it is
\* filed in.
RowInv ==
    \A m \in Mails :
        /\ filed[m] = << >> \/ \E t \in Tickets : filed[m] = <<t>>
        /\ inbound[m].status = "none" => filed[m] = << >> /\ m \notin accepted
        /\ inbound[m].status = "processed" => filed[m] = <<inbound[m].ticket>>
        /\ inbound[m].status # "processed" => inbound[m].ticket = Nil
        /\ inbound[m].status = "received" =>
               \/ filed[m] # << >>
               \/ m \in died
               \/ \E r \in Requests : Works(request[r]) /\ request[r].mail = m

FiledInv == HasWork /\ OneWorker /\ RowInv

LEMMA FiledInit ==
    ASSUME SupportAssumption, Init
    PROVE  FiledInv
BY DEF Init, FiledInv, HasWork, OneWorker, RowInv, Works, Idle

\* A step that files no mail and changes no mail's row keeps it.
LEMMA FiledKept ==
    ASSUME SupportAssumption, TypeInv, FiledInv, NEW r \in Requests, Keeps(r),
           UNCHANGED <<inbound, filed, accepted, died>>,
           Works(request[r]) <=> Works(request'[r]),
           Works(request[r]) => /\ request[r].mail = request'[r].mail
                                /\ request[r].pc # "finish" /\ request'[r].pc # "finish"
    PROVE  FiledInv'
<1>1. \A q \in Requests :
          /\ Works(request[q]) <=> Works(request'[q])
          /\ Works(request[q]) => request[q].mail = request'[q].mail
  BY DEF Keeps
<1>2. HasWork'
  <2>1. ASSUME NEW q \in Requests, Works(request'[q])
        PROVE  /\ inbound'[request'[q].mail].status = "received"
               /\ request'[q].pc = "finish" => filed'[request'[q].mail] = <<request'[q].ticket>>
               /\ request'[q].pc # "finish" => filed'[request'[q].mail] = << >>
    BY <1>1, <2>1 DEF FiledInv, HasWork, Keeps
  <2> QED BY <2>1 DEF HasWork
<1>3. OneWorker'
  BY <1>1 DEF FiledInv, OneWorker
<1>4. RowInv'
  BY <1>1 DEF FiledInv, RowInv
<1> QED BY <1>2, <1>3, <1>4 DEF FiledInv

LEMMA FiledNext ==
    ASSUME SupportAssumption, TypeInv, FiledInv, [Next]_vars
    PROVE  FiledInv'
<1> USE DEF TypeInv
<1>t. /\ request \in [Requests -> RequestState]
      /\ \A r \in Requests : Knows(request[r])
      /\ \A r \in Requests : Works(request[r]) => request[r].mail \in Mails
      /\ "mail" \notin Decisions /\ Nil \notin Mails
  BY SupportAssumption
     DEF TypeOK, RequestState, Knows, Works, SupportAssumption, TicketStatuses
<1>1. ASSUME NEW r \in Requests, NEW m \in Mails, Deliver(r, m)
      PROVE  FiledInv'
  BY <1>1, Beginnings, FiledKept DEF Deliver, Began, Works, rowVars, historyVars
<1>2. ASSUME NEW r \in Requests, InsertInbound(r)
      PROVE  FiledInv'
  <2> DEFINE m == request[r].mail
  <2>1. m \in Mails /\ ~Works(request[r]) /\ UNCHANGED <<filed, died>>
    BY <1>2, <1>t DEF InsertInbound, Knows, Works, historyVars
  <2>2. CASE inbound[m].status = "none"
    <3>1. /\ inbound' = [inbound EXCEPT ![m].status = "received"]
          /\ Moved(r, "find", request[r].ticket, request[r].seen)
          /\ accepted' = accepted
      BY <1>2, <2>2, Moves DEF InsertInbound
    <3>2. request'[r].mail = m /\ request'[r].pc = "find" /\ Keeps(r)
      BY <3>1 DEF Moved
    <3> HIDE DEF m
    <3>3. /\ inbound'[m].status = "received" /\ inbound'[m].ticket = inbound[m].ticket
          /\ \A n \in Mails \ {m} : inbound'[n] = inbound[n]
      BY <2>1, <3>1 DEF TypeOK
    <3>4. \A q \in Requests : Works(request[q]) => request[q].mail # m
      BY <2>2 DEF FiledInv, HasWork, OneWorker
    <3>5. filed[m] = << >> /\ m \notin accepted /\ inbound[m].ticket = Nil
      BY <2>1, <2>2 DEF FiledInv, RowInv
    <3>6. Works(request'[r])
      BY <1>2, <1>t, <3>1 DEF InsertInbound, Moved, Works, Knows
    <3>7a. OneWorker'
      BY <2>1, <3>2, <3>3, <3>4, <3>5, <1>t DEF FiledInv, OneWorker, Keeps
    <3>7. HasWork'
      BY <2>1, <3>2, <3>3, <3>4, <3>5, <1>t DEF FiledInv, HasWork, Keeps
    <3>8. RowInv'
      BY <2>1, <2>2, <3>1, <3>2, <3>3, <3>5, <3>6 DEF FiledInv, RowInv, Keeps
    <3> QED BY <3>7, <3>7a, <3>8 DEF FiledInv
  <2>3. CASE inbound[m].status # "none"
    <3>1. /\ Return(r) /\ inbound' = inbound /\ accepted' = accepted \cup {m}
      BY <1>2, <2>3 DEF InsertInbound
    <3>2. Keeps(r) /\ ~Works(request'[r])
      BY <3>1, Beginnings DEF Began, Works
    <3> HIDE DEF m
    <3>3a. OneWorker'
      BY <2>1, <3>1, <3>2 DEF FiledInv, OneWorker, Keeps
    <3>3. HasWork'
      BY <2>1, <3>1, <3>2 DEF FiledInv, HasWork, Keeps
    <3>4. RowInv'
      BY <2>1, <2>3, <3>1, <3>2 DEF FiledInv, RowInv, Keeps
    <3> QED BY <3>3, <3>3a, <3>4 DEF FiledInv
  <2> QED BY <2>2, <2>3
<1>3. ASSUME NEW r \in Requests, FindTicket(r)
      PROVE  FiledInv'
  <2>1. Keeps(r) /\ request'[r].pc \in {"create", "read"} /\ request'[r].kind = request[r].kind
        /\ request'[r].mail = request[r].mail
    BY <1>3, Moves DEF Moved
  <2>2. request[r].pc = "find" /\ UNCHANGED <<inbound, filed, accepted, died>>
    BY <1>3 DEF FindTicket, rowVars
  <2> QED BY <2>1, <2>2, FiledKept DEF Works
<1>4. ASSUME NEW r \in Requests, CreateTicket(r)
      PROVE  FiledInv'
  <2>1. Moved(r, "read", NewTicket, request[r].seen)
    BY <1>4, Moves
  <2>2. request[r].pc = "create" /\ UNCHANGED <<inbound, filed, accepted, died>>
    BY <1>4 DEF CreateTicket, historyVars
  <2> QED BY <2>1, <2>2, FiledKept DEF Works, Moved
<1>5. ASSUME NEW r \in Requests, MarkProcessed(r)
      PROVE  FiledInv'
  <2> DEFINE m == request[r].mail
             t == request[r].ticket
  <2>1. /\ m \in Mails /\ t \in Tickets /\ Works(request[r]) /\ request[r].pc = "finish"
        /\ UNCHANGED <<filed, died>>
        /\ accepted' = accepted \cup {m}
    BY <1>5, <1>t DEF MarkProcessed, Knows, Works, historyVars
  <2>2. Keeps(r) /\ ~Works(request'[r])
    BY <1>5, Beginnings DEF MarkProcessed, Began, Works
  <2>3. /\ inbound'[m] = [status |-> "processed", ticket |-> t]
        /\ \A n \in Mails \ {m} : inbound'[n] = inbound[n]
    BY <1>5, <2>1 DEF MarkProcessed, TypeOK
  <2>4. filed[m] = <<t>> /\ \A q \in Requests \ {r} : Works(request[q]) => request[q].mail # m
    BY <2>1 DEF FiledInv, HasWork, OneWorker
  <2> HIDE DEF m, t
  <2>5a. OneWorker'
    BY <2>1, <2>2, <2>3, <2>4, <1>t DEF FiledInv, OneWorker, Keeps
  <2>5. HasWork'
    BY <2>1, <2>2, <2>3, <2>4, <1>t DEF FiledInv, HasWork, Keeps
  <2>6. ASSUME NEW n \in Mails \ {m}, NEW q \in Requests, Works(request[q]), request[q].mail = n
        PROVE  Works(request'[q]) /\ request'[q].mail = n
    BY <2>2, <2>6 DEF Keeps, m
  <2>7. RowInv'
    BY <2>1, <2>2, <2>3, <2>4, <2>6 DEF FiledInv, RowInv
  <2> QED BY <2>5, <2>5a, <2>7 DEF FiledInv
<1>6. ASSUME NEW r \in Requests, NEW t \in Tickets, NEW author \in {"customer", "operator"},
             AddMessage(r, t, author)
      PROVE  FiledInv'
  <2>1. Began(r, "read", author, Nil, t)
    BY <1>6, Beginnings
  <2>2. request[r].pc = "idle" /\ UNCHANGED <<inbound, filed, accepted, died>>
    BY <1>6 DEF AddMessage, rowVars, historyVars
  <2> QED BY <2>1, <2>2, FiledKept DEF Works, Began
<1>7. ASSUME NEW r \in Requests, ReadTicket(r)
      PROVE  FiledInv'
  <2>1. Moved(r, "write", request[r].ticket, ticket[request[r].ticket])
    BY <1>7, Moves
  <2>2. request[r].pc = "read" /\ UNCHANGED <<inbound, filed, accepted, died>>
    BY <1>7 DEF ReadTicket, rowVars
  <2> QED BY <2>1, <2>2, FiledKept DEF Works, Moved
<1>8. ASSUME NEW r \in Requests, PersistMessage(r)
      PROVE  FiledInv'
  <2> DEFINE m == request[r].mail
             t == request[r].ticket
  <2>1. request[r].pc = "write" /\ t \in Tickets /\ UNCHANGED <<inbound, accepted, died>>
    BY <1>8, <1>t DEF PersistMessage, Knows
  <2>2. CASE request[r].kind = "mail"
    <3>1. Moved(r, "finish", t, "none") /\ Works(request[r]) /\ m \in Mails
      BY <1>8, <2>1, <2>2, <1>t, Moves DEF Works
    <3>2. Keeps(r) /\ Works(request'[r]) /\ request'[r].mail = m /\ request'[r].pc = "finish"
          /\ request'[r].ticket = t
      BY <2>2, <3>1 DEF Moved, Works
    <3>3. /\ filed'[m] = Append(filed[m], t)
          /\ \A n \in Mails \ {m} : filed'[n] = filed[n]
      BY <1>8, <2>2, <3>1 DEF PersistMessage
    <3>4. filed[m] = << >> /\ \A q \in Requests \ {r} : Works(request[q]) => request[q].mail # m
      BY <2>1, <3>1 DEF FiledInv, HasWork, OneWorker
    <3>5. inbound[m].status = "received"
      BY <3>1 DEF FiledInv, HasWork, OneWorker
    <3> HIDE DEF m, t
    <3>6. filed'[m] = <<t>>
      BY <3>3, <3>4, <2>1
    <3>7a. OneWorker'
      BY <2>1, <3>2, <3>3, <3>4, <3>5, <3>6, <1>t DEF FiledInv, OneWorker, Keeps
    <3>7. HasWork'
      BY <2>1, <3>2, <3>3, <3>4, <3>5, <3>6, <1>t DEF FiledInv, HasWork, Keeps
    <3>8. RowInv'
      BY <2>1, <3>2, <3>3, <3>5, <3>6 DEF FiledInv, RowInv, Keeps, m
    <3> QED BY <3>7, <3>7a, <3>8 DEF FiledInv
  <2>3. CASE request[r].kind # "mail"
    <3>1. Return(r) /\ filed' = filed
      BY <1>8, <2>3 DEF PersistMessage
    <3>2. Began(r, "idle", "mail", Nil, Nil)
      BY <3>1, Beginnings
    <3> QED BY <2>1, <2>3, <3>1, <3>2, FiledKept DEF Works, Began
  <2> QED BY <2>2, <2>3
<1>9. ASSUME NEW r \in Requests, NEW t \in Tickets, NEW status \in Decisions,
             ReadStatus(r, t, status)
      PROVE  FiledInv'
  <2>1. Began(r, "status", status, Nil, t)
    BY <1>9, Beginnings
  <2>2. request[r].pc = "idle" /\ UNCHANGED <<inbound, filed, accepted, died>>
    BY <1>9 DEF ReadStatus, rowVars
  <2> QED BY <2>1, <2>2, FiledKept, <1>t DEF Works, Began
<1>10. ASSUME NEW r \in Requests, WriteStatus(r)
       PROVE  FiledInv'
  <2>1. Began(r, "idle", "mail", Nil, Nil)
    BY <1>10, Beginnings DEF WriteStatus
  <2>2. request[r].kind \in Decisions /\ UNCHANGED <<inbound, filed, accepted, died>>
    BY <1>10, <1>t DEF WriteStatus, Knows
  <2> QED BY <2>1, <2>2, FiledKept, <1>t DEF Works, Began
<1>11. ASSUME NEW r \in Requests, StatementThrows(r)
       PROVE  FiledInv'
  <2> DEFINE m == request[r].mail
  <2>1. Keeps(r) /\ ~Works(request'[r]) /\ UNCHANGED <<filed, accepted, died>>
    BY <1>11, Beginnings DEF StatementThrows, Began, Works
  <2>2. CASE Works(request[r])
    <3>1. /\ inbound'[m] = [status |-> "failed", ticket |-> Nil] /\ m \in Mails
          /\ \A n \in Mails \ {m} : inbound'[n] = inbound[n]
      BY <1>11, <2>2, <1>t DEF StatementThrows, Works, TypeOK
    <3>2. /\ \A q \in Requests \ {r} : Works(request[q]) => request[q].mail # m
          /\ inbound[m].status = "received"
      BY <2>2 DEF FiledInv, HasWork, OneWorker
    <3> HIDE DEF m
    <3>3a. OneWorker'
      BY <2>1, <3>1, <3>2, <1>t DEF FiledInv, OneWorker, Keeps
    <3>3. HasWork'
      BY <2>1, <3>1, <3>2, <1>t DEF FiledInv, HasWork, Keeps
    <3>4. ASSUME NEW n \in Mails \ {m}, NEW q \in Requests, Works(request[q]), request[q].mail = n
          PROVE  Works(request'[q]) /\ request'[q].mail = n
      BY <2>1, <3>4 DEF Keeps, m
    <3>5. RowInv'
      BY <2>1, <3>1, <3>2, <3>4 DEF FiledInv, RowInv
    <3> QED BY <3>3, <3>3a, <3>5 DEF FiledInv
  <2>3. CASE ~Works(request[r])
    <3>1. inbound' = inbound
      BY <1>11, <2>3 DEF StatementThrows, Works
    <3> QED BY <2>1, <2>3, <3>1, FiledKept
  <2> QED BY <2>2, <2>3
<1>12. ASSUME NEW r \in Requests, Crash(r)
       PROVE  FiledInv'
  <2>1. Keeps(r) /\ ~Works(request'[r]) /\ UNCHANGED <<inbound, filed, accepted>>
    BY <1>12, Beginnings DEF Crash, Began, Works, rowVars
  <2>2. died' = IF Works(request[r]) THEN died \cup {request[r].mail} ELSE died
    BY <1>12 DEF Crash, Works
  <2>3a. OneWorker'
    BY <2>1 DEF FiledInv, OneWorker, Keeps
  <2>3. HasWork'
    BY <2>1 DEF FiledInv, HasWork, Keeps
  <2>4. ASSUME NEW n \in Mails, NEW q \in Requests, Works(request[q]), request[q].mail = n
        PROVE  n \in died' \/ (Works(request'[q]) /\ request'[q].mail = n)
    BY <2>1, <2>2, <2>4 DEF Keeps
  <2>5. died \subseteq died'
    BY <2>2
  <2>6. RowInv'
    BY <2>1, <2>4, <2>5 DEF FiledInv, RowInv
  <2> QED BY <2>3, <2>3a, <2>6 DEF FiledInv
<1>13. CASE UNCHANGED vars
  BY <1>13 DEF vars, rowVars, historyVars, FiledInv, HasWork, OneWorker, RowInv
<1> QED BY <1>1, <1>2, <1>3, <1>4, <1>5, <1>6, <1>7, <1>8, <1>9, <1>10, <1>11, <1>12, <1>13
        DEF Next, Proceed

LEMMA FiledAlways == ASSUME SupportAssumption PROVE Spec => [](TypeInv /\ FiledInv)
<1>1. Init => TypeInv /\ FiledInv
  BY TypeInit, FiledInit
<1>2. TypeInv /\ FiledInv /\ [Next]_vars => TypeInv' /\ FiledInv'
  BY TypeNext, FiledNext
<1> QED BY <1>1, <1>2, PTL DEF Spec

\* However many workers deliver it, and whatever fails, a mail is filed at most once,
\* and its sender is told of its acceptance only when that is sure or on record.
THEOREM FiledOnce == ASSUME SupportAssumption PROVE Spec => []MailsAreFiledOnce
<1>1. ASSUME TypeInv, FiledInv, NEW m \in Mails
      PROVE  /\ Len(filed[m]) <= 1
             /\ m \in accepted => \/ Len(filed[m]) = 1
                                  \/ InProgress(m)
                                  \/ inbound[m].status = "failed"
                                  \/ m \in died
  <2>0. Len(<< >>) = 0 /\ \A t \in Tickets \cup {Nil} : Len(<<t>>) = 1
    OBVIOUS
  <2>1. filed[m] = << >> \/ Len(filed[m]) = 1
    BY <1>1, <2>0 DEF FiledInv, RowInv
  <2>2. inbound[m].status \in {"none", "received", "processed", "failed"}
    BY <1>1 DEF TypeInv, TypeOK
  <2>3. inbound[m].status = "processed" => Len(filed[m]) = 1
    <3>1. inbound[m].ticket \in Tickets \cup {Nil}
      BY <1>1 DEF TypeInv, TypeOK
    <3>2. inbound[m].status = "processed" => filed[m] = <<inbound[m].ticket>>
      BY <1>1 DEF FiledInv, RowInv
    <3> QED BY <2>0, <3>1, <3>2
  <2>4. inbound[m].status = "received" =>
            Len(filed[m]) = 1 \/ m \in died \/ InProgress(m)
    BY <1>1, <2>1 DEF FiledInv, RowInv, InProgress, Works
  <2>5. m \in accepted => inbound[m].status # "none"
    BY <1>1 DEF FiledInv, RowInv
  <2>6. Len(filed[m]) = 0 \/ Len(filed[m]) = 1
    <3>1. Len(<< >>) = 0
      BY EmptySeq
    <3> QED BY <2>1, <3>1, Zenon
  <2>7. Len(filed[m]) <= 1
    <3> DEFINE n == Len(filed[m])
    <3>1. n \in {0, 1}
      BY <2>6
    <3> HIDE DEF n
    <3>2. n <= 1
      BY <3>1
    <3> QED BY <3>2 DEF n
  <2> QED BY <2>2, <2>3, <2>4, <2>5, <2>7
<1>2. TypeInv /\ FiledInv => MailsAreFiledOnce
  BY <1>1 DEF MailsAreFiledOnce
<1> QED BY <1>2, FiledAlways, PTL

------------------------------------------------------------------------------
(* The mails of a thread are filed in one ticket.                          *)

Threads == {ThreadOf[m] : m \in Mails}

\* A request that has looked for a ticket; one that has got it.
Ahead(x) == Works(x) /\ x.pc # "find"
Holds(x) == Works(x) /\ x.pc \in {"read", "write", "finish"}

\* Ticket t is that of a mail of the thread, or about to be.
Uses(h, t) ==
    \/ \E m \in Mails : ThreadOf[m] = h /\ filed[m] = <<t>>
    \/ \E r \in Requests : /\ Holds(request[r])
                          /\ ThreadOf[request[r].mail] = h
                          /\ request[r].ticket = t

SameTicket == \A h \in Threads \ split : \A t, u \in Tickets : Uses(h, t) /\ Uses(h, u) => t = u

\* As long as no mail of the thread is linked, one request leads, and what is filed
\* it has filed; then nobody opens a ticket.
OneLeads ==
    \A h \in Threads \ split : Linked(h) = {} =>
        \A r, q \in Requests :
            /\ Ahead(request[r]) /\ ThreadOf[request[r].mail] = h
            /\ Ahead(request[q]) /\ ThreadOf[request[q].mail] = h
            => r = q

LeaderFiled ==
    \A h \in Threads \ split : Linked(h) = {} =>
        \A m \in Mails : ThreadOf[m] = h /\ filed[m] # << >> =>
            \E r \in Requests : /\ Works(request[r])
                               /\ request[r].pc = "finish"
                               /\ request[r].mail = m

NoneOpens ==
    \A h \in Threads \ split : Linked(h) # {} =>
        \A r \in Requests : Works(request[r]) /\ ThreadOf[request[r].mail] = h =>
            request[r].pc # "create"

ThreadInv == SameTicket /\ OneLeads /\ LeaderFiled /\ NoneOpens

LEMMA ThreadInit ==
    ASSUME SupportAssumption, Init
    PROVE  ThreadInv
<1>1. \A r \in Requests : ~Works(request[r])
  BY DEF Init, Works, Idle
<1>2. \A m \in Mails : filed[m] = << >> /\ inbound[m].ticket = Nil
  BY DEF Init
<1>3. \A h, t : ~Uses(h, t)
  BY <1>1, <1>2 DEF Uses, Holds
<1>4. \A h : Linked(h) = {}
  BY <1>2 DEF Linked
<1> QED BY <1>1, <1>2, <1>3, <1>4
        DEF ThreadInv, SameTicket, OneLeads, LeaderFiled, NoneOpens, Ahead

\* A step that files nothing, links nothing and gets no request ahead keeps it, and
\* so does one that gives up a mail when that splits its thread or others are linked.
LEMMA ThreadKept ==
    ASSUME SupportAssumption, TypeInv, ThreadInv, NEW r \in Requests, Keeps(r),
           split \subseteq split', filed' = filed,
           \A m \in Mails : inbound'[m].ticket = inbound[m].ticket,
           Ahead(request'[r]) => /\ Ahead(request[r])
                                 /\ request'[r].mail = request[r].mail
                                 /\ request'[r].pc = "create" => request[r].pc = "create",
           Holds(request'[r]) => Holds(request[r]) /\ request'[r].ticket = request[r].ticket,
           Works(request[r]) /\ request[r].pc = "finish" =>
               \/ Linked(ThreadOf[request[r].mail]) # {}
               \/ ThreadOf[request[r].mail] \in split'
    PROVE  ThreadInv'
<1>1. \A h : Linked(h)' = Linked(h)
  BY DEF Linked
<1>2. \A q \in Requests :
          /\ Ahead(request'[q]) => Ahead(request[q]) /\ request'[q].mail = request[q].mail
          /\ Holds(request'[q]) => Holds(request[q]) /\ request'[q].ticket = request[q].ticket
  BY DEF Keeps
<1>3. \A h, t : Uses(h, t)' => Uses(h, t)
  BY <1>2 DEF Uses, Holds, Ahead
<1>4. SameTicket'
  BY <1>3 DEF ThreadInv, SameTicket, Threads
<1>5. OneLeads'
  BY <1>1, <1>2 DEF ThreadInv, OneLeads, Threads
<1>6. LeaderFiled'
  <2> SUFFICES ASSUME NEW h \in Threads \ split', Linked(h) = {},
                      NEW m \in Mails, ThreadOf[m] = h, filed[m] # << >>
               PROVE  \E q \in Requests : /\ Works(request'[q])
                                         /\ request'[q].pc = "finish"
                                         /\ request'[q].mail = m
    BY <1>1 DEF LeaderFiled, Threads
  <2>1. PICK q \in Requests : /\ Works(request[q])
                              /\ request[q].pc = "finish"
                              /\ request[q].mail = m
    BY DEF ThreadInv, LeaderFiled, Threads
  <2>2. q # r
    BY <2>1
  <2> QED BY <2>1, <2>2 DEF Keeps
<1>7. NoneOpens'
  <2> SUFFICES ASSUME NEW h \in Threads \ split', Linked(h) # {},
                      NEW q \in Requests, Works(request'[q]), ThreadOf[request'[q].mail] = h,
                      request'[q].pc = "create"
               PROVE  FALSE
    BY <1>1 DEF NoneOpens, Threads
  <2>1. Ahead(request'[q])
    BY DEF Ahead
  <2>2. Ahead(request[q]) /\ request[q].mail = request'[q].mail /\ request[q].pc = "create"
    BY <2>1 DEF Keeps
  <2> QED BY <2>2 DEF ThreadInv, NoneOpens, Threads, Ahead
<1> QED BY <1>4, <1>5, <1>6, <1>7 DEF ThreadInv

LEMMA ThreadNext ==
    ASSUME SupportAssumption, TypeInv, FiledInv, ThreadInv, [Next]_vars
    PROVE  ThreadInv'
<1>t. /\ \A r \in Requests : Knows(request[r])
      /\ \A r \in Requests : Works(request[r]) => request[r].mail \in Mails
      /\ "mail" \notin Decisions /\ Nil \notin Mails /\ Nil \notin Tickets
  BY SupportAssumption
     DEF TypeInv, Knows, Works, SupportAssumption, TicketStatuses
<1>1. ASSUME NEW r \in Requests, NEW m \in Mails, Deliver(r, m)
      PROVE  ThreadInv'
  <2>1. Began(r, "insert", "mail", m, Nil)
    BY <1>1, Beginnings
  <2>2. request[r].pc = "idle" /\ UNCHANGED <<inbound, filed, split>>
    BY <1>1 DEF Deliver, rowVars, historyVars
  <2> QED BY <2>1, <2>2, ThreadKept DEF Began, Works, Ahead, Holds
<1>2. ASSUME NEW r \in Requests, InsertInbound(r)
      PROVE  ThreadInv'
  <2>1. /\ request[r].pc = "insert"
        /\ filed' = filed /\ split' = split
        /\ Keeps(r) /\ request'[r].pc \in {"find", "idle"}
    BY <1>2, Beginnings, Moves DEF InsertInbound, historyVars, Began, Moved
  <2>2. \A m \in Mails : inbound'[m].ticket = inbound[m].ticket
    <3> DEFINE n == request[r].mail
    <3>1. \/ inbound' = inbound
          \/ inbound' = [inbound EXCEPT ![n].status = "received"]
      BY <1>2 DEF InsertInbound
    <3> HIDE DEF n
    <3> QED BY <3>1 DEF TypeInv, TypeOK
  <2> QED BY <2>1, <2>2, ThreadKept DEF Works, Ahead, Holds
<1>3. ASSUME NEW r \in Requests, FindTicket(r)
      PROVE  ThreadInv'
  <2> DEFINE y == request[r]
             g == ThreadOf[y.mail]
  <2>1. /\ y.pc = "find" /\ Works(y) /\ y.mail \in Mails /\ g \in Threads
        /\ UNCHANGED <<inbound, filed>> /\ split \subseteq split'
    BY <1>3, <1>t DEF FindTicket, Knows, Works, rowVars, Threads
  <2>2. \A h : Linked(h)' = Linked(h)
    BY <2>1 DEF Linked
  <2>3. CASE Linked(g) = {}
    <3>1. Moved(r, "create", y.ticket, y.seen)
      BY <1>3, <2>3, Moves
    <3>2. split' = IF Siblings(r) = {} THEN split ELSE split \cup {g}
      BY <1>3, <2>3 DEF FindTicket, IsLatest
    <3>3. \A h, t : Uses(h, t)' => Uses(h, t)
      BY <2>1, <3>1 DEF Uses, Holds, Moved, Keeps
    <3>4. SameTicket'
      BY <2>1, <3>3 DEF ThreadInv, SameTicket, Threads
    <3>5. g \notin split' => \A q \in Requests \ {r} : Works(request[q]) => ThreadOf[request[q].mail] # g
      BY <3>2 DEF Siblings, Works
    <3>6. OneLeads'
      <4> SUFFICES ASSUME NEW h \in Threads \ split', Linked(h) = {},
                          NEW p \in Requests, NEW q \in Requests,
                          Ahead(request'[p]), ThreadOf[request'[p].mail] = h,
                          Ahead(request'[q]), ThreadOf[request'[q].mail] = h
                   PROVE  p = q
        BY <2>2 DEF OneLeads, Threads
      <4>1. CASE h = g
        BY <3>1, <3>5, <4>1 DEF Moved, Keeps, Ahead
      <4>2. CASE h # g
        <5>1. p # r /\ q # r
          BY <3>1, <4>2 DEF Moved
        <5> QED BY <5>1, <2>1, <3>1 DEF Moved, Keeps, ThreadInv, OneLeads
      <4> QED BY <4>1, <4>2
    <3>7. LeaderFiled'
      BY <2>1, <2>2, <3>1 DEF ThreadInv, LeaderFiled, Threads, Moved, Keeps
    <3>8. NoneOpens'
      <4> SUFFICES ASSUME NEW h \in Threads \ split', Linked(h) # {},
                          NEW q \in Requests, Works(request'[q]), ThreadOf[request'[q].mail] = h,
                          request'[q].pc = "create"
                   PROVE  FALSE
        BY <2>2 DEF NoneOpens, Threads
      <4>1. q # r
        BY <2>3, <3>1 DEF Moved
      <4> QED BY <4>1, <2>1, <3>1 DEF Moved, Keeps, ThreadInv, NoneOpens
    <3> QED BY <3>4, <3>6, <3>7, <3>8 DEF ThreadInv
  <2>4. CASE Linked(g) # {}
    <3>1. split' = split
      BY <1>3, <2>4 DEF FindTicket
    <3>2. PICK m \in Linked(g) : Moved(r, "read", inbound[m].ticket, y.seen)
      BY <1>3, <2>4, Moves
    <3>3. /\ m \in Mails /\ ThreadOf[m] = g
          /\ filed[m] = <<inbound[m].ticket>>
      BY DEF Linked, FiledInv, RowInv
    <3>4. ASSUME NEW h, NEW t, Uses(h, t)' PROVE Uses(h, t)
      BY <2>1, <3>2, <3>3, <3>4 DEF Uses, Holds, Moved, Keeps
    <3>5. SameTicket'
      BY <3>1, <3>4 DEF ThreadInv, SameTicket, Threads
    <3>6. OneLeads'
      <4> SUFFICES ASSUME NEW h \in Threads \ split', Linked(h) = {},
                          NEW p \in Requests, NEW q \in Requests,
                          Ahead(request'[p]), ThreadOf[request'[p].mail] = h,
                          Ahead(request'[q]), ThreadOf[request'[q].mail] = h
                   PROVE  p = q
        BY <2>2 DEF OneLeads, Threads
      <4>1. p # r /\ q # r
        BY <2>4, <3>2 DEF Moved
      <4> QED BY <4>1, <3>1, <3>2 DEF Moved, Keeps, ThreadInv, OneLeads
    <3>7. LeaderFiled'
      BY <2>1, <2>2, <3>1, <3>2 DEF ThreadInv, LeaderFiled, Threads, Moved, Keeps
    <3>8. NoneOpens'
      BY <2>1, <2>2, <3>1, <3>2 DEF ThreadInv, NoneOpens, Threads, Moved, Keeps
    <3> QED BY <3>5, <3>6, <3>7, <3>8 DEF ThreadInv
  <2> QED BY <2>3, <2>4
<1>4. ASSUME NEW r \in Requests, CreateTicket(r)
      PROVE  ThreadInv'
  <2> DEFINE y == request[r]
             g == ThreadOf[y.mail]
  <2>1. /\ y.pc = "create" /\ Works(y) /\ Ahead(y) /\ y.mail \in Mails /\ g \in Threads
        /\ UNCHANGED <<inbound, filed, split>>
    BY <1>4, <1>t DEF CreateTicket, Knows, Works, Ahead, historyVars, Threads
  <2>2. \A h : Linked(h)' = Linked(h)
    BY <2>1 DEF Linked
  <2>3. Moved(r, "read", NewTicket, y.seen)
    BY <1>4, Moves
  <2>4. g \notin split => Linked(g) = {}
    BY <2>1 DEF ThreadInv, NoneOpens
  <2>5. \A t : g \notin split => ~Uses(g, t)
    <3> SUFFICES ASSUME NEW t, g \notin split, Uses(g, t)
                 PROVE  FALSE
      OBVIOUS
    <3>1. CASE \E m \in Mails : ThreadOf[m] = g /\ filed[m] = <<t>>
      <4>1. PICK m \in Mails : ThreadOf[m] = g /\ filed[m] = <<t>>
        BY <3>1
      <4>2. filed[m] # << >>
        BY <4>1
      <4>3. PICK q \in Requests : Works(request[q]) /\ request[q].pc = "finish" /\ request[q].mail = m
        BY <2>1, <2>4, <4>1, <4>2 DEF ThreadInv, LeaderFiled
      <4>4. Ahead(request[q]) /\ ThreadOf[request[q].mail] = g
        BY <4>1, <4>3 DEF Ahead
      <4>5. q = r
        BY <2>1, <2>4, <4>4 DEF ThreadInv, OneLeads
      <4> QED BY <2>1, <4>3, <4>5
    <3>2. CASE \E q \in Requests : /\ Holds(request[q])
                                  /\ ThreadOf[request[q].mail] = g
                                  /\ request[q].ticket = t
      <4>1. PICK q \in Requests : Holds(request[q]) /\ ThreadOf[request[q].mail] = g
        BY <3>2
      <4>2. Ahead(request[q])
        BY <4>1 DEF Holds, Ahead
      <4>3. q = r
        BY <2>1, <2>4, <4>1, <4>2 DEF ThreadInv, OneLeads
      <4> QED BY <2>1, <4>1, <4>3 DEF Holds
    <3> QED BY <3>1, <3>2 DEF Uses
  <2>6. ASSUME NEW h, NEW t, Uses(h, t)' PROVE Uses(h, t) \/ (h = g /\ t = NewTicket)
    BY <2>1, <2>3, <2>6 DEF Uses, Holds, Moved, Keeps
  <2>7. SameTicket'
    BY <2>1, <2>5, <2>6 DEF ThreadInv, SameTicket, Threads
  <2>8. \A q \in Requests : /\ Ahead(request'[q]) => Ahead(request[q])
                            /\ request'[q].mail = request[q].mail
                            /\ request'[q].pc = "create" => request[q].pc = "create"
                            /\ Works(request'[q]) => Works(request[q])
    BY <2>1, <2>3 DEF Moved, Keeps, Works, Ahead
  <2>9. OneLeads'
    BY <2>1, <2>2, <2>8 DEF ThreadInv, OneLeads, Threads
  <2>10. LeaderFiled'
    BY <2>1, <2>2, <2>3 DEF ThreadInv, LeaderFiled, Threads, Moved, Keeps
  <2>11. NoneOpens'
    BY <2>1, <2>2, <2>8 DEF ThreadInv, NoneOpens, Threads
  <2> QED BY <2>7, <2>9, <2>10, <2>11 DEF ThreadInv
<1>5. ASSUME NEW r \in Requests, MarkProcessed(r)
      PROVE  ThreadInv'
  <2>0. request[r].mail \in Mails /\ request[r].ticket \in Tickets
    BY <1>5, <1>t DEF MarkProcessed, Knows
  <2>a. PICK m \in Mails : m = request[r].mail
    BY <2>0
  <2> DEFINE y == request[r]
             g == ThreadOf[m]
  <2>1. /\ y.pc = "finish" /\ Works(y) /\ Ahead(y) /\ y.mail = m
        /\ UNCHANGED <<filed, split>>
    BY <1>5, <1>t, <2>a DEF MarkProcessed, Knows, Works, Ahead, historyVars
  <2>2. Keeps(r) /\ ~Works(request'[r])
    BY <1>5, Beginnings DEF MarkProcessed, Began, Works
  <2>3. /\ inbound'[m].ticket # Nil
        /\ \A n \in Mails \ {m} : inbound'[n] = inbound[n]
    BY <1>5, <1>t, <2>0, <2>a DEF MarkProcessed, TypeInv, TypeOK
  <2>4. /\ m \in Linked(g)'
        /\ \A h : h # g => Linked(h)' = Linked(h)
    BY <2>1, <2>3 DEF Linked
  <2>5. \A h, t : Uses(h, t)' => Uses(h, t)
    BY <2>1, <2>2 DEF Uses, Holds, Keeps
  <2>6. SameTicket'
    BY <2>1, <2>5 DEF ThreadInv, SameTicket, Threads
  <2>7. OneLeads'
    BY <2>1, <2>2, <2>4 DEF ThreadInv, OneLeads, Threads, Keeps, Ahead
  <2>8. LeaderFiled'
    <3> SUFFICES ASSUME NEW h \in Threads \ split, Linked(h)' = {},
                        NEW n \in Mails, ThreadOf[n] = h, filed[n] # << >>
                 PROVE  \E q \in Requests : /\ Works(request'[q])
                                           /\ request'[q].pc = "finish"
                                           /\ request'[q].mail = n
      BY <2>1 DEF LeaderFiled, Threads
    <3>1. h # g /\ Linked(h) = {}
      BY <2>4
    <3>2. PICK q \in Requests : Works(request[q]) /\ request[q].pc = "finish" /\ request[q].mail = n
      BY <3>1 DEF ThreadInv, LeaderFiled
    <3>3. q # r
      BY <2>1, <3>1, <3>2
    <3> QED BY <2>2, <3>2, <3>3 DEF Keeps
  <2>9. NoneOpens'
    <3> SUFFICES ASSUME NEW h \in Threads \ split, Linked(h)' # {},
                        NEW q \in Requests, Works(request'[q]), ThreadOf[request'[q].mail] = h,
                        request'[q].pc = "create"
                 PROVE  FALSE
      BY <2>1 DEF NoneOpens, Threads
    <3>1. q # r /\ request'[q] = request[q]
      BY <2>2 DEF Keeps
    <3>2. CASE Linked(h) # {}
      BY <3>1, <3>2 DEF ThreadInv, NoneOpens
    <3>3. CASE Linked(h) = {}
      <4>1. h = g
        BY <2>4, <3>3
      <4>2. Ahead(request[q])
        BY <3>1 DEF Ahead
      <4> QED BY <2>1, <3>1, <3>3, <4>1, <4>2 DEF ThreadInv, OneLeads
    <3> QED BY <3>2, <3>3
  <2> QED BY <2>6, <2>7, <2>8, <2>9 DEF ThreadInv
<1>6. ASSUME NEW r \in Requests, NEW t \in Tickets, NEW author \in {"customer", "operator"},
             AddMessage(r, t, author)
      PROVE  ThreadInv'
  <2>1. Began(r, "read", author, Nil, t)
    BY <1>6, Beginnings
  <2>2. request[r].pc = "idle" /\ UNCHANGED <<inbound, filed, split>>
    BY <1>6 DEF AddMessage, rowVars, historyVars
  <2> QED BY <2>1, <2>2, ThreadKept DEF Began, Works, Ahead, Holds
<1>7. ASSUME NEW r \in Requests, ReadTicket(r)
      PROVE  ThreadInv'
  <2>1. Moved(r, "write", request[r].ticket, ticket[request[r].ticket])
    BY <1>7, Moves
  <2>2. request[r].pc = "read" /\ UNCHANGED <<inbound, filed, split>>
    BY <1>7 DEF ReadTicket, rowVars
  <2> QED BY <2>1, <2>2, ThreadKept DEF Moved, Works, Ahead, Holds
<1>8. ASSUME NEW r \in Requests, PersistMessage(r)
      PROVE  ThreadInv'
  <2> DEFINE y == request[r]
             m == y.mail
             t == y.ticket
  <2>1. y.pc = "write" /\ t \in Tickets /\ UNCHANGED <<inbound, split>>
    BY <1>8, <1>t DEF PersistMessage, Knows
  <2>2. CASE y.kind = "mail"
    <3>1. Moved(r, "finish", t, "none") /\ Works(y) /\ m \in Mails
      BY <1>8, <2>1, <2>2, <1>t, Moves DEF Works
    <3>2. /\ filed'[m] = Append(filed[m], t)
          /\ \A n \in Mails \ {m} : filed'[n] = filed[n]
      BY <1>8, <2>2, <3>1 DEF PersistMessage, TypeInv
    <3>3. filed[m] = << >>
      BY <2>1, <3>1 DEF FiledInv, HasWork
    <3>4. filed'[m] = <<t>>
      BY <2>1, <3>2, <3>3
    <3>5. Keeps(r) /\ Works(request'[r]) /\ request'[r].pc = "finish"
          /\ request'[r].mail = m /\ request'[r].ticket = t
      BY <3>1, <2>2 DEF Moved, Works
    <3>6. \A h : Linked(h)' = Linked(h)
      BY <2>1 DEF Linked
    <3>7. ASSUME NEW h, NEW u, Uses(h, u)' PROVE Uses(h, u)
      <4>1. Uses(ThreadOf[m], t)
        BY <2>1, <3>1 DEF Uses, Holds
      <4>2. CASE \E n \in Mails : ThreadOf[n] = h /\ filed'[n] = <<u>>
        <5>1. PICK n \in Mails : ThreadOf[n] = h /\ filed'[n] = <<u>>
          BY <4>2
        <5>2. CASE n = m
          <6>1. <<u>> = <<t>>
            BY <3>4, <5>1, <5>2
          <6>2. u = t
            BY <6>1
          <6> QED BY <4>1, <5>1, <5>2, <6>2
        <5>3. CASE n # m
          BY <3>2, <5>1, <5>3 DEF Uses
        <5> QED BY <5>2, <5>3
      <4>3. CASE \E q \in Requests : /\ Holds(request'[q])
                                    /\ ThreadOf[request'[q].mail] = h
                                    /\ request'[q].ticket = u
        BY <4>1, <4>3, <3>5 DEF Uses, Keeps
      <4> QED BY <3>7, <4>2, <4>3 DEF Uses
    <3>8. SameTicket'
      BY <2>1, <3>7 DEF ThreadInv, SameTicket, Threads
    <3>9. OneLeads'
      <4>1. \A q \in Requests :
                Ahead(request'[q]) => Ahead(request[q]) /\ request'[q].mail = request[q].mail
        BY <2>1, <3>1, <3>5 DEF Ahead, Keeps
      <4> QED BY <2>1, <3>6, <4>1 DEF ThreadInv, OneLeads, Threads
    <3>10. LeaderFiled'
      <4> SUFFICES ASSUME NEW h \in Threads \ split, Linked(h) = {},
                          NEW n \in Mails, ThreadOf[n] = h, filed'[n] # << >>
                   PROVE  \E q \in Requests : /\ Works(request'[q])
                                             /\ request'[q].pc = "finish"
                                             /\ request'[q].mail = n
        BY <2>1, <3>6 DEF LeaderFiled, Threads
      <4>1. CASE n = m
        BY <3>5, <4>1
      <4>2. CASE n # m
        <5>1. PICK q \in Requests : Works(request[q]) /\ request[q].pc = "finish" /\ request[q].mail = n
          BY <3>2, <4>2 DEF ThreadInv, LeaderFiled
        <5> QED BY <3>5, <4>2, <5>1 DEF Keeps
      <4> QED BY <4>1, <4>2
    <3>11. NoneOpens'
      BY <2>1, <3>5, <3>6 DEF ThreadInv, NoneOpens, Threads, Keeps
    <3> QED BY <3>8, <3>9, <3>10, <3>11 DEF ThreadInv
  <2>3. CASE y.kind # "mail"
    <3>1. Return(r) /\ filed' = filed
      BY <1>8, <2>3 DEF PersistMessage
    <3>2. Began(r, "idle", "mail", Nil, Nil)
      BY <3>1, Beginnings
    <3> QED BY <2>1, <2>3, <3>1, <3>2, ThreadKept DEF Works, Ahead, Holds, Began
  <2> QED BY <2>2, <2>3
<1>9. ASSUME NEW r \in Requests, NEW t \in Tickets, NEW status \in Decisions,
             ReadStatus(r, t, status)
      PROVE  ThreadInv'
  <2>1. Began(r, "status", status, Nil, t)
    BY <1>9, Beginnings
  <2>2. request[r].pc = "idle" /\ UNCHANGED <<inbound, filed, split>>
    BY <1>9 DEF ReadStatus, rowVars
  <2> QED BY <2>1, <2>2, ThreadKept, <1>t DEF Began, Works, Ahead, Holds
<1>10. ASSUME NEW r \in Requests, WriteStatus(r)
       PROVE  ThreadInv'
  <2>1. Began(r, "idle", "mail", Nil, Nil)
    BY <1>10, Beginnings DEF WriteStatus
  <2>2. request[r].kind \in Decisions /\ UNCHANGED <<inbound, filed, split>>
    BY <1>10, <1>t DEF WriteStatus, Knows
  <2> QED BY <2>1, <2>2, ThreadKept, <1>t DEF Began, Works, Ahead, Holds
<1>11. ASSUME NEW r \in Requests, Splits(r), Began(r, "idle", "mail", Nil, Nil),
              filed' = filed, \A m \in Mails : inbound'[m].ticket = inbound[m].ticket
       PROVE  ThreadInv'
  <2>1. split \subseteq split' /\ Keeps(r) /\ ~Works(request'[r])
    BY <1>11 DEF Splits, Began, Works
  <2>2. Works(request[r]) => \/ Linked(ThreadOf[request[r].mail]) # {}
                             \/ ThreadOf[request[r].mail] \in split'
    BY <1>11 DEF Splits, Works
  <2> QED BY <1>11, <2>1, <2>2, ThreadKept DEF Ahead, Holds
<1>12. ASSUME NEW r \in Requests, StatementThrows(r)
       PROVE  ThreadInv'
  <2>1. Began(r, "idle", "mail", Nil, Nil) /\ Splits(r) /\ filed' = filed
    BY <1>12, Beginnings DEF StatementThrows
  <2>2. \A m \in Mails : inbound'[m].ticket = inbound[m].ticket
    <3>1. CASE Works(request[r])
      <4> DEFINE n == request[r].mail
      <4>1. n \in Mails /\ inbound[n].status = "received"
        BY <3>1, <1>t DEF FiledInv, HasWork
      <4>2. inbound[n].ticket = Nil
        BY <4>1 DEF FiledInv, RowInv
      <4>3. inbound' = [inbound EXCEPT ![n] = [status |-> "failed", ticket |-> Nil]]
        BY <1>12, <3>1 DEF StatementThrows, Works
      <4> HIDE DEF n
      <4> QED BY <4>1, <4>2, <4>3 DEF TypeInv, TypeOK
    <3>2. CASE ~Works(request[r])
      BY <1>12, <3>2 DEF StatementThrows, Works
    <3> QED BY <3>1, <3>2
  <2> QED BY <2>1, <2>2, <1>11
<1>13. ASSUME NEW r \in Requests, Crash(r)
       PROVE  ThreadInv'
  BY <1>13, <1>11, Beginnings DEF Crash, rowVars
<1>14. CASE UNCHANGED vars
  BY <1>14 DEF vars, rowVars, historyVars, ThreadInv, SameTicket, OneLeads, LeaderFiled, NoneOpens,
               Uses, Linked, Threads
<1> QED BY <1>1, <1>2, <1>3, <1>4, <1>5, <1>6, <1>7, <1>8, <1>9, <1>10, <1>12, <1>13, <1>14
        DEF Next, Proceed

\* Whatever mails, answers and failures come together, the mails of a thread are filed
\* in one ticket, except where the property says.
THEOREM OneTicket == ASSUME SupportAssumption PROVE Spec => []OneTicketPerThread
<1>1. Init => TypeInv /\ FiledInv /\ ThreadInv
  BY TypeInit, FiledInit, ThreadInit
<1>2. TypeInv /\ FiledInv /\ ThreadInv /\ [Next]_vars => TypeInv' /\ FiledInv' /\ ThreadInv'
  BY TypeNext, FiledNext, ThreadNext
<1>3. TypeInv /\ FiledInv /\ ThreadInv => OneTicketPerThread
  <2> SUFFICES ASSUME TypeInv, FiledInv, ThreadInv, NEW m \in Mails, NEW n \in Mails,
                      ThreadOf[m] = ThreadOf[n], ThreadOf[m] \notin split,
                      NEW t \in Range(filed[m]), NEW u \in Range(filed[n])
               PROVE  t = u
    BY DEF OneTicketPerThread
  <2>1. ASSUME NEW k \in Mails, NEW x \in Range(filed[k])
        PROVE  x \in Tickets /\ filed[k] = <<x>>
    BY <2>1 DEF FiledInv, RowInv, Range
  <2>2. Uses(ThreadOf[m], t) /\ Uses(ThreadOf[m], u)
    BY <2>1 DEF Uses
  <2> QED BY <2>1, <2>2 DEF ThreadInv, SameTicket, Threads
<1> QED BY <1>1, <1>2, <1>3, PTL DEF Spec

------------------------------------------------------------------------------
(* A ticket waits for the side that did not write last.                    *)

\* Request x is about to write into ticket t.
Writes(x, t) == x.pc \in {"write", "status"} /\ x.ticket = t

\* As long as a ticket is not raced for, those about to write into it aim at one
\* status, who found it so will still do, and it is what the last message made it.
TurnInv ==
    \A t \in Tickets : turn[t] # "raced" =>
        /\ \A r, q \in Requests : Writes(request[r], t) /\ Writes(request[q], t) =>
               Aim(request[r].kind) = Aim(request[q].kind)
        /\ \A r \in Requests : /\ Writes(request[r], t)
                               /\ request[r].pc = "write"
                               /\ request[r].seen = Aim(request[r].kind)
                               => ticket[t] = Aim(request[r].kind)
        /\ turn[t] # "any" => ticket[t] = turn[t]
        /\ ticket[t] = "none" => turn[t] = "any"

LEMMA TurnInit ==
    ASSUME SupportAssumption, Init
    PROVE  TurnInv
BY DEF Init, TurnInv, Writes, Idle

\* A step after which no other request is about to write keeps it.
LEMMA TurnKept ==
    ASSUME SupportAssumption, TypeInv, TurnInv, NEW r \in Requests, Keeps(r),
           request'[r].pc \notin {"write", "status"}, UNCHANGED <<ticket, turn>>
    PROVE  TurnInv'
BY DEF TurnInv, Writes, Keeps

LEMMA TurnNext ==
    ASSUME SupportAssumption, TypeInv, TurnInv, [Next]_vars
    PROVE  TurnInv'
<1>t. /\ \A r \in Requests : Knows(request[r])
      /\ \A r \in Requests : request[r].pc \in {"read", "write", "finish", "status"} =>
             /\ request[r].ticket \in Tickets
             /\ ticket[request[r].ticket] # "none"
      /\ ticket \in [Tickets -> TicketStatuses \cup {"none"}]
      /\ DOMAIN turn = Tickets
      /\ \A k \in Kinds : Aim(k) \in TicketStatuses
      /\ \A r \in Requests : request[r].kind \in Kinds
  BY Aims, SupportAssumption DEF TypeInv, TypeOK, TicketsExist, Knows, RequestState
<1>1. ASSUME NEW r \in Requests, NEW m \in Mails, Deliver(r, m)
      PROVE  TurnInv'
  BY <1>1, Beginnings, TurnKept DEF Deliver, Began, rowVars, historyVars
<1>2. ASSUME NEW r \in Requests, InsertInbound(r)
      PROVE  TurnInv'
  <2>1. Keeps(r) /\ request'[r].pc \in {"find", "idle"} /\ UNCHANGED <<ticket, turn>>
    BY <1>2, Beginnings, Moves DEF InsertInbound, historyVars, Began, Moved
  <2> QED BY <2>1, TurnKept
<1>3. ASSUME NEW r \in Requests, FindTicket(r)
      PROVE  TurnInv'
  <2>1. Keeps(r) /\ request'[r].pc \in {"create", "read"}
    BY <1>3, Moves DEF Moved
  <2> QED BY <1>3, <2>1, TurnKept DEF FindTicket, rowVars
<1>4. ASSUME NEW r \in Requests, CreateTicket(r)
      PROVE  TurnInv'
  <2>1. PICK n \in Tickets : /\ ticket[n] = "none"
                             /\ ticket' = [ticket EXCEPT ![n] = "open"]
    <3>1. NewTicket \in Tickets /\ ticket[NewTicket] = "none"
      BY <1>4 DEF CreateTicket, NewTicket
    <3> QED BY <1>4, <3>1 DEF CreateTicket
  <2>2. Moved(r, "read", NewTicket, request[r].seen) /\ turn' = turn
    BY <1>4, Moves DEF CreateTicket, historyVars
  <2>3. \A q \in Requests : ~Writes(request[q], n)
    BY <2>1, <1>t DEF Writes
  <2>4. \A q \in Requests, t \in Tickets : Writes(request'[q], t) =>
            Writes(request[q], t) /\ request'[q] = request[q] /\ t # n
    BY <2>2, <2>3 DEF Moved, Keeps, Writes
  <2>5. turn[n] \in {"any", "raced"}
    BY <2>1 DEF TurnInv
  <2> QED BY <2>1, <2>2, <2>4, <2>5, <1>t DEF TurnInv, TicketStatuses
<1>5. ASSUME NEW r \in Requests, MarkProcessed(r)
      PROVE  TurnInv'
  BY <1>5, Beginnings, TurnKept DEF MarkProcessed, Began, historyVars
<1>6. ASSUME NEW r \in Requests, NEW t \in Tickets, NEW author \in {"customer", "operator"},
             AddMessage(r, t, author)
      PROVE  TurnInv'
  BY <1>6, Beginnings, TurnKept DEF AddMessage, Began, rowVars, historyVars
<1>7. ASSUME NEW r \in Requests, NEW n \in Tickets, NEW k \in Kinds, Keeps(r),
             request'[r].kind = k, request'[r].ticket = n,
             request'[r].pc \in {"write", "status"},
             request'[r].pc = "write" => request'[r].seen = ticket[n],
             ticket[n] # "none", ticket' = ticket,
             turn' = IF Overlaps(r, n, k) THEN [turn EXCEPT ![n] = "raced"] ELSE turn
      PROVE  TurnInv'
  <2> SUFFICES ASSUME NEW t \in Tickets, turn'[t] # "raced"
               PROVE  /\ \A p, q \in Requests : Writes(request'[p], t) /\ Writes(request'[q], t) =>
                             Aim(request'[p].kind) = Aim(request'[q].kind)
                      /\ \A q \in Requests : /\ Writes(request'[q], t)
                                             /\ request'[q].pc = "write"
                                             /\ request'[q].seen = Aim(request'[q].kind)
                                             => ticket[t] = Aim(request'[q].kind)
                      /\ turn'[t] # "any" => ticket[t] = turn'[t]
                      /\ ticket[t] = "none" => turn'[t] = "any"
    BY <1>7 DEF TurnInv
  <2>1. turn[t] # "raced" /\ turn'[t] = turn[t]
    BY <1>7, <1>t
  <2>2. t = n => ~Overlaps(r, n, k)
    BY <1>7, <1>t
  <2>3. t = n => \A q \in Requests \ {r} : Writes(request[q], t) => Aim(request[q].kind) = Aim(k)
    BY <2>2 DEF Overlaps, Writes
  <2>4. \A q \in Requests \ {r} : request'[q] = request[q]
    BY <1>7 DEF Keeps
  <2>5. Writes(request'[r], t) => t = n
    BY <1>7 DEF Writes
  <2>6. ASSUME NEW p \in Requests, NEW q \in Requests, Writes(request'[p], t), Writes(request'[q], t)
        PROVE  Aim(request'[p].kind) = Aim(request'[q].kind)
    <3>1. CASE p # r /\ q # r
      BY <2>1, <2>4, <2>6, <3>1 DEF TurnInv
    <3>2. CASE p = r \/ q = r
      BY <1>7, <2>3, <2>4, <2>5, <2>6, <3>2
    <3> QED BY <3>1, <3>2
  <2>7. ASSUME NEW q \in Requests, Writes(request'[q], t), request'[q].pc = "write",
               request'[q].seen = Aim(request'[q].kind)
        PROVE  ticket[t] = Aim(request'[q].kind)
    <3>1. CASE q # r
      BY <2>1, <2>4, <2>7, <3>1 DEF TurnInv
    <3>2. CASE q = r
      BY <1>7, <2>5, <2>7, <3>2
    <3> QED BY <3>1, <3>2
  <2> QED BY <2>1, <2>6, <2>7 DEF TurnInv
<1>8. ASSUME NEW r \in Requests, ReadTicket(r)
      PROVE  TurnInv'
  <2>1. Moved(r, "write", request[r].ticket, ticket[request[r].ticket])
    BY <1>8, Moves
  <2> QED BY <1>8, <2>1, <1>7, <1>t DEF ReadTicket, rowVars, Moved
<1>9. ASSUME NEW r \in Requests, NEW t \in Tickets, NEW status \in Decisions,
             ReadStatus(r, t, status)
      PROVE  TurnInv'
  <2>1. Began(r, "status", status, Nil, t) /\ status \in Kinds
    BY <1>9, Beginnings DEF Kinds
  <2> QED BY <1>9, <2>1, <1>7 DEF ReadStatus, rowVars, Began
<1>10. ASSUME NEW r \in Requests, NEW n \in Tickets, Writes(request[r], n), Keeps(r),
              request'[r].pc \notin {"write", "status"},
              NEW aim, aim = Aim(request[r].kind),
              \/ ticket' = [ticket EXCEPT ![n] = aim]
              \/ /\ ticket' = ticket
                 /\ request[r].pc = "write" /\ request[r].seen = aim,
              NEW next \in {"any", aim},
              turn' = [turn EXCEPT ![n] = IF @ = "raced" THEN @ ELSE next]
       PROVE  TurnInv'
  <2>1. \A q \in Requests, t \in Tickets : Writes(request'[q], t) =>
            Writes(request[q], t) /\ request'[q] = request[q]
    BY <1>10 DEF Keeps, Writes
  <2>2. \A t \in Tickets \ {n} : ticket'[t] = ticket[t] /\ turn'[t] = turn[t]
    BY <1>10, <1>t
  <2>3. turn'[n] # "raced" => turn[n] # "raced" /\ turn'[n] = next
    BY <1>10, <1>t
  <2>4. turn[n] # "raced" => ticket'[n] = aim
    BY <1>10, <1>t DEF TurnInv
  <2>5. turn[n] # "raced" => \A q \in Requests : Writes(request[q], n) => Aim(request[q].kind) = aim
    BY <1>10 DEF TurnInv
  <2>6. aim \in TicketStatuses
    BY <1>10, <1>t
  <2>7. \A t \in Tickets \ {n} : turn'[t] # "raced" =>
            /\ \A p, q \in Requests : Writes(request'[p], t) /\ Writes(request'[q], t) =>
                   Aim(request'[p].kind) = Aim(request'[q].kind)
            /\ \A q \in Requests : /\ Writes(request'[q], t)
                                   /\ request'[q].pc = "write"
                                   /\ request'[q].seen = Aim(request'[q].kind)
                                   => ticket'[t] = Aim(request'[q].kind)
            /\ turn'[t] # "any" => ticket'[t] = turn'[t]
            /\ ticket'[t] = "none" => turn'[t] = "any"
    BY <2>1, <2>2 DEF TurnInv
  <2>8. turn'[n] # "raced" =>
            /\ \A p, q \in Requests : Writes(request'[p], n) /\ Writes(request'[q], n) =>
                   Aim(request'[p].kind) = Aim(request'[q].kind)
            /\ \A q \in Requests : Writes(request'[q], n) => ticket'[n] = Aim(request'[q].kind)
            /\ turn'[n] # "any" => ticket'[n] = turn'[n]
            /\ ticket'[n] # "none"
    BY <2>1, <2>3, <2>4, <2>5, <2>6 DEF TicketStatuses
  <2> QED BY <2>7, <2>8 DEF TurnInv
<1>11. ASSUME NEW r \in Requests, PersistMessage(r)
       PROVE  TurnInv'
  <2> DEFINE n == request[r].ticket
             aim == Aim(request[r].kind)
  <2>1. /\ n \in Tickets /\ Writes(request[r], n)
        /\ \/ ticket' = [ticket EXCEPT ![n] = aim]
           \/ /\ ticket' = ticket
              /\ request[r].pc = "write" /\ request[r].seen = aim
        /\ turn' = [turn EXCEPT ![n] = IF @ = "raced" THEN @ ELSE aim]
    BY <1>11, <1>t DEF PersistMessage, Writes
  <2>2. Keeps(r) /\ request'[r].pc \notin {"write", "status"}
    BY <1>11, Moves, Beginnings DEF PersistMessage, Moved, Began
  <2> HIDE DEF n, aim
  <2> QED BY <2>1, <2>2, <1>10 DEF aim
<1>12. ASSUME NEW r \in Requests, WriteStatus(r)
       PROVE  TurnInv'
  <2> DEFINE n == request[r].ticket
             aim == Aim(request[r].kind)
  <2>1. /\ n \in Tickets /\ Writes(request[r], n)
        /\ ticket' = [ticket EXCEPT ![n] = aim]
        /\ turn' = [turn EXCEPT ![n] = IF @ = "raced" THEN @ ELSE "any"]
    BY <1>12, <1>t, Aims, SupportAssumption DEF WriteStatus, Writes, Knows
  <2>2. Keeps(r) /\ request'[r].pc \notin {"write", "status"}
    BY <1>12, Beginnings DEF WriteStatus, Began
  <2> HIDE DEF n, aim
  <2> QED BY <2>1, <2>2, <1>10 DEF aim
<1>13. ASSUME NEW r \in Requests, StatementThrows(r)
       PROVE  TurnInv'
  BY <1>13, Beginnings, TurnKept DEF StatementThrows, Began
<1>14. ASSUME NEW r \in Requests, Crash(r)
       PROVE  TurnInv'
  BY <1>14, Beginnings, TurnKept DEF Crash, Began, rowVars
<1>15. CASE UNCHANGED vars
  BY <1>15 DEF vars, rowVars, historyVars, TurnInv
<1> QED BY <1>1, <1>2, <1>3, <1>4, <1>5, <1>6, <1>8, <1>9, <1>11, <1>12, <1>13, <1>14, <1>15
        DEF Next, Proceed

\* Whatever writes into it together, a ticket that is not raced for waits for the side
\* that did not write last.
THEOREM TicketsWait == ASSUME SupportAssumption PROVE Spec => []WaitsForTheOtherSide
<1>1. Init => TypeInv /\ TurnInv
  BY TypeInit, TurnInit
<1>2. TypeInv /\ TurnInv /\ [Next]_vars => TypeInv' /\ TurnInv'
  BY TypeNext, TurnNext
<1>3. TurnInv => WaitsForTheOtherSide
  BY DEF TurnInv, WaitsForTheOtherSide
<1> QED BY <1>1, <1>2, <1>3, PTL DEF Spec
==============================================================================
