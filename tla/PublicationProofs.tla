-------------------------- MODULE PublicationProofs --------------------------
(***************************************************************************)
(* Proofs about Publication, for any numbers of listings, channels, rows,  *)
(* sources and requests at a time: a listing is offered once per channel,  *)
(* its status agrees with its rows, and the onboarding row states what is   *)
(* the case, each with the exceptions the property names.                   *)
(***************************************************************************)
EXTENDS Publication, FiniteSetTheorems, TLAPS

------------------------------------------------------------------------------
(* Types, and what a request has at its statement.                         *)

RequestState == [pc : {"idle", "listing", "find", "write", "hide", "read"},
                 kind : {"publish", "unpublish", "event", "status"},
                 listing : Listings \cup {Nil}, channel : Channels \cup {Nil},
                 row : Rows \cup {Nil}, unread : SUBSET Facts,
                 facts : SUBSET Facts, alone : BOOLEAN, late : BOOLEAN]

RowState == [listing : Listings \cup {Nil}, channel : Channels \cup {Nil}, active : BOOLEAN]

\* A request that changes a listing names it, and its channel when it publishes; a
\* recalculation names none.
Knows(x) ==
    /\ x \in RequestState
    /\ x.pc \in {"listing", "find", "write", "hide"} =>
           /\ x.listing \in Listings
           /\ x.kind \in {"publish", "unpublish"}
    /\ x.pc \in {"find", "write"} => x.kind = "publish"
    /\ x.pc = "hide" => x.kind = "unpublish"
    /\ x.kind = "publish" => x.channel \in Channels
    /\ x.pc \in {"idle", "read"} => x.listing = Nil /\ x.kind \in {"event", "status"}

TypeInv == TypeOK /\ \A r \in Requests : Knows(request[r])

LEMMA Blank ==
    ASSUME PublicationAssumption
    PROVE  /\ Knows(Idle)
           /\ Knows(Recalculation("event"))
           /\ Knows(Recalculation("status"))
           /\ NoRow \in RowState
BY DEF PublicationAssumption, Knows, Idle, Recalculation, NoRow, RequestState, RowState, Facts

LEMMA Begins ==
    ASSUME NEW kind
    PROVE  LET x == Recalculation(kind) IN
           x.pc = "read" /\ x.kind = kind /\ x.facts = {} /\ x.unread = Facts
BY DEF Recalculation, Idle

LEMMA TypeInit ==
    ASSUME PublicationAssumption, Init
    PROVE  TypeInv
<1>1. /\ publication \in [Rows -> RowState]
      /\ request \in [Requests -> RequestState]
      /\ \A r \in Requests : Knows(request[r])
  BY Blank DEF Init, Knows
<1> QED BY <1>1 DEF Init, TypeInv, TypeOK, RequestState, RowState

LEMMA TypeNext ==
    ASSUME PublicationAssumption, TypeInv, [Next]_vars
    PROVE  TypeInv'
<1> USE DEF TypeInv
<1>t. /\ request \in [Requests -> RequestState]
      /\ publication \in [Rows -> RowState]
      /\ \A r \in Requests : Knows(request[r])
  BY DEF TypeOK, RequestState, RowState
<1>a. ASSUME NEW r \in Requests, NEW x, Knows(x),
             request' = [request EXCEPT ![r] = x]
      PROVE  request' \in [Requests -> RequestState] /\ \A q \in Requests : Knows(request'[q])
  BY <1>t, <1>a DEF Knows
<1>b. ASSUME NEW r \in Requests, Late(r) = request'
      PROVE  request' \in [Requests -> RequestState] /\ \A q \in Requests : Knows(request'[q])
  <2>1. ASSUME NEW q \in Requests
        PROVE  Knows([request[q] EXCEPT !.late = TRUE])
    <3> DEFINE y == request[q]
    <3>1. Knows(y)
      BY <1>t
    <3> HIDE DEF y
    <3>2. Knows([y EXCEPT !.late = TRUE])
      BY <3>1 DEF Knows, RequestState
    <3> QED BY <3>2 DEF y
  <2> QED BY <2>1, <1>t, <1>b, Blank DEF Late, Knows
<1>c. ASSUME NEW r \in Requests, Changed(r), request[r].listing \in Listings
      PROVE  /\ request' \in [Requests -> RequestState]
             /\ \A q \in Requests : Knows(request'[q])
             /\ crossed' \subseteq Listings
  <2>1. crossed' \subseteq Listings
    BY <1>c DEF Changed, TypeOK
  <2> QED BY <2>1, <1>a, <1>c, Blank DEF Changed
<1>d. ASSUME NEW r \in Requests, NEW k \in Rows, Activate(r, k),
             request[r].listing \in Listings, request[r].channel \in Channels
      PROVE  publication' \in [Rows -> RowState]
  BY <1>t, <1>d DEF Activate, RowState
<1>e. ASSUME NEW r \in Requests, NEW kind \in {"publish", "unpublish"}, NEW l \in Listings,
             NEW c \in Channels \cup {Nil}, kind = "publish" => c \in Channels,
             Begin(r, kind, l, c)
      PROVE  request' \in [Requests -> RequestState] /\ \A q \in Requests : Knows(request'[q])
  <2> DEFINE others == {q \in Changing(l) : request[q].kind # kind}
             x == [Idle EXCEPT !.pc = "listing", !.kind = kind, !.listing = l,
                               !.channel = c, !.alone = others = {}]
  <2>1. Knows(x)
    BY <1>e DEF Knows, Idle, RequestState
  <2>2. ASSUME NEW q \in Requests
        PROVE  Knows([request[q] EXCEPT !.alone = FALSE])
    <3> DEFINE y == request[q]
    <3>1. Knows(y)
      BY <1>t
    <3> HIDE DEF y
    <3>2. Knows([y EXCEPT !.alone = FALSE])
      BY <3>1 DEF Knows, RequestState
    <3> QED BY <3>2 DEF y
  <2>3. request' = [q \in Requests |-> IF q = r THEN x
                       ELSE IF q \in others THEN [request[q] EXCEPT !.alone = FALSE] ELSE request[q]]
    BY <1>e DEF Begin
  <2> HIDE DEF x, others
  <2>4. \A q \in Requests : Knows(request'[q])
    BY <2>1, <2>2, <2>3, <1>t
  <2> QED BY <2>3, <2>4 DEF Knows
<1>1. ASSUME NEW r \in Requests, NEW l \in Listings, NEW c \in Channels, Publish(r, l, c)
      PROVE  TypeInv'
  BY <1>1, <1>e DEF Publish, TypeOK, RequestState, historyVars
<1>2. ASSUME NEW r \in Requests, NEW l \in Listings, Unpublish(r, l)
      PROVE  TypeInv'
  BY <1>2, <1>e DEF Unpublish, TypeOK, RequestState, historyVars
<1>3. ASSUME NEW r \in Requests, SetListing(r)
      PROVE  TypeInv'
  <2> DEFINE pc == IF request[r].kind = "publish" THEN "find" ELSE "hide"
  <2>1. Knows([request[r] EXCEPT !.pc = pc])
    <3> DEFINE y == request[r]
    <3>1. Knows(y) /\ y.pc = "listing"
      BY <1>3, <1>t DEF SetListing
    <3>2. pc = IF y.kind = "publish" THEN "find" ELSE "hide"
      OBVIOUS
    <3> HIDE DEF y, pc
    <3>3. Knows([y EXCEPT !.pc = pc])
      BY <3>1, <3>2 DEF Knows, RequestState
    <3> QED BY <3>3 DEF y
  <2>2. request' = [request EXCEPT ![r] = [request[r] EXCEPT !.pc = pc]]
    BY <1>3, <1>t DEF SetListing, Goto
  <2>3. request' \in [Requests -> RequestState] /\ \A q \in Requests : Knows(request'[q])
    BY <2>1, <2>2, <1>a
  <2>4. listing' \in [Listings -> {"draft", "active", "inactive"}]
    BY <1>3 DEF SetListing, TypeOK
  <2> QED BY <1>3, <2>3, <2>4 DEF SetListing, TypeOK, RequestState, historyVars
<1>4. ASSUME NEW r \in Requests, FindRow(r)
      PROVE  TypeInv'
  <2>1. PICK k \in Rows \cup {Nil} : request' = [request EXCEPT ![r].pc = "write", ![r].row = k]
    BY <1>4 DEF FindRow, RowsOf
  <2>2. Knows([request[r] EXCEPT !.pc = "write", !.row = k])
    <3> DEFINE y == request[r]
    <3>1. Knows(y) /\ y.pc = "find"
      BY <1>4, <1>t DEF FindRow
    <3> HIDE DEF y
    <3>2. Knows([y EXCEPT !.pc = "write", !.row = k])
      BY <3>1 DEF Knows, RequestState
    <3> QED BY <3>2 DEF y
  <2>3. request' = [request EXCEPT ![r] = [request[r] EXCEPT !.pc = "write", !.row = k]]
    BY <2>1, <1>t
  <2>4. request' \in [Requests -> RequestState] /\ \A q \in Requests : Knows(request'[q])
    BY <2>2, <2>3, <1>a
  <2>5. request[r].listing \in Listings /\ request[r].channel \in Channels
    BY <1>4, <1>t DEF FindRow, Knows
  <2>6. doubled' \subseteq Listings \X Channels
    BY <1>4, <2>5 DEF FindRow, TypeOK
  <2> QED BY <1>4, <2>4, <2>6 DEF FindRow, TypeOK, RequestState
<1>5. ASSUME NEW r \in Requests, WriteRow(r)
      PROVE  TypeInv'
  <2>1. request[r].listing \in Listings /\ request[r].channel \in Channels
    BY <1>5, <1>t DEF WriteRow, Knows
  <2>2. request[r].row \in Rows \cup {Nil}
    BY <1>t DEF RequestState
  <2>3. PICK k \in Rows : Activate(r, k)
    BY <1>5, <2>2 DEF WriteRow, FreeRows
  <2>4. publication' \in [Rows -> RowState]
    BY <2>1, <2>3, <1>d
  <2> QED BY <1>5, <1>c, <2>1, <2>4 DEF WriteRow, TypeOK, RequestState, RowState
<1>6. ASSUME NEW r \in Requests, HideRows(r)
      PROVE  TypeInv'
  <2>1. request[r].listing \in Listings
    BY <1>6, <1>t DEF HideRows, Knows
  <2>2. publication' \in [Rows -> RowState]
    BY <1>6, <1>t DEF HideRows, RowState
  <2> QED BY <1>6, <1>c, <2>1, <2>2 DEF HideRows, TypeOK, RequestState, RowState
<1>7. ASSUME NEW r \in Requests, NEW source \in Sources, ChangeSource(r, source)
      PROVE  TypeInv'
  <2>1. request' \in [Requests -> RequestState] /\ \A q \in Requests : Knows(request'[q])
    BY <1>7, <1>a, Blank DEF ChangeSource
  <2> QED BY <1>7, <2>1 DEF ChangeSource, TypeOK, RequestState, historyVars
<1>8. ASSUME NEW r \in Requests, ReadStatus(r)
      PROVE  TypeInv'
  <2>1. request' \in [Requests -> RequestState] /\ \A q \in Requests : Knows(request'[q])
    BY <1>8, <1>a, Blank DEF ReadStatus
  <2> QED BY <1>8, <2>1 DEF ReadStatus, TypeOK, RequestState, historyVars
<1>9. ASSUME NEW r \in Requests, ReadFact(r)
      PROVE  TypeInv'
  <2>1. PICK fact \in request[r].unread :
            request' = [request EXCEPT ![r].unread = @ \ {fact}, ![r].facts = @ \cup (Holding \cap {fact})]
    BY <1>9 DEF ReadFact
  <2> DEFINE x == [request[r] EXCEPT !.unread = @ \ {fact}, !.facts = @ \cup (Holding \cap {fact})]
  <2>2. Knows(x)
    <3> DEFINE y == request[r]
               facts == y.facts \cup (Holding \cap {fact})
    <3>1. Knows(y)
      BY <1>t
    <3>2. facts \subseteq Facts
      BY <1>t, <2>1 DEF RequestState
    <3> HIDE DEF y, facts
    <3>3. Knows([y EXCEPT !.unread = @ \ {fact}, !.facts = facts])
      BY <3>1, <3>2 DEF Knows, RequestState
    <3> QED BY <3>3 DEF y, facts
  <2>3. request' = [request EXCEPT ![r] = x]
    BY <2>1, <1>t
  <2> HIDE DEF x
  <2>4. request' \in [Requests -> RequestState] /\ \A q \in Requests : Knows(request'[q])
    BY <2>2, <2>3, <1>a
  <2> QED BY <1>9, <2>4 DEF ReadFact, TypeOK, RequestState, historyVars
<1>10. ASSUME NEW r \in Requests, Upsert(r)
       PROVE  TypeInv'
  <2>1. request[r].facts \subseteq Facts /\ request[r].late \in BOOLEAN
    BY <1>t DEF RequestState
  <2> QED BY <1>10, <1>b, <2>1 DEF Upsert, TypeOK, RequestState
<1>11. ASSUME NEW r \in Requests, Fails(r)
       PROVE  TypeInv'
  <2>1. crossed' \subseteq Listings
    BY <1>11, <1>t DEF Fails, Knows, TypeOK
  <2> QED BY <1>11, <1>b, <2>1 DEF Fails, TypeOK, RequestState
<1>12. CASE UNCHANGED vars
  BY <1>12 DEF vars, TypeOK, Knows
<1> QED BY <1>1, <1>2, <1>3, <1>4, <1>5, <1>6, <1>7, <1>8, <1>9, <1>10, <1>11, <1>12 DEF Next

------------------------------------------------------------------------------
(* One row per channel.                                                    *)

\* Request r has found no row for channel c of listing l, and will insert one.
Inserts(r, l, c) == /\ request[r].pc = "write" /\ request[r].row = Nil
                    /\ request[r].listing = l /\ request[r].channel = c

\* A row that was found stays where it is, and of a channel that is not doubled
\* there is one row, or one request that inserts it, at most.
RowsInv ==
    /\ \A r \in Requests :
          request[r].pc = "write" /\ request[r].row # Nil
              => request[r].row \in RowsOf(request[r].listing, request[r].channel)
    /\ \A l \in Listings, c \in Channels : <<l, c>> \notin doubled =>
          /\ \A j, k \in RowsOf(l, c) : j = k
          /\ \A r \in Requests : Inserts(r, l, c) =>
                /\ RowsOf(l, c) = {}
                /\ \A q \in Requests : Inserts(q, l, c) => q = r

\* What neither moves a row nor brings a request to its write.
LEMMA RowsKept ==
    ASSUME RowsInv, doubled' = doubled,
           \A l, c : RowsOf(l, c)' = RowsOf(l, c),
           \A q \in Requests : request'[q].pc = "write" =>
               /\ request[q].pc = "write"
               /\ request'[q].row = request[q].row
               /\ request'[q].listing = request[q].listing
               /\ request'[q].channel = request[q].channel
    PROVE  RowsInv'
<1>1. \A q \in Requests : \A l, c : Inserts(q, l, c)' => Inserts(q, l, c)
  BY DEF Inserts
<1> QED BY <1>1 DEF RowsInv

LEMMA RowsNext ==
    ASSUME PublicationAssumption, TypeInv, RowsInv, [Next]_vars
    PROVE  RowsInv'
<1>t. /\ request \in [Requests -> RequestState]
      /\ publication \in [Rows -> RowState]
      /\ \A r \in Requests : Knows(request[r])
  BY DEF TypeInv, TypeOK, RequestState, RowState
<1>a. ASSUME UNCHANGED publication
      PROVE  \A l, c : RowsOf(l, c)' = RowsOf(l, c)
  BY <1>a DEF RowsOf
<1>b. ASSUME NEW r \in Requests, request' = Late(r)
      PROVE  \A q \in Requests : request'[q].pc = "write" =>
                 /\ request[q].pc = "write"
                 /\ request'[q].row = request[q].row
                 /\ request'[q].listing = request[q].listing
                 /\ request'[q].channel = request[q].channel
  BY <1>b, <1>t DEF Late, Idle
<1>1. ASSUME NEW r \in Requests, NEW kind, NEW l, NEW c, Begin(r, kind, l, c),
             UNCHANGED <<publication, doubled>>
      PROVE  RowsInv'
  <2>1. \A q \in Requests : request'[q].pc = "write" =>
            /\ request[q].pc = "write"
            /\ request'[q].row = request[q].row
            /\ request'[q].listing = request[q].listing
            /\ request'[q].channel = request[q].channel
    BY <1>1, <1>t DEF Begin, Idle, RequestState
  <2> QED BY <1>1, <1>a, <2>1, RowsKept
<1>2. ASSUME NEW r \in Requests, SetListing(r)
      PROVE  RowsInv'
  BY <1>2, <1>a, <1>t, RowsKept DEF SetListing, Goto, historyVars
<1>3. ASSUME NEW r \in Requests, FindRow(r)
      PROVE  RowsInv'
  <2> DEFINE a == request[r].listing
             d == request[r].channel
  <2>1. a \in Listings /\ d \in Channels
    BY <1>3, <1>t DEF FindRow, Knows
  <2>2. PICK k \in IF RowsOf(a, d) = {} THEN {Nil} ELSE RowsOf(a, d) :
            request' = [request EXCEPT ![r].pc = "write", ![r].row = k]
    BY <1>3 DEF FindRow
  <2>3. \A l, c : RowsOf(l, c)' = RowsOf(l, c)
    BY <1>3, <1>a DEF FindRow
  <2>4. request'[r].row = k /\ request'[r].listing = a /\ request'[r].channel = d
    BY <2>2, <1>t DEF RequestState
  <2>5. \A q \in Requests \ {r} : request'[q] = request[q]
    BY <2>2, <1>t
  <2>6. k = Nil <=> RowsOf(a, d) = {}
    BY <2>2 DEF RowsOf, PublicationAssumption
  <2>7. \A q \in Requests \ {r} : \A l, c : Inserts(q, l, c)' <=> Inserts(q, l, c)
    BY <2>5 DEF Inserts
  <2>8. \A l, c : Inserts(r, l, c)' => l = a /\ c = d /\ RowsOf(a, d) = {}
    BY <2>4, <2>6 DEF Inserts
  <2>9. \A q \in Requests \ {r} : Inserts(q, a, d) => <<a, d>> \in doubled'
    BY <1>3 DEF FindRow, Inserts
  <2>10. doubled \subseteq doubled'
    BY <1>3 DEF FindRow
  <2>11. ASSUME NEW q \in Requests, request'[q].pc = "write", request'[q].row # Nil
         PROVE  (request[q].row \in RowsOf(request[q].listing, request[q].channel))'
    <3>1. CASE q = r
      <4>1. k \in RowsOf(a, d)
        BY <3>1, <2>2, <2>4, <2>6, <2>11
      <4> QED BY <3>1, <4>1, <2>3, <2>4
    <3>2. CASE q # r
      BY <3>2, <2>3, <2>5, <2>11 DEF RowsInv
    <3> QED BY <3>1, <3>2
  <2>12. ASSUME NEW l \in Listings, NEW c \in Channels, <<l, c>> \notin doubled'
         PROVE  /\ \A i, j \in RowsOf(l, c) : i = j
                /\ \A q \in Requests : Inserts(q, l, c)' =>
                      /\ RowsOf(l, c) = {}
                      /\ \A p \in Requests : Inserts(p, l, c)' => p = q
    BY <2>7, <2>8, <2>9, <2>10, <2>12 DEF RowsInv
  <2> HIDE DEF a, d
  <2> QED BY <2>3, <2>11, <2>12 DEF RowsInv
<1>4. ASSUME NEW r \in Requests, WriteRow(r)
      PROVE  RowsInv'
  <2> DEFINE a == request[r].listing
             d == request[r].channel
  <2>1. a \in Listings /\ d \in Channels /\ a # Nil
    BY <1>4, <1>t DEF WriteRow, Knows, PublicationAssumption
  <2>2. PICK k \in IF request[r].row = Nil THEN FreeRows ELSE {request[r].row} : Activate(r, k)
    BY <1>4 DEF WriteRow
  <2>3. k \in Rows
    BY <2>2, <1>t DEF FreeRows, RequestState
  <2>4. \A l \in Listings, c \in Channels :
            RowsOf(l, c)' = IF l = a /\ c = d THEN RowsOf(a, d) \cup {k} ELSE RowsOf(l, c)
    <3>1. CASE request[r].row = Nil
      <4>1. publication[k].listing = Nil
        BY <2>2, <3>1 DEF FreeRows, NoRow
      <4>2. \A l \in Listings : \A c : k \notin RowsOf(l, c)
        BY <4>1 DEF RowsOf, PublicationAssumption
      <4>3. \A j \in Rows : publication'[j] = IF j = k THEN [listing |-> a, channel |-> d, active |-> TRUE]
                                                     ELSE publication[j]
        BY <2>2, <2>3, <1>t DEF Activate
      <4> QED BY <4>2, <4>3, <2>3 DEF RowsOf
    <3>2. CASE request[r].row # Nil
      <4>1. k \in RowsOf(a, d)
        BY <3>2, <2>2, <1>4 DEF RowsInv, WriteRow
      <4>2. \A j \in Rows : publication'[j] = IF j = k THEN [listing |-> a, channel |-> d, active |-> TRUE]
                                                     ELSE publication[j]
        BY <2>2, <2>3, <1>t DEF Activate
      <4> QED BY <4>1, <4>2 DEF RowsOf
    <3> QED BY <3>1, <3>2
  <2>5. request'[r].pc = "read" /\ \A q \in Requests \ {r} : request'[q] = request[q]
    BY <1>4, <1>t DEF WriteRow, Changed, Recalculation, Idle
  <2>6. \A q \in Requests : \A l, c : Inserts(q, l, c)' => q # r /\ Inserts(q, l, c)
    BY <2>5 DEF Inserts
  <2>7. ASSUME NEW q \in Requests, request'[q].pc = "write", request'[q].row # Nil
        PROVE  (request[q].row \in RowsOf(request[q].listing, request[q].channel))'
    <3>1. q # r /\ request'[q] = request[q]
      BY <2>5, <2>7
    <3>2. request[q].row \in RowsOf(request[q].listing, request[q].channel)
      BY <3>1, <2>7 DEF RowsInv
    <3>3. request[q].listing \in Listings /\ request[q].channel \in Channels
      BY <3>1, <2>7, <1>t DEF Knows
    <3> QED BY <3>1, <3>2, <3>3, <2>4
  <2>8. doubled' = doubled
    BY <1>4 DEF WriteRow
  <2>9. request[r].row = Nil => Inserts(r, a, d)
    BY <1>4 DEF WriteRow, Inserts
  <2>10. request[r].row # Nil => k \in RowsOf(a, d)
    BY <2>2, <1>4 DEF RowsInv, WriteRow
  <2> HIDE DEF a, d
  <2>11. ASSUME NEW l \in Listings, NEW c \in Channels, <<l, c>> \notin doubled
         PROVE  /\ \A i, j \in RowsOf(l, c)' : i = j
                /\ \A q \in Requests : Inserts(q, l, c)' =>
                      /\ RowsOf(l, c)' = {}
                      /\ \A p \in Requests : Inserts(p, l, c)' => p = q
    <3>1. CASE l = a /\ c = d
      <4>1. CASE Inserts(r, a, d)
        BY <4>1, <3>1, <2>4, <2>6, <2>11 DEF RowsInv
      <4>2. CASE ~Inserts(r, a, d)
        BY <4>2, <3>1, <2>4, <2>6, <2>9, <2>10, <2>11 DEF RowsInv
      <4> QED BY <4>1, <4>2
    <3>2. CASE ~(l = a /\ c = d)
      BY <3>2, <2>4, <2>6, <2>11 DEF RowsInv
    <3> QED BY <3>1, <3>2
  <2> QED BY <2>7, <2>8, <2>11 DEF RowsInv
<1>5. ASSUME NEW r \in Requests, HideRows(r)
      PROVE  RowsInv'
  <2>1. \A l, c : RowsOf(l, c)' = RowsOf(l, c)
    BY <1>5, <1>t DEF HideRows, RowsOf, RowState
  <2> QED BY <1>5, <2>1, <1>t, RowsKept DEF HideRows, Changed, Recalculation, Idle
<1>6. ASSUME NEW r \in Requests, NEW source \in Sources, ChangeSource(r, source)
      PROVE  RowsInv'
  BY <1>6, <1>a, <1>t, RowsKept DEF ChangeSource, historyVars, Recalculation, Idle
<1>7. ASSUME NEW r \in Requests, ReadStatus(r)
      PROVE  RowsInv'
  BY <1>7, <1>a, <1>t, RowsKept DEF ReadStatus, historyVars, Recalculation, Idle
<1>8. ASSUME NEW r \in Requests, ReadFact(r)
      PROVE  RowsInv'
  BY <1>8, <1>a, <1>t, RowsKept DEF ReadFact, historyVars, RequestState
<1>9. ASSUME NEW r \in Requests, Upsert(r) \/ Fails(r)
      PROVE  RowsInv'
  BY <1>9, <1>a, <1>b, RowsKept DEF Upsert, Fails
<1>10. CASE UNCHANGED vars
  BY <1>10, <1>a, RowsKept DEF vars
<1> QED BY <1>1, <1>2, <1>3, <1>4, <1>5, <1>6, <1>7, <1>8, <1>9, <1>10
        DEF Next, Publish, Unpublish, historyVars

------------------------------------------------------------------------------
(* The listing's status and its rows.                                      *)

ActiveOf(l) == \E k \in ActiveRows : publication[k].listing = l
Agrees(l) == listing[l] = "active" <=> ActiveOf(l)

\* A request without an opposite one has the listing as it set it; opposite requests
\* know of one another; and a listing agrees with its rows whenever every request on
\* it has yet to change it, unless it is crossed.
StatusInv ==
    /\ \A r \in Requests : request[r].alone =>
          /\ request[r].pc \in {"find", "write"} => listing[request[r].listing] = "active"
          /\ request[r].pc = "hide" => listing[request[r].listing] = "inactive"
    /\ \A l \in Listings : \A q, r \in Changing(l) :
          request[q].kind # request[r].kind => ~request[r].alone
    /\ \A l \in Listings \ crossed :
          (\A r \in Changing(l) : request[r].pc = "listing") => Agrees(l)

LEMMA StatusInit ==
    ASSUME PublicationAssumption, Init
    PROVE  StatusInv
BY DEF PublicationAssumption, Init, StatusInv, Idle, Changing, Agrees, ActiveOf, ActiveRows, NoRow

\* What a step leaves of a request that changes a listing, when it neither begins nor
\* changes anything.
Leaves(x, y) ==
    \/ x.pc \in {"idle", "read"} /\ y.pc \in {"idle", "read"}
    \/ /\ y.pc = x.pc \/ (x.pc = "find" /\ y.pc = "write")
       /\ y.kind = x.kind /\ y.listing = x.listing /\ y.alone = x.alone
    \/ /\ x.pc \in {"listing", "find", "write", "hide"} /\ y.pc = "idle"
       /\ x.pc = "listing" \/ x.listing \in crossed'

LEMMA StatusKept ==
    ASSUME PublicationAssumption, TypeInv, TypeInv', StatusInv,
           UNCHANGED <<listing, publication>>, crossed \subseteq crossed',
           \A q \in Requests : Leaves(request[q], request'[q])
    PROVE  StatusInv'
<1>t. \A r \in Requests : Knows(request[r]) /\ Knows(request'[r])
  BY DEF TypeInv
<1>1. \A l \in Listings : \A q \in Changing(l)' :
          /\ q \in Changing(l)
          /\ request'[q].kind = request[q].kind /\ request'[q].alone = request[q].alone
          /\ request'[q].pc = request[q].pc \/ (request[q].pc = "find" /\ request'[q].pc = "write")
  BY <1>t DEF Changing, Leaves, Knows, PublicationAssumption, RequestState
<1>2. \A l \in Listings \ crossed' : \A q \in Changing(l) :
          q \in Changing(l)' \/ request[q].pc = "listing"
  BY <1>t DEF Changing, Leaves, Knows, PublicationAssumption, RequestState
<1>3. ASSUME NEW r \in Requests, request'[r].alone
      PROVE  /\ request'[r].pc \in {"find", "write"} => listing[request'[r].listing] = "active"
             /\ request'[r].pc = "hide" => listing[request'[r].listing] = "inactive"
  <2>1. CASE request'[r].pc \in {"find", "write", "hide"}
    <3>1. /\ request[r].alone /\ request'[r].listing = request[r].listing
          /\ request'[r].pc = request[r].pc \/ (request[r].pc = "find" /\ request'[r].pc = "write")
      BY <1>3, <2>1 DEF Leaves
    <3> QED BY <3>1, <2>1 DEF StatusInv
  <2> QED BY <2>1
<1>4. ASSUME NEW l \in Listings, NEW q \in Changing(l)', NEW r \in Changing(l)',
             request'[q].kind # request'[r].kind
      PROVE  ~request'[r].alone
  BY <1>1, <1>4 DEF StatusInv
<1>5. ASSUME NEW l \in Listings \ crossed', \A r \in Changing(l)' : request'[r].pc = "listing"
      PROVE  Agrees(l)'
  <2>1. \A r \in Changing(l) : request[r].pc = "listing"
    BY <1>1, <1>2, <1>5
  <2>2. Agrees(l)' <=> Agrees(l)
    BY DEF Agrees, ActiveOf, ActiveRows
  <2> QED BY <2>1, <2>2 DEF StatusInv
<1> QED BY <1>3, <1>4, <1>5 DEF StatusInv

\* Begin: the new request and the opposite ones come to know of one another.
LEMMA StatusBegin ==
    ASSUME PublicationAssumption, TypeInv, StatusInv,
           NEW r \in Requests, NEW kind \in {"publish", "unpublish"}, NEW l \in Listings,
           NEW c \in Channels \cup {Nil}, Begin(r, kind, l, c),
           UNCHANGED <<listing, publication, crossed>>
    PROVE  StatusInv'
<1> DEFINE others == {q \in Changing(l) : request[q].kind # kind}
<1>t. request \in [Requests -> RequestState] /\ \A q \in Requests : Knows(request[q])
  BY DEF TypeInv, TypeOK, RequestState
<1>1. /\ request[r].pc = "idle"
      /\ request'[r].pc = "listing" /\ request'[r].kind = kind /\ request'[r].listing = l
      /\ request'[r].alone = (others = {})
  BY <1>t DEF Begin, Idle
<1>2. \A q \in Requests \ {r} : /\ request'[q].pc = request[q].pc
                                /\ request'[q].kind = request[q].kind
                                /\ request'[q].listing = request[q].listing
                                /\ request'[q].alone = (request[q].alone /\ q \notin others)
  <2>1. ASSUME NEW q \in Requests \ {r}
        PROVE  request'[q] = IF q \in others THEN [request[q] EXCEPT !.alone = FALSE] ELSE request[q]
    BY DEF Begin
  <2> HIDE DEF others
  <2>2. \A q \in Requests : request[q].alone \in BOOLEAN /\ request[q] \in RequestState
    BY <1>t DEF RequestState
  <2>3. ASSUME NEW q \in Requests \ {r}
        PROVE  /\ request'[q].pc = request[q].pc
               /\ request'[q].kind = request[q].kind
               /\ request'[q].listing = request[q].listing
               /\ request'[q].alone = (request[q].alone /\ q \notin others)
    <3>1. CASE q \in others
      BY <3>1, <2>1, <2>2 DEF RequestState
    <3>2. CASE q \notin others
      BY <3>2, <2>1, <2>2
    <3> QED BY <3>1, <3>2
  <2> QED BY <2>3
<1>3. r \notin others
  BY <1>1, <1>t DEF Changing, Knows, PublicationAssumption
<1>8. \A m \in Listings : r \notin Changing(m)
  BY <1>1, <1>t DEF Changing, Knows, PublicationAssumption
<1>4. \A m \in Listings : Changing(m)' = IF m = l THEN Changing(l) \cup {r} ELSE Changing(m)
  BY <1>8, <1>1, <1>2 DEF Changing
<1>5. ASSUME NEW q \in Requests, request'[q].alone
      PROVE  /\ request'[q].pc \in {"find", "write"} => listing[request'[q].listing] = "active"
             /\ request'[q].pc = "hide" => listing[request'[q].listing] = "inactive"
  <2>1. CASE q = r
    BY <2>1, <1>1
  <2>2. CASE q # r
    <3>1. request[q].alone /\ request'[q].pc = request[q].pc
                           /\ request'[q].listing = request[q].listing
      BY <2>2, <1>2, <1>5
    <3> QED BY <3>1 DEF StatusInv
  <2> QED BY <2>1, <2>2
<1>6. ASSUME NEW m \in Listings, NEW p \in Changing(m)', NEW q \in Changing(m)',
             request'[p].kind # request'[q].kind
      PROVE  ~request'[q].alone
  <2>1. p \in Requests /\ q \in Requests
    BY DEF Changing
  <2>2. CASE p # r /\ q # r
    <3>1. p \in Changing(m) /\ q \in Changing(m)
      BY <1>4, <2>2
    <3>2. request[p].kind # request[q].kind
      BY <1>2, <1>6, <2>1, <2>2
    <3>3. ~request[q].alone
      BY <3>1, <3>2 DEF StatusInv
    <3> QED BY <3>3, <1>2, <2>1, <2>2
  <2>3. CASE p = r
    <3>1. q # r /\ m = l /\ q \in Changing(l)
      BY <1>1, <1>4, <1>6, <1>8, <2>3
    <3>2. q \in others
      BY <1>1, <1>2, <1>6, <2>1, <2>3, <3>1
    <3> QED BY <3>1, <3>2, <1>2, <2>1
  <2>4. CASE q = r /\ p # r
    <3>1. m = l /\ p \in Changing(l)
      BY <1>4, <1>8, <2>4
    <3>2. p \in others
      BY <1>1, <1>2, <1>6, <2>1, <2>4, <3>1
    <3> QED BY <3>2, <1>1, <2>4
  <2> QED BY <2>2, <2>3, <2>4
<1>7. ASSUME NEW m \in Listings \ crossed', \A q \in Changing(m)' : request'[q].pc = "listing"
      PROVE  Agrees(m)'
  <2>1. \A q \in Changing(m) : q \in Requests /\ q # r
    BY <1>1, <1>t DEF Changing, Knows, PublicationAssumption
  <2>2. \A q \in Changing(m) : request[q].pc = "listing"
    BY <1>2, <1>4, <1>7, <2>1
  <2>3. Agrees(m)' <=> Agrees(m)
    BY DEF Agrees, ActiveOf, ActiveRows
  <2> QED BY <2>2, <2>3 DEF StatusInv
<1> QED BY <1>5, <1>6, <1>7 DEF StatusInv

LEMMA StatusNext ==
    ASSUME PublicationAssumption, TypeInv, TypeInv', RowsInv, StatusInv, [Next]_vars
    PROVE  StatusInv'
<1>t. /\ request \in [Requests -> RequestState]
      /\ publication \in [Rows -> RowState]
      /\ \A r \in Requests : Knows(request[r])
  BY DEF TypeInv, TypeOK, RequestState, RowState
\* The rows of one listing are changed as its request asks, and those of others kept.
<1>a. ASSUME NEW r \in Requests, request[r].pc \in {"write", "hide"}, Changed(r),
             UNCHANGED listing,
             \A m \in Listings : ActiveOf(m)' <=> IF m = request[r].listing THEN request[r].pc = "write"
                                                                        ELSE ActiveOf(m)
      PROVE  StatusInv'
  <2> DEFINE a == request[r].listing
  <2>1. a \in Listings /\ a # Nil
    BY <1>a, <1>t DEF Knows, PublicationAssumption
  <2>2. request'[r].pc = "read" /\ \A q \in Requests \ {r} : request'[q] = request[q]
    BY <1>a, <1>t DEF Changed, Recalculation, Idle
  <2>3. \A m \in Listings : Changing(m)' = Changing(m) \ {r}
    BY <2>2 DEF Changing
  <2>4. \A m \in Listings \ {a} : r \notin Changing(m) /\ (m \in crossed' <=> m \in crossed)
    BY <1>a DEF Changed, Changing
  <2>5. ASSUME NEW q \in Requests, request'[q].alone
        PROVE  /\ request'[q].pc \in {"find", "write"} => listing'[request'[q].listing] = "active"
               /\ request'[q].pc = "hide" => listing'[request'[q].listing] = "inactive"
    BY <1>a, <2>2, <2>5 DEF StatusInv
  <2>6. ASSUME NEW m \in Listings, NEW p \in Changing(m)', NEW q \in Changing(m)',
               request'[p].kind # request'[q].kind
        PROVE  ~request'[q].alone
    <3>1. p \in Changing(m) \ {r} /\ q \in Changing(m) \ {r} /\ p \in Requests /\ q \in Requests
      BY <2>3 DEF Changing
    <3> QED BY <3>1, <2>2, <2>6 DEF StatusInv
  <2>7. ASSUME NEW m \in Listings \ crossed', \A q \in Changing(m)' : request'[q].pc = "listing"
        PROVE  Agrees(m)'
    <3>1. CASE m = a
      <4>1. request[r].alone
        BY <3>1, <2>7, <1>a DEF Changed
      <4>2. listing[a] = IF request[r].pc = "write" THEN "active" ELSE "inactive"
        BY <4>1, <1>a DEF StatusInv
      <4>3. ActiveOf(m)' <=> request[r].pc = "write"
        BY <1>a, <3>1
      <4>4. listing'[a] = "active" <=> request[r].pc = "write"
        BY <4>2, <1>a
      <4> QED BY <3>1, <4>3, <4>4 DEF Agrees
    <3>2. CASE m # a
      <4>1. \A q \in Changing(m) : request[q].pc = "listing"
        <5> SUFFICES ASSUME NEW q \in Changing(m)
                     PROVE  request[q].pc = "listing"
          OBVIOUS
        <5>1. q \in Requests /\ q # r
          BY <3>2, <2>4 DEF Changing
        <5> QED BY <5>1, <2>2, <2>3, <2>7
      <4>2. Agrees(m)
        BY <4>1, <3>2, <2>4, <2>7 DEF StatusInv
      <4> QED BY <4>2, <3>2, <1>a DEF Agrees
    <3> QED BY <3>1, <3>2
  <2> QED BY <2>5, <2>6, <2>7 DEF StatusInv
<1>b. ASSUME NEW r \in Requests, request' = Late(r)
      PROVE  \A q \in Requests \ {r} :
                 /\ request'[q].pc = request[q].pc /\ request'[q].kind = request[q].kind
                 /\ request'[q].listing = request[q].listing
                 /\ request'[q].alone = request[q].alone
  BY <1>b, <1>t DEF Late, RequestState
<1>1. ASSUME NEW r \in Requests, NEW l \in Listings, NEW c \in Channels, Publish(r, l, c)
      PROVE  StatusInv'
  BY <1>1, StatusBegin DEF Publish, historyVars
<1>2. ASSUME NEW r \in Requests, NEW l \in Listings, Unpublish(r, l)
      PROVE  StatusInv'
  BY <1>2, StatusBegin DEF Unpublish, historyVars
<1>3. ASSUME NEW r \in Requests, SetListing(r)
      PROVE  StatusInv'
  <2> DEFINE a == request[r].listing
             publishes == request[r].kind = "publish"
  <2>1. a \in Listings /\ request[r].pc = "listing" /\ r \in Changing(a)
    BY <1>3, <1>t DEF SetListing, Knows, Changing
  <2>2. request' = [request EXCEPT ![r].pc = IF publishes THEN "find" ELSE "hide"]
    BY <1>3 DEF SetListing, Goto
  <2>3. /\ request'[r].pc = IF publishes THEN "find" ELSE "hide"
        /\ request'[r].kind = request[r].kind /\ request'[r].listing = a
        /\ request'[r].alone = request[r].alone
        /\ \A q \in Requests \ {r} : request'[q] = request[q]
    BY <2>2, <1>t DEF RequestState
  <2>4. listing' = [listing EXCEPT ![a] = IF publishes THEN "active" ELSE "inactive"]
    BY <1>3 DEF SetListing
  <2>5. listing'[a] = IF publishes THEN "active" ELSE "inactive"
    BY <2>1, <2>4 DEF TypeInv, TypeOK
  <2>6. \A m \in Listings \ {a} : listing'[m] = listing[m]
    BY <2>4 DEF TypeInv, TypeOK
  <2>7. \A m \in Listings : Changing(m)' = Changing(m)
    BY <2>1, <2>3 DEF Changing
  <2>8. UNCHANGED <<publication, crossed>>
    BY <1>3 DEF SetListing, historyVars
  <2>9. \A q \in Requests \ {r} :
            (request[q].listing = a /\ request[q].pc \in {"find", "write", "hide"} /\ request[q].alone)
                => request[q].kind = request[r].kind
    <3>1. \A q \in Requests : (request[q].listing = a /\ request[q].pc \in {"find", "write", "hide"})
                                  => q \in Changing(a)
      BY DEF Changing
    <3> QED BY <2>1, <3>1 DEF StatusInv
  <2> HIDE DEF a
  <2>10. ASSUME NEW q \in Requests, request'[q].alone
         PROVE  /\ request'[q].pc \in {"find", "write"} => listing'[request'[q].listing] = "active"
                /\ request'[q].pc = "hide" => listing'[request'[q].listing] = "inactive"
    <3>1. CASE q = r
      BY <3>1, <2>3, <2>5
    <3>2. CASE q # r /\ request[q].listing = a
      BY <3>2, <2>3, <2>5, <2>9, <2>10, <1>t DEF Knows
    <3>3. CASE q # r /\ request[q].listing # a
      <4>1. request[q].pc \in {"find", "write", "hide"} => request[q].listing \in Listings
        BY <1>t DEF Knows
      <4> QED BY <4>1, <3>3, <2>3, <2>6, <2>10 DEF StatusInv
    <3> QED BY <3>1, <3>2, <3>3
  <2>11. ASSUME NEW m \in Listings, NEW p \in Changing(m)', NEW q \in Changing(m)',
                request'[p].kind # request'[q].kind
         PROVE  ~request'[q].alone
    <3>1. \A s \in Requests : request'[s].kind = request[s].kind /\ request'[s].alone = request[s].alone
      BY <2>3
    <3>2. p \in Changing(m) /\ q \in Changing(m) /\ p \in Requests /\ q \in Requests
      BY <2>7 DEF Changing
    <3>3. ~request[q].alone
      BY <3>1, <3>2, <2>11 DEF StatusInv
    <3> QED BY <3>1, <3>2, <3>3
  <2>12. ASSUME NEW m \in Listings \ crossed', \A q \in Changing(m)' : request'[q].pc = "listing"
         PROVE  Agrees(m)'
    <3>1. m # a
      BY <2>1, <2>3, <2>7, <2>12
    <3>2. \A q \in Changing(m) : request[q].pc = "listing"
      <4> SUFFICES ASSUME NEW q \in Changing(m)
                   PROVE  request[q].pc = "listing"
        OBVIOUS
      <4>1. q \in Requests
        BY DEF Changing
      <4> QED BY <4>1, <2>1, <2>3, <2>7, <2>12
    <3>3. Agrees(m)
      BY <3>2, <2>8, <2>12 DEF StatusInv
    <3> QED BY <3>1, <3>3, <2>6, <2>8 DEF Agrees, ActiveOf, ActiveRows
  <2> QED BY <2>10, <2>11, <2>12 DEF StatusInv
<1>4. ASSUME NEW r \in Requests, FindRow(r)
      PROVE  StatusInv'
  <2>1. PICK k : request' = [request EXCEPT ![r].pc = "write", ![r].row = k]
    BY <1>4 DEF FindRow
  <2>2. /\ request'[r].pc = "write" /\ request'[r].kind = request[r].kind
        /\ request'[r].listing = request[r].listing /\ request'[r].alone = request[r].alone
        /\ \A q \in Requests \ {r} : request'[q] = request[q]
    BY <2>1, <1>t DEF RequestState
  <2>3. \A q \in Requests : Leaves(request[q], request'[q])
    BY <2>2, <1>4 DEF Leaves, FindRow
  <2> QED BY <1>4, <2>3, StatusKept DEF FindRow
<1>5. ASSUME NEW r \in Requests, WriteRow(r)
      PROVE  StatusInv'
  <2> DEFINE a == request[r].listing
             d == request[r].channel
  <2>1. a \in Listings /\ request[r].row \in Rows \cup {Nil}
    BY <1>5, <1>t DEF WriteRow, Knows, RequestState
  <2>2. PICK k \in IF request[r].row = Nil THEN FreeRows ELSE {request[r].row} : Activate(r, k)
    BY <1>5 DEF WriteRow
  <2>3. k \in Rows
    BY <2>2, <2>1 DEF FreeRows
  <2>4. publication[k].listing \in {Nil, a}
    <3>1. CASE request[r].row = Nil
      BY <3>1, <2>2 DEF FreeRows, NoRow
    <3>2. CASE request[r].row # Nil
      BY <3>2, <2>2, <1>5 DEF RowsInv, WriteRow, RowsOf
    <3> QED BY <3>1, <3>2
  <2>5. /\ publication'[k].listing = a /\ publication'[k].active
        /\ \A j \in Rows \ {k} : publication'[j] = publication[j]
    BY <2>2, <2>3, <1>t DEF Activate
  <2>6. ASSUME NEW m \in Listings
        PROVE  ActiveOf(m)' <=> IF m = a THEN request[r].pc = "write" ELSE ActiveOf(m)
    <3>1. CASE m = a
      BY <3>1, <1>5, <2>3, <2>5 DEF ActiveOf, ActiveRows, WriteRow
    <3>2. CASE m # a
      BY <3>2, <2>3, <2>4, <2>5 DEF ActiveOf, ActiveRows, PublicationAssumption
    <3> QED BY <3>1, <3>2
  <2>8. request[r].pc = "write" /\ Changed(r) /\ UNCHANGED listing
    BY <1>5 DEF WriteRow
  <2> QED BY <1>a, <2>6, <2>8
<1>6. ASSUME NEW r \in Requests, HideRows(r)
      PROVE  StatusInv'
  <2> DEFINE a == request[r].listing
  <2>1. \A j \in Rows : /\ publication'[j].listing = publication[j].listing
                        /\ publication'[j].active = (publication[j].active /\ publication[j].listing # a)
    BY <1>6, <1>t DEF HideRows, RowState
  <2>2. ASSUME NEW m \in Listings
        PROVE  ActiveOf(m)' <=> IF m = a THEN request[r].pc = "write" ELSE ActiveOf(m)
    <3>1. CASE m = a
      BY <3>1, <1>6, <2>1 DEF ActiveOf, ActiveRows, HideRows
    <3>2. CASE m # a
      BY <3>2, <2>1 DEF ActiveOf, ActiveRows
    <3> QED BY <3>1, <3>2
  <2>4. request[r].pc = "hide" /\ Changed(r) /\ UNCHANGED listing
    BY <1>6 DEF HideRows
  <2> QED BY <1>a, <2>2, <2>4
<1>7. ASSUME NEW r \in Requests, NEW source \in Sources, ChangeSource(r, source)
      PROVE  StatusInv'
  <2>1. \A q \in Requests : Leaves(request[q], request'[q])
    BY <1>7, <1>t DEF ChangeSource, Leaves, Recalculation, Idle
  <2> QED BY <1>7, <2>1, StatusKept DEF ChangeSource, historyVars
<1>8. ASSUME NEW r \in Requests, ReadStatus(r)
      PROVE  StatusInv'
  <2>1. \A q \in Requests : Leaves(request[q], request'[q])
    BY <1>8, <1>t DEF ReadStatus, Leaves, Recalculation, Idle
  <2> QED BY <1>8, <2>1, StatusKept DEF ReadStatus, historyVars
<1>9. ASSUME NEW r \in Requests, ReadFact(r)
      PROVE  StatusInv'
  <2>1. /\ request[r].pc = "read" /\ request'[r].pc = "read"
        /\ \A q \in Requests \ {r} : request'[q] = request[q]
    BY <1>9, <1>t DEF ReadFact, RequestState
  <2>2. \A q \in Requests : Leaves(request[q], request'[q])
    BY <2>1 DEF Leaves
  <2> QED BY <1>9, <2>2, StatusKept DEF ReadFact, historyVars
<1>10. ASSUME NEW r \in Requests, Upsert(r)
       PROVE  StatusInv'
  <2>1. Leaves(request[r], request'[r])
    BY <1>10, <1>t DEF Upsert, Late, Leaves, Idle
  <2>2. \A q \in Requests : Leaves(request[q], request'[q])
    BY <1>10, <1>b, <2>1 DEF Upsert, Leaves
  <2> QED BY <1>10, <2>2, StatusKept DEF Upsert
<1>11. ASSUME NEW r \in Requests, Fails(r)
       PROVE  StatusInv'
  <2>1. request'[r].pc = "idle" /\ request[r].pc # "idle" /\ request[r] \in RequestState
    BY <1>11, <1>t DEF Fails, Late, Idle
  <2>2. crossed \subseteq crossed'
    BY <1>11 DEF Fails
  <2>4. /\ request[r].pc \in {"listing", "find", "write", "hide", "read"}
        /\ request[r].pc \in {"find", "write", "hide"} => request[r].listing \in crossed'
    BY <1>11, <2>1 DEF Fails, RequestState
  <2>5. Leaves(request[r], request'[r])
    BY <2>1, <2>4 DEF Leaves
  <2>3. \A q \in Requests : Leaves(request[q], request'[q])
    BY <1>11, <1>b, <2>5 DEF Fails, Leaves
  <2> QED BY <1>11, <2>2, <2>3, StatusKept DEF Fails
<1>12. CASE UNCHANGED vars
  BY <1>12, StatusKept DEF vars, Leaves
<1> QED BY <1>1, <1>2, <1>3, <1>4, <1>5, <1>6, <1>7, <1>8, <1>9, <1>10, <1>11, <1>12 DEF Next

------------------------------------------------------------------------------
(* The onboarding row.                                                     *)

\* A recalculation follows a change.
Follows(r) == request[r].pc = "read" /\ request[r].kind = "event"

\* What a recalculation has read is still the case.
Fresh(r) == request[r].facts = Holding \ request[r].unread

\* A recalculation, or the row, that missed a change is followed by another
\* recalculation, unless it is known to be out of date.
FactsInv ==
    /\ \A r \in Requests : request[r].pc = "read" /\ ~request[r].late =>
          Fresh(r) \/ \E q \in Requests \ {r} : Follows(q)
    /\ onboarding.exists /\ ~stale =>
          onboarding.facts = Holding \/ \E q \in Requests : Follows(q)

\* A step that no recalculation notices.
LEMMA FactsKept ==
    ASSUME FactsInv, UNCHANGED <<onboarding, stale>>, Holding' = Holding,
           \A q \in Requests : (request[q].pc = "read" \/ request'[q].pc = "read")
                                   => request'[q] = request[q]
    PROVE  FactsInv'
<1>1. \A q \in Requests : Follows(q)' <=> Follows(q)
  BY DEF Follows
<1>2. \A q \in Requests : request[q].pc = "read" => (Fresh(q)' <=> Fresh(q))
  BY DEF Fresh
<1> QED BY <1>1, <1>2 DEF FactsInv

\* A change, which is followed by a recalculation.
LEMMA FactsChange ==
    ASSUME PublicationAssumption, TypeInv, TypeInv', FactsInv, UNCHANGED <<onboarding, stale>>,
           NEW r \in Requests, request[r].pc # "read",
           request' = [request EXCEPT ![r] = Recalculation("event")]
    PROVE  FactsInv'
<1>t. request \in [Requests -> RequestState]
  BY DEF TypeInv, TypeOK, RequestState
<1>1. request'[r] = Recalculation("event") /\ \A q \in Requests \ {r} : request'[q] = request[q]
  BY <1>t
<1>2. Follows(r)'
  BY <1>1, Begins DEF Follows
<1>3. Holding' \subseteq Facts
  BY DEF TypeInv, TypeOK, Holding, Facts
<1>4. request'[r].facts = {} /\ request'[r].unread = Facts
  BY <1>1, Begins
<1>5. Fresh(r)'
  BY <1>3, <1>4 DEF Fresh
<1>6. \A q \in Requests : request'[q].pc = "read" /\ ~request'[q].late =>
          Fresh(q)' \/ \E p \in Requests \ {q} : Follows(p)'
  BY <1>2, <1>5
<1> QED BY <1>2, <1>6 DEF FactsInv

\* A request comes to its end: the others that read are late.
LEMMA FactsLate ==
    ASSUME PublicationAssumption, TypeInv, NEW r \in Requests, request' = Late(r)
    PROVE  /\ \A q \in Requests : request'[q].pc = "read" => request'[q].late
           /\ \A q \in Requests \ {r} : Follows(q) => Follows(q)'
<1>t. request \in [Requests -> RequestState]
  BY DEF TypeInv, TypeOK, RequestState
<1> QED BY <1>t DEF Late, Follows, Idle, RequestState

LEMMA FactsNext ==
    ASSUME PublicationAssumption, TypeInv, TypeInv', FactsInv, [Next]_vars
    PROVE  FactsInv'
<1>t. request \in [Requests -> RequestState] /\ \A r \in Requests : Knows(request[r])
  BY DEF TypeInv, TypeOK, RequestState
<1>1. ASSUME NEW r \in Requests, NEW kind, NEW l, NEW c, Begin(r, kind, l, c),
             UNCHANGED <<publication, ready, onboarding, stale>>
      PROVE  FactsInv'
  <2>1. \A q \in Requests : (request[q].pc = "read" \/ request'[q].pc = "read")
                                => request'[q] = request[q]
    BY <1>1, <1>t DEF Begin, Idle, Changing, RequestState
  <2>2. Holding' = Holding
    BY <1>1 DEF Holding, ActiveRows
  <2> QED BY <1>1, <2>1, <2>2, FactsKept
<1>2. ASSUME NEW r \in Requests, SetListing(r) \/ FindRow(r)
      PROVE  FactsInv'
  <2>1. \A q \in Requests : (request[q].pc = "read" \/ request'[q].pc = "read")
                                => request'[q] = request[q]
    BY <1>2, <1>t DEF SetListing, FindRow, Goto, RequestState
  <2>2. Holding' = Holding /\ UNCHANGED <<onboarding, stale>>
    BY <1>2 DEF Holding, ActiveRows, SetListing, FindRow, historyVars
  <2> QED BY <2>1, <2>2, FactsKept
<1>3. ASSUME NEW r \in Requests, WriteRow(r) \/ HideRows(r)
      PROVE  FactsInv'
  <2>1. /\ request[r].pc # "read" /\ UNCHANGED <<onboarding, stale>>
        /\ request' = [request EXCEPT ![r] = Recalculation("event")]
    BY <1>3 DEF WriteRow, HideRows, Changed
  <2> QED BY <2>1, FactsChange
<1>4. ASSUME NEW r \in Requests, NEW source \in Sources, ChangeSource(r, source)
      PROVE  FactsInv'
  <2>1. /\ request[r].pc # "read" /\ UNCHANGED <<onboarding, stale>>
        /\ request' = [request EXCEPT ![r] = Recalculation("event")]
    BY <1>4 DEF ChangeSource, historyVars
  <2> QED BY <2>1, FactsChange
<1>5. ASSUME NEW r \in Requests, ReadStatus(r)
      PROVE  FactsInv'
  <2>1. /\ request'[r] = Recalculation("status") /\ request[r].pc = "idle"
        /\ \A q \in Requests \ {r} : request'[q] = request[q]
    BY <1>5, <1>t DEF ReadStatus
  <2>2. Holding' = Holding /\ Holding \subseteq Facts
    BY <1>5 DEF ReadStatus, Holding, ActiveRows, TypeInv, TypeOK, Facts
  <2>3. request'[r].facts = {} /\ request'[r].unread = Facts
    BY <2>1, Begins
  <2>4. Fresh(r)'
    BY <2>2, <2>3 DEF Fresh
  <2>5. \A q \in Requests \ {r} : /\ Follows(q)' <=> Follows(q)
                                  /\ Fresh(q)' <=> Fresh(q)
    BY <2>1, <2>2 DEF Follows, Fresh
  <2>6. ~Follows(r)
    BY <2>1 DEF Follows
  <2>7. ~onboarding'.exists
    BY <1>5 DEF ReadStatus
  <2>8. ASSUME NEW q \in Requests, request'[q].pc = "read", ~request'[q].late
        PROVE  Fresh(q)' \/ \E p \in Requests \ {q} : Follows(p)'
    BY <2>1, <2>4, <2>5, <2>6, <2>8 DEF FactsInv
  <2> QED BY <2>7, <2>8 DEF FactsInv
<1>6. ASSUME NEW r \in Requests, ReadFact(r)
      PROVE  FactsInv'
  <2>1. PICK fact \in request[r].unread :
            request' = [request EXCEPT ![r].unread = @ \ {fact}, ![r].facts = @ \cup (Holding \cap {fact})]
    BY <1>6 DEF ReadFact
  <2>2. /\ request'[r].pc = request[r].pc /\ request'[r].kind = request[r].kind
        /\ request'[r].late = request[r].late
        /\ request'[r].unread = request[r].unread \ {fact}
        /\ request'[r].facts = request[r].facts \cup (Holding \cap {fact})
        /\ \A q \in Requests \ {r} : request'[q] = request[q]
    BY <2>1, <1>t DEF RequestState
  <2>3. Holding' = Holding /\ UNCHANGED <<onboarding, stale>>
    BY <1>6 DEF ReadFact, Holding, ActiveRows, historyVars
  <2>4. \A q \in Requests : Follows(q)' <=> Follows(q)
    BY <2>2 DEF Follows
  <2>5. Fresh(r) => Fresh(r)'
    BY <2>2, <2>3 DEF Fresh
  <2>6. \A q \in Requests \ {r} : Fresh(q)' <=> Fresh(q)
    BY <2>2, <2>3 DEF Fresh
  <2>7. ASSUME NEW q \in Requests, request'[q].pc = "read", ~request'[q].late
        PROVE  Fresh(q)' \/ \E p \in Requests \ {q} : Follows(p)'
    BY <2>2, <2>4, <2>5, <2>6, <2>7 DEF FactsInv
  <2> QED BY <2>3, <2>4, <2>7 DEF FactsInv
<1>7. ASSUME NEW r \in Requests, Upsert(r)
      PROVE  FactsInv'
  <2>1. /\ request[r].pc = "read" /\ request[r].unread = {}
        /\ onboarding' = [exists |-> TRUE, facts |-> request[r].facts]
        /\ stale' = request[r].late /\ request' = Late(r)
        /\ UNCHANGED <<publication, ready>>
    BY <1>7 DEF Upsert
  <2>2. Holding' = Holding
    BY <2>1 DEF Holding, ActiveRows
  <2>3. Fresh(r) => request[r].facts = Holding
    BY <2>1 DEF Fresh
  <2>4. ASSUME ~stale'
        PROVE  onboarding'.facts = Holding' \/ \E q \in Requests : Follows(q)'
    <3>1. Fresh(r) \/ \E q \in Requests \ {r} : Follows(q)
      BY <2>1, <2>4 DEF FactsInv
    <3>2. CASE Fresh(r)
      BY <3>2, <2>1, <2>2, <2>3
    <3>3. CASE \E q \in Requests \ {r} : Follows(q)
      BY <3>3, <2>1, FactsLate
    <3> QED BY <3>1, <3>2, <3>3
  <2>5. \A q \in Requests : request'[q].pc = "read" => request'[q].late
    BY <2>1, FactsLate
  <2> QED BY <2>4, <2>5 DEF FactsInv
<1>8. ASSUME NEW r \in Requests, Fails(r)
      PROVE  FactsInv'
  <2>1. /\ request' = Late(r) /\ stale' = (stale \/ request[r].kind # "status")
        /\ UNCHANGED <<publication, ready, onboarding>>
    BY <1>8 DEF Fails
  <2>2. Holding' = Holding
    BY <2>1 DEF Holding, ActiveRows
  <2>3. ASSUME onboarding'.exists, ~stale'
        PROVE  onboarding'.facts = Holding' \/ \E q \in Requests : Follows(q)'
    <3>1. onboarding.facts = Holding \/ \E q \in Requests : Follows(q)
      BY <2>1, <2>3 DEF FactsInv
    <3>2. ~Follows(r)
      BY <2>1, <2>3 DEF Follows
    <3>3. \A q \in Requests \ {r} : Follows(q) => Follows(q)'
      BY <2>1, FactsLate
    <3> QED BY <3>1, <3>2, <3>3, <2>1, <2>2
  <2>4. \A q \in Requests : request'[q].pc = "read" => request'[q].late
    BY <2>1, FactsLate
  <2> QED BY <2>3, <2>4 DEF FactsInv
<1>9. CASE UNCHANGED vars
  BY <1>9, FactsKept DEF vars, Holding, ActiveRows
<1> QED BY <1>1, <1>2, <1>3, <1>4, <1>5, <1>6, <1>7, <1>8, <1>9
        DEF Next, Publish, Unpublish, historyVars

------------------------------------------------------------------------------
(* The theorems.                                                           *)

IInv == TypeInv /\ RowsInv /\ StatusInv /\ FactsInv

LEMMA Inductive ==
    ASSUME PublicationAssumption
    PROVE  Spec => []IInv
<1>1. Init => IInv
  <2>1. Init => RowsInv
    BY DEF PublicationAssumption, Init, RowsInv, RowsOf, NoRow, Inserts, Idle
  <2>2. Init => FactsInv
    BY DEF Init, FactsInv, Idle
  <2> QED BY <2>1, <2>2, TypeInit, StatusInit DEF IInv
<1>2. IInv /\ [Next]_vars => IInv'
  BY TypeNext, RowsNext, StatusNext, FactsNext DEF IInv
<1> QED BY <1>1, <1>2, PTL DEF Spec

\* Every row and request keeps its type (the handlers of publication and onboarding).
THEOREM TypeCorrect ==
    ASSUME PublicationAssumption
    PROVE  Spec => []TypeOK
<1>1. IInv => TypeOK
  BY DEF IInv, TypeInv
<1> QED BY <1>1, Inductive, PTL

\* A listing has at most one row per channel, however many requests publish it, unless
\* two of them looked for the row before either had inserted it.
THEOREM OfferedOnce ==
    ASSUME PublicationAssumption
    PROVE  Spec => []OfferedOncePerChannel
<1>1. ASSUME IInv
      PROVE  OfferedOncePerChannel
  <2> SUFFICES ASSUME NEW l \in Listings, NEW c \in Channels, <<l, c>> \notin doubled
               PROVE  Cardinality(RowsOf(l, c)) <= 1
    BY DEF OfferedOncePerChannel
  <2>1. \A j, k \in RowsOf(l, c) : j = k
    BY <1>1 DEF IInv, RowsInv
  <2>2. CASE RowsOf(l, c) = {}
    BY <2>2, FS_EmptySet
  <2>3. CASE RowsOf(l, c) # {}
    <3>1. PICK k : k \in RowsOf(l, c)
      BY <2>3
    <3>2. RowsOf(l, c) = {k}
      BY <2>1, <3>1
    <3> QED BY <3>2, FS_Singleton
  <2> QED BY <2>2, <2>3
<1> QED BY <1>1, Inductive, PTL

\* A listing nobody is changing is active exactly when one of its publications is,
\* unless its last change overlapped with an opposite one or failed half way.
THEOREM ListingAgrees ==
    ASSUME PublicationAssumption
    PROVE  Spec => []ListingShowsPublications
<1>1. IInv => ListingShowsPublications
  BY DEF IInv, StatusInv, ListingShowsPublications, Agrees, ActiveOf
<1> QED BY <1>1, Inductive, PTL

\* When every change has been followed up, the onboarding row states what is the case,
\* unless its last writer had begun to read before another wrote or failed.
THEOREM OnboardingTells ==
    ASSUME PublicationAssumption
    PROVE  Spec => []OnboardingShowsReadiness
<1>1. IInv => OnboardingShowsReadiness
  BY DEF IInv, FactsInv, OnboardingShowsReadiness, Follows
<1> QED BY <1>1, Inductive, PTL
==============================================================================
