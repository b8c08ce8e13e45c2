-------------------------- MODULE BookingSlotsProofs --------------------------
(***************************************************************************)
(* Proofs about BookingSlots, for any numbers of bookings, blocks and      *)
(* instants: its type invariant and StatusesHavePaths for any number of    *)
(* requests at a time; that the slots offered, on any day, are the open    *)
(* ones, and those that are shown as available are accepted; and, for one  *)
(* request at a time, that bookings never share an instant and are placed  *)
(* on free time.                                                           *)
(***************************************************************************)
EXTENDS SlotOffers, FiniteSetTheorems, TLAPS

------------------------------------------------------------------------------
(* Type correctness.                                                       *)

HandlerState == [pc : HandlerPCs, id : Bookings \cup {NoBooking},
                 status : BookingStatuses \cup {"absent"}, window : Windows]

\* A request at work has its booking, and one about to write a status has a status.
HandlersKnow ==
    \A h \in Handlers :
        /\ handler[h].pc # "idle" => handler[h].id \in Bookings
        /\ handler[h].pc = "status:write" => handler[h].status \in BookingStatuses

TypeInv == TypeOK /\ HandlersKnow

LEMMA TypeInit ==
    ASSUME SlotAssumption, Init
    PROVE  TypeInv
BY DEF SlotAssumption, Init, TypeInv, TypeOK, HandlersKnow, Idle, HandlerPCs, NoWindow, Windows,
       BookingStatuses

LEMMA TypeNext ==
    ASSUME SlotAssumption, TypeInv, [Next]_vars
    PROVE  TypeInv'
<1> USE DEF TypeInv, TypeOK
<1>0. NoWindow \in Windows /\ Idle \in HandlerState
  BY DEF SlotAssumption, NoWindow, Windows, Idle, HandlerState, HandlerPCs
<1>a. ASSUME NEW h \in Handlers, Done(h)
      PROVE  handler' \in [Handlers -> HandlerState] /\ HandlersKnow'
  BY <1>a, <1>0 DEF Done, HandlerState, HandlersKnow, Idle
<1>b. ASSUME NEW h \in Handlers, handler[h].pc # "idle",
             NEW pc \in HandlerPCs \ {"status:write"}, Goto(h, pc)
      PROVE  handler' \in [Handlers -> HandlerState] /\ HandlersKnow'
  BY <1>b DEF Goto, HandlerState, HandlersKnow
<1>c. ASSUME NEW h \in Handlers, NEW st \in HandlerState, st.id \in Bookings,
             st.pc = "status:write" => st.status \in BookingStatuses,
             handler' = [handler EXCEPT ![h] = st]
      PROVE  handler' \in [Handlers -> HandlerState] /\ HandlersKnow'
  BY <1>c DEF HandlerState, HandlersKnow
<1>1. ASSUME NEW h \in Handlers, NEW b \in Bookings, NEW w \in Windows, CheckNewSlot(h, b, w)
      PROVE  TypeInv'
  <2> DEFINE st == [pc |-> "new:blocks", id |-> b, status |-> "pending", window |-> w]
  <2>1. st \in HandlerState /\ st.id \in Bookings /\ st.pc # "status:write"
    BY DEF HandlerState, HandlerPCs, BookingStatuses
  <2>2. handler' = [handler EXCEPT ![h] = st] /\ UNCHANGED <<booking, block, held>>
    BY <1>1 DEF CheckNewSlot
  <2> HIDE DEF st
  <2> QED BY <1>c, <2>1, <2>2 DEF HandlerState
<1>2. ASSUME NEW h \in Handlers, CheckNewBlocks(h)
      PROVE  TypeInv'
  BY <1>2, <1>b DEF CheckNewBlocks, HandlerPCs, HandlerState
<1>3. ASSUME NEW h \in Handlers, InsertBooking(h)
      PROVE  TypeInv'
  <2>1. [status |-> "pending", window |-> handler[h].window]
            \in [status : BookingStatuses \cup {"absent"}, window : Windows]
    BY DEF BookingStatuses
  <2>2. {"pending"} \in SUBSET BookingStatuses
    BY DEF BookingStatuses
  <2> QED BY <1>3, <1>a, <2>1, <2>2 DEF InsertBooking, HandlerState
<1>4. ASSUME NEW h \in Handlers, NEW b \in Bookings, NEW t \in BookingStatuses,
             CheckTransition(h, b, t)
      PROVE  TypeInv'
  <2> DEFINE st == [handler[h] EXCEPT !.pc = "status:write", !.id = b, !.status = t]
  <2>1. handler[h] \in HandlerState
    BY DEF HandlerState
  <2>2. st \in HandlerState /\ st.id \in Bookings /\ st.status \in BookingStatuses
    BY <2>1 DEF HandlerState, HandlerPCs
  <2>3. handler' = [handler EXCEPT ![h] = st] /\ UNCHANGED <<booking, block, held>>
    BY <1>4 DEF CheckTransition
  <2> HIDE DEF st
  <2> QED BY <1>c, <2>2, <2>3 DEF HandlerState
<1>5. ASSUME NEW h \in Handlers, WriteStatus(h)
      PROVE  TypeInv'
  <2>1. handler[h].status \in BookingStatuses
    BY <1>5 DEF WriteStatus, HandlersKnow
  <2>2. booking' \in [Bookings -> [status : BookingStatuses \cup {"absent"}, window : Windows]]
    BY <1>5, <2>1 DEF WriteStatus
  <2>3. held' \in [Bookings -> SUBSET BookingStatuses]
    BY <1>5, <2>1 DEF WriteStatus
  <2> QED BY <1>5, <1>a, <2>2, <2>3 DEF WriteStatus, HandlerState
<1>6. ASSUME NEW h \in Handlers, NEW b \in Bookings, NEW w \in Windows, ReadSchedule(h, b, w)
      PROVE  TypeInv'
  <2> DEFINE st == [handler[h] EXCEPT !.pc = "move:overlap", !.id = b, !.window = w]
  <2>1. handler[h] \in HandlerState
    BY DEF HandlerState
  <2>2. st \in HandlerState /\ st.id \in Bookings /\ st.pc # "status:write"
    BY <2>1 DEF HandlerState, HandlerPCs
  <2>3. handler' = [handler EXCEPT ![h] = st] /\ UNCHANGED <<booking, block, held>>
    BY <1>6 DEF ReadSchedule
  <2> HIDE DEF st
  <2> QED BY <1>c, <2>2, <2>3 DEF HandlerState
<1>7. ASSUME NEW h \in Handlers, CheckMoveOverlap(h)
      PROVE  TypeInv'
  BY <1>7, <1>b DEF CheckMoveOverlap, HandlerPCs, HandlerState
<1>8. ASSUME NEW h \in Handlers, CheckMoveBlocks(h)
      PROVE  TypeInv'
  BY <1>8, <1>b DEF CheckMoveBlocks, HandlerPCs, HandlerState
<1>9. ASSUME NEW h \in Handlers, WriteSchedule(h)
      PROVE  TypeInv'
  BY <1>9, <1>a DEF WriteSchedule, HandlerState
<1>10. ASSUME NEW h \in Handlers, NEW k \in Blocks, NEW w \in BlockWindows, CreateBlock(h, k, w)
       PROVE  TypeInv'
  BY <1>10 DEF CreateBlock, HandlersKnow
<1>11. ASSUME NEW h \in Handlers, NEW k \in Blocks, DeleteBlock(h, k)
       PROVE  TypeInv'
  BY <1>11 DEF DeleteBlock, HandlersKnow
<1>12. ASSUME NEW h \in Handlers, Abandon(h)
       PROVE  TypeInv'
  BY <1>12, <1>a DEF Abandon, HandlerState
<1>13. ASSUME UNCHANGED vars
       PROVE  TypeInv'
  BY <1>13 DEF vars, HandlersKnow
<1> QED
  BY <1>1, <1>2, <1>3, <1>4, <1>5, <1>6, <1>7, <1>8, <1>9, <1>10, <1>11, <1>12, <1>13
     DEF Next, Step

\* Rows and requests keep their types, in every interleaving.
THEOREM TypeCorrect == ASSUME SlotAssumption PROVE Spec => []TypeOK
<1>1. Init => TypeInv
  BY TypeInit
<1>2. TypeInv /\ [Next]_vars => TypeInv'
  BY TypeNext
<1>3. TypeInv => TypeOK
  BY DEF TypeInv
<1> QED BY <1>1, <1>2, <1>3, PTL DEF Spec

------------------------------------------------------------------------------
(* The slots offered are the open ones. Recursion and sorting are reasoned  *)
(* about by induction over the natural numbers, in the form of a least     *)
(* number at which a claim fails.                                          *)

\* The least number principle.
LEMMA LeastExists ==
    ASSUME NEW S \in SUBSET Nat, S # {}
    PROVE  \E n \in S : \A m \in S : n <= m
<1> DEFINE R == OpToRel(<, Nat)
<1>1. IsWellFoundedOn(R, Nat)
  BY NatLessThanWellFounded, Zenon
<1>2. \A i, j \in Nat : <<i, j>> \in R <=> i < j
  BY DEF OpToRel
<1> HIDE DEF R
<1>3. PICK n \in S : \A m \in S : ~(<<m, n>> \in R)
  BY <1>1, WFMin
<1>4. ASSUME NEW m \in S PROVE n <= m
  <2>1. ~(m < n) /\ m \in Nat /\ n \in Nat
    BY <1>2, <1>3
  <2> QED BY <2>1
<1> QED BY <1>4

\* A day has finitely many windows.
LEMMA DayWindowsFinite ==
    ASSUME SurfaceAssumption, NEW S \in SUBSET DayWindows
    PROVE  IsFiniteSet(S)
<1> DEFINE Times == 0..DayEnd
           ends == [w \in DayWindows |-> <<w.from, w.to>>]
<1>1. IsFiniteSet(Times)
  BY FS_Interval DEF SurfaceAssumption
<1>2. IsFiniteSet(Times \X Times)
  BY <1>1, FS_Product
<1>3. ends \in Injection(DayWindows, Times \X Times)
  BY DEF Injection, IsInjective, DayWindows
<1>4. IsFiniteSet(DayWindows)
  BY <1>2, <1>3, FS_Injection
<1> QED BY <1>4, FS_Subset

\* Enumerations of n windows in the order of their starts.
Sorting(q, n, windows) ==
    /\ q \in [1..n -> windows]
    /\ ToSet(q) = windows
    /\ \A i, j \in 1..n : i < j => q[i].from <= q[j].from

\* Every set of windows of a day can be sorted, by induction on their number.
LEMMA SortingExists ==
    ASSUME SurfaceAssumption,
           NEW windows \in SUBSET DayWindows
    PROVE  \E q : Sorting(q, Cardinality(windows), windows)
<1> DEFINE Sortable(n) == \A S \in SUBSET DayWindows : Cardinality(S) = n => \E q : Sorting(q, n, S)
           Bad == {n \in Nat : ~Sortable(n)}
<1>1. Sortable(0)
  <2> SUFFICES ASSUME NEW S \in SUBSET DayWindows, Cardinality(S) = 0
               PROVE  \E q : Sorting(q, 0, S)
    OBVIOUS
  <2>1. S = {}
    BY DayWindowsFinite, FS_EmptySet
  <2>2. Sorting(<<>>, 0, S)
    BY <2>1 DEF Sorting, ToSet
  <2> QED BY <2>2
<1>2. ASSUME NEW n \in Nat, Sortable(n)
      PROVE  Sortable(n + 1)
  <2> SUFFICES ASSUME NEW S \in SUBSET DayWindows, Cardinality(S) = n + 1
               PROVE  \E q : Sorting(q, n + 1, S)
    OBVIOUS
  <2>1. IsFiniteSet(S) /\ S # {}
    BY DayWindowsFinite, FS_EmptySet
  <2>2. PICK w \in S : \A v \in S : v.from <= w.from
    <3> DEFINE D == {DayEnd - v.from : v \in S}
    <3>1. \A v \in S : v.from \in 0..DayEnd
      BY DEF DayWindows
    <3>2. D \in SUBSET Nat /\ D # {}
      BY <3>1, <2>1 DEF SurfaceAssumption
    <3>3. PICK d \in D : \A e \in D : d <= e
      BY <3>2, LeastExists
    <3>4. PICK w \in S : d = DayEnd - w.from
      BY <3>3
    <3>5. ASSUME NEW v \in S PROVE v.from <= w.from
      <4>1. DayEnd - v.from \in D
        OBVIOUS
      <4>2. DayEnd - w.from <= DayEnd - v.from
        BY <4>1, <3>3, <3>4
      <4> QED BY <4>2, <3>1 DEF SurfaceAssumption
    <3> QED BY <3>5
  <2> DEFINE R == S \ {w}
  <2>3. Cardinality(R) = n /\ R \in SUBSET DayWindows
    <3>1. Cardinality(R) = Cardinality(S) - 1
      BY <2>1, FS_RemoveElement
    <3> QED BY <3>1
  <2>4. PICK q : Sorting(q, n, R)
    BY <2>3, <1>2
  <2> DEFINE p == [i \in 1..(n + 1) |-> IF i = n + 1 THEN w ELSE q[i]]
  <2>5. q \in [1..n -> R] /\ ToSet(q) = R /\ \A i, j \in 1..n : i < j => q[i].from <= q[j].from
    BY <2>4 DEF Sorting
  <2>6. p \in [1..(n + 1) -> S]
    BY <2>5
  <2>7. ToSet(p) = S
    <3>1. \A v \in R : \E i \in 1..n : q[i] = v
      BY <2>5 DEF ToSet
    <3>2. \A v \in S : \E i \in 1..(n + 1) : p[i] = v
      <4> SUFFICES ASSUME NEW v \in S PROVE \E i \in 1..(n + 1) : p[i] = v
        OBVIOUS
      <4>1. CASE v = w
        <5>1. p[n + 1] = w /\ n + 1 \in 1..(n + 1)
          OBVIOUS
        <5> QED BY <5>1, <4>1
      <4>2. CASE v \in R
        <5>1. PICK i \in 1..n : q[i] = v
          BY <4>2, <3>1
        <5>2. i \in 1..(n + 1) /\ p[i] = v
          BY <5>1
        <5> QED BY <5>2
      <4> QED BY <4>1, <4>2
    <3> QED BY <3>2, <2>6 DEF ToSet
  <2>8. ASSUME NEW i \in 1..(n + 1), NEW j \in 1..(n + 1), i < j
        PROVE  p[i].from <= p[j].from
    <3>1. i \in 1..n /\ p[i] = q[i] /\ q[i] \in R
      BY <2>8, <2>5
    <3>2. CASE j = n + 1
      BY <3>1, <3>2, <2>2
    <3>3. CASE j \in 1..n
      BY <3>1, <3>3, <2>5, <2>8
    <3> QED BY <3>2, <3>3
  <2>9. Sorting(p, n + 1, S)
    BY <2>6, <2>7, <2>8 DEF Sorting
  <2> QED BY <2>9
<1> HIDE DEF Sortable
<1>3. Bad = {}
  <2> SUFFICES ASSUME Bad # {} PROVE FALSE
    OBVIOUS
  <2>1. PICK n \in Bad : \A m \in Bad : n <= m
    BY LeastExists
  <2>2. n # 0 /\ n \in Nat
    BY <1>1
  <2>3. n - 1 \in Nat /\ n - 1 \notin Bad
    BY <2>1, <2>2
  <2>4. Sortable(n - 1)
    BY <2>3
  <2>5. Sortable((n - 1) + 1)
    BY <2>3, <2>4, <1>2
  <2>6. (n - 1) + 1 = n
    BY <2>2
  <2> QED BY <2>5, <2>6
<1>4. Cardinality(windows) \in Nat
  BY DayWindowsFinite, FS_CardinalityType
<1>5. Sortable(Cardinality(windows))
  BY <1>3, <1>4
<1> QED BY <1>5 DEF Sortable

\* SortedByStart is such an enumeration, whichever it is.
LEMMA SortedByStartSorts ==
    ASSUME SurfaceAssumption,
           NEW windows \in SUBSET DayWindows
    PROVE  /\ Cardinality(windows) \in Nat
           /\ Sorting(SortedByStart(windows), Cardinality(windows), windows)
<1>1. Cardinality(windows) \in Nat
  BY DayWindowsFinite, FS_CardinalityType
<1>2. PICK q : Sorting(q, Cardinality(windows), windows)
  BY SortingExists
<1>3. Sorting(SortedByStart(windows), Cardinality(windows), windows)
  BY <1>2 DEF SortedByStart, Sorting
<1> QED BY <1>1, <1>3

\* merged is what MergeSorted computes along q, up to n.
MergesUpTo(merged, q, n) ==
    merged = [k \in 0..n |-> IF k = 0 THEN <<>> ELSE JoinWindow(merged[k - 1], q[k])]

\* The recursion of MergeSorted has a solution, by induction on the length of q.
LEMMA MergeRecursion ==
    ASSUME NEW q, Len(q) \in Nat
    PROVE  \E merged : MergesUpTo(merged, q, Len(q)) /\ MergeSorted(q) = merged[Len(q)]
<1> DEFINE Solved(n) == \E merged : MergesUpTo(merged, q, n)
           Bad == {n \in Nat : ~Solved(n)}
<1>1. Solved(0)
  <2>1. MergesUpTo([k \in 0..0 |-> <<>>], q, 0)
    BY DEF MergesUpTo
  <2> QED BY <2>1
<1>2. ASSUME NEW n \in Nat, Solved(n)
      PROVE  Solved(n + 1)
  <2>1. PICK m : MergesUpTo(m, q, n)
    BY <1>2
  <2> DEFINE m1 == [k \in 0..(n + 1) |-> IF k = n + 1 THEN JoinWindow(m[n], q[n + 1]) ELSE m[k]]
  <2>2. \A k \in 0..n : m[k] = IF k = 0 THEN <<>> ELSE JoinWindow(m[k - 1], q[k])
    BY <2>1 DEF MergesUpTo
  <2>3. ASSUME NEW k \in 0..(n + 1)
        PROVE  m1[k] = IF k = 0 THEN <<>> ELSE JoinWindow(m1[k - 1], q[k])
    <3>1. CASE k = 0
      BY <3>1, <2>2
    <3>2. CASE k \in 1..n
      <4>1. m1[k] = m[k] /\ m1[k - 1] = m[k - 1]
        BY <3>2
      <4> QED BY <4>1, <3>2, <2>2
    <3>3. CASE k = n + 1
      <4>1. m1[k] = JoinWindow(m[n], q[n + 1]) /\ m1[k - 1] = m[n]
        BY <3>3
      <4> QED BY <4>1, <3>3
    <3> QED BY <3>1, <3>2, <3>3
  <2>4. m1 = [k \in 0..(n + 1) |-> m1[k]]
    OBVIOUS
  <2> HIDE DEF m1
  <2>5. MergesUpTo(m1, q, n + 1)
    BY <2>3, <2>4 DEF MergesUpTo
  <2> QED BY <2>5
<1> HIDE DEF Solved
<1>3. Bad = {}
  <2> SUFFICES ASSUME Bad # {} PROVE FALSE
    OBVIOUS
  <2>1. PICK n \in Bad : \A m \in Bad : n <= m
    BY LeastExists
  <2>2. n # 0 /\ n \in Nat
    BY <1>1
  <2>3. n - 1 \in Nat /\ n - 1 \notin Bad
    BY <2>1, <2>2
  <2>4. Solved((n - 1) + 1)
    BY <2>3, <1>2
  <2>5. (n - 1) + 1 = n
    BY <2>2
  <2> QED BY <2>4, <2>5
<1>4. Solved(Len(q))
  BY <1>3
<1> DEFINE f == CHOOSE g : g = [k \in 0..Len(q) |-> IF k = 0 THEN <<>> ELSE JoinWindow(g[k - 1], q[k])]
<1>5. f = [k \in 0..Len(q) |-> IF k = 0 THEN <<>> ELSE JoinWindow(f[k - 1], q[k])]
  BY <1>4 DEF Solved, MergesUpTo
<1>6. MergeSorted(q) = f[Len(q)]
  BY DEF MergeSorted
<1> HIDE DEF f
<1>7. MergesUpTo(f, q, Len(q))
  BY <1>5 DEF MergesUpTo
<1> QED BY <1>6, <1>7

\* Windows in order that neither meet nor touch.
Apart(m) ==
    /\ m \in Seq(DayWindows)
    /\ \A i, j \in 1..Len(m) : i < j => m[i].to < m[j].from

\* The instants of a sequence of windows.
OpenDuring(m, t) == \E i \in 1..Len(m) : During(t, m[i])

\* A window that starts no earlier than the last one joins it or comes after it, and
\* adds its instants.
LEMMA JoinKeepsApart ==
    ASSUME SurfaceAssumption, NEW m, Apart(m), NEW w \in DayWindows,
           m # <<>> => m[Len(m)].from <= w.from
    PROVE  LET n == JoinWindow(m, w)
           IN /\ Apart(n)
              /\ n # <<>>
              /\ n[Len(n)].from <= w.from
              /\ \A t \in Nat : OpenDuring(n, t) <=> OpenDuring(m, t) \/ During(t, w)
<1> DEFINE n == JoinWindow(m, w)
<1>0. /\ m \in Seq(DayWindows) /\ Len(m) \in Nat
      /\ \A i \in 1..Len(m) : m[i] \in DayWindows
      /\ \A i, j \in 1..Len(m) : i < j => m[i].to < m[j].from
  BY DEF Apart
<1>t. \A v \in DayWindows : /\ v.from \in Nat /\ v.to \in Nat /\ v.from < v.to
                            /\ v.from <= DayEnd /\ v.to <= DayEnd /\ DayEnd \in Nat
  BY DEF DayWindows, SurfaceAssumption
<1>1. CASE m # <<>> /\ w.from <= m[Len(m)].to
  <2>1. Len(m) \in 1..Len(m) /\ m[Len(m)] \in DayWindows
    BY <1>0, <1>1
  <2> DEFINE last == m[Len(m)]
             x == [last EXCEPT !.to = Later(last.to, w.to)]
  <2>2. last \in DayWindows /\ last.from <= w.from /\ w.from <= last.to
    BY <1>1, <2>1
  <2>3. n = [m EXCEPT ![Len(m)] = x]
    BY <1>1, <2>1, <1>0 DEF JoinWindow, Last
  <2>4. x.from = last.from /\ x.to = Later(last.to, w.to) /\ x \in DayWindows
    BY <2>2, <1>t DEF DayWindows, Later
  <2>5. \A t \in Nat : During(t, x) <=> During(t, last) \/ During(t, w)
    BY <2>2, <2>4, <1>t DEF During, Later
  <2> HIDE DEF n, x
  <2>6. n \in Seq(DayWindows) /\ Len(n) = Len(m) /\ n[Len(n)] = x
    BY <2>3, <2>4, <2>1, <1>0
  <2>7. \A i \in 1..Len(m) : i # Len(m) => n[i] = m[i]
    BY <2>3, <1>0
  <2>8. \A i, j \in 1..Len(n) : i < j => n[i].to < n[j].from
    <3> SUFFICES ASSUME NEW i \in 1..Len(m), NEW j \in 1..Len(m), i < j
                 PROVE  n[i].to < n[j].from
      BY <2>6
    <3>1. i # Len(m) /\ n[i] = m[i] /\ m[i].to < m[j].from
      BY <1>0, <2>7
    <3>2. n[j].from = m[j].from
      BY <2>6, <2>7, <2>4
    <3> QED BY <3>1, <3>2
  <2>9. \A t \in Nat : OpenDuring(n, t) <=> OpenDuring(m, t) \/ During(t, w)
    <3> SUFFICES ASSUME NEW t \in Nat PROVE OpenDuring(n, t) <=> OpenDuring(m, t) \/ During(t, w)
      OBVIOUS
    <3>1. OpenDuring(n, t) <=> During(t, x) \/ \E i \in 1..Len(m) : i # Len(m) /\ During(t, m[i])
      BY <2>6, <2>7, <2>1 DEF OpenDuring
    <3>2. OpenDuring(m, t) <=> During(t, last) \/ \E i \in 1..Len(m) : i # Len(m) /\ During(t, m[i])
      BY <2>1 DEF OpenDuring
    <3> QED BY <3>1, <3>2, <2>5
  <2>10. n # <<>> /\ n[Len(n)].from <= w.from
    BY <2>6, <2>1, <2>2, <2>4, <1>0
  <2> QED BY <2>6, <2>8, <2>9, <2>10 DEF Apart, n
<1>2. CASE ~(m # <<>> /\ w.from <= m[Len(m)].to)
  <2>1. n = Append(m, w)
    BY <1>2 DEF JoinWindow, Last
  <2>2. /\ n \in Seq(DayWindows) /\ Len(n) = Len(m) + 1 /\ n[Len(m) + 1] = w
        /\ \A i \in 1..Len(m) : n[i] = m[i]
    BY <2>1, <1>0
  <2> HIDE DEF n
  <2>3. \A i \in 1..Len(m) : m[i].to < w.from
    <3> SUFFICES ASSUME NEW i \in 1..Len(m) PROVE m[i].to < w.from
      OBVIOUS
    <3>1. m # <<>> /\ Len(m) \in 1..Len(m)
      BY <1>0
    <3>2. m[Len(m)] \in DayWindows /\ m[i] \in DayWindows
      BY <3>1, <1>0
    <3>3. m[Len(m)].to < w.from
      BY <3>1, <1>2, <3>2, <1>t
    <3>4. i # Len(m) => m[i].to < m[Len(m)].from
      BY <3>1, <1>0
    <3> QED BY <3>2, <3>3, <3>4, <1>t
  <2>4. \A i, j \in 1..Len(n) : i < j => n[i].to < n[j].from
    <3> SUFFICES ASSUME NEW i \in 1..(Len(m) + 1), NEW j \in 1..(Len(m) + 1), i < j
                 PROVE  n[i].to < n[j].from
      BY <2>2
    <3>1. i \in 1..Len(m) /\ n[i] = m[i]
      BY <1>0, <2>2
    <3>2. CASE j = Len(m) + 1
      BY <3>1, <3>2, <2>2, <2>3
    <3>3. CASE j \in 1..Len(m)
      BY <3>1, <3>3, <2>2, <1>0
    <3> QED BY <3>2, <3>3
  <2>5. \A t \in Nat : OpenDuring(n, t) <=> OpenDuring(m, t) \/ During(t, w)
    <3> SUFFICES ASSUME NEW t \in Nat PROVE OpenDuring(n, t) <=> OpenDuring(m, t) \/ During(t, w)
      OBVIOUS
    <3>1. \A i \in 1..(Len(m) + 1) : i \in 1..Len(m) \/ i = Len(m) + 1
      BY <1>0
    <3>2. Len(m) + 1 \in 1..(Len(m) + 1) /\ 1..Len(m) \subseteq 1..(Len(m) + 1)
      BY <1>0
    <3> QED BY <3>1, <3>2, <2>2 DEF OpenDuring
  <2>6. n # <<>> /\ n[Len(n)].from <= w.from
    BY <2>2, <1>0, <1>t
  <2> QED BY <2>2, <2>4, <2>5, <2>6 DEF Apart, n
<1> QED BY <1>1, <1>2

\* Sets of windows of a day that neither meet nor touch.
Separate(W) ==
    /\ W \in SUBSET DayWindows
    /\ \A v, w \in W : v = w \/ v.to < w.from \/ w.to < v.from

\* The instants of a set of windows.
OpenIn(W, t) == \E w \in W : During(t, w)

\* Merging separates the windows and keeps their instants, by induction along the
\* windows in the order of their starts.
LEMMA MergeWindowsSeparates ==
    ASSUME SurfaceAssumption,
           NEW windows \in SUBSET DayWindows
    PROVE  /\ Separate(MergeWindows(windows))
           /\ \A t \in Nat : OpenIn(MergeWindows(windows), t) <=> OpenIn(windows, t)
<1> DEFINE q == SortedByStart(windows)
           N == Cardinality(windows)
<1>1. N \in Nat /\ Sorting(q, N, windows)
  BY SortedByStartSorts
<1> HIDE DEF N, q
<1>2. /\ q \in [1..N -> windows] /\ ToSet(q) = windows
      /\ \A i, j \in 1..N : i < j => q[i].from <= q[j].from
  BY <1>1 DEF Sorting
<1>3. Len(q) = N
  BY <1>1, <1>2
<1>4. PICK merged : MergesUpTo(merged, q, N) /\ MergeSorted(q) = merged[N]
  BY <1>1, <1>3, MergeRecursion
<1>5. \A n \in 0..N : merged[n] = IF n = 0 THEN <<>> ELSE JoinWindow(merged[n - 1], q[n])
  BY <1>4 DEF MergesUpTo
<1> DEFINE Good(n) == /\ Apart(merged[n])
                      /\ n # 0 => merged[n] # <<>> /\ merged[n][Len(merged[n])].from <= q[n].from
                      /\ \A t \in Nat : OpenDuring(merged[n], t) <=> \E i \in 1..n : During(t, q[i])
           Bad == {n \in 0..N : ~Good(n)}
<1>6. Good(0)
  <2>1. merged[0] = <<>>
    BY <1>1, <1>5
  <2> QED BY <2>1 DEF Apart, OpenDuring
<1>7. ASSUME NEW n \in 1..N, Good(n - 1)
      PROVE  Good(n)
  <2>1. n \in 0..N /\ n - 1 \in 0..N /\ n \in Nat /\ q[n] \in DayWindows
    BY <1>1, <1>2
  <2>2. merged[n] = JoinWindow(merged[n - 1], q[n])
    BY <1>5, <2>1
  <2>3. merged[n - 1] # <<>> => merged[n - 1][Len(merged[n - 1])].from <= q[n].from
    <3> SUFFICES ASSUME merged[n - 1] # <<>>
                 PROVE  merged[n - 1][Len(merged[n - 1])].from <= q[n].from
      OBVIOUS
    <3>1. n - 1 # 0
      BY <1>5, <2>1
    <3>2. n - 1 \in 1..N /\ q[n - 1] \in DayWindows /\ q[n - 1].from <= q[n].from
      BY <3>1, <2>1, <1>1, <1>2
    <3> DEFINE m == merged[n - 1]
    <3>3. m \in Seq(DayWindows) /\ m # <<>> /\ m[Len(m)].from <= q[n - 1].from
      BY <1>7, <3>1 DEF Apart
    <3> HIDE DEF m
    <3>4. m[Len(m)] \in DayWindows
      BY <3>3
    <3>5. m[Len(m)].from \in Nat /\ q[n - 1].from \in Nat /\ q[n].from \in Nat
      BY <2>1, <3>2, <3>4 DEF DayWindows
    <3>6. m[Len(m)].from <= q[n].from
      BY <3>2, <3>3, <3>5
    <3> QED BY <3>6 DEF m
  <2>4. /\ Apart(merged[n])
        /\ merged[n] # <<>>
        /\ merged[n][Len(merged[n])].from <= q[n].from
        /\ \A t \in Nat : OpenDuring(merged[n], t) <=> OpenDuring(merged[n - 1], t) \/ During(t, q[n])
    <3>1. Apart(merged[n - 1]) /\ q[n] \in DayWindows
      BY <1>7, <2>1
    <3> QED BY <3>1, <2>2, <2>3, JoinKeepsApart
  <2>5. \A i \in 1..n : i \in 1..(n - 1) \/ i = n
    BY <2>1
  <2>6. n \in 1..n /\ 1..(n - 1) \subseteq 1..n
    BY <2>1
  <2>7. \A t \in Nat : OpenDuring(merged[n], t) <=> \E i \in 1..n : During(t, q[i])
    BY <1>7, <2>4, <2>5, <2>6
  <2> QED BY <2>4, <2>7
<1> HIDE DEF Good
<1>8. Bad = {}
  <2> SUFFICES ASSUME Bad # {} PROVE FALSE
    OBVIOUS
  <2>1. Bad \in SUBSET Nat
    OBVIOUS
  <2>2. PICK n \in Bad : \A m \in Bad : n <= m
    BY LeastExists, <2>1
  <2>3. n \in 1..N /\ n - 1 \in 0..N /\ n - 1 \notin Bad
    BY <1>1, <1>6, <2>2
  <2>4. Good(n)
    BY <2>3, <1>7
  <2> QED BY <2>4
<1>9. Good(N)
  BY <1>1, <1>8
<1> DEFINE m == MergeSorted(q)
<1>10. /\ Apart(m)
       /\ \A t \in Nat : OpenDuring(m, t) <=> \E i \in 1..N : During(t, q[i])
  BY <1>9, <1>4 DEF Good
<1> HIDE DEF m
<1>11. MergeWindows(windows) = ToSet(m)
  BY DEF MergeWindows, m, q
<1>12. Separate(ToSet(m))
  <2>1. /\ m \in Seq(DayWindows) /\ Len(m) \in Nat
        /\ \A i, j \in 1..Len(m) : i < j => m[i].to < m[j].from
    BY <1>10 DEF Apart
  <2>2. ToSet(m) = {m[i] : i \in 1..Len(m)}
    BY <2>1 DEF ToSet
  <2>3. ASSUME NEW i \in 1..Len(m), NEW j \in 1..Len(m)
        PROVE  m[i] = m[j] \/ m[i].to < m[j].from \/ m[j].to < m[i].from
    <3>1. i = j \/ i < j \/ j < i
      BY <2>1
    <3> QED BY <3>1, <2>1
  <2>4. ToSet(m) \in SUBSET DayWindows
    BY <2>1, <2>2
  <2> QED BY <2>2, <2>3, <2>4 DEF Separate
<1>13. ASSUME NEW t \in Nat
       PROVE  OpenIn(ToSet(m), t) <=> OpenIn(windows, t)
  <2>1. m \in Seq(DayWindows)
    BY <1>10 DEF Apart
  <2>2. OpenIn(ToSet(m), t) <=> OpenDuring(m, t)
    BY <2>1 DEF OpenIn, OpenDuring, ToSet
  <2>3. OpenIn(windows, t) <=> \E i \in 1..N : During(t, q[i])
    BY <1>2 DEF OpenIn, ToSet
  <2> QED BY <2>2, <2>3, <1>10
<1> QED BY <1>11, <1>12, <1>13

\* Every window left is part of one window, and apart from what was removed.
LEMMA SubtractWindowSeparates ==
    ASSUME SurfaceAssumption,
           NEW W, Separate(W), NEW x \in DayWindows
    PROVE  /\ Separate(SubtractWindow(W, x))
           /\ \A t \in Nat : OpenIn(SubtractWindow(W, x), t) <=> OpenIn(W, t) /\ ~During(t, x)
<1> DEFINE R == SubtractWindow(W, x)
           LeftOf(r, w) == \/ ~Overlap(w, x) /\ r = w
                           \/ Overlap(w, x) /\ w.from < x.from /\ r = [from |-> w.from, to |-> x.from]
                           \/ Overlap(w, x) /\ x.to < w.to /\ r = [from |-> x.to, to |-> w.to]
<1>t. \A v \in DayWindows : /\ v.from \in Nat /\ v.to \in Nat /\ v.from < v.to
                            /\ v.to <= DayEnd /\ DayEnd \in Nat
  BY DEF DayWindows, SurfaceAssumption
<1>1. \A r : r \in R <=> \E w \in W : LeftOf(r, w)
  BY DEF SubtractWindow
<1>2. W \in SUBSET DayWindows
  BY DEF Separate
<1>3. ASSUME NEW r, NEW w \in W, LeftOf(r, w)
      PROVE  r \in DayWindows /\ w.from <= r.from /\ r.to <= w.to /\ (r.to <= x.from \/ x.to <= r.from)
  <2>1. w \in DayWindows
    BY <1>2
  <2>2. CASE ~Overlap(w, x) /\ r = w
    BY <2>1, <2>2, <1>t DEF Overlap
  <2>3. CASE Overlap(w, x) /\ w.from < x.from /\ r = [from |-> w.from, to |-> x.from]
    <3>1. r.from = w.from /\ r.to = x.from
      BY <2>3
    <3>2. r \in DayWindows
      BY <2>1, <2>3, <1>t DEF DayWindows
    <3> QED BY <3>1, <3>2, <2>1, <2>3, <1>t DEF Overlap
  <2>4. CASE Overlap(w, x) /\ x.to < w.to /\ r = [from |-> x.to, to |-> w.to]
    <3>1. r.from = x.to /\ r.to = w.to
      BY <2>4
    <3>2. r \in DayWindows
      BY <2>1, <2>4, <1>t DEF DayWindows
    <3> QED BY <3>1, <3>2, <2>1, <2>4, <1>t DEF Overlap
  <2> QED BY <1>3, <2>2, <2>3, <2>4
<1>4. ASSUME NEW w \in W, NEW r1, NEW r2, LeftOf(r1, w), LeftOf(r2, w)
      PROVE  r1 = r2 \/ r1.to < r2.from \/ r2.to < r1.from
  <2>1. w \in DayWindows
    BY <1>2
  <2>2. x.from < x.to
    BY <1>t
  <2>3. x.from \in Nat /\ x.to \in Nat
    BY <1>t
  <2> QED BY <1>4, <2>2, <2>3
<1> HIDE DEF LeftOf, R
<1>5. Separate(R)
  <2>1. R \in SUBSET DayWindows
    BY <1>1, <1>3
  <2>2. ASSUME NEW r1 \in R, NEW r2 \in R
        PROVE  r1 = r2 \/ r1.to < r2.from \/ r2.to < r1.from
    <3>1. PICK w1 \in W : LeftOf(r1, w1)
      BY <1>1
    <3>2. PICK w2 \in W : LeftOf(r2, w2)
      BY <1>1
    <3>3. CASE w1 = w2
      BY <3>1, <3>2, <3>3, <1>4
    <3>4. CASE w1 # w2
      <4>1. w1.to < w2.from \/ w2.to < w1.from
        BY <3>4 DEF Separate
      <4>2. /\ w1.from <= r1.from /\ r1.to <= w1.to
            /\ w2.from <= r2.from /\ r2.to <= w2.to
        BY <3>1, <3>2, <1>3
      <4>3. /\ w1 \in DayWindows /\ w2 \in DayWindows
            /\ r1 \in DayWindows /\ r2 \in DayWindows
        BY <2>1, <1>2
      <4> QED BY <4>1, <4>2, <4>3, <1>t
    <3> QED BY <3>3, <3>4
  <2> QED BY <2>1, <2>2 DEF Separate
<1>6. ASSUME NEW t \in Nat
      PROVE  OpenIn(R, t) <=> OpenIn(W, t) /\ ~During(t, x)
  <2>1. ASSUME NEW r \in R, During(t, r)
        PROVE  OpenIn(W, t) /\ ~During(t, x)
    <3>1. PICK w \in W : LeftOf(r, w)
      BY <1>1
    <3>2. r \in DayWindows /\ w.from <= r.from /\ r.to <= w.to /\ (r.to <= x.from \/ x.to <= r.from)
      BY <3>1, <1>3
    <3>3. w \in DayWindows
      BY <1>2
    <3>4. During(t, w) /\ ~During(t, x)
      BY <2>1, <3>2, <3>3, <1>t DEF During
    <3> QED BY <3>4 DEF OpenIn
  <2>2. ASSUME NEW w \in W, During(t, w), ~During(t, x)
        PROVE  OpenIn(R, t)
    <3>1. w \in DayWindows
      BY <1>2
    <3>2. CASE ~Overlap(w, x)
      <4>1. w \in R
        BY <3>2, <1>1 DEF LeftOf
      <4> QED BY <4>1, <2>2 DEF OpenIn
    <3>3. CASE Overlap(w, x) /\ t < x.from
      <4> DEFINE r == [from |-> w.from, to |-> x.from]
      <4>1. w.from < x.from /\ During(t, r)
        BY <2>2, <3>1, <3>3, <1>t DEF During
      <4>2. r \in R
        BY <4>1, <3>3, <1>1 DEF LeftOf
      <4> QED BY <4>1, <4>2 DEF OpenIn
    <3>4. CASE Overlap(w, x) /\ x.to <= t
      <4> DEFINE r == [from |-> x.to, to |-> w.to]
      <4>1. x.to < w.to /\ During(t, r)
        BY <2>2, <3>1, <3>4, <1>t DEF During
      <4>2. r \in R
        BY <4>1, <3>4, <1>1 DEF LeftOf
      <4> QED BY <4>1, <4>2 DEF OpenIn
    <3>5. t < x.from \/ x.to <= t
      BY <2>2, <1>t DEF During
    <3> QED BY <3>2, <3>3, <3>4, <3>5
  <2> QED BY <2>1, <2>2 DEF OpenIn
<1> QED BY <1>5, <1>6 DEF R

\* The windows resolved for a day are separate and hold the instants it is open.
LEMMA OpenWindowsAreOpen ==
    ASSUME SurfaceAssumption,
           NEW s \in Surfaces
    PROVE  /\ Separate(OpenWindows(s))
           /\ Open(s) = {t \in 0..DayEnd : OpenIn(OpenWindows(s), t)}
<1> DEFINE recurring == IF s.rules = {} THEN {s.hours} ELSE MergeWindows(s.rules)
           x == s.exception
           Instants(w) == {t \in 0..DayEnd : During(t, w)}
           always == IF s.rules = {} THEN Instants(s.hours) ELSE UNION {Instants(w) : w \in s.rules}
<1>0. /\ s.hours \in DayWindows /\ s.rules \in SUBSET DayWindows
      /\ x.opens \in BOOLEAN /\ x.window \in DayWindows \cup {NoWindow}
      /\ DayEnd \in Nat
  BY DEF SurfaceAssumption
<1>n. NoWindow \notin DayWindows /\ \A t \in Nat : ~During(t, NoWindow)
  BY DEF NoWindow, DayWindows, During
<1>1. Separate(recurring) /\ always = {t \in 0..DayEnd : OpenIn(recurring, t)}
  <2>1. CASE s.rules = {}
    <3>1. recurring = {s.hours} /\ always = Instants(s.hours)
      BY <2>1
    <3> QED BY <3>1, <1>0 DEF Separate, OpenIn
  <2>2. CASE s.rules # {}
    <3>1. recurring = MergeWindows(s.rules) /\ always = UNION {Instants(w) : w \in s.rules}
      BY <2>2
    <3>2. /\ Separate(MergeWindows(s.rules))
          /\ \A t \in Nat : OpenIn(MergeWindows(s.rules), t) <=> OpenIn(s.rules, t)
      BY <1>0, MergeWindowsSeparates
    <3>3. UNION {Instants(w) : w \in s.rules} = {t \in 0..DayEnd : OpenIn(s.rules, t)}
      BY DEF OpenIn
    <3> QED BY <3>1, <3>2, <3>3, <1>0
  <2> QED BY <2>1, <2>2
<1>2. OpenWindows(s) = CASE x.opens /\ x.window = NoWindow -> recurring
                         [] x.opens /\ x.window # NoWindow -> MergeWindows(recurring \cup {x.window})
                         [] ~x.opens /\ x.window = NoWindow -> {}
                         [] OTHER -> SubtractWindow(recurring, x.window)
  BY DEF OpenWindows
<1>3. Open(s) = IF x.opens THEN always \cup Instants(x.window)
                ELSE IF x.window = NoWindow THEN {}
                ELSE always \ Instants(x.window)
  BY DEF Open
<1> HIDE DEF recurring, always
<1>4. CASE x.opens /\ x.window = NoWindow
  <2>1. OpenWindows(s) = recurring
    BY <1>2, <1>4
  <2>2. Open(s) = always \cup Instants(NoWindow) /\ Instants(NoWindow) = {}
    BY <1>3, <1>4, <1>n, <1>0
  <2> QED BY <2>1, <2>2, <1>1
<1>5. CASE x.opens /\ x.window # NoWindow
  <2> DEFINE all == recurring \cup {x.window}
  <2>1. OpenWindows(s) = MergeWindows(all)
    BY <1>2, <1>5
  <2>2. Open(s) = always \cup Instants(x.window)
    BY <1>3, <1>5
  <2>3. all \in SUBSET DayWindows
    BY <1>0, <1>1, <1>5 DEF Separate
  <2>4. /\ Separate(MergeWindows(all))
        /\ \A t \in Nat : OpenIn(MergeWindows(all), t) <=> OpenIn(all, t)
    BY <2>3, MergeWindowsSeparates
  <2>5. \A t : OpenIn(all, t) <=> OpenIn(recurring, t) \/ During(t, x.window)
    BY DEF OpenIn
  <2> HIDE DEF all
  <2> QED BY <2>1, <2>2, <2>4, <2>5, <1>1, <1>0
<1>6. CASE ~x.opens /\ x.window = NoWindow
  <2>1. OpenWindows(s) = {} /\ Open(s) = {}
    BY <1>2, <1>3, <1>6
  <2> QED BY <2>1 DEF Separate, OpenIn
<1>7. CASE ~x.opens /\ x.window # NoWindow
  <2>1. OpenWindows(s) = SubtractWindow(recurring, x.window)
    BY <1>2, <1>7
  <2>2. Open(s) = always \ Instants(x.window)
    BY <1>3, <1>7
  <2>3. x.window \in DayWindows
    BY <1>0, <1>7
  <2>4. /\ Separate(SubtractWindow(recurring, x.window))
        /\ \A t \in Nat : OpenIn(SubtractWindow(recurring, x.window), t) <=>
                              OpenIn(recurring, t) /\ ~During(t, x.window)
    BY <2>3, <1>1, SubtractWindowSeparates
  <2> QED BY <2>1, <2>2, <2>4, <1>1, <1>0
<1> QED BY <1>0, <1>4, <1>5, <1>6, <1>7

\* The edges of separate windows are the edges of the time they open.
LEMMA EdgesOfSeparate ==
    ASSUME SurfaceAssumption,
           NEW W, Separate(W), NEW w \in W
    PROVE  /\ ~OpenIn(W, w.to)
           /\ \A t \in Nat : t + 1 = w.from => ~OpenIn(W, t)
<1>1. \A v \in W : v.from \in Nat /\ v.to \in Nat /\ v.from < v.to
  BY DEF Separate, DayWindows, SurfaceAssumption
<1>2. \A v \in W : v = w \/ v.to < w.from \/ w.to < v.from
  BY DEF Separate
<1>3. ASSUME NEW v \in W PROVE ~During(w.to, v)
  BY <1>1, <1>2 DEF During
<1>4. ASSUME NEW v \in W, NEW t \in Nat, t + 1 = w.from PROVE ~During(t, v)
  <2>1. v = w \/ v.to < w.from \/ w.to < v.from
    BY <1>2
  <2> QED BY <2>1, <1>1, <1>4 DEF During
<1> QED BY <1>3, <1>4 DEF OpenIn

\* What buildRawSlots yields: the steps from the starts of the windows are the steps
\* from where the listing opens, and what fits into a window is open throughout.
LEMMA RawSlotsAreOpen ==
    ASSUME SurfaceAssumption,
           NEW s \in Surfaces
    PROVE  RawSlots(s) = OpenSlots(s)
<1> DEFINE W == OpenWindows(s)
           opened == Open(s)
           lasts == s.duration
           OnStep(u, t) == (u - t) % SlotStep = 0
<1>1. Separate(W) /\ opened = {t \in 0..DayEnd : OpenIn(W, t)}
  BY OpenWindowsAreOpen
<1>2. lasts \in Nat \ {0} /\ DayEnd \in Nat
  BY DEF SurfaceAssumption
<1>3. \A slot : slot \in RawSlots(s) <=>
          \E w \in W : \E t \in w.from..(w.to - lasts) : OnStep(t, w.from) /\ slot = [from |-> t, to |-> t + lasts]
  BY DEF RawSlots
<1>4. \A slot : slot \in OpenSlots(s) <=>
          /\ slot \in [from : 0..DayEnd, to : 0..DayEnd]
          /\ slot.to = slot.from + lasts
          /\ slot.from..(slot.to - 1) \subseteq opened
          /\ \E t \in opened : /\ t <= slot.from /\ t - 1 \notin opened
                               /\ t..slot.from \subseteq opened
                               /\ OnStep(slot.from, t)
  BY DEF OpenSlots
<1>5. \A w \in W : w.from \in 0..DayEnd /\ w.to \in 0..DayEnd /\ w.from < w.to
  BY <1>1 DEF Separate, DayWindows
<1> HIDE DEF W, opened, lasts, OnStep
<1>6. \A w \in W : w.to \notin opened /\ w.from - 1 \notin opened
  <2> SUFFICES ASSUME NEW w \in W PROVE w.to \notin opened /\ w.from - 1 \notin opened
    OBVIOUS
  <2>1. ~OpenIn(W, w.to) /\ \A t \in Nat : t + 1 = w.from => ~OpenIn(W, t)
    BY <1>1, EdgesOfSeparate
  <2>2. w.to \notin opened
    BY <2>1, <1>1
  <2>3. w.from - 1 \notin opened
    <3> SUFFICES ASSUME w.from - 1 \in 0..DayEnd PROVE ~OpenIn(W, w.from - 1)
      BY <1>1
    <3>1. w.from - 1 \in Nat /\ (w.from - 1) + 1 = w.from
      BY <1>5
    <3> QED BY <3>1, <2>1
  <2> QED BY <2>2, <2>3
<1>7. \A w \in W : \A t \in 0..DayEnd : w.from <= t /\ t < w.to => t \in opened
  BY <1>1, <1>5 DEF OpenIn, During
<1>8. \A t \in opened : t \in 0..DayEnd /\ \E w \in W : w.from <= t /\ t < w.to
  BY <1>1 DEF OpenIn, During
<1>9. ASSUME NEW slot, slot \in RawSlots(s)
      PROVE  slot \in OpenSlots(s)
  <2>0. PICK w \in W : \E t \in w.from..(w.to - lasts) : OnStep(t, w.from) /\ slot = [from |-> t, to |-> t + lasts]
    BY <1>3, <1>9
  <2>1. PICK t \in w.from..(w.to - lasts) : OnStep(t, w.from) /\ slot = [from |-> t, to |-> t + lasts]
    BY <2>0
  <2>2. w.from \in 0..DayEnd /\ w.to \in 0..DayEnd /\ w.from < w.to
    BY <1>5
  <2>3. t \in 0..DayEnd /\ t + lasts \in 0..DayEnd /\ w.from <= t /\ t + lasts <= w.to /\ t < w.to
    BY <2>2, <1>2
  <2>4. slot \in [from : 0..DayEnd, to : 0..DayEnd] /\ slot.from = t /\ slot.to = t + lasts
    BY <2>1, <2>3
  <2>5. \A u \in Int : w.from <= u /\ u < w.to => u \in opened
    BY <2>2, <1>2, <1>7
  <2>6. t..(t + lasts - 1) \subseteq opened
    BY <2>2, <2>3, <2>5, <1>2
  <2>7. w.from \in opened /\ w.from <= t /\ w.from - 1 \notin opened /\ w.from..t \subseteq opened
    BY <2>2, <2>3, <2>5, <1>6
  <2>8. slot.to = slot.from + lasts /\ slot.from..(slot.to - 1) \subseteq opened
    BY <2>3, <2>4, <2>6, <1>2
  <2>9. \E u \in opened : /\ u <= slot.from /\ u - 1 \notin opened
                         /\ u..slot.from \subseteq opened
                         /\ OnStep(slot.from, u)
    BY <2>1, <2>4, <2>7
  <2> QED BY <2>4, <2>8, <2>9, <1>4
<1>10. ASSUME NEW slot, slot \in OpenSlots(s)
       PROVE  slot \in RawSlots(s)
  <2>1. /\ slot \in [from : 0..DayEnd, to : 0..DayEnd]
        /\ slot.to = slot.from + lasts
        /\ slot.from..(slot.to - 1) \subseteq opened
    BY <1>4, <1>10
  <2>2. PICK t \in opened : /\ t <= slot.from /\ t - 1 \notin opened
                            /\ t..slot.from \subseteq opened
                            /\ OnStep(slot.from, t)
    BY <1>4, <1>10
  <2>3. PICK w \in W : w.from <= t /\ t < w.to
    BY <1>8
  <2>4. /\ w.from \in 0..DayEnd /\ w.to \in 0..DayEnd /\ w.from < w.to
        /\ t \in 0..DayEnd /\ slot.from \in 0..DayEnd /\ slot.to \in 0..DayEnd
    BY <1>5, <1>8, <2>1
  <2>5. w.from = t
    <3> SUFFICES ASSUME w.from < t PROVE FALSE
      BY <2>3, <2>4
    <3>1. t - 1 \in 0..DayEnd /\ w.from <= t - 1 /\ t - 1 < w.to
      BY <2>3, <2>4, <1>2
    <3> QED BY <3>1, <1>7, <2>2
  <2>6. slot.from < w.to
    <3> SUFFICES ASSUME w.to <= slot.from PROVE FALSE
      BY <2>4
    <3>1. w.to \in t..slot.from
      BY <2>3, <2>4
    <3> QED BY <3>1, <2>2, <1>6
  <2>7. slot.to <= w.to
    <3> SUFFICES ASSUME w.to < slot.to PROVE FALSE
      BY <2>4
    <3>1. w.to \in slot.from..(slot.to - 1)
      BY <2>4, <2>6
    <3> QED BY <3>1, <2>1, <1>6
  <2>8. slot.from \in w.from..(w.to - lasts)
    BY <2>1, <2>2, <2>4, <2>5, <2>7, <1>2
  <2>9. slot = [from |-> slot.from, to |-> slot.from + lasts]
    BY <2>1
  <2> QED BY <2>2, <2>5, <2>8, <2>9, <1>3
<1> QED BY <1>9, <1>10

\* A finite set of numbers has a largest one, by induction on the size of the set.
LEMMA LargestExists ==
    ASSUME NEW S \in SUBSET Nat, IsFiniteSet(S), S # {}
    PROVE  \E x \in S : \A y \in S : x >= y
<1> DEFINE Bounded(n) == \A T \in SUBSET Nat :
                             IsFiniteSet(T) /\ Cardinality(T) = n + 1 => \E x \in T : \A y \in T : x >= y
           Bad == {n \in Nat : ~Bounded(n)}
<1>1. ASSUME NEW T \in SUBSET Nat, NEW n \in Nat, IsFiniteSet(T), Cardinality(T) = n + 1,
             n # 0 => Bounded(n - 1)
      PROVE  \E x \in T : \A y \in T : x >= y
  <2>0. T # {}
    <3> SUFFICES ASSUME T = {} PROVE FALSE
      OBVIOUS
    <3>1. Cardinality(T) = 0
      BY FS_EmptySet
    <3> QED BY <1>1, <3>1
  <2>1. PICK x \in T : TRUE
    BY <2>0
  <2> DEFINE R == T \ {x}
  <2>2. IsFiniteSet(R) /\ Cardinality(R) = n
    <3>1. IsFiniteSet(R) /\ Cardinality(R) = Cardinality(T) - 1
      BY <1>1, <2>1, FS_RemoveElement
    <3> QED BY <1>1, <3>1
  <2>3. CASE n = 0
    <3>1. R = {}
      BY <2>2, <2>3, FS_EmptySet
    <3>2. \A y \in T : y = x /\ x \in Nat
      BY <3>1
    <3> QED BY <3>2
  <2>4. CASE n # 0
    <3>1. Cardinality(R) = (n - 1) + 1 /\ R \in SUBSET Nat
      BY <2>2
    <3>2. PICK z \in R : \A y \in R : z >= y
      BY <1>1, <2>2, <2>4, <3>1
    <3>3. x \in Nat /\ z \in Nat /\ \A y \in T : y = x \/ y \in R
      OBVIOUS
    <3>4. CASE x >= z
      <4>1. \A y \in T : x >= y
        BY <3>2, <3>3, <3>4
      <4> QED BY <4>1
    <3>5. CASE z >= x
      <4>1. \A y \in T : z >= y
        BY <3>2, <3>3, <3>5
      <4> QED BY <4>1
    <3> QED BY <3>3, <3>4, <3>5
  <2> QED BY <2>3, <2>4
<1>2. Bad = {}
  <2> SUFFICES ASSUME Bad # {} PROVE FALSE
    OBVIOUS
  <2>1. PICK n \in Bad : \A m \in Bad : n <= m
    BY LeastExists
  <2>2. n \in Nat /\ n \in Bad
    OBVIOUS
  <2>3. n # 0 => Bounded(n - 1)
    <3> SUFFICES ASSUME n # 0 PROVE Bounded(n - 1)
      OBVIOUS
    <3>1. n - 1 \in Nat /\ ~(n <= n - 1)
      BY <2>2
    <3>2. n - 1 \notin Bad
      BY <2>1, <3>1
    <3> QED BY <3>1, <3>2
  <2>4. Bounded(n)
    BY <2>2, <2>3, <1>1
  <2> QED BY <2>4
<1> HIDE DEF Bounded
<1>3. Cardinality(S) \in Nat \ {0}
  BY FS_CardinalityType, FS_EmptySet
<1>4. Cardinality(S) - 1 \in Nat /\ Cardinality(S) = (Cardinality(S) - 1) + 1
  BY <1>3
<1>5. Bounded(Cardinality(S) - 1)
  BY <1>2, <1>4
<1> QED BY <1>4, <1>5 DEF Bounded

\* A duration reaches the required minimum exactly if it is long enough for the listing
\* and for every rule in force when the slot starts.
LEMMA RequiredMinimumDemands ==
    ASSUME SurfaceAssumption,
           NEW s \in Surfaces, NEW slot
    PROVE  s.duration < RequiredMinimum(s, slot) <=>
               ~ /\ s.minimum <= s.duration
                 /\ \A r \in s.minimumRules : During(slot.from, r) => r.duration <= s.duration
<1> DEFINE inForce == {r \in s.minimumRules : r.from <= slot.from /\ slot.from < r.to}
           demanded == {r.duration : r \in inForce}
           S == {s.minimum} \cup demanded
<1>0. /\ s.minimum \in Nat /\ s.duration \in Nat /\ IsFiniteSet(s.minimumRules)
      /\ \A r \in s.minimumRules : r.duration \in Nat
  BY DEF SurfaceAssumption
<1>1. S \in SUBSET Nat /\ S # {}
  BY <1>0
<1>2. IsFiniteSet(inForce)
  BY <1>0, FS_Subset
<1>3. IsFiniteSet(S)
  <2> DEFINE f == [r \in inForce |-> r.duration]
  <2>1. f \in Surjection(inForce, demanded)
    BY DEF Surjection
  <2>2. IsFiniteSet(demanded)
    BY <1>2, <2>1, FS_Surjection
  <2>3. S = demanded \cup {s.minimum}
    OBVIOUS
  <2> HIDE DEF demanded, S
  <2>4. IsFiniteSet(demanded \cup {s.minimum})
    BY <2>2, FS_AddElement
  <2> QED BY <2>3, <2>4
<1>4. \E x \in S : \A y \in S : x >= y
  BY <1>1, <1>3, LargestExists
<1>5. RequiredMinimum(s, slot) = Max(S)
  BY DEF RequiredMinimum
<1>6. Max(S) \in S /\ \A y \in S : Max(S) >= y
  BY <1>4 DEF Max
<1> DEFINE M == Max(S)
<1>7. \A y \in S : y <= M /\ y \in Nat /\ M \in Nat
  BY <1>1, <1>6
<1>8. M \in S
  BY <1>6
<1> HIDE DEF M
<1>9. \A y : y \in S <=> y = s.minimum \/ \E r \in s.minimumRules : During(slot.from, r) /\ y = r.duration
  BY DEF During
<1> HIDE DEF S
<1>10. s.duration < M <=> \E y \in S : ~(y <= s.duration)
  BY <1>0, <1>7, <1>8
<1> QED BY <1>5, <1>9, <1>10 DEF M

\* What buildRawSlots shows as available is what createBooking accepts, unless a booking
\* that is over lies on it, and starts and lasts as the listing demands: the statuses the
\* surface looks at and those createBooking looks at differ by those alone.
THEOREM AvailableIsAccepted ==
    ASSUME SlotAssumption, SurfaceAssumption PROVE Spec => []OffersAreAccepted
<1>1. TypeOK => OffersAreAccepted
  <2> SUFFICES ASSUME TypeOK, NEW s \in Surfaces, NEW slot \in Offered[s]
               PROVE  LET available == SlotStatus(s, slot) = "available"
                          accepted == ~TakenForNew(slot) /\ ~OverlapsBlock(slot)
                          over == \E b \in Bookings :
                                     /\ booking[b].status \in {"completed", "rejected", "no_show", "disputed"}
                                     /\ Overlap(booking[b].window, slot)
                          inTime == s.cutoff <= slot.from
                          longEnough == /\ s.minimum <= s.duration
                                        /\ \A r \in s.minimumRules :
                                              During(slot.from, r) => r.duration <= s.duration
                      IN /\ available => (accepted \/ over) /\ inTime /\ longEnough
                         /\ accepted /\ inTime /\ longEnough => available
    BY DEF OffersAreAccepted
  <2> DEFINE longEnough == /\ s.minimum <= s.duration
                           /\ \A r \in s.minimumRules :
                                 During(slot.from, r) => r.duration <= s.duration
             over == \E b \in Bookings :
                        /\ booking[b].status \in {"completed", "rejected", "no_show", "disputed"}
                        /\ Overlap(booking[b].window, slot)
  <2>1. \A b \in Bookings : booking[b].status \in BookingStatuses \cup {"absent"}
    BY DEF TypeOK
  <2>2. TakenForNew(slot) /\ ~Busy(slot) => over
    BY <2>1 DEF TakenForNew, Busy, BlockingStatuses, OpenStatuses, BookingStatuses
  <2>3. Busy(slot) => TakenForNew(slot) \/ OverlapsBlock(slot)
    BY DEF TakenForNew, Busy, BlockingStatuses, OpenStatuses
  <2>4. OverlapsBlock(slot) => Busy(slot)
    BY DEF Busy
  <2>5. s.duration < RequiredMinimum(s, slot) <=> ~longEnough
    BY RequiredMinimumDemands
  <2>6. slot.from < s.cutoff <=> ~(s.cutoff <= slot.from)
    <3>1. slot.from \in Int
      <4>1. slot \in OpenSlots(s)
        BY RawSlotsAreOpen DEF Offered
      <4>2. slot.from \in 0..DayEnd
        BY <4>1 DEF OpenSlots
      <4> QED BY <4>2 DEF SurfaceAssumption
    <3> QED BY <3>1 DEF SurfaceAssumption
  <2> HIDE DEF longEnough, over
  <2>7. SlotStatus(s, slot) = "available" <=>
            ~Busy(slot) /\ s.cutoff <= slot.from /\ longEnough
    BY <2>5, <2>6 DEF SlotStatus
  <2>8. /\ SlotStatus(s, slot) = "available" =>
               /\ (~TakenForNew(slot) /\ ~OverlapsBlock(slot)) \/ over
               /\ s.cutoff <= slot.from
               /\ longEnough
        /\ (~TakenForNew(slot) /\ ~OverlapsBlock(slot)) /\ s.cutoff <= slot.from /\ longEnough
               => SlotStatus(s, slot) = "available"
    BY <2>2, <2>3, <2>4, <2>7
  <2> QED BY <2>8 DEF longEnough, over
<1> QED BY <1>1, TypeCorrect, PTL

\* On every day, whatever its rules, exception, duration and slot step, the slots
\* offered are those of which the listing is open throughout, and they are honoured as
\* AvailableIsAccepted says, in every state of the rows.
THEOREM OffersHonoured ==
    ASSUME SlotAssumption, SurfaceAssumption PROVE Spec => []OffersAreHonoured
<1>1. OffersAreOpen
  BY RawSlotsAreOpen DEF OffersAreOpen, Offered, Expected
<1>2. OffersAreAccepted => OffersAreHonoured
  BY <1>1 DEF OffersAreHonoured
<1> QED BY <1>2, AvailableIsAccepted, PTL

------------------------------------------------------------------------------
(* The statuses a booking has held.                                        *)

\* A booking is held to what it has ever been: nothing before its insert, "pending"
\* first, confirmed before it was in progress.
HistoriesGrow ==
    \A b \in Bookings :
        /\ ~Exists(b) => held[b] = {}
        /\ Exists(b) => "pending" \in held[b]
        /\ "in_progress" \in held[b] => "confirmed" \in held[b]

\* A status update writes what a status that its booking has held may become, even
\* when the booking has moved on since the check.
UpdatesFollowHistory ==
    \A h \in Handlers :
        handler[h].pc = "status:write" =>
            /\ Exists(handler[h].id)
            /\ \E r \in held[handler[h].id] : CanBecome(r, handler[h].status)

PathInv == TypeInv /\ StatusesHavePaths /\ HistoriesGrow /\ UpdatesFollowHistory

\* Only these steps of VALID_TRANSITIONS lead to a completed booking.
LEMMA WaysToComplete ==
    ASSUME NEW r \in BookingStatuses, NEW s \in BookingStatuses, CanBecome(r, s)
    PROVE  /\ s # "pending"
           /\ s = "completed" => r = "in_progress"
           /\ s = "in_progress" => r = "confirmed"
BY DEF CanBecome, ValidTransitions, BookingStatuses

LEMMA PathInit ==
    ASSUME SlotAssumption, Init
    PROVE  PathInv
<1>1. TypeInv
  BY TypeInit
<1> QED BY <1>1 DEF PathInv, Init, StatusesHavePaths, HistoriesGrow, UpdatesFollowHistory, Exists, Idle

\* A step that changes no booking's status or history keeps the invariant if it
\* leaves no request about to write a status, but those that were.
LEMMA PathFrame ==
    ASSUME SlotAssumption, PathInv, TypeInv', held' = held,
           \A b \in Bookings : booking'[b].status = booking[b].status,
           \A h \in Handlers : handler'[h].pc = "status:write" => handler'[h] = handler[h]
    PROVE  PathInv'
<1>1. StatusesHavePaths' /\ HistoriesGrow'
  BY DEF PathInv, StatusesHavePaths, HistoriesGrow, Exists
<1>2. UpdatesFollowHistory'
  BY DEF PathInv, TypeInv, HandlersKnow, UpdatesFollowHistory, Exists
<1> QED BY <1>1, <1>2 DEF PathInv

LEMMA PathNext ==
    ASSUME SlotAssumption, PathInv, [Next]_vars
    PROVE  PathInv'
<1>0. TypeInv /\ TypeInv'
  BY TypeNext DEF PathInv
<1>t. TypeOK /\ TypeOK' /\ HandlersKnow
  BY <1>0 DEF TypeInv
<1> DEFINE Frame == /\ held' = held
                    /\ \A b \in Bookings : booking'[b].status = booking[b].status
                    /\ \A h \in Handlers : handler'[h].pc = "status:write" => handler'[h] = handler[h]
<1>a. Frame => PathInv'
  BY <1>0, PathFrame
<1>b. \A h \in Handlers : Done(h) =>
          \A g \in Handlers : handler'[g].pc = "status:write" => handler'[g] = handler[g] /\ g # h
  BY <1>0, <1>t DEF Done, Idle, TypeOK
<1>1. ASSUME NEW h \in Handlers, InsertBooking(h)
      PROVE  PathInv'
  <2> DEFINE b == handler[h].id
  <2>1. b \in Bookings /\ ~Exists(b)
    BY <1>1, <1>0, <1>t DEF InsertBooking, Exists, TypeOK
  <2>2. /\ booking' = [booking EXCEPT ![b] = [status |-> "pending", window |-> handler[h].window]]
        /\ held' = [held EXCEPT ![b] = {"pending"}]
    BY <1>1 DEF InsertBooking
  <2>3. \A c \in Bookings : Exists(c)' <=> (c = b \/ Exists(c))
    BY <1>0, <1>t, <2>1, <2>2 DEF Exists, TypeOK
  <2>4. StatusesHavePaths' /\ HistoriesGrow'
    BY <1>0, <1>t, <2>1, <2>2, <2>3 DEF PathInv, StatusesHavePaths, HistoriesGrow, Exists, TypeOK
  <2>5. UpdatesFollowHistory'
    <3> SUFFICES ASSUME NEW g \in Handlers, handler'[g].pc = "status:write"
                 PROVE  /\ booking'[handler'[g].id].status # "absent"
                        /\ \E r \in held'[handler'[g].id] : CanBecome(r, handler'[g].status)
      BY DEF UpdatesFollowHistory, Exists
    <3>1. handler'[g] = handler[g]
      BY <1>1, <1>b DEF InsertBooking
    <3>2. handler[g].id \in Bookings /\ Exists(handler[g].id) /\ handler[g].id # b
      BY <1>t, <3>1, <2>1 DEF PathInv, UpdatesFollowHistory, HandlersKnow
    <3>3. booking'[handler[g].id] = booking[handler[g].id] /\ held'[handler[g].id] = held[handler[g].id]
      BY <1>t, <2>2, <3>2 DEF TypeOK
    <3> QED BY <3>1, <3>2, <3>3 DEF PathInv, UpdatesFollowHistory, Exists
  <2> QED BY <1>0, <1>t, <2>4, <2>5 DEF PathInv
<1>2. ASSUME NEW h \in Handlers, NEW b \in Bookings, NEW t \in BookingStatuses,
             CheckTransition(h, b, t)
      PROVE  PathInv'
  <2>1. booking' = booking /\ held' = held
    BY <1>2 DEF CheckTransition
  <2>2. StatusesHavePaths' /\ HistoriesGrow'
    BY <2>1 DEF PathInv, StatusesHavePaths, HistoriesGrow, Exists
  <2>3. booking[b].status \in held[b]
    BY <1>2 DEF CheckTransition, PathInv, StatusesHavePaths
  <2>4. UpdatesFollowHistory'
    <3> SUFFICES ASSUME NEW g \in Handlers, handler'[g].pc = "status:write"
                 PROVE  /\ booking'[handler'[g].id].status # "absent"
                        /\ \E r \in held'[handler'[g].id] : CanBecome(r, handler'[g].status)
      BY DEF UpdatesFollowHistory, Exists
    <3>1. CASE g = h
      BY <3>1, <1>0, <1>t, <1>2, <2>1, <2>3 DEF CheckTransition, Exists, TypeOK
    <3>2. CASE g # h
      BY <3>2, <1>0, <1>t, <1>2, <2>1 DEF CheckTransition, Exists, TypeOK, PathInv, UpdatesFollowHistory
    <3> QED BY <3>1, <3>2
  <2> QED BY <1>0, <1>t, <2>2, <2>4 DEF PathInv
<1>3. ASSUME NEW h \in Handlers, WriteStatus(h)
      PROVE  PathInv'
  <2> DEFINE b == handler[h].id
             s == handler[h].status
  <2>1. b \in Bookings /\ Exists(b) /\ s \in BookingStatuses
    BY <1>t, <1>3 DEF HandlersKnow, WriteStatus, PathInv, UpdatesFollowHistory
  <2>2. PICK r \in held[b] : CanBecome(r, s)
    BY <1>3 DEF WriteStatus, PathInv, UpdatesFollowHistory
  <2>3. r \in BookingStatuses
    BY <1>0, <1>t, <2>1 DEF TypeOK
  <2>4. /\ s # "pending"
        /\ s = "completed" => r = "in_progress"
        /\ s = "in_progress" => r = "confirmed"
    BY <2>1, <2>2, <2>3, WaysToComplete
  <2>5. /\ booking' = [booking EXCEPT ![b].status = s]
        /\ held' = [held EXCEPT ![b] = held[b] \cup {s}]
    BY <1>3 DEF WriteStatus
  <2>6. \A c \in Bookings : held[c] \subseteq held'[c] /\ (Exists(c)' <=> Exists(c))
    BY <1>0, <1>t, <2>1, <2>5 DEF Exists, TypeOK, BookingStatuses
  <2>7. \A c \in Bookings \ {b} : held'[c] = held[c] /\ booking'[c] = booking[c]
    BY <1>0, <1>t, <2>1, <2>5 DEF TypeOK
  <2>8. held'[b] = held[b] \cup {s} /\ booking'[b].status = s
    BY <1>0, <1>t, <2>1, <2>5 DEF TypeOK
  <2>9. StatusesHavePaths'
    <3> SUFFICES ASSUME NEW c \in Bookings
                 PROVE  /\ \A q \in held'[c] \ {"pending"} : \E p \in held'[c] : CanBecome(p, q)
                        /\ "completed" \in held'[c]
                              => {"pending", "confirmed", "in_progress"} \subseteq held'[c]
                        /\ Exists(c)' => booking'[c].status \in held'[c]
      BY DEF StatusesHavePaths
    <3>1. CASE c = b
      BY <3>1, <2>1, <2>2, <2>4, <2>8 DEF PathInv, StatusesHavePaths, HistoriesGrow
    <3>2. CASE c # b
      BY <3>2, <2>6, <2>7 DEF PathInv, StatusesHavePaths
    <3> QED BY <3>1, <3>2
  <2>10. HistoriesGrow'
    <3> SUFFICES ASSUME NEW c \in Bookings
                 PROVE  /\ ~Exists(c)' => held'[c] = {}
                        /\ Exists(c)' => "pending" \in held'[c]
                        /\ "in_progress" \in held'[c] => "confirmed" \in held'[c]
      BY DEF HistoriesGrow
    <3>1. CASE c = b
      BY <3>1, <2>1, <2>2, <2>4, <2>6, <2>8 DEF PathInv, HistoriesGrow
    <3>2. CASE c # b
      BY <3>2, <2>6, <2>7 DEF PathInv, HistoriesGrow
    <3> QED BY <3>1, <3>2
  <2>11. UpdatesFollowHistory'
    BY <1>3, <1>b, <1>t, <2>6 DEF WriteStatus, PathInv, UpdatesFollowHistory, HandlersKnow, Exists
  <2> QED BY <1>0, <1>t, <2>9, <2>10, <2>11 DEF PathInv
<1>4. ASSUME NEW h \in Handlers, NEW b \in Bookings, NEW w \in Windows, CheckNewSlot(h, b, w)
      PROVE  Frame
  BY <1>4, <1>0, <1>t DEF CheckNewSlot, TypeOK
<1>5. ASSUME NEW h \in Handlers, CheckNewBlocks(h) \/ CheckMoveOverlap(h) \/ CheckMoveBlocks(h)
      PROVE  Frame
  BY <1>5, <1>0, <1>t DEF CheckNewBlocks, CheckMoveOverlap, CheckMoveBlocks, Goto, TypeOK
<1>6. ASSUME NEW h \in Handlers, NEW b \in Bookings, NEW w \in Windows, ReadSchedule(h, b, w)
      PROVE  Frame
  BY <1>6, <1>0, <1>t DEF ReadSchedule, TypeOK
<1>7. ASSUME NEW h \in Handlers, WriteSchedule(h)
      PROVE  Frame
  BY <1>7, <1>t, <1>b DEF WriteSchedule, TypeOK
<1>8. ASSUME NEW h \in Handlers, NEW k \in Blocks, NEW w \in BlockWindows, CreateBlock(h, k, w)
      PROVE  Frame
  BY <1>8 DEF CreateBlock
<1>9. ASSUME NEW h \in Handlers, Abandon(h)
      PROVE  Frame
  BY <1>9, <1>b DEF Abandon
<1>10. ASSUME UNCHANGED vars
       PROVE  Frame
  BY <1>10 DEF vars
<1>11. ASSUME NEW h \in Handlers, NEW k \in Blocks, DeleteBlock(h, k)
       PROVE  Frame
  BY <1>11 DEF DeleteBlock
<1> QED
  BY <1>a, <1>1, <1>2, <1>3, <1>4, <1>5, <1>6, <1>7, <1>8, <1>9, <1>10, <1>11 DEF Next, Step

\* Whatever requests race on a booking, each status it ever held follows from
\* another one it held, by VALID_TRANSITIONS, down to "pending".
THEOREM PathsExist == ASSUME SlotAssumption PROVE Spec => []StatusesHavePaths
<1>1. Init => PathInv
  BY PathInit
<1>2. PathInv /\ [Next]_vars => PathInv'
  BY PathNext
<1>3. PathInv => StatusesHavePaths
  BY DEF PathInv
<1> QED BY <1>1, <1>2, <1>3, PTL DEF Spec

------------------------------------------------------------------------------
(* Requests served one at a time.                                          *)

OneAtATime == \A g, h \in Handlers : g = h

\* Bookings that occupy their slot do not overlap.
Disjoint ==
    \A a, b \in Bookings :
        (a # b /\ booking[a].status \in BlockingStatuses
               /\ booking[b].status \in BlockingStatuses)
            => ~Overlap(booking[a].window, booking[b].window)

\* What a request has checked is still so when it goes on.
ChecksHold ==
    \A h \in Handlers :
        LET b == handler[h].id
            w == handler[h].window
        IN /\ handler[h].pc \in {"new:blocks", "new:insert"} => ~TakenForNew(w)
           /\ handler[h].pc = "status:write" => CanBecome(booking[b].status, handler[h].status)
           /\ handler[h].pc \in {"move:blocks", "move:write"} => ~TakenForMove(b, w)
           /\ handler[h].pc \in {"new:insert", "move:write"} => ~OverlapsBlock(w)

SerialInv == TypeInv /\ Disjoint /\ ChecksHold

LEMMA OverlapIsSharing ==
    ASSUME SlotAssumption, NEW v \in Windows, NEW w \in Windows
    PROVE  /\ Overlap(v, w) <=> Overlap(w, v)
           /\ \A t \in 0..Horizon : During(t, v) /\ During(t, w) => Overlap(v, w)
           /\ \A t \in 0..Horizon : ~During(t, NoWindow)
BY DEF SlotAssumption, Windows, Overlap, During, NoWindow

\* No update makes a booking occupy a slot that it did not occupy before.
LEMMA BlockingComesFromBlocking ==
    ASSUME NEW r \in BookingStatuses \cup {"absent"}, NEW s \in BlockingStatuses,
           r # "absent", CanBecome(r, s)
    PROVE  r \in BlockingStatuses
BY DEF CanBecome, ValidTransitions, BookingStatuses, BlockingStatuses, OpenStatuses

LEMMA SerialInit ==
    ASSUME SlotAssumption, Init
    PROVE  SerialInv
<1>1. TypeInv
  BY TypeInit
<1> QED BY <1>1 DEF SerialInv, Init, Disjoint, ChecksHold, Idle, BlockingStatuses, OpenStatuses

LEMMA SerialNext ==
    ASSUME SlotAssumption, OneAtATime, UpdatesFollowHistory, SerialInv, [Next]_vars
    PROVE  SerialInv'
<1>0. TypeInv /\ TypeInv'
  BY TypeNext DEF SerialInv
<1>t. TypeOK /\ TypeOK' /\ HandlersKnow
  BY <1>0 DEF TypeInv
<1>a. ASSUME NEW h \in Handlers, Done(h)
      PROVE  ChecksHold'
  BY <1>a, <1>t DEF Done, Idle, ChecksHold, OneAtATime, TypeOK
<1>b. booking' = booking => Disjoint'
  BY DEF SerialInv, Disjoint
<1>1. ASSUME NEW h \in Handlers, NEW b \in Bookings, NEW w \in Windows, CheckNewSlot(h, b, w)
      PROVE  SerialInv'
  <2>1. ChecksHold'
    BY <1>1, <1>t DEF CheckNewSlot, ChecksHold, OneAtATime, TakenForNew, TypeOK
  <2> QED BY <1>0, <1>1, <1>b, <2>1 DEF SerialInv, CheckNewSlot
<1>2. ASSUME NEW h \in Handlers, CheckNewBlocks(h)
      PROVE  SerialInv'
  <2>1. ChecksHold'
    BY <1>2, <1>t DEF SerialInv, CheckNewBlocks, Goto, ChecksHold, OneAtATime, TakenForNew,
                      OverlapsBlock, TypeOK
  <2> QED BY <1>0, <1>2, <1>b, <2>1 DEF SerialInv, CheckNewBlocks
<1>3. ASSUME NEW h \in Handlers, InsertBooking(h)
      PROVE  SerialInv'
  <2> DEFINE b == handler[h].id
             w == handler[h].window
  <2>1. b \in Bookings /\ w \in Windows
    BY <1>3, <1>t DEF InsertBooking, HandlersKnow, TypeOK
  <2>2. booking' = [booking EXCEPT ![b] = [status |-> "pending", window |-> w]]
    BY <1>3 DEF InsertBooking
  <2>3. booking'[b].window = w /\ \A c \in Bookings \ {b} : booking'[c] = booking[c]
    BY <1>t, <2>1, <2>2 DEF TypeOK
  <2>4. \A c \in Bookings \ {b} :
            booking[c].status \in BlockingStatuses => ~Overlap(booking[c].window, w)
    BY <1>3, <2>1 DEF InsertBooking, SerialInv, ChecksHold, TakenForNew, BlockingStatuses, OpenStatuses
  <2>5. \A c \in Bookings : booking[c].window \in Windows
    BY <1>t DEF TypeOK
  <2>6. Disjoint'
    BY <2>1, <2>3, <2>4, <2>5, OverlapIsSharing DEF SerialInv, Disjoint
  <2> QED BY <1>0, <1>3, <1>a, <2>6 DEF SerialInv, InsertBooking
<1>4. ASSUME NEW h \in Handlers, NEW b \in Bookings, NEW t \in BookingStatuses,
             CheckTransition(h, b, t)
      PROVE  SerialInv'
  <2>1. ChecksHold'
    BY <1>4, <1>t DEF CheckTransition, ChecksHold, OneAtATime, TypeOK
  <2> QED BY <1>0, <1>4, <1>b, <2>1 DEF SerialInv, CheckTransition
<1>5. ASSUME NEW h \in Handlers, WriteStatus(h)
      PROVE  SerialInv'
  <2> DEFINE b == handler[h].id
             s == handler[h].status
  <2>1. /\ b \in Bookings /\ booking[b].status # "absent"
        /\ CanBecome(booking[b].status, s)
    BY <1>5, <1>t DEF WriteStatus, HandlersKnow, UpdatesFollowHistory, Exists, SerialInv, ChecksHold
  <2>2. booking' = [booking EXCEPT ![b].status = s]
    BY <1>5 DEF WriteStatus
  <2>3. booking[b].status \in BookingStatuses \cup {"absent"}
    BY <1>t, <2>1 DEF TypeOK
  <2>4. s \in BlockingStatuses => booking[b].status \in BlockingStatuses
    BY <2>1, <2>3, BlockingComesFromBlocking
  <2>5. booking'[b].status = s /\ booking'[b].window = booking[b].window
    BY <1>t, <2>1, <2>2 DEF TypeOK
  <2>6. \A c \in Bookings \ {b} : booking'[c] = booking[c]
    BY <1>t, <2>1, <2>2 DEF TypeOK
  <2>7. \A c \in Bookings :
            /\ booking'[c].window = booking[c].window
            /\ booking'[c].status \in BlockingStatuses => booking[c].status \in BlockingStatuses
    BY <2>4, <2>5, <2>6
  <2>8. Disjoint'
    BY <2>7 DEF SerialInv, Disjoint
  <2> QED BY <1>0, <1>5, <1>a, <2>8 DEF SerialInv, WriteStatus
<1>6. ASSUME NEW h \in Handlers, NEW b \in Bookings, NEW w \in Windows, ReadSchedule(h, b, w)
      PROVE  SerialInv'
  <2>1. ChecksHold'
    BY <1>6, <1>t DEF ReadSchedule, ChecksHold, OneAtATime, TypeOK
  <2> QED BY <1>0, <1>6, <1>b, <2>1 DEF SerialInv, ReadSchedule
<1>7. ASSUME NEW h \in Handlers, CheckMoveOverlap(h)
      PROVE  SerialInv'
  <2>1. ChecksHold'
    BY <1>7, <1>t DEF CheckMoveOverlap, Goto, ChecksHold, OneAtATime, TakenForMove, TypeOK
  <2> QED BY <1>0, <1>7, <1>b, <2>1 DEF SerialInv, CheckMoveOverlap
<1>8. ASSUME NEW h \in Handlers, CheckMoveBlocks(h)
      PROVE  SerialInv'
  <2>1. ChecksHold'
    BY <1>8, <1>t DEF SerialInv, CheckMoveBlocks, Goto, ChecksHold, OneAtATime, TakenForMove,
                      OverlapsBlock, TypeOK
  <2> QED BY <1>0, <1>8, <1>b, <2>1 DEF SerialInv, CheckMoveBlocks
<1>9. ASSUME NEW h \in Handlers, WriteSchedule(h)
      PROVE  SerialInv'
  <2> DEFINE b == handler[h].id
             w == handler[h].window
  <2>1. b \in Bookings /\ w \in Windows
    BY <1>9, <1>t DEF WriteSchedule, HandlersKnow, TypeOK
  <2>2. booking' = [booking EXCEPT ![b].window = w]
    BY <1>9 DEF WriteSchedule
  <2>3. booking'[b].window = w /\ booking'[b].status = booking[b].status
    BY <1>t, <2>1, <2>2 DEF TypeOK
  <2>4. \A c \in Bookings \ {b} : booking'[c] = booking[c]
    BY <1>t, <2>1, <2>2 DEF TypeOK
  <2>5. \A c \in Bookings \ {b} :
            booking[c].status \in BlockingStatuses => ~Overlap(booking[c].window, w)
    BY <1>9, <2>1 DEF WriteSchedule, SerialInv, ChecksHold, TakenForMove
  <2>6. \A c \in Bookings : booking[c].window \in Windows
    BY <1>t DEF TypeOK
  <2>7. Disjoint'
    BY <2>1, <2>3, <2>4, <2>5, <2>6, OverlapIsSharing DEF SerialInv, Disjoint
  <2> QED BY <1>0, <1>9, <1>a, <2>7 DEF SerialInv, WriteSchedule
<1>10. ASSUME NEW h \in Handlers, NEW k \in Blocks, NEW w \in BlockWindows, CreateBlock(h, k, w)
       PROVE  SerialInv'
  <2>1. ChecksHold'
    BY <1>10 DEF CreateBlock, ChecksHold, OneAtATime
  <2> QED BY <1>0, <1>10, <1>b, <2>1 DEF SerialInv, CreateBlock
<1>11. ASSUME NEW h \in Handlers, NEW k \in Blocks, DeleteBlock(h, k)
       PROVE  SerialInv'
  <2>1. ChecksHold'
    BY <1>11 DEF DeleteBlock, ChecksHold, OneAtATime
  <2> QED BY <1>0, <1>11, <1>b, <2>1 DEF SerialInv, DeleteBlock
<1>12. ASSUME NEW h \in Handlers, Abandon(h)
       PROVE  SerialInv'
  BY <1>0, <1>12, <1>a, <1>b DEF SerialInv, Abandon
<1>13. ASSUME UNCHANGED vars
       PROVE  SerialInv'
  <2>1. ChecksHold'
    BY <1>13 DEF vars, SerialInv, ChecksHold, TakenForNew, TakenForMove, OverlapsBlock
  <2> QED BY <1>0, <1>13, <1>b, <2>1 DEF SerialInv, vars
<1> QED
  BY <1>1, <1>2, <1>3, <1>4, <1>5, <1>6, <1>7, <1>8, <1>9, <1>10, <1>11, <1>12, <1>13
     DEF Next, Step

\* Requests served one at a time never give two bookings the same instant.
THEOREM OneAtATimeNeverDoubleBooks ==
    ASSUME SlotAssumption, OneAtATime
    PROVE  Spec => []NoDoubleBooking
<1>1. Init => PathInv /\ SerialInv
  BY PathInit, SerialInit
<1>2. PathInv /\ SerialInv /\ [Next]_vars => (PathInv /\ SerialInv)'
  BY PathNext, SerialNext DEF PathInv
<1>3. SerialInv => NoDoubleBooking
  <2> SUFFICES ASSUME SerialInv, NEW a \in Bookings, NEW b \in Bookings, a # b,
                      booking[a].status \in BlockingStatuses,
                      booking[b].status \in BlockingStatuses,
                      NEW t \in 0..Horizon
               PROVE  ~(During(t, booking[a].window) /\ During(t, booking[b].window))
    BY DEF NoDoubleBooking
  <2>1. ~Overlap(booking[a].window, booking[b].window)
    BY DEF SerialInv, Disjoint
  <2>2. booking[a].window \in Windows /\ booking[b].window \in Windows
    BY DEF SerialInv, TypeInv, TypeOK
  <2> QED BY <2>1, <2>2, OverlapIsSharing
<1> QED BY <1>1, <1>2, <1>3, PTL DEF Spec

\* Requests served one at a time never move or create a booking onto a block or onto
\* an occupied slot.
THEOREM OneAtATimePlacesOnFreeTime ==
    ASSUME SlotAssumption, OneAtATime
    PROVE  Spec => PlacedOnFreeTime
<1> DEFINE Free(b) ==
             \A t \in 0..Horizon : During(t, booking'[b].window) =>
                 /\ \A k \in Blocks : ~During(t, block[k])
                 /\ \A c \in Bookings \ {b} :
                        booking[c].status \in BlockingStatuses => ~During(t, booking[c].window)
           Placed == \A b \in Bookings : booking'[b].window # booking[b].window => Free(b)
<1>1. Init => PathInv /\ SerialInv
  BY PathInit, SerialInit
<1>2. PathInv /\ SerialInv /\ [Next]_vars => (PathInv /\ SerialInv)'
  BY PathNext, SerialNext DEF PathInv
<1>3. SerialInv /\ [Next]_vars => Placed \/ UNCHANGED vars
  <2> SUFFICES ASSUME SerialInv, Next
               PROVE  Placed
    OBVIOUS
  <2>t. TypeOK /\ HandlersKnow
    BY DEF SerialInv, TypeInv
  <2>1. ASSUME NEW h \in Handlers, InsertBooking(h) \/ WriteSchedule(h)
        PROVE  Placed
    <3> DEFINE d == handler[h].id
               w == handler[h].window
    <3>1. d \in Bookings /\ w \in Windows
      BY <2>1, <2>t DEF InsertBooking, WriteSchedule, HandlersKnow, TypeOK
    <3>2. booking'[d].window = w /\ \A c \in Bookings \ {d} : booking'[c] = booking[c]
      BY <2>1, <2>t, <3>1 DEF InsertBooking, WriteSchedule, TypeOK
    <3>3. \A k \in Blocks : block[k] = NoWindow \/ ~Overlap(block[k], w)
      BY <2>1 DEF InsertBooking, WriteSchedule, SerialInv, ChecksHold, OverlapsBlock
    <3>4. \A c \in Bookings \ {d} :
              booking[c].status \in BlockingStatuses => ~Overlap(booking[c].window, w)
      BY <2>1, <3>1 DEF InsertBooking, WriteSchedule, SerialInv, ChecksHold, TakenForNew,
                        TakenForMove, BlockingStatuses, OpenStatuses
    <3>5. /\ \A k \in Blocks : block[k] # NoWindow => block[k] \in Windows
          /\ \A c \in Bookings : booking[c].window \in Windows
      BY <2>t DEF TypeOK, BlockWindows
    <3>6. Free(d)
      BY <3>1, <3>2, <3>3, <3>4, <3>5, OverlapIsSharing
    <3> QED BY <3>2, <3>6
  <2>2. ASSUME NEW h \in Handlers, WriteStatus(h)
        PROVE  \A b \in Bookings : booking'[b].window = booking[b].window
    BY <2>2, <2>t DEF WriteStatus, HandlersKnow, TypeOK
  <2>3. ASSUME booking' = booking
        PROVE  Placed
    BY <2>3
  <2>4. ASSUME NEW h \in Handlers, Step(h), ~InsertBooking(h), ~WriteSchedule(h), ~WriteStatus(h)
        PROVE  booking' = booking
    BY <2>4 DEF Step, CheckNewSlot, ReadSchedule, CheckNewBlocks, CheckTransition,
                CheckMoveOverlap, CheckMoveBlocks, CreateBlock, DeleteBlock, Abandon
  <2> QED BY <2>1, <2>2, <2>3, <2>4 DEF Next
<1> QED BY <1>1, <1>2, <1>3, PTL DEF Spec, PlacedOnFreeTime
==============================================================================
