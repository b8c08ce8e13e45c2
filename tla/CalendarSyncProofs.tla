-------------------------- MODULE CalendarSyncProofs --------------------------
(***************************************************************************)
(* Proofs about CalendarSync, for any events, block rows, synchronisations *)
(* at a time, changes and failures: types, that a registered notification  *)
(* is imported or on record as failed or lost, that a disabled connection  *)
(* blocks nothing, and that what the stored token covers is what the       *)
(* blocks show.                                                            *)
(***************************************************************************)
EXTENDS CalendarSync, TLAPS

------------------------------------------------------------------------------
(* Types.                                                                  *)

Remote == [busy : BOOLEAN, at : Nat]

SyncPCs == {"idle", "register", "insert", "mark", "list", "apply", "write"}

SyncState == [pc : SyncPCs, message : Nat, runs : BOOLEAN, token : Nat,
              listed : SUBSET (Events \X Remote), at : Nat,
              event : Events \cup {Nil}, row : Rows \cup {Nil}]

Connection == [active : BOOLEAN, status : {"idle", "syncing", "error", "disabled"},
               token : Nat, watch : BOOLEAN]

Block == [event : Events \cup {Nil}, at : Nat, active : BOOLEAN]

TypeOK ==
    /\ remote \in [Events -> Remote]
    /\ revision \in Nat
    /\ linked \subseteq Own
    /\ connection \in Connection
    /\ block \in [Rows -> Block]
    /\ ledger \in [registered : SUBSET Nat, failed : SUBSET Nat]
    /\ sync \in [Syncs -> SyncState]
    /\ operator \in {"idle", "sync", "disable", "attach"}
    /\ outdated \subseteq Syncs
    /\ synced \in Nat
    /\ trouble \in BOOLEAN
    /\ lost \subseteq Nat
    /\ disturbances \in Nat

------------------------------------------------------------------------------
(* What the steps do to the synchronisations.                              *)

\* The other synchronisations stay as they are.
Others(s) == \A t \in Syncs \ {s} : sync'[t] = sync[t]

\* Synchronisation s keeps what it has read and listed.
Keeps(s) ==
    /\ sync'[s].message = sync[s].message /\ sync'[s].runs = sync[s].runs
    /\ sync'[s].token = sync[s].token /\ sync'[s].listed = sync[s].listed
    /\ sync'[s].at = sync[s].at
    /\ sync'[s].event = sync[s].event /\ sync'[s].row = sync[s].row

LEMMA IdleTyped ==
    /\ Idle \in SyncState /\ Idle.pc = "idle" /\ Idle.message = 0 /\ Idle.token = 0
    /\ Idle.listed = {} /\ Idle.at = 0 /\ Idle.event = Nil /\ Idle.row = Nil
BY DEF Idle, SyncState, SyncPCs, NoToken

LEMMA SetDoes ==
    ASSUME TypeOK, NEW s \in Syncs, NEW y \in SyncState, sync' = [sync EXCEPT ![s] = y]
    PROVE  sync' \in [Syncs -> SyncState] /\ Others(s) /\ sync'[s] = y
BY DEF TypeOK, Others

LEMMA EndDoes ==
    ASSUME TypeOK, NEW s \in Syncs, sync' = [sync EXCEPT ![s] = Idle]
    PROVE  sync' \in [Syncs -> SyncState] /\ Others(s) /\ sync'[s] = Idle
BY IdleTyped, SetDoes

LEMMA GotoDoes ==
    ASSUME TypeOK, NEW s \in Syncs, NEW pc \in SyncPCs, Goto(s, pc)
    PROVE  sync' \in [Syncs -> SyncState] /\ Others(s) /\ Keeps(s) /\ sync'[s].pc = pc
<1> DEFINE x == sync[s]
           y == [x EXCEPT !.pc = pc]
<1>1. x \in SyncState
  BY DEF TypeOK
<1>2. sync' = [sync EXCEPT ![s] = y]
  BY DEF Goto
<1> HIDE DEF x
<1>3. /\ y \in SyncState /\ y.pc = pc /\ y.message = x.message /\ y.runs = x.runs
      /\ y.token = x.token /\ y.listed = x.listed /\ y.at = x.at /\ y.event = x.event
      /\ y.row = x.row
  BY <1>1 DEF SyncState
<1> HIDE DEF y
<1>4. sync' \in [Syncs -> SyncState] /\ Others(s) /\ sync'[s] = y
  BY <1>2, <1>3, SetDoes
<1> QED BY <1>3, <1>4 DEF Keeps, x

LEMMA ReadDoes ==
    ASSUME TypeOK, NEW s \in Syncs, NEW pc \in SyncPCs, NEW message \in Nat, Read(s, pc, message)
    PROVE  /\ sync[s].pc = "idle" /\ sync' \in [Syncs -> SyncState] /\ Others(s)
           /\ sync'[s].pc = pc /\ sync'[s].message = message
           /\ sync'[s].token = connection.token /\ sync'[s].listed = {} /\ sync'[s].at = 0
           /\ sync'[s].event = Nil /\ sync'[s].row = Nil
           /\ outdated' = outdated \ {s}
<1> DEFINE token == connection.token
           runs == Runs
           y == [Idle EXCEPT !.pc = pc, !.message = message, !.runs = runs, !.token = token]
<1>1. token \in Nat /\ runs \in BOOLEAN
  BY DEF TypeOK, Connection, Runs
<1>2. /\ sync[s].pc = "idle" /\ outdated' = outdated \ {s}
      /\ sync' = [sync EXCEPT ![s] = y]
  BY DEF Read
<1> HIDE DEF token, runs
<1>3. /\ y \in SyncState /\ y.pc = pc /\ y.message = message /\ y.token = token
      /\ y.listed = {} /\ y.at = 0 /\ y.event = Nil /\ y.row = Nil
  BY <1>1, IdleTyped DEF SyncState
<1> HIDE DEF y
<1>4. sync' \in [Syncs -> SyncState] /\ Others(s) /\ sync'[s] = y
  BY <1>2, <1>3, SetDoes
<1> QED BY <1>2, <1>3, <1>4 DEF token

\* A listing: of the events changed since the token that was read, or of all that
\* have ever changed.
LEMMA ListDoes ==
    ASSUME TypeOK, NEW s \in Syncs, ListChanges(s) \/ RecoverFromExpiredToken(s)
    PROVE  /\ sync' \in [Syncs -> SyncState] /\ Others(s)
           /\ sync[s].pc = "list" /\ sync'[s].pc = "apply"
           /\ sync'[s].message = sync[s].message /\ sync'[s].token = sync[s].token
           /\ sync'[s].event = sync[s].event /\ sync'[s].row = sync[s].row
           /\ sync'[s].at = revision
           /\ \E token \in {NoToken, sync[s].token} :
                 sync'[s].listed = {<<e, remote[e]>> : e \in ChangedSince(token)}
<1> DEFINE x == sync[s]
<1>1. PICK token \in {NoToken, x.token} :
         sync' = [sync EXCEPT ![s] = [x EXCEPT !.pc = "apply", !.at = revision,
                     !.listed = {<<e, remote[e]>> : e \in ChangedSince(token)}]]
  BY DEF ListChanges, RecoverFromExpiredToken
<1> DEFINE listed == {<<e, remote[e]>> : e \in ChangedSince(token)}
           y == [x EXCEPT !.pc = "apply", !.at = revision, !.listed = listed]
<1>2. listed \in SUBSET (Events \X Remote)
  BY DEF ChangedSince, TypeOK
<1>3. x \in SyncState /\ revision \in Nat /\ x.pc = "list"
  BY DEF TypeOK, ListChanges, RecoverFromExpiredToken
<1>4. sync' = [sync EXCEPT ![s] = y]
  BY <1>1
<1> HIDE DEF x, listed
<1>5. /\ y \in SyncState /\ y.pc = "apply" /\ y.at = revision /\ y.listed = listed
      /\ y.message = x.message /\ y.token = x.token /\ y.event = x.event /\ y.row = x.row
  BY <1>2, <1>3 DEF SyncState, SyncPCs
<1> HIDE DEF y
<1>6. sync' \in [Syncs -> SyncState] /\ Others(s) /\ sync'[s] = y
  BY <1>4, <1>5, SetDoes
<1> QED BY <1>1, <1>3, <1>5, <1>6 DEF x, listed

\* An event that is looked up is done, or its block will be written.
LEMMA FindDoes ==
    ASSUME SyncAssumption, TypeOK, NEW s \in Syncs, FindBlock(s)
    PROVE  /\ sync' \in [Syncs -> SyncState] /\ Others(s)
           /\ sync[s].pc = "apply"
           /\ sync'[s].message = sync[s].message /\ sync'[s].token = sync[s].token
           /\ sync'[s].at = sync[s].at
           /\ \E l \in sync[s].listed :
                 \/ /\ l[1] \in linked \/ (RowsOf(l[1]) = {} /\ ~l[2].busy)
                    /\ sync'[s].pc = "apply" /\ sync'[s].listed = sync[s].listed \ {l}
                    /\ sync'[s].event = sync[s].event /\ sync'[s].row = sync[s].row
                 \/ /\ l[1] \notin linked
                    /\ sync'[s].pc = "write" /\ sync'[s].listed = sync[s].listed
                    /\ sync'[s].event = l[1] /\ sync'[s].row \in RowsOf(l[1]) \cup {Nil}
<1> DEFINE x == sync[s]
<1>1. x \in SyncState /\ x.pc = "apply"
  BY DEF TypeOK, FindBlock
<1>2. PICK l \in sync[s].listed :
         IF l[1] \in linked \/ (RowsOf(l[1]) = {} /\ ~l[2].busy)
         THEN sync' = [sync EXCEPT ![s].listed = @ \ {l}]
         ELSE \E k \in IF RowsOf(l[1]) = {} THEN {Nil} ELSE RowsOf(l[1]) :
                 sync' = [sync EXCEPT ![s].pc = "write", ![s].event = l[1], ![s].row = k]
  BY DEF FindBlock
<1>3. l[1] \in Events
  BY <1>1 DEF SyncState
<1>4. CASE l[1] \in linked \/ (RowsOf(l[1]) = {} /\ ~l[2].busy)
  <2> DEFINE rest == x.listed \ {l}
             y == [x EXCEPT !.listed = rest]
  <2>1. sync' = [sync EXCEPT ![s] = y] /\ rest \in SUBSET (Events \X Remote)
    BY <1>1, <1>2, <1>4 DEF SyncState
  <2> HIDE DEF x, rest
  <2>2. /\ y \in SyncState /\ y.pc = "apply" /\ y.at = x.at /\ y.listed = rest
        /\ y.message = x.message /\ y.token = x.token /\ y.event = x.event /\ y.row = x.row
    BY <1>1, <2>1 DEF SyncState
  <2> HIDE DEF y
  <2>3. sync' \in [Syncs -> SyncState] /\ Others(s) /\ sync'[s] = y
    BY <2>1, <2>2, SetDoes
  <2> QED BY <1>1, <1>4, <2>2, <2>3 DEF x, rest
<1>5. CASE ~(l[1] \in linked \/ (RowsOf(l[1]) = {} /\ ~l[2].busy))
  <2> DEFINE e == l[1]
  <2>1. PICK k \in RowsOf(e) \cup {Nil} :
           sync' = [sync EXCEPT ![s] = [x EXCEPT !.pc = "write", !.event = e, !.row = k]]
    BY <1>2, <1>5
  <2> DEFINE y == [x EXCEPT !.pc = "write", !.event = e, !.row = k]
  <2>2. k \in Rows \cup {Nil} /\ e \in Events
    BY <1>3, <2>1 DEF RowsOf
  <2>3. sync' = [sync EXCEPT ![s] = y]
    BY <2>1
  <2> HIDE DEF x, e
  <2>4. /\ y \in SyncState /\ y.pc = "write" /\ y.at = x.at /\ y.listed = x.listed
        /\ y.message = x.message /\ y.token = x.token /\ y.event = e /\ y.row = k
    BY <1>1, <2>2 DEF SyncState, SyncPCs
  <2> HIDE DEF y
  <2>5. sync' \in [Syncs -> SyncState] /\ Others(s) /\ sync'[s] = y
    BY <2>3, <2>4, SetDoes
  <2> QED BY <1>1, <1>2, <1>5, <2>1, <2>4, <2>5 DEF x, e
<1> QED BY <1>4, <1>5

\* A write takes one listed event to its row, or to a free one.
LEMMA WriteDoes ==
    ASSUME SyncAssumption, TypeOK, NEW s \in Syncs, WriteBlock(s)
    PROVE  /\ sync' \in [Syncs -> SyncState] /\ Others(s)
           /\ sync[s].pc = "write" /\ sync'[s].pc = "apply"
           /\ sync'[s].message = sync[s].message /\ sync'[s].token = sync[s].token
           /\ sync'[s].at = sync[s].at /\ sync'[s].event = Nil /\ sync'[s].row = Nil
           /\ block' \in [Rows -> Block]
           /\ \E l \in sync[s].listed, k \in Rows :
                 /\ l[1] = sync[s].event /\ sync'[s].listed = sync[s].listed \ {l}
                 /\ sync[s].row = Nil => block[k].event = Nil
                 /\ sync[s].row # Nil => k = sync[s].row
                 /\ \A j \in Rows \ {k} : block'[j] = block[j]
                 /\ l[2].busy => block'[k] = [event |-> l[1], at |-> l[2].at, active |-> TRUE]
                 /\ ~l[2].busy => block'[k].event = block[k].event /\ ~block'[k].active
           /\ ~trouble' => /\ ~Outdated(s)
                           /\ sync[s].row = Nil => RowsOf(sync[s].event) = {}
<1> DEFINE x == sync[s]
           free == IF sync[s].row = Nil THEN FreeRow ELSE sync[s].row
<1>1. PICK l \in sync[s].listed :
         /\ l[1] = sync[s].event
         /\ sync[s].row = Nil => FreeRows # {}
         /\ block' = [block EXCEPT ![free] =
                IF l[2].busy THEN [event |-> l[1], at |-> l[2].at, active |-> TRUE]
                             ELSE [@ EXCEPT !.active = FALSE]]
         /\ trouble' = (trouble \/ Outdated(s) \/ (sync[s].row = Nil /\ RowsOf(l[1]) # {}))
         /\ sync' = [sync EXCEPT ![s].pc = "apply", ![s].listed = @ \ {l},
                                 ![s].event = Nil, ![s].row = Nil]
  BY DEF WriteBlock
<1>2. x \in SyncState /\ x.pc = "write"
  BY DEF TypeOK, WriteBlock
<1>3. l[1] \in Events /\ l[2] \in Remote
  BY <1>2 DEF SyncState
<1>4. free \in Rows /\ (sync[s].row = Nil => block[free].event = Nil)
  <2>1. CASE sync[s].row = Nil
    <3>1. FreeRow \in FreeRows
      BY <1>1, <2>1 DEF FreeRow
    <3> QED BY <2>1, <3>1 DEF FreeRows
  <2>2. CASE sync[s].row # Nil
    BY <1>2, <2>2 DEF SyncState
  <2> QED BY <2>1, <2>2
<1>5. /\ block' \in [Rows -> Block]
      /\ \A j \in Rows \ {free} : block'[j] = block[j]
      /\ l[2].busy => block'[free] = [event |-> l[1], at |-> l[2].at, active |-> TRUE]
      /\ ~l[2].busy => block'[free].event = block[free].event /\ ~block'[free].active
  <2> HIDE DEF free
  <2>1. block \in [Rows -> Block] /\ block[free] \in Block
    BY <1>4 DEF TypeOK
  <2> DEFINE old == block[free]
             new == IF l[2].busy THEN [event |-> l[1], at |-> l[2].at, active |-> TRUE]
                                 ELSE [old EXCEPT !.active = FALSE]
  <2>2. block' = [block EXCEPT ![free] = new]
    BY <1>1
  <2> HIDE DEF old
  <2>3. /\ new \in Block
        /\ l[2].busy => new = [event |-> l[1], at |-> l[2].at, active |-> TRUE]
        /\ ~l[2].busy => new.event = old.event /\ ~new.active
    BY <1>3, <2>1 DEF Block, Remote, old
  <2> HIDE DEF new
  <2>4. block' \in [Rows -> Block] /\ block'[free] = new
        /\ \A j \in Rows \ {free} : block'[j] = block[j]
    BY <1>4, <2>1, <2>2, <2>3
  <2> QED BY <2>3, <2>4 DEF old
<1> DEFINE rest == x.listed \ {l}
           y == [x EXCEPT !.pc = "apply", !.listed = rest, !.event = Nil, !.row = Nil]
<1>6. sync' = [sync EXCEPT ![s] = y] /\ rest \in SUBSET (Events \X Remote)
  BY <1>1, <1>2 DEF SyncState
<1>7. ~trouble' => ~Outdated(s) /\ (sync[s].row = Nil => RowsOf(sync[s].event) = {})
  BY <1>1
<1> HIDE DEF x, rest, free
<1>8. /\ y \in SyncState /\ y.pc = "apply" /\ y.at = x.at /\ y.listed = rest
      /\ y.message = x.message /\ y.token = x.token /\ y.event = Nil /\ y.row = Nil
  BY <1>2, <1>6 DEF SyncState, SyncPCs
<1> HIDE DEF y
<1>9. sync' \in [Syncs -> SyncState] /\ Others(s) /\ sync'[s] = y
  BY <1>6, <1>8, SetDoes
<1>10. /\ sync[s].pc = "write" /\ sync'[s].pc = "apply" /\ sync'[s].listed = sync[s].listed \ {l}
       /\ sync'[s].message = sync[s].message /\ sync'[s].token = sync[s].token
       /\ sync'[s].at = sync[s].at /\ sync'[s].event = Nil /\ sync'[s].row = Nil
  BY <1>2, <1>8, <1>9 DEF x, rest
<1>11. sync[s].row # Nil => free = sync[s].row
  BY DEF free
<1> QED BY <1>1, <1>4, <1>5, <1>7, <1>9, <1>10, <1>11

------------------------------------------------------------------------------
(* Type correctness.                                                       *)

LEMMA TypeInit ==
    ASSUME SyncAssumption, Init
    PROVE  TypeOK
BY IdleTyped DEF SyncAssumption, Init, TypeOK, Remote, Connection, Block, NoToken

\* The steps of a synchronisation.
LEMMA TypeProceed ==
    ASSUME SyncAssumption, TypeOK, NEW s \in Syncs, Proceed(s)
    PROVE  TypeOK'
<1>0. sync[s] \in SyncState
  BY DEF TypeOK
<1>1. CASE LookUpMessage(s)
  <2>1. sync' \in [Syncs -> SyncState]
    BY <1>1, EndDoes, GotoDoes DEF LookUpMessage, SyncPCs
  <2> QED BY <1>1, <2>1 DEF LookUpMessage, TypeOK, operatorVars, calendarVars, historyVars
<1>2. CASE InsertMessage(s)
  <2>1. sync' \in [Syncs -> SyncState]
    BY <1>2, EndDoes, GotoDoes DEF InsertMessage, SyncPCs
  <2>2. sync[s].message \in Nat
    BY <1>0 DEF SyncState
  <2>3. ledger' \in [registered : SUBSET Nat, failed : SUBSET Nat] /\ lost' \subseteq Nat
    BY <1>2, <2>2 DEF InsertMessage, TypeOK
  <2> QED BY <1>2, <2>1, <2>3 DEF InsertMessage, TypeOK, operatorVars, calendarVars
<1>3. CASE MarkSyncing(s)
  <2>1. sync' \in [Syncs -> SyncState]
    BY <1>3, GotoDoes DEF MarkSyncing, SyncPCs
  <2>2. connection' \in Connection
    BY <1>3 DEF MarkSyncing, TypeOK, Connection
  <2> QED BY <1>3, <2>1, <2>2 DEF MarkSyncing, TypeOK, operatorVars, calendarVars, historyVars
<1>4. CASE ListChanges(s)
  BY <1>4, ListDoes DEF ListChanges, TypeOK, operatorVars, calendarVars, historyVars
<1>5. CASE FindBlock(s)
  BY <1>5, FindDoes DEF FindBlock, TypeOK, operatorVars, calendarVars, historyVars
<1>6. CASE WriteBlock(s)
  <2>1. trouble' \in BOOLEAN
    BY <1>6 DEF WriteBlock, TypeOK
  <2> QED BY <1>6, <2>1, WriteDoes DEF WriteBlock, TypeOK, operatorVars, calendarVars
<1>7. CASE Finish(s)
  <2>1. sync' \in [Syncs -> SyncState]
    BY <1>7, EndDoes DEF Finish
  <2>2. sync[s].at \in Nat
    BY <1>0 DEF SyncState
  <2>3. connection' \in Connection /\ synced' \in Nat /\ trouble' \in BOOLEAN
    BY <1>7, <2>2 DEF Finish, TypeOK, Connection
  <2> QED BY <1>7, <2>1, <2>3 DEF Finish, TypeOK, operatorVars, calendarVars
<1> QED BY <1>1, <1>2, <1>3, <1>4, <1>5, <1>6, <1>7 DEF Proceed

\* What goes wrong for a synchronisation, and what starts one.
LEMMA TypeSync ==
    ASSUME SyncAssumption, TypeOK, NEW s \in Syncs,
           \/ Poll(s) \/ Retry(s) \/ SyncById(s)
           \/ \E n \in 1..MaxRevision : Notify(s, n)
           \/ RecoverFromExpiredToken(s) \/ SyncFails(s) \/ Crash(s)
    PROVE  TypeOK'
<1>0. sync[s] \in SyncState /\ sync[s].message \in Nat
  BY DEF TypeOK, SyncState
<1>1. CASE Poll(s) \/ Retry(s)
  <2>1. Read(s, "mark", 0) /\ "mark" \in SyncPCs
    BY <1>1 DEF Poll, Retry, SyncPCs
  <2>2. sync' \in [Syncs -> SyncState] /\ outdated' \subseteq Syncs
    BY <2>1, ReadDoes DEF TypeOK
  <2> QED BY <1>1, <2>2 DEF Poll, Retry, TypeOK, calendarVars, historyVars
<1>2. CASE SyncById(s)
  <2>1. sync' \in [Syncs -> SyncState] /\ outdated' \subseteq Syncs
    BY <1>2, ReadDoes DEF SyncById, SyncPCs, TypeOK
  <2> QED BY <1>2, <2>1 DEF SyncById, TypeOK, calendarVars, historyVars
<1>3. ASSUME NEW n \in 1..MaxRevision, Notify(s, n)
      PROVE  TypeOK'
  <2>1. n \in Nat
    OBVIOUS
  <2> QED BY <1>3, <2>1, ReadDoes DEF Notify, SyncPCs, TypeOK, calendarVars, historyVars
<1>4. CASE RecoverFromExpiredToken(s)
  <2>1. disturbances' \in Nat
    BY <1>4 DEF RecoverFromExpiredToken, Disturb, TypeOK
  <2> QED BY <1>4, <2>1, ListDoes DEF RecoverFromExpiredToken, TypeOK, operatorVars, calendarVars,
                                     historyVars
<1>5. CASE SyncFails(s)
  <2>1. disturbances' \in Nat
    BY <1>5 DEF SyncFails, Disturb, TypeOK
  <2>2. connection' \in Connection /\ ledger' \in [registered : SUBSET Nat, failed : SUBSET Nat]
    BY <1>0, <1>5 DEF SyncFails, TypeOK, Connection
  <2>3. sync' \in [Syncs -> SyncState]
    BY <1>5, EndDoes DEF SyncFails
  <2> QED BY <1>5, <2>1, <2>2, <2>3 DEF SyncFails, TypeOK, operatorVars, calendarVars, historyVars
<1>6. CASE Crash(s)
  <2>1. disturbances' \in Nat
    BY <1>6 DEF Crash, Disturb, TypeOK
  <2>2. lost' \subseteq Nat
    BY <1>0, <1>6 DEF Crash, TypeOK
  <2>3. sync' \in [Syncs -> SyncState]
    BY <1>6, EndDoes DEF Crash
  <2> QED BY <1>6, <2>1, <2>2, <2>3 DEF Crash, TypeOK, operatorVars, calendarVars
<1> QED BY <1>1, <1>2, <1>3, <1>4, <1>5, <1>6

\* The steps of the calendar and of the operator.
LEMMA TypeOthers ==
    ASSUME SyncAssumption, TypeOK,
           \/ \E e \in Events, busy \in BOOLEAN : ChangeEvent(e, busy)
           \/ \E e \in Own : StoreLink(e)
           \/ DeactivateBlocks \/ Enable \/ OpenWatch \/ StopWatch \/ OperatorDies
           \/ DisableRow \/ AttachWatch \/ UNCHANGED vars
    PROVE  TypeOK' /\ sync' = sync
<1> USE DEF TypeOK, operatorVars, calendarVars, historyVars
<1>r. Running \subseteq Syncs
  BY DEF Running
<1>d. Disturb => disturbances' \in Nat
  BY DEF Disturb
<1>1. ASSUME NEW e \in Events, NEW busy \in BOOLEAN, ChangeEvent(e, busy)
      PROVE  TypeOK' /\ sync' = sync
  BY <1>1 DEF ChangeEvent, Remote
<1>2. ASSUME NEW e \in Own, StoreLink(e)
      PROVE  TypeOK' /\ sync' = sync
  BY <1>2 DEF StoreLink
<1>3. CASE DeactivateBlocks
  <2>1. block' \in [Rows -> Block]
    BY <1>3 DEF DeactivateBlocks, Block
  <2> QED BY <1>3, <1>d, <1>r, <2>1 DEF DeactivateBlocks
<1>4. CASE Enable
  BY <1>4, <1>d, <1>r DEF Enable, Connection, NoToken
<1>5. CASE OpenWatch
  BY <1>5, <1>d DEF OpenWatch
<1>6. CASE StopWatch
  BY <1>6, <1>d DEF StopWatch, Connection
<1>7. CASE OperatorDies
  BY <1>7, <1>d DEF OperatorDies
<1>8. CASE DisableRow
  BY <1>8, <1>r DEF DisableRow, Connection, NoToken
<1>9. CASE AttachWatch
  BY <1>9 DEF AttachWatch, Connection
<1>10. CASE UNCHANGED vars
  BY <1>10 DEF vars
<1> QED BY <1>1, <1>2, <1>3, <1>4, <1>5, <1>6, <1>7, <1>8, <1>9, <1>10

LEMMA TypeNext ==
    ASSUME SyncAssumption, TypeOK, [Next]_vars
    PROVE  TypeOK'
BY TypeProceed, TypeSync, TypeOthers DEF Next, OperatorProceeds

\* The calendar, the rows, the ledger and the synchronisations keep their types.
THEOREM TypeCorrect == ASSUME SyncAssumption PROVE Spec => []TypeOK
<1>1. Init => TypeOK
  BY TypeInit
<1>2. TypeOK /\ [Next]_vars => TypeOK'
  BY TypeNext
<1> QED BY <1>1, <1>2, PTL DEF Spec

------------------------------------------------------------------------------
(* Revisions and notifications.                                            *)

\* A synchronisation that has listed and not finished.
Applying(s) == sync[s].pc \in {"apply", "write"}

\* Nothing shows a revision the calendar has not had.
RevisionsBounded ==
    /\ synced <= revision
    /\ \A e \in Events : /\ remote[e].at <= revision
                         /\ remote[e].at = 0 => ~remote[e].busy
    /\ \A s \in Syncs : sync[s].at <= revision

\* A listing is of the calendar as it was at the notification, or later.
MessagesBounded ==
    \A s \in Syncs :
        /\ sync[s].message <= revision
        /\ Applying(s) => sync[s].message <= sync[s].at
        /\ sync[s].pc \in {"register", "insert"} => sync[s].message # 0

\* A registered notification has been imported, or is past its registration, or is
\* on record as failed or lost.
Carried ==
    \A n \in ledger.registered :
        /\ n # 0
        /\ \/ synced >= n
           \/ n \in ledger.failed \cup lost
           \/ \E s \in Syncs : /\ sync[s].pc \in {"mark", "list", "apply", "write"}
                               /\ sync[s].message = n

NotifyInv == TypeOK /\ RevisionsBounded /\ MessagesBounded /\ Carried

LEMMA NotifyInit ==
    ASSUME SyncAssumption, Init
    PROVE  NotifyInv
<1>1. \A s \in Syncs : sync[s].at = 0 /\ sync[s].message = 0 /\ sync[s].pc = "idle"
  BY IdleTyped DEF Init
<1>2. \A e \in Events : remote[e].at = 0 /\ ~remote[e].busy
  BY DEF Init
<1>3. revision = 0 /\ synced = 0 /\ ledger.registered = {}
  BY DEF Init
<1>4. RevisionsBounded /\ MessagesBounded /\ Carried
  BY <1>1, <1>2, <1>3 DEF RevisionsBounded, MessagesBounded, Carried, Applying
<1> QED BY <1>4, TypeInit DEF NotifyInv

\* What each step does to the synchronisation s and to what is kept of notifications.
Ends(s) == sync'[s].pc = "idle" /\ sync'[s].message = 0 /\ sync'[s].at = 0

LEMMA NotifyProceed ==
    ASSUME SyncAssumption, NotifyInv, NEW s \in Syncs, Proceed(s)
    PROVE  NotifyInv'
<1>0. TypeOK /\ TypeOK' /\ RevisionsBounded /\ MessagesBounded /\ Carried
  BY TypeProceed DEF NotifyInv
<1>a. /\ sync[s].message \in Nat /\ sync[s].at \in Nat /\ revision \in Nat /\ synced \in Nat
      /\ \A t \in Syncs : sync[t].at \in Nat /\ sync[t].message \in Nat
      /\ ledger.registered \subseteq Nat
  BY <1>0 DEF TypeOK, SyncState
<1>b. sync[s].message <= revision
  BY <1>0 DEF MessagesBounded
<1>1. CASE LookUpMessage(s)
  <2>1. CASE sync'[s].pc = "idle"
    <3>1. Others(s) /\ Ends(s) /\ sync[s].pc = "register"
      BY <1>0, <1>1, <2>1, EndDoes, GotoDoes, IdleTyped DEF LookUpMessage, SyncPCs, Ends
    <3>2. UNCHANGED <<remote, revision, ledger, synced, lost>>
      BY <1>1 DEF LookUpMessage, calendarVars, historyVars
    <3>3. RevisionsBounded' /\ MessagesBounded'
      BY <1>0, <1>a, <3>1, <3>2
         DEF RevisionsBounded, MessagesBounded, Applying, Others, Ends
    <3>4. Carried'
      BY <1>0, <3>1, <3>2 DEF Carried, Others
    <3> QED BY <1>0, <3>3, <3>4 DEF NotifyInv
  <2>2. CASE sync'[s].pc # "idle"
    <3>1. Others(s) /\ Keeps(s) /\ sync[s].pc = "register" /\ sync'[s].pc = "insert"
      BY <1>0, <1>1, <2>2, EndDoes, GotoDoes, IdleTyped DEF LookUpMessage, SyncPCs
    <3>2. UNCHANGED <<remote, revision, ledger, synced, lost>>
      BY <1>1 DEF LookUpMessage, calendarVars, historyVars
    <3>3. RevisionsBounded' /\ MessagesBounded'
      BY <1>0, <3>1, <3>2
         DEF RevisionsBounded, MessagesBounded, Applying, Others, Keeps
    <3>4. Carried'
      BY <1>0, <3>1, <3>2 DEF Carried, Others
    <3> QED BY <1>0, <3>3, <3>4 DEF NotifyInv
  <2> QED BY <2>1, <2>2
<1>2. CASE InsertMessage(s)
  <2> DEFINE n == sync[s].message
  <2>1. n # 0 /\ sync[s].pc = "insert"
    BY <1>0, <1>2 DEF InsertMessage, MessagesBounded
  <2>2. /\ ledger'.registered = ledger.registered \cup {n} /\ ledger'.failed = ledger.failed
        /\ UNCHANGED <<remote, revision, synced>>
    BY <1>0, <1>2 DEF InsertMessage, TypeOK, calendarVars
  <2>3. CASE sync[s].runs
    <3>1. Others(s) /\ Keeps(s) /\ sync'[s].pc = "mark" /\ lost' = lost
      BY <1>0, <1>2, <2>3, GotoDoes DEF InsertMessage, SyncPCs
    <3>2. RevisionsBounded' /\ MessagesBounded'
      BY <1>0, <2>1, <2>2, <3>1
         DEF RevisionsBounded, MessagesBounded, Applying, Others, Keeps
    <3>3. Carried'
      BY <1>0, <2>1, <2>2, <3>1 DEF Carried, Others, Keeps
    <3> QED BY <1>0, <3>2, <3>3 DEF NotifyInv
  <2>4. CASE ~sync[s].runs
    <3>1. Others(s) /\ Ends(s) /\ lost' = lost \cup {n}
      BY <1>0, <1>2, <2>4, EndDoes, IdleTyped DEF InsertMessage, Ends
    <3>2. RevisionsBounded' /\ MessagesBounded'
      BY <1>0, <1>a, <2>2, <3>1
         DEF RevisionsBounded, MessagesBounded, Applying, Others, Ends
    <3>3. Carried'
      BY <1>0, <2>1, <2>2, <3>1 DEF Carried, Others
    <3> QED BY <1>0, <3>2, <3>3 DEF NotifyInv
  <2> QED BY <2>3, <2>4
<1>3. CASE MarkSyncing(s)
  <2>1. Others(s) /\ Keeps(s) /\ sync[s].pc = "mark" /\ sync'[s].pc = "list"
    BY <1>0, <1>3, GotoDoes DEF MarkSyncing, SyncPCs
  <2>2. UNCHANGED <<remote, revision, ledger, synced, lost>>
    BY <1>3 DEF MarkSyncing, calendarVars, historyVars
  <2>3. RevisionsBounded' /\ MessagesBounded' /\ Carried'
    BY <1>0, <2>1, <2>2
       DEF RevisionsBounded, MessagesBounded, Applying, Others, Keeps, Carried
  <2> QED BY <1>0, <2>3 DEF NotifyInv
<1>4. CASE ListChanges(s)
  <2>1. /\ Others(s) /\ sync[s].pc = "list" /\ sync'[s].pc = "apply"
        /\ sync'[s].message = sync[s].message /\ sync'[s].at = revision
    BY <1>0, <1>4, ListDoes
  <2>2. UNCHANGED <<remote, revision, ledger, synced, lost>>
    BY <1>4 DEF ListChanges, calendarVars, historyVars
  <2>3. RevisionsBounded' /\ MessagesBounded' /\ Carried'
    BY <1>0, <1>a, <1>b, <2>1, <2>2
       DEF RevisionsBounded, MessagesBounded, Applying, Others, Carried
  <2> QED BY <1>0, <2>3 DEF NotifyInv
<1>5. CASE FindBlock(s) \/ WriteBlock(s)
  <2>1. /\ Others(s) /\ Applying(s) /\ sync'[s].pc \in {"apply", "write"}
        /\ sync'[s].message = sync[s].message /\ sync'[s].at = sync[s].at
    BY <1>0, <1>5, FindDoes, WriteDoes DEF Applying
  <2>2. UNCHANGED <<remote, revision, ledger, synced, lost>>
    BY <1>5 DEF FindBlock, WriteBlock, calendarVars, historyVars
  <2>3. RevisionsBounded' /\ MessagesBounded' /\ Carried'
    BY <1>0, <2>1, <2>2
       DEF RevisionsBounded, MessagesBounded, Applying, Others, Carried
  <2> QED BY <1>0, <2>3 DEF NotifyInv
<1>6. CASE Finish(s)
  <2> DEFINE at == sync[s].at
  <2>1. Others(s) /\ Ends(s) /\ sync[s].pc = "apply"
    BY <1>0, <1>6, EndDoes, IdleTyped DEF Finish, Ends
  <2>2. UNCHANGED <<remote, revision, ledger, lost>> /\ synced' = IF at > synced THEN at ELSE synced
    BY <1>6 DEF Finish, calendarVars
  <2>3. sync[s].message <= at /\ at <= revision
    BY <1>0, <2>1 DEF MessagesBounded, RevisionsBounded, Applying
  <2>4. synced' >= at /\ synced' >= synced /\ synced' <= revision
    BY <1>0, <1>a, <2>2, <2>3 DEF RevisionsBounded
  <2>5. RevisionsBounded' /\ MessagesBounded'
    BY <1>0, <1>a, <2>1, <2>2, <2>4
       DEF RevisionsBounded, MessagesBounded, Applying, Others, Ends
  <2>6. Carried'
    <3> SUFFICES ASSUME NEW n \in ledger.registered
                 PROVE  /\ n # 0
                        /\ \/ synced' >= n
                           \/ n \in ledger.failed \cup lost
                           \/ \E t \in Syncs : /\ sync'[t].pc \in {"mark", "list", "apply", "write"}
                                               /\ sync'[t].message = n
      BY <2>2 DEF Carried
    <3>1. n \in Nat /\ synced' \in Nat
      BY <1>0, <1>a DEF TypeOK
    <3>2. CASE synced >= n \/ sync[s].message = n
      BY <1>0, <1>a, <2>3, <2>4, <3>1, <3>2 DEF Carried
    <3>3. CASE ~(synced >= n \/ sync[s].message = n)
      BY <1>0, <2>1, <3>3 DEF Carried, Others
    <3> QED BY <3>2, <3>3
  <2> QED BY <1>0, <2>5, <2>6 DEF NotifyInv
<1> QED BY <1>1, <1>2, <1>3, <1>4, <1>5, <1>6 DEF Proceed

LEMMA NotifySync ==
    ASSUME SyncAssumption, NotifyInv, NEW s \in Syncs,
           \/ Poll(s) \/ Retry(s) \/ SyncById(s)
           \/ \E n \in 1..MaxRevision : Notify(s, n)
           \/ RecoverFromExpiredToken(s) \/ SyncFails(s) \/ Crash(s)
    PROVE  NotifyInv'
<1>0. TypeOK /\ TypeOK' /\ RevisionsBounded /\ MessagesBounded /\ Carried
  BY TypeSync DEF NotifyInv
<1>a. /\ sync[s].message \in Nat /\ sync[s].at \in Nat /\ revision \in Nat /\ synced \in Nat
      /\ \A t \in Syncs : sync[t].at \in Nat /\ sync[t].message \in Nat
      /\ ledger.registered \subseteq Nat
  BY <1>0 DEF TypeOK, SyncState
<1>b. sync[s].message <= revision
  BY <1>0 DEF MessagesBounded
<1>1. ASSUME NEW pc \in SyncPCs, NEW n \in Nat, Read(s, pc, n), n <= revision,
             pc = "mark" \/ (pc = "register" /\ n # 0),
             UNCHANGED <<remote, revision, ledger, synced, lost>>
      PROVE  NotifyInv'
  <2>1. /\ Others(s) /\ sync[s].pc = "idle" /\ sync'[s].pc = pc
        /\ sync'[s].message = n /\ sync'[s].at = 0
    BY <1>0, <1>1, ReadDoes
  <2>2. RevisionsBounded'
    BY <1>0, <1>1, <1>a, <2>1 DEF RevisionsBounded, Others
  <2>3. MessagesBounded'
    BY <1>0, <1>1, <2>1 DEF MessagesBounded, Applying, Others
  <2>4. Carried'
    BY <1>0, <1>1, <2>1 DEF Carried, Others
  <2> QED BY <1>0, <2>2, <2>3, <2>4 DEF NotifyInv
<1>2. CASE Poll(s) \/ Retry(s)
  <2>1. Read(s, "mark", 0) /\ "mark" \in SyncPCs /\ 0 <= revision
    BY <1>2, <1>a DEF Poll, Retry, SyncPCs
  <2>2. UNCHANGED <<remote, revision, ledger, synced, lost>>
    BY <1>2 DEF Poll, Retry, calendarVars, historyVars
  <2> QED BY <1>1, <2>1, <2>2
<1>3. CASE SyncById(s)
  <2>1. UNCHANGED <<remote, revision, ledger, synced, lost>>
    BY <1>3 DEF SyncById, calendarVars, historyVars
  <2>2. CASE Runs
    <3>1. Read(s, "mark", 0) /\ "mark" \in SyncPCs /\ 0 <= revision
      BY <1>3, <1>a, <2>2 DEF SyncById, SyncPCs
    <3> QED BY <1>1, <2>1, <3>1
  <2>3. CASE ~Runs
    <3>1. sync' = sync
      BY <1>3, <2>3 DEF SyncById
    <3> QED BY <1>0, <2>1, <3>1
            DEF NotifyInv, RevisionsBounded, MessagesBounded, Carried, Applying
  <2> QED BY <2>2, <2>3
<1>4. ASSUME NEW n \in 1..MaxRevision, Notify(s, n)
      PROVE  NotifyInv'
  <2>1. n \in Nat /\ n # 0 /\ n <= revision /\ Read(s, "register", n) /\ "register" \in SyncPCs
    BY <1>4 DEF Notify, SyncPCs
  <2>2. UNCHANGED <<remote, revision, ledger, synced, lost>>
    BY <1>4 DEF Notify, calendarVars, historyVars
  <2> QED BY <1>1, <2>1, <2>2
<1>5. CASE RecoverFromExpiredToken(s)
  <2>1. /\ Others(s) /\ sync[s].pc = "list" /\ sync'[s].pc = "apply"
        /\ sync'[s].message = sync[s].message /\ sync'[s].at = revision
    BY <1>0, <1>5, ListDoes
  <2>2. UNCHANGED <<remote, revision, ledger, synced, lost>>
    BY <1>5 DEF RecoverFromExpiredToken, calendarVars, historyVars
  <2>3. RevisionsBounded' /\ MessagesBounded' /\ Carried'
    BY <1>0, <1>a, <1>b, <2>1, <2>2
       DEF RevisionsBounded, MessagesBounded, Applying, Others, Carried
  <2> QED BY <1>0, <2>3 DEF NotifyInv
<1>6. CASE SyncFails(s) \/ Crash(s)
  <2> DEFINE n == sync[s].message
  <2>1. Others(s) /\ Ends(s)
    BY <1>0, <1>6, EndDoes, IdleTyped DEF SyncFails, Crash, Ends
  <2>2. /\ UNCHANGED <<remote, revision, synced>>
        /\ ledger'.registered = ledger.registered
        /\ ledger.failed \subseteq ledger'.failed /\ lost \subseteq lost'
        /\ sync[s].pc \in {"mark", "list", "apply", "write"} =>
               {n} \ {0} \subseteq ledger'.failed \cup lost'
    <3>1. CASE SyncFails(s)
      <4>1. ledger' = [ledger EXCEPT !.failed = @ \cup ({n} \ {0})]
        BY <3>1 DEF SyncFails
      <4>2. /\ ledger'.registered = ledger.registered
            /\ ledger'.failed = ledger.failed \cup ({n} \ {0})
        BY <1>0, <4>1 DEF TypeOK
      <4> QED BY <3>1, <4>2 DEF SyncFails, calendarVars, historyVars
    <3>2. CASE Crash(s)
      BY <3>2 DEF Crash, calendarVars
    <3> QED BY <1>6, <3>1, <3>2
  <2>3. RevisionsBounded' /\ MessagesBounded'
    BY <1>0, <1>a, <2>1, <2>2 DEF RevisionsBounded, MessagesBounded, Applying, Others, Ends
  <2>4. Carried'
    BY <1>0, <2>1, <2>2 DEF Carried, Others
  <2> QED BY <1>0, <2>3, <2>4 DEF NotifyInv
<1> QED BY <1>2, <1>3, <1>4, <1>5, <1>6

LEMMA NotifyOthers ==
    ASSUME SyncAssumption, NotifyInv,
           \/ \E e \in Events, busy \in BOOLEAN : ChangeEvent(e, busy)
           \/ \E e \in Own : StoreLink(e)
           \/ DeactivateBlocks \/ Enable \/ OpenWatch \/ StopWatch \/ OperatorDies
           \/ DisableRow \/ AttachWatch \/ UNCHANGED vars
    PROVE  NotifyInv'
<1>0. TypeOK /\ TypeOK' /\ sync' = sync /\ RevisionsBounded /\ MessagesBounded /\ Carried
  BY TypeOthers DEF NotifyInv
<1>1. ASSUME NEW e \in Events, NEW busy \in BOOLEAN, ChangeEvent(e, busy)
      PROVE  NotifyInv'
  <2>1. /\ revision' = revision + 1 /\ UNCHANGED <<ledger, synced, lost>>
        /\ remote' = [remote EXCEPT ![e] = [busy |-> busy, at |-> revision + 1]]
    BY <1>1 DEF ChangeEvent, historyVars
  <2>2. revision \in Nat /\ synced \in Nat
    BY <1>0 DEF TypeOK
  <2>3. /\ \A d \in Events \ {e} : remote'[d] = remote[d] /\ remote[d].at \in Nat
        /\ remote'[e].at = revision + 1
    BY <1>0, <2>1 DEF TypeOK, Remote
  <2>4. RevisionsBounded'
    <3>1. \A s \in Syncs : sync[s].at \in Nat
      BY <1>0 DEF TypeOK, SyncState
    <3> QED BY <1>0, <2>1, <2>2, <2>3, <3>1 DEF RevisionsBounded
  <2>5. MessagesBounded'
    <3>1. \A s \in Syncs : sync[s].message \in Nat
      BY <1>0 DEF TypeOK, SyncState
    <3> QED BY <1>0, <2>1, <2>2, <3>1 DEF MessagesBounded, Applying
  <2>6. Carried'
    BY <1>0, <2>1 DEF Carried
  <2> QED BY <1>0, <2>4, <2>5, <2>6 DEF NotifyInv
<1>2. CASE ~(\E e \in Events, busy \in BOOLEAN : ChangeEvent(e, busy))
  <2>1. UNCHANGED <<remote, revision, ledger, synced, lost>>
    BY <1>2 DEF StoreLink, DeactivateBlocks, Enable, OpenWatch, StopWatch, OperatorDies,
                DisableRow, AttachWatch, vars, calendarVars, historyVars
  <2> QED BY <1>0, <2>1 DEF NotifyInv, RevisionsBounded, MessagesBounded, Carried, Applying
<1> QED BY <1>1, <1>2

LEMMA NotifyNext ==
    ASSUME SyncAssumption, NotifyInv, [Next]_vars
    PROVE  NotifyInv'
BY NotifyProceed, NotifySync, NotifyOthers DEF Next, OperatorProceeds

LEMMA NotifyAlways == ASSUME SyncAssumption PROVE Spec => []NotifyInv
<1>1. Init => NotifyInv
  BY NotifyInit
<1>2. NotifyInv /\ [Next]_vars => NotifyInv'
  BY NotifyNext
<1> QED BY <1>1, <1>2, PTL DEF Spec

\* A notification the ledger would refuse as a duplicate was imported, is being
\* imported, or is on record as failed or lost, whatever else goes on.
THEOREM RegisteredSynced == ASSUME SyncAssumption PROVE Spec => []RegisteredIsSynced
<1>1. NotifyInv => RegisteredIsSynced
  BY DEF NotifyInv, Carried, RegisteredIsSynced, Running
<1> QED BY <1>1, NotifyAlways, PTL

------------------------------------------------------------------------------
(* A disabled connection.                                                  *)

\* While a connection is being disabled no block is active; once it is, all that
\* still runs for it was under way before.
Quiet ==
    /\ operator = "disable" \/ ~connection.active => \A k \in Rows : ~block[k].active
    /\ ~connection.active =>
          /\ connection.token = NoToken /\ ~connection.watch
          /\ operator \in {"idle", "disable"}
          /\ Running \subseteq outdated

QuietInv == TypeOK /\ (~trouble => Quiet)

LEMMA QuietInit ==
    ASSUME SyncAssumption, Init
    PROVE  QuietInv
BY TypeInit DEF Init, QuietInv, Quiet

\* A synchronisation does not go on for a disabled connection without trouble.
LEMMA QuietSync ==
    ASSUME SyncAssumption, QuietInv, ~trouble, ~trouble', NEW s \in Syncs,
           \/ Proceed(s) \/ RecoverFromExpiredToken(s) \/ SyncFails(s) \/ Crash(s)
    PROVE  Quiet'
<1>0. TypeOK /\ Quiet
  BY DEF QuietInv
<1>1. s \in Running /\ Others(s) /\ operator' = operator /\ outdated' = outdated
  <2>1. CASE LookUpMessage(s) \/ InsertMessage(s) \/ MarkSyncing(s)
    <3>1. Others(s)
      BY <1>0, <2>1, EndDoes, GotoDoes DEF LookUpMessage, InsertMessage, MarkSyncing, SyncPCs
    <3> QED BY <2>1, <3>1 DEF LookUpMessage, InsertMessage, MarkSyncing, Running, operatorVars
  <2>2. CASE ListChanges(s) \/ RecoverFromExpiredToken(s)
    BY <1>0, <2>2, ListDoes DEF ListChanges, RecoverFromExpiredToken, Running, operatorVars
  <2>3. CASE FindBlock(s) \/ WriteBlock(s)
    BY <1>0, <2>3, FindDoes, WriteDoes DEF FindBlock, WriteBlock, Running, operatorVars
  <2>4. CASE Finish(s) \/ SyncFails(s) \/ Crash(s)
    BY <1>0, <2>4, EndDoes DEF Finish, SyncFails, Crash, Running, operatorVars
  <2> QED BY <2>1, <2>2, <2>3, <2>4 DEF Proceed
<1>2. Running' \subseteq Running
  BY <1>1 DEF Running, Others
<1>3. /\ connection'.active = connection.active /\ connection'.watch = connection.watch
      /\ ~connection.active => connection'.token = connection.token
  <2>1. CASE Finish(s)
    <3>1. connection.active
      BY <1>0, <1>1, <2>1 DEF Finish, Outdated, Quiet
    <3> QED BY <1>0, <2>1, <3>1 DEF Finish, TypeOK, Connection
  <2>2. CASE connection' = connection \/ \E status : connection' = [connection EXCEPT !.status = status]
    BY <1>0, <2>2 DEF TypeOK, Connection
  <2> QED BY <2>1, <2>2 DEF Proceed, LookUpMessage, InsertMessage, MarkSyncing, ListChanges,
             FindBlock, WriteBlock, RecoverFromExpiredToken, SyncFails, Crash
<1>4. operator = "disable" \/ ~connection.active => block' = block
  <2>1. CASE WriteBlock(s)
    BY <1>0, <1>1, <2>1, WriteDoes DEF Quiet, Outdated
  <2>2. CASE ~WriteBlock(s)
    BY <2>2 DEF Proceed, LookUpMessage, InsertMessage, MarkSyncing, ListChanges, FindBlock, Finish,
                RecoverFromExpiredToken, SyncFails, Crash
  <2> QED BY <2>1, <2>2
<1> QED BY <1>0, <1>1, <1>2, <1>3, <1>4 DEF Quiet

\* Nothing starts for a disabled connection.
LEMMA QuietStarts ==
    ASSUME SyncAssumption, QuietInv, ~trouble, NEW s \in Syncs,
           Poll(s) \/ Retry(s) \/ SyncById(s) \/ \E n \in 1..MaxRevision : Notify(s, n)
    PROVE  Quiet'
<1>1. connection.active
  BY DEF QuietInv, Quiet, Poll, Retry, SyncById, Notify, Runs
<1>2. UNCHANGED <<connection, block>> /\ (operator' = operator \/ operator' = "idle")
  BY DEF Poll, Retry, SyncById, Notify
<1> QED BY <1>1, <1>2 DEF QuietInv, Quiet

LEMMA QuietOthers ==
    ASSUME SyncAssumption, QuietInv, ~trouble, ~trouble',
           \/ \E e \in Events, busy \in BOOLEAN : ChangeEvent(e, busy)
           \/ \E e \in Own : StoreLink(e)
           \/ DeactivateBlocks \/ Enable \/ OpenWatch \/ StopWatch \/ OperatorDies
           \/ DisableRow \/ AttachWatch
    PROVE  Quiet'
<1>0. TypeOK /\ Quiet
  BY DEF QuietInv
<1>1. CASE \/ \E e \in Events, busy \in BOOLEAN : ChangeEvent(e, busy)
           \/ \E e \in Own : StoreLink(e)
  <2>1. UNCHANGED <<connection, block, operator, sync, outdated>>
    BY <1>1 DEF ChangeEvent, StoreLink, operatorVars
  <2> QED BY <1>0, <2>1 DEF Quiet, Running
<1>2. CASE DeactivateBlocks
  <2>1. /\ \A k \in Rows : ~block'[k].active
        /\ UNCHANGED <<connection, sync>> /\ operator' = "disable" /\ outdated' = Running
    BY <1>0, <1>2 DEF DeactivateBlocks, TypeOK, Block
  <2> QED BY <1>0, <2>1 DEF Quiet, Running
<1>3. CASE DisableRow
  <2>1. /\ connection' = [active |-> FALSE, status |-> "disabled", token |-> NoToken, watch |-> FALSE]
        /\ UNCHANGED <<block, sync>> /\ operator = "disable" /\ operator' = "idle"
        /\ outdated' = Running
    BY <1>3 DEF DisableRow
  <2> QED BY <1>0, <2>1 DEF Quiet, Running
<1>4. CASE Enable
  <2>1. connection'.active /\ operator' = "sync"
    BY <1>0, <1>4 DEF Enable, TypeOK, Connection
  <2> QED BY <2>1 DEF Quiet
<1>5. CASE OpenWatch \/ StopWatch \/ OperatorDies \/ AttachWatch
  <2>1. connection.active /\ connection'.active
    BY <1>0, <1>5 DEF OpenWatch, StopWatch, OperatorDies, AttachWatch, Runs, Quiet, TypeOK, Connection
  <2>2. UNCHANGED block /\ (operator' = "disable" => operator = "disable")
    BY <1>5 DEF OpenWatch, StopWatch, OperatorDies, AttachWatch
  <2> QED BY <1>0, <2>1, <2>2 DEF Quiet
<1> QED BY <1>1, <1>2, <1>3, <1>4, <1>5

LEMMA QuietNext ==
    ASSUME SyncAssumption, QuietInv, [Next]_vars
    PROVE  QuietInv'
<1>0. TypeOK'
  BY TypeNext DEF QuietInv
<1>1. CASE UNCHANGED vars
  BY <1>0, <1>1 DEF QuietInv, Quiet, Running, vars
<1>2. CASE Next
  <2>1. ~trouble
    BY <1>2 DEF Next
  <2>2. ~trouble' => Quiet'
    BY <1>2, <2>1, QuietSync, QuietStarts, QuietOthers DEF Next, OperatorProceeds
  <2> QED BY <1>0, <2>2 DEF QuietInv
<1> QED BY <1>1, <1>2

\* A disabled connection blocks no time and keeps no token, unless a synchronisation
\* was under way.
THEOREM DisabledIsQuiet == ASSUME SyncAssumption PROVE Spec => []DisabledBlocksNothing
<1>1. Init => QuietInv
  BY QuietInit
<1>2. QuietInv /\ [Next]_vars => QuietInv'
  BY QuietNext
<1>3. QuietInv => DisabledBlocksNothing
  BY DEF QuietInv, Quiet, DisabledBlocksNothing
<1> QED BY <1>1, <1>2, <1>3, PTL DEF Spec

------------------------------------------------------------------------------
(* What has been imported.                                                 *)

\* What a synchronisation has listed of an event is the event as it was when it was
\* listed, once; the row it is about to write is the event's.
ListsTell ==
    \A s \in Syncs :
        /\ ~Applying(s) => sync[s].listed = {}
        /\ \A l \in sync[s].listed :
              /\ remote[l[1]].at > 0
              /\ remote[l[1]].at <= sync[s].at => l[2] = remote[l[1]]
        /\ \A l, m \in sync[s].listed : l[1] = m[1] => l = m
        /\ sync[s].pc = "write" <=> sync[s].event # Nil
        /\ sync[s].row # Nil => sync[s].pc = "write" /\ block[sync[s].row].event = sync[s].event

\* An event has one row at most, and one that has changed; nothing works on an event
\* whose link is stored, or shows it.
RowsTell ==
    /\ \A j, k \in Rows : block[j].event = block[k].event /\ block[j].event # Nil => j = k
    /\ \A k \in Rows : block[k].event # Nil => remote[block[k].event].at > 0
    /\ \A e \in linked : ActiveRows(e) = {} /\ \A s \in Syncs : sync[s].event # e

TokensBounded ==
    /\ connection.token <= synced
    /\ \A s \in Syncs : sync[s].token <= synced

\* An event that has not changed since the given revision is mirrored, or it is
\* listed as it is and not yet applied.
Covered(e, level, pending) ==
    remote[e].at <= level => <<e, remote[e]>> \in pending \/ Mirrored(e)

\* The revision up to which synchronisation s takes the events for imported or listed.
Level(s) == IF Applying(s) THEN sync[s].at ELSE sync[s].token

\* The stored token covers what is mirrored, and so does what a synchronisation has
\* read, unless the connection was disabled or enabled since.
UpToDate ==
    operator # "disable" =>
        /\ \A e \in Events : Covered(e, connection.token, {})
        /\ \A s \in Running \ outdated, e \in Events : Covered(e, Level(s), sync[s].listed)

ImportInv ==
    /\ NotifyInv
    /\ ~trouble => ListsTell /\ RowsTell /\ TokensBounded /\ UpToDate

LEMMA ImportInit ==
    ASSUME SyncAssumption, Init
    PROVE  ImportInv
<1>1. \A s \in Syncs : /\ sync[s].pc = "idle" /\ sync[s].listed = {} /\ sync[s].token = 0
                       /\ sync[s].event = Nil /\ sync[s].row = Nil
  BY IdleTyped DEF Init
<1>2. /\ \A k \in Rows : block[k].event = Nil
      /\ \A e \in Events : remote[e].at = 0 /\ ~remote[e].busy
      /\ connection.token = 0 /\ synced = 0 /\ linked = {}
  BY DEF Init, NoToken
<1>3. \A e \in Events : Mirrored(e)
  BY <1>2 DEF Mirrored, ActiveRows, RowsOf, SyncAssumption
<1>4. ListsTell /\ RowsTell /\ TokensBounded
  BY <1>1, <1>2 DEF ListsTell, RowsTell, TokensBounded, Applying
<1>5. UpToDate
  BY <1>1, <1>3 DEF UpToDate, Covered, Running
<1> QED BY <1>4, <1>5, NotifyInit DEF ImportInv

\* An event that has never changed has no row, and needs none.
LEMMA UnchangedIsMirrored ==
    ASSUME SyncAssumption, ImportInv, ~trouble, NEW e \in Events, remote[e].at <= 0
    PROVE  Mirrored(e)
<1>1. remote[e].at = 0 /\ ~remote[e].busy
  BY DEF ImportInv, NotifyInv, TypeOK, Remote, RevisionsBounded
<1>2. RowsOf(e) = {}
  BY <1>1 DEF ImportInv, RowsTell, RowsOf, SyncAssumption
<1> QED BY <1>1, <1>2 DEF Mirrored, ActiveRows

\* A step of one synchronisation that leaves the calendar and the blocks as they are.
LEMMA ImportFrame ==
    ASSUME SyncAssumption, ImportInv, ~trouble, NEW s \in Syncs, Others(s),
           UNCHANGED <<remote, revision, linked, block>>,
           synced' >= synced, synced' \in Nat,
           connection'.token <= synced', sync'[s].token <= synced',
           \A t \in Syncs \ {s} : t \in outdated => t \in outdated',
           operator' # "disable" => operator # "disable",
           ~Applying(s)' => sync'[s].listed = {},
           \A l \in sync'[s].listed :
               \/ l \in sync[s].listed /\ sync'[s].at = sync[s].at
               \/ remote[l[1]].at > 0 /\ l[2] = remote[l[1]],
           \A l, m \in sync'[s].listed : l[1] = m[1] => l = m,
           sync'[s].pc = "write" <=> sync'[s].event # Nil,
           sync'[s].row # Nil => sync'[s].pc = "write"
                                 /\ block[sync'[s].row].event = sync'[s].event,
           sync'[s].event \notin linked,
           operator' # "disable" =>
               /\ \A e \in Events : Covered(e, connection'.token, {})
               /\ s \in Running' \ outdated' =>
                      \A e \in Events : Covered(e, Level(s)', sync'[s].listed)
    PROVE  ListsTell' /\ RowsTell' /\ TokensBounded' /\ UpToDate'
<1>0. ListsTell /\ RowsTell /\ TokensBounded /\ UpToDate /\ TypeOK
  BY DEF ImportInv, NotifyInv
<1>1. ListsTell'
  <2>1. ASSUME NEW t \in Syncs
        PROVE  /\ ~Applying(t)' => sync'[t].listed = {}
               /\ \A l \in sync'[t].listed :
                     /\ remote[l[1]].at > 0
                     /\ remote[l[1]].at <= sync'[t].at => l[2] = remote[l[1]]
               /\ \A l, m \in sync'[t].listed : l[1] = m[1] => l = m
               /\ sync'[t].pc = "write" <=> sync'[t].event # Nil
               /\ sync'[t].row # Nil => sync'[t].pc = "write"
                                        /\ block[sync'[t].row].event = sync'[t].event
    <3>1. CASE t = s
      BY <1>0, <3>1 DEF ListsTell
    <3>2. CASE t # s
      <4>1. sync'[t] = sync[t] /\ Applying(t)' = Applying(t)
        BY <3>2 DEF Others, Applying
      <4> QED BY <1>0, <4>1 DEF ListsTell
    <3> QED BY <3>1, <3>2
  <2> QED BY <2>1 DEF ListsTell
<1>2. RowsTell'
  <2>1. \A e : ActiveRows(e)' = ActiveRows(e)
    BY DEF ActiveRows, RowsOf
  <2>2. \A e \in linked, t \in Syncs : sync'[t].event # e
    BY <1>0 DEF RowsTell, Others
  <2> QED BY <1>0, <2>1, <2>2 DEF RowsTell
<1>3. TokensBounded'
  <2>1. ASSUME NEW t \in Syncs
        PROVE  sync'[t].token <= synced'
    <3>1. CASE t = s
      BY <3>1
    <3>2. CASE t # s
      <4>1. sync'[t].token = sync[t].token /\ sync[t].token \in Nat /\ synced \in Nat
        BY <1>0, <3>2 DEF Others, TypeOK, SyncState
      <4> QED BY <1>0, <4>1 DEF TokensBounded
    <3> QED BY <3>1, <3>2
  <2> QED BY <2>1 DEF TokensBounded
<1>4. UpToDate'
  <2>1. \A e : Mirrored(e)' <=> Mirrored(e)
    BY DEF Mirrored, ActiveRows, RowsOf
  <2>2. ASSUME operator' # "disable"
        PROVE  /\ \A e \in Events : Covered(e, connection.token, {})'
               /\ \A t \in Running' \ outdated', e \in Events : Covered(e, Level(t), sync[t].listed)'
    <3>1. \A e \in Events : Covered(e, connection.token, {})'
      BY <2>1, <2>2 DEF Covered
    <3>2. ASSUME NEW t \in Running' \ outdated', NEW e \in Events
          PROVE  Covered(e, Level(t), sync[t].listed)'
      <4>1. CASE t = s
        BY <2>1, <2>2, <3>2, <4>1 DEF Covered
      <4>2. CASE t # s
        <5>1. t \in Syncs /\ sync'[t] = sync[t] /\ t \in Running \ outdated
          BY <3>2, <4>2 DEF Running, Others
        <5>2. Covered(e, Level(t), sync[t].listed) /\ Level(t)' = Level(t)
          BY <1>0, <2>2, <5>1 DEF UpToDate, Level, Applying
        <5> QED BY <2>1, <5>1, <5>2 DEF Covered
      <4> QED BY <4>1, <4>2
    <3> QED BY <3>1, <3>2
  <2> QED BY <2>2 DEF UpToDate
<1> QED BY <1>1, <1>2, <1>3, <1>4

LEMMA ImportStarts ==
    ASSUME SyncAssumption, ImportInv, ~trouble, NEW s \in Syncs,
           Poll(s) \/ Retry(s) \/ SyncById(s) \/ \E n \in 1..MaxRevision : Notify(s, n)
    PROVE  ListsTell' /\ RowsTell' /\ TokensBounded' /\ UpToDate'
<1>0. ListsTell /\ RowsTell /\ TokensBounded /\ UpToDate /\ TypeOK
  BY DEF ImportInv, NotifyInv
<1>1. /\ UNCHANGED <<remote, revision, linked, connection, block, synced>>
      /\ operator' # "disable" => operator # "disable"
  BY DEF Poll, Retry, SyncById, Notify, calendarVars, historyVars
<1>2. CASE \E pc \in {"mark", "register"}, n \in Nat : Read(s, pc, n)
  <2>1. PICK pc \in {"mark", "register"}, n \in Nat : Read(s, pc, n)
    BY <1>2
  <2>2. pc \in SyncPCs
    BY DEF SyncPCs
  <2>3. /\ Others(s) /\ sync'[s].pc = pc /\ sync'[s].token = connection.token
        /\ sync'[s].listed = {} /\ sync'[s].event = Nil /\ sync'[s].row = Nil
        /\ outdated' = outdated \ {s}
    BY <1>0, <2>1, <2>2, ReadDoes
  <2>4. ~Applying(s)' /\ Level(s)' = connection.token
    BY <2>3 DEF Applying, Level
  <2>5. connection.token <= synced /\ synced >= synced /\ synced \in Nat
    BY <1>0 DEF TokensBounded, TypeOK
  <2>6. operator' # "disable" =>
            /\ \A e \in Events : Covered(e, connection'.token, {})
            /\ \A e \in Events : Covered(e, Level(s)', sync'[s].listed)
    BY <1>0, <1>1, <2>3, <2>4 DEF UpToDate
  <2>7. Nil \notin linked
    BY <1>0 DEF TypeOK, SyncAssumption
  <2> QED BY <1>1, <2>3, <2>4, <2>5, <2>6, <2>7, ImportFrame
<1>3. CASE UNCHANGED <<sync, outdated>>
  BY <1>0, <1>1, <1>3 DEF ListsTell, RowsTell, TokensBounded, UpToDate, Covered, Mirrored, ActiveRows,
                          RowsOf, Running, Level, Applying
<1> QED BY <1>2, <1>3 DEF Poll, Retry, SyncById, Notify

\* The steps before a listing.
LEMMA ImportGoto ==
    ASSUME SyncAssumption, ImportInv, ~trouble, NEW s \in Syncs,
           NEW pc \in {"insert", "mark", "list"}, Goto(s, pc),
           sync[s].pc \in {"register", "insert", "mark"},
           UNCHANGED <<remote, revision, linked, block, synced, operator, outdated>>,
           connection'.token = connection.token
    PROVE  ListsTell' /\ RowsTell' /\ TokensBounded' /\ UpToDate'
<1>0. ListsTell /\ RowsTell /\ TokensBounded /\ UpToDate /\ TypeOK
  BY DEF ImportInv, NotifyInv
<1>1. Others(s) /\ Keeps(s) /\ sync'[s].pc = pc
  BY <1>0, GotoDoes DEF SyncPCs
<1>2. ~Applying(s) /\ ~Applying(s)' /\ Level(s)' = Level(s)
  BY <1>1 DEF Applying, Level, Keeps
<1>3. sync[s].listed = {} /\ sync[s].event = Nil /\ sync[s].row = Nil
  BY <1>0, <1>2 DEF ListsTell, Applying
<1>4. /\ connection'.token <= synced' /\ sync'[s].token <= synced' /\ synced' >= synced
      /\ synced' \in Nat
  BY <1>0, <1>1 DEF TokensBounded, Keeps, TypeOK
<1>5. operator' # "disable" =>
          /\ \A e \in Events : Covered(e, connection'.token, {})
          /\ s \in Running' \ outdated' =>
                 \A e \in Events : Covered(e, Level(s)', sync'[s].listed)
  BY <1>0, <1>1, <1>2 DEF UpToDate, Running, Keeps
<1>6. Nil \notin linked
  BY <1>0 DEF TypeOK, SyncAssumption
<1> QED BY <1>1, <1>2, <1>3, <1>4, <1>5, <1>6, ImportFrame DEF Keeps

\* A synchronisation that ends, with the token it stores.
LEMMA ImportEnds ==
    ASSUME SyncAssumption, ImportInv, ~trouble, NEW s \in Syncs,
           sync' = [sync EXCEPT ![s] = Idle],
           UNCHANGED <<remote, revision, linked, block, operator, outdated>>,
           synced' >= synced, synced' \in Nat, connection'.token <= synced',
           operator # "disable" => \A e \in Events : Covered(e, connection'.token, {})
    PROVE  ListsTell' /\ RowsTell' /\ TokensBounded' /\ UpToDate'
<1>0. TypeOK
  BY DEF ImportInv, NotifyInv
<1>1. Others(s) /\ sync'[s] = Idle
  BY <1>0, EndDoes
<1>2. /\ sync'[s].pc = "idle" /\ sync'[s].token = 0 /\ sync'[s].listed = {}
      /\ sync'[s].event = Nil /\ sync'[s].row = Nil
  BY <1>1, IdleTyped
<1>3. s \notin Running' /\ ~Applying(s)'
  BY <1>2 DEF Running, Applying
<1>4. Nil \notin linked /\ sync'[s].token <= synced'
  BY <1>0, <1>2 DEF TypeOK, SyncAssumption
<1> QED BY <1>1, <1>2, <1>3, <1>4, ImportFrame

LEMMA ImportLists ==
    ASSUME SyncAssumption, ImportInv, ~trouble, NEW s \in Syncs,
           ListChanges(s) \/ RecoverFromExpiredToken(s)
    PROVE  ListsTell' /\ RowsTell' /\ TokensBounded' /\ UpToDate'
<1>0. ListsTell /\ RowsTell /\ TokensBounded /\ UpToDate /\ TypeOK
  BY DEF ImportInv, NotifyInv
<1>1. UNCHANGED <<remote, revision, linked, connection, block, synced, operator, outdated>>
  BY DEF ListChanges, RecoverFromExpiredToken, calendarVars, historyVars, operatorVars
<1>2. /\ Others(s) /\ sync[s].pc = "list" /\ sync'[s].pc = "apply"
      /\ sync'[s].token = sync[s].token /\ sync'[s].event = sync[s].event
      /\ sync'[s].row = sync[s].row /\ sync'[s].at = revision
  BY <1>0, ListDoes
<1>3. PICK token \in {NoToken, sync[s].token} :
         sync'[s].listed = {<<e, remote[e]>> : e \in ChangedSince(token)}
  BY <1>0, ListDoes
<1>4. token \in Nat
  BY <1>0 DEF TypeOK, SyncState, NoToken
<1>5. /\ \A l \in sync'[s].listed : remote[l[1]].at > 0 /\ l[2] = remote[l[1]]
      /\ \A l, m \in sync'[s].listed : l[1] = m[1] => l = m
  <2>1. \A e \in ChangedSince(token) : remote[e].at > 0
    BY <1>0, <1>4 DEF ChangedSince, TypeOK, Remote
  <2> QED BY <1>3, <2>1
<1>6. sync[s].event = Nil /\ sync[s].row = Nil /\ Nil \notin linked
  BY <1>0, <1>2 DEF ListsTell, TypeOK, SyncAssumption
<1>7. ASSUME operator # "disable", s \in Running' \ outdated', NEW e \in Events
      PROVE  Covered(e, Level(s)', sync'[s].listed)
  <2>1. CASE remote[e].at > token
    <3>1. <<e, remote[e]>> \in sync'[s].listed
      BY <1>3, <2>1 DEF ChangedSince
    <3> QED BY <3>1 DEF Covered
  <2>2. CASE ~(remote[e].at > token)
    <3>1. remote[e].at <= token
      BY <1>0, <1>4, <2>2 DEF TypeOK, Remote
    <3>2. CASE token = NoToken
      <4>1. remote[e].at <= 0
        BY <3>1, <3>2 DEF NoToken
      <4> QED BY <4>1, UnchangedIsMirrored DEF Covered
    <3>3. CASE token = sync[s].token
      <4>1. s \in Running \ outdated /\ Level(s) = token
        BY <1>1, <1>2, <1>7, <3>3 DEF Running, Level, Applying
      <4>2. sync[s].listed = {}
        BY <1>0, <1>2 DEF ListsTell, Applying
      <4>3. Covered(e, Level(s), sync[s].listed)
        BY <1>0, <1>7, <4>1 DEF UpToDate
      <4> QED BY <3>1, <4>1, <4>2, <4>3 DEF Covered
    <3> QED BY <3>2, <3>3
  <2> QED BY <2>1, <2>2
<1>8. /\ connection'.token <= synced' /\ sync'[s].token <= synced' /\ synced' >= synced
      /\ synced' \in Nat
  BY <1>0, <1>1, <1>2 DEF TokensBounded, TypeOK
<1>9. operator' # "disable" => \A e \in Events : Covered(e, connection'.token, {})
  BY <1>0, <1>1 DEF UpToDate
<1>10. Applying(s)'
  BY <1>2 DEF Applying
<1> QED BY <1>1, <1>2, <1>5, <1>6, <1>7, <1>8, <1>9, <1>10, ImportFrame

\* Looking at an event changes no block: it is done when its link is stored, or when
\* it has no row and needs none.
LEMMA ImportFinds ==
    ASSUME SyncAssumption, ImportInv, ~trouble, NEW s \in Syncs, FindBlock(s)
    PROVE  ListsTell' /\ RowsTell' /\ TokensBounded' /\ UpToDate'
<1>0. ListsTell /\ RowsTell /\ TokensBounded /\ UpToDate /\ TypeOK
  BY DEF ImportInv, NotifyInv
<1>1. UNCHANGED <<remote, revision, linked, connection, block, synced, operator, outdated>>
  BY DEF FindBlock, calendarVars, historyVars, operatorVars
<1>2. /\ Others(s) /\ sync[s].pc = "apply" /\ sync'[s].token = sync[s].token
      /\ sync'[s].at = sync[s].at
  BY <1>0, FindDoes
<1>3. PICK l \in sync[s].listed :
         \/ /\ l[1] \in linked \/ (RowsOf(l[1]) = {} /\ ~l[2].busy)
            /\ sync'[s].pc = "apply" /\ sync'[s].listed = sync[s].listed \ {l}
            /\ sync'[s].event = sync[s].event /\ sync'[s].row = sync[s].row
         \/ /\ l[1] \notin linked
            /\ sync'[s].pc = "write" /\ sync'[s].listed = sync[s].listed
            /\ sync'[s].event = l[1] /\ sync'[s].row \in RowsOf(l[1]) \cup {Nil}
  BY <1>0, FindDoes
<1>4. l[1] \in Events /\ l[1] # Nil /\ Nil \notin linked
  BY <1>0 DEF TypeOK, SyncState, SyncAssumption
<1>5. sync[s].event = Nil /\ sync[s].row = Nil
  BY <1>0, <1>2 DEF ListsTell
<1>6. Applying(s) /\ Applying(s)' /\ Level(s)' = Level(s) /\ Level(s) = sync[s].at
  BY <1>2, <1>3 DEF Applying, Level
<1>7. /\ sync'[s].pc = "write" <=> sync'[s].event # Nil
      /\ sync'[s].row # Nil => sync'[s].pc = "write"
                               /\ block[sync'[s].row].event = sync'[s].event
      /\ sync'[s].event \notin linked
  BY <1>3, <1>4, <1>5 DEF RowsOf
<1>8. ASSUME operator # "disable", s \in Running' \ outdated', NEW e \in Events
      PROVE  Covered(e, Level(s)', sync'[s].listed)
  <2>1. s \in Running \ outdated
    BY <1>1, <1>2, <1>8 DEF Running
  <2>2. Covered(e, sync[s].at, sync[s].listed)
    BY <1>0, <1>6, <1>8, <2>1 DEF UpToDate
  <2>3. CASE <<e, remote[e]>> = l /\ sync'[s].listed # sync[s].listed
    <3>1. e \in linked \/ (RowsOf(e) = {} /\ ~remote[e].busy)
      BY <1>3, <2>3
    <3>2. ActiveRows(e) = {}
      BY <1>0, <3>1 DEF RowsTell, ActiveRows
    <3> QED BY <3>1, <3>2 DEF Covered, Mirrored
  <2>4. CASE ~(<<e, remote[e]>> = l /\ sync'[s].listed # sync[s].listed)
    BY <1>3, <1>6, <2>2, <2>4 DEF Covered
  <2> QED BY <2>3, <2>4
<1>9. /\ connection'.token <= synced' /\ sync'[s].token <= synced' /\ synced' >= synced
      /\ synced' \in Nat
  BY <1>0, <1>1, <1>2 DEF TokensBounded, TypeOK
<1>10. operator' # "disable" => \A e \in Events : Covered(e, connection'.token, {})
  BY <1>0, <1>1 DEF UpToDate
<1>11. /\ \A m \in sync'[s].listed : m \in sync[s].listed /\ sync'[s].at = sync[s].at
       /\ \A m, n \in sync'[s].listed : m[1] = n[1] => m = n
  BY <1>0, <1>2, <1>3 DEF ListsTell
<1>12. s \in Running' \ outdated' /\ operator' # "disable" =>
           \A e \in Events : Covered(e, Level(s)', sync'[s].listed)
  BY <1>1, <1>8
<1>13. \A t \in Syncs \ {s} : t \in outdated => t \in outdated'
  BY <1>1
<1> QED BY <1>1, <1>2, <1>6, <1>7, <1>9, <1>10, <1>11, <1>12, <1>13, ImportFrame

\* A synchronisation that writes without trouble has the latest listing, so that it
\* leaves a row as the calendar is, unless the event has changed since, which no
\* token covers then.
LEMMA ImportWrites ==
    ASSUME SyncAssumption, ImportInv, ~trouble, ~trouble', NEW s \in Syncs, WriteBlock(s)
    PROVE  ListsTell' /\ RowsTell' /\ TokensBounded' /\ UpToDate'
<1>0. ListsTell /\ RowsTell /\ TokensBounded /\ UpToDate /\ TypeOK
  BY DEF ImportInv, NotifyInv
<1>1. UNCHANGED <<remote, revision, linked, connection, synced, operator, outdated>>
  BY DEF WriteBlock, calendarVars, operatorVars
<1>2. /\ Others(s) /\ sync[s].pc = "write" /\ sync'[s].pc = "apply"
      /\ sync'[s].token = sync[s].token /\ sync'[s].at = sync[s].at
      /\ sync'[s].event = Nil /\ sync'[s].row = Nil
      /\ ~Outdated(s) /\ (sync[s].row = Nil => RowsOf(sync[s].event) = {})
  BY <1>0, WriteDoes
<1>3. PICK l \in sync[s].listed, k \in Rows :
         /\ l[1] = sync[s].event /\ sync'[s].listed = sync[s].listed \ {l}
         /\ sync[s].row = Nil => block[k].event = Nil
         /\ sync[s].row # Nil => k = sync[s].row
         /\ \A j \in Rows \ {k} : block'[j] = block[j]
         /\ l[2].busy => block'[k] = [event |-> l[1], at |-> l[2].at, active |-> TRUE]
         /\ ~l[2].busy => block'[k].event = block[k].event /\ ~block'[k].active
  BY <1>0, WriteDoes
<1> DEFINE e == l[1]
<1>4. e \in Events /\ e # Nil /\ e = sync[s].event /\ remote[e].at > 0 /\ e \notin linked
  BY <1>0, <1>3 DEF TypeOK, SyncState, SyncAssumption, ListsTell, RowsTell
<1>5. block[k].event \in {e, Nil} /\ \A j \in Rows \ {k} : block[j].event # e
  <2>1. CASE sync[s].row = Nil
    BY <1>2, <1>3, <1>4, <2>1 DEF RowsOf
  <2>2. CASE sync[s].row # Nil
    <3>1. block[k].event = e
      BY <1>0, <1>3, <1>4, <2>2 DEF ListsTell
    <3> QED BY <1>0, <1>4, <3>1 DEF RowsTell
  <2> QED BY <2>1, <2>2
<1>6. /\ block'[k].event \in {e, Nil} /\ (block[k].event = e => block'[k].event = e)
      /\ block'[k].active => l[2].busy /\ block'[k].event = e /\ block'[k].at = l[2].at
      /\ l[2].busy => block'[k].active /\ block'[k].event = e
  BY <1>3, <1>5
<1>7. \A d \in Events \ {e} : ActiveRows(d)' = ActiveRows(d) /\ \A j \in RowsOf(d) : block'[j] = block[j]
  <2>1. ASSUME NEW d \in Events \ {e}
        PROVE  ActiveRows(d)' = ActiveRows(d) /\ \A j \in RowsOf(d) : block'[j] = block[j]
    <3>1. d # Nil /\ block[k].event # d /\ block'[k].event # d
      BY <1>5, <1>6 DEF SyncAssumption
    <3> QED BY <1>3, <3>1 DEF ActiveRows, RowsOf
  <2> QED BY <2>1
<1>8. \A d \in Events \ {e} : Mirrored(d)' <=> Mirrored(d)
  <2>1. ASSUME NEW d \in Events \ {e}
        PROVE  Mirrored(d)' <=> Mirrored(d)
    <3>1. ActiveRows(d)' = ActiveRows(d) /\ \A j \in ActiveRows(d) : block'[j] = block[j]
      BY <1>7 DEF ActiveRows
    <3> QED BY <1>1, <3>1 DEF Mirrored
  <2> QED BY <2>1
<1>9. l[2] = remote[e] => Mirrored(e)'
  <2>1. ActiveRows(e)' = IF l[2].busy THEN {k} ELSE {}
    BY <1>3, <1>5, <1>6 DEF ActiveRows, RowsOf
  <2> QED BY <1>1, <1>4, <1>6, <2>1 DEF Mirrored
<1>10. remote[e].at <= sync[s].at => Mirrored(e)'
  BY <1>0, <1>3, <1>9 DEF ListsTell
<1>11. ListsTell'
  <2>1. ASSUME NEW t \in Syncs
        PROVE  /\ ~Applying(t)' => sync'[t].listed = {}
               /\ \A m \in sync'[t].listed :
                     /\ remote[m[1]].at > 0
                     /\ remote[m[1]].at <= sync'[t].at => m[2] = remote[m[1]]
               /\ \A m, n \in sync'[t].listed : m[1] = n[1] => m = n
               /\ sync'[t].pc = "write" <=> sync'[t].event # Nil
               /\ sync'[t].row # Nil => sync'[t].pc = "write"
                                        /\ block'[sync'[t].row].event = sync'[t].event
    <3>1. CASE t = s
      BY <1>0, <1>2, <1>3, <3>1 DEF ListsTell, Applying
    <3>2. CASE t # s
      <4>1. sync'[t] = sync[t] /\ Applying(t)' = Applying(t)
        BY <1>2, <3>2 DEF Others, Applying
      <4>2. ASSUME sync[t].row # Nil
            PROVE  block'[sync[t].row].event = sync[t].event
        <5>1. /\ sync[t].row \in Rows /\ block[sync[t].row].event = sync[t].event
              /\ sync[t].event # Nil
          BY <1>0, <4>2 DEF ListsTell, TypeOK, SyncState
        <5> QED BY <1>3, <1>5, <1>6, <5>1
      <4> QED BY <1>0, <4>1, <4>2 DEF ListsTell
    <3> QED BY <3>1, <3>2
  <2> QED BY <1>1, <2>1 DEF ListsTell
<1>12. RowsTell'
  <2>1. \A i, j \in Rows : block'[i].event = block'[j].event /\ block'[i].event # Nil => i = j
    BY <1>0, <1>3, <1>4, <1>5, <1>6 DEF RowsTell
  <2>2. \A j \in Rows : block'[j].event # Nil => remote[block'[j].event].at > 0
    BY <1>0, <1>3, <1>4, <1>6 DEF RowsTell
  <2>3. \A d \in linked : ActiveRows(d)' = {} /\ \A t \in Syncs : sync'[t].event # d
    <3>1. \A d \in linked : d \in Events \ {e} /\ d # Nil
      BY <1>0, <1>4 DEF TypeOK, SyncAssumption
    <3> QED BY <1>0, <1>2, <1>7, <3>1 DEF RowsTell, Others
  <2> QED BY <1>1, <2>1, <2>2, <2>3 DEF RowsTell
<1>13. TokensBounded'
  BY <1>0, <1>1, <1>2 DEF TokensBounded, Others
<1>14. UpToDate'
  <2> SUFFICES ASSUME operator # "disable"
               PROVE  /\ \A d \in Events : Covered(d, connection.token, {})'
                      /\ \A t \in Running' \ outdated, d \in Events :
                             Covered(d, Level(t), sync[t].listed)'
    BY <1>1 DEF UpToDate
  <2>n. /\ sync[s].at \in Nat /\ synced \in Nat /\ connection.token \in Nat
        /\ \A t \in Syncs : sync[t].at \in Nat /\ sync[t].token \in Nat
        /\ \A d \in Events : remote[d].at \in Nat
    BY <1>0 DEF TypeOK, SyncState, Connection, Remote
  <2>l. synced <= sync[s].at /\ \A t \in Syncs : Applying(t) => sync[t].at <= sync[s].at
    BY <1>2, <2>n DEF Outdated, Applying
  <2>1. connection.token <= sync[s].at
    BY <1>0, <2>n, <2>l DEF TokensBounded
  <2>2. \A t \in Syncs : Level(t) <= sync[s].at /\ Level(t) \in Nat
    BY <1>0, <2>n, <2>l DEF TokensBounded, Level
  <2>3. ASSUME NEW level \in Nat, level <= sync[s].at
        PROVE  remote[e].at <= level => Mirrored(e)'
    <3>1. remote[e].at <= level => remote[e].at <= sync[s].at
      BY <1>4, <2>n, <2>3
    <3> QED BY <1>10, <3>1
  <2>4. \A d \in Events : Covered(d, connection.token, {})'
    <3>1. \A d \in Events : Covered(d, connection.token, {})
      BY <1>0 DEF UpToDate
    <3> QED BY <1>1, <1>8, <2>1, <2>3, <2>n, <3>1 DEF Covered
  <2>5. ASSUME NEW t \in Running' \ outdated, NEW d \in Events
        PROVE  Covered(d, Level(t), sync[t].listed)'
    <3>1. t \in Running /\ t \in Syncs /\ Level(t)' = Level(t)
      <4>1. CASE t = s
        BY <1>2, <4>1 DEF Running, Level, Applying
      <4>2. CASE t # s
        BY <1>2, <2>5, <4>2 DEF Running, Level, Applying, Others
      <4> QED BY <4>1, <4>2
    <3>2. Covered(d, Level(t), sync[t].listed)
      BY <1>0, <2>5, <3>1 DEF UpToDate
    <3>3. CASE d = e
      BY <1>1, <2>2, <2>3, <3>1, <3>3 DEF Covered
    <3>4. CASE d # e
      <4>1. <<d, remote[d]>> \in sync[t].listed => <<d, remote[d]>> \in sync'[t].listed
        <5>1. CASE t = s
          BY <1>3, <3>4, <5>1
        <5>2. CASE t # s
          BY <1>2, <3>1, <5>2 DEF Others
        <5> QED BY <5>1, <5>2
      <4> QED BY <1>1, <1>8, <3>1, <3>2, <3>4, <4>1 DEF Covered
    <3> QED BY <3>3, <3>4
  <2> QED BY <2>4, <2>5
<1> QED BY <1>11, <1>12, <1>13, <1>14

\* A synchronisation that completes without trouble has applied all it listed, and
\* no later one is under way.
LEMMA ImportFinishes ==
    ASSUME SyncAssumption, ImportInv, ~trouble, ~trouble', NEW s \in Syncs, Finish(s)
    PROVE  ListsTell' /\ RowsTell' /\ TokensBounded' /\ UpToDate'
<1>0. UpToDate /\ TypeOK
  BY DEF ImportInv, NotifyInv
<1>1. /\ sync[s].pc = "apply" /\ sync[s].listed = {} /\ ~Outdated(s)
      /\ sync' = [sync EXCEPT ![s] = Idle]
      /\ UNCHANGED <<remote, revision, linked, block, operator, outdated>>
      /\ synced' = IF sync[s].at > synced THEN sync[s].at ELSE synced
  BY DEF Finish, calendarVars, operatorVars
<1>2. connection'.token = sync[s].at
  BY <1>0 DEF Finish, TypeOK, Connection
<1>3. synced' \in Nat /\ synced' >= synced /\ connection'.token <= synced'
  BY <1>0, <1>1, <1>2 DEF TypeOK, SyncState
<1>4. s \in Running \ outdated /\ operator # "disable" /\ Level(s) = sync[s].at
  BY <1>1 DEF Outdated, Running, Level, Applying
<1>5. \A e \in Events : Covered(e, sync[s].at, {})
  BY <1>0, <1>1, <1>4 DEF UpToDate
<1> QED BY <1>1, <1>2, <1>3, <1>5, ImportEnds

LEMMA ImportSync ==
    ASSUME SyncAssumption, ImportInv, ~trouble, ~trouble', NEW s \in Syncs,
           \/ Proceed(s) \/ RecoverFromExpiredToken(s) \/ SyncFails(s) \/ Crash(s)
    PROVE  ListsTell' /\ RowsTell' /\ TokensBounded' /\ UpToDate'
<1>0. TypeOK /\ TokensBounded /\ UpToDate
  BY DEF ImportInv, NotifyInv
<1>1. ASSUME sync' = [sync EXCEPT ![s] = Idle],
             UNCHANGED <<remote, revision, linked, block, synced, operator, outdated>>,
             connection'.token = connection.token
      PROVE  ListsTell' /\ RowsTell' /\ TokensBounded' /\ UpToDate'
  <2>1. synced' >= synced /\ synced' \in Nat /\ connection'.token <= synced'
    BY <1>0, <1>1 DEF TypeOK, TokensBounded
  <2>2. operator # "disable" => \A e \in Events : Covered(e, connection'.token, {})
    BY <1>0, <1>1 DEF UpToDate
  <2> QED BY <1>1, <2>1, <2>2, ImportEnds
<1>2. CASE LookUpMessage(s)
  <2>1. /\ UNCHANGED <<remote, revision, linked, block, synced, operator, outdated, connection>>
        /\ sync[s].pc = "register"
        /\ sync' = [sync EXCEPT ![s] = Idle] \/ Goto(s, "insert")
    BY <1>2 DEF LookUpMessage, calendarVars, operatorVars, historyVars
  <2> QED BY <1>1, <2>1, ImportGoto
<1>3. CASE InsertMessage(s)
  <2>1. /\ UNCHANGED <<remote, revision, linked, block, synced, operator, outdated, connection>>
        /\ sync[s].pc = "insert"
        /\ sync' = [sync EXCEPT ![s] = Idle] \/ Goto(s, "mark")
    BY <1>3 DEF InsertMessage, calendarVars, operatorVars
  <2> QED BY <1>1, <2>1, ImportGoto
<1>4. CASE MarkSyncing(s)
  <2>1. /\ UNCHANGED <<remote, revision, linked, block, synced, operator, outdated>>
        /\ sync[s].pc = "mark" /\ Goto(s, "list")
    BY <1>4 DEF MarkSyncing, calendarVars, operatorVars, historyVars
  <2>2. connection'.token = connection.token
    BY <1>0, <1>4 DEF MarkSyncing, TypeOK, Connection
  <2> QED BY <2>1, <2>2, ImportGoto
<1>5. CASE SyncFails(s) \/ Crash(s)
  <2>1. /\ UNCHANGED <<remote, revision, linked, block, synced, operator, outdated>>
        /\ sync' = [sync EXCEPT ![s] = Idle]
    BY <1>5 DEF SyncFails, Crash, calendarVars, operatorVars, historyVars
  <2>2. connection'.token = connection.token
    BY <1>0, <1>5 DEF SyncFails, Crash, TypeOK, Connection
  <2> QED BY <1>1, <2>1, <2>2
<1>6. CASE ListChanges(s) \/ RecoverFromExpiredToken(s)
  BY <1>6, ImportLists
<1> QED BY <1>2, <1>3, <1>4, <1>5, <1>6, ImportFinds, ImportWrites, ImportFinishes DEF Proceed

\* A change of the calendar has a revision that no token and no listing covers.
LEMMA ImportChange ==
    ASSUME SyncAssumption, ImportInv, ~trouble, NEW e \in Events, NEW busy \in BOOLEAN,
           ChangeEvent(e, busy)
    PROVE  ListsTell' /\ RowsTell' /\ TokensBounded' /\ UpToDate'
<1>0. ListsTell /\ RowsTell /\ TokensBounded /\ UpToDate /\ TypeOK /\ RevisionsBounded
  BY DEF ImportInv, NotifyInv
<1>1. /\ UNCHANGED <<linked, connection, block, sync, operator, outdated, synced>>
      /\ remote' = [remote EXCEPT ![e] = [busy |-> busy, at |-> revision + 1]]
  BY DEF ChangeEvent, operatorVars, historyVars
<1>2. /\ revision \in Nat /\ synced \in Nat /\ connection.token \in Nat
      /\ \A t \in Syncs : sync[t].at \in Nat /\ sync[t].token \in Nat
  BY <1>0 DEF TypeOK, SyncState, Connection
<1>3. /\ remote'[e].at = revision + 1
      /\ \A d \in Events \ {e} : remote'[d] = remote[d]
  BY <1>0, <1>1 DEF TypeOK
<1>4. ASSUME NEW level \in Nat, level <= revision, NEW d \in Events, NEW pending,
             Covered(d, level, pending)
      PROVE  remote'[d].at <= level => <<d, remote'[d]>> \in pending \/ Mirrored(d)'
  <2>1. CASE d = e
    BY <1>2, <1>3, <1>4, <2>1 DEF Covered
  <2>2. CASE d # e
    <3>1. remote'[d] = remote[d]
      BY <1>3, <2>2
    <3>2. Mirrored(d)' <=> Mirrored(d)
      BY <1>1, <3>1 DEF Mirrored, ActiveRows, RowsOf
    <3> QED BY <1>4, <3>1, <3>2 DEF Covered
  <2> QED BY <2>1, <2>2
<1>5. /\ connection.token <= revision
      /\ \A t \in Syncs : Level(t) \in Nat /\ Level(t) <= revision /\ Level(t)' = Level(t)
  BY <1>0, <1>1, <1>2 DEF TokensBounded, RevisionsBounded, Level, Applying
<1>6. ListsTell'
  <2>1. ASSUME NEW t \in Syncs, NEW l \in sync[t].listed
        PROVE  remote'[l[1]].at > 0 /\ (remote'[l[1]].at <= sync[t].at => l[2] = remote'[l[1]])
    <3>1. l[1] \in Events /\ sync[t].at <= revision
      BY <1>0 DEF TypeOK, SyncState, RevisionsBounded
    <3>2. remote[l[1]].at > 0 /\ (remote[l[1]].at <= sync[t].at => l[2] = remote[l[1]])
      BY <1>0 DEF ListsTell
    <3>3. CASE l[1] = e
      BY <1>2, <1>3, <3>1, <3>3
    <3>4. CASE l[1] # e
      BY <1>3, <3>1, <3>2, <3>4
    <3> QED BY <3>3, <3>4
  <2> QED BY <1>0, <1>1, <2>1 DEF ListsTell, Applying
<1>7. RowsTell'
  <2>1. \A k \in Rows : block[k].event # Nil => remote'[block[k].event].at > 0
    <3>1. \A k \in Rows : block[k].event # Nil => /\ block[k].event \in Events
                                                  /\ remote[block[k].event].at > 0
      BY <1>0 DEF RowsTell, TypeOK, Block
    <3> QED BY <1>2, <1>3, <3>1
  <2> QED BY <1>0, <1>1, <2>1 DEF RowsTell, ActiveRows, RowsOf
<1>8. TokensBounded'
  BY <1>0, <1>1 DEF TokensBounded
<1>9. UpToDate'
  <2> SUFFICES ASSUME operator # "disable"
               PROVE  /\ \A d \in Events : Covered(d, connection.token, {})'
                      /\ \A t \in Running \ outdated, d \in Events :
                             Covered(d, Level(t), sync[t].listed)'
    BY <1>1 DEF UpToDate, Running
  <2>1. ASSUME NEW d \in Events
        PROVE  Covered(d, connection.token, {})'
    <3>1. Covered(d, connection.token, {})
      BY <1>0 DEF UpToDate
    <3>2. remote'[d].at <= connection.token => <<d, remote'[d]>> \in {} \/ Mirrored(d)'
      BY <1>2, <1>4, <1>5, <3>1
    <3> QED BY <1>1, <3>2 DEF Covered
  <2>2. ASSUME NEW t \in Running \ outdated, NEW d \in Events
        PROVE  Covered(d, Level(t), sync[t].listed)'
    <3>1. Covered(d, Level(t), sync[t].listed) /\ t \in Syncs
      BY <1>0 DEF UpToDate, Running
    <3>2. /\ Level(t) \in Nat /\ Level(t) <= revision /\ Level(t)' = Level(t)
          /\ sync'[t].listed = sync[t].listed
      BY <1>1, <1>5, <3>1
    <3>3. remote'[d].at <= Level(t) => <<d, remote'[d]>> \in sync[t].listed \/ Mirrored(d)'
      BY <1>4, <3>1, <3>2
    <3> QED BY <3>2, <3>3 DEF Covered
  <2> QED BY <2>1, <2>2
<1> QED BY <1>6, <1>7, <1>8, <1>9

\* A step that keeps the calendar, the listings and what the rows show, and leaves no
\* more to be claimed of the synchronisations than before.
LEMMA ImportKeeps ==
    ASSUME SyncAssumption, ImportInv, ~trouble,
           UNCHANGED <<remote, revision, linked, sync, synced>>,
           \A k \in Rows : block'[k].event = block[k].event
                           /\ (block'[k].active => block[k].active),
           connection'.token \in {connection.token, NoToken},
           outdated \subseteq outdated' \/ outdated' = Running,
           operator' # "disable" => \/ operator # "disable" /\ block' = block
                                    \/ connection'.token = NoToken /\ outdated' = Running
    PROVE  ListsTell' /\ RowsTell' /\ TokensBounded' /\ UpToDate'
<1>0. ListsTell /\ RowsTell /\ TokensBounded /\ UpToDate /\ TypeOK
  BY DEF ImportInv, NotifyInv
<1>1. ListsTell'
  <2>1. \A t \in Syncs : sync[t].row # Nil => sync[t].row \in Rows
    BY <1>0 DEF TypeOK, SyncState
  <2> QED BY <1>0, <2>1 DEF ListsTell, Applying
<1>2. RowsTell'
  <2>1. \A e : ActiveRows(e)' \subseteq ActiveRows(e)
    BY DEF ActiveRows, RowsOf
  <2> QED BY <1>0, <2>1 DEF RowsTell
<1>3. TokensBounded'
  BY <1>0 DEF TokensBounded, TypeOK, NoToken
<1>4. \A e \in Events : remote[e].at <= 0 => Mirrored(e)'
  <2>1. ASSUME NEW e \in Events, remote[e].at <= 0
        PROVE  Mirrored(e)'
    <3>1. remote[e].at = 0 /\ ~remote[e].busy
      BY <2>1 DEF ImportInv, NotifyInv, TypeOK, Remote, RevisionsBounded
    <3>2. \A k \in Rows : block[k].event # e
      BY <1>0, <3>1 DEF RowsTell, SyncAssumption
    <3>3. ActiveRows(e)' = {}
      BY <3>2 DEF ActiveRows, RowsOf
    <3> QED BY <3>1, <3>3 DEF Mirrored
  <2> QED BY <2>1
<1>5. connection'.token = NoToken => \A e \in Events : Covered(e, connection.token, {})'
  BY <1>4 DEF Covered, NoToken
<1>6. Running' = Running
  BY DEF Running
<1>7. CASE operator' = "disable"
  BY <1>1, <1>2, <1>3, <1>7 DEF UpToDate
<1>8. CASE operator' # "disable" /\ ~(operator # "disable" /\ block' = block)
  <2>1. UpToDate'
    BY <1>5, <1>6, <1>8 DEF UpToDate
  <2> QED BY <1>1, <1>2, <1>3, <2>1
<1>9. CASE operator # "disable" /\ block' = block
  <2>1. \A e : Mirrored(e)' <=> Mirrored(e)
    BY <1>9 DEF Mirrored, ActiveRows, RowsOf
  <2>2. connection'.token # NoToken => \A e \in Events : Covered(e, connection.token, {})'
    BY <1>0, <1>9, <2>1 DEF UpToDate, Covered
  <2>3. \A t \in Running \ outdated', e \in Events : Covered(e, Level(t), sync[t].listed)'
    BY <1>0, <1>9, <2>1 DEF UpToDate, Covered, Level, Applying
  <2>4. UpToDate'
    BY <1>5, <1>6, <2>2, <2>3 DEF UpToDate
  <2> QED BY <1>1, <1>2, <1>3, <2>4
<1> QED BY <1>7, <1>8, <1>9

\* A link that is stored without trouble is that of an event nobody has looked at.
LEMMA ImportLinks ==
    ASSUME SyncAssumption, ImportInv, ~trouble, ~trouble', NEW e \in Own, StoreLink(e)
    PROVE  ListsTell' /\ RowsTell' /\ TokensBounded' /\ UpToDate'
<1>0. ListsTell /\ RowsTell /\ TokensBounded /\ UpToDate
  BY DEF ImportInv
<1>1. /\ UNCHANGED <<remote, revision, connection, block, sync, operator, outdated, synced>>
      /\ linked' = linked \cup {e} /\ ActiveRows(e) = {} /\ \A s \in Syncs : sync[s].event # e
  BY DEF StoreLink, operatorVars
<1>2. \A d : ActiveRows(d)' = ActiveRows(d)
  BY <1>1 DEF ActiveRows, RowsOf
<1>3. \A d : Mirrored(d) => Mirrored(d)'
  BY <1>1, <1>2 DEF Mirrored
<1>4. ListsTell' /\ RowsTell' /\ TokensBounded'
  BY <1>0, <1>1, <1>2 DEF ListsTell, RowsTell, TokensBounded, Applying
<1>5. UpToDate'
  <2>1. \A t \in Syncs : Level(t)' = Level(t)
    BY <1>1 DEF Level, Applying
  <2>2. \A d, level, pending : Covered(d, level, pending) =>
            (remote'[d].at <= level => <<d, remote'[d]>> \in pending \/ Mirrored(d)')
    BY <1>1, <1>3 DEF Covered
  <2> QED BY <1>0, <1>1, <2>1, <2>2 DEF UpToDate, Covered, Running
<1> QED BY <1>4, <1>5

LEMMA ImportOthers ==
    ASSUME SyncAssumption, ImportInv, ~trouble, ~trouble',
           \/ DeactivateBlocks \/ Enable \/ OpenWatch \/ StopWatch \/ OperatorDies
           \/ DisableRow \/ AttachWatch
    PROVE  ListsTell' /\ RowsTell' /\ TokensBounded' /\ UpToDate'
<1>0. TypeOK
  BY DEF ImportInv, NotifyInv
<1>1. UNCHANGED <<remote, revision, linked, sync, synced>>
  BY DEF DeactivateBlocks, Enable, OpenWatch, StopWatch, OperatorDies, DisableRow, AttachWatch,
         calendarVars, historyVars
<1>2. /\ \A k \in Rows : block'[k].event = block[k].event /\ (block'[k].active => block[k].active)
      /\ ~DeactivateBlocks => block' = block
  BY <1>0 DEF DeactivateBlocks, Enable, OpenWatch, StopWatch, OperatorDies, DisableRow, AttachWatch,
              TypeOK, Block
<1>3. connection \in Connection
  BY <1>0 DEF TypeOK
<1>4. CASE DeactivateBlocks \/ OpenWatch \/ StopWatch \/ OperatorDies \/ AttachWatch
  <2>1. /\ operator' # "disable" => operator # "disable" /\ block' = block
        /\ outdated \subseteq outdated' \/ outdated' = Running
    BY <1>2, <1>4 DEF DeactivateBlocks, OpenWatch, StopWatch, OperatorDies, AttachWatch
  <2>2. connection'.token = connection.token
    BY <1>3, <1>4 DEF DeactivateBlocks, OpenWatch, StopWatch, OperatorDies, AttachWatch, Connection
  <2> QED BY <1>1, <1>2, <2>1, <2>2, ImportKeeps
<1>5. CASE DisableRow
  <2>1. connection'.token = NoToken /\ outdated' = Running
    BY <1>5 DEF DisableRow
  <2> QED BY <1>1, <1>2, <2>1, ImportKeeps
<1>6. CASE Enable
  <2>1. connection'.token = NoToken /\ outdated' = Running
    BY <1>3, <1>6 DEF Enable, Connection
  <2> QED BY <1>1, <1>2, <2>1, ImportKeeps
<1> QED BY <1>4, <1>5, <1>6

LEMMA ImportNext ==
    ASSUME SyncAssumption, ImportInv, [Next]_vars
    PROVE  ImportInv'
<1>0. NotifyInv'
  BY NotifyNext DEF ImportInv
<1>1. CASE UNCHANGED vars
  BY <1>0, <1>1 DEF ImportInv, ListsTell, RowsTell, TokensBounded, UpToDate, Covered, Mirrored,
                    ActiveRows, RowsOf, Running, Level, Applying, vars
<1>2. CASE Next
  <2>1. ~trouble
    BY <1>2 DEF Next
  <2>2. ~trouble' => ListsTell' /\ RowsTell' /\ TokensBounded' /\ UpToDate'
    BY <1>2, <2>1, ImportStarts, ImportSync, ImportChange, ImportLinks, ImportOthers
       DEF Next, OperatorProceeds
  <2> QED BY <1>0, <2>2 DEF ImportInv
<1> QED BY <1>1, <1>2

\* What the stored token covers is what the blocks show, until a synchronisation
\* writes over what a later one or an operator did.
THEOREM TokenCovered == ASSUME SyncAssumption PROVE Spec => []TokenCovers
<1>1. Init => ImportInv
  BY ImportInit
<1>2. ImportInv /\ [Next]_vars => ImportInv'
  BY ImportNext
<1>3. ImportInv => TokenCovers
  BY DEF ImportInv, UpToDate, Covered, TokenCovers
<1> QED BY <1>1, <1>2, <1>3, PTL DEF Spec
==============================================================================
