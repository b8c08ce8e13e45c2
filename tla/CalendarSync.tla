----------------------------- MODULE CalendarSync -----------------------------
(***************************************************************************)
(* The import of busy time from one external calendar. A synchronisation   *)
(* reads the connection row, lists what changed since the stored token,    *)
(* turns every listed event into an availability block, and stores the new  *)
(* token. Polling, retries, webhooks, a new watch and enabling the          *)
(* connection all start one; nothing keeps two of them apart, or apart from *)
(* an operator who disables the connection meanwhile.                       *)
(***************************************************************************)
EXTENDS Naturals

CONSTANTS
    Events,       \* events of the external calendar
    Own,          \* those among them that mirror a booking (see CalendarLink)
    Rows,         \* ids of availability block rows: bounds how many are inserted
    Syncs,        \* synchronisations that run at the same time
    Nil,          \* no event, no row
    MaxRevision,  \* bound on changes of the calendar
    MaxDisturbances  \* bound on failing calls, dying processes, expired tokens and
                     \* what the operator does, together

ASSUME SyncAssumption ==
    /\ Own \subseteq Events
    /\ Nil \notin Events \cup Rows
    /\ MaxRevision \in Nat /\ MaxDisturbances \in Nat

VARIABLES
    remote,      \* the external events: busy, and the revision of the last change
    revision,    \* how often the external calendar has changed
    linked,      \* own events whose link row is stored
    connection,  \* the connection row: active, status, token, watch
    block,       \* the block rows: event, the revision they show, active
    ledger,      \* calendar_webhook_event: notifications registered and failed
    sync,        \* each synchronisation: pc, the row it read, what it listed
    operator,    \* what the operator's request does next
    outdated,    \* synchronisations under way while it was disabled or enabled
    synced,      \* the last revision a completed synchronisation has listed
    trouble,     \* a synchronisation wrote over what a later one or an operator did
    lost,        \* notifications whose synchronisation died or was skipped
    disturbances \* failures and operator's requests so far

vars == <<remote, revision, linked, connection, block, ledger, sync, operator, outdated,
          synced, trouble, lost, disturbances>>

NoToken == 0

Idle == [pc |-> "idle", message |-> 0, runs |-> FALSE, token |-> NoToken,
         listed |-> {}, at |-> 0, event |-> Nil, row |-> Nil]

Init ==
    /\ remote = [e \in Events |-> [busy |-> FALSE, at |-> 0]]
    /\ revision = 0
    /\ linked = {}
    /\ connection = [active |-> TRUE, status |-> "idle", token |-> NoToken, watch |-> FALSE]
    /\ block = [k \in Rows |-> [event |-> Nil, at |-> 0, active |-> FALSE]]
    /\ ledger = [registered |-> {}, failed |-> {}]
    /\ sync = [s \in Syncs |-> Idle]
    /\ operator = "idle"
    /\ outdated = {} /\ synced = 0 /\ trouble = FALSE /\ lost = {}
    /\ disturbances = 0

RowsOf(e) == {k \in Rows : block[k].event = e}
FreeRows == {k \in Rows : block[k].event = Nil}
FreeRow == CHOOSE k \in FreeRows : TRUE
ActiveRows(e) == {k \in RowsOf(e) : block[k].active}

Running == {s \in Syncs : sync[s].pc # "idle"}
Goto(s, pc) == sync' = [sync EXCEPT ![s].pc = pc]
Disturb == disturbances < MaxDisturbances /\ disturbances' = disturbances + 1

calendarVars == <<remote, revision, linked>>
operatorVars == <<operator, outdated>>
historyVars == <<synced, trouble, lost>>

------------------------------------------------------------------------------
(* The external calendar                                                   *)

\* An event is put on the calendar, moved, or deleted; one that ends before it
\* starts, or has no times, occupies nothing either.
ChangeEvent(e, busy) ==
    /\ revision < MaxRevision
    /\ busy \/ remote[e].busy
    /\ revision' = revision + 1
    /\ remote' = [remote EXCEPT ![e] = [busy |-> busy, at |-> revision + 1]]
    /\ UNCHANGED <<linked, connection, block, ledger, sync, operatorVars, historyVars, disturbances>>

\* CalendarLink stores the link of an event it has created; a synchronisation may
\* have taken the event for somebody else's by then.
StoreLink(e) ==
    /\ e \in Own \ linked
    /\ remote[e].busy
    /\ linked' = linked \cup {e}
    /\ trouble' = (trouble \/ ActiveRows(e) # {} \/ \E s \in Syncs : sync[s].event = e)
    /\ UNCHANGED <<remote, revision, connection, block, ledger, sync, operatorVars, synced, lost,
                   disturbances>>

------------------------------------------------------------------------------
(* What starts a synchronisation                                           *)

\* The connection row as the synchronisation reads it. runs: active, not disabled.
Runs == connection.active /\ connection.status # "disabled"

Read(s, pc, message) ==
    /\ sync[s].pc = "idle"
    /\ sync' = [sync EXCEPT ![s] = [Idle EXCEPT !.pc = pc, !.message = message, !.runs = Runs,
                                                     !.token = connection.token]]
    /\ outdated' = outdated \ {s}

\* syncCalendarConnectionsByProvider, called by the polling job.
Poll(s) ==
    /\ Runs
    /\ Read(s, "mark", 0)
    /\ UNCHANGED <<calendarVars, connection, block, ledger, operator, historyVars, disturbances>>

\* retryFailedCalendarSyncs; it may come late or, after ten attempts, not at all.
Retry(s) ==
    /\ connection.active
    /\ connection.status = "error"
    /\ Read(s, "mark", 0)
    /\ UNCHANGED <<calendarVars, connection, block, ledger, operator, historyVars, disturbances>>

\* syncCalendarConnectionById, after enabling or after starting a watch.
SyncById(s) ==
    /\ operator = "sync"
    /\ operator' = "idle"
    /\ IF Runs THEN Read(s, "mark", 0) ELSE sync[s].pc = "idle" /\ UNCHANGED <<sync, outdated>>
    /\ UNCHANGED <<calendarVars, connection, block, ledger, historyVars, disturbances>>

\* findCalendarConnectionByWebhookNotification: the notification of a change, late
\* or repeated, finds the connection by its watch.
Notify(s, n) ==
    /\ n \in 1..revision
    /\ connection.watch
    /\ Read(s, "register", n)
    /\ UNCHANGED <<calendarVars, connection, block, ledger, operator, historyVars, disturbances>>

\* registerWebhookEvent looks for the message number, and returns a duplicate.
LookUpMessage(s) ==
    /\ sync[s].pc = "register"
    /\ IF sync[s].message \in ledger.registered
       THEN sync' = [sync EXCEPT ![s] = Idle]
       ELSE Goto(s, "insert")
    /\ UNCHANGED <<calendarVars, connection, block, ledger, operatorVars, historyVars, disturbances>>

\* It inserts the notification, as processed already; no index makes it unique. A
\* connection that was disabled when it was read is skipped.
InsertMessage(s) ==
    /\ sync[s].pc = "insert"
    /\ ledger' = [ledger EXCEPT !.registered = @ \cup {sync[s].message}]
    /\ IF sync[s].runs
       THEN Goto(s, "mark") /\ UNCHANGED lost
       ELSE /\ sync' = [sync EXCEPT ![s] = Idle]
            /\ lost' = lost \cup {sync[s].message}
    /\ UNCHANGED <<calendarVars, connection, block, operatorVars, synced, trouble, disturbances>>

------------------------------------------------------------------------------
(* syncConnectionRecord                                                    *)

\* The status becomes syncing, whatever it has become since the row was read.
MarkSyncing(s) ==
    /\ sync[s].pc = "mark"
    /\ connection' = [connection EXCEPT !.status = "syncing"]
    /\ Goto(s, "list")
    /\ UNCHANGED <<calendarVars, block, ledger, operatorVars, historyVars, disturbances>>

\* The events the provider lists: those changed since the token.
ChangedSince(token) == {e \in Events : remote[e].at > token}

\* Fault: the recovery from an expired token lists without deleted events.
RecoverFromExpiredTokenBusyOnly(s) ==
    /\ sync[s].pc = "list"
    /\ sync[s].token # NoToken
    /\ Disturb
    /\ sync' = [sync EXCEPT ![s].pc = "apply", ![s].at = revision,
           ![s].listed = {<<e, remote[e]>> : e \in {d \in ChangedSince(NoToken) : remote[d].busy}}]
    /\ UNCHANGED <<calendarVars, connection, block, ledger, operatorVars, historyVars>>

\* An expired token makes listChangedEvents start again from nothing.
RecoverFromExpiredToken(s) ==
    /\ sync[s].pc = "list"
    /\ sync[s].token # NoToken
    /\ Disturb
    /\ sync' = [sync EXCEPT ![s].pc = "apply", ![s].at = revision,
           ![s].listed = {<<e, remote[e]>> : e \in ChangedSince(NoToken)}]
    /\ UNCHANGED <<calendarVars, connection, block, ledger, operatorVars, historyVars>>

\* listChangedEvents with the token of the row that was read.
ListChanges(s) ==
    /\ sync[s].pc = "list"
    /\ sync' = [sync EXCEPT ![s].pc = "apply", ![s].at = revision,
           ![s].listed = {<<e, remote[e]>> : e \in ChangedSince(sync[s].token)}]
    /\ UNCHANGED <<calendarVars, connection, block, ledger, operatorVars, historyVars, disturbances>>

\* What synchronisation s listed is out of date: a later listing was applied since,
\* or the connection was disabled or enabled, or is being disabled.
Outdated(s) ==
    \/ s \in outdated
    \/ operator = "disable"
    \/ \E t \in Syncs \ {s} : sync[t].pc \in {"apply", "write"} /\ sync[t].at > sync[s].at
    \/ synced > sync[s].at

\* isManagedBookingEvent skips an event that is a booking's own; the existing block
\* of any other is looked up. An event that occupies nothing and has no block is done.
FindBlock(s) ==
    /\ sync[s].pc = "apply"
    /\ \E l \in sync[s].listed :
          LET e == l[1]
              rest == [sync EXCEPT ![s].listed = @ \ {l}]
          IN
          IF e \in linked \/ (RowsOf(e) = {} /\ ~l[2].busy)
          THEN sync' = rest
          ELSE \E k \in IF RowsOf(e) = {} THEN {Nil} ELSE RowsOf(e) :
                  sync' = [sync EXCEPT ![s].pc = "write", ![s].event = e, ![s].row = k]
    /\ UNCHANGED <<calendarVars, connection, block, ledger, operatorVars, historyVars, disturbances>>

\* Fault: a block that exists is moved, and never taken back.
WriteBlockAlwaysActive(s) ==
    /\ sync[s].pc = "write"
    /\ \E l \in sync[s].listed :
          LET e == l[1] IN
          /\ e = sync[s].event
          /\ sync[s].row = Nil => FreeRows # {}
          /\ LET k == IF sync[s].row = Nil THEN FreeRow ELSE sync[s].row IN
                block' = [block EXCEPT ![k] = [event |-> e, at |-> l[2].at, active |-> TRUE]]
          /\ trouble' = (trouble \/ Outdated(s) \/ (sync[s].row = Nil /\ RowsOf(e) # {}))
          /\ sync' = [sync EXCEPT ![s].pc = "apply", ![s].listed = @ \ {l},
                                  ![s].event = Nil, ![s].row = Nil]
    /\ UNCHANGED <<calendarVars, connection, ledger, operatorVars, synced, lost, disturbances>>

\* The block is taken back, moved (and active again) or inserted.
WriteBlock(s) ==
    /\ sync[s].pc = "write"
    /\ \E l \in sync[s].listed :
          LET e == l[1] IN
          /\ e = sync[s].event
          /\ sync[s].row = Nil => FreeRows # {}
          /\ LET k == IF sync[s].row = Nil THEN FreeRow ELSE sync[s].row IN
                block' = [block EXCEPT ![k] =
                    IF l[2].busy THEN [event |-> e, at |-> l[2].at, active |-> TRUE]
                                 ELSE [@ EXCEPT !.active = FALSE]]
          /\ trouble' = (trouble \/ Outdated(s) \/ (sync[s].row = Nil /\ RowsOf(e) # {}))
          /\ sync' = [sync EXCEPT ![s].pc = "apply", ![s].listed = @ \ {l},
                                  ![s].event = Nil, ![s].row = Nil]
    /\ UNCHANGED <<calendarVars, connection, ledger, operatorVars, synced, lost, disturbances>>

\* The token is stored and the status idle, whatever it has become; a webhook's
\* ledger row is marked processed, as it was from the start.
Finish(s) ==
    /\ sync[s].pc = "apply"
    /\ sync[s].listed = {}
    /\ connection' = [connection EXCEPT !.status = "idle", !.token = sync[s].at]
    /\ trouble' = (trouble \/ Outdated(s))
    /\ synced' = IF sync[s].at > synced THEN sync[s].at ELSE synced
    /\ sync' = [sync EXCEPT ![s] = Idle]
    /\ UNCHANGED <<calendarVars, block, ledger, operatorVars, lost, disturbances>>

\* Fault: the ledger row stays as it was inserted.
SyncFailsUnlisted(s) ==
    /\ sync[s].pc \in {"mark", "list", "apply", "write"}
    /\ Disturb
    /\ connection' = IF sync[s].pc = "mark" THEN connection
                                            ELSE [connection EXCEPT !.status = "error"]
    /\ sync' = [sync EXCEPT ![s] = Idle]
    /\ UNCHANGED <<calendarVars, block, ledger, operatorVars, historyVars>>

\* A provider call or a statement throws: the error is stored (and counted), unless
\* it is the first statement; a webhook's ledger row is marked failed.
SyncFails(s) ==
    /\ sync[s].pc \in {"mark", "list", "apply", "write"}
    /\ Disturb
    /\ connection' = IF sync[s].pc = "mark" THEN connection
                                            ELSE [connection EXCEPT !.status = "error"]
    /\ ledger' = [ledger EXCEPT !.failed = @ \cup ({sync[s].message} \ {0})]
    /\ sync' = [sync EXCEPT ![s] = Idle]
    /\ UNCHANGED <<calendarVars, block, operatorVars, historyVars>>

\* The process dies: the connection may stay syncing, a notification registered.
Crash(s) ==
    /\ sync[s].pc # "idle"
    /\ Disturb
    /\ sync' = [sync EXCEPT ![s] = Idle]
    /\ lost' = IF sync[s].pc \in {"register", "insert"} THEN lost
                                                        ELSE lost \cup ({sync[s].message} \ {0})
    /\ UNCHANGED <<calendarVars, connection, block, ledger, operatorVars, synced, trouble>>

------------------------------------------------------------------------------
(* The operator                                                            *)

\* disableCalendarConnection: the active imported blocks are deactivated
DeactivateBlocks ==
    /\ operator = "idle"
    /\ Disturb
    /\ block' = [k \in Rows |-> [block[k] EXCEPT !.active = FALSE]]
    /\ outdated' = Running
    /\ operator' = "disable"
    /\ UNCHANGED <<calendarVars, connection, ledger, sync, historyVars>>

\* Fault: the token is kept for the day the connection is enabled again.
DisableRowKeepingToken ==
    /\ operator = "disable"
    /\ connection' = [connection EXCEPT !.active = FALSE, !.status = "disabled", !.watch = FALSE]
    /\ outdated' = Running
    /\ operator' = "idle"
    /\ UNCHANGED <<calendarVars, block, ledger, sync, historyVars, disturbances>>

\* and the connection is disabled, its token and its watch forgotten.
DisableRow ==
    /\ operator = "disable"
    /\ connection' = [active |-> FALSE, status |-> "disabled", token |-> NoToken, watch |-> FALSE]
    /\ outdated' = Running
    /\ operator' = "idle"
    /\ UNCHANGED <<calendarVars, block, ledger, sync, historyVars, disturbances>>

\* enableCalendarConnection, and connectCalendar for a connection that is disabled:
\* the row is active and idle, and a synchronisation is started.
Enable ==
    /\ operator = "idle"
    /\ Disturb
    /\ connection' = [connection EXCEPT !.active = TRUE, !.status = "idle", !.token = NoToken]
    /\ outdated' = Running
    /\ operator' = "sync"
    /\ UNCHANGED <<calendarVars, block, ledger, sync, historyVars>>

\* startCalendarConnectionWatch and renewExpiringCalendarWatches read the row and
\* open a channel at the provider
OpenWatch ==
    /\ operator = "idle"
    /\ Runs
    /\ Disturb
    /\ operator' = "attach"
    /\ UNCHANGED <<calendarVars, connection, block, ledger, sync, outdated, historyVars>>

\* and attach it, which makes the status idle; a first watch is followed by a
\* synchronisation, a renewed one is not.
AttachWatch ==
    /\ operator = "attach"
    /\ connection' = [connection EXCEPT !.watch = TRUE, !.status = "idle"]
    /\ operator' \in {"sync", "idle"}
    /\ UNCHANGED <<calendarVars, block, ledger, sync, outdated, historyVars, disturbances>>

\* stopCalendarConnectionWatch
StopWatch ==
    /\ connection.watch
    /\ Disturb
    /\ connection' = [connection EXCEPT !.watch = FALSE]
    /\ UNCHANGED <<calendarVars, block, ledger, sync, operator, outdated, historyVars>>

\* The operator's request dies half way: a connection that was to be disabled stays
\* active without its blocks.
OperatorDies ==
    /\ operator # "idle"
    /\ Disturb
    /\ operator' = "idle"
    /\ trouble' = (trouble \/ operator = "disable")
    /\ UNCHANGED <<calendarVars, connection, block, ledger, sync, outdated, synced, lost>>

\* The steps of a synchronisation that has begun.
Proceed(s) ==
    \/ LookUpMessage(s)
    \/ InsertMessage(s)
    \/ MarkSyncing(s)
    \/ ListChanges(s)
    \/ FindBlock(s)
    \/ WriteBlock(s)
    \/ Finish(s)

OperatorProceeds ==
    DisableRow \/ AttachWatch \/ \E s \in Syncs : SyncById(s)

\* A behaviour is followed up to the first trouble: nothing is claimed beyond it.
Next ==
    /\ ~trouble
    /\ \/ \E e \in Events, busy \in BOOLEAN : ChangeEvent(e, busy)
       \/ \E e \in Own : StoreLink(e)
       \/ \E s \in Syncs :
             \/ Poll(s)
             \/ Retry(s)
             \/ \E n \in 1..MaxRevision : Notify(s, n)
             \/ Proceed(s)
             \/ RecoverFromExpiredToken(s)
             \/ SyncFails(s)
             \/ Crash(s)
       \/ DeactivateBlocks
       \/ Enable
       \/ OpenWatch
       \/ StopWatch
       \/ OperatorDies
       \/ OperatorProceeds

Spec == Init /\ [][Next]_vars

\* The server goes on with what it has begun, and the polling job runs for ever
\* (calendar-internal.ts is called by a schedule outside this repository): strongly,
\* as it need not wait until one of the Syncs, which bound the model, is free.
FairSpec ==
    /\ Spec
    /\ \A s \in Syncs : WF_vars(Proceed(s))
    /\ WF_vars(OperatorProceeds)
    /\ SF_vars(\E s \in Syncs : Poll(s))

------------------------------------------------------------------------------
(* Properties                                                              *)

\* The blocks show event e as the calendar has it now.
Mirrored(e) ==
    IF remote[e].busy /\ e \notin linked
    THEN \E k \in Rows : /\ ActiveRows(e) = {k}
                         /\ block[k].at = remote[e].at
    ELSE ActiveRows(e) = {}

\* What the stored token says is imported has been imported: an event that has not
\* changed since is shown by exactly one active block, or by none when it is gone
\* or a booking's own. Failures half way, crashes, retries and expired tokens do
\* not break it, nor do synchronisations that overlap, unless one writes what it
\* listed over what a later one has applied, inserts a block that another has
\* inserted meanwhile, or goes on after the connection was disabled or enabled, or
\* an own event is looked at before its link is stored.
TokenCovers ==
    (~trouble /\ operator # "disable" /\ connection.token # NoToken) =>
        \A e \in Events : remote[e].at <= connection.token => Mirrored(e)

\* A disabled connection blocks no time and keeps no token, unless a synchronisation
\* was under way.
DisabledBlocksNothing ==
    (~trouble /\ ~connection.active) =>
        /\ connection.token = NoToken
        /\ \A k \in Rows : ~block[k].active

\* A notification that the ledger would refuse as a duplicate has been imported, is
\* being imported, is in the list of failed ones, or was lost with its process.
RegisteredIsSynced ==
    \A n \in ledger.registered :
        \/ synced >= n
        \/ n \in ledger.failed \cup lost
        \/ \E s \in Running : sync[s].message = n

\* In the end the blocks of an active connection show the calendar, also after
\* failures, crashes and exhausted retries (the polling job looks at every status),
\* with the exceptions of TokenCovers.
EventuallyMirrors ==
    <>[](connection.active => trouble \/ \A e \in Events : Mirrored(e))
==============================================================================
