------------------------- MODULE NotificationPipeline -------------------------
(***************************************************************************)
(* Notifications from the event bus to their recipients: notificationsPusher *)
(* stores an event once per idempotency key and sends a job, pg-boss hands  *)
(* batches of jobs to the workers and retries a batch that throws, and      *)
(* NotificationProcessorService sends the event to every channel of every   *)
(* recipient. A target is one channel of one recipient; the targets of an   *)
(* event are numbered in the order of the two loops of processRecipients.   *)
(***************************************************************************)
EXTENDS Naturals

CONSTANTS
    Events,       \* idempotency keys, each with its event row and its job
    TargetCount,  \* TargetCount[e]: the number of targets of event e
    Disabled,     \* Disabled[e]: the targets whose channel a preference disables
    Pushers,      \* calls of notificationsPusher
    Workers,      \* executions of the batch handler that are alive at once
    NoEvent,      \* the event of a pusher or worker that has none
    RetryLimit,   \* how often pg-boss retries a job
    MaxTimeouts   \* bound on executions that outlive their jobs

ASSUME PipelineAssumption ==
    /\ TargetCount \in [Events -> Nat \ {0}]
    /\ Disabled \in [Events -> SUBSET Nat]
    /\ NoEvent \notin Events
    /\ RetryLimit \in Nat
    /\ MaxTimeouts \in Nat

VARIABLES
    event,     \* notification_event rows: the status, "none" before the insert
    job,       \* pg-boss jobs: state and the retries used
    pusher,    \* each call: pc and event
    worker,    \* each execution: pc, its batch and whether pg-boss still waits for
               \* it, the jobs it has not come to, and the event, target and
               \* failures of the pass it is making
    sends,     \* sends[e][t]: how often a provider has sent event e to target t
    filtered,  \* the targets a pass left out because the channel was disabled
    lost,      \* events whose pusher failed before a job existed
    timeouts   \* executions that outlived their jobs

vars == <<event, job, pusher, worker, sends, filtered, lost, timeouts>>

Targets(e) == 1..TargetCount[e]

Idle == [pc |-> "idle", batch |-> {}, awaited |-> FALSE, rest |-> {},
         event |-> NoEvent, target |-> 0, failures |-> FALSE]

Init ==
    /\ event = [e \in Events |-> "none"]
    /\ job = [e \in Events |-> [state |-> "none", retries |-> 0]]
    /\ pusher = [p \in Pushers |-> [pc |-> "idle", event |-> NoEvent]]
    /\ worker = [w \in Workers |-> Idle]
    /\ sends = [e \in Events |-> [t \in Targets(e) |-> 0]]
    /\ filtered = [e \in Events |-> {}]
    /\ lost = {}
    /\ timeouts = 0

------------------------------------------------------------------------------
(* notificationsPusher                                                     *)

PusherGoto(p, pc) == pusher' = [pusher EXCEPT ![p].pc = pc]
PusherReturns(p) == pusher' = [pusher EXCEPT ![p] = [pc |-> "done", event |-> NoEvent]]

\* An event with the key exists, and the call returns, or it is to be inserted.
LookUpEvent(p, e) ==
    /\ pusher[p].pc = "idle"
    /\ IF event[e] = "none"
       THEN pusher' = [pusher EXCEPT ![p] = [pc |-> "insert", event |-> e]]
       ELSE PusherReturns(p)
    /\ UNCHANGED <<event, job, worker, sends, filtered, lost, timeouts>>

\* Fault: a throwing listener of the published hint ends the call.
InsertEventOnly(p) ==
    /\ pusher[p].pc = "insert"
    /\ event[pusher[p].event] = "none"
    /\ event' = [event EXCEPT ![pusher[p].event] = "queued"]
    /\ PusherReturns(p)
    /\ UNCHANGED <<job, worker, sends, filtered, lost, timeouts>>

\* The event is inserted as queued.
InsertEvent(p) ==
    /\ pusher[p].pc = "insert"
    /\ event[pusher[p].event] = "none"
    /\ event' = [event EXCEPT ![pusher[p].event] = "queued"]
    /\ PusherGoto(p, "send")
    /\ UNCHANGED <<job, worker, sends, filtered, lost, timeouts>>

\* The unique index on organization and key makes a racing insert throw.
RefuseInsert(p) ==
    /\ pusher[p].pc = "insert"
    /\ event[pusher[p].event] # "none"
    /\ PusherReturns(p)
    /\ UNCHANGED <<event, job, worker, sends, filtered, lost, timeouts>>

\* queue.send stores the job, or throws: before the job is stored or after.
SendJob(p) ==
    LET e == pusher[p].event IN
    /\ pusher[p].pc = "send"
    /\ \/ /\ job' = [job EXCEPT ![e] = [state |-> "created", retries |-> 0]]
          /\ PusherReturns(p) \/ PusherGoto(p, "unqueued")
          /\ UNCHANGED lost
       \/ /\ lost' = lost \cup {e}
          /\ PusherGoto(p, "unqueued")
          /\ UNCHANGED job
    /\ UNCHANGED <<event, worker, sends, filtered, timeouts>>

\* markEventFailed("queue_publish_failed")
MarkUnqueued(p) ==
    /\ pusher[p].pc = "unqueued"
    /\ event' = [event EXCEPT ![pusher[p].event] = "failed"]
    /\ PusherReturns(p)
    /\ UNCHANGED <<job, worker, sends, filtered, lost, timeouts>>

\* A statement throws or the process dies; nothing looks for such events later.
PusherFails(p) ==
    /\ pusher[p].pc \in {"insert", "send", "unqueued"}
    /\ PusherReturns(p)
    /\ lost' = IF pusher[p].pc = "send" THEN lost \cup {pusher[p].event} ELSE lost
    /\ UNCHANGED <<event, job, worker, sends, filtered, timeouts>>

------------------------------------------------------------------------------
(* pg-boss, as registerWorker configures it                                *)

\* A batch of jobs that are due is handed to the handler.
FetchBatch(w, batch) ==
    /\ worker[w].pc = "idle"
    /\ batch # {}
    /\ \A e \in batch : job[e].state = "created"
    /\ job' = [e \in Events |-> IF e \in batch THEN [job[e] EXCEPT !.state = "active"]
                                ELSE job[e]]
    /\ worker' = [worker EXCEPT ![w] = [Idle EXCEPT !.pc = "next", !.batch = batch,
                                                    !.awaited = TRUE, !.rest = batch]]
    /\ UNCHANGED <<event, pusher, sends, filtered, lost, timeouts>>

\* The jobs of a batch fail together: each is retried, or is given up and goes
\* to the dead-letter queue, which nobody reads.
Failed(batch) ==
    [e \in Events |->
        IF e \notin batch THEN job[e]
        ELSE IF job[e].retries < RetryLimit
             THEN [state |-> "created", retries |-> job[e].retries + 1]
             ELSE [job[e] EXCEPT !.state = "dead"]]

\* Fault: the handler never settles after an error.
EndUnsettled(w) ==
    /\ worker' = [worker EXCEPT ![w] = Idle]
    /\ UNCHANGED job

\* The handler throws. pg-boss fails the jobs if it still waits for them.
EndInFailure(w) ==
    /\ job' = IF worker[w].awaited THEN Failed(worker[w].batch) ELSE job
    /\ worker' = [worker EXCEPT ![w] = Idle]

\* The handler returns: the jobs of the batch are complete.
CompleteBatch(w) ==
    /\ worker[w].pc = "next"
    /\ worker[w].rest = {}
    /\ job' = [e \in Events |-> IF worker[w].awaited /\ e \in worker[w].batch
                                THEN [job[e] EXCEPT !.state = "completed"] ELSE job[e]]
    /\ worker' = [worker EXCEPT ![w] = Idle]
    /\ UNCHANGED <<event, pusher, sends, filtered, lost, timeouts>>

\* Fault: an expired job is sent anew instead of retried.
ExpireUncounted(w) ==
    /\ timeouts < MaxTimeouts
    /\ worker[w].awaited
    /\ timeouts' = timeouts + 1
    /\ job' = [e \in Events |-> IF e \in worker[w].batch
                                THEN [state |-> "created", retries |-> 0] ELSE job[e]]
    /\ worker' = [worker EXCEPT ![w].awaited = FALSE]
    /\ UNCHANGED <<event, pusher, sends, filtered, lost>>

\* The jobs expire before the handler is done. It is not stopped by that, and
\* may go on while another execution works on the same jobs.
Expire(w) ==
    /\ timeouts < MaxTimeouts
    /\ worker[w].awaited
    /\ timeouts' = timeouts + 1
    /\ job' = Failed(worker[w].batch)
    /\ worker' = [worker EXCEPT ![w].awaited = FALSE]
    /\ UNCHANGED <<event, pusher, sends, filtered, lost>>

\* The process dies and its jobs expire, or a statement outside the pass throws.
WorkerCrash(w) ==
    /\ worker[w].pc # "idle"
    /\ EndInFailure(w)
    /\ UNCHANGED <<event, pusher, sends, filtered, lost, timeouts>>

------------------------------------------------------------------------------
(* handleNotificationJob and processEventById                              *)

Goto(w, pc) == worker' = [worker EXCEPT ![w].pc = pc]

\* Fault: processed events are not skipped.
ReadAnyEvent(w) ==
    /\ worker[w].pc = "next"
    /\ \E e \in worker[w].rest :
           worker' = [worker EXCEPT ![w].rest = @ \ {e}, ![w].event = e, ![w].pc = "start"]
    /\ UNCHANGED <<event, job, pusher, sends, filtered, lost, timeouts>>

\* The next job of the batch. A processed event is skipped; the row exists, since
\* the job was sent after it.
ReadEvent(w) ==
    /\ worker[w].pc = "next"
    /\ \E e \in worker[w].rest :
           worker' = [worker EXCEPT
                        ![w].rest = @ \ {e},
                        ![w].event = IF event[e] = "processed" THEN NoEvent ELSE e,
                        ![w].pc = IF event[e] = "processed" THEN "next" ELSE "start"]
    /\ UNCHANGED <<event, job, pusher, sends, filtered, lost, timeouts>>

\* markEventStatus("processing"). The payload parses: the pusher parsed it.
StartPass(w) ==
    /\ worker[w].pc = "start"
    /\ event' = [event EXCEPT ![worker[w].event] = "processing"]
    /\ worker' = [worker EXCEPT ![w].pc = "target", ![w].target = 1, ![w].failures = FALSE]
    /\ UNCHANGED <<job, pusher, sends, filtered, lost, timeouts>>

\* Fault: the result of a target replaces that of the targets before it.
NextTargetForgetting(w, failed) ==
    LET last == worker[w].target = TargetCount[worker[w].event] IN
    worker' = [worker EXCEPT ![w].pc = IF last THEN "finish" ELSE "target",
                             ![w].target = IF last THEN @ ELSE @ + 1,
                             ![w].failures = failed]

\* On to the next target, or to the end of the pass.
NextTarget(w, failed) ==
    LET last == worker[w].target = TargetCount[worker[w].event] IN
    worker' = [worker EXCEPT ![w].pc = IF last THEN "finish" ELSE "target",
                             ![w].target = IF last THEN @ ELSE @ + 1,
                             ![w].failures = @ \/ failed]

\* resolveChannelEnabled: a disabled channel is filtered out.
FilterTarget(w) ==
    LET e == worker[w].event t == worker[w].target IN
    /\ worker[w].pc = "target"
    /\ t \in Disabled[e]
    /\ filtered' = [filtered EXCEPT ![e] = @ \cup {t}]
    /\ NextTarget(w, FALSE)
    /\ UNCHANGED <<event, job, pusher, sends, lost, timeouts>>

\* provider.send to an enabled channel: a success, a failure, or a message that went
\* out and whose answer was lost; a missing provider is a failure. The intent and
\* delivery rows around it are read by nothing; a write of theirs that throws is a
\* PassThrows.
SendToTarget(w) ==
    LET e == worker[w].event t == worker[w].target IN
    /\ worker[w].pc = "target"
    /\ t \notin Disabled[e]
    /\ \/ /\ sends' = [sends EXCEPT ![e][t] = @ + 1]
          /\ NextTarget(w, FALSE) \/ NextTarget(w, TRUE)
       \/ /\ UNCHANGED sends
          /\ NextTarget(w, TRUE)
    /\ UNCHANGED <<event, job, pusher, filtered, lost, timeouts>>

\* The pass is over: the event is processed, or it failed and the handler throws.
FinishPass(w) ==
    LET e == worker[w].event IN
    /\ worker[w].pc = "finish"
    /\ IF worker[w].failures
       THEN /\ event' = [event EXCEPT ![e] = "failed"]
            /\ EndInFailure(w)
       ELSE /\ event' = [event EXCEPT ![e] = "processed"]
            /\ worker' = [worker EXCEPT ![w].pc = "next", ![w].event = NoEvent,
                                      ![w].target = 0]
            /\ UNCHANGED job
    /\ UNCHANGED <<pusher, sends, filtered, lost, timeouts>>

\* A statement of the pass throws: the event is marked failed, and the handler
\* throws.
PassThrows(w) ==
    /\ worker[w].pc \in {"target", "finish"}
    /\ event' = [event EXCEPT ![worker[w].event] = "failed"]
    /\ EndInFailure(w)
    /\ UNCHANGED <<pusher, sends, filtered, lost, timeouts>>

WorkerStep(w) ==
    \/ CompleteBatch(w)
    \/ ReadEvent(w)
    \/ StartPass(w)
    \/ FilterTarget(w)
    \/ SendToTarget(w)
    \/ FinishPass(w)
    \/ PassThrows(w)

Next ==
    \/ \E p \in Pushers :
          \/ \E e \in Events : LookUpEvent(p, e)
          \/ InsertEvent(p)
          \/ RefuseInsert(p)
          \/ SendJob(p)
          \/ MarkUnqueued(p)
          \/ PusherFails(p)
    \/ \E w \in Workers :
          \/ \E batch \in SUBSET Events : FetchBatch(w, batch)
          \/ WorkerStep(w)
          \/ Expire(w)
          \/ WorkerCrash(w)

Spec == Init /\ [][Next]_vars

\* Executions go on, and pg-boss polls: as long as jobs are due and an execution
\* is free, some batch is fetched in the end.
Poll == \E w \in Workers, batch \in SUBSET Events : FetchBatch(w, batch)

FairSpec == Spec /\ WF_vars(Poll) /\ \A w \in Workers : WF_vars(WorkerStep(w))

------------------------------------------------------------------------------
(* Properties                                                              *)

WorkerPCs == {"idle", "next", "start", "target", "finish"}

TypeOK ==
    /\ event \in [Events -> {"none", "queued", "processing", "processed", "failed"}]
    /\ job \in [Events -> [state : {"none", "created", "active", "completed", "dead"},
                           retries : 0..RetryLimit]]
    /\ pusher \in [Pushers -> [pc : {"idle", "insert", "send", "unqueued", "done"},
                               event : Events \cup {NoEvent}]]
    /\ worker \in [Workers -> [pc : WorkerPCs, batch : SUBSET Events, awaited : BOOLEAN,
                               rest : SUBSET Events, event : Events \cup {NoEvent},
                               target : Nat, failures : BOOLEAN]]
    /\ sends = [e \in Events |-> sends[e]] /\ filtered \in [Events -> SUBSET Nat]
    /\ \A e \in Events : sends[e] \in [Targets(e) -> Nat] /\ filtered[e] \subseteq Targets(e)
    /\ lost \subseteq Events
    /\ timeouts \in 0..MaxTimeouts

ReachedAll(e) == \A t \in Targets(e) : sends[e][t] > 0 \/ t \in filtered[e]

\* An event is shown as processed, and its job counts as complete, only when
\* every recipient was sent it on every channel that was enabled: no failed
\* target is forgotten because a later one, or another pass, succeeded.
DoneReachedAll ==
    \A e \in Events : event[e] = "processed" \/ job[e].state = "completed" => ReachedAll(e)

\* However often the key is pushed, batches are retried, executions overlap and
\* workers die, nobody is sent the same event more often than its one job may be
\* attempted.
SendsBounded ==
    \A e \in Events : \A t \in Targets(e) : sends[e][t] <= RetryLimit + 1

\* A stored event has a job that is pending, complete or given up, unless its
\* pusher failed between the two writes: nothing else loses one.
NeverForgotten ==
    \A e \in Events : event[e] # "none" =>
        \/ job[e].state # "none"
        \/ e \in lost
        \/ \E p \in Pushers : pusher[p] = [pc |-> "send", event |-> e]

\* Once an event is processed it stays so and no recipient is sent it again,
\* although its job is retried with the batch it was in. Two things undo it: an
\* execution that outlives its jobs, and a pusher whose job was stored and whose
\* acknowledgement was lost, which marks the event failed.
ProcessedIsFinal ==
    [][\A e \in Events : event[e] = "processed" /\ timeouts = 0 =>
          /\ sends'[e] = sends[e]
          /\ event'[e] = "processed" \/ \E p \in Pushers : MarkUnqueued(p)]_vars

\* No job stays pending: whatever throws, dies and expires, the queue is empty
\* again in the end, each job completed or given up.
JobsEnd == []<>(\A e \in Events : job[e].state \notin {"created", "active"})
==============================================================================
