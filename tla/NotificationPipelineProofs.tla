---------------------- MODULE NotificationPipelineProofs ----------------------
(***************************************************************************)
(* Proofs about NotificationPipeline, for any events and targets, any      *)
(* number of pushers and of executions, any retry limit and any number of  *)
(* executions that outlive their jobs.                                     *)
(***************************************************************************)
EXTENDS NotificationPipeline, FiniteSetTheorems, TLAPS

------------------------------------------------------------------------------
(* Type correctness.                                                       *)

InPass(w) == worker[w].pc \in {"start", "target", "finish"}

\* The events and targets that calls and executions are at.
Places ==
    /\ \A p \in Pushers : pusher[p].pc \in {"insert", "send", "unqueued"} => pusher[p].event \in Events
    /\ \A w \in Workers :
          /\ InPass(w) => worker[w].event \in Events
          /\ worker[w].pc = "target" => worker[w].target \in Targets(worker[w].event)
          /\ worker[w].pc = "finish" => worker[w].target = TargetCount[worker[w].event]

TypeInv == TypeOK /\ Places

JobState == [state : {"none", "created", "active", "completed", "dead"}, retries : 0..RetryLimit]
WorkerState == [pc : WorkerPCs, batch : SUBSET Events, awaited : BOOLEAN, rest : SUBSET Events,
                event : Events \cup {NoEvent}, target : Nat, failures : BOOLEAN]

LEMMA IdleTyped == Idle \in WorkerState /\ Idle.pc = "idle" /\ Idle.awaited = FALSE
BY DEF Idle, WorkerState, WorkerPCs

LEMMA TypeInit ==
    ASSUME PipelineAssumption, Init
    PROVE  TypeInv
<1>1. worker \in [Workers -> WorkerState] /\ \A w \in Workers : worker[w].pc = "idle"
  BY IdleTyped DEF Init
<1>2. sends = [e \in Events |-> sends[e]] /\ \A e \in Events : sends[e] \in [Targets(e) -> Nat]
  BY DEF Init
<1>3. TypeOK
  BY <1>1, <1>2 DEF PipelineAssumption, Init, TypeOK, WorkerState
<1> QED BY <1>1, <1>3 DEF TypeInv, Places, InPass, Init

LEMMA FailedTyped ==
    ASSUME PipelineAssumption, TypeOK, NEW batch \in SUBSET Events
    PROVE  Failed(batch) \in [Events -> JobState]
<1>1. ASSUME NEW e \in Events, job[e].retries < RetryLimit
      PROVE  [state |-> "created", retries |-> job[e].retries + 1] \in JobState
  BY <1>1 DEF PipelineAssumption, TypeOK, JobState
<1>2. \A e \in Events : job[e] \in JobState
  BY DEF TypeOK, JobState
<1>3. \A j \in JobState : [j EXCEPT !.state = "dead"] \in JobState
  BY DEF JobState
<1> QED BY <1>1, <1>2, <1>3 DEF Failed

\* What each step of an execution does to it.
Others(w) == \A v \in Workers \ {w} : worker'[v] = worker[v]
SameBatch(w) == /\ worker'[w].batch = worker[w].batch
                /\ worker'[w].awaited = worker[w].awaited
                /\ worker'[w].rest = worker[w].rest

LEMMA FetchBatchDoes ==
    ASSUME TypeOK, NEW w \in Workers, NEW batch \in SUBSET Events, FetchBatch(w, batch)
    PROVE  /\ Others(w) /\ worker' \in [Workers -> WorkerState]
           /\ worker'[w].pc = "next" /\ worker'[w].batch = batch /\ worker'[w].rest = batch
           /\ worker'[w].awaited = TRUE /\ worker'[w].event = NoEvent
<1> DEFINE x == [Idle EXCEPT !.pc = "next", !.batch = batch, !.awaited = TRUE, !.rest = batch]
<1>1. /\ x \in WorkerState /\ x.pc = "next" /\ x.batch = batch /\ x.rest = batch
      /\ x.awaited = TRUE /\ x.event = NoEvent
  BY DEF Idle, WorkerState, WorkerPCs
<1>2. worker' = [worker EXCEPT ![w] = x]
  BY DEF FetchBatch
<1>3. worker \in [Workers -> WorkerState]
  BY DEF TypeOK, WorkerState
<1> HIDE DEF x
<1> QED BY <1>1, <1>2, <1>3 DEF Others

LEMMA ReadEventDoes ==
    ASSUME TypeOK, NEW w \in Workers, ReadEvent(w)
    PROVE  /\ Others(w) /\ worker' \in [Workers -> WorkerState]
           /\ worker[w].pc = "next"
           /\ worker'[w].batch = worker[w].batch /\ worker'[w].awaited = worker[w].awaited
           /\ \E e \in worker[w].rest :
                 /\ e \in Events
                 /\ worker'[w].rest = worker[w].rest \ {e}
                 /\ \/ /\ event[e] = "processed"
                       /\ worker'[w].pc = "next" /\ worker'[w].event = NoEvent
                    \/ /\ event[e] # "processed"
                       /\ worker'[w].pc = "start" /\ worker'[w].event = e
<1>1. PICK e \in worker[w].rest :
          worker' = [worker EXCEPT
                        ![w].rest = @ \ {e},
                        ![w].event = IF event[e] = "processed" THEN NoEvent ELSE e,
                        ![w].pc = IF event[e] = "processed" THEN "next" ELSE "start"]
  BY DEF ReadEvent
<1> DEFINE x == [worker[w] EXCEPT !.rest = @ \ {e},
                                  !.event = IF event[e] = "processed" THEN NoEvent ELSE e,
                                  !.pc = IF event[e] = "processed" THEN "next" ELSE "start"]
<1>2. worker \in [Workers -> WorkerState] /\ worker[w] \in WorkerState /\ e \in Events
  BY DEF TypeOK, WorkerState
<1>3. worker' = [worker EXCEPT ![w] = x]
  BY <1>1
<1>4. x \in WorkerState /\ x.batch = worker[w].batch /\ x.awaited = worker[w].awaited
  BY <1>2 DEF WorkerState, WorkerPCs
<1>5. /\ x.rest = worker[w].rest \ {e}
      /\ event[e] = "processed" => x.pc = "next" /\ x.event = NoEvent
      /\ event[e] # "processed" => x.pc = "start" /\ x.event = e
  BY <1>2 DEF WorkerState
<1>6. worker[w].pc = "next"
  BY DEF ReadEvent
<1> HIDE DEF x
<1> QED BY <1>2, <1>3, <1>4, <1>5, <1>6 DEF Others

LEMMA StartPassDoes ==
    ASSUME TypeOK, NEW w \in Workers, StartPass(w)
    PROVE  /\ Others(w) /\ worker' \in [Workers -> WorkerState] /\ SameBatch(w)
           /\ worker[w].pc = "start" /\ worker'[w].pc = "target"
           /\ worker'[w].event = worker[w].event /\ worker'[w].target = 1
<1> DEFINE x == [worker[w] EXCEPT !.pc = "target", !.target = 1, !.failures = FALSE]
<1>1. worker \in [Workers -> WorkerState] /\ worker[w] \in WorkerState
  BY DEF TypeOK, WorkerState
<1>2. worker' = [worker EXCEPT ![w] = x] /\ worker[w].pc = "start"
  BY DEF StartPass
<1>3. /\ x \in WorkerState /\ x.pc = "target" /\ x.event = worker[w].event /\ x.target = 1
      /\ x.batch = worker[w].batch /\ x.awaited = worker[w].awaited /\ x.rest = worker[w].rest
  BY <1>1 DEF WorkerState, WorkerPCs
<1> HIDE DEF x
<1> QED BY <1>1, <1>2, <1>3 DEF Others, SameBatch

LEMMA NextTargetDoes ==
    ASSUME TypeOK, NEW w \in Workers, NEW failed \in BOOLEAN, NextTarget(w, failed)
    PROVE  /\ Others(w) /\ worker' \in [Workers -> WorkerState] /\ SameBatch(w)
           /\ worker'[w].event = worker[w].event
           /\ IF worker[w].target = TargetCount[worker[w].event]
              THEN worker'[w].pc = "finish" /\ worker'[w].target = worker[w].target
              ELSE worker'[w].pc = "target" /\ worker'[w].target = worker[w].target + 1
           /\ ~worker'[w].failures => ~worker[w].failures /\ ~failed
<1> DEFINE last == worker[w].target = TargetCount[worker[w].event]
           x == [worker[w] EXCEPT !.pc = IF last THEN "finish" ELSE "target",
                                  !.target = IF last THEN @ ELSE @ + 1,
                                  !.failures = @ \/ failed]
<1>1. worker \in [Workers -> WorkerState] /\ worker[w] \in WorkerState
  BY DEF TypeOK, WorkerState
<1>2. worker' = [worker EXCEPT ![w] = x]
  BY DEF NextTarget
<1>3. x.failures = (worker[w].failures \/ failed)
  BY <1>1 DEF WorkerState
<1>a. (worker[w].failures \/ failed) \in BOOLEAN
  OBVIOUS
<1>b. (IF last THEN worker[w].target ELSE worker[w].target + 1) \in Nat
  BY <1>1 DEF WorkerState
<1>c. (IF last THEN "finish" ELSE "target") \in WorkerPCs
  BY DEF WorkerPCs
<1>4. x \in WorkerState
  BY <1>1, <1>a, <1>b, <1>c DEF WorkerState
<1>d. /\ x.event = worker[w].event
      /\ x.batch = worker[w].batch /\ x.awaited = worker[w].awaited /\ x.rest = worker[w].rest
      /\ last => x.pc = "finish" /\ x.target = worker[w].target
      /\ ~last => x.pc = "target" /\ x.target = worker[w].target + 1
  BY <1>1 DEF WorkerState
<1>5. ~x.failures => ~worker[w].failures /\ ~failed
  BY <1>3
<1> HIDE DEF x
<1>6. worker'[w] = x
  BY <1>1, <1>2
<1> QED BY <1>1, <1>2, <1>4, <1>d, <1>5, <1>6 DEF Others, SameBatch

LEMMA FinishPassDoes ==
    ASSUME TypeOK, NEW w \in Workers, FinishPass(w)
    PROVE  /\ worker[w].pc = "finish"
           /\ \/ worker[w].failures /\ EndInFailure(w)
                 /\ event' = [event EXCEPT ![worker[w].event] = "failed"]
              \/ /\ ~worker[w].failures /\ job' = job
                 /\ event' = [event EXCEPT ![worker[w].event] = "processed"]
                 /\ Others(w) /\ worker' \in [Workers -> WorkerState] /\ SameBatch(w)
                 /\ worker'[w].pc = "next" /\ worker'[w].event = NoEvent
<1> DEFINE x == [worker[w] EXCEPT !.pc = "next", !.event = NoEvent, !.target = 0]
<1>1. worker \in [Workers -> WorkerState] /\ worker[w] \in WorkerState
  BY DEF TypeOK, WorkerState
<1>2. /\ x \in WorkerState /\ x.pc = "next" /\ x.event = NoEvent
      /\ x.batch = worker[w].batch /\ x.awaited = worker[w].awaited /\ x.rest = worker[w].rest
  BY <1>1 DEF WorkerState, WorkerPCs
<1>3. worker[w].pc = "finish"
  BY DEF FinishPass
<1>4. CASE worker[w].failures
  BY <1>3, <1>4 DEF FinishPass
<1>5. CASE ~worker[w].failures
  <2>1. worker' = [worker EXCEPT ![w] = x] /\ job' = job
        /\ event' = [event EXCEPT ![worker[w].event] = "processed"]
    BY <1>5 DEF FinishPass
  <2> HIDE DEF x
  <2> QED BY <1>1, <1>2, <1>3, <1>5, <2>1 DEF Others, SameBatch
<1> QED BY <1>4, <1>5

LEMMA ExpireDoes ==
    ASSUME TypeOK, NEW w \in Workers, Expire(w)
    PROVE  /\ Others(w) /\ worker' \in [Workers -> WorkerState]
           /\ worker'[w].awaited = FALSE /\ worker[w].awaited
           /\ worker'[w].pc = worker[w].pc /\ worker'[w].batch = worker[w].batch
           /\ worker'[w].rest = worker[w].rest /\ worker'[w].event = worker[w].event
           /\ worker'[w].target = worker[w].target /\ worker'[w].failures = worker[w].failures
<1> DEFINE x == [worker[w] EXCEPT !.awaited = FALSE]
<1>1. worker \in [Workers -> WorkerState] /\ worker[w] \in WorkerState
  BY DEF TypeOK, WorkerState
<1>2. worker' = [worker EXCEPT ![w] = x] /\ worker[w].awaited
  BY DEF Expire
<1>3. /\ x \in WorkerState /\ x.awaited = FALSE /\ x.pc = worker[w].pc
      /\ x.batch = worker[w].batch /\ x.rest = worker[w].rest
      /\ x.event = worker[w].event /\ x.target = worker[w].target
      /\ x.failures = worker[w].failures
  BY <1>1 DEF WorkerState
<1> HIDE DEF x
<1> QED BY <1>1, <1>2, <1>3 DEF Others

LEMMA EndDoes ==
    ASSUME TypeOK, NEW w \in Workers, EndInFailure(w) \/ CompleteBatch(w)
    PROVE  /\ Others(w) /\ worker' \in [Workers -> WorkerState] /\ worker'[w] = Idle
           /\ worker'[w].pc = "idle" /\ worker'[w].awaited = FALSE
<1>1. worker \in [Workers -> WorkerState]
  BY DEF TypeOK, WorkerState
<1> QED BY <1>1, IdleTyped DEF EndInFailure, CompleteBatch, Others

LEMMA SendToTargetDoes ==
    ASSUME PipelineAssumption, TypeInv, NEW w \in Workers, SendToTarget(w)
    PROVE  LET e == worker[w].event t == worker[w].target IN
           /\ worker[w].pc = "target" /\ e \in Events /\ t \in Targets(e)
           /\ \/ /\ sends' = [sends EXCEPT ![e][t] = @ + 1]
                 /\ sends'[e] \in [Targets(e) -> Nat] /\ sends'[e][t] = sends[e][t] + 1
                 /\ \A u \in Targets(e) \ {t} : sends'[e][u] = sends[e][u]
                 /\ \A d \in Events \ {e} : sends'[d] = sends[d]
                 /\ sends' = [d \in Events |-> sends'[d]]
                 /\ NextTarget(w, FALSE) \/ NextTarget(w, TRUE)
              \/ sends' = sends /\ NextTarget(w, TRUE)
<1> DEFINE e == worker[w].event
           t == worker[w].target
<1>1. worker[w].pc = "target" /\ e \in Events /\ t \in Targets(e)
  BY DEF SendToTarget, TypeInv, Places, InPass
<1>2. sends = [d \in Events |-> sends[d]] /\ sends[e] \in [Targets(e) -> Nat]
  BY <1>1 DEF TypeInv, TypeOK
<1>3. CASE sends' = sends
  BY <1>1, <1>2, <1>3 DEF SendToTarget
<1>4. CASE sends' # sends
  <2>1. sends' = [sends EXCEPT ![e][t] = @ + 1] /\ (NextTarget(w, FALSE) \/ NextTarget(w, TRUE))
    BY <1>4 DEF SendToTarget
  <2>2. /\ sends'[e] = [sends[e] EXCEPT ![t] = @ + 1]
        /\ \A d \in Events \ {e} : sends'[d] = sends[d]
        /\ sends' = [d \in Events |-> sends'[d]]
    BY <1>1, <1>2, <2>1
  <2>3. sends'[e] \in [Targets(e) -> Nat] /\ sends'[e][t] = sends[e][t] + 1
        /\ \A u \in Targets(e) \ {t} : sends'[e][u] = sends[e][u]
    BY <1>1, <1>2, <2>2
  <2> QED BY <1>1, <2>1, <2>2, <2>3
<1> QED BY <1>3, <1>4

LEMMA PusherSteps ==
    ASSUME TypeInv, NEW p \in Pushers
    PROVE  /\ \A e \in Events : LookUpEvent(p, e) =>
                  /\ pusher' = [pusher EXCEPT ![p] = pusher'[p]]
                  /\ \/ event[e] = "none" /\ pusher'[p] = [pc |-> "insert", event |-> e]
                     \/ pusher'[p] = [pc |-> "done", event |-> NoEvent]
           /\ InsertEvent(p) =>
                  /\ pusher' = [pusher EXCEPT ![p] = pusher'[p]]
                  /\ pusher'[p] = [pc |-> "send", event |-> pusher[p].event]
                  /\ pusher[p].event \in Events
           /\ SendJob(p) =>
                  /\ pusher' = [pusher EXCEPT ![p] = pusher'[p]]
                  /\ \/ pusher'[p] = [pc |-> "unqueued", event |-> pusher[p].event]
                     \/ pusher'[p] = [pc |-> "done", event |-> NoEvent]
                  /\ pusher[p].event \in Events
           /\ RefuseInsert(p) \/ MarkUnqueued(p) \/ PusherFails(p) =>
                  /\ pusher' = [pusher EXCEPT ![p] = pusher'[p]]
                  /\ pusher'[p] = [pc |-> "done", event |-> NoEvent]
                  /\ pusher[p].event \in Events
BY DEF TypeInv, TypeOK, Places, LookUpEvent, InsertEvent, SendJob, RefuseInsert, MarkUnqueued,
       PusherFails, PusherReturns, PusherGoto

LEMMA TypeNext ==
    ASSUME PipelineAssumption, TypeInv, [Next]_vars
    PROVE  TypeInv'
<1>0. TypeOK /\ worker \in [Workers -> WorkerState]
  BY DEF TypeInv, TypeOK, WorkerState
<1>j. \A batch \in SUBSET Events : Failed(batch) \in [Events -> JobState]
  BY <1>0, FailedTyped
<1>k. \A e \in Events, c \in {"active", "completed"} : [job[e] EXCEPT !.state = c] \in JobState
  BY <1>0 DEF TypeOK, JobState
<1>l. job \in [Events -> JobState]
  BY <1>0 DEF TypeOK, JobState
<1>a. ASSUME NEW w \in Workers, Others(w), worker' \in [Workers -> WorkerState],
             pusher' = pusher,
             InPass(w)' => worker'[w].event \in Events,
             worker'[w].pc = "target" => worker'[w].target \in Targets(worker'[w].event),
             worker'[w].pc = "finish" => worker'[w].target = TargetCount[worker'[w].event]
      PROVE  Places'
  BY <1>a DEF TypeInv, Places, InPass, Others
<1>e. ASSUME NEW w \in Workers, EndInFailure(w), pusher' = pusher
      PROVE  /\ Places' /\ worker' \in [Workers -> WorkerState]
             /\ job' \in [Events -> JobState]
  <2>1. Others(w) /\ worker' \in [Workers -> WorkerState] /\ worker'[w].pc = "idle"
    BY <1>0, <1>e, EndDoes
  <2>2. Places'
    BY <1>a, <1>e, <2>1 DEF InPass
  <2>3. worker[w].batch \in SUBSET Events
    BY <1>0 DEF WorkerState
  <2>4. job' \in [Events -> JobState]
    BY <1>e, <1>j, <1>l, <2>3 DEF EndInFailure
  <2> QED BY <2>1, <2>2, <2>4
<1>p. ASSUME NEW p \in Pushers, pusher' = [pusher EXCEPT ![p] = pusher'[p]], worker' = worker,
             NEW e \in Events,
             pusher'[p] \in {[pc |-> "insert", event |-> e], [pc |-> "send", event |-> e],
                             [pc |-> "unqueued", event |-> e], [pc |-> "done", event |-> NoEvent]}
      PROVE  /\ Places'
             /\ pusher' \in [Pushers -> [pc : {"idle", "insert", "send", "unqueued", "done"},
                                         event : Events \cup {NoEvent}]]
  <2> DEFINE States == [pc : {"idle", "insert", "send", "unqueued", "done"},
                        event : Events \cup {NoEvent}]
  <2>1. pusher'[p] \in States
    BY <1>p
  <2>2. pusher \in [Pushers -> States]
    BY <1>0 DEF TypeOK
  <2>3. pusher' \in [Pushers -> States] /\ \A q \in Pushers \ {p} : pusher'[q] = pusher[q]
    BY <1>p, <2>1, <2>2
  <2>4. pusher'[p].pc \in {"insert", "send", "unqueued"} => pusher'[p].event \in Events
    BY <1>p
  <2>5. Places'
    BY <1>p, <2>3, <2>4 DEF TypeInv, Places, InPass
  <2> QED BY <2>3, <2>5
<1>1. ASSUME NEW p \in Pushers, NEW e \in Events, LookUpEvent(p, e)
      PROVE  TypeInv'
  <2>1. /\ pusher' = [pusher EXCEPT ![p] = pusher'[p]]
        /\ pusher'[p] \in {[pc |-> "insert", event |-> e], [pc |-> "done", event |-> NoEvent]}
    BY <1>1, PusherSteps
  <2>2. UNCHANGED <<event, job, worker, sends, filtered, lost, timeouts>>
    BY <1>1 DEF LookUpEvent
  <2> QED BY <1>0, <1>p, <2>1, <2>2 DEF TypeInv, TypeOK
<1>2. ASSUME NEW p \in Pushers, InsertEvent(p)
      PROVE  TypeInv'
  <2>1. /\ pusher' = [pusher EXCEPT ![p] = pusher'[p]] /\ pusher[p].event \in Events
        /\ pusher'[p] = [pc |-> "send", event |-> pusher[p].event]
    BY <1>2, PusherSteps
  <2>2. UNCHANGED <<job, worker, sends, filtered, lost, timeouts>>
    BY <1>2 DEF InsertEvent
  <2>3. event' \in [Events -> {"none", "queued", "processing", "processed", "failed"}]
    BY <1>0, <1>2 DEF InsertEvent, TypeOK
  <2> QED BY <1>0, <1>p, <2>1, <2>2, <2>3 DEF TypeInv, TypeOK
<1>3. ASSUME NEW p \in Pushers, RefuseInsert(p) \/ PusherFails(p) \/ MarkUnqueued(p)
      PROVE  TypeInv'
  <2>1. /\ pusher' = [pusher EXCEPT ![p] = pusher'[p]] /\ pusher[p].event \in Events
        /\ pusher'[p] = [pc |-> "done", event |-> NoEvent]
    BY <1>3, PusherSteps
  <2>2. worker' = worker /\ job' = job /\ sends' = sends /\ filtered' = filtered
        /\ timeouts' = timeouts
    BY <1>3 DEF RefuseInsert, PusherFails, MarkUnqueued
  <2>3. lost' \subseteq Events
    BY <1>0, <1>3, <2>1 DEF RefuseInsert, PusherFails, MarkUnqueued, TypeOK
  <2>4. event' \in [Events -> {"none", "queued", "processing", "processed", "failed"}]
    BY <1>0, <1>3 DEF RefuseInsert, PusherFails, MarkUnqueued, TypeOK
  <2> QED BY <1>0, <1>p, <2>1, <2>2, <2>3, <2>4 DEF TypeInv, TypeOK
<1>4. ASSUME NEW p \in Pushers, SendJob(p)
      PROVE  TypeInv'
  <2>1. /\ pusher' = [pusher EXCEPT ![p] = pusher'[p]] /\ pusher[p].event \in Events
        /\ \/ pusher'[p] = [pc |-> "unqueued", event |-> pusher[p].event]
           \/ pusher'[p] = [pc |-> "done", event |-> NoEvent]
    BY <1>4, PusherSteps
  <2>2. worker' = worker /\ event' = event /\ sends' = sends /\ filtered' = filtered
        /\ timeouts' = timeouts
    BY <1>4 DEF SendJob
  <2>3. [state |-> "created", retries |-> 0] \in JobState
    BY DEF JobState, PipelineAssumption
  <2>4. job' \in [Events -> JobState] /\ lost' \subseteq Events
    BY <1>0, <1>l, <1>4, <2>1, <2>3 DEF SendJob, TypeOK
  <2> QED BY <1>0, <1>p, <2>1, <2>2, <2>4 DEF TypeInv, TypeOK, JobState
<1>5. ASSUME NEW w \in Workers, NEW batch \in SUBSET Events, FetchBatch(w, batch)
      PROVE  TypeInv'
  <2>1. Others(w) /\ worker' \in [Workers -> WorkerState] /\ worker'[w].pc = "next"
    BY <1>0, <1>5, FetchBatchDoes
  <2>2. Places'
    BY <1>a, <1>5, <2>1 DEF FetchBatch, InPass
  <2>3. job' \in [Events -> JobState]
    BY <1>k, <1>l, <1>5 DEF FetchBatch
  <2> QED BY <1>0, <1>5, <2>1, <2>2, <2>3 DEF FetchBatch, TypeInv, TypeOK, JobState, WorkerState
<1>6. ASSUME NEW w \in Workers, CompleteBatch(w)
      PROVE  TypeInv'
  <2>1. Others(w) /\ worker' \in [Workers -> WorkerState] /\ worker'[w].pc = "idle"
    BY <1>0, <1>6, EndDoes
  <2>2. Places'
    BY <1>a, <1>6, <2>1 DEF CompleteBatch, InPass
  <2>3. job' \in [Events -> JobState]
    BY <1>k, <1>l, <1>6 DEF CompleteBatch
  <2> QED BY <1>0, <1>6, <2>1, <2>2, <2>3 DEF CompleteBatch, TypeInv, TypeOK, JobState, WorkerState
<1>7. ASSUME NEW w \in Workers, Expire(w)
      PROVE  TypeInv'
  <2>1. /\ Others(w) /\ worker' \in [Workers -> WorkerState]
        /\ worker'[w].pc = worker[w].pc /\ worker'[w].event = worker[w].event
        /\ worker'[w].target = worker[w].target
    BY <1>0, <1>7, ExpireDoes
  <2>2. Places'
    BY <1>7, <2>1 DEF Expire, TypeInv, Places, InPass, Others
  <2>3. job' \in [Events -> JobState]
    BY <1>0, <1>j, <1>7 DEF Expire, WorkerState
  <2>4. timeouts' \in 0..MaxTimeouts
    BY <1>0, <1>7 DEF Expire, TypeOK, PipelineAssumption
  <2> QED BY <1>0, <1>7, <2>1, <2>2, <2>3, <2>4 DEF Expire, TypeInv, TypeOK, JobState, WorkerState
<1>8. ASSUME NEW w \in Workers, WorkerCrash(w)
      PROVE  TypeInv'
  BY <1>0, <1>e, <1>8 DEF WorkerCrash, TypeInv, TypeOK, JobState, WorkerState
<1>9. ASSUME NEW w \in Workers, ReadEvent(w)
      PROVE  TypeInv'
  <2>1. /\ Others(w) /\ worker' \in [Workers -> WorkerState] /\ worker'[w].pc \in {"next", "start"}
        /\ worker'[w].pc = "start" => worker'[w].event \in Events
    BY <1>0, <1>9, ReadEventDoes
  <2>2. UNCHANGED <<event, job, pusher, sends, filtered, lost, timeouts>>
    BY <1>9 DEF ReadEvent
  <2>3. Places'
    BY <1>a, <2>1, <2>2 DEF InPass
  <2> QED BY <1>0, <2>1, <2>2, <2>3 DEF TypeInv, TypeOK, WorkerState
<1>10. ASSUME NEW w \in Workers, StartPass(w)
       PROVE  TypeInv'
  <2>1. /\ Others(w) /\ worker' \in [Workers -> WorkerState] /\ worker'[w].pc = "target"
        /\ worker'[w].event = worker[w].event /\ worker'[w].target = 1 /\ worker[w].pc = "start"
    BY <1>0, <1>10, StartPassDoes
  <2>2. worker[w].event \in Events /\ 1 \in Targets(worker[w].event)
    BY <2>1 DEF TypeInv, Places, InPass, Targets, PipelineAssumption
  <2>3. Places'
    BY <1>a, <1>10, <2>1, <2>2 DEF StartPass
  <2> QED BY <1>0, <1>10, <2>1, <2>3 DEF StartPass, TypeInv, TypeOK, WorkerState
<1>n. ASSUME NEW w \in Workers, NEW failed \in BOOLEAN, worker[w].pc = "target",
             NextTarget(w, failed), pusher' = pusher
      PROVE  Places' /\ worker' \in [Workers -> WorkerState]
  <2>1. /\ Others(w) /\ worker' \in [Workers -> WorkerState] /\ worker'[w].event = worker[w].event
        /\ IF worker[w].target = TargetCount[worker[w].event]
           THEN worker'[w].pc = "finish" /\ worker'[w].target = worker[w].target
           ELSE worker'[w].pc = "target" /\ worker'[w].target = worker[w].target + 1
    BY <1>0, <1>n, NextTargetDoes
  <2>2. worker[w].event \in Events /\ worker[w].target \in Targets(worker[w].event)
        /\ TargetCount[worker[w].event] \in Nat
    BY <1>n DEF TypeInv, Places, InPass, PipelineAssumption
  <2>3. Places'
    BY <1>a, <1>n, <2>1, <2>2 DEF Targets
  <2> QED BY <2>1, <2>3
<1>11. ASSUME NEW w \in Workers, FilterTarget(w)
       PROVE  TypeInv'
  <2> DEFINE e == worker[w].event
             t == worker[w].target
  <2>1. Places' /\ worker' \in [Workers -> WorkerState]
    BY <1>11, <1>n DEF FilterTarget
  <2>2. e \in Events /\ t \in Targets(e) /\ filtered' = [filtered EXCEPT ![e] = @ \cup {t}]
    BY <1>11 DEF FilterTarget, TypeInv, Places, InPass
  <2>3. /\ filtered' \in [Events -> SUBSET Nat]
        /\ \A d \in Events : filtered'[d] \subseteq Targets(d)
    BY <1>0, <2>2 DEF TypeOK, Targets, PipelineAssumption
  <2> QED BY <1>0, <1>11, <2>1, <2>3 DEF FilterTarget, TypeInv, TypeOK, WorkerState
<1>12. ASSUME NEW w \in Workers, SendToTarget(w)
       PROVE  TypeInv'
  <2>1. Places' /\ worker' \in [Workers -> WorkerState]
    BY <1>12, <1>n DEF SendToTarget
  <2>2. sends' = [d \in Events |-> sends'[d]] /\ \A d \in Events : sends'[d] \in [Targets(d) -> Nat]
    <3>1. CASE sends' = sends
      BY <1>0, <3>1 DEF TypeOK
    <3>2. CASE sends' # sends
      <4>1. /\ sends' = [d \in Events |-> sends'[d]]
            /\ sends'[worker[w].event] \in [Targets(worker[w].event) -> Nat]
            /\ \A d \in Events \ {worker[w].event} : sends'[d] = sends[d]
        BY <1>12, <3>2, SendToTargetDoes
      <4>2. \A d \in Events : sends[d] \in [Targets(d) -> Nat]
        BY <1>0 DEF TypeOK
      <4> QED BY <4>1, <4>2
    <3> QED BY <3>1, <3>2
  <2>3. UNCHANGED <<event, job, pusher, filtered, lost, timeouts>>
    BY <1>12 DEF SendToTarget
  <2> QED BY <1>0, <2>1, <2>2, <2>3 DEF TypeInv, TypeOK, WorkerState
<1>13. ASSUME NEW w \in Workers, FinishPass(w)
       PROVE  TypeInv'
  <2>1. /\ UNCHANGED <<pusher, sends, filtered, lost, timeouts>>
        /\ event' \in [Events -> {"none", "queued", "processing", "processed", "failed"}]
    BY <1>0, <1>13 DEF FinishPass, TypeOK
  <2>2. CASE worker[w].failures
    BY <1>0, <1>13, <1>e, <2>1, <2>2 DEF FinishPass, TypeInv, TypeOK, JobState, WorkerState
  <2>3. CASE ~worker[w].failures
    <3>1. Others(w) /\ worker' \in [Workers -> WorkerState] /\ worker'[w].pc = "next" /\ job' = job
      BY <1>0, <1>13, <2>3, FinishPassDoes
    <3>2. Places'
      BY <1>a, <2>1, <3>1 DEF InPass
    <3> QED BY <1>0, <2>1, <3>1, <3>2 DEF TypeInv, TypeOK, WorkerState
  <2> QED BY <2>2, <2>3
<1>14. ASSUME NEW w \in Workers, PassThrows(w)
       PROVE  TypeInv'
  BY <1>0, <1>e, <1>14 DEF PassThrows, TypeInv, TypeOK, JobState, WorkerState
<1>15. ASSUME UNCHANGED vars
       PROVE  TypeInv'
  BY <1>15 DEF vars, TypeInv, TypeOK, Places, InPass
<1> QED
  BY <1>1, <1>2, <1>3, <1>4, <1>5, <1>6, <1>7, <1>8, <1>9, <1>10, <1>11, <1>12, <1>13, <1>14, <1>15
     DEF Next, WorkerStep

\* Rows, jobs, calls and executions keep their types.
THEOREM TypeCorrect == ASSUME PipelineAssumption PROVE Spec => []TypeOK
<1>1. Init => TypeInv
  BY TypeInit
<1>2. TypeInv /\ [Next]_vars => TypeInv'
  BY TypeNext
<1>3. TypeInv => TypeOK
  BY DEF TypeInv
<1> QED BY <1>1, <1>2, <1>3, PTL DEF Spec

------------------------------------------------------------------------------
(* The queue: every stored event has its one job, every job its execution.  *)

\* One pusher sends the job of an event, after its insert.
PushersTell ==
    /\ \A p \in Pushers :
          LET e == pusher[p].event IN
          /\ pusher[p].pc = "send" => event[e] # "none" /\ job[e].state = "none"
          /\ pusher[p].pc = "unqueued" => event[e] # "none"
    /\ \A p, q \in Pushers :
          (pusher[p].pc = "send" /\ pusher[q].pc = "send" /\ pusher[p].event = pusher[q].event)
              => p = q
    /\ \A e \in Events : event[e] = "none" => job[e].state = "none"

\* The jobs of a batch were fetched, and are active as long as pg-boss waits for the
\* execution; an execution for which it does not wait any more has timed out.
BatchTells(w) ==
    LET x == worker[w] IN
    /\ x.pc = "idle" => ~x.awaited
    /\ x.rest \subseteq x.batch
    /\ InPass(w) => x.event \in x.batch \ x.rest
    /\ x.pc # "idle" => \A e \in x.batch : job[e].state # "none"
    /\ x.awaited => \A e \in x.batch : job[e].state = "active"
    /\ timeouts = 0 /\ x.pc # "idle" => x.awaited

BatchesDisjoint ==
    \A v, w \in Workers :
        v # w /\ worker[v].awaited /\ worker[w].awaited => worker[v].batch \cap worker[w].batch = {}

QueueInv ==
    /\ TypeInv
    /\ PushersTell
    /\ \A w \in Workers : BatchTells(w)
    /\ BatchesDisjoint
    /\ NeverForgotten

\* How often the job of an event was fetched.
Attempts(e) ==
    IF job[e].state = "none" THEN 0
    ELSE IF job[e].state = "created" THEN job[e].retries ELSE job[e].retries + 1

LEMMA AttemptsBounded ==
    ASSUME PipelineAssumption, TypeOK, NEW e \in Events
    PROVE  Attempts(e) \in 0..(RetryLimit + 1)
BY DEF PipelineAssumption, TypeOK, Attempts

\* What the steps of an execution do to the jobs.
LEMMA JobsDo ==
    ASSUME PipelineAssumption, TypeOK, NEW w \in Workers, BatchTells(w)
    PROVE  /\ EndInFailure(w) \/ CompleteBatch(w) \/ Expire(w) =>
                  /\ \A e \in Events : worker[w].awaited /\ e \in worker[w].batch =>
                        /\ job'[e].state \in {"created", "dead", "completed"}
                        /\ Attempts(e)' = Attempts(e)
                  /\ \A e \in Events : ~(worker[w].awaited /\ e \in worker[w].batch) =>
                        job'[e] = job[e]
           /\ \A batch \in SUBSET Events : FetchBatch(w, batch) =>
                  \A e \in Events :
                     IF e \in batch
                     THEN /\ job[e].state = "created" /\ job'[e].state = "active"
                          /\ Attempts(e)' = Attempts(e) + 1
                     ELSE job'[e] = job[e]
<1>1. \A e \in Events : job[e] \in JobState
  BY DEF TypeOK, JobState
<1>2. worker[w].awaited => \A e \in worker[w].batch : job[e].state = "active"
  BY DEF BatchTells
<1>3. ASSUME NEW batch \in SUBSET Events, NEW e \in Events, job' = Failed(batch)
      PROVE  /\ e \notin batch => job'[e] = job[e]
             /\ e \in batch /\ job[e].state = "active" =>
                   job'[e].state \in {"created", "dead"} /\ Attempts(e)' = Attempts(e)
  <2>1. job'[e] = IF e \notin batch THEN job[e]
                  ELSE IF job[e].retries < RetryLimit
                       THEN [state |-> "created", retries |-> job[e].retries + 1]
                       ELSE [job[e] EXCEPT !.state = "dead"]
    BY <1>3 DEF Failed
  <2> QED BY <1>1, <2>1 DEF JobState, Attempts
<1>4. worker[w].batch \in SUBSET Events
  BY DEF TypeOK
<1>5. ASSUME EndInFailure(w) \/ Expire(w)
      PROVE  job' = IF worker[w].awaited THEN Failed(worker[w].batch) ELSE job
  BY <1>5 DEF EndInFailure, Expire
<1>6. ASSUME CompleteBatch(w), NEW e \in Events
      PROVE  IF worker[w].awaited /\ e \in worker[w].batch
             THEN job'[e].state = "completed" /\ Attempts(e)' = Attempts(e)
             ELSE job'[e] = job[e]
  <2>1. job'[e] = IF worker[w].awaited /\ e \in worker[w].batch
                  THEN [job[e] EXCEPT !.state = "completed"] ELSE job[e]
    BY <1>6 DEF CompleteBatch
  <2> QED BY <1>1, <1>2, <2>1 DEF JobState, Attempts
<1>7. ASSUME NEW batch \in SUBSET Events, FetchBatch(w, batch), NEW e \in Events
      PROVE  IF e \in batch
             THEN /\ job[e].state = "created" /\ job'[e].state = "active"
                  /\ Attempts(e)' = Attempts(e) + 1
             ELSE job'[e] = job[e]
  <2>1. job'[e] = IF e \in batch THEN [job[e] EXCEPT !.state = "active"] ELSE job[e]
    BY <1>7 DEF FetchBatch
  <2>2. e \in batch => job[e].state = "created"
    BY <1>7 DEF FetchBatch
  <2> QED BY <1>1, <2>1, <2>2 DEF JobState, Attempts
<1> QED BY <1>2, <1>3, <1>4, <1>5, <1>6, <1>7

LEMMA QueueInit ==
    ASSUME PipelineAssumption, Init
    PROVE  QueueInv
<1>1. TypeInv
  BY TypeInit
<1>2. \A w \in Workers : worker[w] = Idle
  BY DEF Init
<1>3. \A w \in Workers : BatchTells(w)
  BY <1>2 DEF BatchTells, Idle, InPass
<1>4. BatchesDisjoint
  BY <1>2 DEF BatchesDisjoint, Idle
<1> QED BY <1>1, <1>3, <1>4 DEF QueueInv, Init, PushersTell, NeverForgotten

\* A step of one execution that changes only its own jobs, or fetches jobs that are
\* due, and changes the status of stored events only.
LEMMA QueueFrame ==
    ASSUME PipelineAssumption, QueueInv, TypeInv', NEW w \in Workers, Others(w), BatchTells(w)',
           pusher' = pusher, lost' = lost, timeouts' = timeouts \/ timeouts' # 0,
           \A e \in Events :
               \/ job'[e] = job[e]
               \/ worker[w].awaited /\ e \in worker[w].batch /\ job'[e].state # "none"
               \/ job[e].state = "created" /\ job'[e].state = "active",
           \A e \in Events :
               event'[e] = event[e] \/ (event[e] # "none" /\ event'[e] # "none"),
           worker'[w].awaited =>
               \/ worker[w].awaited /\ worker'[w].batch = worker[w].batch
               \/ \A e \in worker'[w].batch : job[e].state = "created"
    PROVE  QueueInv'
<1>0. /\ TypeOK /\ TypeOK'
      /\ \A v \in Workers : worker[v].batch \subseteq Events /\ worker'[v].batch \subseteq Events
  BY DEF QueueInv, TypeInv, TypeOK
<1>1. \A e \in Events : job[e].state # "none" <=> job'[e].state # "none"
  <2> SUFFICES ASSUME NEW e \in Events
               PROVE  job[e].state # "none" <=> job'[e].state # "none"
    OBVIOUS
  <2>1. worker[w].awaited /\ e \in worker[w].batch => job[e].state = "active"
    BY DEF QueueInv, BatchTells
  <2> QED BY <2>1
<1>2. PushersTell'
  <2>1. \A p \in Pushers : pusher[p].pc \in {"send", "unqueued"} => pusher[p].event \in Events
    BY DEF QueueInv, TypeInv, Places
  <2> QED BY <1>1, <2>1 DEF QueueInv, PushersTell
<1>3. ASSUME NEW v \in Workers
      PROVE  BatchTells(v)'
  <2>1. CASE v = w
    BY <2>1
  <2>2. CASE v # w
    <3>1. worker'[v] = worker[v] /\ BatchTells(v) /\ worker[v].batch \subseteq Events
      BY <1>0, <2>2 DEF Others, QueueInv
    <3>2. \A e \in worker[v].batch : worker[v].awaited => job'[e] = job[e]
      <4> SUFFICES ASSUME NEW e \in worker[v].batch, worker[v].awaited
                   PROVE  job'[e] = job[e]
        OBVIOUS
      <4>1. e \in Events /\ job[e].state = "active"
        BY <3>1 DEF BatchTells
      <4>2. ~(worker[w].awaited /\ e \in worker[w].batch)
        BY <2>2 DEF QueueInv, BatchesDisjoint
      <4> QED BY <4>1, <4>2
    <3>3. \A e \in worker[v].batch : job[e].state # "none" => job'[e].state # "none"
      BY <1>1, <3>1
    <3> QED BY <3>1, <3>2, <3>3 DEF BatchTells, InPass
  <2> QED BY <2>1, <2>2
<1>4. BatchesDisjoint'
  <2> SUFFICES ASSUME NEW u \in Workers, NEW v \in Workers, u # v,
                      worker'[u].awaited, worker'[v].awaited
               PROVE  worker'[u].batch \cap worker'[v].batch = {}
    BY DEF BatchesDisjoint
  <2>1. ASSUME NEW x \in Workers \ {w}, worker'[w].awaited, worker'[x].awaited
        PROVE  worker'[w].batch \cap worker'[x].batch = {}
    <3>1. worker'[x] = worker[x]
      BY <2>1 DEF Others
    <3>2. \A e \in worker[x].batch : job[e].state = "active"
      BY <2>1, <3>1 DEF QueueInv, BatchTells
    <3>3. CASE worker[w].awaited /\ worker'[w].batch = worker[w].batch
      BY <2>1, <3>1, <3>3 DEF QueueInv, BatchesDisjoint
    <3>4. CASE \A e \in worker'[w].batch : job[e].state = "created"
      BY <3>1, <3>2, <3>4
    <3> QED BY <2>1, <3>3, <3>4
  <2>2. CASE u = w
    BY <2>1, <2>2
  <2>3. CASE v = w
    BY <2>1, <2>3
  <2>4. CASE u # w /\ v # w
    BY <2>4 DEF Others, QueueInv, BatchesDisjoint
  <2> QED BY <2>2, <2>3, <2>4
<1>5. NeverForgotten'
  BY <1>1 DEF QueueInv, NeverForgotten
<1> QED BY <1>2, <1>3, <1>4, <1>5 DEF QueueInv

\* The events of executions at work are stored, with their jobs.
LEMMA PassesAreOnStored ==
    ASSUME QueueInv, NEW w \in Workers, InPass(w)
    PROVE  /\ worker[w].event \in Events /\ worker[w].event \in worker[w].batch
           /\ worker[w].event \notin worker[w].rest
           /\ event[worker[w].event] # "none" /\ worker[w].pc # "idle"
<1>1. worker[w].event \in Events
  BY DEF QueueInv, TypeInv, Places
<1>2. worker[w].event \in worker[w].batch \ worker[w].rest /\ worker[w].pc # "idle"
  BY DEF QueueInv, BatchTells, InPass
<1>3. job[worker[w].event].state # "none"
  BY <1>2 DEF QueueInv, BatchTells
<1> QED BY <1>1, <1>2, <1>3 DEF QueueInv, PushersTell

LEMMA PushersKeepQueue ==
    ASSUME PipelineAssumption, QueueInv, TypeInv', NEW p \in Pushers,
           \/ \E e \in Events : LookUpEvent(p, e)
           \/ InsertEvent(p) \/ RefuseInsert(p) \/ SendJob(p) \/ MarkUnqueued(p) \/ PusherFails(p)
    PROVE  QueueInv'
<1> DEFINE e == pusher[p].event
<1>0. TypeOK /\ TypeInv
  BY DEF QueueInv, TypeInv
<1>w. worker' = worker /\ timeouts' = timeouts
  BY DEF LookUpEvent, InsertEvent, RefuseInsert, SendJob, MarkUnqueued, PusherFails
<1>1. ASSUME job' = job
      PROVE  (\A w \in Workers : BatchTells(w)') /\ BatchesDisjoint'
  BY <1>w, <1>1 DEF QueueInv, BatchTells, BatchesDisjoint, InPass
<1>2. ASSUME NEW d \in Events, LookUpEvent(p, d)
      PROVE  QueueInv'
  <2>1. /\ pusher' = [pusher EXCEPT ![p] = pusher'[p]]
        /\ pusher'[p] \in {[pc |-> "insert", event |-> d], [pc |-> "done", event |-> NoEvent]}
        /\ event' = event /\ job' = job /\ lost' = lost /\ pusher[p].pc = "idle"
    BY <1>0, <1>2, PusherSteps DEF LookUpEvent
  <2>2. /\ \A q \in Pushers \ {p} : pusher'[q] = pusher[q]
        /\ pusher'[p].pc \in {"insert", "done"}
    BY <1>0, <2>1 DEF TypeOK
  <2>3. PushersTell' /\ NeverForgotten'
    BY <2>1, <2>2 DEF QueueInv, PushersTell, NeverForgotten
  <2> QED BY <1>1, <2>1, <2>3 DEF QueueInv
<1>3. ASSUME InsertEvent(p)
      PROVE  QueueInv'
  <2>1. /\ pusher' = [pusher EXCEPT ![p] = pusher'[p]] /\ e \in Events
        /\ pusher'[p] = [pc |-> "send", event |-> e]
        /\ event[e] = "none" /\ event' = [event EXCEPT ![e] = "queued"]
        /\ job' = job /\ lost' = lost
    BY <1>0, <1>3, PusherSteps DEF InsertEvent
  <2>2. /\ \A q \in Pushers \ {p} : pusher'[q] = pusher[q]
        /\ event'[e] = "queued" /\ \A d \in Events \ {e} : event'[d] = event[d]
    BY <1>0, <2>1 DEF TypeOK
  <2>3. /\ job[e].state = "none"
        /\ \A q \in Pushers : pusher[q].pc \in {"send", "unqueued"}
                                     => pusher[q].event \in Events /\ pusher[q].event # e
    BY <2>1 DEF QueueInv, PushersTell, TypeInv, Places
  <2>4. PushersTell'
    BY <2>1, <2>2, <2>3 DEF QueueInv, PushersTell
  <2>5. NeverForgotten'
    <3> SUFFICES ASSUME NEW d \in Events, event'[d] # "none", job'[d].state = "none", d \notin lost'
                 PROVE  \E q \in Pushers : pusher'[q] = [pc |-> "send", event |-> d]
      BY DEF NeverForgotten
    <3>1. CASE d = e
      BY <2>1, <3>1
    <3>2. CASE d # e
      <4>1. PICK q \in Pushers : pusher[q] = [pc |-> "send", event |-> d]
        BY <2>1, <2>2, <3>2 DEF QueueInv, NeverForgotten
      <4>2. q # p
        BY <1>3, <4>1 DEF InsertEvent
      <4> QED BY <2>2, <4>1, <4>2
    <3> QED BY <3>1, <3>2
  <2> QED BY <1>1, <2>1, <2>4, <2>5 DEF QueueInv
<1>4. ASSUME SendJob(p)
      PROVE  QueueInv'
  <2>1. /\ pusher' = [pusher EXCEPT ![p] = pusher'[p]] /\ e \in Events
        /\ \/ pusher'[p] = [pc |-> "unqueued", event |-> e]
           \/ pusher'[p] = [pc |-> "done", event |-> NoEvent]
        /\ pusher[p].pc = "send" /\ event' = event
    BY <1>0, <1>4, PusherSteps DEF SendJob
  <2>2. \A q \in Pushers \ {p} : pusher'[q] = pusher[q]
    BY <1>0, <2>1 DEF TypeOK
  <2>3. /\ \A d \in Events \ {e} : job'[d] = job[d]
        /\ lost \subseteq lost'
        /\ job'[e].state # "none" \/ (job' = job /\ e \in lost')
    BY <1>0, <1>4, <2>1 DEF SendJob, TypeOK
  <2>4. job[e].state = "none" /\ event[e] # "none"
    BY <2>1 DEF QueueInv, PushersTell
  <2>5. \A q \in Pushers : pusher[q].pc \in {"send", "unqueued"} => pusher[q].event \in Events
    BY DEF QueueInv, TypeInv, Places
  <2>6. \A q \in Pushers \ {p} : pusher[q].pc = "send" => pusher[q].event # e
    BY <2>1 DEF QueueInv, PushersTell
  <2>7. PushersTell'
    BY <2>1, <2>2, <2>3, <2>4, <2>5, <2>6 DEF QueueInv, PushersTell
  <2>8. ASSUME NEW w \in Workers
        PROVE  BatchTells(w)'
    <3>1. worker[w].batch \subseteq Events
      BY <1>0 DEF TypeOK
    <3>2. worker[w].pc # "idle" \/ worker[w].awaited => e \notin worker[w].batch
      BY <2>4 DEF QueueInv, BatchTells
    <3> QED BY <1>w, <2>3, <3>1, <3>2 DEF QueueInv, BatchTells, InPass
  <2>9. BatchesDisjoint'
    BY <1>w DEF QueueInv, BatchesDisjoint
  <2>10. NeverForgotten'
    <3> SUFFICES ASSUME NEW d \in Events, event'[d] # "none", job'[d].state = "none", d \notin lost'
                 PROVE  \E q \in Pushers : pusher'[q] = [pc |-> "send", event |-> d]
      BY DEF NeverForgotten
    <3>1. d # e
      BY <2>3
    <3>2. PICK q \in Pushers : pusher[q] = [pc |-> "send", event |-> d]
      BY <2>1, <2>3, <3>1 DEF QueueInv, NeverForgotten
    <3> QED BY <2>2, <3>1, <3>2
  <2> QED BY <2>7, <2>8, <2>9, <2>10 DEF QueueInv
<1>5. ASSUME RefuseInsert(p) \/ MarkUnqueued(p) \/ PusherFails(p)
      PROVE  QueueInv'
  <2>1. /\ pusher' = [pusher EXCEPT ![p] = pusher'[p]] /\ e \in Events
        /\ pusher'[p] = [pc |-> "done", event |-> NoEvent] /\ job' = job
    BY <1>0, <1>5, PusherSteps DEF RefuseInsert, MarkUnqueued, PusherFails
  <2>2. \A q \in Pushers \ {p} : pusher'[q] = pusher[q]
    BY <1>0, <2>1 DEF TypeOK
  <2>3. /\ lost \subseteq lost'
        /\ pusher[p].pc = "send" => e \in lost'
        /\ \A d \in Events : event'[d] # "none" <=> event[d] # "none"
    BY <1>0, <1>5, <2>1 DEF RefuseInsert, MarkUnqueued, PusherFails, TypeOK, QueueInv, PushersTell
  <2>4. \A q \in Pushers : pusher[q].pc \in {"send", "unqueued"} => pusher[q].event \in Events
    BY DEF QueueInv, TypeInv, Places
  <2>5. PushersTell'
    BY <2>1, <2>2, <2>3, <2>4 DEF QueueInv, PushersTell
  <2>6. NeverForgotten'
    <3> SUFFICES ASSUME NEW d \in Events, event'[d] # "none", job'[d].state = "none", d \notin lost'
                 PROVE  \E q \in Pushers : pusher'[q] = [pc |-> "send", event |-> d]
      BY DEF NeverForgotten
    <3>1. PICK q \in Pushers : pusher[q] = [pc |-> "send", event |-> d]
      BY <2>1, <2>3 DEF QueueInv, NeverForgotten
    <3>2. q # p
      BY <2>3, <3>1
    <3> QED BY <2>2, <3>1, <3>2
  <2> QED BY <1>1, <2>1, <2>5, <2>6 DEF QueueInv
<1> QED BY <1>2, <1>3, <1>4, <1>5

\* The status of the event of an execution at work may change.
LEMMA EventOfPass ==
    ASSUME QueueInv, NEW w \in Workers, InPass(w), NEW s, s # "none",
           event' = [event EXCEPT ![worker[w].event] = s]
    PROVE  \A e \in Events : event'[e] = event[e] \/ (event[e] # "none" /\ event'[e] # "none")
BY PassesAreOnStored DEF QueueInv, TypeInv, TypeOK

LEMMA ExecutionsKeepQueue ==
    ASSUME PipelineAssumption, QueueInv, TypeInv', NEW w \in Workers,
           \/ \E batch \in SUBSET Events : FetchBatch(w, batch)
           \/ WorkerStep(w) \/ Expire(w) \/ WorkerCrash(w)
    PROVE  QueueInv'
<1>0. TypeOK /\ TypeInv /\ BatchTells(w)
  BY DEF QueueInv, TypeInv
<1>b. worker[w].batch \subseteq Events /\ worker[w].rest \subseteq Events
  BY <1>0 DEF TypeOK
<1>1. ASSUME NEW batch \in SUBSET Events, FetchBatch(w, batch)
      PROVE  QueueInv'
  <2>1. /\ Others(w) /\ worker'[w].pc = "next" /\ worker'[w].batch = batch
        /\ worker'[w].rest = batch /\ worker'[w].awaited = TRUE
    BY <1>0, <1>1, FetchBatchDoes
  <2>2. \A e \in Events : IF e \in batch THEN job[e].state = "created" /\ job'[e].state = "active"
                                         ELSE job'[e] = job[e]
    BY <1>0, <1>1, JobsDo
  <2>3. UNCHANGED <<event, pusher, lost, timeouts>>
    BY <1>1 DEF FetchBatch
  <2>4. BatchTells(w)'
    BY <2>1, <2>2 DEF BatchTells, InPass
  <2> QED BY <2>1, <2>2, <2>3, <2>4, QueueFrame
<1>e. ASSUME EndInFailure(w) \/ CompleteBatch(w), pusher' = pusher, lost' = lost,
             timeouts' = timeouts,
             \A e \in Events : event'[e] = event[e] \/ (event[e] # "none" /\ event'[e] # "none")
      PROVE  QueueInv'
  <2>1. Others(w) /\ worker'[w] = Idle /\ worker'[w].pc = "idle" /\ worker'[w].awaited = FALSE
    BY <1>0, <1>e, EndDoes
  <2>2. \A e \in Events :
            \/ job'[e] = job[e]
            \/ worker[w].awaited /\ e \in worker[w].batch /\ job'[e].state # "none"
    BY <1>0, <1>e, JobsDo
  <2>3. BatchTells(w)'
    BY <2>1 DEF BatchTells, InPass, Idle
  <2> QED BY <1>e, <2>1, <2>2, <2>3, QueueFrame
<1>2. ASSUME CompleteBatch(w)
      PROVE  QueueInv'
  BY <1>e, <1>2 DEF CompleteBatch
<1>3. ASSUME WorkerCrash(w)
      PROVE  QueueInv'
  BY <1>e, <1>3 DEF WorkerCrash
<1>4. ASSUME PassThrows(w)
      PROVE  QueueInv'
  <2>1. InPass(w) /\ event' = [event EXCEPT ![worker[w].event] = "failed"]
    BY <1>4 DEF PassThrows, InPass
  <2>2. \A e \in Events : event'[e] = event[e] \/ (event[e] # "none" /\ event'[e] # "none")
    BY <2>1, EventOfPass
  <2> QED BY <1>4, <1>e, <2>2 DEF PassThrows
<1>5. ASSUME Expire(w)
      PROVE  QueueInv'
  <2>1. /\ Others(w) /\ worker'[w].awaited = FALSE
        /\ worker'[w].pc = worker[w].pc /\ worker'[w].batch = worker[w].batch
        /\ worker'[w].rest = worker[w].rest /\ worker'[w].event = worker[w].event
    BY <1>0, <1>5, ExpireDoes
  <2>2. \A e \in Events :
            \/ job'[e] = job[e]
            \/ worker[w].awaited /\ e \in worker[w].batch /\ job'[e].state # "none"
    BY <1>0, <1>5, JobsDo
  <2>3. UNCHANGED <<event, pusher, lost>> /\ timeouts' # 0
    BY <1>0, <1>5 DEF Expire, TypeOK
  <2>4. BatchTells(w)'
    BY <1>0, <1>b, <2>1, <2>2, <2>3 DEF BatchTells, InPass
  <2> QED BY <2>1, <2>2, <2>3, <2>4, QueueFrame
<1>n. ASSUME Others(w), UNCHANGED <<job, pusher, lost, timeouts>>,
             \A e \in Events : event'[e] = event[e] \/ (event[e] # "none" /\ event'[e] # "none"),
             worker'[w].batch = worker[w].batch, worker'[w].awaited = worker[w].awaited,
             worker[w].pc # "idle", worker'[w].pc # "idle",
             worker'[w].rest \subseteq worker[w].rest,
             InPass(w)' => worker'[w].event \in worker[w].batch \ worker'[w].rest
      PROVE  QueueInv'
  <2>1. BatchTells(w)'
    BY <1>0, <1>n DEF BatchTells
  <2> QED BY <1>n, <2>1, QueueFrame
<1>6. ASSUME ReadEvent(w)
      PROVE  QueueInv'
  <2>1. UNCHANGED <<event, job, pusher, lost, timeouts>>
    BY <1>6 DEF ReadEvent
  <2>2. /\ Others(w) /\ worker[w].pc = "next"
        /\ worker'[w].batch = worker[w].batch /\ worker'[w].awaited = worker[w].awaited
    BY <1>0, <1>6, ReadEventDoes
  <2>3. PICK e \in worker[w].rest :
            /\ worker'[w].rest = worker[w].rest \ {e}
            /\ \/ worker'[w].pc = "next"
               \/ worker'[w].pc = "start" /\ worker'[w].event = e
    BY <1>0, <1>6, ReadEventDoes
  <2>4. e \in worker[w].batch
    BY <1>0 DEF BatchTells
  <2> QED BY <1>n, <2>1, <2>2, <2>3, <2>4 DEF InPass
<1>7. ASSUME StartPass(w)
      PROVE  QueueInv'
  <2>1. /\ Others(w) /\ SameBatch(w) /\ worker[w].pc = "start" /\ worker'[w].pc = "target"
        /\ worker'[w].event = worker[w].event
    BY <1>0, <1>7, StartPassDoes
  <2>2. InPass(w) /\ event' = [event EXCEPT ![worker[w].event] = "processing"]
        /\ UNCHANGED <<job, pusher, lost, timeouts>>
    BY <1>7, <2>1 DEF StartPass, InPass
  <2>3. \A e \in Events : event'[e] = event[e] \/ (event[e] # "none" /\ event'[e] # "none")
    BY <2>2, EventOfPass
  <2>4. worker[w].event \in worker[w].batch \ worker[w].rest
    BY <2>2, PassesAreOnStored
  <2> QED BY <1>n, <2>1, <2>2, <2>3, <2>4 DEF SameBatch
<1>8. ASSUME FilterTarget(w) \/ SendToTarget(w)
      PROVE  QueueInv'
  <2>1. /\ UNCHANGED <<event, job, pusher, lost, timeouts>>
        /\ InPass(w) /\ worker[w].pc = "target"
        /\ NextTarget(w, FALSE) \/ NextTarget(w, TRUE)
    BY <1>8 DEF FilterTarget, SendToTarget, InPass
  <2>2. /\ Others(w) /\ SameBatch(w) /\ worker'[w].event = worker[w].event
        /\ worker'[w].pc \in {"target", "finish"}
    BY <1>0, <2>1, NextTargetDoes
  <2>3. worker[w].event \in worker[w].batch \ worker[w].rest
    BY <2>1, PassesAreOnStored
  <2> QED BY <1>n, <2>1, <2>2, <2>3 DEF SameBatch
<1>9. ASSUME FinishPass(w)
      PROVE  QueueInv'
  <2>1. UNCHANGED <<pusher, lost, timeouts>>
    BY <1>9 DEF FinishPass
  <2>2. InPass(w)
    BY <1>0, <1>9, FinishPassDoes DEF InPass
  <2>3. \A e \in Events : event'[e] = event[e] \/ (event[e] # "none" /\ event'[e] # "none")
    BY <1>0, <1>9, <2>2, FinishPassDoes, EventOfPass
  <2>4. CASE worker[w].failures
    BY <1>0, <1>9, <1>e, <2>1, <2>3, <2>4, FinishPassDoes
  <2>5. CASE ~worker[w].failures
    <3>1. /\ worker[w].pc = "finish" /\ job' = job /\ Others(w) /\ SameBatch(w)
          /\ worker'[w].pc = "next"
      BY <1>0, <1>9, <2>5, FinishPassDoes
    <3> QED BY <1>n, <2>1, <2>3, <3>1 DEF SameBatch, InPass
  <2> QED BY <2>4, <2>5
<1> QED
  BY <1>1, <1>2, <1>3, <1>4, <1>5, <1>6, <1>7, <1>8, <1>9 DEF WorkerStep

LEMMA QueueNext ==
    ASSUME PipelineAssumption, QueueInv, [Next]_vars
    PROVE  QueueInv'
<1>0. TypeInv'
  BY TypeNext DEF QueueInv
<1>1. ASSUME UNCHANGED vars
      PROVE  QueueInv'
  BY <1>0, <1>1 DEF vars, QueueInv, PushersTell, BatchTells, BatchesDisjoint, NeverForgotten, InPass
<1> QED BY <1>0, <1>1, PushersKeepQueue, ExecutionsKeepQueue DEF Next

LEMMA QueueAlways == ASSUME PipelineAssumption PROVE Spec => []QueueInv
<1>1. Init => QueueInv
  BY QueueInit
<1>2. QueueInv /\ [Next]_vars => QueueInv'
  BY QueueNext
<1> QED BY <1>1, <1>2, PTL DEF Spec

\* A stored event has its job, unless its pusher has not sent it yet or failed.
THEOREM NothingForgotten == ASSUME PipelineAssumption PROVE Spec => []NeverForgotten
<1>1. QueueInv => NeverForgotten
  BY DEF QueueInv
<1> QED BY <1>1, QueueAlways, PTL

------------------------------------------------------------------------------
(* What is processed has reached everyone.                                 *)

Reached(e, t) == sends[e][t] > 0 \/ t \in filtered[e]

\* The targets that an execution has passed without a failure.
PassTells(w) ==
    LET x == worker[w] IN
    /\ x.pc = "target" /\ ~x.failures =>
          \A t \in Targets(x.event) : t < x.target => Reached(x.event, t)
    /\ x.pc = "finish" /\ ~x.failures => ReachedAll(x.event)
    /\ x.pc # "idle" =>
          \A e \in x.batch \ x.rest : (InPass(w) => e # x.event) => ReachedAll(e)

ReachInv == (\A w \in Workers : PassTells(w)) /\ DoneReachedAll

LEMMA ReachNext ==
    ASSUME PipelineAssumption, QueueInv, ReachInv, [Next]_vars
    PROVE  ReachInv'
<1>0. TypeOK /\ TypeInv /\ TypeOK' /\ QueueInv'
  BY QueueNext DEF QueueInv, TypeInv
<1>m. \A e \in Events : \A t \in Targets(e) : Reached(e, t) => Reached(e, t)'
  <2>1. ASSUME NEW w \in Workers, SendToTarget(w), NEW e \in Events, NEW t \in Targets(e)
        PROVE  sends'[e][t] >= sends[e][t] /\ filtered' = filtered
    <3>1. filtered' = filtered /\ sends[e][t] \in Nat
      BY <1>0, <2>1 DEF SendToTarget, TypeOK
    <3>2. CASE sends' = sends
      BY <3>1, <3>2
    <3>3. CASE sends' # sends
      <4>1. /\ sends'[worker[w].event][worker[w].target]
                   = sends[worker[w].event][worker[w].target] + 1
            /\ \A u \in Targets(worker[w].event) \ {worker[w].target} :
                   sends'[worker[w].event][u] = sends[worker[w].event][u]
            /\ \A d \in Events \ {worker[w].event} : sends'[d] = sends[d]
        BY <1>0, <2>1, <3>3, SendToTargetDoes
      <4>2. CASE e = worker[w].event /\ t = worker[w].target
        BY <3>1, <4>1, <4>2
      <4>3. CASE e = worker[w].event /\ t # worker[w].target
        BY <3>1, <4>1, <4>3
      <4>4. CASE e # worker[w].event
        BY <3>1, <4>1, <4>4
      <4> QED BY <4>2, <4>3, <4>4
    <3> QED BY <3>2, <3>3
  <2>2. ASSUME NEW w \in Workers, FilterTarget(w), NEW e \in Events
        PROVE  sends' = sends /\ filtered[e] \subseteq filtered'[e]
    BY <1>0, <2>2 DEF FilterTarget, TypeOK
  <2>3. ASSUME ~\E w \in Workers : SendToTarget(w) \/ FilterTarget(w)
        PROVE  sends' = sends /\ filtered' = filtered
    BY <2>3 DEF Next, vars, LookUpEvent, InsertEvent, RefuseInsert, SendJob, MarkUnqueued,
                PusherFails, FetchBatch, WorkerStep, Expire, WorkerCrash, CompleteBatch,
                ReadEvent, StartPass, FinishPass, PassThrows
  <2>4. \A e \in Events : \A t \in Targets(e) : sends[e][t] \in Nat /\ sends'[e][t] \in Nat
    BY <1>0 DEF TypeOK
  <2> QED BY <2>1, <2>2, <2>3, <2>4 DEF Reached
<1>r. \A e \in Events : ReachedAll(e) => ReachedAll(e)'
  BY <1>m DEF ReachedAll, Reached
<1>f. ASSUME NEW v \in Workers, worker'[v] = worker[v]
      PROVE  PassTells(v)'
  <2>1. worker[v].batch \subseteq Events
    BY <1>0 DEF TypeOK
  <2>2. InPass(v) => worker[v].event \in Events
    BY <1>0 DEF TypeInv, Places
  <2>3. PassTells(v)
    BY DEF ReachInv
  <2> QED BY <1>f, <1>m, <1>r, <2>1, <2>2, <2>3 DEF PassTells, InPass
<1>d. ASSUME \A e \in Events : event'[e] = "processed" => event[e] = "processed" \/ ReachedAll(e),
             \A e \in Events : job'[e].state = "completed" => job[e].state = "completed" \/ ReachedAll(e)
      PROVE  DoneReachedAll'
  BY <1>d, <1>r DEF ReachInv, DoneReachedAll
<1>1. ASSUME NEW p \in Pushers,
             \/ \E e \in Events : LookUpEvent(p, e)
             \/ InsertEvent(p) \/ RefuseInsert(p) \/ SendJob(p) \/ MarkUnqueued(p) \/ PusherFails(p)
      PROVE  ReachInv'
  <2>1. worker' = worker
    BY <1>1 DEF LookUpEvent, InsertEvent, RefuseInsert, SendJob, MarkUnqueued, PusherFails
  <2>2. \A e \in Events : event'[e] = "processed" => event[e] = "processed"
    BY <1>0, <1>1 DEF LookUpEvent, InsertEvent, RefuseInsert, SendJob, MarkUnqueued, PusherFails, TypeOK
  <2>3. \A e \in Events : job'[e].state = "completed" => job[e].state = "completed"
    <3>1. CASE SendJob(p)
      <4>1. \/ job' = [job EXCEPT ![pusher[p].event] = [state |-> "created", retries |-> 0]]
            \/ job' = job
        BY <3>1 DEF SendJob
      <4> QED BY <1>0, <4>1 DEF TypeOK
    <3>2. CASE ~SendJob(p)
      BY <1>1, <3>2 DEF LookUpEvent, InsertEvent, RefuseInsert, MarkUnqueued, PusherFails
    <3> QED BY <3>1, <3>2
  <2> QED BY <1>d, <1>f, <2>1, <2>2, <2>3 DEF ReachInv
<1>w. ASSUME NEW w \in Workers, Others(w), PassTells(w)',
             \A e \in Events : event'[e] = "processed" => event[e] = "processed" \/ ReachedAll(e),
             \A e \in Events : job'[e].state = "completed" => job[e].state = "completed" \/ ReachedAll(e)
      PROVE  ReachInv'
  BY <1>d, <1>f, <1>w DEF ReachInv, Others
<1>e. ASSUME NEW w \in Workers, EndInFailure(w)
      PROVE  /\ Others(w) /\ PassTells(w)'
             /\ \A e \in Events : job'[e].state = "completed" => job[e].state = "completed"
  <2>1. Others(w) /\ worker'[w].pc = "idle"
    BY <1>0, <1>e, EndDoes
  <2>2. job' = IF worker[w].awaited THEN Failed(worker[w].batch) ELSE job
    BY <1>e DEF EndInFailure
  <2>3. \A e \in Events : job[e] \in JobState
    BY <1>0 DEF TypeOK, JobState
  <2>4. \A e \in Events : job'[e].state = "completed" => job[e].state = "completed"
    BY <2>2, <2>3 DEF Failed, JobState
  <2> QED BY <2>1, <2>4 DEF PassTells
<1>2. ASSUME NEW w \in Workers, NEW batch \in SUBSET Events, FetchBatch(w, batch)
      PROVE  ReachInv'
  <2>1. /\ Others(w) /\ worker'[w].pc = "next" /\ worker'[w].batch = batch /\ worker'[w].rest = batch
    BY <1>0, <1>2, FetchBatchDoes
  <2>2. event' = event /\ \A e \in Events : job'[e].state = "completed" => job[e].state = "completed"
    BY <1>0, <1>2, JobsDo DEF FetchBatch, QueueInv
  <2>3. PassTells(w)'
    BY <2>1 DEF PassTells
  <2> QED BY <1>w, <2>1, <2>2, <2>3
<1>3. ASSUME NEW w \in Workers, CompleteBatch(w)
      PROVE  ReachInv'
  <2>1. Others(w) /\ worker'[w].pc = "idle"
    BY <1>0, <1>3, EndDoes
  <2>2. \A e \in worker[w].batch : ReachedAll(e)
    BY <1>3 DEF CompleteBatch, ReachInv, PassTells, InPass
  <2>3. event' = event /\ \A e \in Events : ~(worker[w].awaited /\ e \in worker[w].batch) => job'[e] = job[e]
    BY <1>0, <1>3, JobsDo DEF CompleteBatch, QueueInv
  <2>4. PassTells(w)'
    BY <2>1 DEF PassTells
  <2> QED BY <1>w, <2>1, <2>2, <2>3, <2>4
<1>4. ASSUME NEW w \in Workers, WorkerCrash(w)
      PROVE  ReachInv'
  BY <1>w, <1>e, <1>4 DEF WorkerCrash
<1>5. ASSUME NEW w \in Workers, PassThrows(w)
      PROVE  ReachInv'
  <2>1. \A e \in Events : event'[e] = "processed" => event[e] = "processed"
    BY <1>0, <1>5 DEF PassThrows, TypeOK
  <2> QED BY <1>w, <1>e, <1>5, <2>1 DEF PassThrows
<1>6. ASSUME NEW w \in Workers, Expire(w)
      PROVE  ReachInv'
  <2>1. /\ Others(w) /\ worker'[w].pc = worker[w].pc /\ worker'[w].batch = worker[w].batch
        /\ worker'[w].rest = worker[w].rest /\ worker'[w].event = worker[w].event
        /\ worker'[w].target = worker[w].target /\ worker'[w].failures = worker[w].failures
    BY <1>0, <1>6, ExpireDoes
  <2>2. event' = event /\ sends' = sends /\ filtered' = filtered /\ job' = Failed(worker[w].batch)
    BY <1>6 DEF Expire
  <2>3. \A e \in Events : job[e] \in JobState
    BY <1>0 DEF TypeOK, JobState
  <2>4. \A e \in Events : job'[e].state = "completed" => job[e].state = "completed"
    BY <2>2, <2>3 DEF Failed, JobState
  <2>5. PassTells(w)'
    BY <2>1, <2>2 DEF ReachInv, PassTells, InPass, Reached, ReachedAll
  <2> QED BY <1>w, <2>1, <2>2, <2>4, <2>5
<1>7. ASSUME NEW w \in Workers, ReadEvent(w)
      PROVE  ReachInv'
  <2>1. UNCHANGED <<event, job, sends, filtered>>
    BY <1>7 DEF ReadEvent
  <2>2. Others(w) /\ worker[w].pc = "next" /\ worker'[w].batch = worker[w].batch
    BY <1>0, <1>7, ReadEventDoes
  <2>3. PICK e \in worker[w].rest :
            /\ e \in Events
            /\ worker'[w].rest = worker[w].rest \ {e}
            /\ \/ event[e] = "processed" /\ worker'[w].pc = "next"
               \/ worker'[w].pc = "start" /\ worker'[w].event = e
    BY <1>0, <1>7, ReadEventDoes
  <2>4. event[e] = "processed" => ReachedAll(e)
    BY <2>3 DEF ReachInv, DoneReachedAll
  <2>5. \A d \in worker[w].batch \ worker[w].rest : ReachedAll(d)
    BY <2>2 DEF ReachInv, PassTells, InPass
  <2>6. \A d \in Events : ReachedAll(d)' <=> ReachedAll(d)
    BY <2>1 DEF ReachedAll
  <2>7. worker[w].batch \subseteq Events
    BY <1>0 DEF TypeOK
  <2>8. PassTells(w)'
    BY <2>2, <2>3, <2>4, <2>5, <2>6, <2>7 DEF PassTells, InPass
  <2> QED BY <1>w, <2>1, <2>2, <2>8
<1>8. ASSUME NEW w \in Workers, StartPass(w)
      PROVE  ReachInv'
  <2>1. /\ Others(w) /\ SameBatch(w) /\ worker[w].pc = "start" /\ worker'[w].pc = "target"
        /\ worker'[w].event = worker[w].event /\ worker'[w].target = 1
    BY <1>0, <1>8, StartPassDoes
  <2>2. UNCHANGED <<job, sends, filtered>>
    BY <1>8 DEF StartPass
  <2>3. \A e \in Events : event'[e] = "processed" => event[e] = "processed"
    BY <1>0, <1>8 DEF StartPass, TypeOK
  <2>4. ~\E t \in Targets(worker[w].event) : t < 1
    BY <1>0, <2>1 DEF Targets, TypeInv, Places, InPass, PipelineAssumption
  <2>5. PassTells(w)'
    BY <2>1, <2>2, <2>4 DEF ReachInv, PassTells, InPass, SameBatch, ReachedAll
  <2> QED BY <1>w, <2>1, <2>2, <2>3, <2>5
<1>9. ASSUME NEW w \in Workers, FilterTarget(w) \/ SendToTarget(w)
      PROVE  ReachInv'
  <2> DEFINE e == worker[w].event
             t == worker[w].target
  <2>1. e \in Events /\ t \in Targets(e) /\ worker[w].pc = "target" /\ InPass(w)
        /\ event' = event /\ job' = job
    BY <1>0, <1>9 DEF FilterTarget, SendToTarget, TypeInv, Places, InPass
  <2> DEFINE Hit == sends'[e][t] > 0 \/ t \in filtered'[e]
  <2>2. NextTarget(w, TRUE) \/ (NextTarget(w, FALSE) /\ Hit)
    <3>1. CASE FilterTarget(w)
      <4>1. NextTarget(w, FALSE) /\ filtered' = [filtered EXCEPT ![e] = @ \cup {t}]
        BY <3>1 DEF FilterTarget
      <4>2. t \in filtered'[e]
        BY <1>0, <2>1, <4>1 DEF TypeOK
      <4> QED BY <4>1, <4>2
    <3>2. CASE SendToTarget(w)
      <4>1. \/ NextTarget(w, TRUE)
            \/ NextTarget(w, FALSE) /\ sends'[e][t] = sends[e][t] + 1
        BY <1>0, <3>2, SendToTargetDoes
      <4>2. sends[e][t] \in Nat
        BY <1>0, <2>1 DEF TypeOK
      <4>3. sends'[e][t] = sends[e][t] + 1 => sends'[e][t] > 0
        BY <4>2
      <4> QED BY <4>1, <4>3
    <3> QED BY <1>9, <3>1, <3>2
  <2>3. /\ Others(w) /\ SameBatch(w) /\ worker'[w].event = e
        /\ IF t = TargetCount[e]
           THEN worker'[w].pc = "finish" /\ worker'[w].target = t
           ELSE worker'[w].pc = "target" /\ worker'[w].target = t + 1
    BY <1>0, <2>2, NextTargetDoes
  <2>4. ~worker'[w].failures => ~worker[w].failures /\ Hit
    BY <1>0, <2>2, NextTargetDoes
  <2>5. TargetCount[e] \in Nat
    BY <2>1 DEF PipelineAssumption
  <2>6. ~worker'[w].failures => \A u \in Targets(e) : u <= t => sends'[e][u] > 0 \/ u \in filtered'[e]
    <3> SUFFICES ASSUME ~worker'[w].failures, NEW u \in Targets(e), u <= t
                 PROVE  sends'[e][u] > 0 \/ u \in filtered'[e]
      OBVIOUS
    <3>1. CASE u = t
      BY <2>4, <3>1
    <3>2. CASE u # t
      <4>1. u < t
        BY <2>1, <2>5, <3>2 DEF Targets
      <4>2. Reached(e, u)
        BY <2>1, <2>4, <4>1 DEF ReachInv, PassTells
      <4>3. \A d \in Events : \A v \in Targets(d) :
                Reached(d, v) => sends'[d][v] > 0 \/ v \in filtered'[d]
        BY <1>m DEF Reached
      <4> QED BY <2>1, <4>2, <4>3
    <3> QED BY <3>1, <3>2
  <2>7. \A d \in worker[w].batch \ worker[w].rest : d # e => ReachedAll(d)
    BY <2>1 DEF ReachInv, PassTells
  <2>8. worker[w].batch \subseteq Events
    BY <1>0 DEF TypeOK
  <2>9. CASE t = TargetCount[e]
    <3>1. worker'[w].pc = "finish"
      BY <2>3, <2>9
    <3>2. ~worker'[w].failures =>
              \A u \in Targets(e) : sends'[e][u] > 0 \/ u \in filtered'[e]
      BY <2>5, <2>6, <2>9 DEF Targets
    <3>3. PassTells(w)'
      BY <1>r, <2>3, <2>7, <2>8, <3>1, <3>2 DEF PassTells, ReachedAll, SameBatch, InPass
    <3> QED BY <1>w, <2>1, <2>3, <3>3
  <2>10. CASE t # TargetCount[e]
    <3>1. worker'[w].pc = "target" /\ worker'[w].target = t + 1
      BY <2>3, <2>10
    <3>2. ~worker'[w].failures =>
              \A u \in Targets(e) : u < t + 1 => sends'[e][u] > 0 \/ u \in filtered'[e]
      BY <2>1, <2>5, <2>6 DEF Targets
    <3>3. PassTells(w)'
      BY <1>r, <2>3, <2>7, <2>8, <3>1, <3>2 DEF PassTells, Reached, SameBatch, InPass
    <3> QED BY <1>w, <2>1, <2>3, <3>3
  <2> QED BY <2>9, <2>10
<1>10. ASSUME NEW w \in Workers, FinishPass(w)
       PROVE  ReachInv'
  <2> DEFINE e == worker[w].event
  <2>1. e \in Events /\ worker[w].pc = "finish" /\ InPass(w)
    BY <1>0, <1>10, FinishPassDoes DEF TypeInv, Places, InPass
  <2>2. CASE worker[w].failures
    <3>1. EndInFailure(w) /\ event' = [event EXCEPT ![e] = "failed"]
      BY <1>0, <1>10, <2>2, FinishPassDoes
    <3>2. \A d \in Events : event'[d] = "processed" => event[d] = "processed"
      BY <1>0, <3>1 DEF TypeOK
    <3> QED BY <1>w, <1>e, <3>1, <3>2
  <2>3. CASE ~worker[w].failures
    <3>1. /\ job' = job /\ event' = [event EXCEPT ![e] = "processed"]
          /\ Others(w) /\ SameBatch(w) /\ worker'[w].pc = "next"
      BY <1>0, <1>10, <2>3, FinishPassDoes
    <3>2. ReachedAll(e)
      BY <2>1, <2>3 DEF ReachInv, PassTells
    <3>3. \A d \in Events : event'[d] = "processed" => event[d] = "processed" \/ ReachedAll(d)
      BY <1>0, <3>1, <3>2 DEF TypeOK
    <3>4. \A d \in worker[w].batch \ worker[w].rest : ReachedAll(d) /\ d \in Events
      BY <1>0, <2>1, <3>2 DEF ReachInv, PassTells, TypeOK
    <3>5. PassTells(w)'
      BY <1>r, <3>1, <3>4 DEF PassTells, SameBatch
    <3> QED BY <1>w, <3>1, <3>3, <3>5
  <2> QED BY <2>2, <2>3
<1>11. ASSUME UNCHANGED vars
       PROVE  ReachInv'
  BY <1>11 DEF vars, ReachInv, PassTells, DoneReachedAll, ReachedAll, Reached, InPass
<1> QED
  BY <1>1, <1>2, <1>3, <1>4, <1>5, <1>6, <1>7, <1>8, <1>9, <1>10, <1>11 DEF Next, WorkerStep

\* An event is processed, and its job complete, only when every target was sent it or
\* had its channel disabled.
THEOREM DoneIsDone == ASSUME PipelineAssumption PROVE Spec => []DoneReachedAll
<1>1. Init => QueueInv /\ ReachInv
  <2> SUFFICES ASSUME Init PROVE QueueInv /\ ReachInv
    OBVIOUS
  <2>1. \A w \in Workers : worker[w].pc = "idle"
    BY IdleTyped DEF Init
  <2> QED BY <2>1, QueueInit DEF Init, ReachInv, PassTells, DoneReachedAll
<1>2. QueueInv /\ ReachInv /\ [Next]_vars => (QueueInv /\ ReachInv)'
  BY QueueNext, ReachNext
<1>3. ReachInv => DoneReachedAll
  BY DEF ReachInv
<1> QED BY <1>1, <1>2, <1>3, PTL DEF Spec
------------------------------------------------------------------------------
(* Nobody is sent an event more often than its job is attempted.           *)

\* The execution may still send the event to the target.
Pending(w, e, t) ==
    LET x == worker[w] IN
    /\ x.pc # "idle"
    /\ \/ e \in x.rest
       \/ x.pc = "start" /\ x.event = e
       \/ x.pc = "target" /\ x.event = e /\ x.target <= t

Waiting(e, t) == {w \in Workers : Pending(w, e, t)}

\* Each fetch of the job accounts for one send that was made or may be made.
SendsAccounted ==
    \A e \in Events : \A t \in Targets(e) :
        sends[e][t] + Cardinality(Waiting(e, t)) <= Attempts(e)

\* A step of one execution keeps the account of an event and a target: it makes no
\* send possible, or fetches the job, or sends.
LEMMA AccountFrame ==
    ASSUME PipelineAssumption, IsFiniteSet(Workers), TypeOK, TypeOK', NEW w \in Workers, Others(w),
           NEW e \in Events, NEW t \in Targets(e),
           sends[e][t] + Cardinality(Waiting(e, t)) <= Attempts(e),
           \/ /\ Attempts(e)' = Attempts(e) /\ sends'[e][t] = sends[e][t]
              /\ Pending(w, e, t)' => Pending(w, e, t)
           \/ Attempts(e)' = Attempts(e) + 1 /\ sends'[e][t] = sends[e][t]
           \/ /\ Attempts(e)' = Attempts(e) /\ sends'[e][t] = sends[e][t] + 1
              /\ Pending(w, e, t) /\ ~Pending(w, e, t)'
    PROVE  sends'[e][t] + Cardinality(Waiting(e, t)') <= Attempts(e)'
<1> DEFINE S == Waiting(e, t)
           R == Waiting(e, t)'
<1>1. \A v \in Workers \ {w} : Pending(v, e, t)' <=> Pending(v, e, t)
  BY DEF Others, Pending
<1>2. /\ R \subseteq S \cup {w}
      /\ (Pending(w, e, t)' => Pending(w, e, t)) => R \subseteq S
      /\ Pending(w, e, t) /\ ~Pending(w, e, t)' => R \subseteq S \ {w} /\ w \in S
  BY <1>1 DEF Waiting
<1>3. IsFiniteSet(S) /\ IsFiniteSet(S \cup {w}) /\ IsFiniteSet(S \ {w})
  BY FS_Subset, FS_AddElement, FS_RemoveElement DEF Waiting
<1>4. /\ Cardinality(S) \in Nat
      /\ Cardinality(S \cup {w}) \in Nat /\ Cardinality(S \cup {w}) <= Cardinality(S) + 1
      /\ w \in S => Cardinality(S \ {w}) = Cardinality(S) - 1
  <2> HIDE DEF S
  <2>1. Cardinality(S) \in Nat /\ Cardinality(S \cup {w}) \in Nat
    BY <1>3, FS_CardinalityType
  <2>2. Cardinality(S \cup {w}) = IF w \in S THEN Cardinality(S) ELSE Cardinality(S) + 1
    BY <1>3, FS_AddElement
  <2>3. Cardinality(S \ {w}) = IF w \in S THEN Cardinality(S) - 1 ELSE Cardinality(S)
    BY <1>3, FS_RemoveElement
  <2> QED BY <2>1, <2>2, <2>3
<1>5. \A T : IsFiniteSet(T) /\ R \subseteq T => Cardinality(R) \in Nat /\ Cardinality(R) <= Cardinality(T)
  BY FS_Subset, FS_CardinalityType
<1>6. sends[e][t] \in Nat /\ sends'[e][t] \in Nat
  BY DEF TypeOK
<1>7. Attempts(e) \in Nat /\ Attempts(e)' \in Nat
  <2>1. Attempts(e) \in 0..(RetryLimit + 1) /\ Attempts(e)' \in 0..(RetryLimit + 1)
    BY DEF PipelineAssumption, TypeOK, Attempts
  <2> QED BY <2>1 DEF PipelineAssumption
<1>8. /\ Cardinality(R) \in Nat /\ Cardinality(R) <= Cardinality(S) + 1
      /\ R \subseteq S => Cardinality(R) <= Cardinality(S)
      /\ R \subseteq S \ {w} /\ w \in S => Cardinality(R) <= Cardinality(S) - 1
  <2>1. Cardinality(R) \in Nat /\ Cardinality(R) <= Cardinality(S \cup {w})
    BY <1>2, <1>3, <1>5
  <2>2. R \subseteq S => Cardinality(R) <= Cardinality(S)
    BY <1>3, <1>5
  <2>3. R \subseteq S \ {w} => Cardinality(R) <= Cardinality(S \ {w})
    BY <1>3, <1>5
  <2> HIDE DEF R, S
  <2> QED BY <1>4, <2>1, <2>2, <2>3
<1> HIDE DEF R, S
<1>9. /\ sends[e][t] + Cardinality(S) <= Attempts(e)
      /\ \/ Attempts(e)' = Attempts(e) /\ sends'[e][t] = sends[e][t] /\ R \subseteq S
         \/ Attempts(e)' = Attempts(e) + 1 /\ sends'[e][t] = sends[e][t]
         \/ /\ Attempts(e)' = Attempts(e) /\ sends'[e][t] = sends[e][t] + 1
            /\ R \subseteq S \ {w} /\ w \in S
  BY <1>2 DEF S
<1>10. sends'[e][t] + Cardinality(R) <= Attempts(e)'
  BY <1>4, <1>6, <1>7, <1>8, <1>9
<1> QED BY <1>10 DEF R
LEMMA AccountNext ==
    ASSUME PipelineAssumption, IsFiniteSet(Workers), QueueInv, SendsAccounted, [Next]_vars
    PROVE  SendsAccounted'
<1>0. TypeOK /\ TypeInv /\ TypeOK' /\ QueueInv'
  BY QueueNext DEF QueueInv, TypeInv
<1> SUFFICES ASSUME NEW e \in Events, NEW t \in Targets(e)
             PROVE  sends'[e][t] + Cardinality(Waiting(e, t)') <= Attempts(e)'
  BY DEF SendsAccounted
<1>a. sends[e][t] + Cardinality(Waiting(e, t)) <= Attempts(e)
  BY DEF SendsAccounted
\* A step of an execution that makes no send possible and leaves sends and fetches.
<1>w. ASSUME NEW w \in Workers, Others(w), sends' = sends, Attempts(e)' = Attempts(e),
             Pending(w, e, t)' => Pending(w, e, t)
      PROVE  sends'[e][t] + Cardinality(Waiting(e, t)') <= Attempts(e)'
  BY <1>0, <1>a, <1>w, AccountFrame
<1>j. job' = job => Attempts(e)' = Attempts(e)
  BY DEF Attempts
<1>1. ASSUME NEW p \in Pushers,
             \/ \E d \in Events : LookUpEvent(p, d)
             \/ InsertEvent(p) \/ RefuseInsert(p) \/ SendJob(p) \/ MarkUnqueued(p) \/ PusherFails(p)
      PROVE  sends'[e][t] + Cardinality(Waiting(e, t)') <= Attempts(e)'
  <2>1. worker' = worker /\ sends' = sends
    BY <1>1 DEF LookUpEvent, InsertEvent, RefuseInsert, SendJob, MarkUnqueued, PusherFails
  <2>2. Attempts(e)' = Attempts(e)
    <3>1. CASE SendJob(p)
      <4>1. pusher[p].event \in Events /\ job[pusher[p].event].state = "none"
        BY <3>1 DEF SendJob, QueueInv, PushersTell, TypeInv, Places
      <4>2. \/ job' = job
            \/ job' = [job EXCEPT ![pusher[p].event] = [state |-> "created", retries |-> 0]]
        BY <3>1 DEF SendJob
      <4>3. CASE e = pusher[p].event
        <5>1. job'[e] = job[e] \/ (job'[e].state = "created" /\ job'[e].retries = 0)
          BY <1>0, <4>1, <4>2, <4>3 DEF TypeOK
        <5>2. job[e].state = "none"
          BY <4>1, <4>3
        <5> QED BY <5>1, <5>2 DEF Attempts
      <4>4. CASE e # pusher[p].event
        <5>1. job'[e] = job[e]
          BY <1>0, <4>1, <4>2, <4>4 DEF TypeOK
        <5> QED BY <5>1 DEF Attempts
      <4> QED BY <4>3, <4>4
    <3>2. CASE ~SendJob(p)
      BY <1>1, <1>j, <3>2 DEF LookUpEvent, InsertEvent, RefuseInsert, MarkUnqueued, PusherFails
    <3> QED BY <3>1, <3>2
  <2>3. Waiting(e, t)' = Waiting(e, t)
    BY <2>1 DEF Waiting, Pending
  <2> QED BY <1>a, <2>1, <2>2, <2>3
<1>2. ASSUME NEW w \in Workers, NEW batch \in SUBSET Events, FetchBatch(w, batch)
      PROVE  sends'[e][t] + Cardinality(Waiting(e, t)') <= Attempts(e)'
  <2>1. /\ Others(w) /\ sends' = sends /\ worker'[w].pc = "next" /\ worker'[w].rest = batch
    BY <1>0, <1>2, FetchBatchDoes DEF FetchBatch
  <2>2. IF e \in batch THEN Attempts(e)' = Attempts(e) + 1 ELSE job'[e] = job[e]
    BY <1>0, <1>2, JobsDo DEF QueueInv
  <2>3. e \notin batch => Attempts(e)' = Attempts(e) /\ ~Pending(w, e, t)'
    BY <2>1, <2>2 DEF Attempts, Pending
  <2> QED BY <1>0, <1>a, <2>1, <2>2, <2>3, AccountFrame
<1>3. ASSUME NEW w \in Workers, EndInFailure(w) \/ CompleteBatch(w) \/ Expire(w), sends' = sends
      PROVE  sends'[e][t] + Cardinality(Waiting(e, t)') <= Attempts(e)'
  <2>1. Attempts(e)' = Attempts(e)
    <3>1. CASE worker[w].awaited /\ e \in worker[w].batch
      BY <1>0, <1>3, <3>1, JobsDo DEF QueueInv
    <3>2. CASE ~(worker[w].awaited /\ e \in worker[w].batch)
      <4>1. job'[e] = job[e]
        BY <1>0, <1>3, <3>2, JobsDo DEF QueueInv
      <4> QED BY <4>1 DEF Attempts
    <3> QED BY <3>1, <3>2
  <2>2. Others(w) /\ (Pending(w, e, t)' => Pending(w, e, t))
    <3>1. CASE Expire(w)
      BY <1>0, <3>1, ExpireDoes DEF Pending
    <3>2. CASE ~Expire(w)
      BY <1>0, <1>3, <3>2, EndDoes DEF Pending
    <3> QED BY <3>1, <3>2
  <2> QED BY <1>3, <1>w, <2>1, <2>2
<1>4. ASSUME NEW w \in Workers, ReadEvent(w)
      PROVE  sends'[e][t] + Cardinality(Waiting(e, t)') <= Attempts(e)'
  <2>1. Others(w) /\ sends' = sends /\ job' = job /\ worker[w].pc = "next"
    BY <1>0, <1>4, ReadEventDoes DEF ReadEvent
  <2>2. PICK d \in worker[w].rest :
            /\ worker'[w].rest = worker[w].rest \ {d}
            /\ worker'[w].pc = "next" \/ (worker'[w].pc = "start" /\ worker'[w].event = d)
    BY <1>0, <1>4, ReadEventDoes
  <2>3. Pending(w, e, t)' => Pending(w, e, t)
    BY <2>1, <2>2 DEF Pending
  <2> QED BY <1>j, <1>w, <2>1, <2>3
<1>5. ASSUME NEW w \in Workers, StartPass(w)
      PROVE  sends'[e][t] + Cardinality(Waiting(e, t)') <= Attempts(e)'
  <2>1. /\ Others(w) /\ SameBatch(w) /\ worker[w].pc = "start" /\ worker'[w].pc = "target"
        /\ worker'[w].event = worker[w].event /\ sends' = sends /\ job' = job
    BY <1>0, <1>5, StartPassDoes DEF StartPass
  <2>2. Pending(w, e, t)' => Pending(w, e, t)
    BY <2>1 DEF Pending, SameBatch
  <2> QED BY <1>j, <1>w, <2>1, <2>2
<1>6. ASSUME NEW w \in Workers, NextTarget(w, FALSE) \/ NextTarget(w, TRUE),
             worker[w].pc = "target", worker[w].event \in Events
      PROVE  /\ Others(w)
             /\ Pending(w, e, t)' => Pending(w, e, t)
             /\ worker[w].event = e /\ worker[w].target = t
                   => Pending(w, e, t) /\ ~Pending(w, e, t)'
  <2>1. /\ Others(w) /\ SameBatch(w) /\ worker'[w].event = worker[w].event
        /\ \/ worker'[w].pc = "finish"
           \/ worker'[w].pc = "target" /\ worker'[w].target = worker[w].target + 1
    BY <1>0, <1>6, NextTargetDoes
  <2>2. worker[w].event \notin worker[w].rest
    BY <1>6, PassesAreOnStored DEF InPass
  <2>3. worker[w].target \in Nat /\ t \in Nat
    BY <1>0, <1>6 DEF TypeInv, Places, Targets, TypeOK
  <2> QED BY <1>6, <2>1, <2>2, <2>3 DEF Pending, SameBatch
<1>7. ASSUME NEW w \in Workers, FilterTarget(w) \/ SendToTarget(w)
      PROVE  sends'[e][t] + Cardinality(Waiting(e, t)') <= Attempts(e)'
  <2>1. /\ job' = job /\ worker[w].pc = "target" /\ worker[w].event \in Events
        /\ NextTarget(w, FALSE) \/ NextTarget(w, TRUE)
    BY <1>0, <1>7 DEF FilterTarget, SendToTarget, TypeInv, Places, InPass
  <2>2. CASE sends'[e][t] = sends[e][t]
    BY <1>0, <1>a, <1>j, <1>6, <2>1, <2>2, AccountFrame
  <2>3. CASE sends'[e][t] # sends[e][t]
    <3>1. SendToTarget(w)
      BY <1>7, <2>3 DEF FilterTarget
    <3>2. worker[w].event = e /\ worker[w].target = t /\ sends'[e][t] = sends[e][t] + 1
      BY <1>0, <2>3, <3>1, SendToTargetDoes
    <3> QED BY <1>0, <1>a, <1>j, <1>6, <2>1, <3>2, AccountFrame
  <2> QED BY <2>2, <2>3
<1>8. ASSUME NEW w \in Workers, FinishPass(w)
      PROVE  sends'[e][t] + Cardinality(Waiting(e, t)') <= Attempts(e)'
  <2>1. sends' = sends /\ worker[w].pc = "finish"
    BY <1>8 DEF FinishPass
  <2>2. CASE EndInFailure(w)
    BY <1>3, <2>1, <2>2
  <2>3. CASE ~EndInFailure(w)
    <3>1. Others(w) /\ SameBatch(w) /\ job' = job /\ worker'[w].pc = "next"
      BY <1>0, <1>8, <2>3, FinishPassDoes
    <3>2. Pending(w, e, t)' => Pending(w, e, t)
      BY <2>1, <3>1 DEF Pending, SameBatch
    <3> QED BY <1>j, <1>w, <2>1, <3>1, <3>2
  <2> QED BY <2>2, <2>3
<1>9. ASSUME NEW w \in Workers, CompleteBatch(w) \/ Expire(w) \/ WorkerCrash(w) \/ PassThrows(w)
      PROVE  sends'[e][t] + Cardinality(Waiting(e, t)') <= Attempts(e)'
  BY <1>3, <1>9 DEF CompleteBatch, Expire, WorkerCrash, PassThrows
<1>10. ASSUME UNCHANGED vars
       PROVE  sends'[e][t] + Cardinality(Waiting(e, t)') <= Attempts(e)'
  BY <1>a, <1>10 DEF vars, Waiting, Pending, Attempts
<1> QED
  BY <1>1, <1>2, <1>4, <1>5, <1>7, <1>8, <1>9, <1>10 DEF Next, WorkerStep

\* However many executions of the handler are alive, overlap and die, nobody is sent
\* an event more often than its job may be attempted.
THEOREM SentAtMostPerAttempt ==
    ASSUME PipelineAssumption, IsFiniteSet(Workers)
    PROVE  Spec => []SendsBounded
<1>1. Init => QueueInv /\ SendsAccounted
  <2> SUFFICES ASSUME Init PROVE QueueInv /\ SendsAccounted
    OBVIOUS
  <2>1. \A w \in Workers : worker[w].pc = "idle"
    BY IdleTyped DEF Init
  <2>2. \A e \in Events : \A t \in Targets(e) : Waiting(e, t) = {}
    BY <2>1 DEF Waiting, Pending
  <2>3. \A e \in Events : \A t \in Targets(e) : sends[e][t] = 0 /\ Attempts(e) = 0
    BY DEF Init, Attempts
  <2>4. \A e \in Events : \A t \in Targets(e) : Cardinality(Waiting(e, t)) = 0
    BY <2>2, FS_EmptySet
  <2>5. SendsAccounted
    BY <2>3, <2>4 DEF SendsAccounted
  <2> QED BY <2>5, QueueInit
<1>2. QueueInv /\ SendsAccounted /\ [Next]_vars => (QueueInv /\ SendsAccounted)'
  BY QueueNext, AccountNext
<1>3. QueueInv /\ SendsAccounted => SendsBounded
  <2> SUFFICES ASSUME QueueInv, SendsAccounted, NEW e \in Events, NEW t \in Targets(e)
               PROVE  sends[e][t] <= RetryLimit + 1
    BY DEF SendsBounded
  <2>1. TypeOK
    BY DEF QueueInv, TypeInv
  <2>2. Cardinality(Waiting(e, t)) \in Nat
    BY FS_Subset, FS_CardinalityType DEF Waiting
  <2>3. sends[e][t] \in Nat /\ Attempts(e) \in 0..(RetryLimit + 1)
    BY <2>1, AttemptsBounded DEF TypeOK
  <2>4. sends[e][t] + Cardinality(Waiting(e, t)) <= Attempts(e)
    BY DEF SendsAccounted
  <2> QED BY <2>2, <2>3, <2>4 DEF PipelineAssumption
<1> QED BY <1>1, <1>2, <1>3, PTL DEF Spec

------------------------------------------------------------------------------
(* A processed event is final.                                             *)

\* As long as no execution has outlived its jobs, none is at work on an event that
\* is processed.
ProcessedIsLeft ==
    timeouts = 0 =>
        \A w \in Workers : InPass(w) => event[worker[w].event] # "processed"

\* Until one has, no two executions are at work on one event.
LEMMA PassesDisjoint ==
    ASSUME QueueInv, timeouts = 0, NEW v \in Workers, NEW w \in Workers, v # w,
           InPass(v), InPass(w)
    PROVE  worker[v].event # worker[w].event
<1>1. /\ worker[v].event \in worker[v].batch /\ worker[v].pc # "idle"
      /\ worker[w].event \in worker[w].batch /\ worker[w].pc # "idle"
  BY PassesAreOnStored
<1>2. worker[v].awaited /\ worker[w].awaited
  BY <1>1 DEF QueueInv, BatchTells
<1> QED BY <1>1, <1>2 DEF QueueInv, BatchesDisjoint

LEMMA LeftNext ==
    ASSUME PipelineAssumption, QueueInv, ProcessedIsLeft, [Next]_vars
    PROVE  ProcessedIsLeft'
<1>0. TypeOK /\ TypeInv /\ TypeOK'
  BY TypeNext DEF QueueInv, TypeInv
<1> SUFFICES ASSUME timeouts' = 0
             PROVE  \A v \in Workers : InPass(v)' => event'[worker'[v].event] # "processed"
  BY DEF ProcessedIsLeft
<1>t. timeouts = 0 /\ ~\E w \in Workers : Expire(w)
  <2>1. timeouts \in Nat
    BY <1>0 DEF TypeOK, PipelineAssumption
  <2>2. ~\E w \in Workers : Expire(w)
    BY <2>1 DEF Expire
  <2>3. timeouts' = timeouts
    BY <2>2 DEF Next, vars, LookUpEvent, InsertEvent, RefuseInsert, SendJob, MarkUnqueued,
                PusherFails, FetchBatch, WorkerStep, WorkerCrash, CompleteBatch, ReadEvent,
                StartPass, FilterTarget, SendToTarget, FinishPass, PassThrows
  <2> QED BY <2>2, <2>3
<1>p. \A v \in Workers : InPass(v) => worker[v].event \in Events
  BY <1>0 DEF TypeInv, Places
\* Steps that process nothing, and take up nothing that is processed.
<1>f. ASSUME NEW w \in Workers, Others(w),
             \A d \in Events : event'[d] = "processed" => event[d] = "processed",
             InPass(w)' => /\ worker'[w].event \in Events
                           /\ event'[worker'[w].event] # "processed"
      PROVE  \A v \in Workers : InPass(v)' => event'[worker'[v].event] # "processed"
  BY <1>f, <1>t, <1>p DEF ProcessedIsLeft, Others, InPass
<1>1. ASSUME NEW p \in Pushers,
             \/ \E d \in Events : LookUpEvent(p, d)
             \/ InsertEvent(p) \/ RefuseInsert(p) \/ SendJob(p) \/ MarkUnqueued(p) \/ PusherFails(p)
      PROVE  \A v \in Workers : InPass(v)' => event'[worker'[v].event] # "processed"
  <2>1. /\ worker' = worker
        /\ \A d \in Events : event'[d] = "processed" => event[d] = "processed"
    BY <1>0, <1>1 DEF LookUpEvent, InsertEvent, RefuseInsert, SendJob, MarkUnqueued, PusherFails,
                      TypeOK
  <2> QED BY <1>p, <1>t, <2>1 DEF ProcessedIsLeft, InPass
<1>2. ASSUME NEW w \in Workers, \E batch \in SUBSET Events : FetchBatch(w, batch)
      PROVE  \A v \in Workers : InPass(v)' => event'[worker'[v].event] # "processed"
  <2>1. Others(w) /\ worker'[w].pc = "next" /\ event' = event
    BY <1>0, <1>2, FetchBatchDoes DEF FetchBatch
  <2> QED BY <1>f, <2>1 DEF InPass
<1>3. ASSUME NEW w \in Workers, EndInFailure(w) \/ CompleteBatch(w),
             \A d \in Events : event'[d] = "processed" => event[d] = "processed"
      PROVE  \A v \in Workers : InPass(v)' => event'[worker'[v].event] # "processed"
  BY <1>0, <1>3, <1>f, EndDoes DEF InPass
<1>4. ASSUME NEW w \in Workers, CompleteBatch(w) \/ WorkerCrash(w) \/ PassThrows(w)
      PROVE  \A v \in Workers : InPass(v)' => event'[worker'[v].event] # "processed"
  BY <1>0, <1>3, <1>4 DEF CompleteBatch, WorkerCrash, PassThrows, TypeOK
<1>5. ASSUME NEW w \in Workers, ReadEvent(w)
      PROVE  \A v \in Workers : InPass(v)' => event'[worker'[v].event] # "processed"
  <2>1. Others(w) /\ event' = event
    BY <1>0, <1>5, ReadEventDoes DEF ReadEvent
  <2>2. InPass(w)' => worker'[w].event \in Events /\ event[worker'[w].event] # "processed"
    BY <1>0, <1>5, ReadEventDoes DEF InPass
  <2> QED BY <1>f, <2>1, <2>2
<1>6. ASSUME NEW w \in Workers, StartPass(w)
      PROVE  \A v \in Workers : InPass(v)' => event'[worker'[v].event] # "processed"
  <2>1. Others(w) /\ worker'[w].event = worker[w].event /\ worker[w].event \in Events
    BY <1>0, <1>6, <1>p, StartPassDoes DEF InPass
  <2>2. /\ event'[worker[w].event] = "processing"
        /\ \A d \in Events : event'[d] = "processed" => event[d] = "processed"
    BY <1>0, <1>6, <2>1 DEF StartPass, TypeOK
  <2> QED BY <1>f, <2>1, <2>2
<1>7. ASSUME NEW w \in Workers, FilterTarget(w) \/ SendToTarget(w)
      PROVE  \A v \in Workers : InPass(v)' => event'[worker'[v].event] # "processed"
  <2>1. /\ event' = event /\ InPass(w)
        /\ NextTarget(w, FALSE) \/ NextTarget(w, TRUE)
    BY <1>7 DEF FilterTarget, SendToTarget, InPass
  <2>2. Others(w) /\ worker'[w].event = worker[w].event
    BY <1>0, <2>1, NextTargetDoes
  <2> QED BY <1>f, <1>p, <1>t, <2>1, <2>2 DEF ProcessedIsLeft
<1>8. ASSUME NEW w \in Workers, FinishPass(w)
      PROVE  \A v \in Workers : InPass(v)' => event'[worker'[v].event] # "processed"
  <2>1. InPass(w) /\ worker[w].event \in Events
    BY <1>0, <1>8, <1>p, FinishPassDoes DEF InPass
  <2>2. CASE worker[w].failures
    <3>1. EndInFailure(w) /\ event' = [event EXCEPT ![worker[w].event] = "failed"]
      BY <1>0, <1>8, <2>2, FinishPassDoes
    <3>2. \A d \in Events : event'[d] = "processed" => event[d] = "processed"
      BY <1>0, <3>1 DEF TypeOK
    <3> QED BY <1>3, <3>1, <3>2
  <2>3. CASE ~worker[w].failures
    <3>1. /\ Others(w) /\ worker'[w].pc = "next"
          /\ event' = [event EXCEPT ![worker[w].event] = "processed"]
      BY <1>0, <1>8, <2>3, FinishPassDoes
    <3>2. ASSUME NEW v \in Workers, InPass(v)'
          PROVE  event'[worker'[v].event] # "processed"
      <4>1. v # w
        BY <3>1, <3>2 DEF InPass
      <4>2. worker'[v] = worker[v] /\ InPass(v)
        BY <3>1, <3>2, <4>1 DEF Others, InPass
      <4>3. worker[v].event # worker[w].event
        BY <1>t, <2>1, <4>1, <4>2, PassesDisjoint
      <4>4. event[worker[v].event] # "processed" /\ worker[v].event \in Events
        BY <1>p, <1>t, <4>2 DEF ProcessedIsLeft
      <4> QED BY <1>0, <3>1, <4>2, <4>3, <4>4 DEF TypeOK
    <3> QED BY <3>2
  <2> QED BY <2>2, <2>3
<1>9. ASSUME UNCHANGED vars
      PROVE  \A v \in Workers : InPass(v)' => event'[worker'[v].event] # "processed"
  BY <1>9, <1>t DEF vars, ProcessedIsLeft, InPass
<1> QED
  BY <1>t, <1>1, <1>2, <1>4, <1>5, <1>6, <1>7, <1>8, <1>9 DEF Next, WorkerStep

LEMMA ProcessedStays ==
    ASSUME PipelineAssumption, QueueInv, ProcessedIsLeft, Next,
           NEW e \in Events, event[e] = "processed", timeouts = 0
    PROVE  /\ sends'[e] = sends[e]
           /\ event'[e] = "processed" \/ \E p \in Pushers : MarkUnqueued(p)
<1>0. TypeOK /\ TypeInv
  BY DEF QueueInv, TypeInv
<1>1. \A w \in Workers : InPass(w) => worker[w].event # e /\ worker[w].event \in Events
  BY <1>0 DEF ProcessedIsLeft, TypeInv, Places
<1>2. ASSUME NEW w \in Workers, WorkerStep(w)
      PROVE  sends'[e] = sends[e] /\ event'[e] = event[e]
  <2>1. CASE CompleteBatch(w) \/ ReadEvent(w)
    BY <2>1 DEF CompleteBatch, ReadEvent
  <2>2. CASE StartPass(w) \/ FilterTarget(w) \/ FinishPass(w) \/ PassThrows(w)
    <3>1. InPass(w) /\ sends' = sends
      BY <2>2 DEF StartPass, FilterTarget, FinishPass, PassThrows, InPass
    <3>2. \/ event' = event
          \/ \E s \in {"processing", "processed", "failed"} :
                event' = [event EXCEPT ![worker[w].event] = s]
      BY <2>2 DEF StartPass, FilterTarget, FinishPass, PassThrows
    <3> QED BY <1>0, <1>1, <3>1, <3>2 DEF TypeOK
  <2>3. CASE SendToTarget(w)
    <3>1. InPass(w) /\ event' = event
      BY <2>3 DEF SendToTarget, InPass
    <3>2. worker[w].event # e
      BY <1>1, <3>1
    <3> QED BY <1>0, <2>3, <3>1, <3>2, SendToTargetDoes
  <2> QED BY <1>2, <2>1, <2>2, <2>3 DEF WorkerStep
<1>3. ASSUME NEW w \in Workers,
             (\E batch \in SUBSET Events : FetchBatch(w, batch)) \/ Expire(w) \/ WorkerCrash(w)
      PROVE  sends' = sends /\ event' = event
  BY <1>3 DEF FetchBatch, Expire, WorkerCrash
<1>4. ASSUME NEW p \in Pushers,
             \/ \E d \in Events : LookUpEvent(p, d)
             \/ InsertEvent(p) \/ RefuseInsert(p) \/ SendJob(p) \/ PusherFails(p)
      PROVE  sends' = sends /\ event'[e] = event[e]
  BY <1>0, <1>4 DEF LookUpEvent, InsertEvent, RefuseInsert, SendJob, PusherFails, TypeOK
<1>5. ASSUME NEW p \in Pushers, MarkUnqueued(p)
      PROVE  sends' = sends
  BY <1>5 DEF MarkUnqueued
<1> QED BY <1>2, <1>3, <1>4, <1>5 DEF Next

\* A processed event stays processed and is sent to nobody again, until an execution
\* outlives its jobs or a pusher marks it failed.
THEOREM ProcessedStaysFinal == ASSUME PipelineAssumption PROVE Spec => ProcessedIsFinal
<1>1. Init => QueueInv /\ ProcessedIsLeft
  <2> SUFFICES ASSUME Init PROVE QueueInv /\ ProcessedIsLeft
    OBVIOUS
  <2>1. \A w \in Workers : ~InPass(w)
    BY IdleTyped DEF Init, InPass
  <2> QED BY <2>1, QueueInit DEF ProcessedIsLeft
<1>2. QueueInv /\ ProcessedIsLeft /\ [Next]_vars => (QueueInv /\ ProcessedIsLeft)'
  BY QueueNext, LeftNext
<1>3. QueueInv /\ ProcessedIsLeft /\ [Next]_vars =>
          [\A e \in Events : event[e] = "processed" /\ timeouts = 0 =>
              /\ sends'[e] = sends[e]
              /\ event'[e] = "processed" \/ \E p \in Pushers : MarkUnqueued(p)]_vars
  BY ProcessedStays
<1> QED BY <1>1, <1>2, <1>3, PTL DEF Spec, ProcessedIsFinal
==============================================================================
