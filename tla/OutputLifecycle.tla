--------------------------- MODULE OutputLifecycle ---------------------------
(***************************************************************************)
(* How an output starts, fails, retries and stops: the rows the operator     *)
(* edits, the reconciler's output pass (bootstrap/egress.rs,                  *)
(* application/reconcile.rs, topology.rs), the egress registry               *)
(* (engine_egress.rs), one task per attempt (bootstrap/egress_task.rs) and    *)
(* the RTMP fabric it drives (engine_rtmp_egress_fabric.rs,                   *)
(* egress/manager.rs).                                                       *)
(*                                                                          *)
(* Every await between two reads or writes of shared state is a step         *)
(* boundary.  The fabric has one shard here (EgressManager has several) and   *)
(* a leaf is only the generation it serves (RtmpConnect has its life).       *)
(* Passes are requested by events and by a backstop timer; here one may      *)
(* start whenever the last has ended.                                       *)
(***************************************************************************)
EXTENDS Naturals, Sequences, FiniteSets, SequencesExt

CONSTANTS
    Outputs,
    MaxRetries,       \* output_max_retries
    ChannelCapacity,  \* the shard's command channel
    MaxAttempts,      \* bound: registrations
    MaxEvents         \* bound: operator requests and losses of the ingest

ASSUME LifecycleConstants ==
    /\ Outputs # {} /\ IsFiniteSet(Outputs)
    /\ MaxRetries \in Nat \ {0} /\ ChannelCapacity \in Nat \ {0}
    /\ MaxAttempts \in Nat /\ MaxEvents \in Nat

VARIABLES
    row,          \* the outputs table
    ingest,       \* none (its grace included), unprobed, ready
    pc, outputs, todo,  \* the output pass: where it is, rows it read, rows left
    tokens,       \* current attempt (cancel_tokens and active), 0 when none
    retry,        \* outputs with a published retry state
    last_failed,  \* retries counted and whether their backoff ran out
    attempts,     \* attempts registered so far
    task,         \* per attempt: its output, phase and what it has read
    cancelled,    \* attempts whose token is cancelled
    terminated,   \* attempts whose leaf was reported lost
    progressed,   \* attempts that recorded progress
    holders,      \* active_outputs of the feed's runtime; 0: no runtime
    startup,      \* publish startup by output: the attempt that wrote it
    desired,      \* the manager's generation by output, 0 when none
    channel,      \* the shard's command channel
    leaf, live,   \* generation the shard serves by output, and those connected
    events        \* requests and losses so far

passVars == <<pc, outputs, todo>>
registryVars == <<tokens, retry, last_failed, cancelled>>
taskVars == <<attempts, task>>
leafVars == <<terminated, progressed, leaf, live>>
fabricVars == <<holders, startup, desired, channel>>
vars == <<row, ingest, passVars, registryVars, taskVars, leafVars, fabricVars, events>>

Attempts == 1 .. MaxAttempts
Row == [desired_state : {"running", "stopped", "deleted"}, retries_exhausted : BOOLEAN]
NotFailed == [retries |-> 0, waited |-> FALSE]
Command == [kind : {"add"}, output : Outputs, generation : Attempts]
             \cup [kind : {"remove"}, output : Outputs] \cup [kind : {"feed_wake"}]
Phases == {"retain", "startup", "add", "wait", "remove", "release",
           "judge", "count", "publish", "unregister", "done"}
Task == [output : Outputs, phase : Phases, is_cancelled : BOOLEAN, retries : Nat]

TypeOK ==
    /\ row \in [Outputs -> Row]
    /\ ingest \in {"none", "unprobed", "ready"}
    /\ pc \in [at : {"idle", "topology", "decide"}]
              \cup [at : {"mark", "forget", "backoff", "start", "register", "stop"},
                    output : Outputs]
    /\ outputs \in [Outputs -> Row] /\ todo \subseteq Outputs
    /\ tokens \in [Outputs -> 0 .. attempts] /\ retry \subseteq Outputs
    /\ last_failed \in [Outputs -> [retries : 0 .. attempts, waited : BOOLEAN]]
    /\ attempts \in 0 .. MaxAttempts
    /\ task \in [1 .. attempts -> Task]
    /\ cancelled \cup terminated \cup progressed \subseteq 1 .. attempts
    /\ holders \in 0 .. attempts
    /\ startup \in [Outputs -> 0 .. attempts] /\ desired \in [Outputs -> 0 .. attempts]
    /\ leaf \in [Outputs -> 0 .. attempts] /\ live \subseteq Outputs
    /\ Len(channel) <= ChannelCapacity /\ Range(channel) \subseteq Command

\* The process starts on the rows it finds.
Init ==
    /\ row \in [Outputs -> {r \in Row : r.desired_state # "deleted"}]
    /\ ingest = "none"
    /\ pc = [at |-> "idle"] /\ outputs = row /\ todo = {}
    /\ tokens = [o \in Outputs |-> 0] /\ retry = {}
    /\ last_failed = [o \in Outputs |-> NotFailed]
    /\ attempts = 0 /\ task = <<>>
    /\ cancelled = {} /\ terminated = {} /\ progressed = {}
    /\ holders = 0 /\ startup = tokens /\ desired = tokens /\ channel = <<>> /\ leaf = tokens /\ live = {}
    /\ events = 0
-----------------------------------------------------------------------------
(* The operator and the ingest. *)

\* set_output_desired_state and delete_output
Request(o, state) ==
    /\ row[o].desired_state # "deleted" /\ events < MaxEvents
    /\ row' = [row EXCEPT ![o] = [desired_state |-> state, retries_exhausted |-> FALSE]]
    /\ events' = events + 1
    /\ UNCHANGED <<ingest, passVars, registryVars, taskVars, leafVars, fabricVars>>

\* An ingest connects, lands its probe, or is gone past its grace.
Ingest ==
    /\ \/ ingest = "none" /\ ingest' \in {"unprobed", "ready"} /\ UNCHANGED events
       \/ ingest = "unprobed" /\ ingest' = "ready" /\ UNCHANGED events
       \/ ingest # "none" /\ events < MaxEvents /\ ingest' = "none" /\ events' = events + 1
    /\ UNCHANGED <<row, passVars, registryVars, taskVars, leafVars, fabricVars>>

BackoffElapses(o) ==
    /\ last_failed[o].retries > 0 /\ ~last_failed[o].waited
    /\ last_failed' = [last_failed EXCEPT ![o].waited = TRUE]
    /\ UNCHANGED <<row, ingest, passVars, tokens, retry, cancelled, taskVars, leafVars,
                   fabricVars, events>>
-----------------------------------------------------------------------------
(* The output pass. *)

\* list_outputs: the pass works on these rows to its end.
BeginPass ==
    /\ pc.at = "idle"
    /\ outputs' = row
    /\ pc' = [at |-> "topology"]
    /\ UNCHANGED <<row, ingest, todo, registryVars, taskVars, leafVars, fabricVars, events>>

\* Mutant: the token is dropped without being cancelled.
UnregisterQuietly(os) ==
    /\ tokens' = [o \in Outputs |-> IF o \in os THEN 0 ELSE tokens[o]]
    /\ retry' = retry \ os
    /\ UNCHANGED cancelled

\* unregister_egress for every output of os
Unregister(os) ==
    /\ tokens' = [o \in Outputs |-> IF o \in os THEN 0 ELSE tokens[o]]
    /\ cancelled' = cancelled \cup ({tokens[o] : o \in os} \ {0})
    /\ retry' = retry \ os

\* converge_topology: registrations whose row is gone.
ConvergeTopology ==
    /\ pc.at = "topology"
    /\ Unregister({o \in Outputs : tokens[o] # 0 /\ outputs[o].desired_state = "deleted"})
    /\ todo' = {o \in Outputs : outputs[o].desired_state # "deleted"}
    /\ pc' = [at |-> "decide"]
    /\ UNCHANGED <<row, ingest, outputs, last_failed, taskVars, leafVars, fabricVars, events>>

\* Mutant: the elapsed time is not compared with the backoff.
DecisionNeverDue(o) ==
    LET wanted == outputs[o].desired_state = "running"
        active == tokens[o] # 0
    IN  IF wanted /\ ~outputs[o].retries_exhausted /\ ~active
        THEN IF ingest = "none" THEN "skip_no_ingest"
             ELSE IF ingest = "unprobed" THEN "skip_probe_pending"
             ELSE IF last_failed[o].retries >= MaxRetries THEN "mark"
             ELSE IF last_failed[o].retries > 0 THEN "backoff"
             ELSE "start"
        ELSE IF active /\ (~wanted \/ ingest = "none") THEN "stop" ELSE "keep"

\* decide_output_start_action and decide_output_stop_action, on one look at
\* the registry, the ingest and the failure count.
Decision(o) ==
    LET wanted == outputs[o].desired_state = "running"
        active == tokens[o] # 0
        failure == last_failed[o]
    IN  IF wanted /\ ~outputs[o].retries_exhausted /\ ~active
        THEN IF ingest = "none" THEN "skip_no_ingest"
             ELSE IF ingest = "unprobed" THEN "skip_probe_pending"
             ELSE IF failure.retries >= MaxRetries THEN "mark"
             ELSE IF failure.retries > 0 /\ ~failure.waited THEN "backoff"
             ELSE "start"
        ELSE IF active /\ (~wanted \/ ingest = "none") THEN "stop" ELSE "keep"

Decide(o) ==
    /\ pc.at = "decide" /\ o \in todo
    /\ todo' = todo \ {o}
    /\ pc' = IF Decision(o) \in {"mark", "backoff", "start", "stop"}
             THEN [at |-> Decision(o), output |-> o]
             ELSE pc
    /\ retry' = IF \/ outputs[o].desired_state = "stopped" \/ outputs[o].retries_exhausted
                   \/ Decision(o) = "skip_no_ingest"
                THEN retry \ {o} ELSE retry
    /\ UNCHANGED <<row, ingest, outputs, tokens, last_failed, cancelled, taskVars, leafVars,
                   fabricVars, events>>

EndPass ==
    /\ pc.at = "decide" /\ todo = {}
    /\ pc' = [at |-> "idle"]
    /\ UNCHANGED <<row, ingest, outputs, todo, registryVars, taskVars, leafVars, fabricVars,
                   events>>

\* mark_output_retries_exhausted, which may fail; a deleted row is not there
\* to be marked.
MarkExhausted ==
    /\ pc.at = "mark"
    /\ \/ /\ row' = [row EXCEPT ![pc.output].retries_exhausted =
                                  (row[pc.output].desired_state # "deleted")]
          /\ pc' = [at |-> "forget", output |-> pc.output]
       \/ /\ pc' = [at |-> "decide"]
          /\ UNCHANGED row
    /\ UNCHANGED <<ingest, outputs, todo, registryVars, taskVars, leafVars, fabricVars, events>>

ForgetFailure ==
    /\ pc.at = "forget"
    /\ last_failed' = [last_failed EXCEPT ![pc.output] = NotFailed]
    /\ retry' = retry \ {pc.output}
    /\ pc' = [at |-> "decide"]
    /\ UNCHANGED <<row, ingest, outputs, todo, tokens, cancelled, taskVars, leafVars, fabricVars,
                   events>>

\* update_egress_retry_state: the entry is withheld beside an active egress.
PublishRetry(o) ==
    retry' = IF tokens[o] # 0 THEN retry \ {o} ELSE retry \cup {o}

WaitRetry ==
    /\ pc.at = "backoff"
    /\ PublishRetry(pc.output)
    /\ pc' = [at |-> "decide"]
    /\ UNCHANGED <<row, ingest, outputs, todo, tokens, last_failed, cancelled, taskVars,
                   leafVars, fabricVars, events>>

StopOutput ==
    /\ pc.at = "stop"
    /\ Unregister({pc.output})
    /\ pc' = [at |-> "decide"]
    /\ UNCHANGED <<row, ingest, outputs, todo, last_failed, taskVars, leafVars, fabricVars,
                   events>>

\* register_egress_attempt_with_meta clears the retry state, gives its lock
\* back, and only then inserts the token.
ClearRetry ==
    /\ pc.at = "start"
    /\ retry' = retry \ {pc.output}
    /\ pc' = [at |-> "register", output |-> pc.output]
    /\ UNCHANGED <<row, ingest, outputs, todo, tokens, last_failed, cancelled, taskVars,
                   leafVars, fabricVars, events>>

\* The registration, and the task spawned for it; without a publish startup
\* (prepare_rtmp_fabric_startup failed) the task has nothing to run.
Register ==
    LET a == attempts + 1
    IN  /\ pc.at = "register" /\ attempts < MaxAttempts
        /\ attempts' = a
        /\ tokens' = [tokens EXCEPT ![pc.output] = a]
        /\ \E phase \in {"retain", "judge"} :
             task' = Append(task, [output |-> pc.output, phase |-> phase,
                                   is_cancelled |-> FALSE, retries |-> 0])
        /\ pc' = [at |-> "decide"]
        /\ UNCHANGED <<row, ingest, outputs, todo, retry, last_failed, cancelled, leafVars,
                       fabricVars, events>>
-----------------------------------------------------------------------------
(* The attempt's task: EgressTask::run and run_rtmp_fabric. *)

At(a, phase) == a \in 1 .. attempts /\ task[a].phase = phase
Goto(a, phase) == task' = [task EXCEPT ![a].phase = phase]
Out(a) == task[a].output

taskOnly == <<row, ingest, passVars, attempts, events>>

\* Mutant: only the attempt that creates the runtime is counted.
RetainCreator(a) ==
    /\ At(a, "retain")
    /\ holders' = (IF holders = 0 THEN 1 ELSE holders) /\ Goto(a, "startup")
    /\ UNCHANGED <<taskOnly, registryVars, leafVars, startup, desired, channel>>

\* retain_rtmp_fabric_runtime, which may fail to spawn the runtime.
Retain(a) ==
    /\ At(a, "retain")
    /\ \/ holders' = holders + 1 /\ Goto(a, "startup")
       \/ holders = 0 /\ Goto(a, "judge") /\ UNCHANGED holders
    /\ UNCHANGED <<taskOnly, registryVars, leafVars, startup, desired, channel>>

\* set_rtmp_publish_startup
SetStartup(a) ==
    /\ At(a, "startup")
    /\ startup' = [startup EXCEPT ![Out(a)] = a]
    /\ Goto(a, "add")
    /\ UNCHANGED <<taskOnly, registryVars, leafVars, holders, desired, channel>>

Room == Len(channel) < ChannelCapacity

\* Mutant: no generation check.
DispatchAddAnyGeneration(a) ==
    LET o == Out(a)
    IN  /\ At(a, "add") /\ Room
        /\ channel' = Append(channel, [kind |-> "add", output |-> o, generation |-> a])
        /\ desired' = [desired EXCEPT ![o] = a]
        /\ Goto(a, "wait")
        /\ UNCHANGED <<taskOnly, registryVars, leafVars, holders, startup>>

\* dispatch_rtmp_fabric_command(Add): admission for an output new to the
\* manager, the generation check, the channel.
DispatchAdd(a) ==
    LET o == Out(a)
    IN  /\ At(a, "add")
        /\ \/ /\ desired[o] > a
              /\ Goto(a, "wait")
              /\ UNCHANGED <<startup, desired, channel>>
           \/ /\ desired[o] < a /\ Room
              /\ channel' = Append(channel, [kind |-> "add", output |-> o, generation |-> a])
              /\ desired' = [desired EXCEPT ![o] = a]
              /\ Goto(a, "wait")
              /\ UNCHANGED startup
           \/ /\ desired[o] < a /\ (~Room \/ desired[o] = 0)
              /\ startup' = [startup EXCEPT ![o] = 0]
              /\ Goto(a, "release")
              /\ UNCHANGED <<desired, channel>>
        /\ UNCHANGED <<taskOnly, registryVars, leafVars, holders>>

\* Mutant: the cancellation is not awaited.
StopWaitingTerminated(a) ==
    /\ At(a, "wait") /\ a \in terminated
    /\ Goto(a, "remove")
    /\ UNCHANGED <<taskOnly, registryVars, leafVars, fabricVars>>

\* wait_for_stop_or_leaf_failure: cancelled, reported by the shard, or a
\* stage this output reads ended.
StopWaiting(a) ==
    /\ At(a, "wait") /\ a \in cancelled \cup terminated
    /\ Goto(a, "remove")
    /\ UNCHANGED <<taskOnly, registryVars, leafVars, fabricVars>>
StageEnded(a) ==
    /\ At(a, "wait")
    /\ Goto(a, "remove")
    /\ UNCHANGED <<taskOnly, registryVars, leafVars, fabricVars>>

\* dispatch_rtmp_fabric_command(Remove), whose result nobody looks at.
DispatchRemove(a) ==
    LET o == Out(a)
    IN  /\ At(a, "remove")
        /\ startup' = [startup EXCEPT ![o] = 0]
        /\ IF desired[o] # 0 /\ Room
           THEN /\ channel' = Append(channel, [kind |-> "remove", output |-> o])
                /\ desired' = [desired EXCEPT ![o] = 0]
           ELSE UNCHANGED <<channel, desired>>
        /\ Goto(a, "release")
        /\ UNCHANGED <<taskOnly, registryVars, leafVars, holders>>

\* release_rtmp_fabric_runtime: the last holder shuts the runtime down.
Release(a) ==
    LET none == [o \in Outputs |-> 0]
    IN  /\ At(a, "release")
        /\ holders' = holders - 1
        /\ IF holders = 1
           THEN startup' = none /\ desired' = none /\ channel' = <<>> /\ leaf' = none /\ live' = {}
           ELSE UNCHANGED <<startup, desired, channel, leaf, live>>
        /\ Goto(a, "judge")
        /\ UNCHANGED <<taskOnly, registryVars, terminated, progressed>>

\* The end of EgressTask::run.
Judge(a) ==
    /\ At(a, "judge")
    /\ task' = [task EXCEPT ![a].phase = "count", ![a].is_cancelled = (a \in cancelled)]
    /\ UNCHANGED <<taskOnly, registryVars, leafVars, fabricVars>>

\* next_output_retry_count: progress of the current attempt starts the
\* count again.
NextRetryCount(a, previous) ==
    IF tokens[Out(a)] = a /\ a \in progressed THEN 1 ELSE previous + 1

Count(a) ==
    LET o == Out(a)
        retries == IF task[a].is_cancelled THEN 0 ELSE NextRetryCount(a, last_failed[o].retries)
    IN  /\ At(a, "count")
        /\ last_failed' = [last_failed EXCEPT ![o] = [retries |-> retries, waited |-> FALSE]]
        /\ task' = [task EXCEPT ![a].phase = "publish", ![a].retries = retries]
        /\ UNCHANGED <<row, ingest, passVars, attempts, tokens, retry, cancelled, leafVars,
                       fabricVars, events>>

Publish(a) ==
    LET o == Out(a)
    IN  /\ At(a, "publish")
        /\ IF task[a].retries \in 1 .. MaxRetries - 1
           THEN PublishRetry(o) ELSE retry' = retry \ {o}
        /\ Goto(a, "unregister")
        /\ UNCHANGED <<taskOnly, tokens, last_failed, cancelled, leafVars, fabricVars>>

\* Mutant: an attempt leaves its registration behind.
UnregisterSkipped(a) ==
    /\ At(a, "unregister")
    /\ Goto(a, "done")
    /\ UNCHANGED <<taskOnly, registryVars, leafVars, fabricVars>>

\* unregister_egress_if_current
UnregisterIfCurrent(a) ==
    LET o == Out(a)
    IN  /\ At(a, "unregister")
        /\ IF tokens[o] = a
           THEN tokens' = [tokens EXCEPT ![o] = 0] /\ cancelled' = cancelled \cup {a}
           ELSE UNCHANGED <<tokens, cancelled>>
        /\ Goto(a, "done")
        /\ UNCHANGED <<taskOnly, retry, last_failed, leafVars, fabricVars>>
-----------------------------------------------------------------------------
(* The shard. *)

shardOnly == <<row, ingest, passVars, registryVars, taskVars, holders, startup, desired, events>>

\* The feed's coalesced wake takes a place in the same channel.
FeedWake ==
    /\ holders > 0 /\ Room /\ [kind |-> "feed_wake"] \notin Range(channel)
    /\ channel' = Append(channel, [kind |-> "feed_wake"])
    /\ UNCHANGED <<shardOnly, leafVars>>

Process ==
    /\ channel # <<>>
    /\ channel' = Tail(channel)
    /\ LET c == Head(channel)
       IN  IF c.kind = "feed_wake" THEN UNCHANGED <<leaf, live>>
           ELSE /\ leaf' = [leaf EXCEPT ![c.output] = IF c.kind = "add" THEN c.generation ELSE 0]
                /\ live' = live \ {c.output}
    /\ UNCHANGED <<shardOnly, terminated, progressed>>

\* activate_connected needs the output's publish startup.
Activate(o) ==
    /\ leaf[o] # 0 /\ o \notin live /\ startup[o] # 0
    /\ live' = live \cup {o}
    /\ UNCHANGED <<shardOnly, channel, leaf, terminated, progressed>>

\* A connect, a peer or a stall ends the leaf, and its attempt is told.
LeafFails(o) ==
    /\ leaf[o] # 0
    /\ leaf' = [leaf EXCEPT ![o] = 0] /\ live' = live \ {o}
    /\ terminated' = terminated \cup {leaf[o]}
    /\ UNCHANGED <<shardOnly, channel, progressed>>

Progress(o) ==
    /\ o \in live
    /\ progressed' = progressed \cup {leaf[o]}
    /\ UNCHANGED <<shardOnly, channel, leaf, live, terminated>>
-----------------------------------------------------------------------------
Pass ==
    \/ BeginPass \/ ConvergeTopology \/ EndPass \/ MarkExhausted \/ ForgetFailure \/ WaitRetry
    \/ StopOutput \/ ClearRetry \/ Register
    \/ \E o \in Outputs : Decide(o)

TaskStep(a) ==
    \/ Retain(a) \/ SetStartup(a) \/ DispatchAdd(a) \/ StopWaiting(a) \/ DispatchRemove(a)
    \/ Release(a) \/ Judge(a) \/ Count(a) \/ Publish(a) \/ UnregisterIfCurrent(a)

Next ==
    \/ \E o \in Outputs :
         \/ \E state \in {"running", "stopped", "deleted"} : Request(o, state)
         \/ BackoffElapses(o) \/ Activate(o) \/ LeafFails(o) \/ Progress(o)
    \/ Ingest \/ Pass \/ FeedWake \/ Process
    \/ \E a \in Attempts : TaskStep(a) \/ StageEnded(a)

Spec == Init /\ [][Next]_vars

\* The reconciler loop and the tasks run on a runtime that keeps polling
\* them, the shard thread keeps draining its channel, and time passes.
FairSpec ==
    /\ Spec
    /\ WF_vars(Pass) /\ WF_vars(Process)
    /\ \A o \in Outputs : WF_vars(BackoffElapses(o))
    /\ \A a \in Attempts : WF_vars(TaskStep(a))
-----------------------------------------------------------------------------
(* Properties. *)

Running(a) == task[a].phase # "done"
Holds(a) == task[a].phase \in {"startup", "add", "wait", "remove", "release"}

\* No task runs on unseen: an attempt that has not ended is the one its
\* output's registration names, so a stop reaches it, or its token is
\* cancelled already.
OrphanIsCancelled ==
    \A a \in 1 .. attempts : Running(a) => tokens[Out(a)] = a \/ a \in cancelled

\* A registration belongs to a task that will unregister it; a registration
\* left behind would hold its output active and never restarted.
RegistrationIsOwned ==
    \A o \in Outputs : tokens[o] # 0 => Running(tokens[o]) /\ Out(tokens[o]) = o

\* The feed's runtime lives exactly as long as some attempt holds it: no
\* attempt dispatches to a runtime another one shut down, and none is left
\* running for nobody.
RuntimeIsHeld == holders = Cardinality({a \in 1 .. attempts : Holds(a)})

\* The shard moves an output only to a newer attempt, though an older one may
\* still dispatch its Add after it.
ServesForward ==
    [][\A o \in Outputs : leaf[o] # 0 /\ leaf'[o] # 0 => leaf'[o] >= leaf[o]]_vars

\* Nothing streams for an output whose attempts have all ended: the manager
\* has dropped its spec.
EndedIsRemoved ==
    \A o \in Outputs : desired[o] # 0 => \E a \in 1 .. attempts : Out(a) = o /\ Running(a)

\* A stopped or deleted output goes quiet: no registration, no running
\* attempt, no leaf, unless the operator asks for it again.
StopsEventually ==
    \A o \in Outputs :
        row[o].desired_state # "running" ~>
            \/ row[o].desired_state = "running"
            \/ /\ tokens[o] = 0 /\ leaf[o] = 0
               /\ \A a \in 1 .. attempts : Out(a) = o => ~Running(a)

\* A wanted output whose ingest is ready is started, or its retries are
\* declared exhausted; waiting out a backoff ends.
StartsEventually ==
    \A o \in Outputs :
        row[o].desired_state = "running" /\ ingest = "ready" ~>
            \/ tokens[o] # 0 \/ row[o].retries_exhausted
            \/ row[o].desired_state # "running" \/ ingest # "ready" \/ attempts = MaxAttempts
=============================================================================
