------------------------ MODULE OutputLifecycleProofs ------------------------
(***************************************************************************)
(* For any number of outputs, attempts, requests and retries: a running      *)
(* attempt is either the one its output's registration names or cancelled,  *)
(* and a registration names a running attempt of its own output.             *)
(***************************************************************************)
EXTENDS OutputLifecycle, TLAPS

\* The types the argument needs.
LifecycleTypes ==
    /\ attempts \in Nat
    /\ task \in Seq(Task) /\ Len(task) = attempts
    /\ tokens \in [Outputs -> Nat]
    /\ cancelled \subseteq Nat
    /\ last_failed \in [Outputs -> [retries : Nat, waited : BOOLEAN]]
    /\ pc \in [at : {"idle", "topology", "decide"}]
              \cup [at : {"mark", "forget", "backoff", "start", "register", "stop"},
                    output : Outputs]

\* A registration names a running attempt of its own output.
Owned ==
    \A o \in Outputs : tokens[o] # 0 =>
        /\ tokens[o] \in 1 .. attempts
        /\ task[tokens[o]].output = o /\ task[tokens[o]].phase # "done"

\* A running attempt is registered or cancelled.
Reached ==
    \A a \in 1 .. attempts :
        task[a].phase # "done" => tokens[task[a].output] = a \/ a \in cancelled

\* The pass registers only where it saw no registration, and nothing else
\* registers: what it saw still holds when it inserts the token.
Vacant == pc.at \in {"start", "register"} => tokens[pc.output] = 0

LifecycleInv == LifecycleTypes /\ Owned /\ Reached /\ Vacant
-----------------------------------------------------------------------------
\* A task's record is replaced: the sequence keeps its length, its outputs
\* and the phases of the other tasks.
LEMMA ReplaceTask ==
    ASSUME LifecycleTypes, NEW a \in 1 .. attempts, NEW t \in Task,
           t.output = task[a].output, task' = [task EXCEPT ![a] = t]
    PROVE  /\ task' \in Seq(Task) /\ Len(task') = attempts
           /\ task'[a].phase = t.phase
           /\ \A b \in 1 .. attempts : task'[b].output = task[b].output
           /\ \A b \in 1 .. attempts : b # a => task'[b].phase = task[b].phase
<1>1. task' \in Seq(Task) /\ Len(task') = attempts
  BY DEF LifecycleTypes
<1>2. \A b \in 1 .. attempts : b # a => task'[b] = task[b]
  BY DEF LifecycleTypes
<1>3. task'[a] = t
  BY DEF LifecycleTypes
<1> QED
  BY <1>1, <1>2, <1>3

\* A step that moves one running task to another phase, short of its end, and
\* leaves the registry alone keeps the invariant.
LEMMA MovesOn ==
    ASSUME LifecycleInv, NEW a \in 1 .. attempts, NEW phase \in Phases,
           task[a].phase # "done", phase # "done",
           NEW t \in Task, t.output = task[a].output, t.phase = phase,
           task' = [task EXCEPT ![a] = t],
           last_failed' \in [Outputs -> [retries : Nat, waited : BOOLEAN]],
           UNCHANGED <<attempts, tokens, cancelled, pc>>
    PROVE  LifecycleInv'
<1>0. /\ task' \in Seq(Task) /\ Len(task') = attempts
      /\ task'[a].phase = phase
      /\ \A b \in 1 .. attempts : task'[b].output = task[b].output
      /\ \A b \in 1 .. attempts : b # a => task'[b].phase = task[b].phase
  BY ReplaceTask DEF LifecycleInv
<1>1. LifecycleTypes'
  BY <1>0 DEF LifecycleInv, LifecycleTypes
<1>2. Owned'
  BY <1>0 DEF LifecycleInv, LifecycleTypes, Owned
<1>3. Reached'
  BY <1>0 DEF LifecycleInv, LifecycleTypes, Reached
<1>4. Vacant'
  BY DEF LifecycleInv, Vacant
<1> QED
  BY <1>1, <1>2, <1>3, <1>4 DEF LifecycleInv

\* The same, for a step that only sets the phase.
LEMMA GoesOn ==
    ASSUME LifecycleInv, NEW a \in 1 .. attempts, NEW phase \in Phases,
           task[a].phase # "done", phase # "done", Goto(a, phase),
           UNCHANGED <<attempts, tokens, cancelled, pc, last_failed>>
    PROVE  LifecycleInv'
<1> DEFINE t == [task[a] EXCEPT !.phase = phase]
<1>1. task[a] \in Task
  BY DEF LifecycleInv, LifecycleTypes
<1>2. t \in Task /\ t.output = task[a].output /\ t.phase = phase
  BY <1>1 DEF Task
<1>3. task' = [task EXCEPT ![a] = t]
  BY DEF Goto
<1>4. last_failed' \in [Outputs -> [retries : Nat, waited : BOOLEAN]]
  BY DEF LifecycleInv, LifecycleTypes
<1> HIDE DEF t
<1> QED
  BY <1>2, <1>3, <1>4, MovesOn

\* A step that leaves the registry and the tasks alone.
LEMMA RegistryUntouched ==
    ASSUME LifecycleInv, UNCHANGED <<attempts, task, tokens, cancelled>>,
           last_failed' \in [Outputs -> [retries : Nat, waited : BOOLEAN]],
           pc' \in [at : {"idle", "topology", "decide"}]
                  \cup [at : {"mark", "forget", "backoff", "start", "register", "stop"},
                        output : Outputs],
           pc'.at \in {"start", "register"} => tokens[pc'.output] = 0
    PROVE  LifecycleInv'
<1>1. LifecycleTypes'
  BY DEF LifecycleInv, LifecycleTypes
<1>2. Owned' /\ Reached' /\ Vacant'
  BY DEF LifecycleInv, Owned, Reached, Vacant
<1> QED
  BY <1>1, <1>2 DEF LifecycleInv

\* unregister_egress cancels what it drops.
LEMMA UnregisterCancels ==
    ASSUME LifecycleInv, NEW os \in SUBSET Outputs, Unregister(os),
           UNCHANGED <<attempts, task, last_failed>>, pc' = [at |-> "decide"]
    PROVE  LifecycleInv'
<1>1. tokens' \in [Outputs -> Nat] /\ cancelled' \subseteq Nat
  BY DEF LifecycleInv, LifecycleTypes, Unregister
<1>2. LifecycleTypes'
  BY <1>1 DEF LifecycleInv, LifecycleTypes
<1>3. Owned'
  BY DEF LifecycleInv, LifecycleTypes, Owned, Unregister
<1>4. Reached'
  <2> SUFFICES ASSUME NEW a \in 1 .. attempts, task[a].phase # "done"
               PROVE  tokens'[task[a].output] = a \/ a \in cancelled'
    BY DEF Reached
  <2>0. task[a] \in Task
    BY DEF LifecycleInv, LifecycleTypes
  <2>1. task[a].output \in Outputs
    BY <2>0 DEF Task
  <2>2. tokens[task[a].output] = a \/ a \in cancelled
    BY DEF LifecycleInv, Reached
  <2>3. a # 0
    BY DEF LifecycleInv, LifecycleTypes
  <2> QED
    BY <2>1, <2>2, <2>3 DEF Unregister
<1>5. Vacant'
  BY DEF Vacant
<1> QED
  BY <1>2, <1>3, <1>4, <1>5 DEF LifecycleInv

\* The pass inserts a registration where there was none, for a new task.
LEMMA RegisterInserts == LifecycleInv /\ Register => LifecycleInv'
<1> SUFFICES ASSUME LifecycleInv, Register PROVE LifecycleInv'
  OBVIOUS
<1> DEFINE o == pc.output
<1>1. o \in Outputs /\ tokens[o] = 0
  BY DEF LifecycleInv, LifecycleTypes, Vacant, Register
<1>2. PICK t \in Task : t.output = o /\ t.phase # "done" /\ task' = Append(task, t)
  <2>1. PICK phase \in {"retain", "judge"} :
          task' = Append(task, [output |-> o, phase |-> phase,
                                is_cancelled |-> FALSE, retries |-> 0])
    BY DEF Register
  <2>2. [output |-> o, phase |-> phase, is_cancelled |-> FALSE, retries |-> 0] \in Task
    BY <1>1 DEF Task, Phases
  <2> QED
    BY <2>1, <2>2
<1>3. /\ attempts' = attempts + 1 /\ attempts \in Nat
      /\ tokens' = [tokens EXCEPT ![o] = attempts + 1]
      /\ cancelled' = cancelled /\ last_failed' = last_failed
      /\ pc' = [at |-> "decide"]
  BY DEF Register, LifecycleInv, LifecycleTypes
<1>4. /\ task' \in Seq(Task) /\ Len(task') = attempts + 1
      /\ task'[attempts + 1] = t
      /\ \A a \in 1 .. attempts : task'[a] = task[a]
  BY <1>2, <1>3 DEF LifecycleInv, LifecycleTypes
<1> HIDE DEF o
<1>5. LifecycleTypes'
  BY <1>1, <1>3, <1>4 DEF LifecycleInv, LifecycleTypes
<1>6. Owned'
  <2> SUFFICES ASSUME NEW p \in Outputs, tokens'[p] # 0
               PROVE  /\ tokens'[p] \in 1 .. attempts + 1
                      /\ task'[tokens'[p]].output = p /\ task'[tokens'[p]].phase # "done"
    BY <1>3 DEF Owned
  <2>1. CASE p = o
    BY <2>1, <1>1, <1>2, <1>3, <1>4 DEF LifecycleInv, LifecycleTypes
  <2>2. CASE p # o
    <3>1. tokens'[p] = tokens[p]
      BY <2>2, <1>1, <1>3 DEF LifecycleInv, LifecycleTypes
    <3> QED
      BY <3>1, <1>3, <1>4 DEF LifecycleInv, Owned
  <2> QED
    BY <2>1, <2>2
<1>7. Reached'
  <2> SUFFICES ASSUME NEW a \in 1 .. attempts + 1, task'[a].phase # "done"
               PROVE  tokens'[task'[a].output] = a \/ a \in cancelled
    BY <1>3 DEF Reached
  <2>1. CASE a = attempts + 1
    BY <2>1, <1>1, <1>2, <1>3, <1>4 DEF LifecycleInv, LifecycleTypes
  <2>2. CASE a # attempts + 1
    <3>1. a \in 1 .. attempts /\ task'[a] = task[a] /\ task[a].phase # "done"
      BY <2>2, <1>3, <1>4
    <3>2. task[a] \in Task
      BY <3>1 DEF LifecycleInv, LifecycleTypes
    <3>3. task[a].output \in Outputs
      BY <3>2 DEF Task
    <3>4. tokens[task[a].output] = a \/ a \in cancelled
      BY <3>1 DEF LifecycleInv, Reached
    <3>5. a # 0
      BY <1>3
    <3>6. tokens[task[a].output] = a => tokens'[task[a].output] = a
      BY <1>1, <1>3, <3>3, <3>5 DEF LifecycleInv, LifecycleTypes
    <3> QED
      BY <3>1, <3>4, <3>6
  <2> QED
    BY <2>1, <2>2
<1>8. Vacant'
  BY <1>3 DEF Vacant
<1> QED
  BY <1>5, <1>6, <1>7, <1>8 DEF LifecycleInv

\* The attempt that ends takes its own registration with it, and no other.
LEMMA UnregistersItself ==
    ASSUME LifecycleInv, NEW a \in Attempts, UnregisterIfCurrent(a)
    PROVE  LifecycleInv'
<1> DEFINE o == task[a].output
           t == [task[a] EXCEPT !.phase = "done"]
<1>1. a \in 1 .. attempts /\ task[a].phase # "done" /\ a # 0
  BY DEF UnregisterIfCurrent, At, LifecycleInv, LifecycleTypes
<1>2. task[a] \in Task
  BY <1>1 DEF LifecycleInv, LifecycleTypes
<1>3. o \in Outputs /\ t \in Task /\ t.output = o /\ t.phase = "done"
  BY <1>2 DEF Task, Phases
<1>4. task' = [task EXCEPT ![a] = t]
  BY DEF UnregisterIfCurrent, Goto
<1>5. /\ attempts' = attempts /\ pc' = pc /\ last_failed' = last_failed
      /\ \/ /\ tokens[o] = a
            /\ tokens' = [tokens EXCEPT ![o] = 0] /\ cancelled' = cancelled \cup {a}
         \/ tokens[o] # a /\ tokens' = tokens /\ cancelled' = cancelled
  BY DEF UnregisterIfCurrent, Out, taskOnly, passVars
<1> HIDE DEF o, t
<1>6. /\ task' \in Seq(Task) /\ Len(task') = attempts
      /\ task'[a].phase = "done"
      /\ \A b \in 1 .. attempts : task'[b].output = task[b].output
      /\ \A b \in 1 .. attempts : b # a => task'[b].phase = task[b].phase
  BY <1>1, <1>3, <1>4, ReplaceTask DEF LifecycleInv, o
<1>7. LifecycleTypes'
  <2>0. a \in Nat /\ tokens \in [Outputs -> Nat] /\ cancelled \subseteq Nat
    BY <1>1 DEF LifecycleInv, LifecycleTypes
  <2>1. tokens' \in [Outputs -> Nat]
    BY <2>0, <1>5
  <2>2. cancelled' \subseteq Nat
    BY <2>0, <1>5
  <2> QED
    BY <2>1, <2>2, <1>5, <1>6 DEF LifecycleInv, LifecycleTypes
<1>8. Owned'
  <2> SUFFICES ASSUME NEW p \in Outputs, tokens'[p] # 0
               PROVE  /\ tokens'[p] \in 1 .. attempts
                      /\ task'[tokens'[p]].output = p /\ task'[tokens'[p]].phase # "done"
    BY <1>5 DEF Owned
  <2>1. tokens'[p] = tokens[p] /\ tokens[p] # a
    <3>1. CASE p = o
      BY <3>1, <1>3, <1>5 DEF LifecycleInv, LifecycleTypes
    <3>2. CASE p # o
      BY <3>2, <1>1, <1>3, <1>5 DEF LifecycleInv, LifecycleTypes, Owned, o
    <3> QED
      BY <3>1, <3>2
  <2>2. /\ tokens[p] \in 1 .. attempts
        /\ task[tokens[p]].output = p /\ task[tokens[p]].phase # "done"
    BY <2>1 DEF LifecycleInv, Owned
  <2> QED
    BY <2>1, <2>2, <1>6
<1>9. Reached'
  <2> SUFFICES ASSUME NEW b \in 1 .. attempts, task'[b].phase # "done"
               PROVE  tokens'[task'[b].output] = b \/ b \in cancelled'
    BY <1>5 DEF Reached
  <2>1. b # a /\ task[b].phase # "done" /\ task'[b].output = task[b].output
    BY <1>6
  <2>2. task[b] \in Task
    BY DEF LifecycleInv, LifecycleTypes
  <2>3. task[b].output \in Outputs
    BY <2>2 DEF Task
  <2>4. tokens[task[b].output] = b \/ b \in cancelled
    BY <2>1 DEF LifecycleInv, Reached
  <2>5. tokens[task[b].output] = b => tokens'[task[b].output] = b
    BY <2>1, <2>3, <1>3, <1>5 DEF LifecycleInv, LifecycleTypes
  <2>6. b \in cancelled => b \in cancelled'
    BY <1>5
  <2> QED
    BY <2>1, <2>4, <2>5, <2>6
<1>10. Vacant'
  BY <1>3, <1>5 DEF LifecycleInv, LifecycleTypes, Vacant
<1> QED
  BY <1>7, <1>8, <1>9, <1>10 DEF LifecycleInv
-----------------------------------------------------------------------------
\* The operator, the ingest, the clock and the shard touch no registration.
LEMMA SurroundingsKeep ==
    ASSUME LifecycleInv, NEW o \in Outputs,
           \/ \E state \in {"running", "stopped", "deleted"} : Request(o, state)
           \/ Ingest \/ BackoffElapses(o) \/ FeedWake \/ Process
           \/ Activate(o) \/ LeafFails(o) \/ Progress(o)
    PROVE  LifecycleInv'
<1>1. UNCHANGED <<attempts, task, tokens, cancelled, pc>>
  BY DEF Request, Ingest, BackoffElapses, FeedWake, Process, Activate, LeafFails, Progress,
         shardOnly, passVars, registryVars, taskVars
<1>2. last_failed' \in [Outputs -> [retries : Nat, waited : BOOLEAN]]
  <2>0. last_failed \in [Outputs -> [retries : Nat, waited : BOOLEAN]]
    BY DEF LifecycleInv, LifecycleTypes
  <2>1. CASE BackoffElapses(o)
    BY <2>0, <2>1 DEF BackoffElapses
  <2>2. CASE ~BackoffElapses(o)
    BY <2>0, <2>2 DEF Request, Ingest, FeedWake, Process, Activate, LeafFails, Progress,
                      shardOnly, registryVars
  <2> QED
    BY <2>1, <2>2
<1> QED
  BY <1>1, <1>2, RegistryUntouched DEF LifecycleInv, LifecycleTypes, Vacant

\* One step of the output pass.
LEMMA PassKeeps == LifecycleInv /\ Pass => LifecycleInv'
<1> SUFFICES ASSUME LifecycleInv, Pass PROVE LifecycleInv'
  OBVIOUS
<1>0. /\ last_failed \in [Outputs -> [retries : Nat, waited : BOOLEAN]]
      /\ pc.at \in {"mark", "forget", "backoff", "start", "register", "stop"}
           => pc.output \in Outputs
      /\ pc.at \in {"start", "register"} => tokens[pc.output] = 0
  BY DEF LifecycleInv, LifecycleTypes, Vacant
<1>1. CASE BeginPass \/ EndPass \/ WaitRetry
  <2>1. /\ UNCHANGED <<attempts, task, tokens, cancelled, last_failed>>
        /\ pc' \in [at : {"idle", "topology", "decide"}]
        /\ pc'.at \notin {"start", "register"}
    BY <1>1 DEF BeginPass, EndPass, WaitRetry, registryVars, taskVars
  <2> QED
    BY <2>1, <1>0, RegistryUntouched
<1>2. CASE ConvergeTopology
  BY <1>2, UnregisterCancels DEF ConvergeTopology, taskVars
<1>3. CASE MarkExhausted
  <2>1. /\ UNCHANGED <<attempts, task, tokens, cancelled, last_failed>>
        /\ pc.output \in Outputs
        /\ \/ pc' = [at |-> "forget", output |-> pc.output]
           \/ pc' = [at |-> "decide"]
    BY <1>0, <1>3 DEF MarkExhausted, registryVars, taskVars
  <2> QED
    BY <2>1, <1>0, RegistryUntouched
<1>4. CASE ForgetFailure
  <2>1. /\ UNCHANGED <<attempts, task, tokens, cancelled>>
        /\ pc' = [at |-> "decide"]
        /\ last_failed' = [last_failed EXCEPT ![pc.output] = NotFailed]
    BY <1>4 DEF ForgetFailure, taskVars
  <2>2. last_failed' \in [Outputs -> [retries : Nat, waited : BOOLEAN]]
    BY <2>1, <1>0 DEF NotFailed
  <2> QED
    BY <2>1, <2>2, RegistryUntouched
<1>5. CASE StopOutput
  <2>1. pc.output \in Outputs
    BY <1>0, <1>5 DEF StopOutput
  <2> QED
    BY <1>5, <2>1, UnregisterCancels DEF StopOutput, taskVars
<1>6. CASE ClearRetry
  <2>1. /\ UNCHANGED <<attempts, task, tokens, cancelled, last_failed>>
        /\ pc.output \in Outputs /\ tokens[pc.output] = 0
        /\ pc' = [at |-> "register", output |-> pc.output]
    BY <1>0, <1>6 DEF ClearRetry, taskVars
  <2> QED
    BY <2>1, <1>0, RegistryUntouched
<1>7. CASE Register
  BY <1>7, RegisterInserts
<1>8. ASSUME NEW o \in Outputs, Decide(o)
      PROVE  LifecycleInv'
  <2>1. /\ UNCHANGED <<attempts, task, tokens, cancelled, last_failed>>
        /\ pc.at = "decide"
        /\ \/ pc' = pc
           \/ /\ Decision(o) \in {"mark", "backoff", "start", "stop"}
              /\ pc' = [at |-> Decision(o), output |-> o]
    BY <1>8 DEF Decide, taskVars
  <2>2. Decision(o) = "start" => tokens[o] = 0
    BY DEF Decision
  <2>3. CASE pc' = pc
    BY <2>1, <2>3, <1>0, RegistryUntouched DEF LifecycleInv, LifecycleTypes
  <2>4. CASE /\ Decision(o) \in {"mark", "backoff", "start", "stop"}
             /\ pc' = [at |-> Decision(o), output |-> o]
    BY <2>1, <2>2, <2>4, <1>0, RegistryUntouched
  <2> QED
    BY <2>1, <2>3, <2>4
<1> QED
  BY <1>1, <1>2, <1>3, <1>4, <1>5, <1>6, <1>7, <1>8 DEF Pass

\* One step of an attempt's task.
LEMMA TaskKeeps ==
    ASSUME LifecycleInv, NEW a \in Attempts, TaskStep(a) \/ StageEnded(a)
    PROVE  LifecycleInv'
<1>1. CASE \/ Retain(a) \/ SetStartup(a) \/ DispatchAdd(a) \/ StopWaiting(a) \/ StageEnded(a)
           \/ DispatchRemove(a) \/ Release(a) \/ Publish(a)
  <2>1. /\ a \in 1 .. attempts /\ task[a].phase # "done"
        /\ UNCHANGED <<attempts, tokens, cancelled, pc, last_failed>>
    BY <1>1 DEF Retain, SetStartup, DispatchAdd, StopWaiting, StageEnded, DispatchRemove,
                Release, Publish, At, taskOnly, passVars, registryVars
  <2>2. PICK phase \in Phases : phase # "done" /\ Goto(a, phase)
    BY <1>1 DEF Retain, SetStartup, DispatchAdd, StopWaiting, StageEnded, DispatchRemove,
                Release, Publish, Phases
  <2> QED
    BY <2>1, <2>2, GoesOn
<1>2. CASE Judge(a)
  <2> DEFINE c == a \in cancelled
             t == [task[a] EXCEPT !.phase = "count", !.is_cancelled = c]
  <2>1. /\ a \in 1 .. attempts /\ task[a].phase # "done"
        /\ UNCHANGED <<attempts, tokens, cancelled, pc, last_failed>>
    BY <1>2 DEF Judge, At, taskOnly, passVars, registryVars
  <2>2. task[a] \in Task
    BY <2>1 DEF LifecycleInv, LifecycleTypes
  <2>4. task' = [task EXCEPT ![a] = t]
    BY <1>2, <2>1, <2>2 DEF Judge
  <2>7. c \in BOOLEAN
    OBVIOUS
  <2> HIDE DEF c
  <2>3. t \in Task /\ t.output = task[a].output /\ t.phase = "count"
    BY <2>2, <2>7 DEF Task, Phases
  <2>5. last_failed' \in [Outputs -> [retries : Nat, waited : BOOLEAN]]
    BY <2>1 DEF LifecycleInv, LifecycleTypes
  <2> HIDE DEF t
  <2>6. "count" \in Phases
    BY DEF Phases
  <2> QED
    BY <2>1, <2>3, <2>4, <2>5, <2>6, MovesOn
<1>3. CASE Count(a)
  <2> DEFINE n == IF task[a].is_cancelled THEN 0
                  ELSE NextRetryCount(a, last_failed[Out(a)].retries)
             t == [task[a] EXCEPT !.phase = "publish", !.retries = n]
  <2>1. /\ a \in 1 .. attempts /\ task[a].phase # "done"
        /\ UNCHANGED <<attempts, tokens, cancelled, pc>>
    BY <1>3 DEF Count, At, passVars
  <2>2. task[a] \in Task
    BY <2>1 DEF LifecycleInv, LifecycleTypes
  <2>3. Out(a) \in Outputs
    BY <2>2 DEF Out, Task
  <2>4. last_failed[Out(a)].retries \in Nat
    BY <2>3 DEF LifecycleInv, LifecycleTypes
  <2>5. n \in Nat
    BY <2>4 DEF NextRetryCount
  <2>6. /\ last_failed' = [last_failed EXCEPT ![Out(a)] = [retries |-> n, waited |-> FALSE]]
        /\ task' = [task EXCEPT ![a] = t]
    BY <1>3 DEF Count
  <2> HIDE DEF n
  <2>7. t \in Task /\ t.output = task[a].output /\ t.phase = "publish"
    BY <2>2, <2>5 DEF Task, Phases
  <2>8. last_failed' \in [Outputs -> [retries : Nat, waited : BOOLEAN]]
    BY <2>5, <2>6 DEF LifecycleInv, LifecycleTypes
  <2> HIDE DEF t
  <2>9. "publish" \in Phases
    BY DEF Phases
  <2> QED
    BY <2>1, <2>6, <2>7, <2>8, <2>9, MovesOn
<1>4. CASE UnregisterIfCurrent(a)
  BY <1>4, UnregistersItself
<1> QED
  BY <1>1, <1>2, <1>3, <1>4 DEF TaskStep

\* What the registry and the tasks agree on, in every reachable state.
THEOREM LifecycleInvariant == Spec => []LifecycleInv
<1>1. Init => LifecycleInv
  <2> SUFFICES ASSUME Init PROVE LifecycleInv
    OBVIOUS
  <2>1. LifecycleTypes
    BY DEF Init, LifecycleTypes, NotFailed
  <2>2. Owned /\ Reached /\ Vacant
    BY DEF Init, Owned, Reached, Vacant
  <2> QED
    BY <2>1, <2>2 DEF LifecycleInv
<1>2. LifecycleInv /\ [Next]_vars => LifecycleInv'
  <2> SUFFICES ASSUME LifecycleInv, [Next]_vars PROVE LifecycleInv'
    OBVIOUS
  <2>1. CASE UNCHANGED vars
    BY <2>1, RegistryUntouched
       DEF vars, passVars, registryVars, taskVars, LifecycleInv, LifecycleTypes, Vacant
  <2>2. CASE Next
    BY <2>2, SurroundingsKeep, PassKeeps, TaskKeeps, LifecycleConstants DEF Next
  <2> QED
    BY <2>1, <2>2
<1> QED
  BY <1>1, <1>2, PTL DEF Spec

\* No task runs on unseen: a running attempt is registered, so that a stop
\* reaches it, or its token is cancelled.
THEOREM OrphansAreCancelled == Spec => []OrphanIsCancelled
<1>1. LifecycleInv => OrphanIsCancelled
  BY DEF LifecycleInv, Reached, OrphanIsCancelled, Running, Out
<1> QED
  BY <1>1, LifecycleInvariant, PTL

\* A registration names a task of its output that has yet to unregister it.
THEOREM RegistrationsAreOwned == Spec => []RegistrationIsOwned
<1>1. LifecycleInv => RegistrationIsOwned
  BY DEF LifecycleInv, Owned, RegistrationIsOwned, Running, Out
<1> QED
  BY <1>1, LifecycleInvariant, PTL
=============================================================================
