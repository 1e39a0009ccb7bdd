----------------------------- MODULE RtmpConnect -----------------------------
(***************************************************************************)
(* The life of an RTMP output on one egress shard: admission, name         *)
(* resolution on the resolver thread, the reserved arena slot, the TCP      *)
(* connect, activation, graceful close, and every way an attempt ends       *)
(* (rtmp_shard_connect.rs, rtmp_shard_drain.rs, rtmp_shard_resolve_runtime  *)
(* and leaf_arena.rs).  The shard is one thread: a command, a readiness     *)
(* event and a visit are single steps; a media tick runs in sub-steps       *)
(* (`tick`) that only the resolver thread interleaves with.                 *)
(*                                                                          *)
(* Ready queues and feed wakes are EgressShard's; here any live leaf may be *)
(* visited.  Slot epochs are left out: they only make a stale readiness     *)
(* event a no-op.                                                           *)
(***************************************************************************)
EXTENDS Naturals, Sequences, FiniteSets, SequencesExt

CONSTANTS
    Outputs,            \* output ids placed on this shard
    Capacity,           \* arena slots (leaf_capacity)
    MaxGeneration,      \* bound: attempts per output
    RequestCapacity,    \* the resolver's request queue
    CompletionCapacity  \* the resolver's completion queue

ASSUME ConnectConstants ==
    /\ Outputs # {} /\ IsFiniteSet(Outputs)
    /\ Capacity \in Nat \ {0} /\ MaxGeneration \in Nat \ {0}
    /\ RequestCapacity \in Nat \ {0} /\ CompletionCapacity \in Nat \ {0}

VARIABLES
    generation,           \* newest generation added, per output
    spec,                 \* generation the application runs, 0 when removed
    terminated,           \* attempts marked terminated_unexpectedly
    pending,              \* pending_connects: generation, 0 when absent
    requests,             \* resolver request queue
    resolving,            \* the request the resolver works on, as a 0/1-sequence
    resolved,             \* resolver completion queue
    connecting,           \* connects in flight
    connecting_by_output, \* their slot by output, 0 when absent
    output_sockets,       \* slot of the output's live leaf, 0 when absent
    arena,                \* the leaf arena
    tick,                 \* where the media tick is
    batch,                \* completions drained by this tick
    phase                 \* running, draining (Shutdown seen) or stopped

appVars == <<generation, spec>>
resolverVars == <<requests, resolving, resolved>>
connectVars == <<pending, connecting, connecting_by_output>>
leafVars == <<output_sockets, arena>>
tickVars == <<tick, batch>>
vars == <<appVars, terminated, resolverVars, connectVars, leafVars, tickVars, phase>>

Slots == 1 .. Capacity
Generations == 1 .. MaxGeneration
Attempt == [output : Outputs, generation : Generations]
\* `peer` is the generation whose url was resolved to the address dialled.
Connecting == [slot : Slots, output : Outputs, generation : Generations, peer : Generations]

\* An arena slot: free, reserved for a connect, or filled with a leaf.
Slot == [state : {"free", "reserved"}]
          \cup [state : {"leaf"}, output : Outputs, generation : Generations,
                peer : Generations, pending_bytes : BOOLEAN, draining : BOOLEAN]
Free == [state |-> "free"]
Reserved == [state |-> "reserved"]
NewLeaf(o, g, peer) == [state |-> "leaf", output |-> o, generation |-> g, peer |-> peer,
                        pending_bytes |-> FALSE, draining |-> FALSE]

Init ==
    /\ generation = [o \in Outputs |-> 0] /\ spec = [o \in Outputs |-> 0]
    /\ terminated = {}
    /\ pending = [o \in Outputs |-> 0]
    /\ requests = <<>> /\ resolving = <<>> /\ resolved = <<>>
    /\ connecting = {} /\ connecting_by_output = [o \in Outputs |-> 0]
    /\ output_sockets = [o \in Outputs |-> 0]
    /\ arena = [s \in Slots |-> Free]
    /\ tick = "idle" /\ batch = <<>> /\ phase = "running"

\* The shard thread is between handlers.
Idle == tick = "idle" /\ phase # "stopped"

\* LeafArena::remove / release_reserved
Release(slots) == [s \in Slots |-> IF s \in slots THEN Free ELSE arena[s]]
-----------------------------------------------------------------------------
(* Closing. *)

ConnectsOf(o) == {c \in connecting : c.output = o /\ c.slot = connecting_by_output[o]}

\* remove_connecting_output for every output of os, with the slots it frees.
ConnectSlots(os) == {c.slot : c \in UNION {ConnectsOf(o) : o \in os}}
DropConnecting(os) ==
    /\ connecting' = connecting \ UNION {ConnectsOf(o) : o \in os}
    /\ connecting_by_output' = [o \in Outputs |-> IF o \in os THEN 0 ELSE connecting_by_output[o]]

\* begin_graceful_close for every output of os.
Flushed(o) == output_sockets[o] # 0 /\ ~arena[output_sockets[o]].pending_bytes
GracefulClose(os) ==
    LET closed == {o \in os : Flushed(o)}
        freed == ConnectSlots(os) \cup {output_sockets[o] : o \in closed}
        drains == {output_sockets[o] : o \in os \ closed} \ {0}
    IN  /\ pending' = [o \in Outputs |-> IF o \in os THEN 0 ELSE pending[o]]
        /\ DropConnecting(os)
        /\ output_sockets' = [o \in Outputs |-> IF o \in closed THEN 0 ELSE output_sockets[o]]
        /\ arena' = [s \in Slots |->
                       IF s \in freed THEN Free
                       ELSE IF s \in drains THEN [arena[s] EXCEPT !.draining = TRUE]
                       ELSE arena[s]]
-----------------------------------------------------------------------------
(* Commands. *)

Attempts(o, g) == [output |-> o, generation |-> g]

Admitted(o) ==
    \/ output_sockets[o] # 0 \/ pending[o] # 0
    \/ Cardinality({q \in Outputs : output_sockets[q] # 0})
         + Cardinality({q \in Outputs : pending[q] # 0})
         + Cardinality({q \in Outputs \ {o} : connecting_by_output[q] # 0}) < Capacity

\* Mutant: a connect in flight stays.
QueuePendingKeeps(o, g) ==
    /\ IF Admitted(o)
       THEN pending' = [pending EXCEPT ![o] = g] /\ UNCHANGED terminated
       ELSE terminated' = terminated \cup {Attempts(o, g)} /\ UNCHANGED pending
    /\ UNCHANGED <<connecting, connecting_by_output, leafVars>>

\* queue_pending_rtmp_connect: a connect in flight is dropped first, then
\* the newest spec replaces the pending one, if the shard has room.
QueuePending(o, g) ==
    /\ DropConnecting({o})
    /\ arena' = Release(ConnectSlots({o}))
    /\ IF Admitted(o)
       THEN pending' = [pending EXCEPT ![o] = g] /\ UNCHANGED terminated
       ELSE terminated' = terminated \cup {Attempts(o, g)} /\ UNCHANGED pending
    /\ UNCHANGED output_sockets

\* Add: the resolver gets the request before the backend sees the command;
\* a full request queue closes the output instead, and an url that does not
\* parse ends the attempt at once.
Add(o) ==
    LET g == generation[o] + 1
    IN  /\ Idle /\ phase = "running" /\ generation[o] < MaxGeneration
        /\ generation' = [generation EXCEPT ![o] = g]
        /\ spec' = [spec EXCEPT ![o] = g]
        /\ \/ /\ Len(requests) < RequestCapacity
              /\ requests' = Append(requests, Attempts(o, g))
              /\ QueuePending(o, g)
           \/ /\ Len(requests) = RequestCapacity
              /\ GracefulClose({o})
              /\ terminated' = terminated \cup {Attempts(o, g)}
              /\ UNCHANGED requests
           \/ /\ terminated' = terminated \cup {Attempts(o, g)}
              /\ UNCHANGED <<requests, connectVars, leafVars>>
        /\ UNCHANGED <<resolving, resolved, tickVars, phase>>

\* Remove and Abandon.
RemoveOutput(o) ==
    /\ Idle /\ phase = "running" /\ spec[o] # 0
    /\ spec' = [spec EXCEPT ![o] = 0]
    /\ GracefulClose({o})
    /\ UNCHANGED <<generation, terminated, resolverVars, tickVars, phase>>

\* Shutdown closes the outputs that have a socket; connects in flight stay.
Shutdown ==
    /\ Idle /\ phase = "running"
    /\ phase' = "draining"
    /\ GracefulClose({o \in Outputs : output_sockets[o] # 0})
    /\ UNCHANGED <<appVars, terminated, resolverVars, tickVars>>

OnShutdown ==
    /\ Idle /\ phase = "draining"
    /\ phase' = "stopped"
    /\ arena' = Release({output_sockets[o] : o \in Outputs})
    /\ output_sockets' = [o \in Outputs |-> 0]
    /\ connecting' = {} /\ connecting_by_output' = [o \in Outputs |-> 0]
    /\ UNCHANGED <<appVars, terminated, resolverVars, pending, tickVars>>
-----------------------------------------------------------------------------
(* The resolver thread. *)

ResolveTake ==
    /\ resolving = <<>> /\ requests # <<>> /\ phase # "stopped"
    /\ resolving' = <<Head(requests)>>
    /\ requests' = Tail(requests)
    /\ UNCHANGED <<appVars, terminated, resolved, connectVars, leafVars, tickVars, phase>>


\* A blocking send: the worker waits for room rather than drop an answer.
ResolveSend ==
    /\ resolving # <<>> /\ Len(resolved) < CompletionCapacity /\ phase # "stopped"
    /\ \E found \in BOOLEAN :
         resolved' = Append(resolved, [attempt |-> Head(resolving), found |-> found])
    /\ resolving' = <<>>
    /\ UNCHANGED <<appVars, terminated, requests, connectVars, leafVars, tickVars, phase>>
-----------------------------------------------------------------------------
(* The media tick. *)

\* drain_resolved
TickStart ==
    /\ Idle
    /\ tick' = "resolve"
    /\ batch' = resolved /\ resolved' = <<>>
    /\ UNCHANGED <<appVars, terminated, requests, resolving, connectVars, leafVars, phase>>

\* Mutant: the previous leaf is not removed.
ActivateBeside(o, g, peer, slot) ==
    /\ output_sockets' = [output_sockets EXCEPT ![o] = slot]
    /\ arena' = [arena EXCEPT ![slot] = NewLeaf(o, g, peer)]

\* activate_connected: the leaf fills its slot and replaces the output's
\* previous leaf.
Activate(o, g, peer, slot) ==
    /\ output_sockets' = [output_sockets EXCEPT ![o] = slot]
    /\ arena' = [Release({output_sockets[o]}) EXCEPT ![slot] = NewLeaf(o, g, peer)]

\* complete_pending_connect, for an answer whose generation is still the
\* pending one: no slot, connected at once, in progress, or failed.
StartConnect(o, g, peer) ==
    LET failed == terminated' = terminated \cup {Attempts(o, g)}
        free == {s \in Slots : arena[s].state = "free"}
    IN  \/ /\ free = {} /\ failed
           /\ UNCHANGED <<connecting, connecting_by_output, leafVars>>
        \/ \E s \in free :
             \/ /\ Activate(o, g, peer, s)
                /\ UNCHANGED <<terminated, connecting, connecting_by_output>>
             \/ /\ arena' = [arena EXCEPT ![s] = Reserved]
                /\ connecting' = connecting \cup {[slot |-> s, output |-> o,
                                              generation |-> g, peer |-> peer]}
                /\ connecting_by_output' = [connecting_by_output EXCEPT ![o] = s]
                /\ UNCHANGED <<terminated, output_sockets>>
             \/ /\ failed
                /\ UNCHANGED <<connecting, connecting_by_output, leafVars>>

\* Mutants: no generation check; a failed resolution is skipped.
TickResolvedAnyGeneration ==
    /\ tick = "resolve" /\ batch # <<>>
    /\ batch' = Tail(batch)
    /\ LET o == Head(batch).attempt.output
           g == Head(batch).attempt.generation
       IN  \/ /\ pending[o] = 0
              /\ UNCHANGED <<terminated, connectVars, leafVars>>
           \/ /\ pending[o] # 0
              /\ pending' = [pending EXCEPT ![o] = 0]
              /\ IF Head(batch).found
                 THEN StartConnect(o, pending[o], g)
                 ELSE /\ terminated' = terminated \cup {Attempts(o, g)}
                      /\ UNCHANGED <<connecting, connecting_by_output, leafVars>>
    /\ UNCHANGED <<appVars, resolverVars, tick, phase>>
\* One answer: a stale generation leaves the pending connect alone.
TickResolved ==
    /\ tick = "resolve" /\ batch # <<>>
    /\ batch' = Tail(batch)
    /\ LET o == Head(batch).attempt.output
           g == Head(batch).attempt.generation
       IN  \/ /\ pending[o] # g
              /\ UNCHANGED <<terminated, connectVars, leafVars>>
           \/ /\ pending[o] = g
              /\ pending' = [pending EXCEPT ![o] = 0]
              /\ IF Head(batch).found
                 THEN StartConnect(o, pending[o], g)
                 ELSE /\ terminated' = terminated \cup {Attempts(o, g)}
                      /\ UNCHANGED <<connecting, connecting_by_output, leafVars>>
    /\ UNCHANGED <<appVars, resolverVars, tick, phase>>

\* sweep_connecting_leaves: the connects past their deadline.
SweepConnecting(expired) ==
    /\ connecting' = connecting \ expired
    /\ connecting_by_output' =
         [o \in Outputs |-> IF \E c \in expired : c.output = o THEN 0 ELSE connecting_by_output[o]]

\* sweep_stalled_leaves: the leaves that stalled, missed their startup
\* deadline, or finished or overran their drain.
TickSweep ==
    /\ tick = "resolve" /\ batch = <<>>
    /\ tick' = "idle"
    /\ \E expired \in SUBSET connecting,
          closed \in SUBSET {o \in Outputs : output_sockets[o] # 0} :
         /\ SweepConnecting(expired)
         /\ arena' = Release({output_sockets[o] : o \in closed})
         /\ output_sockets' = [o \in Outputs |-> IF o \in closed THEN 0 ELSE output_sockets[o]]
         /\ terminated' = terminated
              \cup {Attempts(c.output, c.generation) : c \in expired}
              \cup {Attempts(o, arena[output_sockets[o]].generation) : o \in closed}
    /\ UNCHANGED <<appVars, resolverVars, pending, batch, phase>>
-----------------------------------------------------------------------------
(* Readiness events and visits. *)

\* finish_connecting: the connect failed, activation failed, or the leaf is
\* live.
FinishConnecting(c) ==
    /\ Idle
    /\ connecting' = connecting \ {c}
    /\ connecting_by_output' = [connecting_by_output EXCEPT ![c.output] = 0]
    /\ \/ Activate(c.output, c.generation, c.peer, c.slot) /\ UNCHANGED terminated
       \/ /\ arena' = Release({c.slot})
          /\ terminated' = terminated \cup {Attempts(c.output, c.generation)}
          /\ UNCHANGED output_sockets
    /\ UNCHANGED <<appVars, resolverVars, pending, tickVars, phase>>

\* visit_one_ready_leaf, not closing: bytes queue up or flush; a draining
\* leaf that flushed or overran its drain timeout closes.
Visit(o) ==
    /\ Idle /\ output_sockets[o] # 0
    /\ LET s == output_sockets[o]
       IN  \E bytes \in BOOLEAN :
             \/ /\ arena' = [arena EXCEPT ![s].pending_bytes = bytes]
                /\ arena[s].draining => bytes
                /\ UNCHANGED output_sockets
             \/ /\ arena[s].draining
                /\ arena' = Release({s})
                /\ output_sockets' = [output_sockets EXCEPT ![o] = 0]
    /\ UNCHANGED <<appVars, terminated, resolverVars, connectVars, tickVars, phase>>

\* on_ready with VisitDecision::Close: the peer closed or the engine failed,
\* and remove_leaf_by_output clears everything the output has here.
VisitClose(o) ==
    /\ Idle /\ output_sockets[o] # 0
    /\ terminated' = terminated \cup {Attempts(o, arena[output_sockets[o]].generation)}
    /\ pending' = [pending EXCEPT ![o] = 0]
    /\ DropConnecting({o})
    /\ arena' = Release(ConnectSlots({o}) \cup {output_sockets[o]})
    /\ output_sockets' = [output_sockets EXCEPT ![o] = 0]
    /\ UNCHANGED <<appVars, resolverVars, tickVars, phase>>
-----------------------------------------------------------------------------
Tick == TickStart \/ TickResolved \/ TickSweep

Next ==
    \/ \E o \in Outputs : Add(o) \/ RemoveOutput(o) \/ Visit(o) \/ VisitClose(o)
    \/ \E c \in connecting : FinishConnecting(c)
    \/ ResolveTake \/ ResolveSend
    \/ Tick
    \/ Shutdown \/ OnShutdown

Spec == Init /\ [][Next]_vars

\* The resolver keeps answering, the shard keeps ticking, and a connect that
\* stays in flight meets its deadline in some sweep.
Expires(o) ==
    TickSweep /\ \E c \in connecting : c.output = o /\ c \notin connecting'
FairSpec ==
    /\ Spec
    /\ WF_vars(ResolveTake) /\ WF_vars(ResolveSend) /\ WF_vars(Tick)
    /\ \A o \in Outputs : SF_vars(Expires(o))
-----------------------------------------------------------------------------
(* Properties. *)

TypeOK ==
    /\ generation \in [Outputs -> 0 .. MaxGeneration]
    /\ spec \in [Outputs -> 0 .. MaxGeneration]
    /\ terminated \subseteq Attempt
    /\ pending \in [Outputs -> 0 .. MaxGeneration]
    /\ requests \in Seq(Attempt) /\ Len(requests) <= RequestCapacity
    /\ resolving \in Seq(Attempt) /\ Len(resolving) <= 1
    /\ resolved \in Seq([attempt : Attempt, found : BOOLEAN])
    /\ Len(resolved) <= CompletionCapacity
    /\ connecting \subseteq Connecting
    /\ connecting_by_output \in [Outputs -> 0 .. Capacity]
    /\ output_sockets \in [Outputs -> 0 .. Capacity]
    /\ arena \in [Slots -> Slot]
    /\ tick \in {"idle", "resolve"}
    /\ batch \in Seq([attempt : Attempt, found : BOOLEAN])
    /\ phase \in {"running", "draining", "stopped"}

\* A connection goes where its own spec says: the address dialled was
\* resolved for the generation that uses it, however late the answer.
DialsItsOwnPeer ==
    /\ \A c \in connecting : c.peer = c.generation
    /\ \A s \in Slots : arena[s].state = "leaf" => arena[s].peer = arena[s].generation

\* Replacement only goes forward: an attempt that waits or connects is newer
\* than the leaf it will replace, and an output never has two of them.
ReplacesForward ==
    \A o \in Outputs :
        LET older == IF output_sockets[o] = 0 THEN 0 ELSE arena[output_sockets[o]].generation
            inFlight == {c \in connecting : c.output = o}
        IN  /\ pending[o] # 0 => pending[o] > older /\ inFlight = {}
            /\ \A c \in inFlight : c.generation > older

\* No orphan connection: every filled slot is the socket its output's index
\* names, every connect in flight has a reserved slot of its own and is the one
\* its output's index names, and neither index names anything else.
ConnectionsAreIndexed ==
    /\ phase # "stopped" =>
         \A s \in Slots : arena[s].state = "leaf" => output_sockets[arena[s].output] = s
    /\ phase # "stopped" =>
         \A o \in Outputs : output_sockets[o] # 0 =>
           arena[output_sockets[o]].state = "leaf" /\ arena[output_sockets[o]].output = o
    /\ \A c \in connecting :
         arena[c.slot].state = "reserved" /\ connecting_by_output[c.output] = c.slot
    /\ \A c, d \in connecting : c.slot = d.slot \/ c.output = d.output => c = d
    /\ \A o \in Outputs : connecting_by_output[o] # 0 =>
         \E c \in connecting : c.output = o /\ c.slot = connecting_by_output[o]

\* A failed connect gives its slot back: every reserved slot has a connect
\* in flight.
ReservedHasConnect ==
    phase # "stopped" =>
        \A s \in Slots : arena[s].state = "reserved" => \E c \in connecting : c.slot = s

Undecided(o, g) == pending[o] = g \/ \E c \in connecting : c.output = o /\ c.generation = g

=============================================================================
