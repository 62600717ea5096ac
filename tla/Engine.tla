------------------------------- MODULE Engine -------------------------------
(***************************************************************************)
(* The engine over abstract channels.  A channel is a bounded queue that   *)
(* may return any of its chunks next and completes it at any later cycle   *)
(* at which its data bus is free: less than ChannelScheduler promises, and *)
(* all the front end relies on.                                            *)
(***************************************************************************)
EXTENDS FrontEnd

CONSTANTS
  QueueDepth,        \* command_queue_depth
  Delays(_)          \* per channel: cycles a chunk may take once it is ready and the bus free

VARIABLE
  channels           \* per channel: its queue, the end of its last data burst,
                     \* last_admitted_ready_cycle_, and the chunks it has served

vars == <<frontVars, channels>>

ASSUME ChannelAssumption ==
  /\ QueueDepth \in Nat \ {0}
  /\ \A ch \in Channels : Delays(ch) \subseteq Nat \ {0}
  /\ Channels \subseteq Nat /\ IsFiniteSet(Channels)
  /\ \A t \in Txns : \A i \in 0 .. NumChunks(t) - 1 : ChannelOf(FirstWindow(t) + i) \in Channels

(* Mutant: the queue takes one chunk more. *)
HasRoomForOneMore(ch) == Cardinality(channels[ch].queue) <= QueueDepth

HasRoom(ch) == Cardinality(channels[ch].queue) < QueueDepth

Busy == {ch \in Channels : channels[ch].queue # {}}

(* drain_one on channel ch, and route_completed_chunk of what it returns. *)
DrainOne(ch) ==
  \E chunk \in channels[ch].queue, delay \in Delays(ch) :
    LET complete == Later(channels[ch].bus_free, chunk.ready) + delay IN
    /\ channels' = [channels EXCEPT
                      ![ch].queue = @ \ {chunk}, ![ch].bus_free = complete,
                      ![ch].served = Append(@, [stream |-> chunk.stream, txn_id |-> chunk.txn_id,
                                                window |-> chunk.window, complete |-> complete])]
    /\ Route(chunk, complete)

(* The chunk's channel is full: exactly one of its chunks makes room. *)
MakeRoom == turn # NoTurn /\ ~ HasRoom(TurnChannel) /\ DrainOne(TurnChannel)

Admit ==
  /\ turn # NoTurn /\ HasRoom(TurnChannel)
  /\ channels' = [channels EXCEPT
                    ![TurnChannel].queue = @ \cup {ChunkOf(turn)},
                    ![TurnChannel].last_ready = Later(@, ChunkOf(turn).ready)]
  /\ AdmitTurn

(* Nothing left to admit: the first channel with work dispatches one chunk. *)
DrainIdle == running /\ turn = NoTurn /\ heap = {} /\ Busy # {} /\ DrainOne(Min(Busy))

(* run() returns when neither the heap nor a channel holds anything. *)
Return ==
  /\ ReturnFromRun /\ Busy = {}
  /\ UNCHANGED channels

Loop ==
  \/ (Reschedule \/ Issue \/ Resume) /\ UNCHANGED channels
  \/ MakeRoom
  \/ Admit
  \/ DrainIdle
  \/ Return

(* A channel has charged every cycle up to its last data burst to some cause:
   what BudgetCloses says of ChannelScheduler. *)
ChannelReport ==
  [ch \in Channels |->
     [bytes |-> ChunkBytes * Len(channels[ch].served),
      charged |-> channels[ch].bus_free, data_end |-> channels[ch].bus_free]]

Init ==
  /\ FrontInit
  /\ channels = [ch \in Channels |-> [queue |-> {}, bus_free |-> 0, last_ready |-> 0, served |-> <<>>]]

Next ==
  \/ Call /\ UNCHANGED channels /\ Statistic(ChannelReport)
  \/ Loop /\ Statistic(ChannelReport)

Spec == Init /\ [][Next]_vars

(* run() is a loop of one thread: once entered, it keeps turning. *)
FairSpec == Spec /\ WF_<<controlVars, channels>>(Loop)

=============================================================================
