-------------------------- MODULE SystemProperties --------------------------
(***************************************************************************)
(* What the engine and its scheduler promise together.                     *)
(***************************************************************************)
EXTENDS System

CONSTANT
  Delay               \* cycles a chunk may take once it is ready and the bus free

Promises ==
  INSTANCE ChannelProperties
    WITH Requests <- {}, Arrivals <- {}, InOrderArrivals <- FALSE, Admissions <- {}

ChunkOfEntry(e) == admitted[e.seq + 1]

-----------------------------------------------------------------------------
(* The channel as Engine sees it. *)
AbstractChannel ==
  [queue      |-> {admitted[p.seq + 1] : p \in pending},
   bus_free   |-> bus_free_cycle,
   last_ready |-> last_admitted_ready_cycle,
   served     |-> [i \in DOMAIN log |->
                     LET chunk == ChunkOfEntry(log[i])
                     IN  [stream |-> chunk.stream, txn_id |-> chunk.txn_id,
                          window |-> chunk.window, complete |-> log[i].complete]]]

Abstract ==
  INSTANCE Engine
    WITH channels   <- [ch \in Channels |-> AbstractChannel],
         QueueDepth <- Cfg.command_queue_depth,
         Delays     <- LAMBDA ch : Delay,
         ChannelOf  <- LAMBDA window : 0

(* The engine over the real scheduler does nothing that Engine, over channels
   that return any of their chunks once the bus is free, could not do: all that
   holds of Engine (order, caps, barriers, whole service) holds of the program,
   and the scheduler returns every chunk to the transaction it belongs to. *)
ImplementsEngine == Abstract!Spec

(* A barrier reaches the DRAM: no command on behalf of a transaction behind it,
   not even the PRECHARGE or ACTIVATE the scheduler places back in time, issues
   before the data of every transaction in front of it has been transferred. *)
BarrierReachesDram ==
  \A i, j \in DOMAIN log :
    LET first  == ChunkOfEntry(log[i]).stream
        second == ChunkOfEntry(log[j]).stream
    IN  CoreOf(first) = CoreOf(second) /\ SegmentOf(first) < SegmentOf(second)
        => \A a \in Promises!Issued(log[j]) : a[2] >= log[i].complete

(* The command bus carries one command at a time ("no two may overlap").  A
   slot the scheduler has forgotten may be wanted again: its pruning horizon
   assumes that ready cycles never go back, and the engine's do. *)
CommandBusExclusive == Promises!CommandBusExclusive
=============================================================================
