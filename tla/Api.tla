--------------------------------- MODULE Api ---------------------------------
(***************************************************************************)
(* One engine handle of the C API, shared by threads that push, load log   *)
(* files and run, and by a daemon that reports every result once: it runs, *)
(* reads the results there are by index, and prunes up to the highest id   *)
(* it has reported (examples/daemon_demo.c).                               *)
(*                                                                         *)
(* Every call of the API locks the handle for as long as it lasts, and all *)
(* but one touch the engine once: they are a single step that finds the    *)
(* handle free.  Loading a file makes many pushes under one lock, so its   *)
(* steps are apart.  Between two of its calls the daemon holds no lock.    *)
(***************************************************************************)
EXTENDS EngineCalls

CONSTANTS
  Threads,            \* the threads that call, besides the daemon
  Files               \* the log files they may load: sequences of lines

VARIABLES
  owner,              \* the thread inside the lock, between two steps of a load
  loading,            \* its core_id and the entries of its log still to be pushed
  last_error,         \* ddrt_engine::last_error, set and never cleared
  pc,                 \* the daemon's next call, and its locals
  n, i, max_id,
  reported,           \* history: the ids the daemon has reported, in order
  loads               \* history: the logs that were parsed, and their first call

daemonVars == <<pc, n, i, max_id, reported>>
loadVars == <<owner, loading, last_error, loads>>

vars == <<callVars, loadVars, daemonVars>>

Nobody == "nobody"

ASSUME ApiAssumption == Nobody \notin Threads

-----------------------------------------------------------------------------
(***************************************************************************)
(* parse_axi_log_file.  A line is blank, or its columns, type, id and size *)
(* (after trimming, upper-casing and conversion); the first that is not    *)
(* blank is the header, whatever it says.                                  *)
(***************************************************************************)
Blank == [columns |-> 0, type |-> "", axi |-> 0, size |-> 0]

Header(file) == CHOOSE k \in DOMAIN file : file[k] # Blank /\ \A j \in 1 .. k - 1 : file[j] = Blank

Rows(file) ==
  IF \A k \in DOMAIN file : file[k] = Blank THEN <<>>
  ELSE SelectSeq(SubSeq(file, Header(file) + 1, Len(file)), LAMBDA line : line # Blank)

(* The rows of a log are a sequence. *)
ASSUME LogsAssumption == \A file \in Files : Rows(file) \in Seq(Range(Rows(file)))

WellFormed(row) ==
  \/ row.type = "BARRIER"
  \/ row.columns >= 5 /\ row.type \in {"AR", "AW"} /\ row.size > 0

Parses(file) == \A k \in DOMAIN Rows(file) : WellFormed(Rows(file)[k])

-----------------------------------------------------------------------------
(***************************************************************************)
(* The calls.                                                              *)
(***************************************************************************)
(* Mutant: a call does not take the lock. *)
Unlocked == TRUE

Free == owner = Nobody

PushTxnCall(core, axi) == Free /\ PushTxn(core, axi) /\ UNCHANGED <<loadVars, daemonVars>>

PushBarrierCall(core) == Free /\ PushBarrier(core) /\ UNCHANGED <<loadVars, daemonVars>>

RunCall == Free /\ Run /\ UNCHANGED <<loadVars, daemonVars>>

(* A malformed log is refused as a whole, before anything of it is pushed. *)
LoadMalformed ==
  /\ Free
  /\ \E file \in Files : ~ Parses(file)
  /\ last_error' = "malformed AXI log line"
  /\ UNCHANGED <<callVars, owner, loading, loads, daemonVars>>

BeginLoad(t, core, file) ==
  /\ Free
  /\ Parses(file) /\ Rows(file) # <<>> /\ Allowed(Len(Rows(file)))
  /\ owner' = t
  /\ loading' = [core |-> core, entries |-> Rows(file)]
  /\ loads' = loads \cup {[core |-> core, first |-> Len(calls) + 1, entries |-> Rows(file)]}
  /\ UNCHANGED <<callVars, last_error, daemonVars>>

(* The next entry is pushed; after the last one the lock is released. *)
LoadEntry ==
  /\ owner # Nobody
  /\ IF Head(loading.entries).type = "BARRIER" THEN PushBarrier(loading.core)
     ELSE PushTxn(loading.core, Head(loading.entries).axi)
  /\ loading' = [loading EXCEPT !.entries = Tail(@)]
  /\ owner' = IF Len(loading.entries) = 1 THEN Nobody ELSE owner
  /\ UNCHANGED <<last_error, loads, daemonVars>>

-----------------------------------------------------------------------------
(***************************************************************************)
(* The daemon: a tick is a run and drain_report_and_prune.                 *)
(***************************************************************************)
DaemonRun ==
  /\ pc = "run" /\ Free
  /\ Run
  /\ pc' = "count"
  /\ UNCHANGED <<loadVars, n, i, max_id, reported>>

DaemonCount ==
  /\ pc = "count" /\ Free
  /\ n' = Len(results) /\ i' = 0 /\ max_id' = 0
  /\ pc' = IF n' = 0 THEN "run" ELSE "read"
  /\ UNCHANGED <<callVars, loadVars, reported>>

(* What get_result_at gives the caller: past the end it fails and leaves the
   caller's record, here uninitialised, as it was. *)
ResultAt(index) == IF index < Len(results) THEN {results[index + 1]} ELSE 0 .. MaxCalls

DaemonRead ==
  /\ pc = "read" /\ Free
  /\ \E id \in ResultAt(i) :
       /\ reported' = Append(reported, id)
       /\ max_id' = IF id > max_id THEN id ELSE max_id
  /\ i' = i + 1
  /\ pc' = IF i + 1 = n THEN "prune" ELSE "read"
  /\ UNCHANGED <<callVars, loadVars, n>>

(* Mutant: prunes what the summary counts, not what was reported. *)
DaemonPruneCounted ==
  /\ pc = "prune" /\ Free
  /\ PruneResultsBefore(done)
  /\ pc' = "run"
  /\ UNCHANGED <<loadVars, n, i, max_id, reported>>

DaemonPrune ==
  /\ pc = "prune" /\ Free
  /\ PruneResultsBefore(max_id)
  /\ pc' = "run"
  /\ UNCHANGED <<loadVars, n, i, max_id, reported>>

Daemon == DaemonRun \/ DaemonCount \/ DaemonRead \/ DaemonPrune

ApiInit ==
  /\ Init
  /\ owner = Nobody /\ loading = [core |-> 0, entries |-> <<>>]
  /\ last_error = "" /\ loads = {}
  /\ pc = "run" /\ n = 0 /\ i = 0 /\ max_id = 0 /\ reported = <<>>

ApiNext ==
  \/ \E core \in Cores, axi \in AxiIds : PushTxnCall(core, axi)
  \/ \E core \in Cores : PushBarrierCall(core)
  \/ RunCall
  \/ LoadMalformed
  \/ \E t \in Threads, core \in Cores, file \in Files : BeginLoad(t, core, file)
  \/ LoadEntry
  \/ Daemon

ApiSpec == ApiInit /\ [][ApiNext]_vars

(* The daemon's loop keeps calling, and a load that holds the lock goes on. *)
FairApiSpec == ApiSpec /\ WF_vars(Daemon) /\ WF_vars(LoadEntry)
=============================================================================
