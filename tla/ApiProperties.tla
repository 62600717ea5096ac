---------------------------- MODULE ApiProperties ----------------------------
(***************************************************************************)
(* What the callers of one handle may rely on.                             *)
(***************************************************************************)
EXTENDS Api

Reported == {reported[k] : k \in DOMAIN reported}
Retained == {results[k] : k \in DOMAIN results}

(* Pruning "up through the highest txn_id you just reported" throws away nothing
   unreported, although other threads push, run and so add results between any
   two calls of the daemon: whatever a summary counts is retained or reported. *)
NothingLost == 1 .. done \subseteq Retained \cup Reported

(* The daemon reports no transaction twice, and none that is not over: the
   indices it counted stay valid while it reads. *)
ReportedOnce ==
  /\ Reported \subseteq 1 .. done
  /\ \A j, k \in DOMAIN reported : reported[j] = reported[k] => j = k

(* A log is pushed in one piece: its transactions get consecutive ids, and no
   push of another thread, nor a barrier, comes between them. *)
LogLoadedWhole ==
  \A l \in loads : \A k \in DOMAIN l.entries :
    l.first + k - 1 \in DOMAIN calls =>
      LET call == calls[l.first + k - 1] IN
      /\ call.core = l.core
      /\ IF l.entries[k].type = "BARRIER" THEN call.kind = "barrier"
         ELSE call.kind = "txn" /\ call.axi = l.entries[k].axi

(* Every transaction pushed is reported in the end, behind barriers too. *)
EverythingReported == \A id \in 1 .. MaxCalls : NumPushed >= id ~> id \in Reported
=============================================================================
