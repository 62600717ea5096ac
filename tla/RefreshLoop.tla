----------------------------- MODULE RefreshLoop -----------------------------
(***************************************************************************)
(* The loop of apply_refresh_if_due, one step per pass: DramTiming's       *)
(* ApplyRefresh is its closed form.  The loop is entered with a command    *)
(* wanted at refresh.at and a bank of the rank, from a configuration that  *)
(* validate() accepts, RefreshesEnd or not.                                *)
(***************************************************************************)
EXTENDS DramTiming

CONSTANT
  Entries             \* what the loop may be entered with

VARIABLES
  refresh,            \* earliest_cycle, next_refresh_due_cycle, refresh_end, refresh_cycles
  bank,               \* one bank of the rank: they all are treated alike
  pass,               \* history: the parity of the passes, so that each is a step
  entry               \* history: what the loop was entered with

vars == <<refresh, bank, pass, entry>>

BankProgress == [open_row : Int, col_ready : Nat, precharge_ready : Nat, act_ready : Nat]

(* The cursor starts a refresh interval from zero.  A drain may have met a
   refresh before: the bank has felt it. *)
Entry ==
  {e \in [refresh : RefreshProgress, bank : BankProgress] :
     e.refresh.due >= Cyc("tREFI") /\ Refreshed(e.bank, e.refresh.end) = e.bank}

Init ==
  /\ entry \in Entries /\ entry \in Entry
  /\ refresh = entry.refresh /\ bank = entry.bank
  /\ pass = 0

Due == refresh.at >= refresh.due

Pass ==
  /\ Due
  /\ LET refresh_end == refresh.due + Cyc("tRFC")
     IN  /\ refresh' = [at      |-> Later(refresh.at, refresh_end),
                        due     |-> refresh.due + Cyc("tREFI"),
                        end     |-> refresh_end,
                        blocked |-> refresh.blocked + Monus(refresh_end, refresh.at)]
         /\ bank' = [bank EXCEPT !.open_row        = NoRow,
                                 !.col_ready       = Later(@, refresh_end),
                                 !.precharge_ready = Later(@, refresh_end),
                                 !.act_ready       = Later(@, refresh_end)]
  /\ pass' = 1 - pass
  /\ UNCHANGED entry

Spec == Init /\ [][Pass]_vars

(* A loop runs on: its next pass is always taken. *)
FairSpec == Spec /\ WF_vars(Pass)

-----------------------------------------------------------------------------
(* The loop is left, with what ApplyRefresh and Refreshed say of its entry. *)
LoopIsClosedForm ==
  ~ Due =>
    /\ refresh = ApplyRefresh(entry.refresh, entry.refresh.at)
    /\ bank = Refreshed(entry.bank, refresh.end)

(* The loop is always left: whatever configuration validate() lets through, a
   drain comes to an end. *)
LoopEnds == <> ~ Due
=============================================================================
