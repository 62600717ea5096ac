-------------------------- MODULE RefreshLoopProofs --------------------------
(***************************************************************************)
(* DramTiming's ApplyRefresh and Refreshed are what the program's loop     *)
(* computes, for every configuration whose refreshes end before the next   *)
(* is due.  The invariant: from wherever the loop stands, the closed form  *)
(* gives what it gave of the entry.                                        *)
(***************************************************************************)
EXTENDS RefreshLoop, TLAPS

(* A duration is a natural number of cycles. *)
LEMMA CycNat ==
  ASSUME NEW f \in Durations
  PROVE  Cyc(f) \in Nat
<1>1. Cfg[f] \in Nat /\ Cfg.clock \in Nat \ {0}
  BY DurationsAssumption
<1> QED
  BY <1>1 DEF Cyc, ToCycles

(* A refresh ends before the next falls due. *)
LEMMA RefreshPeriod ==
  ASSUME RefreshesEnd
  PROVE  Cyc("tREFI") \in Nat /\ Cyc("tRFC") \in Nat /\ Cyc("tREFI") > Cyc("tRFC")
<1>1. Cyc("tREFI") \in Nat /\ Cyc("tRFC") \in Nat
  BY CycNat DEF Durations
<1> QED
  BY <1>1 DEF RefreshesEnd

(* Whole periods past a due refresh stay in the naturals. *)
LEMMA LastBoundaryNat ==
  ASSUME RefreshesEnd, NEW due \in Nat, NEW cycle \in Nat, due <= cycle
  PROVE  LastBoundary(due, cycle) \in Nat
<1>1. Cyc("tREFI") \in Nat /\ Cyc("tREFI") > 0
  BY RefreshPeriod
<1>2. (cycle - due) \div Cyc("tREFI") \in Nat
  BY <1>1
<1>3. ((cycle - due) \div Cyc("tREFI")) * Cyc("tREFI") \in Nat
  BY <1>1, <1>2
<1> QED
  BY <1>3 DEF LastBoundary

(* apply_refresh_if_due never moves a command earlier. *)
LEMMA ApplyRefreshType ==
  ASSUME RefreshesEnd, NEW r \in RefreshProgress, NEW cycle \in Nat
  PROVE  /\ ApplyRefresh(r, cycle) \in RefreshProgress
         /\ ApplyRefresh(r, cycle).at >= cycle
<1>1. CASE cycle < r.due
  BY <1>1 DEF ApplyRefresh, RefreshProgress
<1>2. CASE ~ (cycle < r.due)
  <2>1. LastBoundary(r.due, cycle) \in Nat
    BY <1>2, LastBoundaryNat DEF RefreshProgress
  <2> QED
    BY <1>2, <2>1, RefreshPeriod DEF ApplyRefresh, RefreshProgress, Later, Monus
<1> QED
  BY <1>1, <1>2

(* One period further on there is one period less to go. *)
LEMMA OnePeriodLess ==
  ASSUME NEW period \in Nat \ {0}, NEW x \in Nat, x >= period
  PROVE  (x - period) \div period = (x \div period) - 1
OBVIOUS

(* Less than a period past the cursor, the cursor is the last boundary. *)
LEMMA FirstBoundary ==
  ASSUME RefreshesEnd, NEW due \in Nat, NEW cycle \in Nat, due <= cycle,
         cycle < due + Cyc("tREFI")
  PROVE  LastBoundary(due, cycle) = due
<1>1. Cyc("tREFI") \in Nat /\ Cyc("tREFI") > 0
  BY RefreshPeriod
<1>2. (cycle - due) \div Cyc("tREFI") = 0
  BY <1>1
<1> QED
  BY <1>1, <1>2 DEF LastBoundary

(* A cursor one refresh further on has the same last boundary. *)
LEMMA LaterCursor ==
  ASSUME RefreshesEnd, NEW due \in Nat, NEW cycle \in Nat, due + Cyc("tREFI") <= cycle
  PROVE  LastBoundary(due + Cyc("tREFI"), cycle) = LastBoundary(due, cycle)
<1> DEFINE period == Cyc("tREFI")
           q == (cycle - due) \div period
<1>1. period \in Nat \ {0}
  BY RefreshPeriod
<1>2. q \in Nat
  BY <1>1
<1>3. (cycle - (due + period)) \div period = q - 1
  <2>1. cycle - due \in Nat /\ cycle - due >= period
    BY <1>1
  <2>2. cycle - (due + period) = (cycle - due) - period
    BY <1>1
  <2> QED
    BY <1>1, <2>1, <2>2, OnePeriodLess
<1>4. (q - 1) * period = q * period - period
  BY <1>1, <1>2
<1>5. q * period \in Nat
  BY <1>1, <1>2
<1> HIDE DEF q
<1>6. LastBoundary(due + period, cycle) = (due + period) + (q - 1) * period
  BY <1>3 DEF LastBoundary
<1>7. LastBoundary(due, cycle) = due + q * period
  BY DEF LastBoundary, q
<1> QED
  BY <1>1, <1>4, <1>5, <1>6, <1>7

-----------------------------------------------------------------------------
(* One pass of the loop on the cursor. *)
OnePass(r) ==
  LET refresh_end == r.due + Cyc("tRFC")
  IN  [at      |-> Later(r.at, refresh_end),
       due     |-> r.due + Cyc("tREFI"),
       end     |-> refresh_end,
       blocked |-> r.blocked + Monus(refresh_end, r.at)]

(* The closed form after a pass is the closed form before it: a pass that is
   followed by another held nothing up. *)
LEMMA OnePassKeepsClosedForm ==
  ASSUME RefreshesEnd, NEW r \in RefreshProgress, r.at >= r.due
  PROVE  /\ OnePass(r) \in RefreshProgress
         /\ ApplyRefresh(OnePass(r), OnePass(r).at) = ApplyRefresh(r, r.at)
         /\ ApplyRefresh(r, r.at).end >= OnePass(r).end
<1> DEFINE next == OnePass(r)
<1>1. /\ Cyc("tREFI") \in Nat /\ Cyc("tRFC") \in Nat /\ Cyc("tREFI") > Cyc("tRFC")
      /\ r.at \in Nat /\ r.due \in Nat /\ r.end \in Nat /\ r.blocked \in Nat
  BY RefreshPeriod DEF RefreshProgress
<1>2. next \in RefreshProgress
  BY <1>1 DEF OnePass, RefreshProgress, Later, Monus
<1>3. CASE r.at < r.due + Cyc("tREFI")
  <2>1. ApplyRefresh(r, r.at) = next
    <3>1. LastBoundary(r.due, r.at) = r.due
      BY <1>1, <1>3, FirstBoundary
    <3> QED
      BY <1>1, <3>1 DEF ApplyRefresh, OnePass
  <2>2. next.at < next.due /\ ApplyRefresh(next, next.at) = [next EXCEPT !.at = next.at]
    BY <1>1, <1>3 DEF ApplyRefresh, OnePass, Later
  <2>3. [next EXCEPT !.at = next.at] = next
    BY <1>2 DEF RefreshProgress
  <2> QED
    BY <1>1, <1>2, <2>1, <2>2, <2>3 DEF RefreshProgress
<1>4. CASE r.at >= r.due + Cyc("tREFI")
  <2>1. next = [at |-> r.at, due |-> r.due + Cyc("tREFI"), end |-> r.due + Cyc("tRFC"),
                blocked |-> r.blocked]
    BY <1>1, <1>4 DEF OnePass, Later, Monus
  <2>2. LastBoundary(next.due, next.at) = LastBoundary(r.due, r.at)
    BY <1>1, <1>4, <2>1, LaterCursor
  <2>3. ApplyRefresh(next, next.at) = ApplyRefresh(r, r.at)
    BY <1>1, <1>4, <2>1, <2>2 DEF ApplyRefresh
  <2>4. LastBoundary(r.due, r.at) >= r.due
    <3>1. (r.at - r.due) \div Cyc("tREFI") \in Nat
      BY <1>1
    <3>2. ((r.at - r.due) \div Cyc("tREFI")) * Cyc("tREFI") \in Nat
      BY <1>1, <3>1
    <3> QED
      BY <1>1, <3>2 DEF LastBoundary
  <2>5. LastBoundary(r.due, r.at) \in Nat
    BY <1>1, LastBoundaryNat
  <2>6. ApplyRefresh(r, r.at).end = LastBoundary(r.due, r.at) + Cyc("tRFC")
    BY <1>1 DEF ApplyRefresh
  <2> QED
    BY <1>1, <1>2, <2>1, <2>3, <2>4, <2>5, <2>6
<1> QED
  BY <1>1, <1>3, <1>4

(* What a refresh leaves of a bank, field by field. *)
LEMMA RefreshedFields ==
  ASSUME NEW b \in BankProgress, NEW e \in Nat, 0 < e
  PROVE  /\ Refreshed(b, e) =
              [open_row |-> NoRow, col_ready |-> Later(b.col_ready, e),
               precharge_ready |-> Later(b.precharge_ready, e),
               act_ready |-> Later(b.act_ready, e)]
         /\ Refreshed(b, e) \in BankProgress
<1>1. Refreshed(b, e) =
        [open_row |-> NoRow, col_ready |-> Later(b.col_ready, e),
         precharge_ready |-> Later(b.precharge_ready, e), act_ready |-> Later(b.act_ready, e)]
  <2>1. Refreshed(b, e) =
          [b EXCEPT !.open_row = NoRow, !.col_ready = Later(b.col_ready, e),
                    !.precharge_ready = Later(b.precharge_ready, e),
                    !.act_ready = Later(b.act_ready, e)]
    BY DEF Refreshed
  <2> QED
    BY <2>1 DEF BankProgress
<1>2. /\ Later(b.col_ready, e) \in Nat /\ Later(b.precharge_ready, e) \in Nat
      /\ Later(b.act_ready, e) \in Nat /\ NoRow \in Int
  BY DEF BankProgress, Later, NoRow
<1> QED
  BY <1>1, <1>2 DEF BankProgress

(* What a later refresh does to a bank covers what an earlier one did. *)
LEMMA LaterRefreshCovers ==
  ASSUME NEW b \in BankProgress, NEW e \in Nat, NEW f \in Nat, 0 < e, e <= f
  PROVE  Refreshed(Refreshed(b, e), f) = Refreshed(b, f)
<1> DEFINE c == Refreshed(b, e)
<1>1. /\ c.col_ready = Later(b.col_ready, e) /\ c.precharge_ready = Later(b.precharge_ready, e)
      /\ c.act_ready = Later(b.act_ready, e) /\ c \in BankProgress
  BY RefreshedFields
<1>2. \A x \in Nat : Later(Later(x, e), f) = Later(x, f)
  BY DEF Later
<1>3. b.col_ready \in Nat /\ b.precharge_ready \in Nat /\ b.act_ready \in Nat
  BY DEF BankProgress
<1> HIDE DEF c
<1>4. /\ Later(c.col_ready, f) = Later(b.col_ready, f)
      /\ Later(c.precharge_ready, f) = Later(b.precharge_ready, f)
      /\ Later(c.act_ready, f) = Later(b.act_ready, f)
  BY <1>1, <1>2, <1>3
<1>5. Refreshed(c, f) = Refreshed(b, f)
  BY <1>1, <1>4, RefreshedFields
<1> QED
  BY <1>5 DEF c

(* The closed form of where the loop stands is that of its entry. *)
SameClosedForm ==
  /\ entry \in Entry
  /\ refresh \in RefreshProgress /\ refresh.due >= Cyc("tREFI")
  /\ bank \in BankProgress /\ Refreshed(bank, refresh.end) = bank
  /\ LET final == ApplyRefresh(entry.refresh, entry.refresh.at)
     IN  /\ ApplyRefresh(refresh, refresh.at) = final
         /\ Refreshed(bank, final.end) = Refreshed(entry.bank, final.end)

LEMMA PassKeepsClosedForm ==
  ASSUME RefreshesEnd, SameClosedForm, Pass
  PROVE  SameClosedForm'
<1> DEFINE end == OnePass(refresh).end
           final == ApplyRefresh(entry.refresh, entry.refresh.at)
<1>1. refresh \in RefreshProgress /\ bank \in BankProgress /\ refresh.at >= refresh.due
  BY DEF SameClosedForm, Pass, Due
<1>2. refresh' = OnePass(refresh) /\ entry' = entry
  BY DEF Pass, OnePass
<1>3. end = refresh.due + Cyc("tRFC")
  BY DEF OnePass
<1>4. /\ OnePass(refresh) \in RefreshProgress
      /\ ApplyRefresh(OnePass(refresh), OnePass(refresh).at) = ApplyRefresh(refresh, refresh.at)
      /\ ApplyRefresh(refresh, refresh.at).end >= end
  BY <1>1, OnePassKeepsClosedForm
<1>5. end \in Nat /\ 0 < end
  BY <1>1, <1>3, RefreshPeriod DEF SameClosedForm, RefreshProgress
<1>6. bank' = Refreshed(bank, end)
  <2>1. end # 0
    BY <1>5
  <2>2. bank' = [bank EXCEPT !.open_row = NoRow, !.col_ready = Later(bank.col_ready, end),
                             !.precharge_ready = Later(bank.precharge_ready, end),
                             !.act_ready = Later(bank.act_ready, end)]
    BY <1>3 DEF Pass
  <2> QED
    BY <2>1, <2>2 DEF Refreshed
<1>7. bank' \in BankProgress /\ Refreshed(bank', end) = bank'
  BY <1>1, <1>5, <1>6, RefreshedFields, LaterRefreshCovers
<1>8. final = ApplyRefresh(refresh, refresh.at) /\ final.end \in Nat
  BY <1>1, ApplyRefreshType DEF SameClosedForm, RefreshProgress
<1>9. Refreshed(bank', final.end) = Refreshed(bank, final.end)
  BY <1>1, <1>4, <1>5, <1>6, <1>8, LaterRefreshCovers
<1>10. OnePass(refresh).due >= Cyc("tREFI")
  BY <1>1, RefreshPeriod DEF OnePass, RefreshProgress
<1>11. Refreshed(bank', refresh'.end) = bank'
  BY <1>2, <1>7
<1> QED
  BY <1>1, <1>2, <1>4, <1>7, <1>8, <1>9, <1>10, <1>11 DEF SameClosedForm

LEMMA EntryKeepsClosedForm ==
  ASSUME Init
  PROVE  SameClosedForm
BY DEF Init, Entry, SameClosedForm

LEMMA ClosedFormAtTheEnd ==
  ASSUME SameClosedForm
  PROVE  LoopIsClosedForm
<1> SUFFICES ASSUME refresh.at < refresh.due
             PROVE  /\ refresh = ApplyRefresh(entry.refresh, entry.refresh.at)
                    /\ bank = Refreshed(entry.bank, refresh.end)
  BY DEF LoopIsClosedForm, Due, SameClosedForm, RefreshProgress
<1>1. ApplyRefresh(refresh, refresh.at) = [refresh EXCEPT !.at = refresh.at]
  BY DEF ApplyRefresh
<1>2. [refresh EXCEPT !.at = refresh.at] = refresh
  BY DEF SameClosedForm, RefreshProgress
<1> QED
  BY <1>1, <1>2 DEF SameClosedForm

(* Whatever the configuration (its refreshes ending) and the entry, the loop
   leaves cursor, delay, charged cycles and banks as the closed form the rest
   of the model computes with says. *)
THEOREM LoopComputesClosedForm ==
  ASSUME RefreshesEnd
  PROVE  Spec => []LoopIsClosedForm
<1>1. Init => SameClosedForm
  BY EntryKeepsClosedForm
<1>2. SameClosedForm /\ [Pass]_vars => SameClosedForm'
  <2>1. CASE Pass
    BY <2>1, PassKeepsClosedForm
  <2>2. CASE UNCHANGED vars
    BY <2>2 DEF vars, SameClosedForm
  <2> QED
    BY <2>1, <2>2
<1>3. SameClosedForm => LoopIsClosedForm
  BY ClosedFormAtTheEnd
<1> QED
  BY <1>1, <1>2, <1>3, PTL DEF Spec
=============================================================================
