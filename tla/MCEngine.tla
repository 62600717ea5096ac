------------------------------ MODULE MCEngine ------------------------------
(* Small instances of Engine: address maps and transactions for TLC. *)
EXTENDS EngineProperties

(* Consecutive windows on alternating channels. *)
Interleaved(window) == window % 2

(* Channel 0 may be ahead of channel 1 or behind it. *)
OneMayLag(ch) == IF ch = 0 THEN {1, 4} ELSE {2}

Txn(addr, size, beats, type) ==
  [addr |-> addr, size_bytes |-> size, len_beats |-> beats, type |-> type]

(* Windows are four bytes.  Four unaligned bytes over two windows, on both
   channels; neither size nor length, at a window's last byte. *)
Straddling == Txn(2, 2, 2, "Write")
Empty      == Txn(3, 0, 0, "Read")

Bursts == {Straddling, Empty}
=============================================================================
