-------------------------------- MODULE MCApi --------------------------------
(* A small instance of Api: two threads, and logs for them to load. *)
EXTENDS ApiProperties

Line(type, axi, size) == [columns |-> 6, type |-> type, axi |-> axi, size |-> size]

HeaderLine == Line("TYPE", 0, 0)

(* Two reads around a barrier; a good row and one of size 0. *)
Burst     == <<Blank, HeaderLine, Line("AR", 1, 64), Blank, Line("BARRIER", 0, 0), Line("AW", 0, 64)>>
ZeroSized == <<HeaderLine, Line("AR", 0, 64), Line("AR", 0, 0)>>

Logs == {Burst, ZeroSized}
=============================================================================
