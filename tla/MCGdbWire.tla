------------------------------ MODULE MCGdbWire ------------------------------
(* Sessions of four requests of every kind.  Two damaged packets let a      *)
(* packet be damaged again when it is sent again, two ^C let one cross a    *)
(* stop while the other is answered.  One repetition: of three copies of a  *)
(* request with a '+' in it the host carries out two, because the second    *)
(* one counts as the acknowledgement of the answer to the first.            *)
EXTENDS GdbWire

EveryKind == AllKinds
=============================================================================
