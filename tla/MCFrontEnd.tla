---------------------------- MODULE MCFrontEnd ----------------------------
(* An instance of the in-order stages for TLC.                              *)
EXTENDS FrontEndProperties

Plain(op, fn) == [inst |-> [op |-> op, fn |-> fn, rd0 |-> FALSE], fault |-> FALSE]

(* A jump that links needs a checkpoint and a register, a load a register   *)
(* and an LQ entry, and a CSR access stops fetching.                           *)
MCKinds == {Plain("OP_JAL", "-"), Plain("OP_LOAD", "-"), Plain("OP_SYSTEM", "CSR")}

(* Only the distance of two numbers is ever looked at, and the places of    *)
(* the fetch queue outside its used part are overwritten before they are    *)
(* read.                                                                    *)
Rel(seq) == [n \in DOMAIN seq |-> [seq[n] EXCEPT !.id = (next + Ids - @) % Ids]]

RelativeView ==
  <<active, Rel(DECODE), Rel(Queued), fqHead, Rel(RENAME2), Rel(DISPATCH), Rel(window)>>

=============================================================================
