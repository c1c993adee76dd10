------------------------------ MODULE MCLanes -------------------------------
(* Instances of the back end for TLC.                                       *)
EXTENDS LanesProperties

CONSTANTS a,                \* the one logical register
          p1, p2, p3, p4

Kind(op, srcs, dest) == [op |-> op, srcs |-> srcs, dest |-> dest]

LogRegs  == {a}
PhysRegs == {p1, p2, p3, p4}

(* Lanes of one, two and three stages.                                      *)
Depths == <<1, 2, 3>>
Operations == <<{"alu", "branch", "csr", "amo"}, {"load", "SC"}, {"mul"}>>

(* Instructions that depend on each other and instructions that do not: the *)
(* branch is a JALR, which has a destination; the operation without one     *)
(* stands for stores and conditional branches; and products are independent *)
(* of each other, so that one lane can hold several.                        *)
AllKinds == {Kind("alu", {a}, None), Kind("branch", {a}, a), Kind("mul", {}, a),
             Kind("load", {a}, a), Kind("SC", {a}, a), Kind("amo", {a}, a),
             Kind("csr", {a}, a), Kind("nop", {}, None)}

=============================================================================
