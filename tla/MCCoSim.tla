------------------------------ MODULE MCCoSim ------------------------------
(* Every program of PCs instructions, for TLC, with interrupts never        *)
(* enabled or in every place.                                               *)
EXTENDS CoSimProperties

Uninterrupted == [0 .. PCs - 1 -> Kinds \ {"csrenable"}]

AllPrograms == [0 .. PCs - 1 -> Kinds]

=============================================================================
