----------------------------- MODULE MCRenamer -----------------------------
(* Instances of the renamer for TLC.                                        *)
EXTENDS RenamerProperties

Kind(l, s, br) == [logical |-> l, src |-> s, branch |-> br]

(* An instruction that reads the register it overwrites, a jump that reads *)
(* it and links in the other, and a branch that reads the other.            *)
MapKinds == {Kind(0, 0, FALSE), Kind(1, 0, TRUE), Kind(Invalid, 1, TRUE)}

(***************************************************************************)
(* What the next steps depend on.  An Active List entry outside head..tail *)
(* and a checkpoint whose GBM bit is clear keep stale contents that are    *)
(* overwritten before they are read again, and only the difference of two  *)
(* phase bits is ever looked at.                                           *)
(***************************************************************************)
LiveView ==
  <<rmt, amt, flList, flHead, flTail, flHeadPhase = flTailPhase,
    [i \in ALIndex |-> IF InFlight(i) THEN alList[i] ELSE NoEntry],
    alHead, alTail, alHeadPhase = alTailPhase,
    GBM,
    [b \in GBM |-> [checkpoints[b] EXCEPT
                     !.free_list_head_phase = (@ = flTailPhase)]],
    latch, exec>>

============================================================================
