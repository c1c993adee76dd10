------------------------------- MODULE MCLSU -------------------------------
(* Instances of the load/store unit for TLC.                                *)
EXTENDS LSUProperties

(* All of them: loads and stores under branches, and atomic pairs.          *)
AllOps == {"load", "store", "branch", "LR", "SC"}

(* Whatever a load can have to wait for.                                    *)
StallOps == {"load", "store", "LR"}

PlainOps == {"load", "store"}

AtomicOps == {"branch", "LR", "SC"}

Size1 == {1}
Size12 == {1, 2}
Size2 == {2}
TwoValues == {0, 1}
OneValue == {0}

(* No value is special.                                                     *)
ValueSymmetry == Permutations(Values)

(* The fields of an entry that holds nothing are all set before they are    *)
(* read again, a load with its value is done with the search of the store   *)
(* queue, and only whether two phases are equal is ever looked at.          *)
LiveLoad(l) ==
  IF l.value_avail
  THEN [l EXCEPT !.mdp_stall = FALSE, !.sq_index = 0, !.sq_index_phase = TRUE]
  ELSE [l EXCEPT !.sq_index_phase = (@ = sqHeadPhase)]

LiveView ==
  <<[i \in LQIndex |-> IF LQ[i].valid THEN LiveLoad(LQ[i]) ELSE NoEntry],
    lqHead, lqTail, lqHeadPhase = lqTailPhase, lqLength,
    [i \in SQIndex |-> IF SQ[i].valid THEN SQ[i] ELSE NoEntry],
    sqHead, sqTail, sqHeadPhase = sqTailPhase, sqLength,
    load_reservation, mem,
    [k \in DOMAIN window |-> [window[k] EXCEPT !.lqPhase = (@ = lqHeadPhase),
                                              !.sqPhase = (@ = sqHeadPhase)]]>>

============================================================================
