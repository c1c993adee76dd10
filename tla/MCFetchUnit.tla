---------------------------- MODULE MCFetchUnit ----------------------------
(* Instances of the fetch unit for TLC.                                     *)
EXTENDS FetchUnitProperties

(* Without the exception on fetch, which stops the unit like "ser" does.    *)
BranchKinds == {"op", "br", "jr", "ser"}

(* The direction in a branch queue entry that is not in use is set before   *)
(* it is read again, only whether phases are equal is ever looked at, and   *)
(* all places of the payload ring are alike.                                *)
Relative(i) == [i EXCEPT !.phase = (@ = bqHeadPhase),
                         !.pay = (@ + PaySize - payHead) % PaySize]

RingView ==
  <<fetch_active, bhr,
    [status EXCEPT !.pay = IF status.valid THEN (@ + PaySize - payHead) % PaySize ELSE 0],
    [pos \in Slots |-> IF FETCH2[pos] = Bubble THEN Bubble ELSE Relative(FETCH2[pos])],
    [k \in DOMAIN DECODE |-> Relative(DECODE[k])],
    [k \in DOMAIN window |-> Relative(window[k])],
    [t \in BQIndex |-> IF \E k \in Branches(Behind) : Behind[k].tag = t
                        THEN bq[t] ELSE [bq[t] EXCEPT !.taken = FALSE]],
    bqHead, bqTail, bqHeadPhase = bqTailPhase, payLength>>

=============================================================================
