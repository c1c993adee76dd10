---------------------------- MODULE MCIssueQueue ----------------------------
(* Instances of the issue queue for TLC.                                    *)
EXTENDS IssueQueueProperties

CONSTANT t1   \* a physical register

Inst(w, ls, bs) == [wait |-> w, lanes |-> ls, branch_mask |-> bs]

(* One that waits, one that depends on a branch, one with a choice of lanes *)
(* and one that waits and depends on a branch.                              *)
AllIncoming == {Inst({t1}, {0}, {}), Inst({}, {0}, {0}),
                Inst({}, {0, 1}, {}), Inst({t1}, {1}, {0})}

MCTags == {t1}

(* An entry without an instruction keeps stale contents that are never read *)
(* between two steps, and so does a slot of the free list outside its part  *)
(* in use.                                                                  *)
LiveView ==
  <<[i \in Slots |-> IF q[i].valid THEN q[i] ELSE NoEntry],
    length, oldest, youngest,
    [n \in 0 .. flLength - 1 |-> FreeSlot(n)], flHead, partNext, ageBased, rr, loop>>

=============================================================================
