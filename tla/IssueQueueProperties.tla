------------------------ MODULE IssueQueueProperties ------------------------
(***************************************************************************)
(* What the issue queue promises: its three structures agree about which   *)
(* entries hold an instruction, and it implements AgeQueue.                *)
(***************************************************************************)
EXTENDS IssueQueue, Sequences

(* The entries found by following next from the oldest one.                 *)
Chain ==
  LET c[n \in 0 .. Size] ==
        IF n = 0 THEN oldest
        ELSE IF c[n - 1] = Nil THEN Nil ELSE q[c[n - 1]].next
  IN c

FreeSlot(n) == fl[(flHead + n) % Size]
Valid       == {i \in Slots : q[i].valid}

----------------------------------------------------------------------------
TypeOK ==
  /\ q \in [Slots -> Entry]
  /\ length \in 0 .. Size
  /\ oldest \in Slots \cup {Nil} /\ youngest \in Slots \cup {Nil}
  /\ fl \in [Slots -> Slots]
  /\ flHead \in Slots /\ flTail \in Slots /\ flLength \in 0 .. Size
  /\ partNext \in {p * PartSize : p \in 0 .. NumParts - 1}
  /\ rr \subseteq Lanes
  /\ loop \in Loops
  /\ ageBased \in BOOLEAN

(* The age list visits every entry that holds an instruction exactly once,  *)
(* in both directions, also while select_and_issue() or squash() removes    *)
(* entries from it (the assertions of dispatch() and remove()).             *)
AgeListConsistent ==
  /\ {Chain[n] : n \in 0 .. length - 1} = Valid
  /\ Chain[length] = Nil
  /\ length = Cardinality(Valid)
  /\ youngest = IF length = 0 THEN Nil ELSE Chain[length - 1]
  /\ \A n \in 0 .. length - 1 :
       q[Chain[n]].prev = IF n = 0 THEN Nil ELSE Chain[n - 1]

(* The free list holds every entry without an instruction exactly once: an  *)
(* entry is never lost and never given to two instructions.                 *)
FreeListConsistent ==
  /\ length + flLength = Size
  /\ flTail = (flHead + flLength) % Size
  /\ {FreeSlot(n) : n \in 0 .. flLength - 1} = Slots \ Valid
  /\ \A m, n \in 0 .. flLength - 1 : m # n => FreeSlot(m) # FreeSlot(n)

(* A scan leaves nothing behind: when select_and_issue() returns, no        *)
(* instruction is ready while a lane it can use is free, although the scan  *)
(* follows links of entries it has just removed.                            *)
ScanComplete ==
  [][InLoop("select") /\ ~ InLoop("select")' => \A i \in Slots : ~ CanIssue(i)']_vars

(* When squash() returns, no instruction that depends on the branch is in   *)
(* the queue.                                                               *)
SquashComplete ==
  [][InLoop("squash") /\ ~ InLoop("squash")' =>
       \A i \in Valid' : loop.b \notin q'[i].inst.branch_mask]_vars

----------------------------------------------------------------------------
(* The abstraction: the age list as a sequence.                             *)
Pool ==
  LET n == Cardinality({k \in 0 .. Size - 1 : Chain[k] # Nil}) IN
  [k \in 1 .. n |-> q[Chain[k - 1]].inst]

Abstract == INSTANCE AgeQueue WITH Capacity <- Size, pool <- Pool, busy <- rr

(* The issue queue implements AgeQueue: whatever is removed from the middle *)
(* of the lists, dispatch order is kept, only ready instructions issue, and *)
(* with IDEAL_AGE_BASED never past an older one that could have issued.     *)
ImplementsAgeQueue == Abstract!Spec

----------------------------------------------------------------------------
(* Every cycle calls schedule() once and runs each loop to its end.         *)
Fairness == /\ SF_vars(StartSelect)
            /\ WF_vars(SelectStep)
            /\ WF_vars(SquashStep)

FairSpec == Spec /\ Fairness

(* With IDEAL_AGE_BASED an instruction whose operands have arrived leaves    *)
(* the queue, however many others keep being dispatched.  The rotating       *)
(* partitions alone do not promise it: there it is the Active List that      *)
(* ends the supply of others.                                               *)
ReadyLeaves ==
  \A i \in Slots : ageBased /\ Ready(i) ~> ~ Ready(i)

=============================================================================
