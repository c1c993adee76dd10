------------------------------ MODULE AgeQueue ------------------------------
(***************************************************************************)
(* What the Schedule stage of 721sim promises, without its free list, its  *)
(* linked list and its scan: a pool of waiting instructions in dispatch    *)
(* order.  An instruction leaves the pool only by being issued, once it    *)
(* waits for no operand, to a free lane that can execute it, or by being   *)
(* squashed.  With the age-based policy it is never issued past an older   *)
(* one that could have been issued too.                                    *)
(***************************************************************************)
EXTENDS Naturals, Sequences, FiniteSets, SequencesExt

CONSTANTS
  Capacity,      \* how many instructions the pool can hold
  Lanes,         \* execution lanes, 0 .. n-1
  Tags,          \* physical registers an instruction can wait for
  BranchIDs      \* checkpointed branches an instruction can depend on

VARIABLES
  ageBased,      \* is an older instruction preferred?  Nothing changes it
  pool,          \* the waiting instructions, the oldest first
  busy           \* the lanes that already have an instruction this cycle

Insts == [wait : SUBSET Tags, lanes : SUBSET Lanes \ {{}},
          branch_mask : SUBSET BranchIDs]

Init == pool = <<>> /\ busy = {} /\ ageBased \in BOOLEAN

CouldIssue(k) == pool[k].wait = {} /\ pool[k].lanes \ busy # {}

(* Instructions enter at the young end.                                     *)
Enter(inst) ==
  /\ Len(pool) < Capacity
  /\ pool' = Append(pool, inst)
  /\ UNCHANGED <<busy, ageBased>>

Issue(k) ==
  /\ CouldIssue(k)
  /\ ageBased => \A o \in 1 .. k - 1 : ~ CouldIssue(o)
  /\ \E l \in pool[k].lanes \ busy : busy' = busy \cup {l}
  /\ UNCHANGED ageBased
  /\ pool' = RemoveAt(pool, k)

(* A tag arrives at every instruction that waits for it, at once.           *)
Arrive(t) ==
  /\ pool' = [k \in DOMAIN pool |-> [pool[k] EXCEPT !.wait = @ \ {t}]]
  /\ UNCHANGED <<busy, ageBased>>

Resolve(b) ==
  /\ pool' = [k \in DOMAIN pool |-> [pool[k] EXCEPT !.branch_mask = @ \ {b}]]
  /\ UNCHANGED <<busy, ageBased>>

(* A squash takes out only instructions that depend on a branch.            *)
Drop(k) ==
  /\ pool[k].branch_mask # {}
  /\ pool' = RemoveAt(pool, k)
  /\ UNCHANGED <<busy, ageBased>>

(* A complete squash empties the lanes too.                                 *)
Empty == pool' = <<>> /\ busy' = {} /\ UNCHANGED ageBased

NewCycle == busy' = {} /\ UNCHANGED <<pool, ageBased>>

Next ==
  \/ \E inst \in Insts : Enter(inst)
  \/ \E k \in DOMAIN pool : Issue(k) \/ Drop(k)
  \/ \E t \in Tags : Arrive(t)
  \/ \E b \in BranchIDs : Resolve(b)
  \/ Empty
  \/ NewCycle

Spec == Init /\ [][Next]_<<pool, busy, ageBased>>

=============================================================================
