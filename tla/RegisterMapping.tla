-------------------------- MODULE RegisterMapping --------------------------
(***************************************************************************)
(* What register renaming promises, with none of the machinery that does   *)
(* it: no free list, no ring pointers, no checkpoints and no branch masks. *)
(*                                                                         *)
(* There is a committed map and the sequence of instructions in flight.    *)
(* An instruction that enters reads its source through the map that        *)
(* program order gives it and takes for its destination any register that  *)
(* nobody can still name.  The oldest instruction may retire, a branch may *)
(* drop everything younger than itself, and all of it may be dropped.      *)
(***************************************************************************)
EXTENDS Integers, Sequences, FiniteSets

CONSTANTS
  Log,       (* logical registers                                           *)
  Phys,      (* physical registers                                          *)
  None,      (* an operand the instruction does not have                    *)
  Capacity   (* how many instructions may be in flight                      *)

VARIABLES
  committed,   \* the register that holds the committed value of each logical
  flight       \* the renamed instructions that have not retired, oldest first

mapping == <<committed, flight>>

Youngest(S) == CHOOSE k \in S : \A j \in S : j <= k

(* The register that holds l for the instruction behind those of f.         *)
Current(f, l) ==
  LET writers == {k \in DOMAIN f : f[k].logical = l}
  IN IF writers = {} THEN committed[l] ELSE f[Youngest(writers)].physical

(* The registers that neither committed nor an instruction of f names.      *)
Unused(f) ==
  Phys \ ({f[k].physical : k \in DOMAIN f} \cup {committed[l] : l \in Log})

Init == /\ committed \in [Log -> Phys]
        /\ \A l, m \in Log : l # m => committed[l] # committed[m]
        /\ flight = <<>>

Enter ==
  /\ Len(flight) < Capacity
  /\ LET f == flight
         next == flight' IN
     \E l, s \in Log \cup {None}, br \in BOOLEAN :
       \E p \in IF l = None THEN {None} ELSE Unused(f) :
         next = Append(f,
                  [logical |-> l, physical |-> p, src |-> s,
                   psrc   |-> IF s = None THEN None ELSE Current(f, s),
                   branch |-> br])
  /\ UNCHANGED committed

Retire ==
  /\ flight # <<>>
  /\ committed' = [l \in Log |-> IF l = Head(flight).logical
                                 THEN Head(flight).physical ELSE committed[l]]
  /\ flight' = Tail(flight)

Recover ==
  /\ \E k \in DOMAIN flight : /\ flight[k].branch
                              /\ flight' = SubSeq(flight, 1, k)
  /\ UNCHANGED committed

Flush == flight' = <<>> /\ UNCHANGED committed

Next == Enter \/ Retire \/ Recover \/ Flush

Spec == Init /\ [][Next]_mapping

============================================================================
