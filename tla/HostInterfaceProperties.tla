---------------------- MODULE HostInterfaceProperties ----------------------
(***************************************************************************)
(* What the host-target interface promises.                                *)
(***************************************************************************)
EXTENDS HostInterface

(* What the program took as the result of its calls, the last one, which    *)
(* ends it, aside.                                                          *)
TookAnswers(p) == \E last \in {0, 1} : p.taken = SubSeq(answers, 1, Len(answers) - last)

(* Every program comes to its end on both simulators, if the functional     *)
(* simulator is further ahead than the longest service takes: a system call *)
(* is executed once, and the mirror finds its recording, in time, and in    *)
(* it what its own program asked; the hosts use as many ticks, so that no   *)
(* answer comes an instruction earlier or later; the program gets the       *)
(* result of its own call; and the memories are equal, those cells included *)
(* that host and program both write.                                        *)
Ended ==
  /\ \A s \in Sims : ~ Running(sims[s]) /\ TookAnswers(sims[s].proc)
  /\ records = <<>> /\ recordings = <<>> /\ ~ failed
  /\ sims["isa"].mem = sims["micro"].mem

EndsAlike == (\E s \in Sims : ~ sims[s].reset) ~> Ended

=============================================================================
