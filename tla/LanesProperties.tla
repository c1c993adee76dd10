-------------------------- MODULE LanesProperties ---------------------------
(***************************************************************************)
(* What the wakeup protocol promises: whoever waits for a register will be *)
(* told once, and not so early that the register is read before it is      *)
(* written.                                                                *)
(***************************************************************************)
EXTENDS Lanes

InLane(i) == i.at \in {"rr", "ex", "wb"}

(* The instruction has still to announce its destination.                   *)
YetToAnnounce(i) ==
  \/ i.at \in {"iq", "rr", "lsu"}
  \/ i.at = "ex" /\ (i.op \in {"load", "SC"} \/ i.sub < Depth[i.lane])

----------------------------------------------------------------------------
TypeOK ==
  /\ Len(window) <= Window
  /\ \A k \in Entries :
       LET i == window[k] IN
       /\ i.op \in AllOps /\ i.at \in Places /\ i.lane \in Lanes \cup {0}
       /\ i.dest \in Phys \cup {None} /\ i.log \in Log \cup {None}
       /\ i.wait \subseteq i.srcs /\ i.srcs \subseteq Phys
       /\ InLane(i) <=> i.lane # 0
       /\ i.sub \in IF i.at = "ex" THEN 1 .. Depth[i.lane] ELSE {0}
  /\ amt \in [Log -> Phys]
  /\ ready \in [Phys -> BOOLEAN] /\ written \in [Phys -> BOOLEAN]
  /\ stage \in {"retire", "writeback", "load_replay", "execute", "register_read",
                "schedule", "dispatch"}
  /\ n \in Nat

(* An instruction in the issue queue waits for exactly those of its sources *)
(* that somebody in flight has still to announce: nobody waits for a tag    *)
(* that has gone by, and wakeup() never finds a source that is ready        *)
(* already (its assertions).                                                *)
TagsPrecise ==
  \A k \in Entries : window[k].at = "iq" =>
    window[k].wait = {p \in window[k].srcs :
                        \E j \in Entries : window[j].dest = p /\ YetToAnnounce(window[j])}

(* Announced is not yet written: but when an instruction reads its sources, *)
(* whoever produces them has left the last sub-stage of its lane, in the    *)
(* same cycle at the latest.                                                *)
ReadsWritten ==
  stage = "register_read" =>
    \A k \in In("rr") : \A p \in window[k].srcs : written[p]

(* A committed register is ready and written, whichever way its instruction *)
(* took: in a lane, by a replay, or executed late by Retire.  An            *)
(* instruction that reads it would wait for ever otherwise.                 *)
CommittedReady == \A l \in Log : ready[amt[l]] /\ written[amt[l]]

(* Lanes are free-flowing: no stage of a lane is ever given an instruction  *)
(* while it holds one (the assertions of register_read(), execute() and     *)
(* select_and_issue()).                                                     *)
LanesFreeFlowing ==
  \A j, k \in Entries : j # k /\ InLane(window[j]) /\ InLane(window[k]) =>
    <<window[j].lane, window[j].at, window[j].sub>>
      # <<window[k].lane, window[k].at, window[k].sub>>

----------------------------------------------------------------------------
(* Every cycle runs all stages.  The oldest of the loads that wait gets its *)
(* value in the end, as LoadsLeave of the load/store unit says.             *)
ReplayOldest ==
  \E k \in Entries : /\ \A j \in Entries : window[j].at = "lsu" => k <= j
                     /\ ReplaySucceeds(k)

FairSpec == Spec /\ WF_vars(Next) /\ SF_vars(ReplayOldest)

(* The back end never hangs (the deadlock check of step_micro()): unless it *)
(* runs empty, instructions keep leaving the Active List.                   *)
KeepsRetiring ==
  []<>(window = <<>>) \/ []<><<stage = "retire" /\ (CommitHead \/ SquashAll)>>_vars

=============================================================================
