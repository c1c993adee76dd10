------------------------- MODULE FrontEndProperties -------------------------
(***************************************************************************)
(* What the in-order half promises: instructions are dispatched in the     *)
(* order in which they were fetched, no bundle takes more than there is,   *)
(* and nothing stays in a latch.                                           *)
(***************************************************************************)
EXTENDS FrontEnd

InOrder == window \o DISPATCH \o RENAME2 \o Queued \o DECODE

(* From the Active List to DECODE the instructions are consecutive on the   *)
(* path that is being fetched, whatever was recovered from, whichever of    *)
(* the latches were stalled, and wherever the fetch queue wraps around.     *)
ProgramOrder ==
  /\ \A n \in 1 .. Len(InOrder) - 1 : InOrder[n + 1].id = (InOrder[n].id + 1) % Ids
  /\ InOrder # <<>> => next = (Last(InOrder).id + 1) % Ids

(* What was asked for once per bundle covers each instruction of it: no     *)
(* structure ever holds more than its size (the assertions of push(),       *)
(* rename_rdst(), checkpoint() and the dispatch functions).                 *)
NoOverrun ==
  /\ fqLength <= FQSize /\ fqTail = (fqHead + fqLength) % FQSize
  /\ RegsInUse <= Registers /\ BranchesOpen <= Checkpoints
  /\ InIQ <= IQSize /\ LQLength <= LQSize /\ SQLength <= SQSize
  /\ Len(window) <= ALSize

----------------------------------------------------------------------------
(* step_micro calls every stage once per cycle; the oldest instruction is   *)
(* executed in the end, which is what Lanes shows (KeepsRetiring).          *)
Fairness ==
  /\ WF_vars(Fetch) /\ WF_vars(DecodeStage) /\ WF_vars(Rename1) /\ WF_vars(Rename2)
  /\ WF_vars(Dispatch) /\ WF_vars(Retire)
  /\ WF_vars(Issue(1)) /\ WF_vars(Complete(1) \/ Mispredict(1))

FairSpec == Spec /\ Fairness

(* Every bundle leaves its latch, and the fetch queue is emptied from the   *)
(* front: waiting for room, for registers, for checkpoints, for a whole     *)
(* bundle and for a serializing instruction never closes a circle.          *)
KeepsMoving ==
  /\ DECODE # <<>> ~> DECODE = <<>>
  /\ fqLength > 0 ~> fqLength = 0 \/ RENAME2 # <<>>
  /\ RENAME2 # <<>> ~> RENAME2 = <<>>
  /\ DISPATCH # <<>> ~> DISPATCH = <<>>
  /\ ~ active ~> active

=============================================================================
