--------------------------- MODULE LSUReservation ---------------------------
(***************************************************************************)
(* Load reservations across a misprediction.  The Retire stage asserts     *)
(* that a store-conditional always succeeds (retire.cc:91): here is what   *)
(* that takes of the load reservation.                                     *)
(***************************************************************************)
EXTENDS MCLSU

(* The address of the last load reservation to commit, None once a trap has *)
(* intervened, which yields it.                                             *)
VARIABLE reserved

ReservationInit == Init /\ reserved = None

ReservationNext ==
  /\ Next
  /\ reserved' = IF CommitLoad /\ LQ[lqHead].amo THEN LQ[lqHead].addr
                 ELSE IF Squash /\ Head(window).exception THEN None ELSE reserved

ReservationSpec ==
  ReservationInit /\ [][ReservationNext]_<<vars, reserved>>

(* "Assert store-conditionals (SC) are successful": a store-conditional to  *)
(* the address of the last committed load reservation does not fail.  It    *)
(* can: a load reservation on the wrong path of a branch that finds itself  *)
(* at the head of the load queue replaces the reservation, and restore()    *)
(* does not put it back.                                                    *)
StoreConditionalsSucceed ==
  [][CommitStore /\ SQ[sqHead].amo /\ SQ[sqHead].addr = reserved
       => ~ ReservationLost(SQ[sqHead])]_<<vars, reserved>>

=============================================================================
