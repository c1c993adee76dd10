--------------------------- MODULE CoSimProperties ---------------------------
(***************************************************************************)
(* What co-simulation promises: the two simulators never disagree, and the *)
(* payload knows the record of every instruction on the right path.        *)
(***************************************************************************)
EXTENDS CoSim

(* No assertion of the checker, of the ring or of the simulator fails: what *)
(* the pipeline retires, in bundles cut for the host and the timer, with    *)
(* traps, squashes and CSR instructions tried twice, agrees with what the   *)
(* functional simulator did one instruction at a time, long before, and the *)
(* host had its turn at the same instruction on both sides.                 *)
NeverAborts == ~ aborted

(* The records are those of the instructions they are mapped to, in order;  *)
(* the oldest instruction always has one, and the first instruction of the  *)
(* wrong path is the first without, however often the path was cut back.    *)
(* The record of a branch says where it really goes, which perfect branch   *)
(* prediction relies on.                                                    *)
MappedInOrder ==
  /\ pay # <<>> => Head(pay).good
  /\ \A n \in DOMAIN pay :
       LET record == dbg.db[pay[n].db] IN
       /\ pay[n].good =>
            /\ pay[n].db = (dbg.head + n - 1) % Size
            /\ record.pc = pay[n].pc
            /\ program[pay[n].pc] = "br" => record.next = ActualNext(n)
       /\ n < Len(pay) =>
            pay[n + 1].good = (pay[n].good /\ record.next = pay[n + 1].pc)

(* The functional simulator counts one instruction in every step (the       *)
(* assertion of sim_t::step, sim.cc:146).                                   *)
CountsOneEach == dbg.oneEach

=============================================================================
