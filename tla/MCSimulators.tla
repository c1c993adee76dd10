---------------------------- MODULE MCSimulators ----------------------------
(***************************************************************************)
(* The two simulators, and their hosts: a behaviour is one of the one or   *)
(* of the other.                                                           *)
(***************************************************************************)
EXTENDS MCCoSim, HostInterfaceProperties

VARIABLE unit    \* the one that runs

SimulatorsInit ==
  /\ unit \in {"cosim", "host"}
  /\ Init /\ HostInit
  /\ unit # "cosim" => program = CHOOSE p \in Programs : TRUE
  /\ unit # "host" => requests = CHOOSE r \in Requests : TRUE

(* The host stops when the program has come to its end.                     *)
SimulatorsNext ==
  \/ unit = "cosim" /\ Next /\ UNCHANGED <<hostVars, unit>>
  \/ unit = "host" /\ HostNext /\ UNCHANGED <<vars, unit>>
  \/ unit = "host" /\ Ended /\ UNCHANGED <<vars, hostVars, unit>>

SimulatorsSpec ==
  /\ SimulatorsInit /\ [][SimulatorsNext]_<<vars, hostVars, unit>>
  /\ unit = "host" => HostFairness

(* What a program of three requests asks: every kind of call, arguments and *)
(* buffers aligned and not, buffers of one packet and of several.           *)
Asks(kinds, magics, bufs, lens, gaps) ==
  [kind : kinds, magic : magics, buf : bufs, len : lens, gap : gaps]

MCRequests ==
  Asks({"in", "out", "inout", "two", "plain"}, {2, 3}, {7, 8}, {6}, {26})
  \X (Asks({"silent", "identify"}, {2}, {8}, {2}, {1, 2}) \cup Asks({"in", "out"}, {2, 3}, {7}, {5}, {1}))
  \X Asks({"exit", "pass"}, {3}, {7}, {1}, {1})

=============================================================================
