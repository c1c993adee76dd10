------------------------------ MODULE FrontEnd ------------------------------
(***************************************************************************)
(* The in-order half of the 721sim pipeline: the latches DECODE, RENAME2   *)
(* and DISPATCH and the fetch queue FQ between them, with the stages that  *)
(* move bundles from one to the next (decode.cc, rename.cc, dispatch.cc,   *)
(* fetch_queue.cc), and how they wait for room: each stage asks once for   *)
(* its whole bundle and then takes what the bundle needs.                  *)
(*                                                                         *)
(* The structures that are waited for are counts here: what Renamer, LSU   *)
(* and IssueQueue keep in them, and which entry is used, is proved or      *)
(* checked there.  Behind DISPATCH an instruction is in the issue queue,   *)
(* in a lane or done, and completes, resolves and retires as Lanes does.   *)
(*                                                                         *)
(* Instructions are numbered along the path that is fetched, modulo Ids: a *)
(* recovery starts again behind the instruction it recovers to.            *)
(*                                                                         *)
(* An operator whose comment begins "Mutant" is not the code: it is the    *)
(* mistake that a property of FrontEndProperties is shown to catch.        *)
(***************************************************************************)
EXTENDS Decode, Naturals, SequencesExt, FiniteSetsExt

CONSTANTS
  FetchWidth,      \* instructions per fetch bundle, fetch_width
  DispatchWidth,   \* instructions per rename and dispatch bundle, dispatch_width
  FQSize,          \* places of the fetch queue, fq_size
  Registers,       \* physical registers beyond the committed ones, prf_size - 64
  Checkpoints,     \* unresolved branches, num_chkpts
  ALSize,          \* Active List entries, rob_size
  IQSize,          \* issue queue entries
  LQSize, SQSize,  \* load and store queue entries
  Kinds            \* the instructions that are fetched, and how

(* fault: a no-op that stands for an instruction whose fetch trapped.       *)
Fetched == [inst : Instructions, fault : BOOLEAN]

ASSUME FrontEndAssumption ==
  /\ FetchWidth \in Nat \ {0} /\ DispatchWidth \in Nat \ {0} /\ FQSize \in Nat
  /\ {Registers, Checkpoints, ALSize, IQSize, LQSize, SQSize} \subseteq Nat
  /\ Kinds \subseteq {f \in Fetched : f.fault => Nop(f.inst)}

(* Nothing in the source checks these sizes; without them a bundle can wait *)
(* for room that there never is.                                            *)
ASSUME SizesAssumption ==
  /\ FQSize >= 2 * FetchWidth + DispatchWidth - 1
  /\ \A size \in {Registers, Checkpoints, ALSize, IQSize, LQSize, SQSize} :
       size >= DispatchWidth

VARIABLES
  active,    \* FetchUnit->active(): not waiting for a serializing instruction
  DECODE,    \* the bundle from fetch to decode
  fq,        \* the ring of the fetch queue
  fqHead, fqTail, fqLength,
  RENAME2,   \* the bundle from rename1 to rename2
  DISPATCH,  \* the bundle from rename2 to dispatch
  window,    \* the instructions dispatched and not retired, in program order
  next       \* the number of the next instruction to be fetched

fqVars == <<fq, fqHead, fqTail, fqLength>>
vars   == <<active, DECODE, fqVars, RENAME2, DISPATCH, window, next>>

Ids == 2 * FetchWidth + FQSize + 2 * DispatchWidth + ALSize

(* What the payload holds of an instruction that has been decoded, and in    *)
(* which branch it still waits to be resolved.                              *)
Decoded == [id : 0 .. Ids - 1, inst : Instructions, flags : SUBSET AllFlags,
            trap : BOOLEAN, iq : BOOLEAN, resolved : BOOLEAN]

(* dispatch.cc looks at iq and flags, rename.cc at checkpoint and C_valid.  *)
NeedsReg(d)    == HasDest(d.inst)
NeedsBranch(d) == Checkpoint(d.inst)
NeedsLoad(d)   == IsLoad(d.flags)
NeedsStore(d)  == IsStore(d.flags) /\ ~ IsLoad(d.flags)
NeedsIQ(d)     == d.iq

Count(seq, Test(_)) == Quantify(DOMAIN seq, LAMBDA k : Test(seq[k]))

----------------------------------------------------------------------------
(* What is taken, by the instructions that took it.                         *)
Renamed      == window \o DISPATCH
RegsInUse    == Count(Renamed, NeedsReg)
BranchesOpen == Count(Renamed, LAMBDA d : NeedsBranch(d) /\ ~ d.resolved)
InIQ         == Count(window, LAMBDA d : d.at = "iq")
LQLength     == Count(window, NeedsLoad)
SQLength     == Count(window, NeedsStore)

StallBranch(n)   == Checkpoints - BranchesOpen < n
StallReg(n)      == Registers - RegsInUse < n
StallIQ(n)       == InIQ + n > IQSize
StallLSU(nl, ns) == LQLength + nl > LQSize \/ SQLength + ns > SQSize
StallDispatch(n) == ALSize - Len(window) < n

Init ==
  /\ active = TRUE /\ DECODE = <<>> /\ RENAME2 = <<>> /\ DISPATCH = <<>> /\ window = <<>>
  /\ fq = [p \in 0 .. FQSize - 1 |-> <<>>] /\ fqHead = 0 /\ fqTail = 0 /\ fqLength = 0
  /\ next = 0

(* The fetch queue; q[MOD_S(tail, size)] is written one index at a time.    *)
EnoughSpace(n) == FQSize - fqLength >= n

Push(bundle) ==
  /\ fq' = [p \in DOMAIN fq |->
              LET n == (p + FQSize - fqTail) % FQSize IN
              IF n < Len(bundle) THEN bundle[n + 1] ELSE fq[p]]
  /\ fqTail' = (fqTail + Len(bundle)) % FQSize
  /\ fqLength' = fqLength + Len(bundle)
  /\ UNCHANGED fqHead

Queued == [n \in 1 .. fqLength |-> fq[(fqHead + n - 1) % FQSize]]

Pop(n) == /\ fqHead' = (fqHead + n) % FQSize
          /\ fqLength' = fqLength - n
          /\ UNCHANGED <<fq, fqTail>>

(* Mutant: what is queued survives the recovery.                            *)
KeepQueue == UNCHANGED fqVars

FlushQueue == fqHead' = 0 /\ fqTail' = 0 /\ fqLength' = 0 /\ UNCHANGED fq

----------------------------------------------------------------------------
(* fetch2 hands over a bundle; a serializing instruction and a fault are    *)
(* its last and stop the fetch unit.                                        *)
Serializes(f) == f.fault \/ f.inst.op \in {"OP_AMO", "OP_SYSTEM"}

Fetch ==
  /\ active /\ DECODE = <<>>
  /\ \E bundle \in BoundedSeq(Kinds, FetchWidth) \ {<<>>} :
       /\ \A n \in DOMAIN bundle : Serializes(bundle[n]) => n = Len(bundle)
       /\ DECODE' = [n \in DOMAIN bundle |->
                       [id |-> (next + n - 1) % Ids, inst |-> bundle[n].inst,
                        fault |-> bundle[n].fault]]
       /\ next' = (next + Len(bundle)) % Ids
       /\ active' = ~ Serializes(Last(bundle))
  /\ UNCHANGED <<fqVars, RENAME2, DISPATCH, window>>

(* The flags an unknown opcode may find in its place of the payload, which  *)
(* differ from place to place.                                              *)
LeftFlags == {Flags(i, {}) : i \in Instructions}

DecodedFrom(d, left) ==
  [id |-> d.id, inst |-> d.inst, flags |-> Flags(d.inst, left), iq |-> ToIQ(d.inst),
   trap |-> d.fault \/ Traps(d.inst), resolved |-> FALSE]

(* Room for twice the bundle, as if each instruction were split.            *)
RoomToDecode == EnoughSpace(2 * Len(DECODE))

DecodeStage ==
  /\ DECODE # <<>>
  /\ RoomToDecode
  /\ \E left \in [DOMAIN DECODE ->
                   IF \E n \in DOMAIN DECODE : DECODE[n].inst.op = "unknown"
                   THEN LeftFlags ELSE {{}}] :
       Push([n \in DOMAIN DECODE |-> DecodedFrom(DECODE[n], left[n])])
  /\ DECODE' = <<>>
  /\ UNCHANGED <<active, RENAME2, DISPATCH, window, next>>

(* Mutant: rename1 always waits for a full bundle.                          *)
WholeBundle == fqLength >= DispatchWidth

(* Unless the fetch unit waits for what is in the queue.                    *)
BundleReady == active => fqLength >= DispatchWidth

Rename1 ==
  /\ RENAME2 = <<>> /\ BundleReady
  /\ LET n == Min({fqLength, DispatchWidth}) IN
     /\ n > 0
     /\ RENAME2' = SubSeq(Queued, 1, n)
     /\ Pop(n)
  /\ UNCHANGED <<active, DECODE, DISPATCH, window, next>>

(* Mutant: asks for one register, not for those of the bundle.              *)
RegForOne == StallBranch(Count(RENAME2, NeedsBranch)) \/ StallReg(1)

RenameStalls == StallBranch(Count(RENAME2, NeedsBranch)) \/ StallReg(Count(RENAME2, NeedsReg))

Rename2 ==
  /\ RENAME2 # <<>> /\ DISPATCH = <<>>
  /\ ~ RenameStalls
  /\ DISPATCH' = RENAME2 /\ RENAME2' = <<>>
  /\ UNCHANGED <<active, DECODE, fqVars, window, next>>

DispatchStalls ==
  \/ StallIQ(Count(DISPATCH, NeedsIQ))
  \/ StallLSU(Count(DISPATCH, NeedsLoad), Count(DISPATCH, NeedsStore))
  \/ StallDispatch(Len(DISPATCH))

(* With the floating-point unit disabled its instructions trap.             *)
Entered(d, enabled) ==
  [id |-> d.id, inst |-> d.inst, flags |-> d.flags, iq |-> d.iq, resolved |-> d.resolved,
   trap |-> (d.trap /\ ~ d.iq) \/ (IsFPOp(d.flags) /\ ~ enabled),
   at |-> IF d.iq THEN "iq" ELSE "done"]

Dispatch ==
  /\ DISPATCH # <<>>
  /\ ~ DispatchStalls
  /\ \E enabled \in IF \E n \in DOMAIN DISPATCH : IsFPOp(DISPATCH[n].flags)
                    THEN BOOLEAN ELSE {TRUE} :
       window' = window \o [n \in DOMAIN DISPATCH |-> Entered(DISPATCH[n], enabled)]
  /\ DISPATCH' = <<>>
  /\ UNCHANGED <<active, DECODE, fqVars, RENAME2, next>>

----------------------------------------------------------------------------
(* The back end, as far as the latches feel it.                             *)
Issue(k) ==
  /\ k \in DOMAIN window /\ window[k].at = "iq"
  /\ window' = [window EXCEPT ![k].at = "ex"]
  /\ UNCHANGED <<active, DECODE, fqVars, RENAME2, DISPATCH, next>>

(* Execution may find an exception or, for a load, later a violation.       *)
Complete(k) ==
  /\ k \in DOMAIN window /\ window[k].at = "ex"
  /\ \E trap \in {window[k].trap, TRUE} :
       window' = [window EXCEPT ![k] = [@ EXCEPT !.at = "done", !.resolved = TRUE,
                                                 !.trap = trap]]
  /\ UNCHANGED <<active, DECODE, fqVars, RENAME2, DISPATCH, next>>

(* Every latch in front of the window is younger than any branch in it.     *)
EmptyLatches == DECODE' = <<>> /\ FlushQueue /\ RENAME2' = <<>> /\ DISPATCH' = <<>>

Mispredict(k) ==
  /\ k \in DOMAIN window /\ window[k].at = "ex" /\ NeedsBranch(window[k])
  /\ window' = [SubSeq(window, 1, k) EXCEPT ![k] = [@ EXCEPT !.at = "done", !.resolved = TRUE]]
  /\ next' = (window[k].id + 1) % Ids
  /\ active' = TRUE
  /\ EmptyLatches

(* Fetching starts again when a serializing instruction commits; the unit   *)
(* is flushed and the latches, which are empty, are left alone.  An unknown *)
(* opcode is on the right path when it gets here: the functional simulator  *)
(* has trapped, and the checker ends the simulation.                        *)
Commit ==
  /\ window # <<>> /\ Head(window).at = "done" /\ ~ Head(window).trap
  /\ Head(window).inst.op # "unknown"
  /\ window' = Tail(window)
  /\ active' = (active \/ IsAmo(Head(window).flags) \/ IsCsr(Head(window).flags))
  /\ UNCHANGED <<DECODE, fqVars, RENAME2, DISPATCH, next>>

(* A trap, or a load that took its value too early: nothing is kept.        *)
SquashComplete ==
  /\ window # <<>> /\ Head(window).at = "done" /\ Head(window).trap
  /\ window' = <<>> /\ next' = Head(window).id /\ active' = TRUE
  /\ EmptyLatches

Retire == Commit \/ SquashComplete

----------------------------------------------------------------------------
Backend == \/ \E k \in DOMAIN window : Issue(k) \/ Complete(k) \/ Mispredict(k)
           \/ Retire

Next == Fetch \/ DecodeStage \/ Rename1 \/ Rename2 \/ Dispatch \/ Backend

Spec == Init /\ [][Next]_vars

=============================================================================
