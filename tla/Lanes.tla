------------------------------- MODULE Lanes --------------------------------
(***************************************************************************)
(* The back end of 721sim cycle by cycle: when a register is announced to  *)
(* the issue queue, when it is written and when it is read.                *)
(*                                                                         *)
(* One cycle runs the stages from Retire back to Dispatch (step_micro()),  *)
(* each over all lanes; a step of this module is one lane of one stage.    *)
(* An instruction is announced before its value exists, so that the order  *)
(* of the stages and the depth of a lane have to fit together.             *)
(*                                                                         *)
(* The instructions in flight are a sequence in program order, which says  *)
(* of each where it is.  The renamer and the load/store unit answer as     *)
(* their own modules say: a destination is a register that nothing names,  *)
(* a misprediction squashes what is younger, and a load may have to wait.  *)
(*                                                                         *)
(* An operator whose comment begins "Mutant" is not the code: it is the    *)
(* mistake that a property of LanesProperties is shown to catch.           *)
(***************************************************************************)
EXTENDS Integers, Sequences, FiniteSets

CONSTANTS
  Log, Phys,      \* logical and physical registers
  Depth,          \* ex_depth of each lane, a sequence
  Serves,         \* the kinds of operations each lane executes, a sequence
  Window,         \* bound: instructions in flight
  RetireWidth,    \* RETIRE_WIDTH
  Kinds           \* the instructions that arrive: [op, srcs, dest]

None  == "none"   \* an operand the instruction does not have
Lanes == 1 .. Len(Depth)

AllOps == {"alu", "branch", "load",
           "mul",   \* an operation of longer latency
           "SC",    \* store-conditional: its destination gets its value in the lane
           "amo",   \* executes when it retires
           "csr",   \* a first time in a lane, and again when it retires
           "nop"}   \* is complete when it is dispatched

ASSUME LanesAssumption ==
  /\ Depth \in Seq(Nat \ {0}) /\ Depth # <<>> /\ Len(Serves) = Len(Depth)
  /\ \A n \in Lanes : Serves[n] \subseteq AllOps
  /\ \A m, x \in Lanes : Serves[m] \cap Serves[x] # {} => Depth[m] = Depth[x]
  /\ Window \in Nat \ {0} /\ RetireWidth \in Nat \ {0}
  /\ Cardinality(Phys) >= Cardinality(Log) + Window
  /\ None \notin Log \cup Phys
  /\ \A kind \in Kinds :
       /\ kind.op \in AllOps
       /\ kind.op \in AllOps \ {"nop"} => \E n \in Lanes : kind.op \in Serves[n]
       /\ kind.srcs \subseteq Log /\ kind.dest \in Log \cup {None}
       /\ kind.op = "nop" => kind.srcs = {} /\ kind.dest = None

(* Where an instruction is: in the issue queue; in Register Read, in a      *)
(* sub-stage of Execute or in Writeback of a lane; waiting in the load      *)
(* queue; or done.                                                          *)
Places == {"iq", "rr", "ex", "wb", "lsu", "done"}

VARIABLES
  window,     \* the instructions in flight, the oldest first
  amt,        \* the register that holds the committed value of each logical
  ready,      \* prf_ready
  written,    \* has the register been given the value of its instruction?
  stage,      \* the stage that runs next, and
  n           \* its lane, or its turn

vars == <<window, amt, ready, written, stage, n>>

Init ==
  /\ window = <<>>
  /\ amt \in [Log -> Phys]
  /\ \A l, m \in Log : l # m => amt[l] # amt[m]
  /\ ready = [p \in Phys |-> TRUE] /\ written = [p \in Phys |-> TRUE]
  /\ stage = "retire" /\ n = 1

Entries    == DOMAIN window
Serial(i)  == i.op \in {"amo", "csr", "SC"}
IsAmo(i)   == i.op \in {"amo", "SC"}
Dest(i)    == {i.dest} \ {None}

(* The instruction in a place of the current lane, or in a sub-stage of its *)
(* Execute, as a set of at most one.                                        *)
In(place)     == {k \in Entries : window[k].at = place /\ window[k].lane = n}
InExecute(d) == {k \in In("ex") : window[k].sub = d}

(* The register that program order gives for l, behind all of window.       *)
Current(l) ==
  LET ks == {k \in Entries : window[k].log = l} IN
  IF ks = {} THEN amt[l]
  ELSE window[CHOOSE k \in ks : \A j \in ks : j <= k].dest

Unused == Phys \ ({amt[l] : l \in Log} \cup UNION {Dest(window[k]) : k \in Entries})

----------------------------------------------------------------------------
(* step_micro(): every stage goes through its lanes, and then it is the     *)
(* turn of the stage in front of it.                                        *)
To(s) == stage' = s /\ n' = 1

NextLane(s) == IF n < Len(Depth) THEN n' = n + 1 /\ UNCHANGED stage ELSE To(s)

(* Mutant: an entry in the issue queue does not hear of the tags.           *)
Deaf(i, tags) == i

(* wakeup(): an entry in the issue queue hears of the tags.                 *)
Hears(i, tags) == IF i.at = "iq" THEN [i EXCEPT !.wait = @ \ tags] ELSE i

Set(bits, regs) == [p \in Phys |-> bits[p] \/ p \in regs]

----------------------------------------------------------------------------
(* Retire.  AMO and CSR instructions execute only now, in an empty pipeline.*)
(* The timer may end it before RETIRE_WIDTH instructions.                   *)
LateOps == {"amo", "csr"}

CommitHead ==
  LET i == Head(window) IN
  /\ window # <<>> /\ i.at = "done"
  /\ amt' = IF i.dest = None THEN amt ELSE [amt EXCEPT ![i.log] = i.dest]
  /\ ready' = IF i.op \in LateOps THEN Set(ready, Dest(i)) ELSE ready
  /\ written' = IF i.op \in LateOps THEN Set(written, Dest(i)) ELSE written
  /\ window' = Tail(window)

(* An exception or a load violation, wherever it was found: the instruction *)
(* went on like any other until it became the oldest.  A branch has none.   *)
(* An AMO that faults in Retire sets its ready bit all the same.            *)
SquashAll ==
  LET i == Head(window) IN
  /\ window # <<>> /\ i.at = "done" /\ i.op # "branch"
  /\ window' = <<>>
  /\ UNCHANGED ready \/ (i.op = "amo" /\ ready' = Set(ready, Dest(i)))
  /\ UNCHANGED <<amt, written>>

NothingToRetire ==
  /\ window # <<>> => Head(window).at # "done"
  /\ UNCHANGED <<window, amt, ready, written>>

Retire ==
  /\ stage = "retire"
  /\ CommitHead \/ SquashAll \/ NothingToRetire
  /\ \/ n < RetireWidth /\ n' = n + 1 /\ UNCHANGED stage
     \/ To("writeback")

----------------------------------------------------------------------------
(* Writeback.  A misprediction squashes what is younger, in the lanes that  *)
(* have had their turn and in those that have not.                          *)

Done(i)     == [i EXCEPT !.at = "done", !.lane = 0, !.sub = 0]
Complete(k) == [window EXCEPT ![k] = Done(@)]

Writeback ==
  /\ stage = "writeback"
  /\ IF In("wb") = {} THEN UNCHANGED window
     ELSE \E k \in In("wb") :
            \/ window' = Complete(k)
            \/ /\ window[k].op = "branch"
               /\ window' = SubSeq(Complete(k), 1, k)
  /\ NextLane("load_replay")
  /\ UNCHANGED <<amt, ready, written>>

(* load_replay(): at most one of the loads that wait gets its value.        *)
ReplaySucceeds(k) ==
  /\ stage = "load_replay"
  /\ window[k].at = "lsu"
  /\ window' = [j \in Entries |-> Hears(Complete(k)[j], Dest(window[k]))]
  /\ ready' = Set(ready, Dest(window[k]))
  /\ written' = Set(written, Dest(window[k]))
  /\ To("execute")
  /\ UNCHANGED amt

ReplayNone ==
  /\ stage = "load_replay"
  /\ To("execute")
  /\ UNCHANGED <<window, amt, ready, written>>

----------------------------------------------------------------------------
(* Execute.  The instruction in the last sub-stage gets its result; the one *)
(* in the sub-stage before it is announced; and all move on.                *)
WritesInLane(i) == i.op \notin {"amo", "csr"}

(* Mutant: a store-conditional leaves its ready bit as it was.              *)
SetsReadyLoadOnly(i) == i.op = "load"

(* Loads and store-conditionals are not announced early.                    *)
SetsReadyInExecute(i) == i.op \in {"load", "SC"}

AnnouncedEarly(i) == i.op # "load" /\ ~ IsAmo(i)

WakesInRegisterRead(i) == AnnouncedEarly(i) /\ Depth[n] = 1

(* Mutant: announced in the first sub-stage.                                *)
FirstSubStage == {k \in InExecute(1) : Depth[n] > 1 /\ AnnouncedEarly(window[k])}

Announced == {k \in InExecute(Depth[n] - 1) : AnnouncedEarly(window[k])}

MovesOn(k, i, stalls) ==
  CASE k \in stalls                  -> [i EXCEPT !.at = "lsu", !.lane = 0, !.sub = 0]
    [] k \in InExecute(Depth[n]) \ stalls -> [i EXCEPT !.at = "wb", !.sub = 0]
    [] k \in In("ex") \ InExecute(Depth[n]) -> [i EXCEPT !.sub = @ + 1]
    [] OTHER                         -> i

Execute ==
  /\ stage = "execute"
  /\ \E stalls \in SUBSET {k \in InExecute(Depth[n]) : window[k].op = "load"} :
       LET done  == InExecute(Depth[n]) \ stalls
           early == UNION {Dest(window[k]) : k \in Announced}
           loads == UNION {Dest(window[k]) : k \in {j \in done : window[j].op = "load"}}
           late  == UNION {Dest(window[k]) : k \in {j \in done : SetsReadyInExecute(window[j])}}
       IN
       /\ window' = [k \in Entries |-> Hears(MovesOn(k, window[k], stalls), early \cup loads)]
       /\ ready' = Set(ready, early \cup late)
       /\ written' = Set(written,
            UNION {Dest(window[k]) : k \in {j \in done : WritesInLane(window[j])}})
  /\ NextLane("register_read")
  /\ UNCHANGED amt

----------------------------------------------------------------------------
(* Register Read.  What is in a lane of one stage is announced, and reads   *)
(* its own sources.                                                         *)
RegisterRead ==
  /\ stage = "register_read"
  /\ LET tags == UNION {Dest(window[k]) : k \in {j \in In("rr") : WakesInRegisterRead(window[j])}} IN
     /\ window' = [k \in Entries |->
                    IF k \in In("rr") THEN [window[k] EXCEPT !.at = "ex", !.sub = 1]
                    ELSE Hears(window[k], tags)]
     /\ ready' = Set(ready, tags)
  /\ NextLane("schedule")
  /\ UNCHANGED <<amt, written>>

----------------------------------------------------------------------------
(* Schedule.  In whatever order the issue queue is scanned, an instruction  *)
(* that waits for nothing takes a lane that serves it and is free, and none *)
(* is left that could have.  All lanes have just emptied Register Read.     *)
CouldTake(k, m) ==
  window[k].at = "iq" /\ window[k].wait = {} /\ window[k].op \in Serves[m]

(* Mutant: a lane that is taken is taken again.                             *)
SharesLanes(f, j, k) == TRUE

Exclusive(f, j, k) == j # k /\ f[j] # 0 => f[j] # f[k]

Issues ==
  {f \in [Entries -> Lanes \cup {0}] :
     /\ \A k \in Entries : f[k] # 0 => CouldTake(k, f[k])
     /\ \A j, k \in Entries : Exclusive(f, j, k)
     /\ \A k \in Entries, m \in Lanes : f[k] = 0 /\ CouldTake(k, m) =>
          \E j \in Entries : f[j] = m}

Schedule ==
  /\ stage = "schedule"
  /\ \E f \in Issues :
       window' = [k \in Entries |->
         IF f[k] = 0 THEN window[k] ELSE [window[k] EXCEPT !.at = "rr", !.lane = f[k]]]
  /\ To("dispatch")
  /\ UNCHANGED <<amt, ready, written>>

----------------------------------------------------------------------------
(* Dispatch, one instruction of the bundle.  Nothing arrives behind a       *)
(* serializing instruction.  The register it is given was named in Rename   *)
(* and is not ready from here on.                                           *)
Sources(kind) == {Current(l) : l \in kind.srcs}

(* Mutant: the ready bit of a reused register is left as it was.            *)
KeepReady(dest) == ready

ClearReady(dest) == [p \in Phys |-> ready[p] /\ p # dest]

Arrives(kind, dest) ==
  /\ window' = Append(window,
       [op |-> kind.op, log |-> kind.dest, dest |-> dest, lane |-> 0, sub |-> 0,
        at |-> IF kind.op = "nop" THEN "done" ELSE "iq",
        srcs |-> Sources(kind), wait |-> {p \in Sources(kind) : ~ ready[p]}])
  /\ ready' = ClearReady(dest)
  /\ written' = [p \in Phys |-> written[p] /\ p # dest]

Dispatch ==
  /\ stage = "dispatch"
  /\ Len(window) < Window
  /\ \A k \in Entries : ~ Serial(window[k])
  /\ \E kind \in Kinds : \E dest \in IF kind.dest = None THEN {None} ELSE Unused :
       Arrives(kind, dest)
  /\ UNCHANGED <<amt, stage, n>>

EndCycle ==
  /\ stage = "dispatch"
  /\ To("retire")
  /\ UNCHANGED <<window, amt, ready, written>>

----------------------------------------------------------------------------
Next ==
  \/ Retire
  \/ Writeback
  \/ \E k \in Entries : ReplaySucceeds(k)
  \/ ReplayNone
  \/ Execute
  \/ RegisterRead
  \/ Schedule
  \/ Dispatch
  \/ EndCycle

Spec == Init /\ [][Next]_vars

=============================================================================
