------------------------------- MODULE CoSim -------------------------------
(***************************************************************************)
(* The functional simulator that 721sim runs beside the pipeline, and the  *)
(* ring between them: the functional simulator runs ahead and leaves a     *)
(* record of each instruction in the debug buffer (debug.cc), the payload  *)
(* maps what is fetched to these records (payload.cc), and the checker     *)
(* compares every retired instruction with its record (checker.cc).  Both  *)
(* sides talk to a host of their own, once every INTERLEAVE instructions.  *)
(*                                                                         *)
(* What is left of the architecture is what the two sides could disagree   *)
(* about: the program counter, one bit of a register, the counter with its *)
(* compare register and timer bit, the word from the host, and the flag    *)
(* of an instruction that has to be tried twice.  Out-of-order execution   *)
(* is what the other modules show it to be: an instruction has the values  *)
(* of program order when it retires, and a branch resolves with them.      *)
(***************************************************************************)
EXTENDS Naturals, SequencesExt, FiniteSetsExt

CONSTANTS
  Size,         \* entries of the debug buffer, PIPE_QUEUE_SIZE
  MaxFlight,    \* instructions in the payload buffer
  PCs,          \* a program has the addresses 0 .. PCs - 1
  Programs,     \* what may stand there
  Word,         \* the counter counts modulo Word
  INTERLEAVE,   \* instructions between two ticks of the host, INTERLEAVE
  RetireWidth   \* instructions retired per cycle, RETIRE_WIDTH

(* op and br are plain; csrcount, csrcompare and csrhost access the         *)
(* registers of that name, csrenable sets SR_EI; trap stands for SCALL,     *)
(* fault for a load or store that traps when it is executed.                *)
Kinds == {"op", "br", "csrcount", "csrcompare", "csrhost", "csrenable", "sret",
          "trap", "fault"}

(* Nothing checks that the ring is longer than what is in flight.           *)
ASSUME CoSimAssumption ==
  /\ {Size, MaxFlight, PCs, Word, INTERLEAVE, RetireWidth} \subseteq Nat \ {0}
  /\ MaxFlight < Size
  /\ Programs \subseteq [0 .. PCs - 1 -> Kinds]

VARIABLES
  program,
  isa,      \* the functional simulator
  dbg,      \* the debug buffer: db, head, tail and length; and whether each step
            \* of the functional simulator has counted one instruction
  mic,      \* the architectural state of the pipeline
  pay,      \* the instructions in flight, oldest first
  pc,       \* the address to be fetched next
  active,   \* fetching, not waiting for a serializing instruction
  instret,  \* instructions retired in this cycle, and
  lane,     \* how many lanes have had their turn to retire one
  limit,    \* instret_limit of this cycle
  aborted   \* an assertion has failed

vars == <<program, isa, dbg, mic, pay, pc, active, instret, lane, limit, aborted>>

Evec          == 0
After(p)      == (p + 1) % PCs
Target(p)     == (p + 2) % PCs
Serial(k)     == k \in {"csrcount", "csrcompare", "csrhost", "csrenable", "sret", "trap"}
TriedTwice(k) == k \in {"csrcount", "csrcompare"}

----------------------------------------------------------------------------
(* What both simulators do with a state: the CSRs of processor.cc, and the  *)
(* host, which toggles the word it sends.                                   *)
Reset == [pc |-> 0, r |-> 0, count |-> 0, compare |-> 0, timer |-> FALSE, host |-> 0,
          ei |-> FALSE, pei |-> FALSE, epc |-> 0, serialized |-> FALSE, step |-> 0]

Tick(s) == [s EXCEPT !.host = 1 - @]

UpdateTimer(s) == [s EXCEPT !.count = (@ + 1) % Word, !.timer = @ \/ s.count + 1 = s.compare]

NextTimer(s) == (s.compare + Word - s.count) % Word

TakeTrap(s, p) == [s EXCEPT !.epc = p, !.pc = Evec, !.pei = s.ei, !.ei = FALSE]

(* An instruction at s.pc that is executed to its end.                      *)
Execute(s, k) ==
  CASE k = "op"         -> [s EXCEPT !.r = 1 - @, !.pc = After(@)]
    [] k = "br"         -> [s EXCEPT !.pc = IF s.r = 1 THEN Target(@) ELSE After(@)]
    [] k = "csrcount"   -> [s EXCEPT !.r = s.count % 2, !.serialized = FALSE, !.pc = After(@)]
    [] k = "csrcompare" -> [s EXCEPT !.compare = (s.count + 2) % Word, !.timer = FALSE,
                                     !.serialized = FALSE, !.pc = After(@)]
    [] k = "csrhost"    -> [Tick(s) EXCEPT !.r = 1 - s.host, !.pc = After(@)]
    [] k = "csrenable"  -> [s EXCEPT !.ei = TRUE, !.pc = After(@)]
    [] k = "sret"       -> [s EXCEPT !.pc = s.epc, !.ei = s.pei]

Trapping(k)       == k \in {"trap", "fault"}
Serializing(s, k) == TriedTwice(k) /\ ~ s.serialized

----------------------------------------------------------------------------
(* The functional simulator executes one instruction into a new entry.      *)
Entry(before, after, exception) ==
  [pc |-> before.pc, next |-> after.pc, exception |-> exception, state |-> after]

(* processor_t::step(1): the state is recorded before the timer moves on.   *)
StepOutcome(s, k) ==
  CASE Serializing(s, k) -> [s EXCEPT !.serialized = TRUE]
    [] Trapping(k)       -> TakeTrap(s, s.pc)
    [] OTHER             -> Execute(s, k)

(* sim_t::step: the host has its turn after INTERLEAVE instructions.        *)
CountStep(s, n) ==
  IF s.step + n = INTERLEAVE THEN [Tick(s) EXCEPT !.step = 0] ELSE [s EXCEPT !.step = @ + n]

Interrupted(s) == s.ei /\ s.timer

(* An interrupt is taken before start(): the last entry is written again,   *)
(* and nothing is counted, which sim_t::step does not expect.  The pipeline *)
(* comes to an interrupt only later, so its side is not modelled.           *)
IsaStep(b) ==
  LET s == b.isa
      k == program[s.pc] IN
  IF Interrupted(s)
  THEN LET t == TakeTrap(s, s.pc) IN
       [b EXCEPT !.isa = t, !.db[b.tail] = Entry(s, t, TRUE), !.oneEach = FALSE]
  ELSE LET t    == StepOutcome(s, k)
           tail == (b.tail + 1) % Size IN
       [b EXCEPT !.isa = CountStep(UpdateTimer(t), 1), !.tail = tail, !.length = @ + 1,
                 !.db[tail] = Entry(s, t, Trapping(k))]

Hungry(b) == Size - b.length

RunAhead(b) ==
  LET run[n \in 0 .. Hungry(b)] == IF n = 0 THEN b ELSE IsaStep(run[n - 1])
  IN run[Hungry(b)]

Buffer == [isa |-> isa, db |-> dbg.db, head |-> dbg.head, tail |-> dbg.tail,
           length |-> dbg.length, oneEach |-> dbg.oneEach]

(* The record that is returned is looked at after the ring was filled up.   *)
Pop == LET full == RunAhead(Buffer) IN
       /\ isa' = full.isa
       /\ dbg' = [db |-> full.db, head |-> (full.head + 1) % Size, tail |-> full.tail,
                  length |-> full.length - 1, oneEach |-> full.oneEach]

(* Mutant: does not see that the used part wraps around.                    *)
NoWrap(e) == dbg.length > 0 /\ e >= dbg.head /\ e <= dbg.tail

IsActive(e) ==
  /\ dbg.length > 0
  /\ IF dbg.head <= dbg.tail THEN e >= dbg.head /\ e <= dbg.tail
                             ELSE e >= dbg.head \/ e <= dbg.tail

CheckNext(i, p) == LET e == (i + 1) % Size IN IsActive(e) /\ dbg.db[e].pc = p

(* Mutant: the bundle is not cut before the host has its turn.              *)
TimerLimit(s) == Max({NextTimer(s), 1})

(* Never past the point where the host changes the state.                   *)
InstretLimit(s) ==
  Min({INTERLEAVE - s.step, NextTimer(s) + 1 - (NextTimer(s) % 2)})

----------------------------------------------------------------------------
(* The payload buffer maps what is fetched to the records.                  *)
None == Size

Mapped(p) ==
  CASE pay = <<>> -> [good |-> TRUE, db |-> dbg.head]
    [] pay # <<>> /\ Last(pay).good /\ CheckNext(Last(pay).db, p) ->
         [good |-> TRUE, db |-> (Last(pay).db + 1) % Size]
    [] OTHER -> [good |-> FALSE, db |-> None]

Init ==
  /\ program \in Programs
  /\ LET full == RunAhead([isa |-> Reset, head |-> 0, tail |-> Size - 1, length |-> 0,
                           db |-> [e \in 0 .. Size - 1 |-> Entry(Reset, Reset, FALSE)],
                           oneEach |-> TRUE])
     IN /\ isa = full.isa
        /\ dbg = [db |-> full.db, head |-> full.head, tail |-> full.tail,
                  length |-> full.length, oneEach |-> full.oneEach]
  /\ mic = Reset /\ pay = <<>> /\ pc = 0 /\ active = TRUE
  /\ instret = 0 /\ lane = 0 /\ limit = InstretLimit(Reset)
  /\ aborted = FALSE

(* Fetching is on the path of the predictions, and stops at an instruction  *)
(* that serializes.  first() insists on the right address.                  *)
Fetch ==
  /\ lane = 0 /\ active /\ Len(pay) < MaxFlight
  /\ LET k == program[pc] IN
     \E next \in IF k = "br" THEN {After(pc), Target(pc)} ELSE {After(pc)} :
       /\ pay' = Append(pay, [pc |-> pc, next |-> next, resolved |-> k # "br",
                               good |-> Mapped(pc).good, db |-> Mapped(pc).db])
       /\ pc' = next
       /\ active' = ~ Serial(k)
  /\ aborted' = (aborted \/ (pay = <<>> /\ dbg.db[dbg.head].pc # pc))
  /\ UNCHANGED <<program, isa, dbg, mic, instret, lane, limit>>

(* fetch2 finds that the newest bundle was cut wrongly, and it is fetched   *)
(* again.                                                                   *)
Misfetch ==
  /\ lane = 0 /\ pay # <<>> /\ Last(pay).resolved = (program[Last(pay).pc] # "br")
  /\ pay' = Front(pay) /\ pc' = Last(pay).pc /\ active' = TRUE
  /\ UNCHANGED <<program, isa, dbg, mic, instret, lane, limit, aborted>>

(* Where the instruction at n goes: only op changes the register while      *)
(* something younger is in flight.                                          *)
ValueAt(n) ==
  (mic.r + Cardinality({j \in 1 .. n - 1 : program[pay[j].pc] = "op"})) % 2

ActualNext(n) == IF ValueAt(n) = 1 THEN Target(pay[n].pc) ELSE After(pay[n].pc)

Resolve(n) ==
  /\ lane = 0 /\ n \in DOMAIN pay /\ ~ pay[n].resolved
  /\ IF pay[n].next = ActualNext(n)
     THEN /\ pay' = [pay EXCEPT ![n].resolved = TRUE]
          /\ UNCHANGED <<pc, active>>
     ELSE /\ pay' = [SubSeq(pay, 1, n) EXCEPT ![n] = [@ EXCEPT !.resolved = TRUE,
                                                              !.next = ActualNext(n)]]
          /\ pc' = ActualNext(n) /\ active' = TRUE
  /\ UNCHANGED <<program, isa, dbg, mic, instret, lane, limit, aborted>>

----------------------------------------------------------------------------
(* The retire stage.  The checker compares the state as it is before the    *)
(* timer moves on.                                                          *)
Agrees(actual, s, exception) ==
  /\ Head(pay).pc = actual.pc
  /\ <<s.count, s.host, s.timer, s.r>> =
       <<actual.state.count, actual.state.host, actual.state.timer, actual.state.r>>
  /\ actual.exception => exception

Checker(s, exception) ==
  /\ Pop
  /\ aborted' = (aborted \/ ~ Head(pay).good \/ Head(pay).db # dbg.head
                         \/ ~ Agrees(dbg'.db[Head(pay).db], s, exception))

Ready == lane < RetireWidth /\ instret < limit /\ pay # <<>> /\ Head(pay).resolved

HeadKind == program[Head(pay).pc]

Counted == instret' = instret + 1 /\ lane' = lane + 1 /\ UNCHANGED <<program, limit>>

Commit ==
  /\ Ready /\ ~ Trapping(HeadKind) /\ ~ Serializing(mic, HeadKind)
  /\ LET s == Execute([mic EXCEPT !.pc = Head(pay).pc], HeadKind) IN
     /\ Checker(s, FALSE)
     /\ mic' = UpdateTimer(s)
     /\ pay' = Tail(pay)
     /\ IF Serial(HeadKind) THEN pc' = s.pc /\ active' = TRUE ELSE UNCHANGED <<pc, active>>
  /\ Counted

(* A trap, or a CSR instruction that is to be fetched and tried again.      *)
TakeException ==
  /\ Ready /\ (Trapping(HeadKind) \/ Serializing(mic, HeadKind))
  /\ LET s == IF Trapping(HeadKind) THEN TakeTrap(mic, Head(pay).pc)
                                    ELSE [mic EXCEPT !.serialized = TRUE,
                                                     !.pc = Head(pay).pc] IN
     /\ Checker(s, TRUE)
     /\ mic' = UpdateTimer(s)
     /\ pc' = s.pc
  /\ pay' = <<>> /\ active' = TRUE
  /\ Counted

(* A load that took its value too early is fetched again, and not counted.  *)
LoadViolation ==
  /\ Ready /\ HeadKind = "op"
  /\ pay' = <<>> /\ pc' = Head(pay).pc /\ active' = TRUE
  /\ lane' = lane + 1
  /\ UNCHANGED <<program, isa, dbg, mic, instret, limit, aborted>>

EndCycle ==
  /\ lane > 0
  /\ LET s == CountStep(mic, instret) IN
     /\ mic' = s
     /\ limit' = InstretLimit(s)
     /\ aborted' = (aborted \/ mic.step + instret > INTERLEAVE)
  /\ lane' = 0 /\ instret' = 0
  /\ UNCHANGED <<program, isa, dbg, pay, pc, active>>

----------------------------------------------------------------------------
Next == \/ Fetch \/ Misfetch
        \/ \E n \in 1 .. MaxFlight : Resolve(n)
        \/ Commit \/ TakeException \/ LoadViolation \/ EndCycle

Spec == Init /\ [][Next]_vars

=============================================================================
