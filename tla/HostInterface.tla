--------------------------- MODULE HostInterface ---------------------------
(***************************************************************************)
(* The host-target interface: the program asks for system calls through    *)
(* the registers tohost and fromhost, and a host that runs as a coroutine  *)
(* of the simulator (fesvr, htif_pthread.cc, htif.cc) serves them with     *)
(* packets that read and write memory and registers, one at each tick.     *)
(*                                                                         *)
(* There are two simulators, each with a host of its own, and they see the *)
(* same only if the host of the pipeline does what the other host did at   *)
(* the same instruction: the functional simulator, which runs ahead,       *)
(* executes the system calls and records them, and the pipeline replays    *)
(* the recordings (syscall_bypass.cc).                                     *)
(*                                                                         *)
(* Of the program (external) there are the requests, the instructions      *)
(* between them, a loop that polls and stores beside the buffers, and what *)
(* it reads in the end.  One value of a memory cell stands for all the     *)
(* arguments of a request.                                                 *)
(***************************************************************************)
EXTENDS Naturals, SequencesExt, FiniteSetsExt, Functions

CONSTANTS
  Ahead,        \* instructions by which the functional simulator is ahead
  TickEvery,    \* instructions between two ticks, INTERLEAVE
  Align,        \* cells of a chunk, chunk_align()
  MaxChunk,     \* cells of the greatest packet, chunk_max_size()
  Cells,        \* the memory has the cells 0 .. Cells - 1
  Seqs,         \* sequence numbers are taken modulo Seqs
  Beside,       \* the cell to which the loop that polls stores
  Requests,     \* the programs: sequences of requests
  Results       \* what a system call may return or store

Sims == {"isa", "micro"}

(* A system call of the kinds in, out, inout, two and plain reads, writes,  *)
(* reads and writes, reads twice, or does not use the memory behind its     *)
(* arguments; exit is a call too; pass ends the program without one;        *)
(* identify asks for the name of a device; silent is not answered.          *)
CallKinds == {"in", "out", "inout", "two", "plain", "exit"}
RequestKinds     == CallKinds \cup {"pass", "identify", "silent"}
MagicLen  == 2

ASSUME HostAssumption ==
  /\ {Ahead, TickEvery, Align, MaxChunk, Cells, Seqs} \subseteq Nat \ {0}
  /\ MaxChunk % Align = 0
  /\ Beside \in 0 .. Cells - 1
  /\ Results \subseteq Nat
  /\ \A r \in Requests : \A i \in DOMAIN r :
       /\ r[i].kind \in RequestKinds /\ (r[i].kind \in {"exit", "pass"} <=> i = Len(r))
       /\ {r[i].magic, r[i].buf, r[i].buf + r[i].len} \subseteq Align .. Cells - MagicLen
       /\ {r[i].gap, r[i].len} \subseteq Nat \ {0}

VARIABLES
  requests,     \* the program
  sims,         \* the two simulators, each with processor, memory and host
  recordings,   \* cores_queued_service_seq of the mirror
  records,      \* the debug buffer: what each instruction left behind
  answers,      \* what the system calls have returned
  failed       \* an assertion, a check or the checker has failed

hostVars == <<requests, sims, recordings, records, answers, failed>>

(* A transition works on all of it.                                         *)
Whole == [sims |-> sims, recordings |-> recordings, answers |-> answers, failed |-> failed]

Aborts(w, bad) == [w EXCEPT !.failed = @ \/ bad]

Nothing == <<>>

----------------------------------------------------------------------------
(* memif.cc: what is not aligned is read as a chunk, and to be written, the *)
(* chunk is read, changed and written back.                                 *)
Pieces(addr, len) ==
  LET head == IF addr % Align = 0 THEN 0 ELSE Min({len, Align - (addr % Align)})
      a    == addr + head
      tail == (len - head) % Align
      mid  == len - head - tail
      P(base, n, whole) == [base |-> base - (base % Align), cells |-> base .. base + n - 1,
                            n |-> IF whole THEN n ELSE Align, whole |-> whole] IN
  (IF head = 0 THEN <<>> ELSE <<P(addr, head, FALSE)>>)
    \o (IF tail = 0 THEN <<>> ELSE <<P(a + mid, tail, FALSE)>>)
    \o [i \in 1 .. (mid + MaxChunk - 1) \div MaxChunk |->
          LET pos == MaxChunk * (i - 1) IN P(a + pos, Min({MaxChunk, mid - pos}), TRUE)]

Packet(cmd, p) == [cmd |-> cmd, base |-> p.base, n |-> p.n, cells |-> p.cells, val |-> 0,
                   data |-> Nothing]

ReadPackets(addr, len) ==
  LET ps == Pieces(addr, len) IN [i \in DOMAIN ps |-> Packet("READ_MEM", ps[i])]

WritePackets(addr, len) ==
  FlattenSeq([i \in DOMAIN Pieces(addr, len) |->
    LET p == Pieces(addr, len)[i] IN
    (IF p.whole THEN <<>> ELSE <<Packet("READ_MEM", p)>>) \o <<Packet("WRITE_MEM", p)>>])

(* A transaction is one call of memif read or write: data is what to write, *)
(* or what a recording says that was read.                                  *)
Reading(addr, len)       == [write |-> FALSE, addr |-> addr, len |-> len, data |-> Nothing]
Writing(addr, len, data) == [write |-> TRUE, addr |-> addr, len |-> len, data |-> data]
AllCells(addr, len, v)     == [c \in addr .. addr + len - 1 |-> v]

PacketsOf(t) == IF t.write THEN WritePackets(t.addr, t.len) ELSE ReadPackets(t.addr, t.len)


----------------------------------------------------------------------------
(* The target: what a packet does to the processor and its memory.          *)
Processor ==
  [run |-> FALSE, tohost |-> 0, fromhost |-> 0, irq |-> FALSE,
   req |-> 1, stage |-> "work", gap |-> 0, taken |-> Nothing]

SetFromhost(p, v) == [p EXCEPT !.fromhost = v, !.irq = v # 0]

(* No effect if it is, or is not, running already.                          *)
ResetProcessor(p, v) ==
  IF p.run = ~ v THEN p
  ELSE [p EXCEPT !.run = ~ v, !.tohost = 0, !.fromhost = 0, !.irq = FALSE]

ReadMem(m, p) == [m EXCEPT !.chunk = Restrict(m.mem, p.base .. p.base + p.n - 1)]

WriteMem(m, p) == [m EXCEPT !.mem = p.data @@ @]

GetScr(m, p) == [m EXCEPT !.val = 1]

SwapTohost(m, p) == [m EXCEPT !.val = m.proc.tohost, !.proc.tohost = p.val]

GiveFromhost(m, p) ==
  [m EXCEPT !.val = m.proc.fromhost,
            !.proc = IF m.proc.fromhost = 0 THEN SetFromhost(@, p.val) ELSE @]

WriteReset(m, p) ==
  [m EXCEPT !.reset = @ /\ p.val = 1, !.proc = ResetProcessor(@, p.val = 1)]

ServePacket(m, p) ==
  CASE p.cmd = "READ_MEM"  -> ReadMem(m, p)
    [] p.cmd = "WRITE_MEM" -> WriteMem(m, p)
    [] p.cmd = "scr"       -> GetScr(m, p)
    [] p.cmd = "tohost"    -> SwapTohost(m, p)
    [] p.cmd = "fromhost"  -> GiveFromhost(m, p)
    [] p.cmd = "reset"     -> WriteReset(m, p)

----------------------------------------------------------------------------
(* The host.  "at" is where it waits for an answer: to a packet of start(), *)
(* to one of the loop in run(), in a service to one of the transaction it   *)
(* performs, whose packets are in "packets", or to the last one, of stop(). *)
Recording(cmd) == [payload |-> cmd, trans |-> <<>>, exitcode |-> 0]

Host == [at |-> "created", packets |-> <<>>, trans |-> <<>>, data |-> Nothing,
         cmd |-> 0, record |-> Recording(0), reply |-> <<>>, exitcode |-> 0, seqno |-> 1]

Control(cmd, v) ==
  [cmd |-> cmd, base |-> 0, n |-> 0, cells |-> {}, val |-> v, data |-> Nothing]

(* start(): the program, then what it wants to know of the machine, and the *)
(* two writes that reset the processor and let it run.                      *)
LoadChunk(base, v) == [cmd |-> "WRITE_MEM", base |-> base, n |-> Align, cells |-> {}, val |-> 0,
                  data |-> AllCells(base, Align, v)]

StartPackets == <<LoadChunk(Align, 5), Control("scr", 0), Control("scr", 0), LoadChunk(0, 1),
                  Control("reset", 1), Control("reset", 0)>>

(* The end of a round of the loop, and the part of it after a command.      *)
NextRound(h) == [h EXCEPT !.at = IF h.exitcode = 0 THEN "swap" ELSE "halt"]

AfterCommand(h) == IF h.reply = <<>> THEN NextRound(h) ELSE [h EXCEPT !.at = "give"]

Transaction(h) == [h EXCEPT !.at = "serve", !.packets = PacketsOf(Head(h.trans)),
                            !.data = IF Head(h.trans).write THEN Head(h.trans).data ELSE Nothing]

PutHost(w, s, h) == [w EXCEPT !.sims[s].host = h]

Respond(w, s, h) == PutHost(w, s, AfterCommand([h EXCEPT !.reply = Append(@, h.cmd)]))

IsCall(cmd) == requests[cmd].kind \in CallKinds \cup {"pass"}

(* The recording goes to the mirror only when the service is finished.      *)
FinishMain(w, h) ==
  LET rec == [h.record EXCEPT !.exitcode = h.exitcode] IN
  Respond([w EXCEPT !.recordings = Append(@, rec)], "isa", h)

FinishMirror(w, h) == Respond(w, "micro", [h EXCEPT !.exitcode = h.record.exitcode])

FinishService(w, s, h) ==
  CASE ~ IsCall(h.cmd)              -> Respond(w, s, h)
    [] IsCall(h.cmd) /\ s = "isa" -> FinishMain(w, h)
    [] OTHER                        -> FinishMirror(w, h)

GoOn(w, s, h) == IF h.trans = <<>> THEN FinishService(w, s, h) ELSE PutHost(w, s, Transaction(h))

(* What dispatch() does between reading the arguments and writing them      *)
(* back, call by call.                                                      *)
ReadBuffer(q)  == <<Reading(q.buf, q.len)>>
WriteBuffer(q, r) == <<Writing(q.buf, q.len, AllCells(q.buf, q.len, r))>>
ReadTwo(q)     == ReadBuffer(q) \o <<Reading(Beside, 1)>>
ReadWrite(q, r) == ReadBuffer(q) \o WriteBuffer(q, r)

Accesses(q, r) ==
  CASE q.kind = "in"    -> ReadBuffer(q)
    [] q.kind = "out"   -> WriteBuffer(q, r)
    [] q.kind = "two"   -> ReadTwo(q)
    [] q.kind = "inout" -> ReadWrite(q, r)
    [] OTHER            -> <<>>

SysExit(q, h) == [h EXCEPT !.exitcode = IF q.kind = "exit" THEN 1 ELSE @]

Dispatch(w, h, r) ==
  LET magic == requests[h.cmd].magic
      q     == requests[h.data[magic]]
      back  == Writing(magic, MagicLen, [h.data EXCEPT ![magic] = r]) IN
  GoOn([w EXCEPT !.answers = Append(@, r)], "isa",
       [SysExit(q, h) EXCEPT !.trans = Accesses(q, r) \o <<back>>])

(* A transaction is over: one of the functional simulator is recorded, and  *)
(* the first makes the call; the mirror compares what it has read.          *)
EndMain(w, h, r) ==
  LET done == [Head(h.trans) EXCEPT !.data = h.data]
      g    == [h EXCEPT !.record.trans = Append(@, done), !.trans = Tail(@)] IN
  IF h.record.trans = <<>> THEN Dispatch(w, g, r) ELSE GoOn(w, "isa", g)

EndMirror(w, h) ==
  Aborts(GoOn(w, "micro", [h EXCEPT !.trans = Tail(@)]), h.data # Head(h.trans).data)

EndTransaction(w, s, h, r) ==
  CASE ~ IsCall(h.cmd)              -> GoOn(w, s, [h EXCEPT !.trans = Tail(@)])
    [] IsCall(h.cmd) /\ s = "isa" -> EndMain(w, h, r)
    [] OTHER                        -> EndMirror(w, h)

(* The commands: what is asked of the system call device, and of others.    *)
Identify(w, s, h) ==
  LET q == requests[h.cmd] IN GoOn(w, s, [h EXCEPT !.trans = WriteBuffer(q, 9)])

NullCommand(w, s, h) == PutHost(w, s, AfterCommand(h))

HandleMain(w, h) ==
  LET g == [h EXCEPT !.record = Recording(h.cmd)] IN
  IF requests[h.cmd].kind = "pass" THEN FinishMain(w, [g EXCEPT !.exitcode = 1])
  ELSE GoOn(w, "isa", [g EXCEPT !.trans = <<Reading(requests[h.cmd].magic, MagicLen)>>])

(* Mutant: replays only what was written.                                   *)
WritesOnly(w, h) ==
  LET rec == Head(w.recordings) IN
  IF w.recordings = <<>> \/ rec.payload # h.cmd THEN Aborts(w, TRUE)
  ELSE GoOn([w EXCEPT !.recordings = Tail(@)], "micro",
            [h EXCEPT !.record = rec, !.trans = SelectSeq(rec.trans, LAMBDA t : t.write)])

HandleMirror(w, h) ==
  LET rec == Head(w.recordings) IN
  IF w.recordings = <<>> \/ rec.payload # h.cmd THEN Aborts(w, TRUE)
  ELSE GoOn([w EXCEPT !.recordings = Tail(@)], "micro",
            [h EXCEPT !.record = rec, !.trans = rec.trans])

HandleCommand(w, s, h) ==
  CASE requests[h.cmd].kind = "identify" -> Identify(w, s, h)
    [] requests[h.cmd].kind = "silent"   -> NullCommand(w, s, h)
    [] OTHER -> IF s = "isa" THEN HandleMain(w, h) ELSE HandleMirror(w, h)

(* The host gets the answer to its last packet, and runs to the next.       *)
Collected(m) ==
  LET p == Head(m.host.packets) IN
  IF Head(m.host.trans).write THEN m.host.data
  ELSE Restrict(m.chunk, p.cells) @@ m.host.data

GetAnswer(w, s, r) ==
  LET m == w.sims[s]
      h == [m.host EXCEPT !.seqno = (@ + 1) % Seqs] IN
  CASE h.at = "start" /\ Len(h.packets) > 1 -> PutHost(w, s, [h EXCEPT !.packets = Tail(@)])
    [] h.at = "start" /\ Len(h.packets) <= 1 -> PutHost(w, s, NextRound(h))
    [] h.at = "swap"  -> IF m.val = 0 THEN NullCommand(w, s, h)
                         ELSE HandleCommand(w, s, [h EXCEPT !.cmd = m.val])
    [] h.at = "give"  ->
         PutHost(w, s, NextRound([h EXCEPT !.reply = IF m.val = 0 THEN Tail(@) ELSE @]))
    [] h.at \notin {"start", "swap", "give"} /\ Len(h.packets) > 1 ->
         PutHost(w, s, [h EXCEPT !.packets = Tail(@), !.data = Collected(m)])
    [] OTHER -> EndTransaction(w, s, [h EXCEPT !.data = Collected(m)], r)

HostRuns(w, s, r) ==
  IF w.sims[s].host.at = "created"
  THEN PutHost(w, s, [w.sims[s].host EXCEPT !.at = "start", !.packets = StartPackets])
  ELSE GetAnswer(w, s, r)

(* A partial piece is laid over the chunk that was read before it.          *)
Overlay(m, p) == [c \in p.base .. p.base + p.n - 1 |->
                    IF c \in p.cells THEN m.host.data[c] ELSE m.chunk[c]]

NextPacket(m) ==
  CASE m.host.at = "swap"  -> Control("tohost", 0)
    [] m.host.at = "give"  -> Control("fromhost", Head(m.host.reply))
    [] m.host.at = "halt"  -> Control("reset", 1)
    [] m.host.at = "start" -> Head(m.host.packets)
    [] OTHER -> LET p == Head(m.host.packets) IN
                IF p.cmd = "READ_MEM" THEN p ELSE [p EXCEPT !.data = Overlay(m, p)]

----------------------------------------------------------------------------
(* The target lets the host run to its next packet, and serves this one.    *)
Serve(w, s) ==
  LET m == w.sims[s] IN
  IF w.failed \/ m.host.seqno # m.seqno THEN Aborts(w, TRUE)
  ELSE [w EXCEPT !.sims[s] = ServePacket([m EXCEPT !.seqno = (@ + 1) % Seqs], NextPacket(m))]

TickOnce(w, s, r) == Serve(HostRuns(w, s, r), s)

Running(m) == m.reset \/ m.proc.run

(* The first tick is not over before the processor runs.                    *)
HostTick(w, s, r) ==
  IF ~ Running(w.sims[s]) THEN w
  ELSE FoldLeft(LAMBDA v, i : IF i = 1 \/ v.sims[s].reset THEN TickOnce(v, s, r) ELSE v,
                w, [i \in 1 .. Len(StartPackets) + 1 |-> i])

----------------------------------------------------------------------------
(* The instructions of the program (external), and the CSR accesses.        *)
Go(p, stage) == [p EXCEPT !.stage = stage]

Following(p) == [p EXCEPT !.req = @ + 1, !.stage = "work", !.gap = requests[p.req + 1].gap]

PutProc(w, s, p) == [w EXCEPT !.sims[s].proc = p]

Work(w, s) ==
  LET p == w.sims[s].proc IN
  PutProc(w, s, IF p.gap > 1 THEN [p EXCEPT !.gap = @ - 1] ELSE Go(p, "store"))

StoreArguments(w, s) ==
  LET p == w.sims[s].proc IN
  PutProc([w EXCEPT !.sims[s].mem[requests[p.req].magic] = p.req], s, Go(p, "send"))

(* csrrw: the register is read after a tick, and tohost is only written if  *)
(* it is zero.                                                              *)
WriteTohost(w, s) ==
  LET p == w.sims[s].proc
      q == [p EXCEPT !.tohost = p.req] IN
  IF p.tohost # 0 THEN w
  ELSE PutProc(w, s, IF requests[p.req].kind = "silent" THEN Following(q) ELSE Go(q, "poll"))

Send(w, s, r) == WriteTohost(HostTick(w, s, r), s)

SwapFromhost(w, s) ==
  LET p == w.sims[s].proc IN
  PutProc(w, s, Go(SetFromhost(p, 0), IF p.fromhost = 0 THEN "loop" ELSE "take"))

Poll(w, s, r) == SwapFromhost(HostTick(w, s, r), s)

StoreBeside(w, s) ==
  PutProc([w EXCEPT !.sims[s].mem[Beside] = 1 - (@ % 2)], s, Go(w.sims[s].proc, "poll"))

Take(w, s) ==
  LET p == w.sims[s].proc
      v == w.sims[s].mem[requests[p.req].magic] IN
  PutProc(w, s, IF p.req = Len(requests) THEN Go(p, "loop")
                ELSE Following(IF IsCall(p.req) THEN [p EXCEPT !.taken = Append(@, v)] ELSE p))

Instruction(w, s, r) ==
  LET stage == w.sims[s].proc.stage IN
  CASE stage = "work"  -> Work(w, s)
    [] stage = "store" -> StoreArguments(w, s)
    [] stage = "send"  -> Send(w, s, r)
    [] stage = "poll"  -> Poll(w, s, r)
    [] stage = "loop"  -> StoreBeside(w, s)
    [] stage = "take"  -> Take(w, s)

AfterInstruction(w, s, r) ==
  IF w.sims[s].step + 1 = TickEvery THEN HostTick([w EXCEPT !.sims[s].step = 0], s, r)
  ELSE [w EXCEPT !.sims[s].step = @ + 1]

Step(w, s, r) == AfterInstruction(Instruction(w, s, r), s, r)

----------------------------------------------------------------------------
Simulator(r) ==
  [proc |-> [Processor EXCEPT !.gap = r[1].gap], mem |-> [c \in 0 .. Cells - 1 |-> 0],
   reset |-> TRUE, seqno |-> 1, step |-> 0, host |-> Host, val |-> 0, chunk |-> Nothing]

HostInit ==
  /\ requests \in Requests
  /\ sims = [s \in Sims |-> Simulator(requests)]
  /\ recordings = <<>> /\ records = <<>> /\ answers = <<>>
  /\ failed = FALSE

Becomes(w) ==
  /\ sims' = w.sims /\ recordings' = w.recordings /\ answers' = w.answers
  /\ failed' = w.failed

Full == Len(records) = Ahead

(* What the checker can see of an instruction.                              *)
Seen(m) == <<m.proc.req, m.proc.stage, m.proc.taken, m.proc.tohost, m.proc.fromhost, m.proc.irq,
             m.proc.run>>

(* boot(): the pipeline is booted when the functional simulator is ahead.   *)
MayBoot(s) == sims[s].reset /\ (s = "micro" => Full)

Boot(s) ==
  /\ ~ failed /\ MayBoot(s)
  /\ Becomes(HostTick(Whole, s, 0))
  /\ UNCHANGED <<requests, records>>

(* run_ahead() and pop(); only pop() looks whether the program has ended.   *)
IsaMayRetire ==
  /\ ~ sims["isa"].reset /\ ~ Full
  /\ sims["isa"].proc.run \/ sims["micro"].reset

PushRecord(w) == Becomes(w) /\ records' = Append(records, Seen(w.sims["isa"]))

IsaRetire ==
  /\ ~ failed /\ IsaMayRetire
  /\ \E r \in Results : PushRecord(Aborts(Step(Whole, "isa", r), ~ sims["isa"].proc.run))
  /\ UNCHANGED requests

MicroMayRetire ==
  /\ ~ sims["micro"].reset /\ sims["micro"].proc.run
  /\ Full \/ ~ sims["isa"].proc.run

PopRecord(w) ==
  /\ Becomes(Aborts(w, Seen(w.sims["micro"]) # Head(records)))
  /\ records' = Tail(records)

MicroRetire ==
  /\ ~ failed /\ MicroMayRetire
  /\ PopRecord(Step(Whole, "micro", 0))
  /\ UNCHANGED requests

HostNext == (\E s \in Sims : Boot(s)) \/ IsaRetire \/ MicroRetire

(* Weak fairness of HostNext, with its guards written out: the simulator is *)
(* one loop that runs while it can.                                         *)
HostMoves == ~ failed /\ ((\E s \in Sims : MayBoot(s)) \/ IsaMayRetire \/ MicroMayRetire)

HostFairness == []<>(~ HostMoves) \/ []<><<HostNext>>_hostVars

HostSpec == HostInit /\ [][HostNext]_hostVars /\ HostFairness

=============================================================================
