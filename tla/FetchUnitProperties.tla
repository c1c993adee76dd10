------------------------ MODULE FetchUnitProperties ------------------------
(***************************************************************************)
(* What the fetch unit promises: the branch queue, the branch history and  *)
(* the payload follow the instructions in flight through every recovery,   *)
(* and a serializing instruction has the pipeline to itself.               *)
(***************************************************************************)
EXTENDS FetchUnit

Fetched == IF status.valid THEN Walk(FETCH2) ELSE <<>>
Behind  == window \o DECODE
Flight  == Behind \o Fetched

----------------------------------------------------------------------------
Insts == [kind : Kinds, taken : BOOLEAN, resolved : BOOLEAN,
          pay : PayIndex, tag : BQIndex, phase : {0, 1}]

TypeOK ==
  /\ fetch_active \in BOOLEAN /\ bhr \in Histories
  /\ status \in [valid : BOOLEAN, bhr : Histories, pay : PayIndex,
                  flaw : {None} \cup Slots]
  /\ FETCH2 \in [Slots -> Insts \cup {Bubble}]
  /\ DECODE \in Seq(Insts) /\ Len(DECODE) <= InstrPerCycle
  /\ window \in Seq(Insts) /\ Len(window) <= Window
  /\ bq \in [BQIndex -> [bhr : Histories, taken : BOOLEAN]]
  /\ bqHead \in BQIndex /\ bqTail \in BQIndex
  /\ bqHeadPhase \in {0, 1} /\ bqTailPhase \in {0, 1}
  /\ payHead \in PayIndex /\ payTail \in PayIndex /\ payLength \in 0 .. PaySize

(* The payload ring holds the instructions in flight and nothing else, in   *)
(* program order, two entries for each, and its recomputed length is right: *)
(* also after a serializing instruction cuts its bundle short, a misfetch,  *)
(* a misprediction or a squash, and while Fetch2 stalls.                    *)
PayloadInOrder ==
  /\ payLength = 2 * Len(Flight)
  /\ payTail = (payHead + payLength) % PaySize
  /\ \A k \in DOMAIN Flight : Flight[k].pay = (payHead + 2 * (k - 1)) % PaySize

(* The branch queue holds exactly the branches that have left Fetch2, in    *)
(* program order, at the places recorded with them and with the directions  *)
(* they are now known or predicted to take (the assertions of bq.cc and of  *)
(* commit() and mispredict()).                                              *)
BranchQueueInOrder ==
  LET Place(n) == (bqHead + n) % BQSize
      Phase(n) == IF bqHead + n >= BQSize THEN 1 - bqHeadPhase ELSE bqHeadPhase
      queued   == Before(Behind, Len(Behind) + 1) IN
  /\ \A k \in Branches(Behind) :
       /\ Behind[k].tag = Place(Before(Behind, k))
       /\ Behind[k].phase = Phase(Before(Behind, k))
       /\ bq[Behind[k].tag].taken = Behind[k].taken
  /\ bqTail = Place(queued) /\ bqTailPhase = Phase(queued)

(* The history that the entry of a branch records, and what follows it.     *)
HistoryAt(k)    == bq[Behind[k].tag].bhr
HistoryAfter(k) == Shift(HistoryAt(k), Behind[k])

(* No branch of the queue lies between the j-th place and the k-th.         *)
NoneBetween(j, k) == \A m \in Branches(Behind) : ~ (j < m /\ m < k)

(* From one branch in the queue to the next the recorded histories differ   *)
(* by the outcome of the first, and the next fetch continues from the last: *)
(* a branch that is predicted anew sees the outcomes of all branches before *)
(* it and of no squashed one.                                               *)
HistoryPrecise ==
  /\ \A j, k \in Branches(Behind) :
       j < k /\ NoneBetween(j, k) => HistoryAt(k) = HistoryAfter(j)
  /\ \A k \in Branches(Behind) : NoneBetween(k, Len(Behind) + 1) =>
       /\ status.valid => status.bhr = HistoryAfter(k)
       /\ ~ status.valid /\ fetch_active => bhr = HistoryAfter(k)
  /\ status.valid /\ status.flaw = None /\ (\A i \in ToSet(Fetched) : i.kind # "ser") =>
       bhr = After(status.bhr, Fetched)

(* Fetching stops only for an instruction that will start it again, and     *)
(* that one is the youngest in flight.                                      *)
StopsForYoungest == ~ fetch_active => Flight # <<>> /\ Stops(Last(Flight))

(* "The serializing instruction stalled the fetch unit so the pipeline is   *)
(* now empty": when it commits nothing else is in flight, although only the *)
(* fetch unit is flushed.                                                   *)
SerializerRetiresAlone == [][CommitSerializer => Len(Flight) = 1]_vars

(* Whenever a bundle can be fetched the latch it goes to is empty in all    *)
(* its slots (the assertions of transfer_fetch_bundle() and fetch2()), also *)
(* those behind the one slot that a serializing instruction invalidates.    *)
Fetch2Clean == fetch_active /\ ~ status.valid => FETCH2 = NoFetch2

=============================================================================
