---------------------------- MODULE JournalWriter ----------------------------
(***************************************************************************)
(* relay/src/journal/writer.ts, one stream: the queue between the          *)
(* synchronous receive callback and the serial worker that applies it, and *)
(* the transaction the worker calls, supabase dma_journal_apply and        *)
(* dma_strategy_apply.  Operators on a writer record and on the database.  *)
(***************************************************************************)
EXTENDS Integers, Sequences, FiniteSets, SequencesExt, FiniteSetsExt

CONSTANTS BatchSize,   \* batchSize: records per call
          MaxQueue     \* maxQueue: records queued

ASSUME SizesAssumption == BatchSize \in Nat \ {0} /\ MaxQueue \in Nat \ {0}

(* lastReceivedSeq null                                                    *)
Null == -1

(* A gateway record: its seq in the epoch of the store, and the event it   *)
(* records.                                                                *)
Record == [seq : Nat, event : Nat]
Queued == [epoch : Nat, seq : Nat, event : Nat]

(* epoch 0 is "".  call: the RPC of the first `busy` items is under way    *)
(* ("sent"), its transaction committed ("done"), waits for the retry timer *)
(* ("retry"), or there is none ("none").                                   *)
Writer == [ epoch : Nat, received : Nat \cup {Null}, queue : Seq(Queued),
            busy : Nat, call : {"none", "sent", "done", "retry"} ]

NewWriter == [epoch |-> 0, received |-> Null, queue |-> <<>>, busy |-> 0, call |-> "none"]

-----------------------------------------------------------------------------
(* The n-th smallest of some numbers; the records at some positions.       *)
Nth(P, n) == CHOOSE i \in P : Cardinality({j \in P : j <= i}) = n
Picked(s, P) == [n \in 1..Cardinality(P) |-> s[Nth(P, n)]]

(* #kick and the start of #runBatch: one call at a time, for the first     *)
(* records of one epoch.                                                   *)
Kick(w) ==
  IF w.call # "none" \/ w.queue = <<>> THEN w
  ELSE LET fits(n) == \A i \in 1..n : w.queue[i].epoch = w.queue[1].epoch
       IN [w EXCEPT !.call = "sent",
                    !.busy = Max({n \in 1..BatchSize : n <= Len(w.queue) /\ fits(n)})]

(* readCursor: epoch 0 when the row or the stream's column is missing.     *)
ReadCursor(w, cursor) ==
  [w EXCEPT !.epoch = cursor.epoch,
            !.received = IF cursor.epoch = 0 THEN Null ELSE cursor.seq]

(* Mutant of BeginEpoch: the seq of the old epoch is kept.                 *)
BeginEpochKeepsSeq(w, epoch, resync, head) ==
  IF epoch = w.epoch /\ ~resync THEN w ELSE [w EXCEPT !.epoch = epoch]

(* beginEpoch: a new epoch or a resync forgets the last seq, unless the    *)
(* gateway is behind what was received in this very epoch.                 *)
BeginEpoch(w, epoch, resync, head) ==
  IF epoch = w.epoch /\ (~resync \/ (w.received # Null /\ head < w.received)) THEN w
  ELSE [w EXCEPT !.epoch = epoch, !.received = Null]

Fresh(w, records) == Picked(records, {i \in DOMAIN records : records[i].seq > w.received})

(* The records before the first gap.                                       *)
Accepted(w, records) ==
  LET fresh == Fresh(w, records)
      base == IF w.received = Null /\ fresh # <<>> THEN fresh[1].seq - 1 ELSE w.received
      dense(n) == \A i \in 1..n : fresh[i].seq = base + i
  IN SubSeq(fresh, 1, Max({n \in 0..Len(fresh) : dense(n)}))

(* What push answers; "not_ready" needs epoch "" and cannot follow a login.*)
PushResult(w, records) ==
  IF Len(w.queue) + Len(Accepted(w, records)) > MaxQueue THEN "overflow"
  ELSE IF Accepted(w, records) # Fresh(w, records) THEN "gap" ELSE "ok"

(* push: the accepted records are queued and the worker is kicked; nothing *)
(* when the queue would overflow.                                          *)
Push(w, records) ==
  LET accepted == Accepted(w, records)
      item(r) == [epoch |-> w.epoch, seq |-> r.seq, event |-> r.event]
  IN IF accepted = <<>> \/ PushResult(w, records) = "overflow" THEN w
     ELSE Kick([w EXCEPT !.queue = @ \o [i \in DOMAIN accepted |-> item(accepted[i])],
                         !.received = Last(accepted).seq])

-----------------------------------------------------------------------------
(* The worker's call.                                                      *)

Batch(w) == SubSeq(w.queue, 1, w.busy)

(* The answer arrives: the batch leaves the queue, the next one starts.    *)
Succeeded(w) ==
  Kick([w EXCEPT !.queue = SubSeq(@, w.busy + 1, Len(@)), !.busy = 0, !.call = "none"])

(* Mutant of Failed: the batch still counts as under way.                  *)
FailedStaysBusy(w) == [w EXCEPT !.call = "retry"]

(* #onFailure: the batch stays at the head, the retry timer is armed.      *)
Failed(w) == [w EXCEPT !.busy = 0, !.call = "retry"]

Retried(w) == Kick([w EXCEPT !.call = "none"])

-----------------------------------------------------------------------------
(* The transaction, for the rows and the cursor of a stream.               *)

(* Events whose (epoch, seq) is new: the primary key is the only gate.     *)
Inserted(rows, batch) ==
  Picked(batch, {i \in DOMAIN batch :
                   \A old \in rows : old.epoch # batch[i].epoch \/ old.seq # batch[i].seq})

Rows(rows, batch) == rows \cup ToSet(Inserted(rows, batch))

(* The cursor moves to the greatest seq of the batch; another epoch        *)
(* replaces it.                                                            *)
Advanced(cursor, batch) ==
  LET last == Max({batch[i].seq : i \in DOMAIN batch})
  IN [epoch |-> batch[1].epoch,
      seq |-> IF cursor.epoch = batch[1].epoch /\ cursor.seq > last THEN cursor.seq ELSE last]
=============================================================================
