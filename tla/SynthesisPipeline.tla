--------------------------- MODULE SynthesisPipeline ---------------------------
(***************************************************************************)
(* One synthesis request of tts.py: the handler (_synthesize) that writes  *)
(* to the client, the producer task (_produce_audio) that iterates the     *)
(* native engine, the bounded queue between them, and the lock and result  *)
(* cache that all requests share.  An action is the code between two       *)
(* awaits.  The requests are for one text and voice, so they also share    *)
(* their cache entry; a request runs once.                                 *)
(***************************************************************************)
EXTENDS Integers, Sequences, FiniteSets

CONSTANTS
  Requests,      \* calls of _synthesize in flight
  SlotCap,       \* TtsAudio.OUTPUT_QUEUE_CHUNKS: slots of the output queue
  ChunkPieces,   \* protocol pieces in each chunk the engine yields, in order
  MaxItem,       \* pieces the cache accepts in one entry
  Segments,      \* the send_start and send_stop a request may have
  Disturbed      \* bound: requests whose task is cancelled or whose client leaves

ASSUME ConstantsAssumption ==
  /\ SlotCap \in Nat \ {0}
  /\ ChunkPieces \in Seq(Nat)
  /\ MaxItem \in Nat
  /\ Disturbed \subseteq Requests
  /\ Segments \subseteq [start : BOOLEAN, stop : BOOLEAN]

VARIABLES
  pc,        \* where the handler waits
  seg,       \* its send_start and send_stop
  held,      \* its lock_acquired flag
  hit,       \* pieces of the cached result it found, 0 for a miss
  after,     \* where it goes once the producer is torn down
  ppc,       \* where the producer waits
  taken,     \* engine chunks the producer has received
  left,      \* pieces of the current chunk not queued yet
  made,      \* production.total_bytes, in pieces
  keep,      \* production.cache_parts is not None
  iter,      \* the engine iterator is open
  outcome,   \* how the producer ends
  kill,      \* producer.cancel() was called and is not delivered yet
  native,    \* the producer's executor future
  queue,     \* output_queue
  slots,     \* value of the output_slots semaphore
  writing,   \* the piece the handler took and is writing, 0 for none
  abort,     \* abort_production
  out,       \* what the handler has written to the client
  pos,       \* output_chunk_count
  open,      \* the client's writer is not closing
  locked,    \* the shared inference lock
  cache      \* pieces in the shared cache entry, 0 when there is none

handlerVars  == <<pc, seg, held, hit, after>>
producerVars == <<ppc, taken, left, made, keep, iter, outcome, kill, native>>
channelVars  == <<queue, slots, writing, abort>>
clientVars   == <<out, pos, open>>
vars == <<handlerVars, producerVars, channelVars, clientVars, locked, cache>>

EndOfAudio == 0     \* the None the producer queues last

Event(type, piece) == [type |-> type, piece |-> piece]
AudioStart == Event("audio-start", 0)
AudioStop  == Event("audio-stop", 0)
Failure    == Event("error", 0)
Silence    == Event("silence", 0)
WriteLost  == Event("lost", 0)          \* a write that timed out or failed
AudioChunk(n) == Event("audio-chunk", n)
Events == [type : {"audio-start", "audio-stop", "audio-chunk", "silence", "error", "lost"},
           piece : Nat]

AtWrite  == {"start", "replay", "write", "stop", "fail"}
Ended    == {"ok", "failed", "cancelled"}
Waiting  == {"lookup", "lock", "relookup", "start", "replay", "get", "write",
             "stop", "store", "abort", "reap", "fail"}
Inferring == {"infer", "next"}
Live      == Inferring \cup {"slot", "drain", "close", "drainClose"}

IsAudio(n)     == n # EndOfAudio
EndIn(q)       == \E i \in 1 .. Len(q) : ~IsAudio(q[i])
AudioIn(q)     == Len(q) - (IF EndIn(q) THEN 1 ELSE 0)     \* pieces in a queue
QueuedAudio(r) == AudioIn(queue[r])

Has(r, event) == \E i \in DOMAIN out[r] : out[r][i] = event

\* Faulty: the flag is not set once this request wrote its own start.
StartedBefore(r) == ~seg[r].start

\* audio_started: a later segment of a stream is already inside AudioStart.
AudioStarted(r) == ~seg[r].start \/ Has(r, AudioStart)

Init ==
  /\ pc = [r \in Requests |-> "idle"]
  /\ seg \in [Requests -> Segments]
  /\ held = [r \in Requests |-> FALSE]
  /\ hit = [r \in Requests |-> 0]
  /\ after = [r \in Requests |-> "failed"]
  /\ ppc = [r \in Requests |-> "none"]
  /\ taken = [r \in Requests |-> 0]
  /\ left = [r \in Requests |-> 0]
  /\ made = [r \in Requests |-> 0]
  /\ keep = [r \in Requests |-> TRUE]
  /\ iter = [r \in Requests |-> FALSE]
  /\ outcome = [r \in Requests |-> "ok"]
  /\ kill = [r \in Requests |-> FALSE]
  /\ native = [r \in Requests |-> "none"]
  /\ queue = [r \in Requests |-> <<>>]
  /\ slots = [r \in Requests |-> SlotCap]
  /\ writing = [r \in Requests |-> 0]
  /\ abort = [r \in Requests |-> FALSE]
  /\ out = [r \in Requests |-> <<>>]
  /\ pos = [r \in Requests |-> 0]
  /\ open = [r \in Requests |-> TRUE]
  /\ locked = FALSE
  /\ cache = 0

--------------------------------------------------------------------------------
(* The handler: admission, cache and lock. *)

Goto(r, l) == pc' = [pc EXCEPT ![r] = l]

\* The first await once the audio source h is known: a cached result or the queue.
Delivery(r, h) == IF seg[r].start THEN "start" ELSE IF h > 0 THEN "replay" ELSE "get"

Begin(r) ==
  /\ pc[r] = "idle"
  /\ Goto(r, "lookup")
  /\ UNCHANGED <<seg, held, hit, after, producerVars, channelVars, clientVars, locked, cache>>

Lookup(r) ==
  /\ pc[r] = "lookup"
  /\ hit' = [hit EXCEPT ![r] = cache]
  /\ Goto(r, IF ~open[r] THEN "failed" ELSE IF cache > 0 THEN Delivery(r, cache) ELSE "lock")
  /\ UNCHANGED <<seg, held, after, producerVars, channelVars, clientVars, locked, cache>>

\* A client that left while its request waited gives the lock straight back.
AcquireLock(r) ==
  /\ pc[r] = "lock"
  /\ ~locked
  /\ locked' = open[r]
  /\ held' = [held EXCEPT ![r] = open[r]]
  /\ Goto(r, IF open[r] THEN "relookup" ELSE "failed")
  /\ UNCHANGED <<seg, hit, after, producerVars, channelVars, clientVars, cache>>

LockTimeout(r) ==
  /\ pc[r] = "lock"
  /\ locked
  /\ Goto(r, "fail")
  /\ UNCHANGED <<seg, held, hit, after, producerVars, channelVars, clientVars, locked, cache>>

\* Another request stored the result while this one waited for the lock.
HitAfterWait(r) ==
  /\ pc[r] = "relookup"
  /\ cache > 0
  /\ hit' = [hit EXCEPT ![r] = cache]
  /\ locked' = FALSE
  /\ held' = [held EXCEPT ![r] = FALSE]
  /\ Goto(r, Delivery(r, cache))
  /\ UNCHANGED <<seg, after, producerVars, channelVars, clientVars, cache>>

\* The producer starts eagerly: it owns the lock before the handler's next await.
StartProducer(r) ==
  /\ pc[r] = "relookup"
  /\ cache = 0
  /\ held' = [held EXCEPT ![r] = FALSE]
  /\ ppc' = [ppc EXCEPT ![r] = "infer"]
  /\ native' = [native EXCEPT ![r] = "running"]
  /\ Goto(r, Delivery(r, 0))
  /\ UNCHANGED <<seg, hit, after, taken, left, made, keep, iter, outcome, kill,
                 channelVars, clientVars, locked, cache>>

--------------------------------------------------------------------------------
(* The handler: output. *)

Written(r, events) == out' = [out EXCEPT ![r] = @ \o events]

WriteStart(r) ==
  /\ pc[r] = "start"
  /\ Written(r, <<AudioStart>>)
  /\ Goto(r, IF hit[r] > 0 THEN "replay" ELSE "get")
  /\ UNCHANGED <<seg, held, hit, after, producerVars, channelVars, pos, open, locked, cache>>

\* Faulty: the last piece of a cached result is skipped.
ReplayShort(r) ==
  /\ pc[r] = "replay"
  /\ Written(r, <<AudioChunk(pos[r] + 1)>>)
  /\ pos' = [pos EXCEPT ![r] = @ + 1]
  /\ Goto(r, IF pos[r] + 2 >= hit[r] THEN "stop" ELSE "replay")
  /\ UNCHANGED <<seg, held, hit, after, producerVars, channelVars, open, locked, cache>>

ReplayPiece(r) ==
  /\ pc[r] = "replay"
  /\ Written(r, <<AudioChunk(pos[r] + 1)>>)
  /\ pos' = [pos EXCEPT ![r] = @ + 1]
  /\ Goto(r, IF pos[r] + 1 = hit[r] THEN "stop" ELSE "replay")
  /\ UNCHANGED <<seg, held, hit, after, producerVars, channelVars, open, locked, cache>>

GetPiece(r) ==
  /\ pc[r] = "get"
  /\ queue[r] # <<>>
  /\ IsAudio(Head(queue[r]))
  /\ queue' = [queue EXCEPT ![r] = Tail(@)]
  /\ writing' = [writing EXCEPT ![r] = Head(queue[r])]
  /\ Goto(r, "write")
  /\ UNCHANGED <<seg, held, hit, after, producerVars, slots, abort, clientVars, locked, cache>>

WritePiece(r) ==
  /\ pc[r] = "write"
  /\ Written(r, <<AudioChunk(writing[r])>>)
  /\ pos' = [pos EXCEPT ![r] = @ + 1]
  /\ writing' = [writing EXCEPT ![r] = 0]
  /\ slots' = [slots EXCEPT ![r] = @ + 1]
  /\ Goto(r, "get")
  /\ UNCHANGED <<seg, held, hit, after, producerVars, queue, abort, open, locked, cache>>

\* Faulty: the producer's task is not awaited, so its failure is not seen.
GetEndUnchecked(r) ==
  /\ pc[r] = "get"
  /\ queue[r] # <<>>
  /\ ~IsAudio(Head(queue[r]))
  /\ queue' = [queue EXCEPT ![r] = Tail(@)]
  /\ Goto(r, "stop")
  /\ UNCHANGED <<seg, held, hit, after, producerVars, slots, writing, abort, clientVars, locked, cache>>

\* End of audio and the producer's task awaited: it ended when it queued the end.
GetEnd(r) ==
  /\ pc[r] = "get"
  /\ queue[r] # <<>>
  /\ ~IsAudio(Head(queue[r]))
  /\ outcome[r] = "ok"
  /\ queue' = [queue EXCEPT ![r] = Tail(@)]
  /\ Goto(r, "stop")
  /\ UNCHANGED <<seg, held, hit, after, producerVars, slots, writing, abort, clientVars, locked, cache>>

\* AudioStop, or between two segments the boundary silence.
WriteStop(r) ==
  /\ pc[r] = "stop"
  /\ Written(r, <<IF seg[r].stop THEN AudioStop ELSE Silence>>)
  /\ Goto(r, IF hit[r] = 0 /\ keep[r] THEN "store" ELSE "ok")
  /\ UNCHANGED <<seg, held, hit, after, producerVars, channelVars, pos, open, locked, cache>>

\* result_cache.put in a thread; it may also decline the entry.
Store(r) ==
  /\ pc[r] = "store"
  /\ cache' \in {cache, made[r]}
  /\ Goto(r, "ok")
  /\ UNCHANGED <<seg, held, hit, after, producerVars, channelVars, clientVars, locked>>

\* _write_audio_failure: an error, and the audio lifecycle closed around it.
WriteFailure(r) ==
  /\ pc[r] = "fail"
  /\ Written(r, <<Failure>> \o (IF AudioStarted(r) THEN <<>> ELSE <<AudioStart>>) \o <<AudioStop>>)
  /\ Goto(r, "failed")
  /\ UNCHANGED <<seg, held, hit, after, producerVars, channelVars, pos, open, locked, cache>>

--------------------------------------------------------------------------------
(* The handler: teardown. *)

\* Faulty: the end marker gives a slot back as well.
DrainedWithEnd(r, s) ==
  /\ queue' = [queue EXCEPT ![r] = <<>>]
  /\ slots' = [slots EXCEPT ![r] = s + Len(queue[r])]

\* _drain_audio_queue, with s slots free.
Drained(r, s) ==
  /\ queue' = [queue EXCEPT ![r] = <<>>]
  /\ slots' = [slots EXCEPT ![r] = s + QueuedAudio(r)]

\* Faulty: the piece being written keeps its slot.
TearDownLeaky(r, next) ==
  IF ppc[r] = "none"
  THEN /\ Goto(r, next)
       /\ UNCHANGED <<after, channelVars>>
  ELSE /\ Goto(r, "abort")
       /\ after' = [after EXCEPT ![r] = next]
       /\ abort' = [abort EXCEPT ![r] = TRUE]
       /\ writing' = [writing EXCEPT ![r] = 0]
       /\ Drained(r, slots[r])

\* _abort_audio_producer up to its first await; the piece being written gives
\* its slot back on the way.  Without a producer there is nothing to tear down.
TearDown(r, next) ==
  IF ppc[r] = "none"
  THEN /\ Goto(r, next)
       /\ UNCHANGED <<after, channelVars>>
  ELSE /\ Goto(r, "abort")
       /\ after' = [after EXCEPT ![r] = next]
       /\ abort' = [abort EXCEPT ![r] = TRUE]
       /\ writing' = [writing EXCEPT ![r] = 0]
       /\ Drained(r, slots[r] + (IF writing[r] = 0 THEN 0 ELSE 1))

\* A write times out (ProtocolWriteError), or the connection is gone
\* (ConnectionError), after which the handler still tries to report the failure.
WriteFails(r) ==
  /\ pc[r] \in AtWrite
  /\ Written(r, <<WriteLost>>)
  /\ IF pc[r] = "fail"
     THEN Goto(r, "failed") /\ UNCHANGED <<after, channelVars>>
     ELSE \/ TearDown(r, "failed")
          \/ ~open[r] /\ TearDown(r, "fail")
  /\ UNCHANGED <<seg, held, hit, producerVars, pos, open, locked, cache>>

GetError(r) ==
  /\ pc[r] = "get"
  /\ queue[r] # <<>>
  /\ ~IsAudio(Head(queue[r]))
  /\ outcome[r] # "ok"
  /\ TearDown(r, "fail")
  /\ UNCHANGED <<seg, held, hit, producerVars, clientVars, locked, cache>>

\* The producer has ended, within Timeout.ABORT or after its cancellation.
ProducerJoined(r) ==
  /\ pc[r] \in {"abort", "reap"}
  /\ ppc[r] = "done"
  /\ Drained(r, slots[r])
  /\ Goto(r, after[r])
  /\ UNCHANGED <<seg, held, hit, after, producerVars, writing, abort, clientVars, locked, cache>>

AbortTimeout(r) ==
  /\ pc[r] = "abort"
  /\ ppc[r] # "done"
  /\ kill' = [kill EXCEPT ![r] = TRUE]
  /\ Goto(r, "reap")
  /\ UNCHANGED <<seg, held, hit, after, ppc, taken, left, made, keep, iter, outcome, native,
                 channelVars, clientVars, locked, cache>>

\* Faulty: the second wait has no timeout.
NeverDetach(r) == FALSE

\* Faulty: the handler takes the lock back from the producer it leaves.
DetachFreesLock(r) ==
  /\ pc[r] = "reap"
  /\ ppc[r] # "done"
  /\ Drained(r, slots[r])
  /\ Goto(r, after[r])
  /\ locked' = FALSE
  /\ UNCHANGED <<seg, held, hit, after, producerVars, writing, abort, clientVars, cache>>

\* The handler leaves a producer that still waits for a native call.
Detach(r) ==
  /\ pc[r] = "reap"
  /\ ppc[r] # "done"
  /\ Drained(r, slots[r])
  /\ Goto(r, after[r])
  /\ UNCHANGED <<seg, held, hit, after, producerVars, writing, abort, clientVars, locked, cache>>

\* The server cancels the handler's task at an await.  A cache write already
\* handed to a thread may still take effect.
Cancel(r) ==
  /\ r \in Disturbed
  /\ pc[r] \in Waiting
  /\ IF pc[r] \in {"abort", "reap", "fail"}
     THEN Goto(r, "cancelled") /\ UNCHANGED <<after, channelVars>>
     ELSE TearDown(r, "cancelled")
  /\ locked' = (locked /\ ~held[r])
  /\ held' = [held EXCEPT ![r] = FALSE]
  /\ cache' \in IF pc[r] = "store" THEN {cache, made[r]} ELSE {cache}
  /\ UNCHANGED <<seg, hit, producerVars, clientVars>>

--------------------------------------------------------------------------------
(* The producer. *)

Submit(r) == native' = [native EXCEPT ![r] = "running"]
Settle(r) == native' = [native EXCEPT ![r] = "none"]

\* Faulty: the lock is not given back when the producer fails.
ReleaseOnSuccess(r, how) ==
  /\ ppc' = [ppc EXCEPT ![r] = "done"]
  /\ outcome' = [outcome EXCEPT ![r] = how]
  /\ locked' = (how # "ok")
  /\ queue' = [queue EXCEPT ![r] = Append(@, EndOfAudio)]
  /\ Settle(r)

\* Faulty: the queue is ended only after a success.
EndOnSuccess(r, how) ==
  /\ ppc' = [ppc EXCEPT ![r] = "done"]
  /\ outcome' = [outcome EXCEPT ![r] = how]
  /\ locked' = FALSE
  /\ queue' = IF how = "ok" THEN [queue EXCEPT ![r] = Append(@, EndOfAudio)] ELSE queue
  /\ Settle(r)

\* Faulty: the producer's failure is swallowed.
ReleaseForgiving(r, how) ==
  /\ ppc' = [ppc EXCEPT ![r] = "done"]
  /\ outcome' = [outcome EXCEPT ![r] = "ok"]
  /\ locked' = FALSE
  /\ queue' = [queue EXCEPT ![r] = Append(@, EndOfAudio)]
  /\ Settle(r)

\* The end of the finally clause: give the lock back, then end the queue.
Release(r, how) ==
  /\ ppc' = [ppc EXCEPT ![r] = "done"]
  /\ outcome' = [outcome EXCEPT ![r] = how]
  /\ locked' = FALSE
  /\ queue' = [queue EXCEPT ![r] = Append(@, EndOfAudio)]
  /\ Settle(r)

\* Faulty: the lock is given back before the iterator is closed.
ReleaseThenClose(r, how, iterator) ==
  IF iterator
  THEN /\ ppc' = [ppc EXCEPT ![r] = "close"]
       /\ outcome' = [outcome EXCEPT ![r] = how]
       /\ Submit(r)
       /\ locked' = FALSE
       /\ UNCHANGED queue
  ELSE Release(r, how)

\* The finally clause with no native call pending: close a surviving iterator.
Clean(r, how, iterator) ==
  IF iterator
  THEN /\ ppc' = [ppc EXCEPT ![r] = "close"]
       /\ outcome' = [outcome EXCEPT ![r] = how]
       /\ Submit(r)
       /\ UNCHANGED <<queue, locked>>
  ELSE Release(r, how)

\* The head of the while loop.
Advance(r) ==
  IF abort[r]
  THEN Clean(r, "ok", TRUE)
  ELSE /\ ppc' = [ppc EXCEPT ![r] = "next"]
       /\ Submit(r)
       /\ UNCHANGED <<outcome, queue, locked>>

\* The executor's thread ends its call, with a result or an exception.
NativeReturns(r) ==
  /\ native[r] = "running"
  /\ \E result \in {"result", "raised"} : native' = [native EXCEPT ![r] = result]
  /\ UNCHANGED <<handlerVars, ppc, taken, left, made, keep, iter, outcome, kill,
                 channelVars, clientVars, locked, cache>>

GotIterator(r) ==
  /\ ppc[r] = "infer"
  /\ native[r] = "result"
  /\ iter' = [iter EXCEPT ![r] = TRUE]
  /\ Advance(r)
  /\ UNCHANGED <<handlerVars, taken, left, made, keep, kill, slots, writing, abort, clientVars, cache>>

\* Faulty: a chunk without audio is delivered like any other.
DeliverEmpty(r, n) ==
  /\ ppc' = [ppc EXCEPT ![r] = "slot"]
  /\ Settle(r)
  /\ UNCHANGED <<outcome, queue, locked>>

\* A chunk without audio is skipped; the pieces of another wait for slots.
Deliver(r, n) ==
  IF n = 0
  THEN Advance(r)
  ELSE /\ ppc' = [ppc EXCEPT ![r] = "slot"]
       /\ Settle(r)
       /\ UNCHANGED <<outcome, queue, locked>>

\* A chunk is counted and kept for the cache as long as the whole result fits.
GotChunk(r) ==
  /\ ppc[r] = "next"
  /\ native[r] = "result"
  /\ taken[r] < Len(ChunkPieces)
  /\ LET n == ChunkPieces[taken[r] + 1]
     IN /\ taken' = [taken EXCEPT ![r] = @ + 1]
        /\ made' = [made EXCEPT ![r] = @ + n]
        /\ keep' = [keep EXCEPT ![r] = @ /\ made[r] + n <= MaxItem]
        /\ left' = [left EXCEPT ![r] = n]
        /\ Deliver(r, n)
  /\ UNCHANGED <<handlerVars, iter, kill, slots, writing, abort, clientVars, cache>>

\* The iterator is exhausted; an engine that yielded nothing is an error.
GotLast(r) ==
  /\ ppc[r] = "next"
  /\ native[r] = "result"
  /\ taken[r] = Len(ChunkPieces)
  /\ Clean(r, IF ~abort[r] /\ made[r] = 0 THEN "error" ELSE "ok", TRUE)
  /\ UNCHANGED <<handlerVars, taken, left, made, keep, iter, kill,
                 slots, writing, abort, clientVars, cache>>

NativeFailed(r) ==
  /\ ppc[r] \in Inferring
  /\ native[r] = "raised"
  /\ Clean(r, "error", iter[r])
  /\ UNCHANGED <<handlerVars, taken, left, made, keep, iter, kill,
                 slots, writing, abort, clientVars, cache>>

\* Faulty: pieces are queued without waiting for a slot.
NoSlotNeeded(r) == TRUE
SlotFree(r) == slots[r] > 0

\* Faulty: every piece of a chunk is its first.
FirstOfChunk(r) == made[r] - ChunkPieces[taken[r]] + 1
NextPiece(r) == made[r] - left[r] + 1

\* Faulty: abort is not looked at again after the wait for a slot.
PutAnyway(r) ==
  /\ ppc[r] = "slot"
  /\ SlotFree(r)
  /\ slots' = [slots EXCEPT ![r] = @ - 1]
  /\ queue' = [queue EXCEPT ![r] = Append(@, NextPiece(r))]
  /\ left' = [left EXCEPT ![r] = @ - 1]
  /\ IF left[r] = 1
     THEN ppc' = [ppc EXCEPT ![r] = "next"] /\ Submit(r)
     ELSE UNCHANGED <<ppc, native>>
  /\ UNCHANGED <<handlerVars, taken, made, keep, iter, outcome, kill, writing, abort,
                 clientVars, locked, cache>>

\* A slot for the next piece; abort is looked at again once it is granted.
PutPiece(r) ==
  /\ ppc[r] = "slot"
  /\ SlotFree(r)
  /\ IF abort[r]
     THEN Clean(r, "ok", TRUE) /\ UNCHANGED <<slots, left>>
     ELSE /\ slots' = [slots EXCEPT ![r] = @ - 1]
          /\ queue' = [queue EXCEPT ![r] = Append(@, NextPiece(r))]
          /\ left' = [left EXCEPT ![r] = @ - 1]
          /\ IF left[r] = 1
             THEN ppc' = [ppc EXCEPT ![r] = "next"] /\ Submit(r)
             ELSE UNCHANGED <<ppc, native>>
          /\ UNCHANGED <<outcome, locked>>
  /\ UNCHANGED <<handlerVars, taken, made, keep, iter, kill, writing, abort, clientVars, cache>>

\* The client is too slow: no slot within the write timeout.
SlotTimeout(r) ==
  /\ ppc[r] = "slot"
  /\ slots[r] = 0
  /\ Clean(r, "error", TRUE)
  /\ UNCHANGED <<handlerVars, taken, left, made, keep, iter, kill,
                 slots, writing, abort, clientVars, cache>>

IteratorClosed(r) ==
  /\ ppc[r] \in {"close", "drainClose"}
  /\ native[r] \in {"result", "raised"}
  /\ iter' = [iter EXCEPT ![r] = FALSE]
  /\ Release(r, outcome[r])
  /\ UNCHANGED <<handlerVars, taken, left, made, keep, kill,
                 slots, writing, abort, clientVars, cache>>

\* The handler's cancellation reaches the producer; the native call is shielded
\* from it and is waited for before anything else.
ProducerCancelled(r) ==
  /\ kill[r]
  /\ kill' = [kill EXCEPT ![r] = FALSE]
  /\ \/ /\ ppc[r] \in Inferring
        /\ ppc' = [ppc EXCEPT ![r] = "drain"]
        /\ UNCHANGED <<outcome, native, queue, locked>>
     \/ /\ ppc[r] = "slot"
        /\ Clean(r, "cancelled", TRUE)
     \/ /\ ppc[r] = "close"
        /\ ppc' = [ppc EXCEPT ![r] = "drainClose"]
        /\ outcome' = [outcome EXCEPT ![r] = "cancelled"]
        /\ UNCHANGED <<native, queue, locked>>
  /\ UNCHANGED <<handlerVars, taken, left, made, keep, iter, slots, writing, abort, clientVars, cache>>

\* Faulty: an iterator that arrives after the cancellation is forgotten.
DrainForgetful(r) ==
  /\ ppc[r] = "drain"
  /\ native[r] \in {"result", "raised"}
  /\ iter' = [iter EXCEPT ![r] = @ \/ native[r] = "result"]
  /\ Clean(r, "cancelled", iter[r])
  /\ UNCHANGED <<handlerVars, taken, left, made, keep, kill,
                 slots, writing, abort, clientVars, cache>>

\* The interrupted call ends; its result may be the iterator to close.
Drain(r) ==
  /\ ppc[r] = "drain"
  /\ native[r] \in {"result", "raised"}
  /\ iter' = [iter EXCEPT ![r] = @ \/ native[r] = "result"]
  /\ Clean(r, "cancelled", iter[r] \/ native[r] = "result")
  /\ UNCHANGED <<handlerVars, taken, left, made, keep, kill,
                 slots, writing, abort, clientVars, cache>>

--------------------------------------------------------------------------------
(* The environment. *)

ClientLeaves(r) ==
  /\ r \in Disturbed
  /\ open[r]
  /\ open' = [open EXCEPT ![r] = FALSE]
  /\ UNCHANGED <<handlerVars, producerVars, channelVars, out, pos, locked, cache>>

Evict ==
  /\ cache > 0
  /\ cache' = 0
  /\ UNCHANGED <<handlerVars, producerVars, channelVars, clientVars, locked>>

HandlerStep(r) ==
  \/ Lookup(r) \/ AcquireLock(r) \/ LockTimeout(r) \/ HitAfterWait(r) \/ StartProducer(r)
  \/ WriteStart(r) \/ ReplayPiece(r) \/ GetPiece(r) \/ WritePiece(r) \/ GetEnd(r)
  \/ WriteStop(r) \/ Store(r) \/ WriteFailure(r) \/ WriteFails(r) \/ GetError(r)
  \/ ProducerJoined(r) \/ AbortTimeout(r) \/ Detach(r)

ProducerStep(r) ==
  \/ GotIterator(r) \/ GotChunk(r) \/ GotLast(r) \/ NativeFailed(r) \/ PutPiece(r)
  \/ SlotTimeout(r) \/ IteratorClosed(r) \/ ProducerCancelled(r) \/ Drain(r)

Next ==
  \/ \E r \in Requests : \/ Begin(r)
                         \/ HandlerStep(r)
                         \/ ProducerStep(r)
                         \/ NativeReturns(r)
                         \/ Cancel(r)
                         \/ ClientLeaves(r)
  \/ Evict

Safe == Init /\ [][Next]_vars

\* The event loop runs every ready task and every expired timer.  Nothing makes
\* a client send, leave or read, and nothing makes a native call return.
Scheduled == \A r \in Requests : WF_vars(HandlerStep(r)) /\ WF_vars(ProducerStep(r))

Spec == Safe /\ Scheduled

\* What only some properties need: every native call returns.
NativeAnswers == \A r \in Requests : WF_vars(NativeReturns(r))
--------------------------------------------------------------------------------
(* Properties. *)

\* The pieces of the whole result: those of the engine's first n chunks, for all n.
PiecesOf[n \in 0 .. Len(ChunkPieces)] ==
  IF n = 0 THEN 0 ELSE PiecesOf[n - 1] + ChunkPieces[n]
Total == PiecesOf[Len(ChunkPieces)]

OwnsLock(r) == held[r] \/ ppc[r] \in Live

HandlerTypes ==
  /\ pc \in [Requests -> {"idle"} \cup Waiting \cup Ended]
  /\ seg \in [Requests -> Segments]
  /\ held \in [Requests -> BOOLEAN]
  /\ hit \in [Requests -> Nat]
  /\ after \in [Requests -> {"failed", "cancelled", "fail"}]

ProducerTypes ==
  /\ ppc \in [Requests -> {"none", "done"} \cup Live]
  /\ taken \in [Requests -> 0 .. Len(ChunkPieces)]
  /\ left \in [Requests -> Nat]
  /\ made \in [Requests -> Nat]
  /\ keep \in [Requests -> BOOLEAN]
  /\ iter \in [Requests -> BOOLEAN]
  /\ outcome \in [Requests -> {"ok", "error", "cancelled"}]
  /\ kill \in [Requests -> BOOLEAN]
  /\ native \in [Requests -> {"none", "running", "result", "raised"}]

ChannelTypes ==
  /\ queue \in [Requests -> Seq(Nat)]
  /\ slots \in [Requests -> Nat]
  /\ writing \in [Requests -> Nat]
  /\ abort \in [Requests -> BOOLEAN]

ClientTypes ==
  /\ out \in [Requests -> Seq(Events)]
  /\ pos \in [Requests -> Nat]
  /\ open \in [Requests -> BOOLEAN]

\* Every variable keeps its range; in particular no counter becomes negative.
TypeOK == HandlerTypes /\ ProducerTypes /\ ChannelTypes /\ ClientTypes
          /\ locked \in BOOLEAN /\ cache \in Nat

\* asyncio.Lock does not know its owner: whoever calls release() frees it.  The
\* lock is set exactly while one request owns it, through its handler or through
\* the producer the handler gave it to, and never through both.
LockOwnership ==
  /\ locked <=> \E r \in Requests : OwnsLock(r)
  /\ \A r \in Requests : ~(held[r] /\ ppc[r] \in Live)
  /\ \A r, q \in Requests : OwnsLock(r) /\ OwnsLock(q) => r = q

\* A native call runs only for the owner of the lock: also while its producer is
\* being cancelled, and after its handler gave up waiting and is gone.
NativeUnderLock ==
  \A r \in Requests : native[r] = "running" =>
    locked /\ \A q \in Requests \ {r} : ~OwnsLock(q) /\ native[q] # "running"

\* Every slot is free, behind a queued piece or with the piece being written, on
\* every path through write failures, cancellations and drains.
SlotAccounting ==
  \A r \in Requests :
    slots[r] + QueuedAudio(r) + (IF writing[r] = 0 THEN 0 ELSE 1) = SlotCap

\* The queue has room for every put_nowait, the end marker included.
QueueNeverFull == \A r \in Requests : Len(queue[r]) <= SlotCap + 1

\* The handler waits on the queue (without a timeout) only while something will
\* come: a live producer, or an end marker already queued behind the audio.
NeverStranded ==
  \A r \in Requests : pc[r] = "get" =>
    \/ ppc[r] \in Live
    \/ queue[r] # <<>> /\ ~IsAudio(queue[r][Len(queue[r])])

\* A producer that ended closed the iterator it had or was still being given.
IteratorsClosed == \A r \in Requests : ppc[r] = "done" => ~iter[r]

\* What the client was sent of the audio is a prefix of the result, in order and
\* without interruption, behind the start if the request sends it.
Opening(r) == IF seg[r].start THEN 1 ELSE 0
OrderedDelivery ==
  \A r \in Requests :
    /\ \A i \in 1 .. pos[r] :
         Opening(r) + i \in DOMAIN out[r] /\ out[r][Opening(r) + i] = AudioChunk(i)
    /\ \A i \in DOMAIN out[r] :
         out[r][i].type = "audio-chunk" => i \in Opening(r) + 1 .. Opening(r) + pos[r]

\* A request that succeeds sent the whole result, and it is not empty, between its
\* start and its stop.
WholeDelivery ==
  \A r \in Requests : pc[r] = "ok" =>
    /\ pos[r] = Total /\ pos[r] > 0
    /\ Len(out[r]) = Opening(r) + Total + 1
    /\ seg[r].start => out[r][1] = AudioStart
    /\ out[r][Len(out[r])] = IF seg[r].stop THEN AudioStop ELSE Silence

\* However a request fails, a client that can still be written to is told, once,
\* and its audio lifecycle is closed: one start (or the stream's), then one stop.
FailureClosesAudio ==
  \A r \in Requests :
    LET marks(e) == Cardinality({i \in DOMAIN out[r] : out[r][i] = e})
    IN pc[r] = "failed" /\ open[r] /\ ~Has(r, WriteLost) =>
         /\ marks(Failure) = 1
         /\ marks(AudioStart) = IF seg[r].start THEN 1 ELSE 0
         /\ marks(AudioStop) = 1
         /\ out[r][Len(out[r])] = AudioStop

\* Only whole results are cached: never the audio of a request that was aborted,
\* cancelled, failed half way or produced more than an entry may hold.
CacheWhole == cache \in {0, Total} /\ cache <= MaxItem

\* Once its handler tears it down, a producer queues no more audio.
NoAudioAfterAbort ==
  [][\A r \in Requests : abort[r] => QueuedAudio(r)' <= QueuedAudio(r)]_vars

\* A lock is given back by its owner only, between two native calls.
Lock == INSTANCE EngineLease WITH
          holders <- {r \in Requests : OwnsLock(r)},
          calls   <- {r \in Requests : native[r] = "running"}
ImplementsLease == Lock!LeaseSpec

\* Every request ends, provided native calls return.
RequestsEnd == NativeAnswers => \A r \in Requests : (pc[r] \in Waiting) ~> (pc[r] \in Ended)

\* The engine always becomes free again, also after requests nobody waits for.
LockFreed == NativeAnswers => locked ~> ~locked

\* Teardown is bounded even when a native call never returns: two timeouts, then
\* the handler leaves.
TeardownEnds == \A r \in Requests : (pc[r] \in {"abort", "reap"}) ~> (pc[r] \in Ended)

\* The engine has one user at a time, who holds its lock.
EngineOwned == LockOwnership /\ NativeUnderLock

\* The semaphore of slots and the bounded queue behind it agree, whatever aborts,
\* write failures and drains give back.
SlotSafety == TypeOK /\ SlotAccounting /\ QueueNeverFull

\* What is cached is whole, and so is every request that succeeds, whether it
\* synthesizes its audio or replays what another cached.
ResultsWhole == CacheWhole /\ WholeDelivery

\* A client gets the whole audio of its request, piece by piece in order.
DeliveryExact == OrderedDelivery /\ WholeDelivery

\* A request that fails or ends leaves neither its client's audio nor the
\* engine's iterator open.
EverythingClosed == FailureClosesAudio /\ IteratorsClosed

\* Nobody waits for ever, nor is the engine lost: in a teardown whatever happens, and
\* elsewhere as long as native calls return.
EverythingEnds == RequestsEnd /\ LockFreed /\ TeardownEnds
--------------------------------------------------------------------------------
(* The inductive invariant behind the safety properties that are proved. *)

\* The lock is held by a handler only during its second lookup, the producer
\* exists from then on unless the cache had the result, and a native call belongs
\* to a producer that waits for it.
ControlInv ==
  \A r \in Requests :
    /\ held[r] <=> pc[r] = "relookup"
    /\ pc[r] \in {"idle", "lookup", "lock", "relookup"} => ppc[r] = "none"
    /\ pc[r] \in {"get", "write", "abort", "reap"} => ppc[r] # "none"
    /\ pc[r] = "start" /\ hit[r] = 0 => ppc[r] # "none"
    /\ native[r] = "running" => ppc[r] \in Live \ {"slot"}

\* The end marker is queued once, last, by a producer that ends; the numbers of
\* the pieces follow the audio made; a piece is taken only while it is written.
QueueInv ==
  \A r \in Requests :
    /\ \A i \in 1 .. Len(queue[r]) : queue[r][i] = EndOfAudio =>
         i = Len(queue[r]) /\ ppc[r] = "done"
    /\ left[r] <= made[r]
    /\ ppc[r] = "slot" => left[r] > 0
    /\ writing[r] # 0 <=> pc[r] = "write"

IInv == TypeOK /\ LockOwnership /\ ControlInv /\ QueueInv /\ SlotAccounting

\* The producer counts the pieces of the chunks it took, keeps no more than an entry
\* may hold, and ends well, unless it was told to stop, only after the last chunk.
ProductionInv(r) ==
  /\ made[r] = PiecesOf[taken[r]]
  /\ keep[r] => made[r] <= MaxItem
  /\ ppc[r] \in {"none", "infer"} => taken[r] = 0 /\ left[r] = 0
  /\ ppc[r] = "next" => left[r] = 0
  /\ outcome[r] = "ok" /\ ppc[r] \in {"close", "drainClose", "done"} /\ ~abort[r] =>
       taken[r] = Len(ChunkPieces) /\ left[r] = 0 /\ made[r] > 0
  /\ ppc[r] \in {"none", "infer", "done"} => ~iter[r]

\* A request has a cached result or a producer, and no producer is told to stop but
\* by a teardown.
SourceInv(r) ==
  /\ abort[r] => pc[r] \in {"abort", "reap", "fail", "failed", "cancelled"}
  /\ pc[r] \in {"abort", "reap"} => abort[r]
  /\ hit[r] \in {0, Total} /\ hit[r] <= MaxItem
  /\ pc[r] \in {"idle", "lookup", "lock", "relookup", "get", "write", "store"} => hit[r] = 0
  /\ hit[r] > 0 => ppc[r] = "none"
  /\ ppc[r] = "none" => queue[r] = <<>> /\ ~abort[r]

InWriting(r) == IF writing[r] = 0 THEN 0 ELSE 1

\* Until a teardown the pieces follow each other from the engine to the client: written,
\* being written, queued, still to be queued; the end marker waits behind them.
PiecesInv(r) ==
  /\ ~abort[r] /\ hit[r] = 0 =>
       /\ writing[r] # 0 => writing[r] = pos[r] + 1
       /\ \A i \in 1 .. Len(queue[r]) :
            IsAudio(queue[r][i]) => queue[r][i] = pos[r] + InWriting(r) + i
       /\ made[r] - left[r] = pos[r] + InWriting(r) + QueuedAudio(r)
  /\ pc[r] \in {"start", "get", "write"} /\ ppc[r] = "done" => EndIn(queue[r])
  /\ pc[r] = "replay" => hit[r] > 0 /\ pos[r] < hit[r]
  /\ pc[r] \in {"stop", "store", "ok"} =>
       /\ pos[r] = Total /\ pos[r] > 0
       /\ hit[r] = 0 => ppc[r] = "done" /\ made[r] = Total
  /\ pc[r] = "store" => keep[r]

\* The start, if it is the request's to send, and the pieces up to pos, nothing else.
Framed(r) ==
  /\ Len(out[r]) = Opening(r) + pos[r]
  /\ seg[r].start => out[r][1] = AudioStart

\* What has been written when the handler is at pc; a failure is either reported
\* by a lost write or finds the audio framed, or nothing written at all.
OutputInv(r) ==
  /\ pc[r] \in {"idle", "lookup", "lock", "relookup", "start"} => out[r] = <<>> /\ pos[r] = 0
  /\ pc[r] = "start" => seg[r].start
  /\ pc[r] \in {"replay", "get", "write", "stop"} => Framed(r)
  /\ pc[r] \in {"abort", "reap"} =>
       /\ after[r] = "failed" => Has(r, WriteLost)
       /\ after[r] = "fail" => Has(r, WriteLost) \/ Framed(r)
  /\ pc[r] = "fail" => Has(r, WriteLost) \/ Framed(r) \/ (out[r] = <<>> /\ pos[r] = 0)
  /\ pc[r] \in {"store", "ok"} =>
       /\ Len(out[r]) = Opening(r) + pos[r] + 1
       /\ seg[r].start => out[r][1] = AudioStart
       /\ out[r][Len(out[r])] = IF seg[r].stop THEN AudioStop ELSE Silence

DataInv ==
  /\ IInv
  /\ CacheWhole
  /\ OrderedDelivery
  /\ FailureClosesAudio
  /\ \A r \in Requests : ProductionInv(r) /\ SourceInv(r) /\ PiecesInv(r) /\ OutputInv(r)
================================================================================
