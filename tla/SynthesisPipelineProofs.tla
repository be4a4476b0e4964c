------------------------ MODULE SynthesisPipelineProofs ------------------------
(***************************************************************************)
(* Safety of SynthesisPipeline for any number of requests, any queue size  *)
(* and any engine output.  IInv is inductive: the lemmas follow its parts  *)
(* through the steps of the handler, of the producer and of their          *)
(* environment, and the theorems read the properties off it.  DataInv adds *)
(* what each request is owed: the second half follows its audio from the   *)
(* engine's chunks to what the handler writes.                             *)
(***************************************************************************)
EXTENDS SynthesisPipeline, FiniteSums

--------------------------------------------------------------------------------
(* Queues that end with at most one end marker. *)

\* A queued piece is one more piece of audio.
LEMMA AppendPiece ==
  ASSUME NEW q \in Seq(Nat), NEW n \in Nat, n # EndOfAudio
  PROVE  AudioIn(Append(q, n)) = AudioIn(q) + 1 /\ (EndIn(Append(q, n)) <=> EndIn(q))
<1>1. /\ Len(Append(q, n)) = Len(q) + 1
      /\ \A i \in 1 .. Len(q) : Append(q, n)[i] = q[i]
      /\ Append(q, n)[Len(q) + 1] = n
  OBVIOUS
<1>2. EndIn(Append(q, n)) <=> EndIn(q)
  BY <1>1 DEF EndIn, IsAudio
<1> QED
  BY <1>1, <1>2 DEF AudioIn

\* The end marker is no audio.
LEMMA AppendEnd ==
  ASSUME NEW q \in Seq(Nat), ~EndIn(q)
  PROVE  AudioIn(Append(q, EndOfAudio)) = AudioIn(q) /\ EndIn(Append(q, EndOfAudio))
<1>1. /\ Len(Append(q, EndOfAudio)) = Len(q) + 1
      /\ Append(q, EndOfAudio)[Len(q) + 1] = EndOfAudio
  BY DEF EndOfAudio
<1>2. EndIn(Append(q, EndOfAudio))
  BY <1>1 DEF EndIn, IsAudio
<1> QED
  BY <1>1, <1>2 DEF AudioIn

\* Taking a piece leaves one piece less.
LEMMA TakePiece ==
  ASSUME NEW q \in Seq(Nat), q # <<>>, IsAudio(Head(q))
  PROVE  AudioIn(Tail(q)) = AudioIn(q) - 1 /\ (EndIn(Tail(q)) <=> EndIn(q))
<1>1. /\ Len(Tail(q)) = Len(q) - 1 /\ Head(q) = q[1] /\ Len(q) \in Nat \ {0}
      /\ \A i \in 1 .. Len(Tail(q)) : Tail(q)[i] = q[i + 1]
  OBVIOUS
<1>2. ASSUME NEW i \in 1 .. Len(q), ~IsAudio(q[i])
      PROVE  EndIn(Tail(q))
  <2>1. i # 1 /\ i - 1 \in 1 .. Len(Tail(q)) /\ Tail(q)[i - 1] = q[i]
    BY <1>1, <1>2
  <2> QED BY <2>1, <1>2 DEF EndIn
<1>3. EndIn(Tail(q)) => EndIn(q)
  BY <1>1 DEF EndIn
<1> QED
  BY <1>1, <1>2, <1>3 DEF AudioIn, EndIn

\* The audio of a queue is a number of pieces within its length.
LEMMA AudioInNat ==
  ASSUME NEW q \in Seq(Nat)
  PROVE  AudioIn(q) \in Nat /\ AudioIn(q) <= Len(q) /\ AudioIn(<<>>) = 0
<1>1. EndIn(q) => Len(q) > 0
  BY DEF EndIn
<1>2. ~EndIn(<<>>)
  BY DEF EndIn
<1> QED
  BY <1>1, <1>2 DEF AudioIn

\* An end marker at the head of a queue that it ends is all there is.
LEMMA EndAlone ==
  ASSUME NEW q \in Seq(Nat), q # <<>>, ~IsAudio(Head(q)),
         \A i \in 1 .. Len(q) : q[i] = EndOfAudio => i = Len(q)
  PROVE  AudioIn(q) = 0 /\ Tail(q) = <<>>
<1>0. Head(q) = q[1] /\ 1 \in 1 .. Len(q) /\ \A s \in Seq(Nat) : Len(s) = 0 => s = <<>>
  OBVIOUS
<1>1. Len(q) = 1 /\ q[1] = EndOfAudio
  BY <1>0 DEF IsAudio
<1>2. EndIn(q)
  BY <1>1 DEF EndIn, IsAudio
<1>3. Len(Tail(q)) = 0 /\ Tail(q) \in Seq(Nat)
  BY <1>1
<1>4. AudioIn(q) = 0
  BY <1>1, <1>2 DEF AudioIn
<1>5. Tail(q) = <<>>
  BY <1>0, <1>3
<1> QED BY <1>4, <1>5

\* Updates of one queue keep the type of all.
LEMMA QueueTyped ==
  ASSUME NEW r \in Requests, NEW n \in Nat, queue \in [Requests -> Seq(Nat)]
  PROVE  /\ [queue EXCEPT ![r] = Append(queue[r], n)] \in [Requests -> Seq(Nat)]
         /\ queue[r] # <<>> => [queue EXCEPT ![r] = Tail(queue[r])] \in [Requests -> Seq(Nat)]
         /\ [queue EXCEPT ![r] = <<>>] \in [Requests -> Seq(Nat)]
<1>1. Append(queue[r], n) \in Seq(Nat) /\ <<>> \in Seq(Nat)
      /\ (queue[r] # <<>> => Tail(queue[r]) \in Seq(Nat))
  OBVIOUS
<1> QED BY <1>1

--------------------------------------------------------------------------------
(* Types. *)

\* A handler's step keeps the ranges of the handler's variables.
LEMMA HandlerTypesKept ==
  ASSUME IInv, NEW r \in Requests, HandlerStep(r) \/ Cancel(r) \/ Begin(r)
  PROVE  HandlerTypes'
<1> USE DEF IInv, TypeOK, HandlerTypes, Begin, HandlerStep, Lookup, AcquireLock, LockTimeout,
            HitAfterWait, StartProducer, WriteStart, ReplayPiece, GetPiece, WritePiece, GetEnd,
            WriteStop, Store, WriteFailure, WriteFails, GetError, ProducerJoined, AbortTimeout,
            Detach, Cancel
<1>1. pc' \in [Requests -> {"idle"} \cup Waiting \cup Ended]
  <2> DEFINE Goes == \E l \in Waiting \cup Ended : Goto(r, l)
  <2>1. CASE Begin(r) \/ Lookup(r) \/ AcquireLock(r) \/ LockTimeout(r) \/ HitAfterWait(r) \/ StartProducer(r)
    <3>1. Goes
      BY <2>1 DEF Delivery, Waiting, Ended
    <3> QED BY <3>1 DEF Goto
  <2>2. CASE \/ WriteStart(r) \/ ReplayPiece(r) \/ GetPiece(r) \/ WritePiece(r) \/ GetEnd(r)
             \/ WriteStop(r) \/ Store(r) \/ WriteFailure(r)
    <3>1. Goes
      BY <2>2 DEF Waiting, Ended
    <3> QED BY <3>1 DEF Goto
  <2>3. CASE WriteFails(r) \/ GetError(r) \/ Cancel(r)
    <3>1. Goes
      BY <2>3 DEF TearDown, Waiting, Ended
    <3> QED BY <3>1 DEF Goto
  <2>4. CASE ProducerJoined(r) \/ AbortTimeout(r) \/ Detach(r)
    <3>1. Goes
      BY <2>4 DEF Waiting, Ended
    <3> QED BY <3>1 DEF Goto
  <2> QED BY <2>1, <2>2, <2>3, <2>4
<1>2. held' \in [Requests -> BOOLEAN]
  BY DEF ClientTypes
<1>3. seg' = seg /\ hit' \in [Requests -> Nat]
  OBVIOUS
<1>4. after' \in [Requests -> {"failed", "cancelled", "fail"}]
  BY DEF TearDown
<1> QED BY <1>1, <1>2, <1>3, <1>4

\* A handler's step keeps the ranges of the producer's variables, the lock and the cache.
LEMMA HandlerRest ==
  ASSUME IInv, NEW r \in Requests, HandlerStep(r) \/ Cancel(r) \/ Begin(r)
  PROVE  ProducerTypes' /\ locked' \in BOOLEAN /\ cache' \in Nat
<1> USE DEF IInv, TypeOK, Begin, HandlerStep, Lookup, AcquireLock, LockTimeout, HitAfterWait,
            StartProducer, WriteStart, ReplayPiece, GetPiece, WritePiece, GetEnd, WriteStop,
            Store, WriteFailure, WriteFails, GetError, ProducerJoined, AbortTimeout, Detach,
            Cancel
<1>1. /\ ppc' \in {ppc, [ppc EXCEPT ![r] = "infer"]}
      /\ native' \in {native, [native EXCEPT ![r] = "running"]}
      /\ kill' \in {kill, [kill EXCEPT ![r] = TRUE]}
      /\ UNCHANGED <<taken, left, made, keep, iter, outcome>>
  BY DEF producerVars
<1>2. ProducerTypes'
  BY <1>1 DEF ProducerTypes, Live, Inferring
<1>3. locked' \in BOOLEAN
  BY DEF HandlerTypes, ClientTypes
<1>4. cache' \in Nat
  BY DEF ProducerTypes
<1> QED BY <1>2, <1>3, <1>4

\* A handler's step keeps the ranges of the queue, the slots and the abort flag.
LEMMA HandlerChannel ==
  ASSUME IInv, NEW r \in Requests, HandlerStep(r) \/ Cancel(r) \/ Begin(r)
  PROVE  ChannelTypes'
<1> USE DEF IInv, TypeOK, ChannelTypes, Begin, HandlerStep, Lookup, AcquireLock, LockTimeout,
            HitAfterWait, StartProducer, WriteStart, ReplayPiece, GetPiece, WritePiece, GetEnd,
            WriteStop, Store, WriteFailure, WriteFails, GetError, ProducerJoined, AbortTimeout,
            Detach, Cancel, TearDown, Drained, QueuedAudio, channelVars, producerVars
<1>0. queue[r] \in Seq(Nat) /\ AudioIn(queue[r]) \in Nat
  BY AudioInNat
<1>1. \/ queue' \in {queue, [queue EXCEPT ![r] = <<>>]}
      \/ queue[r] # <<>> /\ queue' = [queue EXCEPT ![r] = Tail(queue[r])]
  OBVIOUS
<1>2. queue' \in [Requests -> Seq(Nat)]
  <2>1. queue \in [Requests -> Seq(Nat)] /\ 0 \in Nat
    OBVIOUS
  <2> HIDE DEF IInv, TypeOK, HandlerTypes, HandlerStep, Begin, Cancel
  <2>2. /\ queue[r] # <<>> => [queue EXCEPT ![r] = Tail(queue[r])] \in [Requests -> Seq(Nat)]
        /\ [queue EXCEPT ![r] = <<>>] \in [Requests -> Seq(Nat)]
    BY <2>1, QueueTyped
  <2> QED BY Zenon, <1>1, <2>1, <2>2
<1>3. abort' \in [Requests -> BOOLEAN]
  OBVIOUS
<1>4. writing' \in {writing, [writing EXCEPT ![r] = 0], [writing EXCEPT ![r] = Head(queue[r])]}
      /\ (writing' = [writing EXCEPT ![r] = Head(queue[r])]
            => Head(queue[r]) \in Nat \/ writing' = writing)
  OBVIOUS
<1>5. slots' \in {slots, [slots EXCEPT ![r] = slots[r] + 1],
                  [slots EXCEPT ![r] = slots[r] + AudioIn(queue[r])],
                  [slots EXCEPT ![r] = slots[r] + 1 + AudioIn(queue[r])],
                  [slots EXCEPT ![r] = slots[r] + 0 + AudioIn(queue[r])]}
  OBVIOUS
<1> QED BY SMTT(40), <1>0, <1>2, <1>3, <1>4, <1>5

\* What handlers write are events.
LEMMA EventTypes ==
  /\ {AudioStart, AudioStop, Failure, Silence, WriteLost} \subseteq Events
  /\ \A n \in Nat : AudioChunk(n) \in Events
<1>1. \A n \in Nat : AudioChunk(n) \in Events
  BY DEF AudioChunk, Event, Events
<1>2. AudioStart \in Events /\ AudioStop \in Events
  BY DEF AudioStart, AudioStop, Event, Events
<1>3. Failure \in Events /\ Silence \in Events /\ WriteLost \in Events
  BY DEF Failure, Silence, WriteLost, Event, Events
<1> QED BY <1>1, <1>2, <1>3

\* A handler's step keeps the ranges of the client's variables.
LEMMA ClientKept ==
  ASSUME IInv, NEW r \in Requests, HandlerStep(r) \/ Cancel(r) \/ Begin(r)
  PROVE  ClientTypes'
<1> DEFINE Wrote(e) == out' = [out EXCEPT ![r] = out[r] \o e]
<1>1. /\ out \in [Requests -> Seq(Events)] /\ pos \in [Requests -> Nat]
      /\ writing \in [Requests -> Nat]
  BY DEF IInv, TypeOK, ClientTypes, ChannelTypes
<1>2. \/ out' = out \/ Wrote(<<AudioStart>>) \/ Wrote(<<AudioStop>>) \/ Wrote(<<Silence>>)
      \/ Wrote(<<WriteLost>>)
      \/ Wrote(<<AudioChunk(pos[r] + 1)>>) \/ Wrote(<<AudioChunk(writing[r])>>)
      \/ Wrote(<<Failure>> \o <<>> \o <<AudioStop>>)
      \/ Wrote(<<Failure>> \o <<AudioStart>> \o <<AudioStop>>)
  BY DEF Begin, HandlerStep, Lookup, AcquireLock, LockTimeout, HitAfterWait, StartProducer,
         WriteStart, ReplayPiece, GetPiece, WritePiece, GetEnd, WriteStop, Store,
         WriteFailure, WriteFails, GetError, ProducerJoined, AbortTimeout, Detach, Cancel,
         clientVars, Written
<1>3. out' \in [Requests -> Seq(Events)]
  <2>1. \A e \in Seq(Events) : [out EXCEPT ![r] = out[r] \o e] \in [Requests -> Seq(Events)]
    BY <1>1
  <2>2. \A e \in Events : <<e>> \in Seq(Events)
    OBVIOUS
  <2>3. /\ <<Failure>> \o <<>> \o <<AudioStop>> \in Seq(Events)
        /\ <<Failure>> \o <<AudioStart>> \o <<AudioStop>> \in Seq(Events)
    BY <2>2, EventTypes
  <2>4. AudioChunk(pos[r] + 1) \in Events /\ AudioChunk(writing[r]) \in Events
    BY <1>1, EventTypes
  <2>5. \A e \in Events : Wrote(<<e>>) => out' \in [Requests -> Seq(Events)]
    BY Zenon, <2>1, <2>2
  <2>6. \A e \in Seq(Events) : Wrote(e) => out' \in [Requests -> Seq(Events)]
    BY Zenon, <2>1
  <2> HIDE DEF Wrote
  <2> QED BY Zenon, <1>1, <1>2, <2>3, <2>4, <2>5, <2>6, EventTypes
<1>4. open' = open /\ pos' \in {pos, [pos EXCEPT ![r] = pos[r] + 1]}
  BY DEF Begin, HandlerStep, Lookup, AcquireLock, LockTimeout, HitAfterWait, StartProducer,
         WriteStart, ReplayPiece, GetPiece, WritePiece, GetEnd, WriteStop, Store,
         WriteFailure, WriteFails, GetError, ProducerJoined, AbortTimeout, Detach, Cancel,
         clientVars
<1> QED BY <1>1, <1>3, <1>4 DEF IInv, TypeOK, ClientTypes

\* A handler's step preserves the type invariant.
LEMMA HandlerTypeOK ==
  ASSUME IInv, NEW r \in Requests, HandlerStep(r) \/ Cancel(r) \/ Begin(r)
  PROVE  TypeOK'
BY HandlerTypesKept, HandlerChannel, ClientKept, HandlerRest DEF TypeOK

\* A producer's step keeps its counters, the slots and the queue in range: no piece
\* is taken from an empty chunk and no slot from an empty semaphore.
LEMMA ProducerCounters ==
  ASSUME IInv, NEW r \in Requests, ProducerStep(r)
  PROVE  /\ taken' \in [Requests -> 0 .. Len(ChunkPieces)]
         /\ left' \in [Requests -> Nat]
         /\ made' \in [Requests -> Nat]
         /\ slots' \in [Requests -> Nat]
         /\ queue' \in [Requests -> Seq(Nat)]
<1> USE DEF IInv, TypeOK, ProducerTypes, ChannelTypes
<1>0. ChunkPieces \in Seq(Nat) /\ Len(ChunkPieces) \in Nat
  BY ConstantsAssumption
<1>q. /\ queue \in [Requests -> Seq(Nat)]
      /\ \A n \in Nat : [queue EXCEPT ![r] = Append(queue[r], n)] \in [Requests -> Seq(Nat)]
      /\ [queue EXCEPT ![r] = Append(queue[r], EndOfAudio)] \in [Requests -> Seq(Nat)]
  <2>1. queue \in [Requests -> Seq(Nat)] /\ EndOfAudio \in Nat
    BY DEF EndOfAudio
  <2> HIDE DEF IInv, TypeOK
  <2>2. \A n \in Nat : [queue EXCEPT ![r] = Append(queue[r], n)] \in [Requests -> Seq(Nat)]
    BY <2>1, QueueTyped
  <2> QED BY <2>1, <2>2
<1>1. CASE GotChunk(r)
  <2> DEFINE n == ChunkPieces[taken[r] + 1]
  <2>1. taken[r] + 1 \in 0 .. Len(ChunkPieces) /\ n \in Nat
    BY <1>0, <1>1 DEF GotChunk, Deliver
  <2>2. taken' = [taken EXCEPT ![r] = taken[r] + 1] /\ made' = [made EXCEPT ![r] = made[r] + n]
        /\ left' = [left EXCEPT ![r] = n] /\ slots' = slots
    BY <1>1 DEF GotChunk, Deliver
  <2>3. queue' = queue \/ queue' = [queue EXCEPT ![r] = Append(queue[r], EndOfAudio)]
    BY <1>1 DEF GotChunk, Deliver, Advance, Clean, Release
  <2>4. queue' \in [Requests -> Seq(Nat)]
    BY <1>q, <2>3
  <2> HIDE DEF n
  <2>5. taken' \in [Requests -> 0 .. Len(ChunkPieces)]
    BY <2>1, <2>2
  <2>6. left' \in [Requests -> Nat]
    BY <2>1, <2>2
  <2>7. made' \in [Requests -> Nat]
    <3>1. made[r] + n \in Nat
      BY <2>1
    <3> QED BY <2>2, <3>1
  <2> QED BY <2>2, <2>4, <2>5, <2>6, <2>7
<1>2. CASE PutPiece(r)
  <2>1. made[r] - left[r] + 1 \in Nat /\ left[r] - 1 \in Nat /\ slots[r] - 1 \in Nat
    BY <1>2 DEF PutPiece, SlotFree, NextPiece, QueueInv
  <2>2. taken' = taken /\ made' = made /\ left' \in {left, [left EXCEPT ![r] = left[r] - 1]}
        /\ slots' \in {slots, [slots EXCEPT ![r] = slots[r] - 1]}
    BY <1>2 DEF PutPiece, SlotFree, NextPiece
  <2>3. queue' \in {queue, [queue EXCEPT ![r] = Append(queue[r], EndOfAudio)],
                    [queue EXCEPT ![r] = Append(queue[r], made[r] - left[r] + 1)]}
    BY <1>2 DEF PutPiece, SlotFree, NextPiece, Clean, Release
  <2>4. queue' \in [Requests -> Seq(Nat)]
    <3>1. [queue EXCEPT ![r] = Append(queue[r], made[r] - left[r] + 1)] \in [Requests -> Seq(Nat)]
      BY Zenon, <1>q, <2>1
    <3> HIDE DEF IInv, TypeOK
    <3> QED BY Zenon, <1>q, <2>3, <3>1
  <2>5. [left EXCEPT ![r] = left[r] - 1] \in [Requests -> Nat]
    BY <2>1
  <2>6. [slots EXCEPT ![r] = slots[r] - 1] \in [Requests -> Nat]
    BY <2>1
  <2>7. left \in [Requests -> Nat] /\ slots \in [Requests -> Nat]
        /\ made \in [Requests -> Nat] /\ taken \in [Requests -> 0 .. Len(ChunkPieces)]
    OBVIOUS
  <2> HIDE DEF IInv, TypeOK, ProducerTypes, ChannelTypes
  <2> QED BY Zenon, <2>2, <2>4, <2>5, <2>6, <2>7
<1>3. CASE ~GotChunk(r) /\ ~PutPiece(r)
  <2>1. taken' = taken /\ made' = made /\ left' = left /\ slots' = slots
    BY <1>3 DEF ProducerStep, GotIterator, GotLast, NativeFailed, SlotTimeout, IteratorClosed,
                ProducerCancelled, Drain
  <2>2. queue' = queue \/ queue' = [queue EXCEPT ![r] = Append(queue[r], EndOfAudio)]
    BY <1>3 DEF ProducerStep, GotIterator, GotLast, NativeFailed, SlotTimeout, IteratorClosed,
                ProducerCancelled, Drain, Advance, Clean, Release
  <2>3. queue' \in [Requests -> Seq(Nat)]
    BY <1>q, <2>2
  <2> QED BY <2>1, <2>3
<1> QED BY <1>1, <1>2, <1>3

\* A producer's step preserves the type invariant.
LEMMA ProducerTypeOK ==
  ASSUME IInv, NEW r \in Requests, ProducerStep(r)
  PROVE  TypeOK'
<1> USE DEF IInv, TypeOK, ProducerStep, GotIterator, GotChunk, Deliver, GotLast, NativeFailed,
            PutPiece, SlotFree, NextPiece,
            SlotTimeout, IteratorClosed, ProducerCancelled, Drain
<1>1. HandlerTypes' /\ ClientTypes' /\ cache' \in Nat
  BY DEF HandlerTypes, ClientTypes, handlerVars, clientVars
<1>2. locked' \in BOOLEAN
  BY DEF Clean, Release, Advance
<1>3. writing' \in [Requests -> Nat] /\ abort' \in [Requests -> BOOLEAN]
  BY DEF ChannelTypes
<1>4. /\ keep' \in [Requests -> BOOLEAN] /\ iter' \in [Requests -> BOOLEAN]
      /\ kill' \in [Requests -> BOOLEAN]
  BY DEF ProducerTypes
<1>5. outcome' \in [Requests -> {"ok", "error", "cancelled"}]
  BY DEF ProducerTypes, Clean, Release, Advance
<1>6. ppc' \in [Requests -> {"none", "done"} \cup Live]
  <2> DEFINE Moves == \E l \in {"done"} \cup Live : ppc' = [ppc EXCEPT ![r] = l]
  <2>1. CASE GotIterator(r) \/ GotChunk(r) \/ GotLast(r) \/ NativeFailed(r)
    <3>1. Moves
      BY <2>1 DEF Clean, Release, Advance, Live, Inferring
    <3> QED BY <3>1 DEF ProducerTypes
  <2>2. CASE PutPiece(r) \/ SlotTimeout(r)
    <3>1. Moves \/ ppc' = ppc
      BY <2>2 DEF Clean, Release, Live, Inferring
    <3> QED BY <3>1 DEF ProducerTypes
  <2>3. CASE IteratorClosed(r) \/ ProducerCancelled(r) \/ Drain(r)
    <3>1. Moves
      BY <2>3 DEF Clean, Release, Live, Inferring
    <3> QED BY <3>1 DEF ProducerTypes
  <2> QED BY <2>1, <2>2, <2>3
<1>7. native' \in [Requests -> {"none", "running", "result", "raised"}]
  BY DEF ProducerTypes, Clean, Release, Advance, Submit, Settle
<1> QED
  BY <1>1, <1>2, <1>3, <1>4, <1>5, <1>6, <1>7, ProducerCounters DEF ProducerTypes, ChannelTypes

--------------------------------------------------------------------------------
(* The lock and the program counters. *)

\* Handlers preserve the ownership of the lock: acquire, hand over, give back.
LEMMA LockHandler ==
  ASSUME IInv, NEW r \in Requests, HandlerStep(r) \/ Cancel(r) \/ Begin(r)
  PROVE  LockOwnership'
<1> USE DEF IInv, TypeOK, HandlerTypes, ProducerTypes, LockOwnership, ControlInv, OwnsLock,
            Live, Inferring
<1>1. CASE AcquireLock(r)
  <2>1. /\ held' = [held EXCEPT ![r] = open[r]] /\ locked' = open[r] /\ ~locked
        /\ ppc' = ppc /\ pc[r] = "lock"
    BY <1>1 DEF AcquireLock, producerVars
  <2> QED BY <2>1
<1>2. CASE HitAfterWait(r)
  <2>1. /\ held' = [held EXCEPT ![r] = FALSE] /\ locked' = FALSE
        /\ ppc' = ppc /\ pc[r] = "relookup"
    BY <1>2 DEF HitAfterWait, producerVars
  <2> QED BY <2>1
<1>3. CASE StartProducer(r)
  <2>1. /\ held' = [held EXCEPT ![r] = FALSE] /\ locked' = locked
        /\ ppc' = [ppc EXCEPT ![r] = "infer"] /\ pc[r] = "relookup"
    BY <1>3 DEF StartProducer
  <2>2. \A q \in Requests : OwnsLock(q)' <=> OwnsLock(q)
    BY <2>1
  <2> QED BY <2>1, <2>2
<1>4. CASE Cancel(r)
  <2>1. held' = [held EXCEPT ![r] = FALSE] /\ locked' = (locked /\ ~held[r]) /\ ppc' = ppc
    BY <1>4 DEF Cancel, producerVars
  <2>2. ASSUME held[r] PROVE LockOwnership'
    <3>1. \A q \in Requests : ~OwnsLock(q)'
      BY <2>1, <2>2
    <3> QED BY <2>1, <2>2, <3>1
  <2>3. ASSUME ~held[r] PROVE LockOwnership'
    <3>1. \A q \in Requests : OwnsLock(q)' <=> OwnsLock(q)
      BY <2>1, <2>3
    <3> QED BY <2>1, <2>3, <3>1
  <2> QED BY <2>2, <2>3
<1>5. CASE ~AcquireLock(r) /\ ~HitAfterWait(r) /\ ~StartProducer(r) /\ ~Cancel(r)
  <2>1. held' = held /\ locked' = locked /\ ppc' = ppc
    BY <1>5 DEF Begin, HandlerStep, Lookup, LockTimeout, WriteStart, ReplayPiece, GetPiece,
                WritePiece, GetEnd, WriteStop, Store, WriteFailure, WriteFails, GetError,
                ProducerJoined, AbortTimeout, Detach, producerVars
  <2> QED BY <2>1
<1> QED BY <1>1, <1>2, <1>3, <1>4, <1>5

\* What a step of the producer does to the lock and to its native call.
ProducerMove(r) ==
  \/ /\ ppc' = [ppc EXCEPT ![r] = "done"] /\ locked' = FALSE
     /\ native' = [native EXCEPT ![r] = "none"] /\ native[r] # "running"
  \/ /\ ppc' \in {[ppc EXCEPT ![r] = "close"], [ppc EXCEPT ![r] = "next"]}
     /\ locked' = locked
     /\ native' = [native EXCEPT ![r] = "running"] /\ native[r] # "running"
  \/ /\ ppc' = [ppc EXCEPT ![r] = "slot"] /\ locked' = locked
     /\ native' = [native EXCEPT ![r] = "none"] /\ native[r] # "running"
  \/ /\ ppc' \in {[ppc EXCEPT ![r] = "drain"], [ppc EXCEPT ![r] = "drainClose"]}
     /\ locked' = locked /\ native' = native /\ ppc[r] # "slot"
  \/ ppc' = ppc /\ locked' = locked /\ native' = native

\* Every step of a producer is one of these moves.
LEMMA ProducerMoves ==
  ASSUME IInv, NEW r \in Requests, ProducerStep(r)
  PROVE  ppc[r] \in Live /\ handlerVars' = handlerVars /\ ProducerMove(r)
<1> USE DEF ProducerStep, GotIterator, GotChunk, Deliver, GotLast, NativeFailed, PutPiece,
            SlotFree, NextPiece, SlotTimeout,
            IteratorClosed, ProducerCancelled, Drain
<1>1. ppc[r] \in Live /\ handlerVars' = handlerVars
  BY DEF handlerVars, Live, Inferring
<1>2. ppc[r] = "slot" => native[r] # "running"
  BY DEF IInv, ControlInv
<1> QED
  BY <1>1, <1>2 DEF ProducerMove, IInv, TypeOK, ProducerTypes, Advance, Clean, Release,
                         Submit, Settle, Inferring

\* Producers preserve the ownership of the lock and the program counters.
LEMMA LockProducer ==
  ASSUME IInv, NEW r \in Requests, ProducerStep(r)
  PROVE  LockOwnership' /\ ControlInv'
<1> USE DEF IInv, TypeOK, HandlerTypes, ProducerTypes
<1>1. ppc[r] \in Live /\ pc' = pc /\ held' = held /\ hit' = hit
  BY ProducerMoves DEF handlerVars
<1>2. ProducerMove(r)
  BY ProducerMoves
<1>3. \/ locked' = FALSE /\ ~OwnsLock(r)' /\ \A q \in Requests \ {r} : OwnsLock(q)' <=> OwnsLock(q)
      \/ locked' = locked /\ \A q \in Requests : OwnsLock(q)' <=> OwnsLock(q)
  BY <1>1, <1>2 DEF ProducerMove, OwnsLock, Live, Inferring, IInv, ControlInv, LockOwnership
<1>4. OwnsLock(r) /\ \A q \in Requests : held'[q] /\ ppc'[q] \in Live => held[q] /\ ppc[q] \in Live
  BY <1>1, <1>2 DEF ProducerMove, OwnsLock, Live, Inferring
<1>5. LockOwnership'
  BY <1>3, <1>4 DEF LockOwnership
<1>6. ControlInv'
  <2> SUFFICES ASSUME NEW q \in Requests PROVE ControlInv!(q)'
    BY DEF ControlInv
  <2>1. ControlInv!(q)
    BY DEF ControlInv
  <2>2. /\ pc'[q] = pc[q] /\ held'[q] = held[q] /\ hit'[q] = hit[q]
        /\ ppc[q] = "none" <=> ppc'[q] = "none"
    BY <1>1, <1>2 DEF ProducerMove, Live, Inferring
  <2>3. native'[q] = "running" => ppc'[q] \in Live \ {"slot"}
    BY <1>1, <1>2, <2>1 DEF ProducerMove, Live, Inferring
  <2> HIDE DEF IInv, TypeOK
  <2> QED BY <2>1, <2>2, <2>3
<1> QED BY <1>5, <1>6

\* Handlers preserve the relation of the program counters.
LEMMA ControlHandler ==
  ASSUME IInv, NEW r \in Requests, HandlerStep(r) \/ Cancel(r) \/ Begin(r)
  PROVE  ControlInv'
<1> USE DEF IInv, TypeOK, HandlerTypes, ProducerTypes, Goto, Live, Inferring, producerVars
<1>1. \A q \in Requests \ {r} : /\ pc'[q] = pc[q] /\ held'[q] = held[q] /\ hit'[q] = hit[q]
                                /\ ppc'[q] = ppc[q] /\ native'[q] = native[q]
  BY DEF Begin, HandlerStep, Lookup, AcquireLock, LockTimeout, HitAfterWait, StartProducer,
         WriteStart, ReplayPiece, GetPiece, WritePiece, GetEnd, WriteStop, Store,
         WriteFailure, WriteFails, GetError, ProducerJoined, AbortTimeout, Detach, Cancel, TearDown
<1>2. ControlInv!(r)
  BY DEF ControlInv
<1>3. ControlInv!(r)'
  <2> USE DEF ControlInv
  <2>1. CASE Begin(r) \/ Lookup(r) \/ LockTimeout(r) \/ WriteStop(r) \/ Store(r)
    BY <1>2, <2>1 DEF Begin, Lookup, LockTimeout, WriteStop, Store, Delivery
  <2>2. CASE AcquireLock(r)
    BY <1>2, <2>2 DEF AcquireLock, ClientTypes
  <2>3. CASE HitAfterWait(r) \/ StartProducer(r)
    BY <1>2, <2>3 DEF HitAfterWait, StartProducer, Delivery
  <2>4. CASE WriteStart(r) \/ ReplayPiece(r) \/ WriteFailure(r)
    BY <1>2, <2>4 DEF WriteStart, ReplayPiece, WriteFailure
  <2>5. CASE GetPiece(r) \/ WritePiece(r) \/ GetEnd(r)
    BY <1>2, <2>5 DEF GetPiece, WritePiece, GetEnd
  <2>6. CASE ProducerJoined(r) \/ AbortTimeout(r) \/ Detach(r)
    <3>1. /\ held'[r] = held[r] /\ hit'[r] = hit[r] /\ ppc'[r] = ppc[r] /\ native'[r] = native[r]
          /\ pc[r] \in {"abort", "reap"}
      BY <2>6 DEF ProducerJoined, AbortTimeout, Detach
    <3>2. pc'[r] \in {"reap", "failed", "cancelled", "fail"}
      BY <2>6 DEF ProducerJoined, AbortTimeout, Detach
    <3> QED BY <1>2, <3>1, <3>2
  <2>7. CASE GetError(r)
    BY <1>2, <2>7 DEF GetError, TearDown
  <2>8. CASE WriteFails(r)
    <3>1. /\ held' = held /\ hit' = hit /\ ppc' = ppc /\ native' = native
          /\ pc[r] \in AtWrite
          /\ pc' \in {[pc EXCEPT ![r] = "failed"], [pc EXCEPT ![r] = "fail"],
                      [pc EXCEPT ![r] = "abort"]}
          /\ pc' = [pc EXCEPT ![r] = "abort"] => ppc[r] # "none" \/ pc[r] = "abort"
      BY <2>8 DEF WriteFails, TearDown
    <3> QED BY <1>2, <3>1 DEF AtWrite
  <2>9. CASE Cancel(r)
    <3>1. /\ held' = [held EXCEPT ![r] = FALSE] /\ hit' = hit /\ ppc' = ppc /\ native' = native
          /\ pc' \in {[pc EXCEPT ![r] = "cancelled"], [pc EXCEPT ![r] = "abort"]}
          /\ pc' = [pc EXCEPT ![r] = "abort"] => ppc[r] # "none"
      BY <2>9 DEF Cancel, TearDown
    <3> QED BY <1>2, <3>1
  <2> QED BY <2>1, <2>2, <2>3, <2>4, <2>5, <2>6, <2>7, <2>8, <2>9 DEF HandlerStep
<1> SUFFICES ASSUME NEW q \in Requests PROVE ControlInv!(q)'
  BY DEF ControlInv
<1>4. CASE q # r
  <2>1. ControlInv!(q)
    BY DEF ControlInv
  <2>2. /\ pc'[q] = pc[q] /\ held'[q] = held[q] /\ hit'[q] = hit[q]
        /\ ppc'[q] = ppc[q] /\ native'[q] = native[q]
    BY <1>1, <1>4
  <2> HIDE DEF IInv, TypeOK
  <2> QED BY <2>1, <2>2
<1> QED BY <1>3, <1>4

--------------------------------------------------------------------------------
(* The queue and its slots. *)

\* Handlers preserve the queue discipline and the accounting of the slots.
LEMMA HandlerQueue ==
  ASSUME IInv, NEW r \in Requests, HandlerStep(r) \/ Cancel(r) \/ Begin(r)
  PROVE  QueueInv' /\ SlotAccounting'
<1> USE DEF IInv, TypeOK, HandlerTypes, ProducerTypes, ChannelTypes
<1> USE DEF InWriting
<1>1. /\ queue[r] \in Seq(Nat) /\ AudioIn(queue[r]) \in Nat /\ slots[r] \in Nat /\ AudioIn(<<>>) = 0
      /\ slots[r] + AudioIn(queue[r]) + InWriting(r) = SlotCap
      /\ writing[r] # 0 <=> pc[r] = "write"
      /\ \A i \in 1 .. Len(queue[r]) :
              queue[r][i] = EndOfAudio => i = Len(queue[r]) /\ ppc[r] = "done"
  BY AudioInNat DEF SlotAccounting, QueueInv, QueuedAudio
<1>2. left' = left /\ made' = made
      /\ \/ ppc' = ppc
         \/ ppc[r] = "none" /\ ppc' = [ppc EXCEPT ![r] = "infer"]
  BY DEF Begin, HandlerStep, Lookup, AcquireLock, LockTimeout, HitAfterWait, StartProducer,
             WriteStart, ReplayPiece, GetPiece, WritePiece, GetEnd, WriteStop, Store,
             WriteFailure, WriteFails, GetError, ProducerJoined, AbortTimeout, Detach, Cancel,
             producerVars, ControlInv
<1>3. SUFFICES
        /\ \A q \in Requests \ {r} : queue'[q] = queue[q] /\ slots'[q] = slots[q]
              /\ writing'[q] = writing[q] /\ pc'[q] = pc[q]
        /\ writing'[r] # 0 <=> pc'[r] = "write"
        /\ slots'[r] + AudioIn(queue'[r]) + InWriting(r)' = SlotCap
        /\ \A i \in 1 .. Len(queue'[r]) :
                queue'[r][i] = EndOfAudio => i = Len(queue'[r]) /\ ppc'[r] = "done"
  <2>1. QueueInv'
    <3>1. \A q \in Requests : /\ ppc'[q] = "slot" => ppc[q] = "slot"
                            /\ ppc[q] = "done" => ppc'[q] = "done"
      BY <1>2
    <3> SUFFICES ASSUME NEW q \in Requests PROVE QueueInv!(q)'
      BY DEF QueueInv
    <3>2. CASE q = r
      BY <1>2, <1>3, <3>1, <3>2 DEF QueueInv
    <3>3. CASE q # r
      <4>1. QueueInv!(q)
        BY DEF QueueInv
      <4>2. /\ queue'[q] = queue[q] /\ ppc'[q] = ppc[q] /\ left'[q] = left[q] /\ made'[q] = made[q]
            /\ writing'[q] = writing[q] /\ pc'[q] = pc[q]
        BY <1>2, <1>3, <3>3
      <4> HIDE DEF IInv, TypeOK
      <4> QED BY <4>1, <4>2
    <3> QED BY <3>2, <3>3
  <2>2. SlotAccounting'
    BY <1>3 DEF SlotAccounting, QueuedAudio
  <2> QED BY <2>1, <2>2
<1>4. CASE GetPiece(r)
  <2>1. /\ queue' = [queue EXCEPT ![r] = Tail(queue[r])]
        /\ queue[r] # <<>> /\ IsAudio(Head(queue[r]))
        /\ writing' = [writing EXCEPT ![r] = Head(queue[r])] /\ slots' = slots /\ ppc' = ppc
        /\ pc' = [pc EXCEPT ![r] = "write"] /\ writing[r] = 0
    BY <1>1, <1>4 DEF GetPiece, Goto, producerVars
  <2>2. AudioIn(Tail(queue[r])) = AudioIn(queue[r]) - 1
    BY <1>1, <2>1, TakePiece
  <2>3. \A i \in 1 .. Len(Tail(queue[r])) :
             Tail(queue[r])[i] = EndOfAudio => i = Len(Tail(queue[r])) /\ ppc[r] = "done"
    BY <1>1, <2>1
  <2> QED BY <1>1, <2>1, <2>2, <2>3 DEF IsAudio, EndOfAudio
<1>5. CASE GetEnd(r)
  <2>1. /\ queue' = [queue EXCEPT ![r] = Tail(queue[r])]
        /\ queue[r] # <<>> /\ ~IsAudio(Head(queue[r]))
        /\ writing' = writing /\ slots' = slots /\ ppc' = ppc
        /\ pc' = [pc EXCEPT ![r] = "stop"] /\ pc[r] = "get"
    BY <1>5 DEF GetEnd, Goto, producerVars
  <2>2. AudioIn(queue[r]) = 0 /\ Tail(queue[r]) = <<>>
    BY <1>1, <2>1, EndAlone
  <2>3. queue'[r] = <<>> /\ writing[r] = 0 /\ AudioIn(queue'[r]) = AudioIn(queue[r])
    BY <1>1, <2>1, <2>2
  <2>4. \A i \in 1 .. Len(queue'[r]) : FALSE
    BY <2>3
  <2> HIDE DEF InWriting
  <2>5. InWriting(r)' = InWriting(r)
    BY <2>1 DEF InWriting
  <2> QED BY <1>1, <2>1, <2>3, <2>4, <2>5
<1>6. CASE WritePiece(r)
  BY <1>1, <1>6 DEF WritePiece, Goto, producerVars
<1>7. CASE ProducerJoined(r) \/ Detach(r)
  <2>1. /\ queue' = [queue EXCEPT ![r] = <<>>]
        /\ slots' = [slots EXCEPT ![r] = slots[r] + AudioIn(queue[r])]
        /\ writing' = writing /\ pc' = [pc EXCEPT ![r] = after[r]] /\ writing[r] = 0
    BY <1>1, <1>7 DEF ProducerJoined, Detach, Drained, Goto, QueuedAudio
  <2>2. after[r] # "write"
    OBVIOUS
  <2> QED BY <1>1, <2>1, <2>2
<1>8. ASSUME NEW next \in {"failed", "fail", "cancelled"}, TearDown(r, next), ppc' = ppc,
             pc[r] # "idle"
      PROVE  <1>3!1
  BY SMTT(40), <1>1, <1>8 DEF TearDown, Drained, Goto, QueuedAudio, ControlInv, channelVars
<1>9. CASE GetError(r)
  BY <1>8, <1>9 DEF GetError, producerVars
<1>10. CASE WriteFails(r) /\ pc[r] # "fail"
  BY <1>8, <1>10 DEF WriteFails, producerVars, AtWrite
<1>11. CASE Cancel(r) /\ pc[r] \notin {"abort", "reap", "fail"}
  BY <1>8, <1>11 DEF Cancel, producerVars, Waiting
<1>12. CASE \/ WriteFails(r) /\ pc[r] = "fail"
            \/ Cancel(r) /\ pc[r] \in {"abort", "reap", "fail"}
  BY <1>1, <1>12 DEF WriteFails, Cancel, channelVars, producerVars, Goto
<1>13. CASE Begin(r) \/ Lookup(r) \/ AcquireLock(r) \/ LockTimeout(r) \/ HitAfterWait(r)
  BY <1>1, <1>2, <1>13 DEF Begin, Lookup, AcquireLock, LockTimeout, HitAfterWait,
              channelVars, Goto, Delivery, producerVars
<1>14. CASE \/ WriteStart(r) \/ ReplayPiece(r) \/ WriteStop(r)
            \/ Store(r) \/ WriteFailure(r) \/ AbortTimeout(r)
  BY <1>1, <1>2, <1>14 DEF WriteStart, ReplayPiece, WriteStop, Store, WriteFailure, AbortTimeout,
              channelVars, Goto, producerVars
<1>15. CASE StartProducer(r)
  BY <1>1, <1>2, <1>15 DEF StartProducer, channelVars, Goto, Delivery, ControlInv
<1> QED
  BY <1>4, <1>5, <1>6, <1>7, <1>9, <1>10, <1>11, <1>12, <1>13, <1>14, <1>15 DEF HandlerStep

\* Producers preserve the queue discipline and the accounting of the slots.
LEMMA ProducerQueue ==
  ASSUME IInv, NEW r \in Requests, ProducerStep(r), \A q \in Requests : left'[q] \in Nat
  PROVE  QueueInv' /\ SlotAccounting'
<1> USE DEF IInv, TypeOK, HandlerTypes, ProducerTypes, ChannelTypes
<1> USE DEF InWriting
<1>1. /\ queue[r] \in Seq(Nat) /\ AudioIn(queue[r]) \in Nat /\ slots[r] \in Nat
      /\ slots[r] + AudioIn(queue[r]) + InWriting(r) = SlotCap
      /\ \A i \in 1 .. Len(queue[r]) :
              queue[r][i] = EndOfAudio => i = Len(queue[r]) /\ ppc[r] = "done"
      /\ ppc[r] # "done"
  <2>1. ppc[r] # "done"
    BY DEF ProducerStep, GotIterator, GotChunk, Deliver, GotLast, NativeFailed, PutPiece,
           SlotFree, NextPiece, SlotTimeout,
             IteratorClosed, ProducerCancelled, Drain, Inferring
  <2> QED BY <2>1, AudioInNat DEF SlotAccounting, QueueInv, QueuedAudio
<1>2. ~EndIn(queue[r])
  BY <1>1 DEF EndIn, IsAudio
<1>3. pc' = pc /\ writing' = writing
  BY DEF ProducerStep, GotIterator, GotChunk, Deliver, GotLast, NativeFailed, PutPiece, SlotFree,
         NextPiece, SlotTimeout,
             IteratorClosed, ProducerCancelled, Drain, handlerVars
<1>4. \A q \in Requests \ {r} : ppc'[q] = ppc[q] /\ left'[q] = left[q] /\ made'[q] = made[q]
  <2>1. CASE GotChunk(r)
    BY <2>1 DEF GotChunk, Deliver, Advance, Clean, Release
  <2>2. CASE PutPiece(r)
    BY SMTT(40), <2>2 DEF PutPiece, SlotFree, NextPiece, Clean, Release
  <2>3. CASE ~GotChunk(r) /\ ~PutPiece(r)
    BY SMTT(40), <2>3 DEF ProducerStep, GotIterator, GotLast, NativeFailed, SlotTimeout,
             IteratorClosed, ProducerCancelled, Drain, Clean, Release, Advance
  <2> QED BY <2>1, <2>2, <2>3
<1>5. left'[r] <= made'[r] /\ (ppc'[r] = "slot" => left'[r] > 0)
  <2>1. CASE GotChunk(r)
    <3>1. ChunkPieces[taken[r] + 1] \in Nat
      BY <2>1, ConstantsAssumption DEF GotChunk, Deliver
    <3> QED BY <2>1, <3>1 DEF GotChunk, Deliver, Advance, Clean, Release
  <2>2. CASE PutPiece(r)
    BY <2>2 DEF PutPiece, SlotFree, NextPiece, Clean, Release, QueueInv
  <2>3. CASE ~GotChunk(r) /\ ~PutPiece(r)
    <3>1. left' = left /\ made' = made /\ ppc'[r] # "slot"
      BY <2>3 DEF ProducerStep, GotIterator, GotLast, NativeFailed, SlotTimeout,
             IteratorClosed, ProducerCancelled, Drain, Clean, Release, Advance
    <3> QED BY <3>1 DEF QueueInv
  <2> QED BY <2>1, <2>2, <2>3
<1>6. \/ queue' = queue /\ slots' = slots
      \/ /\ queue' = [queue EXCEPT ![r] = Append(queue[r], EndOfAudio)] /\ slots' = slots
         /\ ppc'[r] = "done"
      \/ /\ queue' = [queue EXCEPT ![r] = Append(queue[r], made[r] - left[r] + 1)]
         /\ slots' = [slots EXCEPT ![r] = slots[r] - 1]
         /\ made[r] - left[r] + 1 \in Nat \ {EndOfAudio}
  <2>1. CASE PutPiece(r)
    <3>1. made[r] - left[r] + 1 \in Nat \ {EndOfAudio}
      BY <2>1 DEF PutPiece, SlotFree, NextPiece, QueueInv, EndOfAudio
    <3> QED BY <2>1, <3>1 DEF PutPiece, SlotFree, NextPiece, Clean, Release
  <2>2. CASE ~PutPiece(r)
    BY <2>2 DEF ProducerStep, GotIterator, GotChunk, Deliver, GotLast, NativeFailed, SlotTimeout,
             IteratorClosed, ProducerCancelled, Drain, Clean, Release, Advance
  <2> QED BY <2>1, <2>2
<1>7. /\ \A q \in Requests \ {r} : queue'[q] = queue[q] /\ slots'[q] = slots[q]
      /\ slots'[r] + AudioIn(queue'[r]) + InWriting(r)' = SlotCap
      /\ \A i \in 1 .. Len(queue'[r]) :
              queue'[r][i] = EndOfAudio => i = Len(queue'[r]) /\ ppc'[r] = "done"
  <2>1. CASE queue' = queue /\ slots' = slots
    BY <2>1, <1>1, <1>2, <1>3 DEF EndIn, IsAudio
  <2>2. CASE /\ queue' = [queue EXCEPT ![r] = Append(queue[r], EndOfAudio)] /\ slots' = slots
             /\ ppc'[r] = "done"
    <3>1. AudioIn(Append(queue[r], EndOfAudio)) = AudioIn(queue[r])
      BY <1>1, <1>2, AppendEnd
    <3>2. \A i \in 1 .. Len(queue[r]) : queue[r][i] # EndOfAudio
      BY <1>2 DEF EndIn, IsAudio
    <3> QED BY <2>2, <1>1, <1>3, <3>1, <3>2
  <2>3. CASE /\ queue' = [queue EXCEPT ![r] = Append(queue[r], made[r] - left[r] + 1)]
             /\ slots' = [slots EXCEPT ![r] = slots[r] - 1]
             /\ made[r] - left[r] + 1 \in Nat \ {EndOfAudio}
    <3> DEFINE n == made[r] - left[r] + 1
    <3>1. AudioIn(Append(queue[r], n)) = AudioIn(queue[r]) + 1 /\ ~EndIn(Append(queue[r], n))
      BY <1>1, <1>2, <2>3, AppendPiece
    <3>2. \A i \in 1 .. Len(Append(queue[r], n)) : Append(queue[r], n)[i] # EndOfAudio
      BY <3>1 DEF EndIn, IsAudio
    <3>3. queue'[r] = Append(queue[r], n) /\ slots'[r] = slots[r] - 1
          /\ \A q \in Requests \ {r} : queue'[q] = queue[q] /\ slots'[q] = slots[q]
      BY <2>3
    <3>4. InWriting(r)' = InWriting(r) /\ InWriting(r) \in Nat
      BY <1>3
    <3> HIDE DEF n, InWriting
    <3>5. slots'[r] + AudioIn(queue'[r]) + InWriting(r)' = SlotCap
      BY <1>1, <3>1, <3>3, <3>4
    <3>6. \A i \in 1 .. Len(queue'[r]) : queue'[r][i] # EndOfAudio
      BY <3>2, <3>3
    <3> QED BY <3>3, <3>5, <3>6
  <2> QED BY <1>6, <2>1, <2>2, <2>3
<1>8. QueueInv'
  <2> SUFFICES ASSUME NEW q \in Requests PROVE QueueInv!(q)'
    BY DEF QueueInv
  <2>1. CASE q = r
    BY <1>3, <1>5, <1>7, <2>1 DEF QueueInv
  <2>2. CASE q # r
    <3>1. QueueInv!(q)
      BY DEF QueueInv
    <3>2. /\ queue'[q] = queue[q] /\ ppc'[q] = ppc[q] /\ left'[q] = left[q] /\ made'[q] = made[q]
          /\ writing'[q] = writing[q] /\ pc'[q] = pc[q]
      BY <1>3, <1>4, <1>7, <2>2
    <3> HIDE DEF IInv, TypeOK
    <3> QED BY <3>1, <3>2
  <2> QED BY <2>1, <2>2
<1>9. SlotAccounting'
  BY <1>3, <1>7 DEF SlotAccounting, QueuedAudio
<1> QED BY <1>8, <1>9

--------------------------------------------------------------------------------
(* The environment, and the invariant. *)

\* The initial states satisfy the invariant.
LEMMA Start == Init => IInv
<1> SUFFICES ASSUME Init PROVE IInv
  OBVIOUS
<1>1. TypeOK
  <2>1. HandlerTypes
    BY DEF Init, HandlerTypes
  <2>2. ProducerTypes
    <3>1. 0 \in 0 .. Len(ChunkPieces)
      BY ConstantsAssumption
    <3> QED BY <3>1 DEF Init, ProducerTypes
  <2>3. ChannelTypes
    <3>1. <<>> \in Seq(Nat) /\ SlotCap \in Nat
      BY ConstantsAssumption
    <3> QED BY <3>1 DEF Init, ChannelTypes
  <2>4. ClientTypes
    <3>1. <<>> \in Seq(Events)
      OBVIOUS
    <3> QED BY <3>1 DEF Init, ClientTypes
  <2> QED BY <2>1, <2>2, <2>3, <2>4 DEF Init, TypeOK
<1>2. LockOwnership /\ ControlInv
  BY DEF Init, LockOwnership, ControlInv, OwnsLock, Live, Inferring
<1>3. QueueInv
  BY DEF Init, QueueInv
<1>4. SlotAccounting
  BY AudioInNat, ConstantsAssumption DEF Init, SlotAccounting, QueuedAudio
<1> QED BY <1>1, <1>2, <1>3, <1>4 DEF IInv

\* The executor, the client and the cache preserve the invariant.
LEMMA EnvironmentStep ==
  ASSUME IInv, NEW r \in Requests, NativeReturns(r) \/ ClientLeaves(r) \/ Evict
  PROVE  IInv'
<1> USE DEF NativeReturns, ClientLeaves, Evict, handlerVars, producerVars, channelVars, clientVars
<1>1. TypeOK'
  <2>1. HandlerTypes' /\ ChannelTypes'
    BY DEF IInv, TypeOK, HandlerTypes, ChannelTypes
  <2>2. /\ UNCHANGED <<ppc, taken, left, made, keep, iter, outcome, kill, out, pos, locked>>
        /\ native' \in {native, [native EXCEPT ![r] = "result"], [native EXCEPT ![r] = "raised"]}
        /\ open' \in {open, [open EXCEPT ![r] = FALSE]}
        /\ cache' \in {cache, 0}
    OBVIOUS
  <2>3. ProducerTypes'
    BY <2>2 DEF IInv, TypeOK, ProducerTypes
  <2>4. ClientTypes'
    BY <2>2 DEF IInv, TypeOK, ClientTypes
  <2> QED BY <2>1, <2>2, <2>3, <2>4 DEF IInv, TypeOK
<1>2. LockOwnership' /\ ControlInv'
  BY SMTT(40) DEF IInv, TypeOK, ProducerTypes, LockOwnership, ControlInv, OwnsLock
<1>3. QueueInv' /\ SlotAccounting'
  BY DEF IInv, QueueInv, SlotAccounting, QueuedAudio
<1> QED BY <1>1, <1>2, <1>3 DEF IInv

\* The invariant is inductive.
LEMMA Inductive == IInv /\ [Next]_vars => IInv'
<1> SUFFICES ASSUME IInv, [Next]_vars PROVE IInv'
  OBVIOUS
<1>1. ASSUME NEW r \in Requests, HandlerStep(r) \/ Cancel(r) \/ Begin(r)
      PROVE  IInv'
  BY <1>1, HandlerTypeOK, LockHandler, ControlHandler, HandlerQueue DEF IInv
<1>2. ASSUME NEW r \in Requests, ProducerStep(r)
      PROVE  IInv'
  <2>1. TypeOK'
    BY <1>2, ProducerTypeOK
  <2>2. \A q \in Requests : left'[q] \in Nat
    BY <2>1 DEF TypeOK, ProducerTypes
  <2> QED BY <1>2, <2>1, <2>2, LockProducer, ProducerQueue DEF IInv
<1>3. ASSUME NEW r \in Requests, NativeReturns(r) \/ ClientLeaves(r)
      PROVE  IInv'
  BY <1>3, EnvironmentStep
<1>4. CASE Evict
  <2>1. CASE Requests = {}
    BY <1>4, <2>1 DEF Evict, IInv, TypeOK, HandlerTypes, ProducerTypes, ChannelTypes, ClientTypes,
       LockOwnership, ControlInv, QueueInv, SlotAccounting, handlerVars, producerVars, channelVars,
       clientVars
  <2>2. CASE Requests # {}
    BY <1>4, <2>2, EnvironmentStep
  <2> QED BY <2>1, <2>2
<1>5. CASE UNCHANGED vars
  BY <1>5 DEF vars, handlerVars, producerVars, channelVars, clientVars, IInv, TypeOK, HandlerTypes,
     ProducerTypes, ChannelTypes, ClientTypes, LockOwnership, OwnsLock, ControlInv, QueueInv,
     SlotAccounting, QueuedAudio
<1> QED BY <1>1, <1>2, <1>3, <1>4, <1>5 DEF Next

\* The invariant holds in every reachable state.
LEMMA Invariant == Safe => []IInv
BY Start, Inductive, PTL DEF Safe

--------------------------------------------------------------------------------
(* The theorems. *)

\* Every variable keeps its range, for every instance of the constants: no
\* semaphore, counter or piece number of _produce_audio goes below zero.
THEOREM TypeCorrect == Safe => []TypeOK
BY Invariant, PTL DEF IInv

\* The inference lock is set exactly while one request owns it, through its
\* handler or through the producer that took it over, and it is freed once.
THEOREM LockOwned == Safe => []LockOwnership
BY Invariant, PTL DEF IInv

\* No native call runs without the lock, nor beside another request's.
THEOREM NativeExclusion == Safe => []NativeUnderLock
<1>1. IInv => NativeUnderLock
  <2> SUFFICES ASSUME IInv, NEW r \in Requests, native[r] = "running"
               PROVE  locked /\ \A q \in Requests \ {r} : ~OwnsLock(q) /\ native[q] # "running"
    BY DEF NativeUnderLock
  <2>1. OwnsLock(r)
    BY DEF IInv, ControlInv, OwnsLock
  <2>2. \A q \in Requests : native[q] = "running" => OwnsLock(q)
    BY DEF IInv, ControlInv, OwnsLock
  <2> QED BY <2>1, <2>2 DEF IInv, LockOwnership
<1> QED BY <1>1, Invariant, PTL

\* The engine has one user at a time, who holds its lock (_synthesize, _produce_audio).
THEOREM EngineHasOneUser == Safe => []EngineOwned
<1>1. LockOwnership /\ NativeUnderLock <=> EngineOwned
  BY DEF EngineOwned
<1> QED BY <1>1, LockOwned, NativeExclusion, PTL

\* Every output slot is accounted for: free, queued or being written.
THEOREM SlotsAccounted == Safe => []SlotAccounting
BY Invariant, PTL DEF IInv

\* put_nowait never finds the queue full, with the slots and the end marker it is
\* sized for.
THEOREM QueueFits == Safe => []QueueNeverFull
<1>1. IInv => QueueNeverFull
  <2> SUFFICES ASSUME IInv, NEW r \in Requests PROVE Len(queue[r]) <= SlotCap + 1
    BY DEF QueueNeverFull
  <2>1. queue[r] \in Seq(Nat) /\ slots[r] \in Nat /\ SlotCap \in Nat
    BY ConstantsAssumption DEF IInv, TypeOK, ChannelTypes
  <2>2. AudioIn(queue[r]) <= SlotCap
    BY <2>1, AudioInNat DEF IInv, SlotAccounting, QueuedAudio
  <2>3. Len(queue[r]) <= AudioIn(queue[r]) + 1
    BY <2>1 DEF AudioIn
  <2> QED BY <2>1, <2>2, <2>3, AudioInNat
<1> QED BY <1>1, Invariant, PTL

\* The slots, the queue behind them and the pieces in progress agree and keep their
\* bounds (_produce_audio, _synthesize).
THEOREM SlotsAreSafe == Safe => []SlotSafety
<1>1. TypeOK /\ SlotAccounting /\ QueueNeverFull <=> SlotSafety
  BY DEF SlotSafety
<1> QED BY <1>1, TypeCorrect, SlotsAccounted, QueueFits, PTL

--------------------------------------------------------------------------------
(* Steps: the lease, and no audio after an abort. *)

Owners == {r \in Requests : OwnsLock(r)}
Calls  == {r \in Requests : native[r] = "running"}

LeaseStep(r) ==
  \/ Owners = {} /\ Owners' = {r} /\ Calls' = Calls
  \/ r \in Owners /\ Calls = {} /\ Calls' = {r} /\ Owners' = Owners
  \/ r \in Calls /\ Calls' = {} /\ Owners' = Owners
  \/ r \in Owners /\ Calls = {} /\ Owners' = {} /\ Calls' = Calls
LeaseKept == Owners' = Owners /\ Calls' = Calls

\* The lock is free, or one request owns it and makes the only native call.
LEMMA OneOwner ==
  ASSUME IInv
  PROVE  /\ ~locked => Owners = {} /\ Calls = {}
         /\ \A r \in Requests : OwnsLock(r) =>
              locked /\ Owners = {r} /\ Calls = IF native[r] = "running" THEN {r} ELSE {}
<1>1. \A q \in Requests : native[q] = "running" => OwnsLock(q)
  BY DEF IInv, ControlInv, OwnsLock
<1>2. LockOwnership
  BY DEF IInv
<1> QED BY <1>1, <1>2 DEF LockOwnership, Owners, Calls

\* A handler's step is a step of the lease or keeps it.
LEMMA LeaseHandler ==
  ASSUME IInv, NEW r \in Requests, HandlerStep(r) \/ Cancel(r) \/ Begin(r)
  PROVE  LeaseStep(r) \/ LeaseKept
<1> USE DEF IInv, TypeOK, HandlerTypes, ProducerTypes, ControlInv, LeaseStep, LeaseKept,
            Owners, Calls, OwnsLock, Live, Inferring
<1>1. CASE AcquireLock(r)
  <2>1. held' = [held EXCEPT ![r] = open[r]] /\ ~locked /\ ppc' = ppc /\ native' = native
    BY <1>1 DEF AcquireLock, producerVars
  <2>2. Owners = {} /\ Calls = {}
    BY <2>1, OneOwner
  <2>3. CASE open[r]
    BY <2>1, <2>2, <2>3
  <2>4. CASE ~open[r]
    BY <2>1, <2>2, <2>4 DEF ClientTypes
  <2> QED BY <2>3, <2>4
<1>2. CASE HitAfterWait(r) \/ (Cancel(r) /\ held[r])
  <2>1. held' = [held EXCEPT ![r] = FALSE] /\ ppc' = ppc /\ native' = native /\ held[r]
    BY <1>2 DEF HitAfterWait, Cancel, producerVars
  <2>2. Owners = {r} /\ Calls = {}
    <3>1. OwnsLock(r) /\ native[r] # "running"
      BY <2>1
    <3> HIDE DEF IInv, Owners, Calls, OwnsLock
    <3> QED BY <3>1, OneOwner
  <2> QED BY <2>1, <2>2
<1>3. CASE StartProducer(r)
  <2>1. /\ held' = [held EXCEPT ![r] = FALSE] /\ ppc' = [ppc EXCEPT ![r] = "infer"]
        /\ native' = [native EXCEPT ![r] = "running"] /\ held[r]
    BY <1>3 DEF StartProducer
  <2>2. Owners = {r} /\ Calls = {}
    <3>1. OwnsLock(r) /\ native[r] # "running"
      BY <2>1
    <3> HIDE DEF IInv, Owners, Calls, OwnsLock
    <3> QED BY <3>1, OneOwner
  <2> QED BY <2>1, <2>2
<1>4. CASE Cancel(r) /\ ~held[r]
  BY <1>4 DEF Cancel, producerVars
<1>5. CASE ~AcquireLock(r) /\ ~HitAfterWait(r) /\ ~StartProducer(r) /\ ~Cancel(r)
  <2>1. held' = held /\ ppc' = ppc /\ native' = native
    BY <1>5 DEF Begin, HandlerStep, Lookup, LockTimeout, WriteStart, ReplayPiece, GetPiece,
                WritePiece, GetEnd, WriteStop, Store, WriteFailure, WriteFails, GetError,
                ProducerJoined, AbortTimeout, Detach, producerVars
  <2> HIDE DEF IInv, HandlerTypes, ProducerTypes, Live, Inferring
  <2> QED BY <2>1
<1> QED BY <1>1, <1>2, <1>3, <1>4, <1>5

\* A producer's step is a step of the lease or keeps it.
LEMMA LeaseProducer ==
  ASSUME IInv, NEW r \in Requests, ProducerStep(r)
  PROVE  LeaseStep(r) \/ LeaseKept
<1>1. held' = held /\ ppc[r] \in Live /\ ProducerMove(r)
  BY ProducerMoves DEF handlerVars
<1>2. Owners = {r} /\ (native[r] # "running" => Calls = {})
  BY <1>1, OneOwner DEF OwnsLock
<1>3. ~held[r]
  BY <1>1 DEF IInv, LockOwnership
<1>4. /\ ppc \in [Requests -> {"none", "done"} \cup Live]
      /\ native \in [Requests -> {"none", "running", "result", "raised"}]
  BY DEF IInv, TypeOK, ProducerTypes
<1> QED BY <1>1, <1>2, <1>3, <1>4
     DEF ProducerMove, LeaseStep, LeaseKept, Owners, Calls, OwnsLock, Live, Inferring

\* The pipeline implements the lease: the lock is taken when it is free, freed by
\* its owner between two native calls, and every call is made by the owner.
THEOREM Refinement == Safe => ImplementsLease
<1>1. Init => Lock!LeaseInit
  BY DEF Init, Lock!LeaseInit, OwnsLock, Live, Inferring
<1>2. IInv /\ [Next]_vars => [Lock!LeaseNext]_(Lock!leaseVars)
  <2> SUFFICES ASSUME IInv, [Next]_vars
               PROVE  LeaseKept \/ \E r \in Requests : LeaseStep(r)
    BY DEF LeaseKept, LeaseStep, Owners, Calls, Lock!LeaseNext, Lock!Lease, Lock!Call,
           Lock!Return, Lock!Vacate, Lock!leaseVars
  <2>1. ASSUME NEW r \in Requests, HandlerStep(r) \/ Cancel(r) \/ Begin(r)
        PROVE  LeaseStep(r) \/ LeaseKept
    BY <2>1, LeaseHandler
  <2>2. ASSUME NEW r \in Requests, ProducerStep(r)
        PROVE  LeaseStep(r) \/ LeaseKept
    BY <2>2, LeaseProducer
  <2>3. ASSUME NEW r \in Requests, NativeReturns(r)
        PROVE  LeaseStep(r)
    <3>1. /\ held' = held /\ ppc' = ppc /\ native[r] = "running"
          /\ native' \in {[native EXCEPT ![r] = "result"], [native EXCEPT ![r] = "raised"]}
      BY <2>3 DEF NativeReturns, handlerVars
    <3>2. Calls = {r}
      <4>1. OwnsLock(r)
        BY <3>1 DEF IInv, ControlInv, OwnsLock
      <4> QED BY <3>1, <4>1, OneOwner
    <3> QED BY <3>1, <3>2 DEF LeaseStep, Owners, Calls, OwnsLock, IInv, TypeOK, ProducerTypes
  <2>4. ASSUME NEW r \in Requests, ClientLeaves(r)
        PROVE  LeaseKept
    BY <2>4 DEF ClientLeaves, LeaseKept, Owners, Calls, OwnsLock, handlerVars, producerVars
  <2>5. CASE Evict \/ UNCHANGED vars
    BY <2>5 DEF Evict, vars, LeaseKept, Owners, Calls, OwnsLock, handlerVars, producerVars
  <2> QED BY <2>1, <2>2, <2>3, <2>4, <2>5 DEF Next
<1> QED BY <1>1, <1>2, Invariant, PTL DEF Safe, ImplementsLease, Lock!LeaseSpec

\* The audio of every queue only shrinks in a step of a handler.
LEMMA HandlerTakes ==
  ASSUME IInv, NEW r \in Requests, HandlerStep(r) \/ Cancel(r) \/ Begin(r)
  PROVE  \A q \in Requests : AudioIn(queue'[q]) <= AudioIn(queue[q])
<1>1. queue \in [Requests -> Seq(Nat)]
  BY DEF IInv, TypeOK, ChannelTypes
<1>2. \/ queue' \in {queue, [queue EXCEPT ![r] = <<>>]}
      \/ /\ queue[r] # <<>> /\ IsAudio(Head(queue[r]))
         /\ queue' = [queue EXCEPT ![r] = Tail(queue[r])]
      \/ /\ queue[r] # <<>> /\ ~IsAudio(Head(queue[r]))
         /\ queue' = [queue EXCEPT ![r] = Tail(queue[r])]
  BY DEF Begin, HandlerStep, Lookup, AcquireLock, LockTimeout, HitAfterWait, StartProducer,
         WriteStart, ReplayPiece, GetPiece, WritePiece, GetEnd, WriteStop, Store,
         WriteFailure, WriteFails, GetError, ProducerJoined, AbortTimeout, Detach, Cancel,
         TearDown, Drained, channelVars
<1>3. \A i \in 1 .. Len(queue[r]) : queue[r][i] = EndOfAudio => i = Len(queue[r])
  BY DEF IInv, QueueInv
<1>4. AudioIn(queue'[r]) <= AudioIn(queue[r])
  <2>1. AudioIn(queue[r]) \in Nat /\ AudioIn(<<>>) = 0 /\ queue[r] \in Seq(Nat)
    BY <1>1, AudioInNat
  <2>2. CASE /\ queue[r] # <<>> /\ IsAudio(Head(queue[r]))
             /\ queue' = [queue EXCEPT ![r] = Tail(queue[r])]
    <3>1. AudioIn(Tail(queue[r])) = AudioIn(queue[r]) - 1 /\ queue'[r] = Tail(queue[r])
      BY <1>1, <2>1, <2>2, TakePiece
    <3> QED BY <2>1, <3>1
  <2>3. CASE /\ queue[r] # <<>> /\ ~IsAudio(Head(queue[r]))
             /\ queue' = [queue EXCEPT ![r] = Tail(queue[r])]
    <3>1. AudioIn(queue[r]) = 0 /\ Tail(queue[r]) = <<>> /\ queue'[r] = Tail(queue[r])
      BY <1>1, <1>3, <2>1, <2>3, EndAlone
    <3>2. AudioIn(queue'[r]) = AudioIn(<<>>)
      BY <3>1
    <3> QED BY <2>1, <3>1, <3>2
  <2>4. CASE queue' \in {queue, [queue EXCEPT ![r] = <<>>]}
    <3>1. queue'[r] = queue[r] \/ queue'[r] = <<>>
      BY <1>1, <2>4
    <3>2. AudioIn(queue'[r]) = AudioIn(queue[r]) \/ AudioIn(queue'[r]) = 0
      BY <2>1, <3>1
    <3> QED BY <2>1, <3>2
  <2> QED BY <1>2, <2>2, <2>3, <2>4
<1>5. \A q \in Requests \ {r} : queue'[q] = queue[q]
  BY <1>1, <1>2
<1>6. \A q \in Requests : AudioIn(queue[q]) \in Nat
  BY <1>1, AudioInNat
<1> QED BY <1>4, <1>5, <1>6

\* The producer queues audio only for a handler that has not aborted it.
LEMMA ProducerPuts ==
  ASSUME IInv, NEW r \in Requests, ProducerStep(r)
  PROVE  \A q \in Requests : abort[q] => AudioIn(queue'[q]) <= AudioIn(queue[q])
<1>1. queue \in [Requests -> Seq(Nat)]
  BY DEF IInv, TypeOK, ChannelTypes
<1>2. ppc[r] # "done"
  BY ProducerMoves DEF Live, Inferring
<1>3. ~EndIn(queue[r])
  BY <1>2 DEF IInv, QueueInv, EndIn, IsAudio
<1>4. \/ queue' \in {queue, [queue EXCEPT ![r] = Append(queue[r], EndOfAudio)]}
      \/ ~abort[r] /\ queue' = [queue EXCEPT ![r] = Append(queue[r], made[r] - left[r] + 1)]
  BY DEF ProducerStep, GotIterator, GotChunk, Deliver, GotLast, NativeFailed, PutPiece, SlotFree,
         NextPiece, SlotTimeout,
         IteratorClosed, ProducerCancelled, Drain, Clean, Release, Advance
<1>5. AudioIn(Append(queue[r], EndOfAudio)) = AudioIn(queue[r])
  BY <1>1, <1>3, AppendEnd
<1>6. \A q \in Requests : AudioIn(queue[q]) \in Nat
  BY <1>1, AudioInNat
<1>7. \A q \in Requests \ {r} : queue'[q] = queue[q]
  BY <1>1, <1>4
<1>8. abort[r] => queue'[r] = queue[r] \/ queue'[r] = Append(queue[r], EndOfAudio)
  BY <1>1, <1>4
<1>9. abort[r] => AudioIn(queue'[r]) <= AudioIn(queue[r])
  <2>1. abort[r] => AudioIn(queue'[r]) = AudioIn(queue[r])
    BY <1>5, <1>8
  <2> QED BY <1>6, <2>1
<1> QED BY <1>6, <1>7, <1>9

\* From the moment _abort_audio_producer raises the flag, the producer may still
\* end the queue but never adds audio to it.
THEOREM AbortStopsAudio == Safe => NoAudioAfterAbort
<1>1. IInv /\ [Next]_vars
        => [\A r \in Requests : abort[r] => QueuedAudio(r)' <= QueuedAudio(r)]_vars
  <2> SUFFICES ASSUME IInv, Next, NEW q \in Requests, abort[q]
               PROVE  AudioIn(queue'[q]) <= AudioIn(queue[q])
    BY DEF QueuedAudio
  <2>1. AudioIn(queue[q]) \in Nat
    BY AudioInNat DEF IInv, TypeOK, ChannelTypes
  <2>2. ASSUME NEW r \in Requests, NativeReturns(r) \/ ClientLeaves(r) \/ Evict
        PROVE  queue' = queue
    BY <2>2 DEF NativeReturns, ClientLeaves, Evict, channelVars
  <2> QED BY <2>1, <2>2, HandlerTakes, ProducerPuts DEF Next
<1> QED BY <1>1, Invariant, PTL DEF Safe, NoAudioAfterAbort

--------------------------------------------------------------------------------
(* What the engine makes, what is delivered of it, and what is written. *)

\* The pieces of the first chunks, computed one chunk at a time.
LEMMA Pieces ==
  /\ PiecesOf[0] = 0
  /\ \A n \in 1 .. Len(ChunkPieces) : PiecesOf[n] = PiecesOf[n - 1] + ChunkPieces[n]
  /\ \A n \in 0 .. Len(ChunkPieces) : PiecesOf[n] \in Nat
  /\ Total \in Nat
<1>0. Len(ChunkPieces) \in Nat /\ \A n \in 1 .. Len(ChunkPieces) : ChunkPieces[n] \in Nat
  BY ConstantsAssumption
<1>1. \E F : IsPrefixSum(F, ChunkPieces, Len(ChunkPieces))
  BY <1>0, PrefixSum
<1>2. IsPrefixSum(PiecesOf, ChunkPieces, Len(ChunkPieces))
  BY <1>1, Zenon DEF IsPrefixSum, PiecesOf
<1>3. \A n \in 0 .. Len(ChunkPieces) :
        PiecesOf[n] = IF n = 0 THEN 0 ELSE PiecesOf[n - 1] + ChunkPieces[n]
  BY <1>2, Zenon DEF IsPrefixSum
<1> HIDE DEF PiecesOf
<1> DEFINE T == {n \in Nat : n <= Len(ChunkPieces) => PiecesOf[n] \in Nat}
<1>4. \A n \in Nat : n \in T
  <2>1. 0 \in T
    BY <1>0, <1>3
  <2>2. ASSUME NEW n \in Nat, n \in T PROVE n + 1 \in T
    BY <1>0, <1>3, <2>2
  <2> HIDE DEF T
  <2> QED BY <2>1, <2>2, SetInduction
<1>5. \A n \in 0 .. Len(ChunkPieces) : PiecesOf[n] \in Nat
  BY <1>4
<1> QED BY <1>0, <1>3, <1>5 DEF Total

\* A step of one request leaves the others alone.
SameRequest(q) ==
  /\ pc'[q] = pc[q] /\ seg'[q] = seg[q] /\ hit'[q] = hit[q] /\ after'[q] = after[q]
  /\ ppc'[q] = ppc[q] /\ taken'[q] = taken[q] /\ left'[q] = left[q] /\ made'[q] = made[q]
  /\ keep'[q] = keep[q] /\ iter'[q] = iter[q] /\ outcome'[q] = outcome[q]
  /\ queue'[q] = queue[q] /\ writing'[q] = writing[q] /\ abort'[q] = abort[q]
  /\ out'[q] = out[q] /\ pos'[q] = pos[q] /\ open'[q] = open[q]

\* The handler of one request leaves the others alone.
LEMMA HandlerAlone ==
  ASSUME IInv, NEW r \in Requests, NEW q \in Requests \ {r}, HandlerStep(r) \/ Cancel(r) \/ Begin(r)
  PROVE  SameRequest(q)
<1> USE DEF Begin, HandlerStep, Lookup, AcquireLock, LockTimeout, HitAfterWait, StartProducer,
            WriteStart, ReplayPiece, GetPiece, WritePiece, GetEnd, WriteStop, Store, WriteFailure,
            WriteFails, GetError, ProducerJoined, AbortTimeout, Detach, Cancel
<1>1. pc'[q] = pc[q] /\ seg'[q] = seg[q] /\ hit'[q] = hit[q] /\ after'[q] = after[q]
  BY DEF IInv, TypeOK, HandlerTypes, TearDown, Goto
<1>2. /\ ppc'[q] = ppc[q] /\ UNCHANGED <<taken, left, made, keep, iter, outcome>>
  BY DEF IInv, TypeOK, ProducerTypes, producerVars
<1>3. queue'[q] = queue[q] /\ writing'[q] = writing[q] /\ abort'[q] = abort[q]
  BY DEF IInv, TypeOK, ChannelTypes, TearDown, Drained, channelVars
<1>4. out'[q] = out[q] /\ pos'[q] = pos[q] /\ open'[q] = open[q]
  BY DEF IInv, TypeOK, ClientTypes, Written, clientVars
<1> QED BY <1>1, <1>2, <1>3, <1>4 DEF SameRequest

\* And so does its producer.
LEMMA ProducerAlone ==
  ASSUME IInv, NEW r \in Requests, NEW q \in Requests \ {r}, ProducerStep(r)
  PROVE  SameRequest(q)
<1>1. UNCHANGED <<handlerVars, clientVars, writing, abort>>
  BY DEF ProducerStep, GotIterator, GotChunk, GotLast, NativeFailed, PutPiece, SlotTimeout,
         IteratorClosed, ProducerCancelled, Drain
<1>2. /\ taken'[q] = taken[q] /\ left'[q] = left[q] /\ made'[q] = made[q] /\ keep'[q] = keep[q]
      /\ iter'[q] = iter[q]
  BY DEF IInv, TypeOK, ProducerTypes, ProducerStep, GotIterator, GotChunk, GotLast, NativeFailed,
         PutPiece, SlotTimeout, IteratorClosed, ProducerCancelled, Drain
<1>3. ppc'[q] = ppc[q] /\ outcome'[q] = outcome[q] /\ queue'[q] = queue[q]
  BY SMTT(40) DEF IInv, TypeOK, ProducerTypes, ChannelTypes, ProducerStep, GotIterator, GotChunk, GotLast,
         NativeFailed, PutPiece, SlotTimeout, IteratorClosed, ProducerCancelled, Drain, Deliver,
         Advance, Clean, Release
<1> QED BY <1>1, <1>2, <1>3 DEF handlerVars, clientVars, SameRequest

RequestInv(r) ==
  /\ ProductionInv(r) /\ SourceInv(r) /\ PiecesInv(r) /\ OutputInv(r)
  /\ OrderedDelivery!(r) /\ FailureClosesAudio!(r)

\* A request left alone keeps what it is owed.
LEMMA AloneKept ==
  ASSUME NEW q \in Requests, RequestInv(q), SameRequest(q)
  PROVE  RequestInv(q)'
<1>1. ProductionInv(q)' /\ SourceInv(q)'
  BY DEF RequestInv, SameRequest, ProductionInv, SourceInv
<1>4. PiecesInv(q)'
  <2>1. AudioIn(queue'[q]) = AudioIn(queue[q]) /\ (EndIn(queue'[q]) <=> EndIn(queue[q]))
    BY DEF SameRequest
  <2> QED BY <2>1, SMT DEF RequestInv, SameRequest, PiecesInv, InWriting, QueuedAudio
<1>2. OutputInv(q)' /\ OrderedDelivery!(q)'
  BY DEF RequestInv, SameRequest, OutputInv, Framed, Opening, Has
<1>3. FailureClosesAudio!(q)'
  BY ZenonT(60) DEF RequestInv, SameRequest, Has
<1> QED BY <1>1, <1>2, <1>3, <1>4 DEF RequestInv

--------------------------------------------------------------------------------
(* Steps of the producer. *)

\* What a producer's step leaves alone.
LEMMA ProducerLeaves ==
  ASSUME NEW r \in Requests, ProducerStep(r)
  PROVE  UNCHANGED <<pc, seg, hit, after, writing, abort, out, pos, open, cache>>
BY DEF ProducerStep, GotIterator, GotChunk, GotLast, NativeFailed, PutPiece, SlotTimeout,
       IteratorClosed, ProducerCancelled, Drain, handlerVars, clientVars

\* How a producer ends, or goes to close its iterator.
LEMMA CleanEnds ==
  ASSUME IInv, NEW r \in Requests, NEW how \in {"ok", "error", "cancelled"}, NEW b \in BOOLEAN,
         Clean(r, how, b)
  PROVE  /\ outcome'[r] = how
         /\ ppc'[r] = IF b THEN "close" ELSE "done"
BY DEF Clean, Release, IInv, TypeOK, ProducerTypes

\* The head of the loop asks for the next chunk unless the handler gave up.
LEMMA AdvanceGoes ==
  ASSUME IInv, NEW r \in Requests, Advance(r)
  PROVE  IF abort[r] THEN ppc'[r] = "close" ELSE ppc'[r] = "next" /\ outcome' = outcome
<1>1. CASE abort[r]
  BY <1>1, CleanEnds DEF Advance
<1>2. CASE ~abort[r]
  BY <1>2 DEF Advance, IInv, TypeOK, ProducerTypes
<1> QED BY <1>1, <1>2

\* A producer counts every chunk it takes and ends well only after the last.
LEMMA ProducerProduction ==
  ASSUME IInv, NEW r \in Requests, ProducerStep(r), ProductionInv(r)
  PROVE  ProductionInv(r)'
<1>0. /\ taken \in [Requests -> 0 .. Len(ChunkPieces)] /\ made \in [Requests -> Nat]
      /\ left \in [Requests -> Nat] /\ keep \in [Requests -> BOOLEAN]
      /\ iter \in [Requests -> BOOLEAN] /\ outcome \in [Requests -> {"ok", "error", "cancelled"}]
      /\ ppc \in [Requests -> {"none", "done"} \cup Live] /\ abort' = abort
      /\ Len(ChunkPieces) \in Nat /\ MaxItem \in Nat
  BY ProducerLeaves, ConstantsAssumption DEF IInv, TypeOK, ProducerTypes
<1>1. CASE GotChunk(r)
  <2> DEFINE n == ChunkPieces[taken[r] + 1]
  <2>1. /\ taken[r] + 1 \in 1 .. Len(ChunkPieces) /\ n \in Nat /\ ppc[r] = "next"
        /\ taken'[r] = taken[r] + 1 /\ made'[r] = made[r] + n /\ left'[r] = n
        /\ keep'[r] = (keep[r] /\ made[r] + n <= MaxItem) /\ iter' = iter
        /\ Deliver(r, n)
    BY <1>0, <1>1, ConstantsAssumption DEF GotChunk
  <2> HIDE DEF n
  <2>2. made'[r] = PiecesOf[taken'[r]]
    <3>1. PiecesOf[taken[r] + 1] = PiecesOf[taken[r]] + n
      BY <1>0, <2>1, Pieces DEF n
    <3> QED BY <2>1, <3>1 DEF ProductionInv
  <2>3. ppc'[r] \in {"slot", "next", "close"} /\ (ppc'[r] = "next" => n = 0) /\ (ppc'[r] = "close" => abort[r])
    <3>1. CASE n = 0
      BY <2>1, <3>1, AdvanceGoes DEF Deliver
    <3>2. CASE n # 0
      BY <1>0, <2>1, <3>2 DEF Deliver
    <3> QED BY <3>1, <3>2
  <2> QED BY <1>0, <2>1, <2>2, <2>3 DEF ProductionInv
<1>2. CASE PutPiece(r)
  <2>1. ppc[r] = "slot" /\ UNCHANGED <<taken, made, keep, iter>>
    BY <1>2 DEF PutPiece
  <2>2. CASE abort[r]
    <3>1. ppc'[r] = "close" /\ left' = left
      BY <1>2, <2>2, CleanEnds DEF PutPiece
    <3> QED BY <1>0, <2>1, <2>2, <3>1 DEF ProductionInv
  <2>3. CASE ~abort[r]
    <3>1. /\ left'[r] = left[r] - 1 /\ outcome' = outcome
          /\ ppc'[r] \in {"next", "slot"} /\ (ppc'[r] = "next" => left[r] = 1)
      BY <1>0, <1>2, <2>1, <2>3 DEF PutPiece
    <3> QED BY <1>0, <2>1, <3>1 DEF ProductionInv
  <2> QED BY <2>2, <2>3
<1>3. CASE GotIterator(r)
  <2>1. ppc[r] = "infer" /\ Advance(r) /\ UNCHANGED <<taken, left, made, keep>>
    BY <1>3 DEF GotIterator
  <2> QED BY <1>0, <2>1, AdvanceGoes DEF ProductionInv
<1>4. CASE GotLast(r)
  <2>1. /\ ppc[r] = "next" /\ taken[r] = Len(ChunkPieces) /\ UNCHANGED <<taken, left, made, keep, iter>>
        /\ Clean(r, IF ~abort[r] /\ made[r] = 0 THEN "error" ELSE "ok", TRUE)
    BY <1>4 DEF GotLast
  <2>2. ppc'[r] = "close" /\ (outcome'[r] = "ok" => abort[r] \/ made[r] # 0)
    BY <2>1, CleanEnds
  <2> QED BY <1>0, <2>1, <2>2 DEF ProductionInv
<1>5. CASE NativeFailed(r) \/ SlotTimeout(r)
  <2>1. /\ ppc[r] \in {"infer", "next", "slot"} /\ UNCHANGED <<taken, left, made, keep, iter>>
        /\ \E b \in {iter[r], TRUE} : (b = FALSE => ~iter[r]) /\ Clean(r, "error", b)
    BY <1>5 DEF NativeFailed, SlotTimeout, Inferring
  <2>2. outcome'[r] = "error" /\ ppc'[r] \in {"close", "done"} /\ (ppc'[r] = "done" => ~iter[r])
    BY <1>0, <2>1, CleanEnds
  <2> QED BY <1>0, <2>1, <2>2 DEF ProductionInv
<1>6. CASE IteratorClosed(r)
  <2>1. /\ ppc[r] \in {"close", "drainClose"} /\ UNCHANGED <<taken, left, made, keep>>
        /\ ppc'[r] = "done" /\ outcome'[r] = outcome[r] /\ iter'[r] = FALSE
    BY <1>0, <1>6 DEF IteratorClosed, Release
  <2> QED BY <1>0, <2>1 DEF ProductionInv
<1>7. CASE ProducerCancelled(r)
  <2>1. /\ ppc[r] \in {"infer", "next", "slot", "close"} /\ UNCHANGED <<taken, left, made, keep, iter>>
    BY <1>7 DEF ProducerCancelled, Inferring
  <2>2. \/ ppc'[r] = "drain"
        \/ ppc'[r] \in {"close", "drainClose"} /\ outcome'[r] = "cancelled"
    BY <1>0, <1>7, CleanEnds DEF ProducerCancelled
  <2> QED BY <1>0, <2>1, <2>2 DEF ProductionInv
<1>8. CASE Drain(r)
  <2>1. /\ ppc[r] = "drain" /\ UNCHANGED <<taken, left, made, keep>>
        /\ iter'[r] = (iter[r] \/ native[r] = "result")
        /\ Clean(r, "cancelled", iter[r] \/ native[r] = "result")
    BY <1>0, <1>8 DEF Drain
  <2>2. outcome'[r] = "cancelled" /\ ppc'[r] = IF iter'[r] THEN "close" ELSE "done"
    BY <1>0, <2>1, CleanEnds
  <2> QED BY <1>0, <2>1, <2>2 DEF ProductionInv
<1> QED BY <1>1, <1>2, <1>3, <1>4, <1>5, <1>6, <1>7, <1>8 DEF ProducerStep

\* What a producer's step queues: nothing, the end of audio, or the next piece.
LEMMA ProducerSends ==
  ASSUME IInv, NEW r \in Requests, ProducerStep(r), ProductionInv(r)
  PROVE  /\ ppc[r] \in Live
         /\ \/ /\ queue'[r] = queue[r] /\ ppc'[r] \in Live
               /\ made'[r] - left'[r] = made[r] - left[r]
            \/ /\ queue'[r] = Append(queue[r], EndOfAudio) /\ ppc'[r] = "done"
               /\ made'[r] - left'[r] = made[r] - left[r]
            \/ /\ queue'[r] = Append(queue[r], made[r] - left[r] + 1) /\ ppc'[r] \in Live
               /\ made'[r] - left'[r] = made[r] - left[r] + 1
               /\ made[r] - left[r] \in Nat
<1>0. /\ made \in [Requests -> Nat] /\ left \in [Requests -> Nat]
      /\ taken \in [Requests -> 0 .. Len(ChunkPieces)]
      /\ ppc \in [Requests -> {"none", "done"} \cup Live] /\ queue \in [Requests -> Seq(Nat)]
  BY DEF IInv, TypeOK, ProducerTypes, ChannelTypes
<1>1. ppc[r] \in Live
  BY ProducerMoves
<1>2. CASE GotChunk(r)
  <2>1. ChunkPieces[taken[r] + 1] \in Nat /\ left[r] = 0
    BY <1>0, <1>2, ConstantsAssumption DEF GotChunk, ProductionInv
  <2>2. queue'[r] = queue[r] /\ ppc'[r] \in Live
    BY <1>0, <1>2 DEF GotChunk, Deliver, Advance, Clean, Live, Inferring
  <2>3. /\ made'[r] = made[r] + ChunkPieces[taken[r] + 1]
        /\ left'[r] = ChunkPieces[taken[r] + 1]
    BY <1>0, <1>2 DEF GotChunk
  <2> QED BY <1>0, <1>1, <2>1, <2>2, <2>3
<1>3. CASE PutPiece(r)
  <2>1. CASE abort[r]
    BY <1>0, <1>1, <1>3, <2>1 DEF PutPiece, Clean, Live
  <2>2. CASE ~abort[r]
    <3>1. /\ queue'[r] = Append(queue[r], made[r] - left[r] + 1) /\ ppc'[r] \in Live
          /\ made' = made /\ left'[r] = left[r] - 1
      BY <1>0, <1>3, <2>2 DEF PutPiece, NextPiece, Live, Inferring
    <3>2. made[r] - left[r] \in Nat
      BY <1>0 DEF IInv, QueueInv
    <3> QED BY <1>0, <1>1, <3>1, <3>2
  <2> QED BY <2>1, <2>2
<1>4. CASE ~GotChunk(r) /\ ~PutPiece(r)
  <2>1. UNCHANGED <<made, left>>
    BY <1>4 DEF ProducerStep, GotIterator, GotLast, NativeFailed, SlotTimeout, IteratorClosed,
                ProducerCancelled, Drain
  <2>2. \/ queue'[r] = queue[r] /\ ppc'[r] \in Live
        \/ queue'[r] = Append(queue[r], EndOfAudio) /\ ppc'[r] = "done"
    BY <1>0, <1>4 DEF ProducerStep, GotIterator, GotLast, NativeFailed, SlotTimeout, IteratorClosed,
                      ProducerCancelled, Drain, Advance, Clean, Release, Live, Inferring
  <2> QED BY <1>0, <1>1, <2>1, <2>2
<1> QED BY <1>2, <1>3, <1>4

\* What a producer queues continues the audio.
LEMMA ProducerPieces ==
  ASSUME IInv, NEW r \in Requests, ProducerStep(r), ProductionInv(r), SourceInv(r), PiecesInv(r)
  PROVE  SourceInv(r)' /\ PiecesInv(r)'
<1>0. /\ queue[r] \in Seq(Nat) /\ pos[r] \in Nat /\ writing[r] \in Nat /\ made[r] \in Nat
      /\ left[r] \in Nat
  BY DEF IInv, TypeOK, ProducerTypes, ChannelTypes, ClientTypes
<1>1. UNCHANGED <<pc, seg, hit, after, writing, abort, out, pos, open, cache>>
  BY ProducerLeaves
<1>2. ppc[r] \in Live
  BY ProducerSends
<1>3. ppc[r] \notin {"none", "done"} /\ (ppc'[r] \in Live => ppc'[r] \notin {"none", "done"})
  BY <1>2 DEF Live, Inferring
<1>4. ~EndIn(queue[r]) /\ AudioIn(queue[r]) = Len(queue[r])
  <2>1. \A i \in 1 .. Len(queue[r]) : queue[r][i] # EndOfAudio
    <3> HIDE DEF EndOfAudio
    <3> QED BY <1>3 DEF IInv, QueueInv
  <2>2. ~EndIn(queue[r])
    BY <2>1 DEF EndIn, IsAudio
  <2> QED BY <1>0, <2>2 DEF AudioIn
<1>5. hit[r] = 0 /\ ~(pc[r] \in {"stop", "store", "ok"})
  <2>1. hit[r] \in Nat /\ ~(hit[r] > 0)
    BY <1>3 DEF SourceInv, IInv, TypeOK, HandlerTypes
  <2>2. hit[r] = 0
    BY <2>1
  <2> QED BY <1>3, <2>2 DEF PiecesInv
<1>6. ppc'[r] # "none"
  BY <1>3, ProducerSends
<1>7. SourceInv(r)'
  BY <1>1, <1>5, <1>6 DEF SourceInv
<1>8. ASSUME ~abort[r]
      PROVE  /\ writing[r] # 0 => writing[r] = pos[r] + 1
             /\ \A i \in 1 .. Len(queue'[r]) :
                  IsAudio(queue'[r][i]) => queue'[r][i] = pos[r] + InWriting(r) + i
             /\ made'[r] - left'[r] = pos[r] + InWriting(r) + AudioIn(queue'[r])
  <2>1. /\ writing[r] # 0 => writing[r] = pos[r] + 1
        /\ \A i \in 1 .. Len(queue[r]) :
             IsAudio(queue[r][i]) => queue[r][i] = pos[r] + InWriting(r) + i
        /\ made[r] - left[r] = pos[r] + InWriting(r) + Len(queue[r])
    BY <1>4, <1>5, <1>8 DEF PiecesInv, QueuedAudio
  <2>2. CASE queue'[r] = queue[r] /\ made'[r] - left'[r] = made[r] - left[r]
    BY <1>4, <2>1, <2>2
  <2>3. CASE queue'[r] = Append(queue[r], EndOfAudio) /\ made'[r] - left'[r] = made[r] - left[r]
    <3>1. AudioIn(queue'[r]) = Len(queue[r])
      BY <1>0, <1>4, <2>3, AppendEnd
    <3>2. \A i \in 1 .. Len(queue'[r]) : IsAudio(queue'[r][i]) =>
             i \in 1 .. Len(queue[r]) /\ queue'[r][i] = queue[r][i]
      BY <1>0, <2>3 DEF IsAudio, EndOfAudio
    <3> QED BY <2>1, <2>3, <3>1, <3>2
  <2>4. CASE /\ queue'[r] = Append(queue[r], made[r] - left[r] + 1) /\ made[r] - left[r] \in Nat
             /\ made'[r] - left'[r] = made[r] - left[r] + 1
    <3> DEFINE n == made[r] - left[r] + 1
    <3>1. n \in Nat /\ n # EndOfAudio
      BY <2>4 DEF EndOfAudio
    <3>2. AudioIn(queue'[r]) = Len(queue[r]) + 1
      BY <1>0, <1>4, <2>4, <3>1, AppendPiece
    <3>3. \A i \in 1 .. Len(queue'[r]) : \/ i \in 1 .. Len(queue[r]) /\ queue'[r][i] = queue[r][i]
                                         \/ i = Len(queue[r]) + 1 /\ queue'[r][i] = n
      BY <1>0, <2>4
    <3>4. InWriting(r) \in {0, 1} /\ Len(queue[r]) \in Nat
      BY <1>0 DEF InWriting
    <3>5. n = pos[r] + InWriting(r) + Len(queue[r]) + 1 /\ made'[r] - left'[r] = n
      BY <2>1, <2>4
    <3> HIDE DEF n
    <3>6. made'[r] - left'[r] = pos[r] + InWriting(r) + AudioIn(queue'[r])
      <4>1. AudioIn(queue'[r]) = Len(queue[r]) + 1 /\ Len(queue[r]) \in Nat /\ pos[r] \in Nat
        BY <1>0, <3>2, <3>4
      <4>2. InWriting(r) \in Int
        BY <3>4
      <4>3. pos[r] + InWriting(r) + (Len(queue[r]) + 1) = n
        BY <4>1, <4>2, <3>5
      <4>4. pos[r] + InWriting(r) + AudioIn(queue'[r]) = n
        BY <4>1, <4>3
      <4> QED BY <4>4, <3>5
    <3>7. ASSUME NEW i \in 1 .. Len(queue'[r]), IsAudio(queue'[r][i])
          PROVE  queue'[r][i] = pos[r] + InWriting(r) + i
      <4>1. CASE i \in 1 .. Len(queue[r]) /\ queue'[r][i] = queue[r][i]
        BY <2>1, <3>7, <4>1
      <4>2. CASE i = Len(queue[r]) + 1 /\ queue'[r][i] = n
        <5>1. InWriting(r) \in Int /\ pos[r] \in Nat /\ Len(queue[r]) \in Nat
          BY <1>0, <3>4
        <5>2. pos[r] + InWriting(r) + (Len(queue[r]) + 1) = n
          BY SMTT(40), <5>1, <3>5
        <5> QED BY <5>2, <4>2
      <4> QED BY <3>3, <4>1, <4>2
    <3> QED BY <2>1, <3>6, <3>7
  <2> QED BY <2>2, <2>3, <2>4, ProducerSends
<1>9. ppc'[r] = "done" => EndIn(queue'[r])
  <2>1. ppc'[r] = "done" => queue'[r] = Append(queue[r], EndOfAudio)
    BY <1>3, ProducerSends
  <2> QED BY <1>0, <1>4, <2>1, AppendEnd
<1>10. PiecesInv(r)'
  <2>1. InWriting(r)' = InWriting(r)
    BY <1>1 DEF InWriting
  <2> QED BY <1>1, <1>5, <1>8, <1>9, <2>1 DEF PiecesInv, QueuedAudio
<1> QED BY <1>7, <1>10

\* A producer's step keeps what its own request is owed.
LEMMA ProducerRequest ==
  ASSUME IInv, NEW r \in Requests, ProducerStep(r), RequestInv(r)
  PROVE  RequestInv(r)'
<1>1. UNCHANGED <<pc, seg, hit, after, writing, abort, out, pos, open, cache>>
  BY ProducerLeaves
<1>2. ProductionInv(r)' /\ SourceInv(r)' /\ PiecesInv(r)'
  BY ProducerProduction, ProducerPieces DEF RequestInv
<1>3. OutputInv(r)' /\ OrderedDelivery!(r)'
  BY <1>1 DEF RequestInv, OutputInv, Framed, Opening, Has
<1>4. FailureClosesAudio!(r)'
  BY <1>1, Zenon DEF RequestInv, Has
<1> QED BY <1>2, <1>3, <1>4 DEF RequestInv

--------------------------------------------------------------------------------
(* Steps of the handler. *)

\* What a handler's step does to the producer: it may start it or tell it to stop.
LEMMA HandlerProduction ==
  ASSUME IInv, NEW r \in Requests, HandlerStep(r) \/ Cancel(r) \/ Begin(r), ProductionInv(r)
  PROVE  ProductionInv(r)' /\ UNCHANGED <<taken, left, made, keep, outcome, seg, open>>
<1> USE DEF Begin, HandlerStep, Lookup, AcquireLock, LockTimeout, HitAfterWait, StartProducer,
            WriteStart, ReplayPiece, GetPiece, WritePiece, GetEnd, WriteStop, Store, WriteFailure,
            WriteFails, GetError, ProducerJoined, AbortTimeout, Detach, Cancel
<1>1. UNCHANGED <<taken, left, made, keep, iter, outcome, seg, open>>
  BY DEF producerVars, clientVars
<1>2. ppc'[r] = ppc[r] \/ (ppc[r] = "none" /\ ppc'[r] = "infer")
  BY DEF producerVars, IInv, TypeOK, ProducerTypes, ControlInv
<1>3. abort[r] => abort'[r]
  BY DEF channelVars, TearDown, IInv, TypeOK, ChannelTypes
<1> HIDE DEF Begin, HandlerStep, Cancel
<1> QED BY <1>1, <1>2, <1>3 DEF ProductionInv

\* A teardown raises the flag and empties the queue, if there is a producer.
LEMMA TearDownDoes ==
  ASSUME IInv, NEW r \in Requests, NEW next \in {"failed", "cancelled", "fail"}, TearDown(r, next)
  PROVE  IF ppc[r] = "none"
         THEN pc'[r] = next /\ UNCHANGED <<after, channelVars>>
         ELSE /\ pc'[r] = "abort" /\ after'[r] = next /\ abort'[r] = TRUE
              /\ queue'[r] = <<>> /\ writing'[r] = 0
BY DEF TearDown, Goto, Drained, IInv, TypeOK, HandlerTypes, ChannelTypes

\* A handler takes a cached result or a producer, never both.
LEMMA HandlerSource ==
  ASSUME IInv, CacheWhole, NEW r \in Requests, HandlerStep(r) \/ Cancel(r) \/ Begin(r), SourceInv(r)
  PROVE  SourceInv(r)'
<1>0. /\ pc \in [Requests -> {"idle"} \cup Waiting \cup Ended] /\ hit \in [Requests -> Nat]
      /\ after \in [Requests -> {"failed", "cancelled", "fail"}]
      /\ ppc \in [Requests -> {"none", "done"} \cup Live]
      /\ queue \in [Requests -> Seq(Nat)]
      /\ ControlInv!(r) /\ cache \in Nat /\ MaxItem \in Nat
  BY ConstantsAssumption DEF IInv, TypeOK, HandlerTypes, ProducerTypes, ChannelTypes, ControlInv
<1>1. CASE Begin(r) \/ LockTimeout(r) \/ AcquireLock(r) \/ Store(r) \/ WriteStop(r) \/ WriteStart(r)
           \/ ReplayPiece(r) \/ WriteFailure(r) \/ AbortTimeout(r)
  <2>1. hit' = hit /\ ppc' = ppc /\ queue' = queue /\ abort' = abort
    BY <1>1 DEF Begin, LockTimeout, AcquireLock, Store, WriteStop, WriteStart, ReplayPiece,
                WriteFailure, AbortTimeout, producerVars, channelVars
  <2>2. \/ pc[r] \in {"idle", "lock", "stop", "store", "start", "replay", "fail", "abort"}
           /\ pc'[r] \in {"lookup", "fail", "failed", "relookup", "ok", "store", "reap", "stop",
                          "get", "replay"}
           /\ (pc'[r] \in {"lookup", "lock", "relookup"} => pc[r] \in {"idle", "lock"})
           /\ (pc'[r] = "store" => hit[r] = 0)
           /\ (pc'[r] = "get" => hit[r] = 0)
           /\ (pc[r] = "fail" => pc'[r] = "failed")
           /\ (pc[r] = "abort" <=> pc'[r] = "reap")
    BY <1>0, <1>1 DEF Begin, LockTimeout, AcquireLock, Store, WriteStop, WriteStart, ReplayPiece,
                WriteFailure, AbortTimeout, Goto
  <2> QED BY <2>1, <2>2 DEF SourceInv
<1>2. CASE Lookup(r) \/ HitAfterWait(r)
  <2>1. /\ hit'[r] = cache /\ UNCHANGED <<ppc, queue, abort>> /\ pc[r] \in {"lookup", "relookup"}
        /\ pc'[r] \in {"failed", "start", "replay", "lock"} /\ (pc'[r] = "lock" => cache = 0)
    BY <1>0, <1>2 DEF Lookup, HitAfterWait, Delivery, Goto, producerVars, channelVars
  <2> QED BY <1>0, <2>1 DEF SourceInv, CacheWhole
<1>3. CASE StartProducer(r)
  <2>1. /\ hit' = hit /\ UNCHANGED <<queue, abort>> /\ pc[r] = "relookup" /\ ppc'[r] = "infer"
        /\ pc'[r] \in {"start", "get"}
    BY <1>0, <1>3 DEF StartProducer, Delivery, Goto, channelVars
  <2> QED BY <1>0, <2>1 DEF SourceInv
<1>4. CASE GetPiece(r) \/ WritePiece(r) \/ GetEnd(r)
  <2>1. /\ hit' = hit /\ UNCHANGED <<ppc, abort>> /\ pc[r] \in {"get", "write"} /\ ppc[r] # "none"
        /\ pc'[r] \in {"get", "write", "stop"}
    BY <1>0, <1>4 DEF GetPiece, WritePiece, GetEnd, Goto, producerVars
  <2> QED BY <1>0, <2>1 DEF SourceInv
<1>5. CASE GetError(r) \/ WriteFails(r)
  <2>1. /\ UNCHANGED <<hit, ppc>> /\ (pc[r] = "get" \/ pc[r] \in AtWrite)
    BY <1>0, <1>5 DEF GetError, WriteFails, producerVars
  <2>2. \/ pc[r] = "fail" /\ pc'[r] = "failed" /\ UNCHANGED <<abort, queue>>
        \/ \E next \in {"failed", "fail"} : TearDown(r, next)
    BY <1>0, <1>5 DEF GetError, WriteFails, Goto, channelVars
  <2>3. \/ pc[r] = "fail" /\ pc'[r] = "failed" /\ UNCHANGED <<abort, queue>>
        \/ ppc[r] = "none" /\ pc'[r] \in {"failed", "fail"} /\ UNCHANGED <<abort, queue>>
        \/ ppc[r] # "none" /\ pc'[r] = "abort" /\ abort'[r] = TRUE
    BY <2>2, TearDownDoes DEF channelVars
  <2> QED BY <1>0, <2>1, <2>3 DEF SourceInv, AtWrite
<1>6. CASE ProducerJoined(r) \/ Detach(r)
  <2>1. /\ UNCHANGED <<hit, ppc, abort>> /\ pc[r] \in {"abort", "reap"} /\ ppc[r] # "none"
        /\ pc'[r] \in {"failed", "cancelled", "fail"}
    BY <1>0, <1>6 DEF ProducerJoined, Detach, Goto, producerVars
  <2> QED BY <1>0, <2>1 DEF SourceInv
<1>7. CASE Cancel(r)
  <2>1. UNCHANGED <<hit, ppc>>
    BY <1>7 DEF Cancel, producerVars
  <2>2. \/ pc'[r] = "cancelled" /\ UNCHANGED <<abort, queue>>
        \/ TearDown(r, "cancelled")
    BY <1>0, <1>7 DEF Cancel, Goto, channelVars
  <2>3. \/ pc'[r] = "cancelled" /\ UNCHANGED <<abort, queue>>
        \/ ppc[r] # "none" /\ pc'[r] = "abort" /\ abort'[r] = TRUE
    BY <2>2, TearDownDoes DEF channelVars
  <2> QED BY <1>0, <2>1, <2>3 DEF SourceInv
<1> QED BY <1>1, <1>2, <1>3, <1>4, <1>5, <1>6, <1>7 DEF HandlerStep

\* A step that moves neither pieces nor the handler's place among them.
LEMMA PiecesStay ==
  ASSUME NEW r \in Requests, PiecesInv(r),
         hit'[r] = hit[r], ppc'[r] = ppc[r], queue'[r] = queue[r], writing'[r] = writing[r],
         abort'[r] = abort[r], pos'[r] = pos[r], left'[r] = left[r], made'[r] = made[r],
         keep'[r] = keep[r],
         \/ pc'[r] \notin {"start", "get", "write", "replay", "stop", "store", "ok"}
         \/ pc'[r] \in {"replay", "get"} /\ pc[r] = "start" /\ (pc'[r] = "replay" => hit[r] > 0 /\ pos[r] = 0)
         \/ pc'[r] \in {"store", "ok"} /\ pc[r] \in {"stop", "store"} /\ (pc'[r] = "store" => keep[r])
  PROVE  PiecesInv(r)'
<1>1. AudioIn(queue'[r]) = AudioIn(queue[r]) /\ (EndIn(queue'[r]) <=> EndIn(queue[r]))
      /\ InWriting(r)' = InWriting(r)
  BY DEF InWriting
<1>2. hit[r] > 0 /\ pos[r] = 0 => pos[r] < hit[r]
  OBVIOUS
<1> QED BY <1>1, <1>2 DEF PiecesInv, QueuedAudio

\* A handler takes the pieces in order, and reaches the end only with all of them.
LEMMA HandlerPieces ==
  ASSUME IInv, CacheWhole, NEW r \in Requests, HandlerStep(r) \/ Cancel(r) \/ Begin(r), RequestInv(r)
  PROVE  PiecesInv(r)'
<1>0. /\ pc \in [Requests -> {"idle"} \cup Waiting \cup Ended] /\ hit \in [Requests -> Nat]
      /\ after \in [Requests -> {"failed", "cancelled", "fail"}]
      /\ ppc \in [Requests -> {"none", "done"} \cup Live]
      /\ queue \in [Requests -> Seq(Nat)] /\ writing \in [Requests -> Nat]
      /\ abort \in [Requests -> BOOLEAN] /\ pos \in [Requests -> Nat]
      /\ made \in [Requests -> Nat] /\ left \in [Requests -> Nat]
      /\ ControlInv!(r) /\ QueueInv!(r) /\ cache \in Nat /\ Total \in Nat
  BY Pieces DEF IInv, TypeOK, HandlerTypes, ProducerTypes, ChannelTypes, ClientTypes, ControlInv, QueueInv
<1>i. SourceInv(r) /\ PiecesInv(r) /\ OutputInv(r) /\ ProductionInv(r)
  BY DEF RequestInv
<1>p. UNCHANGED <<taken, left, made, keep, outcome>>
  BY <1>i, HandlerProduction
<1>1. CASE Begin(r) \/ LockTimeout(r) \/ AcquireLock(r) \/ WriteFailure(r) \/ AbortTimeout(r)
           \/ Store(r) \/ WriteStop(r) \/ WriteStart(r)
  <2>1. UNCHANGED <<hit, ppc, queue, writing, abort, pos>>
    BY <1>1 DEF Begin, LockTimeout, AcquireLock, WriteFailure, AbortTimeout, Store, WriteStop, WriteStart,
                producerVars, channelVars, clientVars
  <2>2. pc[r] = "start" => pos[r] = 0
    BY <1>i DEF OutputInv
  <2>3. \/ pc'[r] \notin {"start", "get", "write", "replay", "stop", "store", "ok"}
        \/ pc'[r] \in {"replay", "get"} /\ pc[r] = "start" /\ (pc'[r] = "replay" => hit[r] > 0)
        \/ pc'[r] \in {"store", "ok"} /\ pc[r] \in {"stop", "store"} /\ (pc'[r] = "store" => keep[r])
    BY <1>0, <1>1 DEF Begin, LockTimeout, AcquireLock, WriteFailure, AbortTimeout, Store, WriteStop,
                      WriteStart, Goto
  <2> QED BY <1>i, <1>p, <2>1, <2>2, <2>3, PiecesStay
<1>2. CASE Lookup(r) \/ HitAfterWait(r) \/ StartProducer(r)
  <2>1. /\ UNCHANGED <<queue, writing, abort, pos>> /\ pc[r] \in {"lookup", "relookup"}
        /\ pc'[r] \in {"failed", "start", "replay", "lock", "get"}
        /\ (ppc'[r] = "none" \/ ppc'[r] = "infer")
        /\ (pc'[r] = "replay" => hit'[r] > 0)
        /\ hit[r] = 0
    BY <1>0, <1>2, <1>i DEF Lookup, HitAfterWait, StartProducer, Delivery, Goto, producerVars,
                            channelVars, clientVars, SourceInv
  <2>2. pos[r] = 0
    BY <1>i, <2>1 DEF OutputInv
  <2>3. AudioIn(queue'[r]) = AudioIn(queue[r]) /\ InWriting(r)' = InWriting(r)
    BY <2>1 DEF InWriting
  <2>4. pc'[r] = "replay" => pos'[r] < hit'[r]
    BY <2>1, <2>2
  <2> QED BY <1>i, <1>p, <2>1, <2>3, <2>4 DEF PiecesInv, QueuedAudio
<1>3. CASE ReplayPiece(r)
  <2>1. /\ UNCHANGED <<hit, ppc, queue, writing, abort>> /\ pc[r] = "replay"
        /\ pos'[r] = pos[r] + 1
        /\ IF pos[r] + 1 = hit[r] THEN pc'[r] = "stop" ELSE pc'[r] = "replay"
    BY <1>0, <1>3 DEF ReplayPiece, Goto, producerVars, channelVars
  <2>2. hit[r] = Total /\ hit[r] > 0 /\ pos[r] < hit[r] /\ hit[r] # 0 /\ pos[r] \in Nat
    BY <1>0, <1>i, <2>1 DEF PiecesInv, SourceInv
  <2>3. pc'[r] = "stop" => pos'[r] = Total /\ pos'[r] > 0
    BY <2>1, <2>2
  <2>4. pc'[r] = "replay" => pos'[r] < hit'[r]
    BY <1>0, <2>1, <2>2
  <2> QED BY <2>1, <2>2, <2>3, <2>4 DEF PiecesInv
<1>4. CASE GetPiece(r)
  <2>1. /\ UNCHANGED <<hit, ppc, abort, pos>> /\ pc[r] = "get" /\ pc'[r] = "write"
        /\ queue[r] # <<>> /\ IsAudio(Head(queue[r])) /\ queue'[r] = Tail(queue[r])
        /\ writing'[r] = Head(queue[r])
    BY <1>0, <1>4 DEF GetPiece, Goto, producerVars, clientVars
  <2>2. hit[r] = 0 /\ ~abort[r] /\ writing[r] = 0
    BY <1>0, <1>i, <2>1 DEF SourceInv
  <2>3. /\ AudioIn(queue'[r]) = AudioIn(queue[r]) - 1 /\ AudioIn(queue[r]) \in Nat
        /\ EndIn(queue'[r]) <=> EndIn(queue[r])
    BY <1>0, <2>1, TakePiece, AudioInNat
  <2>4. /\ Len(queue[r]) \in Nat /\ Len(queue'[r]) = Len(queue[r]) - 1 /\ Len(queue[r]) > 0
        /\ Head(queue[r]) = queue[r][1] /\ Head(queue[r]) \in Nat
        /\ \A i \in 1 .. Len(queue'[r]) : queue'[r][i] = queue[r][i + 1]
    BY <1>0, <2>1
  <2>5. writing'[r] = pos[r] + 1
    <3>1. writing'[r] = pos[r] + InWriting(r) + 1
      BY <1>i, <2>1, <2>2, <2>4 DEF PiecesInv
    <3> QED BY <1>0, <2>2, <3>1 DEF InWriting
  <2>6. InWriting(r) = 0 /\ InWriting(r)' = 1
    BY <2>1, <2>2 DEF InWriting, IsAudio, EndOfAudio
  <2>7. ASSUME NEW i \in 1 .. Len(queue'[r]), IsAudio(queue'[r][i])
        PROVE  queue'[r][i] = pos'[r] + InWriting(r)' + i
    <3>1. i \in Int /\ i + 1 \in 1 .. Len(queue[r]) /\ queue'[r][i] = queue[r][i + 1]
      BY <2>4
    <3>2. queue[r][i + 1] = pos[r] + InWriting(r) + (i + 1)
      BY <1>i, <2>2, <2>7, <3>1 DEF PiecesInv
    <3>3. pos[r] + InWriting(r) + (i + 1) = pos[r] + 1 + i
      BY <1>0, <2>6, <3>1
    <3> QED BY <2>1, <2>6, <3>1, <3>2, <3>3
  <2>8. made'[r] - left'[r] = pos'[r] + InWriting(r)' + AudioIn(queue'[r])
    <3>1. made[r] - left[r] = pos[r] + InWriting(r) + AudioIn(queue[r])
      BY <1>i, <2>2 DEF PiecesInv, QueuedAudio
    <3>2. pos[r] + 0 + AudioIn(queue[r]) = pos[r] + 1 + (AudioIn(queue[r]) - 1)
      BY <1>0, <2>3
    <3>3. pos'[r] = pos[r] /\ made' = made /\ left' = left
      BY <1>p, <2>1
    <3> QED BY <2>3, <2>6, <3>1, <3>2, <3>3
  <2>9. EndIn(queue[r]) \/ ppc[r] # "done"
    BY <1>i, <2>1 DEF PiecesInv
  <2> QED BY <2>1, <2>3, <2>5, <2>7, <2>8, <2>9 DEF PiecesInv, QueuedAudio
<1>5. CASE WritePiece(r)
  <2>1. /\ UNCHANGED <<hit, ppc, abort, queue>> /\ pc[r] = "write" /\ pc'[r] = "get"
        /\ writing'[r] = 0 /\ pos'[r] = pos[r] + 1
    BY <1>0, <1>5 DEF WritePiece, Goto, producerVars
  <2>2. hit[r] = 0 /\ ~abort[r] /\ writing[r] # 0
    BY <1>0, <1>i, <2>1 DEF SourceInv
  <2>3. InWriting(r) = 1 /\ InWriting(r)' = 0
    BY <2>1, <2>2 DEF InWriting
  <2>4. AudioIn(queue'[r]) = AudioIn(queue[r]) /\ AudioIn(queue[r]) \in Nat
    BY <1>0, <2>1, AudioInNat
  <2>5. ASSUME NEW i \in 1 .. Len(queue'[r]), IsAudio(queue'[r][i])
        PROVE  queue'[r][i] = pos'[r] + InWriting(r)' + i
    <3>1. queue[r][i] = pos[r] + InWriting(r) + i
      BY <1>i, <2>1, <2>2, <2>5 DEF PiecesInv
    <3> QED BY <1>0, <2>1, <2>3, <3>1
  <2>6. made'[r] - left'[r] = pos'[r] + InWriting(r)' + AudioIn(queue'[r])
    <3>1. made[r] - left[r] = pos[r] + InWriting(r) + AudioIn(queue[r])
      BY <1>i, <2>2 DEF PiecesInv, QueuedAudio
    <3>2. pos[r] + 1 + AudioIn(queue[r]) = (pos[r] + 1) + 0 + AudioIn(queue[r])
      BY <1>0, <2>4
    <3> QED BY <1>p, <2>1, <2>3, <2>4, <3>1, <3>2
  <2>7. EndIn(queue'[r]) \/ ppc'[r] # "done"
    BY <1>i, <2>1 DEF PiecesInv
  <2> QED BY <2>1, <2>5, <2>6, <2>7 DEF PiecesInv, QueuedAudio
<1>6. CASE GetEnd(r)
  <2>1. /\ UNCHANGED <<hit, ppc, abort, pos, writing>> /\ pc[r] = "get" /\ pc'[r] = "stop"
        /\ queue[r] # <<>> /\ ~IsAudio(Head(queue[r])) /\ queue'[r] = Tail(queue[r])
        /\ outcome[r] = "ok"
    BY <1>0, <1>6 DEF GetEnd, Goto, producerVars, clientVars
  <2>2. hit[r] = 0 /\ ~abort[r] /\ writing[r] = 0
    BY <1>0, <1>i, <2>1 DEF SourceInv
  <2>3. AudioIn(queue[r]) = 0 /\ queue'[r] = <<>>
    BY <1>0, <2>1, EndAlone
  <2>4. ppc[r] = "done"
    <3>1. Head(queue[r]) = queue[r][1] /\ 1 \in 1 .. Len(queue[r])
      BY <1>0, <2>1
    <3> QED BY <1>0, <2>1, <3>1 DEF IsAudio
  <2>5. made[r] = Total /\ made[r] > 0 /\ left[r] = 0
    BY <1>i, <2>1, <2>2, <2>4 DEF ProductionInv, Total
  <2>6. pos[r] = Total
    <3>1. made[r] - left[r] = pos[r] + InWriting(r) + AudioIn(queue[r])
      BY <1>i, <2>2 DEF PiecesInv, QueuedAudio
    <3>2. InWriting(r) = 0
      BY <2>2 DEF InWriting
    <3> QED BY <1>0, <2>3, <2>5, <3>1, <3>2
  <2>7. AudioIn(queue'[r]) = 0 /\ InWriting(r)' = 0 /\ Len(queue'[r]) = 0
    <3>1. AudioIn(<<>>) = 0
      BY <1>0, AudioInNat
    <3>2. AudioIn(queue'[r]) = 0 /\ Len(queue'[r]) = 0
      BY <2>3, <3>1
    <3>3. InWriting(r)' = 0
      BY <2>1, <2>2 DEF InWriting
    <3> QED BY <3>2, <3>3
  <2>8. made'[r] - left'[r] = pos'[r] + InWriting(r)' + AudioIn(queue'[r])
    BY <1>0, <1>p, <2>1, <2>5, <2>6, <2>7
  <2>9. pos'[r] = Total /\ pos'[r] > 0 /\ made'[r] = Total
    BY <1>p, <2>1, <2>5, <2>6
  <2>10. 1 .. Len(queue'[r]) = {}
    BY <2>7
  <2> QED BY <2>1, <2>2, <2>4, <2>8, <2>9, <2>10 DEF PiecesInv, QueuedAudio
<1>7. CASE ProducerJoined(r) \/ Detach(r)
  <2>1. /\ UNCHANGED <<hit, ppc, abort, pos>> /\ pc[r] \in {"abort", "reap"}
        /\ pc'[r] \in {"failed", "cancelled", "fail"}
    BY <1>0, <1>7 DEF ProducerJoined, Detach, Goto, producerVars, clientVars
  <2> QED BY <1>i, <2>1 DEF PiecesInv, SourceInv
<1>8. CASE GetError(r) \/ WriteFails(r) \/ Cancel(r)
  <2>1. UNCHANGED <<hit, ppc, pos>>
    BY <1>8 DEF GetError, WriteFails, Cancel, producerVars, clientVars
  <2>2. \/ pc'[r] \in {"failed", "cancelled"} /\ UNCHANGED <<abort, queue, writing>>
        \/ \E next \in {"failed", "fail", "cancelled"} : TearDown(r, next)
    BY <1>0, <1>8 DEF GetError, WriteFails, Cancel, Goto, channelVars
  <2>3. \/ pc'[r] \in {"failed", "cancelled", "fail"} /\ UNCHANGED <<abort, queue, writing>>
        \/ pc'[r] = "abort" /\ abort'[r] = TRUE
    BY <2>2, TearDownDoes DEF channelVars
  <2>4. CASE pc'[r] \in {"failed", "cancelled", "fail"} /\ UNCHANGED <<abort, queue, writing>>
    BY <1>i, <1>p, <2>1, <2>4, PiecesStay
  <2>5. CASE pc'[r] = "abort" /\ abort'[r] = TRUE
    BY <2>5 DEF PiecesInv
  <2> QED BY <2>3, <2>4, <2>5
<1> QED BY <1>1, <1>2, <1>3, <1>4, <1>5, <1>6, <1>7, <1>8 DEF HandlerStep

--------------------------------------------------------------------------------
(* What the handler writes. *)

\* One more event.
LEMMA Longer ==
  ASSUME NEW s \in Seq(Events), NEW e \in Events
  PROVE  /\ s \o <<e>> \in Seq(Events) /\ Len(s \o <<e>>) = Len(s) + 1
         /\ Len(s) \in Nat /\ DOMAIN s = 1 .. Len(s) /\ DOMAIN (s \o <<e>>) = 1 .. Len(s) + 1
         /\ (s \o <<e>>)[Len(s) + 1] = e
         /\ \A i \in 1 .. Len(s) : (s \o <<e>>)[i] = s[i]
<1>1. <<e>> \in Seq(Events) /\ Len(<<e>>) = 1 /\ <<e>>[1] = e
  OBVIOUS
<1> QED BY <1>1

\* What was written once stays written.
LEMMA HasLonger ==
  ASSUME IInv, NEW r \in Requests, NEW e \in Events, NEW f \in Events, out'[r] = out[r] \o <<e>>
  PROVE  Has(r, f)' <=> Has(r, f) \/ f = e
<1>1. out[r] \in Seq(Events)
  BY DEF IInv, TypeOK, ClientTypes
<1>2. /\ Len(out[r]) \in Nat /\ DOMAIN out[r] = 1 .. Len(out[r]) /\ DOMAIN out'[r] = 1 .. Len(out[r]) + 1
      /\ out'[r][Len(out[r]) + 1] = e
      /\ \A i \in 1 .. Len(out[r]) : out'[r][i] = out[r][i]
  BY <1>1, Longer
<1>3. Has(r, f) => Has(r, f)'
  BY <1>2 DEF Has
<1>4. f = e => Has(r, f)'
  BY <1>2 DEF Has
<1>5. Has(r, f)' => Has(r, f) \/ f = e
  BY <1>2 DEF Has
<1> QED BY <1>3, <1>4, <1>5

\* The next piece continues the audio.
LEMMA PieceInOrder ==
  ASSUME IInv, NEW r \in Requests, Framed(r), OrderedDelivery!(r),
         out'[r] = out[r] \o <<AudioChunk(pos[r] + 1)>>, pos'[r] = pos[r] + 1, seg'[r] = seg[r]
  PROVE  Framed(r)' /\ OrderedDelivery!(r)'
<1>0. out[r] \in Seq(Events) /\ pos[r] \in Nat /\ AudioChunk(pos[r] + 1) \in Events
  BY EventTypes DEF IInv, TypeOK, ClientTypes
<1>1. /\ Len(out'[r]) = Len(out[r]) + 1
      /\ DOMAIN out[r] = 1 .. Len(out[r]) /\ DOMAIN out'[r] = 1 .. Len(out[r]) + 1
      /\ out'[r][Len(out[r]) + 1] = AudioChunk(pos[r] + 1)
      /\ \A i \in 1 .. Len(out[r]) : out'[r][i] = out[r][i]
  BY <1>0, Longer
<1>2. Len(out[r]) = Opening(r) + pos[r] /\ Opening(r)' = Opening(r) /\ Opening(r) \in {0, 1}
      /\ (seg[r].start => Opening(r) = 1)
  BY DEF Framed, Opening
<1>3. Framed(r)'
  <2>1. seg[r].start => 1 \in 1 .. Len(out[r])
    BY <1>0, <1>2
  <2> QED BY <1>0, <1>1, <1>2, <2>1 DEF Framed
<1>4. ASSUME NEW i \in 1 .. pos'[r]
      PROVE  Opening(r)' + i \in DOMAIN out'[r] /\ out'[r][Opening(r)' + i] = AudioChunk(i)
  <2>1. CASE i \in 1 .. pos[r]
    <3>1. Opening(r) + i \in DOMAIN out[r] /\ out[r][Opening(r) + i] = AudioChunk(i)
      BY <2>1
    <3> QED BY <1>0, <1>1, <1>2, <3>1
  <2>2. CASE i = pos[r] + 1
    <3>1. Opening(r) + i = Len(out[r]) + 1
      BY <1>0, <1>2, <2>2
    <3>2. AudioChunk(i) = AudioChunk(pos[r] + 1)
      BY <2>2
    <3>3. Opening(r)' + i = Len(out[r]) + 1 /\ Len(out[r]) + 1 \in DOMAIN out'[r]
      BY <1>0, <1>1, <1>2, <3>1
    <3> QED BY <1>1, <3>2, <3>3
  <2> QED BY <1>0, <2>1, <2>2
<1>5. ASSUME NEW i \in DOMAIN out'[r], out'[r][i].type = "audio-chunk"
      PROVE  i \in Opening(r)' + 1 .. Opening(r)' + pos'[r]
  <2>1. CASE i \in DOMAIN out[r]
    <3>1. i \in Opening(r) + 1 .. Opening(r) + pos[r]
      BY <1>1, <1>5, <2>1
    <3> QED BY <1>0, <1>2, <3>1
  <2>2. CASE i = Len(out[r]) + 1
    BY <1>0, <1>2, <2>2
  <2> QED BY <1>0, <1>1, <2>1, <2>2
<1> QED BY <1>3, <1>4, <1>5

\* Anything else leaves the audio as it is.
LEMMA MarkInOrder ==
  ASSUME IInv, NEW r \in Requests, OrderedDelivery!(r), NEW e \in Events, e.type # "audio-chunk",
         out'[r] = out[r] \o <<e>>, pos'[r] = pos[r], seg'[r] = seg[r]
  PROVE  OrderedDelivery!(r)'
<1>0. out[r] \in Seq(Events) /\ pos[r] \in Nat
  BY DEF IInv, TypeOK, ClientTypes
<1>1. /\ Len(out[r]) \in Nat
      /\ DOMAIN out[r] = 1 .. Len(out[r]) /\ DOMAIN out'[r] = 1 .. Len(out[r]) + 1
      /\ out'[r][Len(out[r]) + 1] = e
      /\ \A i \in 1 .. Len(out[r]) : out'[r][i] = out[r][i]
  BY <1>0, Longer
<1>2. Opening(r)' = Opening(r)
  BY DEF Opening
<1>3. \A i \in 1 .. pos[r] :
        Opening(r) + i \in DOMAIN out'[r] /\ out'[r][Opening(r) + i] = AudioChunk(i)
  BY <1>1
<1>4. \A i \in DOMAIN out'[r] :
        out'[r][i].type = "audio-chunk" => i \in Opening(r) + 1 .. Opening(r) + pos[r]
  BY <1>1
<1> QED BY <1>2, <1>3, <1>4

\* No mark is taken for audio.
LEMMA MarkTypes ==
  /\ AudioStart.type # "audio-chunk" /\ AudioStop.type # "audio-chunk"
  /\ Silence.type # "audio-chunk" /\ Failure.type # "audio-chunk" /\ WriteLost.type # "audio-chunk"
  /\ \A n \in Nat : AudioChunk(n).type = "audio-chunk"
  /\ Failure # AudioStart /\ Failure # AudioStop /\ Failure # WriteLost
  /\ AudioStart # AudioStop /\ AudioStart # WriteLost /\ AudioStop # WriteLost
BY DEF AudioStart, AudioStop, Silence, Failure, WriteLost, AudioChunk, Event

\* A request that does not fail before its client has nothing to close.
LEMMA NothingToClose ==
  ASSUME NEW r \in Requests, pc'[r] = "failed" => ~open'[r] \/ Has(r, WriteLost)'
  PROVE  FailureClosesAudio!(r)'
BY Zenon

\* Where a handler's step leads that writes nothing.
Early == {"idle", "lookup", "lock", "relookup", "start"}
QuietMove(r) ==
  \/ pc[r] \in Early \ {"start"} /\ pc'[r] \in (Early \ {"start"}) \cup {"fail"}
  \/ pc[r] \in Early \ {"start"} /\ pc'[r] = "start" /\ seg[r].start
  \/ pc[r] \in Early \ {"start"} /\ pc'[r] = "failed" /\ ~open[r]
  \/ pc[r] \in Early \ {"start"} /\ pc'[r] \in {"replay", "get"} /\ ~seg[r].start
  \/ pc[r] = "get" /\ pc'[r] \in {"write", "stop"}
  \/ pc[r] = "get" /\ pc'[r] = "abort" /\ after'[r] = "fail"
  \/ pc[r] = "store" /\ pc'[r] = "ok"
  \/ pc[r] \in {"abort", "reap"} /\ pc'[r] \in {"reap", after[r]} /\ after'[r] = after[r]
  \/ pc'[r] = "cancelled"
  \/ pc'[r] = "abort" /\ after'[r] = "cancelled"

\* The steps that write nothing, by where they lead.
LEMMA QuietMoves ==
  ASSUME IInv, NEW r \in Requests,
         \/ Begin(r) \/ Lookup(r) \/ AcquireLock(r) \/ LockTimeout(r) \/ HitAfterWait(r)
         \/ StartProducer(r) \/ GetPiece(r) \/ GetEnd(r) \/ Store(r) \/ GetError(r)
         \/ ProducerJoined(r) \/ AbortTimeout(r) \/ Detach(r) \/ Cancel(r)
  PROVE  QuietMove(r) /\ UNCHANGED <<out, pos, open, seg>>
<1>0. /\ pc \in [Requests -> {"idle"} \cup Waiting \cup Ended] /\ ControlInv!(r)
      /\ after \in [Requests -> {"failed", "cancelled", "fail"}]
  BY DEF IInv, TypeOK, HandlerTypes, ControlInv
<1>1. UNCHANGED <<out, pos, open, seg>>
  BY DEF Begin, Lookup, AcquireLock, LockTimeout, HitAfterWait, StartProducer, GetPiece, GetEnd,
         Store, GetError, ProducerJoined, AbortTimeout, Detach, Cancel, clientVars
<1>2. CASE Begin(r) \/ Lookup(r) \/ AcquireLock(r) \/ LockTimeout(r) \/ HitAfterWait(r)
           \/ StartProducer(r)
  BY <1>0, <1>1, <1>2 DEF Begin, Lookup, AcquireLock, LockTimeout, HitAfterWait, StartProducer, Delivery,
                    Goto, QuietMove, Early
<1>3. CASE GetPiece(r) \/ GetEnd(r) \/ Store(r) \/ ProducerJoined(r) \/ AbortTimeout(r) \/ Detach(r)
  BY <1>0, <1>1, <1>3 DEF GetPiece, GetEnd, Store, ProducerJoined, AbortTimeout, Detach, Goto, QuietMove
<1>4. CASE GetError(r)
  <2>1. TearDown(r, "fail") /\ pc[r] = "get" /\ ppc[r] # "none"
    BY <1>0, <1>4 DEF GetError
  <2> QED BY <1>1, <2>1, TearDownDoes DEF QuietMove
<1>5. CASE Cancel(r)
  <2>1. pc'[r] = "cancelled" \/ TearDown(r, "cancelled")
    BY <1>0, <1>5 DEF Cancel, Goto
  <2> QED BY <1>1, <2>1, TearDownDoes DEF QuietMove
<1> QED BY <1>1, <1>2, <1>3, <1>4, <1>5

\* They leave the output as it must be there.
LEMMA QuietOutput ==
  ASSUME IInv, NEW r \in Requests, RequestInv(r), QuietMove(r), UNCHANGED <<out, pos, open, seg>>
  PROVE  OutputInv(r)' /\ OrderedDelivery!(r)' /\ FailureClosesAudio!(r)'
<1>0. OutputInv(r) /\ OrderedDelivery!(r) /\ after[r] \in {"failed", "cancelled", "fail"}
  BY DEF RequestInv, IInv, TypeOK, HandlerTypes
<1>1. /\ Framed(r)' <=> Framed(r)
      /\ \A e : Has(r, e)' <=> Has(r, e)
      /\ Opening(r)' = Opening(r)
      /\ ~seg[r].start /\ out[r] = <<>> /\ pos[r] = 0 => Framed(r)
  BY DEF Framed, Has, Opening
<1>2. OrderedDelivery!(r)'
  BY <1>0, <1>1
<1>3. OutputInv(r)'
  BY <1>0, <1>1 DEF OutputInv, QuietMove, Early
<1>4. pc'[r] = "failed" => ~open'[r] \/ Has(r, WriteLost)'
  BY <1>0, <1>1 DEF OutputInv, QuietMove, Early
<1> QED BY <1>2, <1>3, <1>4, NothingToClose

\* Every write fits what was written before it, or is a lost one.
LEMMA WriteOutput ==
  ASSUME IInv, NEW r \in Requests, RequestInv(r),
         WriteStart(r) \/ ReplayPiece(r) \/ WritePiece(r) \/ WriteStop(r) \/ WriteFails(r)
  PROVE  OutputInv(r)' /\ OrderedDelivery!(r)' /\ FailureClosesAudio!(r)'
<1>0. /\ OutputInv(r) /\ OrderedDelivery!(r) /\ PiecesInv(r) /\ SourceInv(r)
      /\ pc \in [Requests -> {"idle"} \cup Waiting \cup Ended] /\ ControlInv!(r) /\ QueueInv!(r)
      /\ out \in [Requests -> Seq(Events)] /\ pos \in [Requests -> Nat] /\ out[r] \in Seq(Events)
      /\ after \in [Requests -> {"failed", "cancelled", "fail"}]
  BY DEF RequestInv, IInv, TypeOK, HandlerTypes, ClientTypes, ControlInv, QueueInv
<1>1. CASE WriteStart(r)
  <2>1. /\ out'[r] = out[r] \o <<AudioStart>> /\ pos' = pos /\ seg' = seg /\ pc[r] = "start"
        /\ pc'[r] \in {"replay", "get"}
    BY <1>0, <1>1 DEF WriteStart, Written, Goto
  <2>2. out[r] = <<>> /\ pos[r] = 0 /\ seg[r].start
    BY <1>0, <2>1 DEF OutputInv
  <2>3. OrderedDelivery!(r)'
    BY <1>0, <2>1, EventTypes, MarkTypes, MarkInOrder
  <2>4. Len(out'[r]) = Len(out[r]) + 1 /\ out'[r][Len(out[r]) + 1] = AudioStart
    BY <1>0, <2>1, EventTypes, Longer
  <2>5. Framed(r)'
    <3>1. Len(out[r]) = 0
      BY <2>2
    <3> QED BY <2>1, <2>2, <2>4, <3>1 DEF Framed, Opening
  <2>6. OutputInv(r)'
    BY <2>1, <2>5 DEF OutputInv
  <2> QED BY <2>1, <2>3, <2>6, NothingToClose
<1>2. CASE ReplayPiece(r) \/ WritePiece(r)
  <2>1. /\ pc[r] \in {"replay", "write"} /\ pc'[r] \in {"replay", "stop", "get"}
        /\ pos'[r] = pos[r] + 1 /\ seg' = seg
        /\ out'[r] = out[r] \o <<AudioChunk(pos[r] + 1)>>
    <3>1. CASE ReplayPiece(r)
      BY <1>0, <3>1 DEF ReplayPiece, Written, Goto
    <3>2. CASE WritePiece(r)
      <4>1. pc[r] = "write" /\ writing[r] # 0 /\ hit[r] = 0 /\ ~abort[r]
        BY <1>0, <3>2 DEF WritePiece, SourceInv
      <4>2. writing[r] = pos[r] + 1
        BY <1>0, <4>1 DEF PiecesInv
      <4> QED BY <1>0, <3>2, <4>2 DEF WritePiece, Written, Goto
    <3> QED BY <1>2, <3>1, <3>2
  <2>2. Framed(r)
    BY <1>0, <2>1 DEF OutputInv
  <2>3. Framed(r)' /\ OrderedDelivery!(r)'
    BY <1>0, <2>1, <2>2, PieceInOrder
  <2>4. OutputInv(r)'
    BY <2>1, <2>3 DEF OutputInv
  <2> QED BY <2>1, <2>3, <2>4, NothingToClose
<1>3. CASE WriteStop(r)
  <2> DEFINE e == IF seg[r].stop THEN AudioStop ELSE Silence
  <2>1. /\ out'[r] = out[r] \o <<e>> /\ pos' = pos /\ seg' = seg /\ pc[r] = "stop"
        /\ pc'[r] \in {"store", "ok"}
    BY <1>0, <1>3 DEF WriteStop, Written, Goto
  <2>2. e \in Events /\ e.type # "audio-chunk"
    BY EventTypes, MarkTypes
  <2>s. e' = e
    BY <2>1
  <2> HIDE DEF e
  <2>3. OrderedDelivery!(r)'
    BY <1>0, <2>1, <2>2, MarkInOrder
  <2>4. /\ Len(out'[r]) = Len(out[r]) + 1 /\ out'[r][Len(out[r]) + 1] = e /\ Len(out[r]) \in Nat
        /\ \A i \in 1 .. Len(out[r]) : out'[r][i] = out[r][i]
    BY <1>0, <2>1, <2>2, Longer
  <2>5. Framed(r)
    BY <1>0, <2>1 DEF OutputInv
  <2>6. /\ Len(out'[r]) = Opening(r)' + pos'[r] + 1
        /\ seg'[r].start => out'[r][1] = AudioStart
    <3>1. Len(out[r]) = Opening(r) + pos[r] /\ pos[r] \in Nat
      BY <1>0, <2>5 DEF Framed
    <3>2. seg[r].start => 1 \in 1 .. Len(out[r])
      BY <3>1 DEF Opening
    <3>3. seg[r].start => out'[r][1] = AudioStart
      BY <2>4, <2>5, <3>2 DEF Framed
    <3>4. Opening(r)' = Opening(r) /\ pos'[r] = pos[r] /\ seg'[r] = seg[r]
      BY <2>1 DEF Opening
    <3> QED BY <2>4, <3>1, <3>3, <3>4
  <2>7. out'[r][Len(out'[r])] = e'
    BY <2>4, <2>s
  <2>8. OutputInv(r)'
    BY <2>1, <2>6, <2>7 DEF OutputInv, e
  <2> QED BY <2>1, <2>3, <2>8, NothingToClose
<1>4. CASE WriteFails(r)
  <2>1. /\ out'[r] = out[r] \o <<WriteLost>> /\ pos' = pos /\ seg' = seg
        /\ \/ pc'[r] = "failed"
           \/ TearDown(r, "failed") \/ TearDown(r, "fail")
    BY <1>0, <1>4 DEF WriteFails, Written, Goto
  <2>2. pc'[r] \in {"failed", "fail", "abort"}
    BY <2>1, TearDownDoes
  <2>3. OrderedDelivery!(r)'
    BY <1>0, <2>1, EventTypes, MarkTypes, MarkInOrder
  <2>4. Has(r, WriteLost)'
    BY <2>1, EventTypes, HasLonger
  <2>5. OutputInv(r)'
    BY <2>2, <2>4 DEF OutputInv
  <2> QED BY <2>3, <2>4, <2>5, NothingToClose
<1> QED BY <1>1, <1>2, <1>3, <1>4

\* What follows what was written.
LEMMA Followed ==
  ASSUME NEW s \in Seq(Events), NEW u \in Seq(Events)
  PROVE  /\ Len(s) \in Nat /\ Len(u) \in Nat /\ Len(s \o u) = Len(s) + Len(u)
         /\ DOMAIN s = 1 .. Len(s) /\ DOMAIN (s \o u) = 1 .. Len(s) + Len(u)
         /\ \A i \in 1 .. Len(s) : (s \o u)[i] = s[i]
         /\ \A i \in 1 .. Len(u) : (s \o u)[Len(s) + i] = u[i]
OBVIOUS

\* A failure and the end of the audio, or those two around the start of it.
LEMMA TwoMarks ==
  ASSUME NEW e \in Events, NEW f \in Events
  PROVE  LET s == <<e>> \o <<>> \o <<f>>
         IN s \in Seq(Events) /\ Len(s) = 2 /\ s[1] = e /\ s[2] = f
<1>1. /\ <<e>> \in Seq(Events) /\ Len(<<e>>) = 1 /\ <<e>>[1] = e
      /\ <<f>> \in Seq(Events) /\ Len(<<f>>) = 1 /\ <<f>>[1] = f
      /\ <<>> \in Seq(Events) /\ Len(<<>>) = 0
  OBVIOUS
<1> DEFINE u == <<e>> \o <<>>
<1>2. u \in Seq(Events) /\ Len(u) = 1 /\ u[1] = e
  BY <1>1
<1> HIDE DEF u
<1>3. u \o <<f>> \in Seq(Events) /\ Len(u \o <<f>>) = 2 /\ (u \o <<f>>)[1] = e /\ (u \o <<f>>)[2] = f
  <2>1. 1 \in 1 .. Len(u) /\ 1 \in 1 .. Len(<<f>>)
    BY <1>1, <1>2
  <2>2. Len(u \o <<f>>) = 2 /\ (u \o <<f>>)[1] = u[1]
    BY <1>1, <1>2, <2>1, Followed
  <2>6. <<f>> \in Seq(Events) /\ <<f>>[1] = f
    BY <1>1
  <2>7. \A i \in 1 .. Len(<<f>>) : (u \o <<f>>)[Len(u) + i] = <<f>>[i]
    BY <1>2, <2>6, Followed
  <2>3. (u \o <<f>>)[Len(u) + 1] = <<f>>[1]
    BY Zenon, <2>1, <2>7
  <2> QED BY <1>1, <1>2, <2>2, <2>3
<1> QED BY <1>3 DEF u

\* The same around a start.
LEMMA ThreeMarks ==
  ASSUME NEW e \in Events, NEW f \in Events, NEW g \in Events
  PROVE  LET s == <<e>> \o <<f>> \o <<g>>
         IN s \in Seq(Events) /\ Len(s) = 3 /\ s[1] = e /\ s[2] = f /\ s[3] = g
<1>1. /\ <<e>> \in Seq(Events) /\ Len(<<e>>) = 1 /\ <<e>>[1] = e
      /\ <<f>> \in Seq(Events) /\ Len(<<f>>) = 1 /\ <<f>>[1] = f
      /\ <<g>> \in Seq(Events) /\ Len(<<g>>) = 1 /\ <<g>>[1] = g
  OBVIOUS
<1> DEFINE u == <<e>> \o <<f>>
<1>2. u \in Seq(Events) /\ Len(u) = 2 /\ u[1] = e /\ u[2] = f
  BY <1>1
<1> HIDE DEF u
<1>3. /\ u \o <<g>> \in Seq(Events) /\ Len(u \o <<g>>) = 3
      /\ (u \o <<g>>)[1] = e /\ (u \o <<g>>)[2] = f /\ (u \o <<g>>)[3] = g
  <2>1. 1 \in 1 .. Len(u) /\ 2 \in 1 .. Len(u) /\ 1 \in 1 .. Len(<<g>>)
    BY <1>1, <1>2
  <2>2. Len(u \o <<g>>) = Len(u) + Len(<<g>>)
    BY <1>1, <1>2, Followed
  <2>4. (u \o <<g>>)[1] = u[1] /\ (u \o <<g>>)[2] = u[2]
    BY <1>1, <1>2, <2>1, Followed
  <2>3. (u \o <<g>>)[Len(u) + 1] = <<g>>[1]
    BY <1>1, <1>2, <2>1, Followed
  <2> QED BY <1>1, <1>2, <2>2, <2>3, <2>4
<1> QED BY <1>3 DEF u

\* The two marks of a failed request, behind what was written of its audio.
LEMMA FramedFailure ==
  ASSUME IInv, NEW r \in Requests, Framed(r), OrderedDelivery!(r), WriteFailure(r)
  PROVE  FailureClosesAudio!(r)'
<1>0. out \in [Requests -> Seq(Events)] /\ out[r] \in Seq(Events) /\ pos[r] \in Nat
  BY DEF IInv, TypeOK, ClientTypes
<1> DEFINE n == Len(out[r])
           t == out'[r]
<1>1. n = Opening(r) + pos[r] /\ n \in Nat /\ Opening(r) \in {0, 1} /\ DOMAIN out[r] = 1 .. n
      /\ (seg[r].start <=> Opening(r) = 1) /\ (seg[r].start => out[r][1] = AudioStart)
  BY <1>0 DEF Framed, Opening
<1>2. AudioStarted(r)
  <2>1. seg[r].start => 1 \in DOMAIN out[r] /\ out[r][1] = AudioStart
    BY <1>0, <1>1
  <2> QED BY <2>1 DEF AudioStarted, Has
<1>3. t = out[r] \o (<<Failure>> \o <<>> \o <<AudioStop>>) /\ seg' = seg
  BY <1>0, <1>2 DEF WriteFailure, Written
<1>4. /\ DOMAIN t = 1 .. n + 2 /\ Len(t) = n + 2
      /\ t[n + 1] = Failure /\ t[n + 2] = AudioStop
      /\ \A i \in 1 .. n : t[i] = out[r][i]
  <2> DEFINE u == <<Failure>> \o <<>> \o <<AudioStop>>
  <2>1. u \in Seq(Events) /\ Len(u) = 2 /\ u[1] = Failure /\ u[2] = AudioStop
    BY EventTypes, TwoMarks
  <2>2. t = out[r] \o u
    BY <1>3
  <2> HIDE DEF t, u
  <2>3. 1 \in 1 .. 2 /\ 2 \in 1 .. 2
    OBVIOUS
  <2>4. /\ DOMAIN t = 1 .. n + Len(u) /\ Len(t) = n + Len(u)
        /\ \A i \in 1 .. n : t[i] = out[r][i]
    BY <1>0, <2>1, <2>2, Followed
  <2>6. \A i \in 1 .. Len(u) : t[Len(out[r]) + i] = u[i]
    BY Zenon, <1>0, <2>1, <2>2, Followed
  <2>5. \A i \in 1 .. 2 : t[n + i] = u[i]
    BY Zenon, <1>0, <2>1, <2>6
  <2> QED BY <2>1, <2>3, <2>4, <2>5
<1> HIDE DEF n, t
<1>5. ASSUME NEW i \in 1 .. n
      PROVE  /\ t[i] # Failure /\ t[i] # AudioStop
             /\ t[i] = AudioStart <=> i = 1 /\ seg[r].start
  <2>1. CASE i = 1 /\ seg[r].start
    BY <1>1, <1>4, <2>1, MarkTypes
  <2>2. CASE ~(i = 1 /\ seg[r].start)
    <3>1. i - Opening(r) \in 1 .. pos[r] /\ Opening(r) + (i - Opening(r)) = i
      BY <1>0, <1>1, <2>2
    <3>2. out[r][i] = AudioChunk(i - Opening(r))
      BY <3>1
    <3>3. t[i].type = "audio-chunk"
      BY <1>0, <1>4, <3>1, <3>2, MarkTypes
    <3> QED BY <2>2, <3>3, MarkTypes
  <2> QED BY <2>1, <2>2
<1>6. \A i \in DOMAIN t : i \in 1 .. n \/ i = n + 1 \/ i = n + 2
  BY <1>1, <1>4
<1>7. n + 1 \in DOMAIN t /\ n + 2 \in DOMAIN t /\ n + 1 # n + 2 /\ (seg[r].start => 1 \in 1 .. n /\ 1 \in DOMAIN t)
      /\ ~(n + 1 \in 1 .. n) /\ ~(n + 2 \in 1 .. n)
  BY <1>0, <1>1, <1>4
<1>8. {i \in DOMAIN t : t[i] = Failure} = {n + 1}
  BY <1>4, <1>5, <1>6, <1>7, MarkTypes
<1>9. {i \in DOMAIN t : t[i] = AudioStop} = {n + 2}
  BY <1>4, <1>5, <1>6, <1>7, MarkTypes
<1>10. {i \in DOMAIN t : t[i] = AudioStart} = IF seg[r].start THEN {1} ELSE {}
  <2>1. t[n + 1] # AudioStart /\ t[n + 2] # AudioStart
    BY <1>4, MarkTypes
  <2> QED BY <1>5, <1>6, <1>7, <2>1
<1>11. Cardinality({n + 1}) = 1 /\ Cardinality({n + 2}) = 1 /\ Cardinality({1}) = 1
       /\ Cardinality({}) = 0
  BY FS_Singleton, FS_EmptySet
<1>12. /\ Cardinality({i \in DOMAIN t : t[i] = Failure}) = 1
       /\ Cardinality({i \in DOMAIN t : t[i] = AudioStop}) = 1
       /\ Cardinality({i \in DOMAIN t : t[i] = AudioStart}) = IF seg[r].start THEN 1 ELSE 0
  BY <1>8, <1>9, <1>10, <1>11
<1>13. t[Len(t)] = AudioStop
  BY <1>4
<1> QED BY <1>3, <1>12, <1>13 DEF t

\* Nothing was written: the failure brings its own start.
LEMMA LoneFailure ==
  ASSUME IInv, NEW r \in Requests, out[r] = <<>>, seg[r].start, WriteFailure(r)
  PROVE  FailureClosesAudio!(r)'
<1>0. out \in [Requests -> Seq(Events)]
  BY DEF IInv, TypeOK, ClientTypes
<1> DEFINE t == out'[r]
<1>1. ~AudioStarted(r)
  BY DEF AudioStarted, Has
<1>2. t = <<>> \o (<<Failure>> \o <<AudioStart>> \o <<AudioStop>>) /\ seg' = seg
  BY <1>0, <1>1 DEF WriteFailure, Written
<1>4. DOMAIN t = {1, 2, 3} /\ Len(t) = 3 /\ t[1] = Failure /\ t[2] = AudioStart /\ t[3] = AudioStop
  <2> DEFINE u == <<Failure>> \o <<AudioStart>> \o <<AudioStop>>
  <2>1. u \in Seq(Events) /\ Len(u) = 3 /\ u[1] = Failure /\ u[2] = AudioStart /\ u[3] = AudioStop
    BY EventTypes, ThreeMarks
  <2>2. t = <<>> \o u /\ <<>> \in Seq(Events) /\ Len(<<>>) = 0
    BY <1>2
  <2> HIDE DEF t, u
  <2>3. 1 \in 1 .. 3 /\ 2 \in 1 .. 3 /\ 3 \in 1 .. 3 /\ 1 .. 3 = {1, 2, 3}
    OBVIOUS
  <2>4. Len(t) = 3 /\ DOMAIN t = 1 .. 3
    BY <2>1, <2>2, Followed
  <2>5. \A i \in 1 .. 3 : t[i] = u[i]
    BY <2>1, <2>2, Followed
  <2> QED BY <2>1, <2>3, <2>4, <2>5
<1> HIDE DEF t
<1>5. /\ {i \in DOMAIN t : t[i] = Failure} = {1} /\ {i \in DOMAIN t : t[i] = AudioStart} = {2}
      /\ {i \in DOMAIN t : t[i] = AudioStop} = {3}
  BY <1>4, MarkTypes
<1>6. Cardinality({1}) = 1 /\ Cardinality({2}) = 1 /\ Cardinality({3}) = 1
  BY FS_Singleton
<1>7. /\ Cardinality({i \in DOMAIN t : t[i] = Failure}) = 1
      /\ Cardinality({i \in DOMAIN t : t[i] = AudioStop}) = 1
      /\ Cardinality({i \in DOMAIN t : t[i] = AudioStart}) = 1
  BY <1>5, <1>6
<1>8. t[Len(t)] = AudioStop
  BY <1>4
<1> QED BY <1>2, <1>7, <1>8 DEF t

\* The report of a failure closes whatever audio was begun.
LEMMA FailureOutput ==
  ASSUME IInv, NEW r \in Requests, RequestInv(r), WriteFailure(r)
  PROVE  OutputInv(r)' /\ OrderedDelivery!(r)' /\ FailureClosesAudio!(r)'
<1>0. /\ OutputInv(r) /\ OrderedDelivery!(r) /\ pc[r] = "fail" /\ pc'[r] = "failed"
      /\ out \in [Requests -> Seq(Events)] /\ out[r] \in Seq(Events) /\ pos[r] \in Nat
      /\ seg' = seg /\ pos' = pos
  BY DEF RequestInv, IInv, TypeOK, HandlerTypes, ClientTypes, WriteFailure, Goto
<1>1. OutputInv(r)'
  BY <1>0 DEF OutputInv
<1>2. PICK u : /\ out'[r] = out[r] \o u /\ u \in Seq(Events)
               /\ \A i \in 1 .. Len(u) : u[i] \in {Failure, AudioStart, AudioStop}
  <2>1. CASE AudioStarted(r)
    <3> DEFINE u == <<Failure>> \o <<>> \o <<AudioStop>>
    <3>1. u \in Seq(Events) /\ Len(u) = 2 /\ u[1] = Failure /\ u[2] = AudioStop
      BY EventTypes, TwoMarks
    <3>2. out'[r] = out[r] \o u
      BY <1>0, <2>1 DEF WriteFailure, Written
    <3> HIDE DEF u
    <3>3. 1 .. 2 = {1, 2}
      OBVIOUS
    <3> QED BY <3>1, <3>2, <3>3
  <2>2. CASE ~AudioStarted(r)
    <3> DEFINE u == <<Failure>> \o <<AudioStart>> \o <<AudioStop>>
    <3>1. u \in Seq(Events) /\ Len(u) = 3 /\ u[1] = Failure /\ u[2] = AudioStart /\ u[3] = AudioStop
      BY EventTypes, ThreeMarks
    <3>2. out'[r] = out[r] \o u
      BY <1>0, <2>2 DEF WriteFailure, Written
    <3> HIDE DEF u
    <3>3. 1 .. 3 = {1, 2, 3}
      OBVIOUS
    <3> QED BY <3>1, <3>2, <3>3
  <2> QED BY <2>1, <2>2
<1>3. /\ Len(out[r]) \in Nat /\ DOMAIN out[r] = 1 .. Len(out[r])
      /\ DOMAIN out[r] \subseteq DOMAIN out'[r]
      /\ \A i \in DOMAIN out[r] : out'[r][i] = out[r][i]
      /\ \A i \in DOMAIN out'[r] \ DOMAIN out[r] : out'[r][i] \in {Failure, AudioStart, AudioStop}
  <2>1. /\ Len(out[r]) \in Nat /\ Len(u) \in Nat
        /\ DOMAIN out[r] = 1 .. Len(out[r]) /\ DOMAIN out'[r] = 1 .. Len(out[r]) + Len(u)
        /\ \A i \in 1 .. Len(out[r]) : out'[r][i] = out[r][i]
        /\ \A i \in 1 .. Len(u) : out'[r][Len(out[r]) + i] = u[i]
    BY <1>0, <1>2, Followed
  <2>2. ASSUME NEW i \in DOMAIN out'[r] \ DOMAIN out[r]
        PROVE  out'[r][i] \in {Failure, AudioStart, AudioStop}
    <3>1. i - Len(out[r]) \in 1 .. Len(u) /\ Len(out[r]) + (i - Len(out[r])) = i
      BY <2>1
    <3>2. out'[r][i] = u[i - Len(out[r])]
      BY <2>1, <3>1
    <3> QED BY <1>2, <3>1, <3>2
  <2>3. DOMAIN out[r] \subseteq DOMAIN out'[r]
    BY <2>1
  <2> QED BY <2>1, <2>2, <2>3
<1>4. OrderedDelivery!(r)'
  <2>1. Opening(r)' = Opening(r)
    BY <1>0 DEF Opening
  <2>2. \A i \in 1 .. pos[r] :
          Opening(r) + i \in DOMAIN out'[r] /\ out'[r][Opening(r) + i] = AudioChunk(i)
    BY <1>0, <1>3
  <2>3. ASSUME NEW i \in DOMAIN out'[r], out'[r][i].type = "audio-chunk"
        PROVE  i \in Opening(r) + 1 .. Opening(r) + pos[r]
    <3>1. i \in DOMAIN out[r]
      BY <1>3, <2>3, MarkTypes
    <3> QED BY <1>0, <1>3, <2>3, <3>1
  <2> QED BY <1>0, <2>1, <2>2, <2>3
<1>5. CASE Has(r, WriteLost)
  <2>1. Has(r, WriteLost)'
    BY <1>3, <1>5 DEF Has
  <2> QED BY <1>1, <1>4, <2>1, NothingToClose
<1>6. CASE Framed(r)
  BY <1>0, <1>1, <1>4, <1>6, FramedFailure
<1>7. CASE out[r] = <<>> /\ pos[r] = 0 /\ ~Framed(r)
  <2>1. seg[r].start
    BY <1>7 DEF Framed, Opening
  <2> QED BY <1>1, <1>4, <1>7, <2>1, LoneFailure
<1> QED BY <1>0, <1>5, <1>6, <1>7 DEF OutputInv

--------------------------------------------------------------------------------
(* The invariant of the audio, and what follows from it. *)

\* A handler's step keeps what its own request is owed.
LEMMA HandlerRequest ==
  ASSUME IInv, CacheWhole, NEW r \in Requests, HandlerStep(r) \/ Cancel(r) \/ Begin(r), RequestInv(r)
  PROVE  RequestInv(r)'
<1>1. ProductionInv(r)'
  BY HandlerProduction DEF RequestInv
<1>2. SourceInv(r)'
  BY HandlerSource DEF RequestInv
<1>3. PiecesInv(r)'
  BY HandlerPieces
<1>4. OutputInv(r)' /\ OrderedDelivery!(r)' /\ FailureClosesAudio!(r)'
  <2>1. CASE \/ Begin(r) \/ Lookup(r) \/ AcquireLock(r) \/ LockTimeout(r) \/ HitAfterWait(r)
             \/ StartProducer(r) \/ GetPiece(r) \/ GetEnd(r) \/ Store(r) \/ GetError(r)
             \/ ProducerJoined(r) \/ AbortTimeout(r) \/ Detach(r) \/ Cancel(r)
    BY <2>1, QuietMoves, QuietOutput
  <2>2. CASE WriteStart(r) \/ ReplayPiece(r) \/ WritePiece(r) \/ WriteStop(r) \/ WriteFails(r)
    BY <2>2, WriteOutput
  <2>3. CASE WriteFailure(r)
    BY <2>3, FailureOutput
  <2> QED BY <2>1, <2>2, <2>3 DEF HandlerStep
<1> QED BY <1>1, <1>2, <1>3, <1>4 DEF RequestInv

\* Only whole results that fit an entry are put into the cache.
LEMMA HandlerCache ==
  ASSUME IInv, CacheWhole, NEW r \in Requests, HandlerStep(r) \/ Cancel(r) \/ Begin(r), RequestInv(r)
  PROVE  CacheWhole'
<1>1. cache' = cache \/ (pc[r] = "store" /\ cache' = made[r])
  BY DEF Begin, HandlerStep, Lookup, AcquireLock, LockTimeout, HitAfterWait, StartProducer,
         WriteStart, ReplayPiece, GetPiece, WritePiece, GetEnd, WriteStop, Store, WriteFailure,
         WriteFails, GetError, ProducerJoined, AbortTimeout, Detach, Cancel
<1>2. CASE pc[r] = "store" /\ cache' = made[r]
  <2>1. hit[r] = 0 /\ made[r] = Total /\ made[r] <= MaxItem
    BY <1>2 DEF RequestInv, SourceInv, PiecesInv, ProductionInv
  <2> QED BY <1>2, <2>1 DEF CacheWhole
<1> QED BY <1>1, <1>2 DEF CacheWhole

\* A native call's end, a client that leaves and an eviction touch no audio.
LEMMA EnvironmentRequest ==
  ASSUME IInv, NEW r \in Requests, RequestInv(r),
         UNCHANGED <<pc, seg, hit, after, ppc, taken, left, made, keep, iter, outcome>>,
         UNCHANGED <<channelVars, out, pos>>, open'[r] => open[r]
  PROVE  RequestInv(r)'
<1>1. ProductionInv(r)' /\ SourceInv(r)' /\ PiecesInv(r)'
  BY DEF RequestInv, ProductionInv, SourceInv, PiecesInv, InWriting, QueuedAudio, channelVars
<1>2. OutputInv(r)' /\ OrderedDelivery!(r)'
  BY DEF RequestInv, OutputInv, Framed, Opening, Has
<1>3. FailureClosesAudio!(r)'
  BY Zenon DEF RequestInv, Has
<1> QED BY <1>1, <1>2, <1>3 DEF RequestInv

\* The invariant, request by request.
LEMMA DataParts == DataInv <=> IInv /\ CacheWhole /\ \A r \in Requests : RequestInv(r)
<1>1. OrderedDelivery <=> \A r \in Requests : OrderedDelivery!(r)
  BY DEF OrderedDelivery
<1>2. FailureClosesAudio <=> \A r \in Requests : FailureClosesAudio!(r)
  BY Zenon DEF FailureClosesAudio
<1> QED BY <1>1, <1>2, Zenon DEF DataInv, RequestInv

\* It holds at the start.
LEMMA DataStart == Init => DataInv
<1> SUFFICES ASSUME Init PROVE DataInv
  OBVIOUS
<1>1. IInv
  BY Start
<1>2. CacheWhole
  BY ConstantsAssumption DEF Init, CacheWhole
<1>3. ASSUME NEW r \in Requests
      PROVE  RequestInv(r)
  <2>1. /\ pc[r] = "idle" /\ hit[r] = 0 /\ ppc[r] = "none" /\ taken[r] = 0 /\ left[r] = 0
        /\ made[r] = 0 /\ iter[r] = FALSE /\ queue[r] = <<>> /\ writing[r] = 0 /\ abort[r] = FALSE
        /\ out[r] = <<>> /\ pos[r] = 0
    BY DEF Init
  <2>2. ProductionInv(r)
    BY <2>1, Pieces, ConstantsAssumption DEF ProductionInv
  <2>3. SourceInv(r)
    BY <2>1, ConstantsAssumption DEF SourceInv
  <2>4. AudioIn(queue[r]) = 0
    BY <2>1 DEF AudioIn, EndIn
  <2>5. PiecesInv(r)
    BY <2>1, <2>4 DEF PiecesInv, InWriting, QueuedAudio
  <2>6. OutputInv(r)
    BY <2>1 DEF OutputInv
  <2>7. OrderedDelivery!(r)
    BY <2>1
  <2>8. FailureClosesAudio!(r)
    BY <2>1
  <2> QED BY <2>2, <2>3, <2>5, <2>6, <2>7, <2>8 DEF RequestInv
<1> QED BY <1>1, <1>2, <1>3, DataParts

\* It is inductive.
LEMMA DataInductive == DataInv /\ [Next]_vars => DataInv'
<1> SUFFICES ASSUME DataInv, [Next]_vars PROVE DataInv'
  OBVIOUS
<1>0. IInv /\ CacheWhole /\ (\A r \in Requests : RequestInv(r)) /\ IInv'
  BY DataParts, Inductive
<1>1. ASSUME NEW r \in Requests, HandlerStep(r) \/ Cancel(r) \/ Begin(r)
      PROVE  CacheWhole' /\ \A q \in Requests : RequestInv(q)'
  <2>1. CacheWhole' /\ RequestInv(r)'
    BY <1>0, <1>1, HandlerRequest, HandlerCache
  <2>2. ASSUME NEW q \in Requests \ {r}
        PROVE  RequestInv(q)'
    BY <1>0, <1>1, HandlerAlone, AloneKept
  <2> QED BY <2>1, <2>2
<1>2. ASSUME NEW r \in Requests, ProducerStep(r)
      PROVE  CacheWhole' /\ \A q \in Requests : RequestInv(q)'
  <2>1. RequestInv(r)'
    BY <1>0, <1>2, ProducerRequest
  <2>2. ASSUME NEW q \in Requests \ {r}
        PROVE  RequestInv(q)'
    BY <1>0, <1>2, ProducerAlone, AloneKept
  <2>3. CacheWhole'
    BY <1>0, <1>2, ProducerLeaves DEF CacheWhole
  <2> QED BY <2>1, <2>2, <2>3
<1>3. ASSUME \/ \E r \in Requests : NativeReturns(r) \/ ClientLeaves(r)
             \/ Evict \/ UNCHANGED vars
      PROVE  CacheWhole' /\ \A q \in Requests : RequestInv(q)'
  <2>1. /\ UNCHANGED <<pc, seg, hit, after, ppc, taken, left, made, keep, iter, outcome>>
        /\ UNCHANGED <<channelVars, out, pos>>
        /\ cache' \in {cache, 0}
    BY <1>3 DEF NativeReturns, ClientLeaves, Evict, vars, handlerVars, producerVars, clientVars
  <2>2. \A q \in Requests : open'[q] => open[q]
    BY <1>0, <1>3 DEF NativeReturns, ClientLeaves, Evict, vars, clientVars, IInv, TypeOK, ClientTypes
  <2>3. CacheWhole'
    BY <1>0, <2>1, ConstantsAssumption DEF CacheWhole
  <2> QED BY <1>0, <2>1, <2>2, <2>3, EnvironmentRequest
<1>4. CacheWhole' /\ \A q \in Requests : RequestInv(q)'
  BY <1>1, <1>2, <1>3 DEF Next
<1>5. IInv' /\ CacheWhole' /\ (\A r \in Requests : RequestInv(r))' => DataInv'
  BY DataParts, PTL
<1> QED BY <1>0, <1>4, <1>5

\* It holds in every reachable state.
LEMMA DataInvariant == Safe => []DataInv
BY DataStart, DataInductive, PTL DEF Safe

\* A handler that waits on its queue has a live producer or the end marker before it,
\* whatever failures and teardowns came before (_synthesize, _produce_audio).
THEOREM NobodyStranded == Safe => []NeverStranded
<1>1. DataInv => NeverStranded
  <2> SUFFICES ASSUME DataInv, NEW r \in Requests, pc[r] = "get", ppc[r] \notin Live
               PROVE  queue[r] # <<>> /\ ~IsAudio(queue[r][Len(queue[r])])
    BY DEF NeverStranded
  <2>1. IInv /\ PiecesInv(r) /\ QueueInv!(r) /\ ControlInv!(r) /\ queue[r] \in Seq(Nat)
        /\ ppc[r] \in {"none", "done"} \cup Live
    BY DEF DataInv, IInv, QueueInv, ControlInv, TypeOK, ProducerTypes, ChannelTypes
  <2>2. EndIn(queue[r])
    BY <2>1 DEF PiecesInv
  <2>3. PICK i \in 1 .. Len(queue[r]) : ~IsAudio(queue[r][i])
    BY <2>2 DEF EndIn
  <2>4. i = Len(queue[r])
    BY <2>1, <2>3 DEF IsAudio
  <2>5. queue[r] # <<>>
    BY <2>3
  <2> QED BY <2>3, <2>4, <2>5
<1> QED BY <1>1, DataInvariant, PTL

\* What a client hears is a prefix of the result, and all of it when its request
\* succeeds: no piece lost, repeated or out of order between engine and client.
THEOREM AudioExact == Safe => []DeliveryExact
<1>1. DataInv => WholeDelivery
  <2> SUFFICES ASSUME DataInv, NEW r \in Requests, pc[r] = "ok" PROVE WholeDelivery!(r)
    BY DEF WholeDelivery
  <2>1. PiecesInv(r) /\ OutputInv(r)
    BY DEF DataInv
  <2> QED BY <2>1 DEF PiecesInv, OutputInv
<1>2. DataInv => DeliveryExact
  BY <1>1 DEF DataInv, DeliveryExact
<1> QED BY <1>2, DataInvariant, PTL

\* What is cached is a whole result that fits an entry, and so is what a successful
\* request sent, replayed or synthesized.
THEOREM ResultsAreWhole == Safe => []ResultsWhole
<1>1. DataInv /\ DeliveryExact => ResultsWhole
  BY DEF DataInv, DeliveryExact, ResultsWhole
<1> QED BY <1>1, DataInvariant, AudioExact, PTL

\* A request that fails told its client and closed the audio; a producer that ended
\* closed the engine's iterator, also one it was given after it was cancelled.
THEOREM NothingLeftOpen == Safe => []EverythingClosed
<1>1. DataInv => IteratorsClosed
  BY DEF DataInv, ProductionInv, IteratorsClosed
<1>2. DataInv => EverythingClosed
  BY <1>1 DEF DataInv, EverythingClosed
<1> QED BY <1>2, DataInvariant, PTL
================================================================================
