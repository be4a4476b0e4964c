---------------------------- MODULE ZeroTtsPipeline ----------------------------
(***************************************************************************)
(* The pipelined synthesis of zerotts_engine.py.  A worker thread makes    *)
(* code frames with the native model and puts slices of them on a bounded  *)
(* queue; the generator that the caller iterates decodes the slices.  One  *)
(* generator exists at a time, since the caller holds the inference lock,  *)
(* but a worker may outlive its generator.  close() frees the native       *)
(* context, at once or when the last worker is gone.                       *)
(***************************************************************************)
EXTENDS Integers, Sequences, FiniteSets

CONSTANTS
  Runs,          \* syntheses
  NoRun,         \* Python's None where a worker is expected
  QueueCap,      \* places of the chunk queue
  FirstTarget,   \* frames in the first slice
  CapTarget,     \* frames in the longest slices
  MinFrames,     \* frames before the model may end the audio
  MaxFrames      \* ZeroTtsLimit.MAX_FRAMES

ASSUME ConstantsAssumption ==
  /\ NoRun \notin Runs
  /\ QueueCap \in Nat \ {0}
  /\ FirstTarget \in Nat \ {0} /\ CapTarget \in Nat \ {0}
  /\ MinFrames \in Nat /\ MaxFrames \in Nat \ {0}

VARIABLES
  pc,         \* where the generator is
  current,    \* the run of the generator
  outcome,    \* how each run's generator ended
  decoded,    \* frames the generator has decoded
  wpc,        \* where each run's worker is
  made,       \* frames generated
  tail,       \* tail_left: frames to go after the end of audio, -1 before it
  count,      \* frames in the buffer
  target,     \* frames that make the next slice
  queue,      \* chunk_queue
  stop,       \* stop_event
  error,      \* producer_error is not empty
  busy,       \* the engine's _busy_worker
  ctx,        \* the engine's _ctx is not None
  closer,     \* where close() is
  deferred,   \* the worker the clean-up thread waits for
  freed       \* calls of zerotts_free

generatorVars == <<pc, current, outcome, decoded>>
workerVars    == <<wpc, made, tail, count, target>>
sharedVars    == <<queue, stop, error>>
engineVars    == <<busy, ctx, closer, deferred, freed>>
vars == <<generatorVars, workerVars, sharedVars, engineVars>>

EndMark   == 0       \* the None that ends the queue; a slice is its number of frames
ErrorMark == -1      \* the exception that ends it

InNative  == {"frame", "advance"}
Putting   == {"put", "last", "end", "raise"}
Alive(u)  == wpc[u] \in InNative \cup Putting
BusyAlive == busy # NoRun /\ Alive(busy)

Init ==
  /\ pc = "idle"
  /\ current = NoRun
  /\ outcome = [u \in Runs |-> "none"]
  /\ decoded = [u \in Runs |-> 0]
  /\ wpc = [u \in Runs |-> "none"]
  /\ made = [u \in Runs |-> 0]
  /\ tail = [u \in Runs |-> -1]
  /\ count = [u \in Runs |-> 0]
  /\ target = [u \in Runs |-> FirstTarget]
  /\ queue = [u \in Runs |-> <<>>]
  /\ stop = [u \in Runs |-> FALSE]
  /\ error = [u \in Runs |-> FALSE]
  /\ busy = NoRun
  /\ ctx = TRUE
  /\ closer = "none"
  /\ deferred = NoRun
  /\ freed = 0

--------------------------------------------------------------------------------
(* The caller: it iterates the generator, or closes it between two items. *)

Open(u) ==
  /\ pc = "idle"
  /\ closer # "joining"
  /\ outcome[u] = "none"
  /\ outcome' = [outcome EXCEPT ![u] = "open"]
  /\ current' = u
  /\ pc' = "start"
  /\ UNCHANGED <<decoded, workerVars, sharedVars, engineVars>>

Resume ==
  /\ pc \in {"start", "yield"}
  /\ pc' = IF pc = "start" THEN "prepare" ELSE "get"
  /\ UNCHANGED <<current, outcome, decoded, workerVars, sharedVars, engineVars>>

Ended(how) == outcome' = [outcome EXCEPT ![current] = how]

\* A generator that never ran has no finally clause to run.
Discard ==
  /\ pc = "start"
  /\ Ended("abandoned")
  /\ pc' = "idle"
  /\ current' = NoRun
  /\ UNCHANGED <<decoded, workerVars, sharedVars, engineVars>>

Abandon ==
  /\ pc = "yield"
  /\ Ended("abandoned")
  /\ pc' = "stop"
  /\ UNCHANGED <<current, decoded, workerVars, sharedVars, engineVars>>

--------------------------------------------------------------------------------
(* The generator. *)

\* Faulty: the previous worker is not looked at.
BeginBeside ==
  /\ pc = "prepare"
  /\ ctx
  /\ busy' = current
  /\ wpc' = [wpc EXCEPT ![current] = "frame"]
  /\ pc' = "get"
  /\ UNCHANGED <<current, outcome, decoded, made, tail, count, target, sharedVars,
                 ctx, closer, deferred, freed>>

\* The native session begins and the worker starts.
Begin ==
  /\ pc = "prepare"
  /\ ctx
  /\ ~BusyAlive
  /\ busy' = current
  /\ wpc' = [wpc EXCEPT ![current] = "frame"]
  /\ pc' = "get"
  /\ UNCHANGED <<current, outcome, decoded, made, tail, count, target, sharedVars,
                 ctx, closer, deferred, freed>>

\* No session: the engine is closed, the previous worker did not end in time, the
\* text is too long, or there is nothing to say.
Refuse ==
  /\ pc = "prepare"
  /\ IF ctx /\ ~BusyAlive
     THEN busy' \in {busy, NoRun} /\ \E how \in {"failed", "empty"} : Ended(how)
     ELSE UNCHANGED busy /\ Ended("failed")
  /\ pc' = "idle"
  /\ current' = NoRun
  /\ UNCHANGED <<decoded, workerVars, sharedVars, ctx, closer, deferred, freed>>

Leave(how) == pc' = "stop" /\ Ended(how)

\* A slice is decoded to audio or to nothing yet, or the decoder fails.
GetSlice ==
  /\ pc = "get"
  /\ queue[current] # <<>>
  /\ Head(queue[current]) > 0
  /\ queue' = [queue EXCEPT ![current] = Tail(@)]
  /\ decoded' = [decoded EXCEPT ![current] = @ + Head(queue[current])]
  /\ \/ pc' \in {"yield", "get"} /\ UNCHANGED outcome
     \/ Leave("failed")
  /\ UNCHANGED <<current, workerVars, stop, error, engineVars>>

GetMark ==
  /\ pc = "get"
  /\ queue[current] # <<>>
  /\ Head(queue[current]) \in {EndMark, ErrorMark}
  /\ queue' = [queue EXCEPT ![current] = Tail(@)]
  /\ Leave(IF Head(queue[current]) = EndMark /\ ~error[current] THEN "marked" ELSE "failed")
  /\ UNCHANGED <<current, decoded, workerVars, stop, error, engineVars>>

GetTimeout ==
  /\ pc = "get"
  /\ queue[current] = <<>>
  /\ pc' = "check"
  /\ UNCHANGED <<current, outcome, decoded, workerVars, sharedVars, engineVars>>

\* Faulty: a worker that is gone counts as a success.
CheckForgiving ==
  /\ pc = "check"
  /\ IF Alive(current) THEN pc' = "get" /\ UNCHANGED outcome ELSE Leave("gone")
  /\ UNCHANGED <<current, decoded, workerVars, sharedVars, engineVars>>

\* The queue was empty a moment ago: is the worker gone?
CheckWorker ==
  /\ pc = "check"
  /\ IF Alive(current) THEN pc' = "get" /\ UNCHANGED outcome
     ELSE Leave(IF error[current] THEN "failed" ELSE "gone")
  /\ UNCHANGED <<current, decoded, workerVars, sharedVars, engineVars>>

\* Faulty: the stop event is never set.
ForgetStop ==
  /\ pc = "stop"
  /\ pc' = "join"
  /\ UNCHANGED <<current, outcome, decoded, workerVars, sharedVars, engineVars>>

SetStop ==
  /\ pc = "stop"
  /\ stop' = [stop EXCEPT ![current] = TRUE]
  /\ pc' = "join"
  /\ UNCHANGED <<current, outcome, decoded, workerVars, queue, error, engineVars>>

DrainSlice ==
  /\ pc = "join"
  /\ Alive(current)
  /\ queue[current] # <<>>
  /\ queue' = [queue EXCEPT ![current] = Tail(@)]
  /\ UNCHANGED <<generatorVars, workerVars, stop, error, engineVars>>

Finish == pc' = "idle" /\ current' = NoRun

Joined ==
  /\ pc = "join"
  /\ ~Alive(current)
  /\ busy' = NoRun
  /\ Finish
  /\ UNCHANGED <<outcome, decoded, workerVars, sharedVars, ctx, closer, deferred, freed>>

\* Faulty: the worker is waited for without a limit.
JoinForEver == FALSE

\* Faulty: the worker that did not end in time is forgotten.
JoinForgetful ==
  /\ pc = "join"
  /\ Alive(current)
  /\ busy' = NoRun
  /\ Finish
  /\ UNCHANGED <<outcome, decoded, workerVars, sharedVars, ctx, closer, deferred, freed>>

JoinTimeout ==
  /\ pc = "join"
  /\ Alive(current)
  /\ busy' = current
  /\ Finish
  /\ UNCHANGED <<outcome, decoded, workerVars, sharedVars, ctx, closer, deferred, freed>>

--------------------------------------------------------------------------------
(* The worker thread. *)

WorkerTo(u, l) == wpc' = [wpc EXCEPT ![u] = l]

\* An exception of the worker: recorded first, then queued.
Raise(u) ==
  /\ error' = [error EXCEPT ![u] = TRUE]
  /\ WorkerTo(u, "raise")

\* What follows a frame that is not the end of a slice, or follows that slice: left
\* is tail_left after it and n the frames still in the buffer.
AfterFrame(u, left, n) ==
  WorkerTo(u, CASE stop[u]              -> "dead"
                [] ~stop[u] /\ left = 0 -> IF n > 0 THEN "last" ELSE "end"
                [] OTHER                -> "advance")

\* _advance_tail_countdown: one more frame follows the end of audio.
TailAfter(left, eoa) == IF left >= 0 THEN left - 1 ELSE IF eoa THEN 1 ELSE -1

\* zerotts_frame returns: perhaps with the end of audio, where it is not forbidden.
FrameReturns(u) ==
  /\ wpc[u] = "frame"
  /\ \/ Raise(u) /\ UNCHANGED <<made, tail, count>>
     \/ stop[u] /\ WorkerTo(u, "dead") /\ UNCHANGED <<made, tail, count, error>>
     \/ /\ ~stop[u]
        /\ made' = [made EXCEPT ![u] = @ + 1]
        /\ count' = [count EXCEPT ![u] = @ + 1]
        /\ \E eoa \in BOOLEAN : /\ eoa => made[u] >= MinFrames /\ tail[u] < 0
                                /\ tail' = [tail EXCEPT ![u] = TailAfter(@, eoa)]
        /\ IF count[u] + 1 >= target[u] THEN WorkerTo(u, "put")
           ELSE AfterFrame(u, tail'[u], count[u] + 1)
        /\ UNCHANGED error
  /\ UNCHANGED <<generatorVars, target, queue, stop, engineVars>>

\* zerotts_advance returns; the frame limit is an error unless the run was stopped.
AdvanceReturns(u) ==
  /\ wpc[u] = "advance"
  /\ \/ Raise(u)
     \/ stop[u] /\ WorkerTo(u, "dead") /\ UNCHANGED error
     \/ ~stop[u] /\ made[u] = MaxFrames /\ Raise(u)
     \/ ~stop[u] /\ made[u] < MaxFrames /\ WorkerTo(u, "frame") /\ UNCHANGED error
  /\ UNCHANGED <<generatorVars, made, tail, count, target, queue, stop, engineVars>>

\* Faulty: the queue is unbounded.
AlwaysRoom(u) == TRUE

HasRoom(u) == Len(queue[u]) < QueueCap
Put(u, item) == queue' = [queue EXCEPT ![u] = Append(@, item)]

PutSlice(u) ==
  /\ wpc[u] = "put"
  /\ HasRoom(u)
  /\ Put(u, count[u])
  /\ count' = [count EXCEPT ![u] = 0]
  /\ target' = [target EXCEPT ![u] = IF 2 * @ < CapTarget THEN 2 * @ ELSE CapTarget]
  /\ AfterFrame(u, tail[u], 0)
  /\ UNCHANGED <<generatorVars, made, tail, stop, error, engineVars>>

\* Faulty: the frames that do not fill a slice are not sent.
PutLastShort(u) ==
  /\ wpc[u] = "last"
  /\ HasRoom(u)
  /\ Put(u, EndMark)
  /\ count' = [count EXCEPT ![u] = 0]
  /\ WorkerTo(u, "dead")
  /\ UNCHANGED <<generatorVars, made, tail, target, stop, error, engineVars>>

PutLast(u) ==
  /\ wpc[u] = "last"
  /\ HasRoom(u)
  /\ Put(u, count[u])
  /\ count' = [count EXCEPT ![u] = 0]
  /\ WorkerTo(u, "end")
  /\ UNCHANGED <<generatorVars, made, tail, target, stop, error, engineVars>>

PutMark(u) ==
  /\ wpc[u] \in {"end", "raise"}
  /\ HasRoom(u)
  /\ Put(u, IF wpc[u] = "end" THEN EndMark ELSE ErrorMark)
  /\ WorkerTo(u, "dead")
  /\ UNCHANGED <<generatorVars, made, tail, count, target, stop, error, engineVars>>

\* Faulty: a worker that waits for room does not look at the stop event.
NeverGiveUp(u) == FALSE

\* The stop event is looked at before each attempt to put an item.
GiveUp(u) ==
  /\ wpc[u] \in Putting
  /\ stop[u]
  /\ WorkerTo(u, "dead")
  /\ UNCHANGED <<generatorVars, made, tail, count, target, sharedVars, engineVars>>

--------------------------------------------------------------------------------
(* close(), once the caller has no generator left, and the clean-up thread. *)

Free == freed' = freed + 1

\* close() may be called again; what the first call did is not done twice.
Close ==
  /\ closer # "joining"
  /\ pc = "idle"
  /\ IF BusyAlive THEN closer' = "joining" /\ UNCHANGED <<ctx, freed>>
     ELSE closer' = "closed" /\ ctx' = FALSE /\ (IF ctx THEN Free ELSE UNCHANGED freed)
  /\ UNCHANGED <<generatorVars, workerVars, sharedVars, busy, deferred>>

CloseJoined ==
  /\ closer = "joining"
  /\ ~BusyAlive
  /\ busy' = NoRun
  /\ ctx' = FALSE
  /\ Free
  /\ closer' = "closed"
  /\ UNCHANGED <<generatorVars, workerVars, sharedVars, deferred>>

\* Faulty: the engine keeps the context it left to the clean-up thread.
CloseKeepsContext ==
  /\ closer = "joining"
  /\ BusyAlive
  /\ busy' = NoRun
  /\ deferred' = busy
  /\ closer' = "closed"
  /\ UNCHANGED <<generatorVars, workerVars, sharedVars, ctx, freed>>

\* Faulty: the clean-up thread is not started.
CloseLeaks ==
  /\ closer = "joining"
  /\ BusyAlive
  /\ busy' = NoRun
  /\ ctx' = FALSE
  /\ closer' = "closed"
  /\ UNCHANGED <<generatorVars, workerVars, sharedVars, deferred, freed>>

CloseTimeout ==
  /\ closer = "joining"
  /\ BusyAlive
  /\ busy' = NoRun
  /\ ctx' = FALSE
  /\ deferred' = busy
  /\ closer' = "closed"
  /\ UNCHANGED <<generatorVars, workerVars, sharedVars, freed>>

DeferredFree ==
  /\ deferred # NoRun
  /\ ~Alive(deferred)
  /\ Free
  /\ deferred' = NoRun
  /\ UNCHANGED <<generatorVars, workerVars, sharedVars, busy, ctx, closer>>

--------------------------------------------------------------------------------
GeneratorStep ==
  \/ Begin \/ Refuse \/ GetSlice \/ GetMark \/ GetTimeout \/ CheckWorker
  \/ SetStop \/ DrainSlice \/ Joined \/ JoinTimeout

NativeReturns(u) == FrameReturns(u) \/ AdvanceReturns(u)
WorkerStep(u)    == PutSlice(u) \/ PutLast(u) \/ PutMark(u) \/ GiveUp(u)

CloserStep == CloseJoined \/ CloseTimeout \/ DeferredFree

Next ==
  \/ \E u \in Runs : Open(u) \/ NativeReturns(u) \/ WorkerStep(u)
  \/ Resume \/ Discard \/ Abandon
  \/ GeneratorStep
  \/ Close \/ CloserStep

Safe == Init /\ [][Next]_vars

\* Threads that can run do and timeouts expire.  Nothing makes the caller ask for more
\* audio or close the engine.
Spec == Safe /\ WF_vars(GeneratorStep) /\ WF_vars(CloserStep)
             /\ \A u \in Runs : WF_vars(WorkerStep(u))

\* What only some properties need: every native call returns.
NativeAnswers == \A u \in Runs : WF_vars(NativeReturns(u))
--------------------------------------------------------------------------------
(* Properties. *)

QueueTypes ==
  \A u \in Runs : queue[u] \in Seq(Nat \cup {ErrorMark}) /\ Len(queue[u]) <= QueueCap

\* Every variable keeps its range; the queue never exceeds its places.
TypeOK ==
  /\ pc \in {"idle", "start", "prepare", "get", "check", "yield", "stop", "join"}
  /\ current \in Runs \cup {NoRun}
  /\ outcome \in [Runs -> {"none", "open", "marked", "gone", "failed", "empty", "abandoned"}]
  /\ decoded \in [Runs -> Nat]
  /\ wpc \in [Runs -> {"none", "dead"} \cup InNative \cup Putting]
  /\ made \in [Runs -> Nat]
  /\ tail \in [Runs -> {-1, 0, 1}]
  /\ count \in [Runs -> Nat]
  /\ target \in [Runs -> Nat \ {0}]
  /\ DOMAIN queue = Runs /\ QueueTypes
  /\ stop \in [Runs -> BOOLEAN]
  /\ error \in [Runs -> BOOLEAN]
  /\ busy \in Runs \cup {NoRun}
  /\ ctx \in BOOLEAN
  /\ closer \in {"none", "joining", "closed"}
  /\ deferred \in Runs \cup {NoRun}
  /\ freed \in Nat

\* The native model is used by one worker at a time and never after it was freed,
\* although workers outlive their generators and close() does not wait for ever.
ExclusiveContext ==
  \A u \in Runs : wpc[u] \in InNative =>
    freed = 0 /\ \A v \in Runs \ {u} : wpc[v] \notin InNative

\* A live worker is never forgotten: the next synthesis or close() finds it, or the
\* clean-up thread waits for it.
WorkerKnown == \A u \in Runs : Alive(u) => u \in {busy, deferred}

\* No worker enters the native model once close() has taken its context away.
NoCallWithoutContext ==
  [][\A u \in Runs : ~ctx' /\ wpc[u] \notin InNative => wpc'[u] \notin InNative]_vars

\* The context is freed once at most, and only by close().
FreedOnce == freed <= 1 /\ (freed = 1 => ~ctx /\ deferred = NoRun)

\* A worker's error reaches the caller, also if its queue item did not.
ErrorsReported == \A u \in Runs : error[u] => outcome[u] \notin {"marked", "gone"}

\* A stream that ends at the end marker was decoded to its last frame, the one that
\* follows the end of audio: neither a stop nor the frame limit looks like it.
MarkedIsWhole ==
  \A u \in Runs : outcome[u] = "marked" => decoded[u] = made[u] /\ tail[u] = 0

\* Whatever ends a stream without an error, every slice was consumed.
EverySliceConsumed ==
  \A u \in Runs : outcome[u] \in {"marked", "gone"} => decoded[u] = made[u]

\* Neither a new synthesis, nor the end of one, nor close() waits without limit for a
\* worker, although its native call may not return.
WaitsAreBounded ==
  /\ (pc \in {"prepare", "stop", "join"}) ~> (pc \in {"idle", "get"})
  /\ (closer = "joining") ~> (closer = "closed")

\* A worker whose generator is gone ends, although its queue may be full.
WorkersEnd ==
  NativeAnswers => \A u \in Runs : (Alive(u) /\ pc = "idle") ~> ~Alive(u)

\* close() leads to the context being freed.
CloseFrees == NativeAnswers => (closer # "none") ~> (freed = 1)

\* The native context has one user, who is known until it ends, and is freed once.
ContextSafe == TypeOK /\ WorkerKnown /\ ExclusiveContext /\ FreedOnce

\* How a stream ends tells what became of its worker.
EndsTruly == ErrorsReported /\ MarkedIsWhole

\* Nobody waits without limit, and when native calls return nothing is left behind: no
\* worker and no context.
NothingLeftBehind == WaitsAreBounded /\ WorkersEnd /\ CloseFrees
--------------------------------------------------------------------------------
(* The inductive invariant behind the properties of the native context. *)

\* While a generator runs, its worker is the engine's and the engine has a context;
\* the context is gone only after close(), which runs without a generator, and is
\* freed unless the clean-up thread still waits.
EngineInv ==
  /\ pc \in {"get", "check", "yield", "stop", "join"} => current # NoRun /\ busy = current /\ ctx
  /\ pc \in {"start", "prepare"} => current # NoRun
  /\ pc # "idle" => closer # "joining"
  /\ ~ctx <=> closer = "closed"
  /\ ~ctx => ~BusyAlive
  /\ deferred # NoRun => ~ctx
  /\ freed = IF ctx \/ deferred # NoRun THEN 0 ELSE 1

\* A worker that was not told to stop belongs to the generator.
StopInv == \A u \in Runs : Alive(u) /\ ~stop[u] => u = current /\ pc \in {"get", "check", "yield", "stop"}

IInv == TypeOK /\ EngineInv /\ StopInv /\ WorkerKnown

\* The frames of the slices in a queue; a mark has none.
Frames(item) == IF item > 0 THEN item ELSE 0
Queued(q) ==
  LET upTo[n \in 0 .. Len(q)] == IF n = 0 THEN 0 ELSE upTo[n - 1] + Frames(q[n])
  IN upTo[Len(q)]

\* The outcome of a run is open while the generator iterates it, and only then.
OutcomeInv ==
  \A u \in Runs :
    /\ outcome[u] = "open" <=> u = current /\ pc \in {"start", "prepare", "get", "check", "yield"}
    /\ outcome[u] = "none" => wpc[u] = "none"
    /\ u = current /\ pc \in {"start", "prepare"} => wpc[u] = "none"
    /\ u = current /\ pc \in {"get", "check", "yield"} => wpc[u] # "none"

\* Every frame made is in the buffer, in a queued slice or decoded until the outcome is
\* known; the end mark is the last item of a worker that went through to its last
\* frame; a worker ends after the error it recorded, and no outcome precedes its end.
StreamInv(u) ==
  /\ outcome[u] \in {"none", "open"} => decoded[u] + Queued(queue[u]) + count[u] = made[u]
  /\ outcome[u] \in {"marked", "gone"} => wpc[u] = "dead" /\ ~error[u]
  /\ outcome[u] = "marked" => decoded[u] = made[u] /\ tail[u] = 0
  /\ error[u] => wpc[u] \in {"raise", "dead"}
  /\ \A i \in 1 .. Len(queue[u]) : queue[u][i] = EndMark =>
       i = Len(queue[u]) /\ wpc[u] = "dead" /\ count[u] = 0 /\ tail[u] = 0
  /\ wpc[u] \in {"put", "last"} => count[u] > 0
  /\ wpc[u] \in {"last", "end"} => tail[u] = 0
  /\ wpc[u] = "end" => count[u] = 0

EndInv == IInv /\ OutcomeInv /\ \A u \in Runs : StreamInv(u)
================================================================================
