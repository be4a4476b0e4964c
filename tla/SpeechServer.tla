------------------------------ MODULE SpeechServer ------------------------------
(***************************************************************************)
(* The server around its two engines: connection slots (protocol.py), the  *)
(* routing of events (combined.py), transcription (stt.py) and the ordered *)
(* shutdown (__main__.py).  An action is the code between two awaits of    *)
(* one task.  Synthesis is reduced to how it uses the executor and the TTS *)
(* lock; it is detailed in SynthesisPipeline and TtsStream.                *)
(***************************************************************************)
EXTENDS Integers, Sequences, FiniteSets, SequencesExt

CONSTANTS
  Remote, Local,       \* connections: from other hosts, over loopback
  SttClients,          \* connections that ask for transcription
  TtsClients,          \* connections that ask for synthesis
  Drain,               \* the shutdown where it waits for a lock
  Free,                \* the holder of a free lock
  MaximumConnections,  \* ConnectionLimiter.maximum
  LocalReserve,        \* ConnectionLimiter.local_reserve
  AudioLimit,          \* max_audio_bytes
  BudgetMaximum,       \* ByteBudget.maximum
  ChunkSizes,          \* sizes a chunk of audio may have after its conversion
  Workers,             \* INFERENCE_EXECUTOR_WORKERS
  TokenLimited         \* the engine is a _TokenLimitedTTSEngine: texts are split first

ASSUME ServerAssumption ==
  /\ Remote \cap Local = {} /\ IsFiniteSet(Remote) /\ IsFiniteSet(Local)
  /\ SttClients \cup TtsClients \subseteq Remote \cup Local
  /\ Drain \notin Remote \cup Local
  /\ Free \notin Remote \cup Local \cup {Drain}
  /\ MaximumConnections \in Nat \ {0} /\ LocalReserve \in Nat
  /\ AudioLimit \in Nat \ {0} /\ BudgetMaximum \in Nat \ {0}
  /\ ChunkSizes \subseteq Nat \ {0}
  /\ Workers \in Nat \ {0} /\ TokenLimited \in BOOLEAN

Services == {"stt", "tts"}
Calls == Services \cup {"split"}   \* the split of a text by tokens needs no lock
Conns == Remote \cup Local

VARIABLES
  accepting,    \* ConnectionLimiter._accepting
  active,       \* ConnectionLimiter.active
  at,           \* where each connection's handler is
  closing,      \* its writer is closing
  tracked,      \* _stt_request_active and _tts_request_active
  begun,        \* history: services it began a request of before the shutdown
  started,      \* audio_started
  reserved,     \* reserved_audio_bytes, which is also the size of audio_bytes
  transcripts,  \* history: Transcript events written
  budget,       \* ByteBudget.used
  holder,       \* who holds each service's inference lock
  waiters,      \* who waits for it, in order
  job,          \* each connection's calls in the inference executor
  backlog,      \* the calls that wait for a thread of it, in order
  phase,        \* where the shutdown is
  drains,       \* the shutdown's wait for each lock
  late,         \* history: services with a call begun after their drain
  engine        \* the TTS engine is open or closed

limiterVars == <<accepting, active>>
routeVars   == <<tracked, begun>>
sttVars     == <<started, reserved, transcripts, budget>>
lockVars    == <<holder, waiters>>
poolVars    == <<job, backlog>>
serverVars  == <<phase, drains, engine>>
vars == <<limiterVars, at, closing, routeVars, sttVars, lockVars, poolVars, late, serverVars>>

Outside  == {"away", "gone"}   \* without a connection slot
Speaking == {"once", "chunk", "stop"}     \* awaiting a synthesis
Admitted == {c \in Conns : at[c] \notin Outside}

PoolShut == phase \in {"pool", "engine", "ended"}
Listening == phase \in {"serve", "drain"}
InProgress == {call \in Calls \X Conns : job[call[1]][call[2]] # "none"}
OnThread == {call \in InProgress : job[call[1]][call[2]] # "queued"}

Init ==
  /\ accepting = TRUE
  /\ active = 0
  /\ at = [c \in Conns |-> "away"]
  /\ closing = [c \in Conns |-> FALSE]
  /\ tracked = [c \in Conns |-> {}]
  /\ begun = [c \in Conns |-> {}]
  /\ started = [c \in Conns |-> FALSE]
  /\ reserved = [c \in Conns |-> 0]
  /\ transcripts = [c \in Conns |-> 0]
  /\ budget = 0
  /\ holder = [s \in Services |-> Free]
  /\ waiters = [s \in Services |-> <<>>]
  /\ job = [k \in Calls |-> [c \in Conns |-> "none"]]
  /\ backlog = <<>>
  /\ phase = "serve"
  /\ drains = [s \in Services |-> "none"]
  /\ late = {}
  /\ engine = "open"

Go(c, p) == at' = [at EXCEPT ![c] = p]

--------------------------------------------------------------------------------
(* asyncio.Lock and the executor. *)

Waiting(s, p) == \E i \in DOMAIN waiters[s] : waiters[s][i] = p

Enqueue(s, p) == waiters' = [waiters EXCEPT ![s] = Append(@, p)]

\* A waiter is in the queue of a lock once at most.
Leave(s, p) ==
  waiters' = [waiters EXCEPT ![s] = IF Waiting(s, p)
                                    THEN RemoveAt(@, CHOOSE i \in DOMAIN @ : @[i] = p)
                                    ELSE @]

Release(s) == holder' = [holder EXCEPT ![s] = Free]

\* A synthesis waits for its lock or has a producer, which may outlive the
\* handler's wait.
Producing(c) == Waiting("tts", c) \/ holder["tts"] = c

\* The first waiter is woken and takes the free lock.
Grant(s) ==
  /\ holder[s] = Free /\ waiters[s] # <<>>
  /\ holder' = [holder EXCEPT ![s] = Head(waiters[s])]
  /\ waiters' = [waiters EXCEPT ![s] = Tail(@)]
  /\ UNCHANGED <<limiterVars, at, closing, routeVars, sttVars, poolVars, late, serverVars>>

\* run_inference: the call goes into the executor's queue, unless it was shut down.
Submit(k, c) ==
  /\ ~PoolShut
  /\ job' = [job EXCEPT ![k][c] = "queued"]
  /\ backlog' = Append(backlog, <<k, c>>)
  /\ late' = IF k \in Services /\ drains[k] = "drained" THEN late \cup {k} ELSE late


ThreadFree == Cardinality(OnThread) < Workers

ThreadTakes ==
  /\ backlog # <<>> /\ ThreadFree
  /\ LET call == Head(backlog) IN job' = [job EXCEPT ![call[1]][call[2]] = "running"]
  /\ backlog' = Tail(backlog)
  /\ UNCHANGED <<limiterVars, at, closing, routeVars, sttVars, lockVars, late, serverVars>>

CallReturns(k, c) ==
  /\ job[k][c] = "running"
  /\ job' = [job EXCEPT ![k][c] = "none"]
  /\ UNCHANGED <<limiterVars, at, closing, routeVars, sttVars, lockVars, backlog, late, serverVars>>

\* A call that never returns.
Hang(k, c) ==
  /\ job[k][c] = "running"
  /\ job' = [job EXCEPT ![k][c] = "hung"]
  /\ UNCHANGED <<limiterVars, at, closing, routeVars, sttVars, lockVars, backlog, late, serverVars>>

--------------------------------------------------------------------------------
(* Connection slots and the run loop. *)

\* Faulty: the reserve is open to all.
CommonLimit(c) == MaximumConnections + LocalReserve

SlotLimit(c) == IF c \in Local THEN MaximumConnections + LocalReserve ELSE MaximumConnections

\* A rejected connection is told so and closed; it never held a slot.
Connect(c) ==
  /\ at[c] = "away" /\ Listening
  /\ IF accepting /\ active < SlotLimit(c)
     THEN active' = active + 1 /\ Go(c, "read") /\ UNCHANGED closing
     ELSE UNCHANGED active /\ Go(c, "gone") /\ closing' = [closing EXCEPT ![c] = TRUE]
  /\ UNCHANGED <<accepting, routeVars, sttVars, lockVars, poolVars, late, serverVars>>

\* Faulty: the loop is left without its finally clauses.
ReadEndsEarly(c) ==
  /\ at[c] = "read"
  /\ Go(c, "gone")
  /\ UNCHANGED <<limiterVars, closing, routeVars, sttVars, lockVars, poolVars, late, serverVars>>

\* The client leaves, is silent for event_timeout, sends a malformed frame, or
\* does not take the answer to Describe (which changes nothing when it does).
ReadEnds(c) ==
  /\ at[c] = "read"
  /\ Go(c, "close")
  /\ UNCHANGED <<limiterVars, closing, routeVars, sttVars, lockVars, poolVars, late, serverVars>>

\* The client leaves while it waits for its transcript; a handler that reads or
\* writes notices by ReadEnds, Written or SynthesisFails.
ClientCloses(c) ==
  /\ at[c] \in {"queue", "infer"} /\ ~closing[c]
  /\ closing' = [closing EXCEPT ![c] = TRUE]
  /\ UNCHANGED <<limiterVars, at, routeVars, sttVars, lockVars, poolVars, late, serverVars>>

\* The last write, of at most write_timeout; the loop ends whether it failed or
\* not, since the handler returned False.
Written(c) ==
  /\ at[c] = "finish"
  /\ Go(c, "close")
  /\ UNCHANGED <<limiterVars, closing, routeVars, sttVars, lockVars, poolVars, late, serverVars>>

\* Faulty: the buffer is dropped and its reservation kept.
DropBuffer(c) == reserved' = [reserved EXCEPT ![c] = 0] /\ UNCHANGED budget

\* _clear_audio_buffer
ClearBuffer(c) ==
  /\ budget' = budget - reserved[c]
  /\ reserved' = [reserved EXCEPT ![c] = 0]

\* disconnect of both handlers, then _close_connection.
Disconnect(c) ==
  /\ at[c] = "close"
  /\ ClearBuffer(c)
  /\ closing' = [closing EXCEPT ![c] = TRUE]
  /\ Go(c, "release")
  /\ UNCHANGED <<limiterVars, routeVars, started, transcripts, lockVars, poolVars,
                 late, serverVars>>

\* The handlers of the connection are no more; a producer of theirs may be.
ReleaseSlot(c) ==
  /\ at[c] = "release"
  /\ active' = active - 1
  /\ started' = [started EXCEPT ![c] = FALSE]
  /\ tracked' = [tracked EXCEPT ![c] = {}]
  /\ begun' = [begun EXCEPT ![c] = IF Producing(c) THEN @ ELSE {}]
  /\ transcripts' = [transcripts EXCEPT ![c] = 0]
  /\ Go(c, "gone")
  /\ UNCHANGED <<accepting, closing, reserved, budget, lockVars, poolVars, late, serverVars>>

--------------------------------------------------------------------------------
(* CombinedEventHandler.handle_event *)

\* Faulty: a one-shot synthesis is not a new request.
StartsNewLifecycle(c, event) ==
  \/ event \in {"Transcribe", "SynthesizeStart"}
  \/ event = "AudioStart" /\ "stt" \notin tracked[c]

StartsNewRequest(c, event) ==
  \/ event \in {"Transcribe", "SynthesizeStart"}
  \/ event = "Synthesize" /\ "tts" \notin tracked[c]
  \/ event = "AudioStart" /\ "stt" \notin tracked[c]

Routed(c, event) == accepting \/ ~StartsNewRequest(c, event)

TurnedAway(c) ==
  /\ at[c] = "read" /\ ~closing[c]
  /\ \/ c \in SttClients /\ \E event \in {"Transcribe", "AudioStart"} : ~Routed(c, event)
     \/ c \in TtsClients /\ \E event \in {"Synthesize", "SynthesizeStart"} : ~Routed(c, event)
  /\ Go(c, "finish")
  /\ UNCHANGED <<limiterVars, closing, routeVars, sttVars, lockVars, poolVars, late, serverVars>>

Begin(c, s) ==
  begun' = [begun EXCEPT ![c] = IF accepting THEN @ \cup {s} ELSE @]

Track(c, s)   == tracked' = [tracked EXCEPT ![c] = @ \cup {s}]
Untrack(c, s) == tracked' = [tracked EXCEPT ![c] = @ \ {s}]

--------------------------------------------------------------------------------
(* Transcription. *)

\* Faulty: the connection stays open after a failure.
SttFailOpen(c, p) ==
  /\ started' = [started EXCEPT ![c] = FALSE]
  /\ transcripts' = [transcripts EXCEPT ![c] = @ + 1]
  /\ ClearBuffer(c)
  /\ Go(c, "read")

\* _fail: the state of the request is reset, then the error and the empty
\* transcript are written.
SttFail(c, p) ==
  /\ started' = [started EXCEPT ![c] = FALSE]
  /\ transcripts' = [transcripts EXCEPT ![c] = @ + 1]
  /\ ClearBuffer(c)
  /\ Go(c, p)

\* An STT event that is malformed, out of order, past the deadline of the audio,
\* or the last of too many empty ones.
SttInvalid(c) ==
  /\ c \in SttClients /\ at[c] = "read" /\ ~closing[c]
  /\ SttFail(c, "finish")
  /\ Untrack(c, "stt")
  /\ UNCHANGED <<limiterVars, closing, begun, lockVars, poolVars, late, serverVars>>

HandleTranscribe(c) ==
  /\ c \in SttClients /\ at[c] = "read" /\ ~closing[c] /\ Routed(c, "Transcribe")
  /\ ~started[c]
  /\ Begin(c, "stt") /\ Track(c, "stt")
  /\ UNCHANGED <<limiterVars, at, closing, sttVars, lockVars, poolVars, late, serverVars>>

HandleAudioStart(c) ==
  /\ c \in SttClients /\ at[c] = "read" /\ ~closing[c] /\ Routed(c, "AudioStart")
  /\ ~started[c]
  /\ ClearBuffer(c)
  /\ started' = [started EXCEPT ![c] = TRUE]
  /\ Begin(c, "stt") /\ Track(c, "stt")
  /\ UNCHANGED <<limiterVars, at, closing, transcripts, lockVars, poolVars, late, serverVars>>

\* A long chunk is first converted in a thread, while time goes on.
HandleAudioChunk(c) ==
  /\ at[c] = "read" /\ ~closing[c]
  /\ started[c]
  /\ Go(c, "convert")
  /\ UNCHANGED <<limiterVars, closing, routeVars, started, reserved, transcripts,
                 budget, lockVars, poolVars, late, serverVars>>

\* Faulty: each handler looks at its own limit only.
FitsAlone(c, n) == reserved[c] + n <= AudioLimit

\* The two limits of _append_audio.
Fits(c, n) == reserved[c] + n <= AudioLimit /\ budget + n <= BudgetMaximum

\* Slices are appended one by one, and all are given back when one is refused.
ConversionEnds(c) ==
  /\ at[c] = "convert"
  /\ \E n \in ChunkSizes :
       \/ /\ Fits(c, n)
          /\ budget' = budget + n
          /\ reserved' = [reserved EXCEPT ![c] = @ + n]
          /\ Go(c, "read")
          /\ UNCHANGED <<tracked, started, transcripts>>
       \/ /\ ~Fits(c, n)
          /\ SttFail(c, "finish")
          /\ Untrack(c, "stt")
  /\ UNCHANGED <<limiterVars, closing, begun, lockVars, poolVars, late, serverVars>>

\* audio_started_at and audio_deadline are reset with the answer.
HandleAudioStop(c) ==
  /\ at[c] = "read" /\ ~closing[c]
  /\ started[c]
  /\ started' = [started EXCEPT ![c] = FALSE]
  /\ Untrack(c, "stt")
  /\ IF reserved[c] = 0
     THEN /\ transcripts' = [transcripts EXCEPT ![c] = @ + 1]
          /\ Go(c, "finish")
          /\ UNCHANGED waiters
     ELSE /\ Enqueue("stt", c)
          /\ Go(c, "queue")
          /\ UNCHANGED transcripts
  /\ UNCHANGED <<limiterVars, closing, begun, reserved, budget, holder, poolVars,
                 late, serverVars>>

\* Faulty: the wait for the lock has no timeout.
QueueForEver(c) == FALSE

QueueTimeout(c) ==
  /\ at[c] = "queue" /\ Waiting("stt", c)
  /\ Leave("stt", c)
  /\ SttFail(c, "finish")
  /\ UNCHANGED <<limiterVars, closing, routeVars, holder, poolVars, late, serverVars>>

\* Faulty: a waiter goes on as if it had the lock.
HasOrAwaits(s, p) == holder[s] = p \/ Waiting(s, p)

Has(s, p) == holder[s] = p

SkipInference(c) ==
  /\ at[c] = "queue" /\ Has("stt", c)
  /\ closing[c]
  /\ ClearBuffer(c)
  /\ Release("stt")
  /\ Go(c, "close")
  /\ UNCHANGED <<limiterVars, closing, routeVars, started, transcripts, waiters,
                 poolVars, late, serverVars>>

StartInference(c) ==
  /\ at[c] = "queue" /\ Has("stt", c)
  /\ ~closing[c]
  /\ \/ /\ ClearBuffer(c)
        /\ Submit("stt", c)
        /\ Go(c, "infer")
        /\ UNCHANGED <<started, transcripts>>
     \/ /\ PoolShut
        /\ SttFail(c, "failing")
        /\ UNCHANGED <<poolVars, late>>
  /\ UNCHANGED <<limiterVars, closing, routeVars, lockVars, serverVars>>

\* The recognizer returned a text or raised; an error is reported before the
\* lock is released.
InferenceEnds(c) ==
  /\ at[c] = "infer" /\ job["stt"][c] = "none"
  /\ \/ /\ Release("stt")
        /\ IF closing[c]
           THEN Go(c, "close") /\ UNCHANGED transcripts
           ELSE Go(c, "finish") /\ transcripts' = [transcripts EXCEPT ![c] = @ + 1]
        /\ UNCHANGED <<started, reserved, budget>>
     \/ SttFail(c, "failing") /\ UNCHANGED holder
  /\ UNCHANGED <<limiterVars, closing, routeVars, waiters, poolVars, late, serverVars>>

FailureWritten(c) ==
  /\ at[c] = "failing"
  /\ Release("stt")
  /\ Go(c, "close")
  /\ UNCHANGED <<limiterVars, closing, routeVars, sttVars, waiters, poolVars, late, serverVars>>

--------------------------------------------------------------------------------
(* Synthesis, as a user of the executor and of the lock.                    *)

\* A text is split in the executor, without the lock, and its parts then wait for
\* the lock one after the other; an engine without a token limit has one part.
BeginText(c) ==
  IF TokenLimited THEN Submit("split", c) /\ UNCHANGED waiters
                  ELSE Enqueue("tts", c) /\ UNCHANGED <<poolVars, late>>

HandleSynthesize(c) ==
  /\ c \in TtsClients /\ at[c] = "read" /\ ~closing[c] /\ Routed(c, "Synthesize")
  /\ "tts" \notin tracked[c]
  /\ Begin(c, "tts")
  /\ BeginText(c)
  /\ Go(c, "once")
  /\ UNCHANGED <<limiterVars, closing, tracked, sttVars, holder, serverVars>>

HandleSynthesizeStart(c) ==
  /\ c \in TtsClients /\ at[c] = "read" /\ ~closing[c] /\ Routed(c, "SynthesizeStart")
  /\ "tts" \notin tracked[c]
  /\ Begin(c, "tts") /\ Track(c, "tts")
  /\ UNCHANGED <<limiterVars, at, closing, sttVars, lockVars, poolVars, late, serverVars>>

\* A SynthesizeChunk that completes a clause, or SynthesizeStop with text left.
HandleSynthesizeText(c, p) ==
  /\ at[c] = "read" /\ ~closing[c]
  /\ "tts" \in tracked[c]
  /\ BeginText(c)
  /\ Go(c, p)
  /\ UNCHANGED <<limiterVars, closing, routeVars, sttVars, holder, serverVars>>

\* Faulty: the wait for the split has a timeout, and leaves it in the executor.
SplitAbandoned(c) == TRUE

\* Nothing ends the handler's wait for the split but its return.
SplitOver(c) == job["split"][c] = "none"

\* The handler between two parts of what it speaks.
Idle(c) == at[c] \in Speaking /\ ~Producing(c) /\ SplitOver(c)

\* A part that is not in the cache.
NextPart(c) ==
  /\ TokenLimited /\ Idle(c) /\ ~closing[c]
  /\ Enqueue("tts", c)
  /\ UNCHANGED <<limiterVars, at, closing, routeVars, sttVars, holder, poolVars, late, serverVars>>

\* The next clause of the same event; that of a closing writer is split, no more.
NextText(c) ==
  /\ Idle(c) /\ at[c] # "once"
  /\ TokenLimited \/ ~closing[c]
  /\ BeginText(c)
  /\ Go(c, IF closing[c] THEN "once" ELSE at[c])
  /\ UNCHANGED <<limiterVars, closing, routeVars, sttVars, holder, serverVars>>

\* A step of the engine; when the handler has left, the clean-up of its iterator.
ProducerCalls(c) ==
  /\ holder["tts"] = c /\ job["tts"][c] = "none"
  /\ Submit("tts", c)
  /\ UNCHANGED <<limiterVars, at, closing, routeVars, sttVars, lockVars, serverVars>>

\* Faulty: a handler that gave up frees the lock under the call.
CallAbandoned(c) == job["tts"][c] = "none" \/ at[c] \notin Speaking

CallOver(c) == job["tts"][c] = "none"

ProducerReleases(c) ==
  /\ holder["tts"] = c /\ CallOver(c)
  /\ Release("tts")
  /\ UNCHANGED <<limiterVars, at, closing, routeVars, sttVars, waiters, poolVars, late, serverVars>>

SynthesisEnds(c) ==
  /\ Idle(c)
  /\ Go(c, IF at[c] = "once" THEN "close" ELSE "read")
  /\ IF at[c] = "stop" THEN Untrack(c, "tts") ELSE UNCHANGED tracked
  /\ UNCHANGED <<limiterVars, closing, begun, sttVars, lockVars, poolVars, late, serverVars>>

\* A queue timeout, a failed write, or a failing split or engine: the handler gives
\* up, a call in progress keeps the lock until it returns.
SynthesisFails(c) ==
  /\ at[c] \in Speaking /\ SplitOver(c)
  /\ Leave("tts", c)
  /\ Untrack(c, "tts")
  /\ Go(c, "finish")
  /\ UNCHANGED <<limiterVars, closing, begun, sttVars, holder, poolVars, late, serverVars>>

--------------------------------------------------------------------------------
(* Shutdown. *)

StopAccepting ==
  /\ phase = "serve"
  /\ phase' = "drain"
  /\ accepting' = FALSE
  /\ drains' = [s \in Services |-> "waiting"]
  /\ waiters' = [s \in Services |-> Append(waiters[s], Drain)]
  /\ UNCHANGED <<active, at, closing, routeVars, sttVars, holder, poolVars, late, engine>>

Drained(s) ==
  /\ holder[s] = Drain
  /\ Release(s)
  /\ drains' = [drains EXCEPT ![s] = "drained"]
  /\ UNCHANGED <<limiterVars, at, closing, routeVars, sttVars, waiters, poolVars, late, phase, engine>>

\* Faulty: the shutdown waits for the calls in progress for ever.
DrainForEver(s) == FALSE

DrainTimeout(s) ==
  /\ drains[s] = "waiting" /\ holder[s] # Drain
  /\ Leave(s, Drain)
  /\ drains' = [drains EXCEPT ![s] = "timeout"]
  /\ UNCHANGED <<limiterVars, at, closing, routeVars, sttVars, holder, poolVars, late, phase, engine>>

\* server.stop closes every writer and ends every reader.
ServerStop ==
  /\ phase = "drain"
  /\ \A s \in Services : drains[s] # "waiting"
  /\ phase' = "idle"
  /\ closing' = [c \in Conns |-> closing[c] \/ c \in Admitted]
  /\ UNCHANGED <<limiterVars, at, routeVars, sttVars, lockVars, poolVars, late, drains, engine>>

\* Every slot is free, or SHUTDOWN_DRAIN has passed; the executor takes no more.
ShutExecutor ==
  /\ phase = "idle"
  /\ phase' = "pool"
  /\ drains' = [s \in Services |-> "none"]
  /\ late' = {}
  /\ UNCHANGED <<limiterVars, at, closing, routeVars, sttVars, lockVars, poolVars, engine>>

\* Faulty: the executor is taken to stop when it is told to.
ExecutorTold == phase = "pool"

ExecutorIdle == \A k \in Calls, c \in Conns : job[k][c] = "none"

ExecutorStopped ==
  /\ phase = "pool"
  /\ ExecutorIdle
  /\ phase' = "engine"
  /\ UNCHANGED <<limiterVars, at, closing, routeVars, sttVars, lockVars, poolVars, late, drains, engine>>

CloseEngine ==
  /\ phase = "engine"
  /\ phase' = "ended"
  /\ engine' = "closed"
  /\ UNCHANGED <<limiterVars, at, closing, routeVars, sttVars, lockVars, poolVars, late, drains>>

\* The executor did not stop in time: calls that wait for a thread are cancelled
\* and the engine stays open.
ExecutorTimeout ==
  /\ phase = "pool"
  /\ ~ExecutorIdle
  /\ phase' = "ended"
  /\ backlog' = <<>>
  /\ job' = [k \in Calls |-> [c \in Conns |-> IF job[k][c] = "queued" THEN "none" ELSE job[k][c]]]
  /\ UNCHANGED <<limiterVars, at, closing, routeVars, sttVars, lockVars, late, drains, engine>>

--------------------------------------------------------------------------------
HandlerStep(c) ==
  \/ Connect(c) \/ ReadEnds(c) \/ ClientCloses(c) \/ Written(c)
  \/ Disconnect(c) \/ ReleaseSlot(c) \/ TurnedAway(c)

SttStep(c) ==
  \/ SttInvalid(c) \/ HandleTranscribe(c) \/ HandleAudioStart(c)
  \/ HandleAudioChunk(c) \/ ConversionEnds(c) \/ HandleAudioStop(c)
  \/ QueueTimeout(c) \/ SkipInference(c) \/ StartInference(c) \/ InferenceEnds(c)
  \/ FailureWritten(c)

TtsStep(c) ==
  \/ HandleSynthesize(c) \/ HandleSynthesizeStart(c)
  \/ HandleSynthesizeText(c, "chunk") \/ HandleSynthesizeText(c, "stop")
  \/ NextPart(c) \/ NextText(c) \/ ProducerCalls(c) \/ ProducerReleases(c)
  \/ SynthesisEnds(c) \/ SynthesisFails(c)

LockStep(s) == Grant(s) \/ Drained(s) \/ DrainTimeout(s)

PoolStep ==
  \/ ThreadTakes
  \/ \E k \in Calls, c \in Conns : CallReturns(k, c) \/ Hang(k, c)

ShutdownStep ==
  \/ StopAccepting \/ ServerStop \/ ShutExecutor
  \/ ExecutorStopped \/ ExecutorTimeout \/ CloseEngine

\* The event loop ends with run_server: what is left is cancelled.
Next ==
  \/ phase # "ended" /\ \E c \in Conns : HandlerStep(c) \/ SttStep(c) \/ TtsStep(c)
  \/ phase # "ended" /\ \E s \in Services : LockStep(s)
  \/ phase # "ended" /\ PoolStep
  \/ ShutdownStep

\* Every thread is held by a call that does not return.
AllHung == Workers <= Cardinality({call \in InProgress : job[call[1]][call[2]] = "hung"})

\* A call that hangs, or is behind calls that do.
Stuck(k, c) == job[k][c] = "hung" \/ (AllHung /\ job[k][c] = "queued")

\* The event loop runs what is ready, every wait has a timeout, and a text has
\* finitely many clauses, parts and calls; except the wait for a client's next
\* event while its writer is open and the waits for the executor, whose calls may
\* hang.
HandlerGoesOn(c) ==
  /\ phase # "ended"
  /\ \/ Written(c) \/ Disconnect(c) \/ ReleaseSlot(c)
     \/ ConversionEnds(c) \/ QueueTimeout(c) \/ SkipInference(c) \/ StartInference(c)
     \/ InferenceEnds(c) \/ FailureWritten(c)
     \/ ~Stuck("tts", c) /\ (SynthesisEnds(c) \/ SynthesisFails(c))
     \/ closing[c] /\ ReadEnds(c)

NativeGoesOn(c) == phase # "ended" /\ \E k \in Calls : CallReturns(k, c)

LockGoesOn(s) == phase # "ended" /\ (Grant(s) \/ Drained(s) \/ DrainTimeout(s))

PoolGoesOn == phase # "ended" /\ ThreadTakes

ShutdownGoesOn ==
  \/ ServerStop \/ ShutExecutor \/ ExecutorStopped \/ ExecutorTimeout \/ CloseEngine

Fairness ==
  /\ \A c \in Conns : WF_vars(HandlerGoesOn(c)) /\ WF_vars(NativeGoesOn(c))
  /\ \A s \in Services : WF_vars(LockGoesOn(s))
  /\ WF_vars(PoolGoesOn) /\ WF_vars(ShutdownGoesOn)

Spec == Init /\ [][Next]_vars /\ Fairness

--------------------------------------------------------------------------------
(* Properties *)

TypeOK ==
  /\ accepting \in BOOLEAN /\ active \in Nat
  /\ at \in [Conns -> Outside \cup Speaking \cup
               {"read", "finish", "close", "release", "convert", "queue", "infer",
                "failing"}]
  /\ closing \in [Conns -> BOOLEAN]
  /\ tracked \in [Conns -> SUBSET Services] /\ begun \in [Conns -> SUBSET Services]
  /\ started \in [Conns -> BOOLEAN]
  /\ reserved \in [Conns -> 0..AudioLimit]
  /\ transcripts \in [Conns -> Nat] /\ budget \in 0..BudgetMaximum
  /\ holder \in [Services -> Conns \cup {Drain, Free}]
  /\ waiters \in [Services -> Seq(Conns \cup {Drain})]
  /\ job \in [Calls -> [Conns -> {"none", "queued", "running", "hung"}]]
  /\ backlog \in Seq(Calls \X Conns)
  /\ phase \in {"serve", "drain", "idle", "pool", "engine", "ended"}
  /\ drains \in [Services -> {"none", "waiting", "drained", "timeout"}]
  /\ late \subseteq Services /\ engine \in {"open", "closed"}

\* The counter of the limiter is the number of handlers that hold a slot, on
\* every way a connection can end: rejected, failed, silent, stopped.
SlotsExact == active = Cardinality(Admitted)

\* Load from other hosts leaves the reserve to loopback clients, so that the
\* health check of a busy container is admitted.
ReserveKept ==
  /\ Cardinality(Admitted \cap Remote) <= MaximumConnections
  /\ Cardinality(Admitted \cap Local) < LocalReserve => active < MaximumConnections + LocalReserve

\* The shared budget counts exactly the audio that open connections hold, and
\* nothing is held by one that ended or that handed its audio to the engine.
BudgetExact ==
  /\ budget = FoldFunction(LAMBDA a, b : a + b, 0, reserved)
  /\ \A c \in Conns :
       reserved[c] > 0 => at[c] \in {"read", "finish", "close", "convert", "queue"} \cup Speaking

\* A connection is sent at most one transcript, after which it reads no event.
OneTranscript ==
  \A c \in Conns : transcripts[c] <= 1 /\ (transcripts[c] = 1 => at[c] # "read")

HoldersOf(s) == {holder[s]} \ {Free}
CallsOf(s)   == {c \in Conns : job[s][c] # "none"}

SttLease == INSTANCE EngineLease WITH
  Requests <- Conns \cup {Drain}, holders <- HoldersOf("stt"), calls <- CallsOf("stt")
TtsLease == INSTANCE EngineLease WITH
  Requests <- Conns \cup {Drain}, holders <- HoldersOf("tts"), calls <- CallsOf("tts")

\* Both engines, shutdown included, are used as the lease specification says:
\* one call at a time, under the lock, which is not freed under a call.
SttLeased == SttLease!LeaseSpec
TtsLeased == TtsLease!LeaseSpec

\* The executor's queue has no limit of its own; it is kept short since a handler
\* waits for one call at a time, and of those that gave up only the holder of the
\* TTS lock may have left a call.
CallsBounded == Cardinality(InProgress) <= Cardinality(Admitted) + 1

\* "Inference is serialized by the STT and TTS locks, so a small pool is enough: one
\* STT recognition, one TTS chunk, and their iterator cleanup never exceed it"
\* (const.py:200): no call waits for a thread.
PoolNeverExceeded == Cardinality(InProgress) <= Workers

\* Once the shutdown has drained a lock, no call is in progress under it but
\* one that began after the drain (__main__.py:693).
DrainedIsIdle ==
  \A s \in Services : drains[s] = "drained" /\ s \notin late =>
    \A c \in Conns : job[s][c] = "none"

ServiceOf(k) == IF k = "split" THEN "tts" ELSE k

\* During shutdown a native call starts only for a request whose first event
\* was accepted before it.
NoNewRequestInShutdown ==
  [][\A k \in Calls, c \in Conns :
       job[k][c] = "none" /\ job'[k][c] # "none" /\ ~accepting => ServiceOf(k) \in begun[c]]_vars

\* The TTS engine is closed only after the last native call, and no call
\* starts from then on.
ClosedAfterCalls ==
  engine = "closed" => \A k \in Calls, c \in Conns : job[k][c] = "none"

\* The shutdown ends whatever the clients and the native calls do.
ShutdownEnds == phase # "serve" ~> phase = "ended"

\* A connection whose writer closed, and one that asked for its transcript,
\* gives its slot back, unless its call hangs or is behind calls that do.
ConnectionsEnd ==
  \A c \in Conns :
    (c \in Admitted /\ (closing[c] \/ at[c] = "queue"))
      ~> (at[c] = "gone" \/ phase = "ended" \/ \E k \in Calls : Stuck(k, c))

\* Connections keep to their slots, and the reserve to loopback clients.
SlotsKept == SlotsExact /\ ReserveKept

\* What connections share is taken and given back exactly: the audio budget, the
\* executor, and one transcript for one audio.
SharesExact == TypeOK /\ BudgetExact /\ OneTranscript /\ CallsBounded

\* Both engines are leased.
EnginesLeased == SttLeased /\ TtsLeased

\* The shutdown lets calls that began end, begins no others, and closes last.
ShutdownOrdered == []DrainedIsIdle /\ []ClosedAfterCalls /\ NoNewRequestInShutdown

================================================================================
