------------------------------- MODULE NghiVoices -------------------------------
(***************************************************************************)
(* The NghiTTS engine of tts.py: voices that are loaded on demand within a *)
(* memory budget, and the worker thread each synthesis runs in, bridged to *)
(* the caller by a bounded queue.  The inference lock admits one caller at *)
(* a time (SynthesisPipeline, SpeechServer); a worker may outlive it.      *)
(***************************************************************************)
EXTENDS Integers, Sequences, FiniteSets, SequencesExt

CONSTANTS
  Voices,        \* all_voices
  Workers,       \* bound: worker threads that exist at a time
  NoWorker,      \* no worker: the guard's slot is None
  NoVoice,       \* no model
  MaxLoaded,     \* max_loaded
  QueueSize,     \* maxsize of the worker's queue
  Interval,      \* min_replacement_interval; ages saturate there
  MaxAudio       \* bound: callbacks with audio in a native call

ASSUME VoicesAssumption ==
  /\ MaxLoaded \in 1..Cardinality(Voices) /\ NoWorker \notin Workers /\ NoVoice \notin Voices
  /\ QueueSize \in Nat \ {0} /\ Interval \in Nat \ {0} /\ MaxAudio \in Nat \ {0}

VARIABLES
  engines,   \* _engines: loaded voices, the least recently used first
  age,       \* time since _last_replacement_monotonic, up to Interval
  replaced,  \* _last_replacement_monotonic is set
  guard,     \* _worker of the shared guard
  thread,    \* of each worker: where it is
  voice,     \* of each worker: the model its native call uses
  queue,     \* of each worker: _queue
  stopped,   \* of each worker: _stop
  item,      \* of each worker: what it puts
  audio,     \* of each worker: callbacks that had audio
  caller,    \* where the caller is
  iterator,  \* the caller's iterator
  wanted,    \* the voice the caller is loading
  got,       \* history: items the caller took from its iterator
  older,     \* history: pairs of loaded voices, the first last used before the second
  pause      \* history: time since a voice was evicted, up to Interval

poolVars   == <<engines, age, replaced, wanted, older, pause>>
workerVars == <<guard, thread, voice, queue, stopped, item, audio>>
callerVars == <<caller, iterator, got>>
voicesVars == <<poolVars, workerVars, callerVars>>

\* What passes through a queue: the k-th sentence of the callback, what the
\* native call returned, an exception, or the end.
Item(kind, k) == [kind |-> kind, n |-> k]

Alive == {w \in Workers : thread[w] # "dead"}
InNative == {w \in Workers : thread[w] = "native"}

\* Startup voices come with the most recent first.
VoicesInit ==
  \E startup \in {s \in SeqOf(Voices, MaxLoaded) : s # <<>> /\ IsInjective(s)} :
    /\ engines = Reverse(startup)
    /\ older = {p \in Voices \X Voices : \E i, j \in DOMAIN startup :
                    j < i /\ p = <<startup[i], startup[j]>>}
    /\ age = Interval /\ replaced = FALSE /\ pause = Interval
    /\ guard = NoWorker
    /\ thread = [w \in Workers |-> "dead"]
    /\ voice = [w \in Workers |-> NoVoice]
    /\ queue = [w \in Workers |-> <<>>]
    /\ stopped = [w \in Workers |-> FALSE]
    /\ item = [w \in Workers |-> Item("done", 0)]
    /\ audio = [w \in Workers |-> 0]
    /\ caller = "idle" /\ iterator = NoWorker /\ wanted = NoVoice /\ got = <<>>

\* move_to_end of the k-th voice
Latest(s, k) ==
  [i \in 1..Len(s) |-> IF i < k THEN s[i] ELSE IF i < Len(s) THEN s[i + 1] ELSE s[k]]

\* The voice is used now, and those in others are loaded.
Touched(v, others) == (older \cap (others \X others)) \cup (others \X {v})

--------------------------------------------------------------------------------
(* The voices. *)

\* The tracked worker still runs.
Busy == guard # NoWorker /\ guard \in Alive

\* Faulty: a worker that outlives its request is not looked at.
NeverBusy == FALSE

\* start of the guard: synthesis would run beside an earlier one
BusyForStart == Busy

\* ensure_idle, before a model is loaded
BusyForLoad == Busy

\* Faulty: replacements are not limited in rate.
NeverTooSoon == FALSE

TooSoon == Len(engines) >= MaxLoaded /\ replaced /\ age < Interval

\* The caller registers a worker with the guard and starts it; the request
\* fails when an earlier one still runs.
StartWorker(v) ==
  IF BusyForStart
  THEN /\ caller' = "idle"
       /\ UNCHANGED <<workerVars, iterator, got>>
  ELSE /\ Workers # Alive
       /\ LET w == CHOOSE w \in Workers : w \notin Alive
          IN /\ guard' = w /\ iterator' = w
             /\ thread' = [thread EXCEPT ![w] = "native"]
             /\ voice' = [voice EXCEPT ![w] = v]
       /\ caller' = "open"
       /\ UNCHANGED <<queue, stopped, item, audio, got>>

\* infer_stream_normalized with a voice that is loaded
UseLoaded(v) ==
  /\ caller = "idle"
  /\ \E k \in DOMAIN engines : engines[k] = v /\ engines' = Latest(engines, k)
  /\ older' = Touched(v, Range(engines) \ {v})
  /\ StartWorker(v)
  /\ UNCHANGED <<age, replaced, wanted, pause>>

\* A voice that is not loaded: refused, or the model is read from disk.
BeginLoad(v) ==
  /\ caller = "idle" /\ v \notin Range(engines)
  /\ IF BusyForLoad \/ TooSoon
     THEN UNCHANGED <<caller, wanted>>
     ELSE caller' = "loading" /\ wanted' = v
  /\ UNCHANGED <<engines, age, replaced, older, pause, workerVars, iterator, got>>

LoadFails ==
  /\ caller = "loading"
  /\ caller' = "idle" /\ wanted' = NoVoice
  /\ UNCHANGED <<engines, age, replaced, older, pause, workerVars, iterator, got>>

\* Faulty: the voices used last are unloaded.
NewestGo(s) == SubSeq(s, 1, MaxLoaded - 1)

\* Faulty: room is made one voice too late.
KeptOneMore(s) == SubSeq(s, Len(s) - MaxLoaded + 1, Len(s))

\* The voices that stay when room is made for one more.
Kept(s) == SubSeq(s, Len(s) - MaxLoaded + 2, Len(s))

\* The model is ready: the least recently used voices are unloaded, and the
\* synthesis starts.
EndLoad ==
  /\ caller = "loading"
  /\ LET full == Len(engines) >= MaxLoaded
         kept == IF full THEN Kept(engines) ELSE engines
     IN /\ engines' = Append(kept, wanted)
        /\ older' = Touched(wanted, Range(kept))
        /\ pause' = IF full THEN 0 ELSE pause
  /\ age' = 0 /\ replaced' = TRUE
  /\ wanted' = NoVoice
  /\ StartWorker(wanted)

Older(t) == IF t < Interval THEN t + 1 ELSE t

Tick ==
  /\ age < Interval \/ pause < Interval
  /\ age' = Older(age) /\ pause' = Older(pause)
  /\ UNCHANGED <<engines, replaced, wanted, older, workerVars, callerVars>>

--------------------------------------------------------------------------------
(* The worker thread. *)

Goes(w, place) == thread' = [thread EXCEPT ![w] = place]

\* _put of x: the worker looks at _stop, then waits for room.
Puts(w, x) == item' = [item EXCEPT ![w] = x] /\ Goes(w, "check")

OnlyWorker(w) == UNCHANGED <<poolVars, callerVars, guard, voice, stopped>>

\* The native call delivers a sentence; an empty one is not put.
OnAudio(w) ==
  /\ thread[w] = "native" /\ audio[w] < MaxAudio
  /\ audio' = [audio EXCEPT ![w] = @ + 1]
  /\ Puts(w, Item("audio", audio[w] + 1))
  /\ UNCHANGED queue
  /\ OnlyWorker(w)

\* generate returns: what it returns is put if the callback had no audio.
NativeReturns(w) ==
  /\ thread[w] = "native"
  /\ \/ /\ audio[w] = 0 /\ ~stopped[w]
        /\ Puts(w, Item("last", 0))
     \/ Puts(w, Item("done", 0))
  /\ UNCHANGED <<queue, audio>>
  /\ OnlyWorker(w)

NativeFails(w) ==
  /\ thread[w] = "native"
  /\ Puts(w, Item("error", 0))
  /\ UNCHANGED <<queue, audio>>
  /\ OnlyWorker(w)

\* Where the worker goes on after it put its item, or gave up.
Onward(w) ==
  CASE item[w].kind = "done" -> Goes(w, "exit") /\ UNCHANGED item
    [] item[w].kind \in {"last", "error"} -> Puts(w, Item("done", 0))
    [] OTHER -> Goes(w, "native") /\ UNCHANGED item

\* Faulty: a full queue is waited for whether or not the worker is stopped.
Heedless(w) == FALSE

\* _stop is set: the item is given up.
GivesUp(w) == stopped[w]

Check(w) ==
  /\ thread[w] = "check"
  /\ IF GivesUp(w) THEN Onward(w) ELSE Goes(w, "put") /\ UNCHANGED item
  /\ UNCHANGED <<queue, audio>>
  /\ OnlyWorker(w)

\* Faulty: an item that finds no room is dropped.
PutOrDrop(w) ==
  /\ thread[w] = "put"
  /\ queue' = [queue EXCEPT ![w] = IF Len(@) < QueueSize THEN Append(@, item[w]) ELSE @]
  /\ Onward(w)
  /\ UNCHANGED audio
  /\ OnlyWorker(w)

\* The item is put if there is room within 0.1 seconds.
Put(w) ==
  /\ thread[w] = "put"
  /\ IF Len(queue[w]) < QueueSize
     THEN queue' = [queue EXCEPT ![w] = Append(@, item[w])] /\ Onward(w)
     ELSE Goes(w, "check") /\ UNCHANGED <<queue, item>>
  /\ UNCHANGED audio
  /\ OnlyWorker(w)

\* An iterator whose thread ended and whose caller is gone is collected.
Collect(w) ==
  /\ queue' = [queue EXCEPT ![w] = <<>>]
  /\ stopped' = [stopped EXCEPT ![w] = FALSE]
  /\ audio' = [audio EXCEPT ![w] = 0]

\* The worker gives the slot of the guard back, and its thread ends.
Exit(w) ==
  /\ thread[w] = "exit"
  /\ guard' = IF guard = w THEN NoWorker ELSE guard
  /\ Goes(w, "dead")
  /\ voice' = [voice EXCEPT ![w] = NoVoice]
  /\ IF iterator = w THEN UNCHANGED <<queue, stopped, audio>> ELSE Collect(w)
  /\ UNCHANGED <<poolVars, callerVars, item>>

--------------------------------------------------------------------------------
(* The caller's iterator. *)

OnlyCaller == UNCHANGED <<poolVars, guard, thread, voice, item, audio>>

TakeNext ==
  /\ caller = "open"
  /\ caller' = "waiting"
  /\ UNCHANGED <<iterator, got, queue, stopped>>
  /\ OnlyCaller

\* __next__ returns audio, raises the error, or waits for the thread to end.
Got ==
  /\ caller = "waiting" /\ queue[iterator] # <<>>
  /\ LET x == Head(queue[iterator])
     IN /\ queue' = [queue EXCEPT ![iterator] = Tail(@)]
        /\ got' = Append(got, x)
        /\ caller' = CASE x.kind = "done" -> "joining" [] x.kind = "error" -> "failed"
                       [] OTHER -> "open"
  /\ UNCHANGED <<iterator, stopped>>
  /\ OnlyCaller

\* The caller is done with its iterator, which is forgotten.
Forgets ==
  /\ caller' = "idle" /\ iterator' = NoWorker /\ got' = <<>>
  /\ IF iterator \in Alive THEN UNCHANGED <<queue, stopped, audio>> ELSE Collect(iterator)
  /\ UNCHANGED <<poolVars, guard, thread, voice, item>>

Joined == caller = "joining" /\ iterator \notin Alive /\ Forgets

\* The request is abandoned or failed: close.
Close ==
  /\ caller \in {"open", "failed"}
  /\ stopped' = [stopped EXCEPT ![iterator] = TRUE]
  /\ caller' = "closing"
  /\ UNCHANGED <<iterator, got, queue>>
  /\ OnlyCaller

CloseDrains ==
  /\ caller = "closing" /\ iterator \in Alive /\ queue[iterator] # <<>>
  /\ queue' = [queue EXCEPT ![iterator] = Tail(@)]
  /\ UNCHANGED <<caller, iterator, got, stopped>>
  /\ OnlyCaller

\* Faulty: there is no limit to the time a worker may take to end.
ClosedPatiently == iterator \notin Alive

\* The thread ended, or had five seconds for it.
Closed == TRUE

CloseEnds == caller = "closing" /\ Closed /\ Forgets

--------------------------------------------------------------------------------
WorkerStep(w) ==
  OnAudio(w) \/ NativeReturns(w) \/ NativeFails(w) \/ Check(w) \/ Put(w) \/ Exit(w)

CallerStep == LoadFails \/ EndLoad \/ Got \/ Joined \/ Close \/ CloseDrains \/ CloseEnds

VoicesNext ==
  \/ \E v \in Voices : UseLoaded(v) \/ BeginLoad(v)
  \/ \E w \in Workers : WorkerStep(w)
  \/ TakeNext \/ CallerStep \/ Tick

\* A thread outside the native call runs on; the call itself may hang.  The
\* caller's own steps are taken, and close comes to an end.
WorkerRuns(w) == Check(w) \/ Put(w) \/ Exit(w)
CallerRuns    == Got \/ Joined \/ CloseEnds

VoicesSpec ==
  /\ VoicesInit /\ [][VoicesNext]_voicesVars
  /\ \A w \in Workers : WF_voicesVars(WorkerRuns(w))
  /\ WF_voicesVars(CallerRuns)

--------------------------------------------------------------------------------
(* Properties *)

Items == [kind : {"audio", "last", "error", "done"}, n : 0..MaxAudio]

VoicesTypeOK ==
  /\ engines \in Seq(Voices) /\ IsInjective(engines) /\ Len(engines) \in 1..MaxLoaded
  /\ age \in 0..Interval /\ pause \in 0..Interval /\ replaced \in BOOLEAN
  /\ guard \in Workers \cup {NoWorker} /\ iterator \in Workers \cup {NoWorker}
  /\ thread \in [Workers -> {"native", "check", "put", "exit", "dead"}]
  /\ voice \in [Workers -> Voices \cup {NoVoice}] /\ wanted \in Voices \cup {NoVoice}
  /\ \A w \in Workers : queue[w] \in Seq(Items) /\ Len(queue[w]) <= QueueSize
  /\ stopped \in [Workers -> BOOLEAN] /\ audio \in [Workers -> 0..MaxAudio]
  /\ caller \in {"idle", "loading", "open", "waiting", "failed", "joining", "closing"}

\* The native library is never in two synthesis calls at once, although a
\* request that gave up leaves its worker behind (tts.py:195).
OneNativeCall == Cardinality(InNative) <= 1

\* Models in memory, those a worker still holds on to included, stay within
\* the budget; while one is read from disk there is one more (tts.py:567).
MemoryBounded ==
  Cardinality(Range(engines) \cup {voice[w] : w \in Alive}) <= MaxLoaded

\* Voices are evicted no faster than one per interval (tts.py:570).
PacedEviction == [][Range(engines) \ Range(engines') # {} => pause >= Interval]_voicesVars

\* A voice is evicted only if the others were used after it (tts.py:592).
OldestEvicted ==
  [][\A v \in Range(engines) \ Range(engines'), u \in Range(engines) \cap Range(engines') :
       <<v, u>> \in older]_voicesVars

\* An iterator that comes to its end gave every sentence the worker made, in
\* order and once, and one that fails those made before the failure (tts.py:270).
AllDelivered ==
  caller \in {"joining", "failed"} =>
    LET ending == Item(IF caller = "joining" THEN "done" ELSE "error", 0)
    IN \/ got = Append([k \in 1..audio[iterator] |-> Item("audio", k)], ending)
       \/ got = <<Item("last", 0), ending>> /\ audio[iterator] = 0 /\ caller = "joining"

\* A worker that was told to stop ends once its native call does, also when
\* nobody empties its queue any more (tts.py:283).
StoppedWorkerEnds ==
  \A w \in Workers :
    (stopped[w] /\ thread[w] \in {"check", "put", "exit"}) ~>
      (thread[w] \in {"native", "dead"})

\* The executor's thread is not held up for ever: whatever it waits for comes,
\* or the native call hangs (tts.py:322).
CallerAnswered ==
  /\ caller \in {"joining", "closing"} ~> caller = "idle"
  /\ caller = "waiting" ~> (caller # "waiting" \/ thread[iterator] = "native")

\* Voices keep within the memory, and make room for others in the order of their use
\* and not in a rush.
VoicesKept == [](VoicesTypeOK /\ MemoryBounded) /\ PacedEviction /\ OldestEvicted

\* Neither side of the queue waits for ever for the other.
NobodyWaits == StoppedWorkerEnds /\ CallerAnswered
--------------------------------------------------------------------------------
(* The inductive invariant behind the properties. *)

ThreadTypes == thread \in [Workers -> {"native", "check", "put", "exit", "dead"}]

\* The guard knows the worker that runs, and there is one at most.
GuardInv == ThreadTypes /\ \A w \in Alive : guard = w

\* What a running worker uses is loaded, and none runs while a model is read; the
\* loaded voices are in the order of their use.
PoolInv ==
  /\ engines \in Seq(Voices) /\ IsInjective(engines) /\ Len(engines) \in 1..MaxLoaded
  /\ wanted \in Voices \cup {NoVoice} /\ voice \in [Workers -> Voices \cup {NoVoice}]
  /\ guard \in Workers \cup {NoWorker}
  /\ \A i, j \in DOMAIN engines : i < j => <<engines[i], engines[j]>> \in older
  /\ \A w \in Alive : voice[w] \in Range(engines)
  /\ caller = "loading" => wanted \in Voices \ Range(engines) /\ Alive = {}

\* The time since a replacement is not longer than the time since an eviction, and a
\* model is read into a full pool only when enough of it has passed.
PaceInv ==
  /\ age \in 0..Interval /\ pause \in 0..Interval /\ replaced \in BOOLEAN
  /\ age <= pause /\ (~replaced => age = Interval)
  /\ caller = "loading" => ~TooSoon

\* The worker of no caller leaves a clean iterator behind.
QueueInv ==
  /\ queue \in [Workers -> Seq(Items)] /\ \A w \in Workers : Len(queue[w]) <= QueueSize
  /\ stopped \in [Workers -> BOOLEAN] /\ audio \in [Workers -> 0..MaxAudio]
  /\ item \in [Workers -> Items] /\ got \in Seq(Items)
  /\ caller \in {"idle", "loading", "open", "waiting", "failed", "joining", "closing"}
  /\ IF caller \in {"idle", "loading"} THEN iterator = NoWorker /\ got = <<>>
     ELSE iterator \in Workers
  /\ \A w \in Workers : thread[w] = "dead" /\ w # iterator =>
       queue[w] = <<>> /\ ~stopped[w] /\ audio[w] = 0

\* Where an item has its place in the stream of a worker: the sentences of the callback,
\* or what the call returned, then the error, then the end.
Fits(w, place, x) ==
  \/ x = Item("audio", place) /\ place <= audio[w]
  \/ x = Item("last", 0) /\ place = 1 /\ audio[w] = 0
  \/ x = Item("error", 0) /\ place = audio[w] + 1
  \/ x = Item("done", 0) /\ place \in {audio[w] + 1, audio[w] + 2}

\* What the caller took, what is in the queue and what the worker holds have their
\* places in the stream, one after the other.
LineInv(w) ==
  LET last == Len(got) + Len(queue[w])
  IN /\ ~stopped[w]
     /\ \A i \in 1..Len(got) : Fits(w, i, got[i])
     /\ \A i \in 1..Len(queue[w]) : Fits(w, Len(got) + i, queue[w][i])
     /\ thread[w] = "native" => last = audio[w]
     /\ thread[w] \in {"check", "put"} =>
          Fits(w, last + 1, item[w]) /\ (item[w].kind = "audio" => last + 1 = audio[w])

\* The caller goes on until it takes the end or an error.
TakenInv ==
  LET open == caller \in {"open", "waiting"}
      end  == IF caller = "joining" THEN "done" ELSE "error"
  IN /\ ~open => got # <<>> /\ got[Len(got)].kind = end
     /\ \A i \in 1..Len(got) : open \/ i < Len(got) => got[i].kind \in {"audio", "last"}

StreamInv == caller \in {"open", "waiting", "joining", "failed"} => LineInv(iterator) /\ TakenInv

VoicesInv == GuardInv /\ PoolInv /\ PaceInv /\ QueueInv /\ StreamInv
================================================================================
