---------------------------- MODULE NghiVoicesProofs ----------------------------
(***************************************************************************)
(* The voices and the worker threads of NghiVoices, for any voices, any    *)
(* number of threads and any bounds of memory, queue, audio and time.      *)
(***************************************************************************)
EXTENDS NghiVoices, TLAPS, FiniteSetTheorems

\* The guards agree at the start.
LEMMA InitGuard == VoicesInit => GuardInv
BY DEF VoicesInit, GuardInv, ThreadTypes, Alive

\* A worker is started only when none is left, so that the guard may forget whom it had.
LEMMA StartGuard ==
  ASSUME GuardInv, NEW v, StartWorker(v)
  PROVE  GuardInv'
<1>1. CASE BusyForStart
  BY <1>1 DEF StartWorker, workerVars, GuardInv, ThreadTypes, Alive
<1>2. CASE ~BusyForStart
  <2>1. Alive = {}
    BY <1>2, VoicesAssumption DEF BusyForStart, Busy, GuardInv, Alive
  <2> DEFINE w == CHOOSE w \in Workers : w \notin Alive
  <2>2. w \in Workers
    BY <1>2, <2>1 DEF StartWorker
  <2>3. guard' = w /\ thread' = [thread EXCEPT ![w] = "native"]
    BY <1>2 DEF StartWorker
  <2> HIDE DEF w
  <2> QED BY <2>1, <2>2, <2>3 DEF GuardInv, ThreadTypes, Alive
<1> QED BY <1>1, <1>2

\* A worker goes from place to place until it gives the guard back.
LEMMA WorkerGuard ==
  ASSUME GuardInv, NEW w \in Workers, WorkerStep(w)
  PROVE  GuardInv'
<1>1. CASE thread[w] # "exit"
  <2>1. thread[w] # "dead" /\ guard' = guard
    BY <1>1 DEF WorkerStep, OnAudio, NativeReturns, NativeFails, Check, Put, Exit, OnlyWorker
  <2>2. \E p \in {"native", "check", "put", "exit"} : thread' = [thread EXCEPT ![w] = p]
    BY <1>1 DEF WorkerStep, OnAudio, NativeReturns, NativeFails, Check, Put, Exit, Onward, Puts, Goes
  <2> QED BY <2>1, <2>2 DEF GuardInv, ThreadTypes, Alive
<1>2. CASE thread[w] = "exit"
  <2>1. thread' = [thread EXCEPT ![w] = "dead"] /\ guard' = IF guard = w THEN NoWorker ELSE guard
    BY <1>2 DEF WorkerStep, OnAudio, NativeReturns, NativeFails, Check, Put, Exit, Goes
  <2> QED BY <1>2, <2>1 DEF GuardInv, ThreadTypes, Alive
<1> QED BY <1>1, <1>2

\* Every step keeps the guards in agreement.
LEMMA NextGuard == GuardInv /\ [VoicesNext]_voicesVars => GuardInv'
<1> SUFFICES ASSUME GuardInv, [VoicesNext]_voicesVars PROVE GuardInv'
  OBVIOUS
<1>1. ASSUME NEW v \in Voices, UseLoaded(v) PROVE GuardInv'
  BY <1>1, StartGuard DEF UseLoaded
<1>2. CASE EndLoad
  BY <1>2, StartGuard DEF EndLoad
<1>3. ASSUME NEW w \in Workers, WorkerStep(w) PROVE GuardInv'
  BY <1>3, WorkerGuard
<1>4. ASSUME NEW v \in Voices, BeginLoad(v) PROVE GuardInv'
  BY <1>4 DEF BeginLoad, workerVars, GuardInv, ThreadTypes, Alive
<1>5. CASE TakeNext \/ LoadFails \/ Got \/ Joined \/ Close \/ CloseDrains \/ CloseEnds \/ Tick
  <2>1. guard' = guard /\ thread' = thread
    BY <1>5 DEF TakeNext, LoadFails, Got, Joined, Close, CloseDrains, CloseEnds, Tick, Forgets,
                OnlyCaller, workerVars
  <2> QED BY <2>1 DEF GuardInv, ThreadTypes, Alive
<1>6. CASE UNCHANGED voicesVars
  BY <1>6 DEF voicesVars, workerVars, GuardInv, ThreadTypes, Alive
<1> QED
  BY <1>1, <1>2, <1>3, <1>4, <1>5, <1>6 DEF VoicesNext, CallerStep

--------------------------------------------------------------------------------
\* The guard of the worker threads keeps a synthesis from starting beside the native
\* call of one that was abandoned (_NghiWorkerGuard, infer_stream_normalized).
THEOREM NativeCallsExclude == VoicesSpec => []OneNativeCall
<1>1. GuardInv => OneNativeCall
  <2> SUFFICES ASSUME GuardInv PROVE Cardinality(InNative) <= 1
    BY DEF OneNativeCall
  <2>1. InNative \subseteq {guard}
    BY DEF GuardInv, InNative, Alive
  <2>2. InNative = {} \/ InNative = {guard}
    BY <2>1
  <2>3. Cardinality({}) = 0 /\ Cardinality({guard}) = 1
    BY FS_EmptySet, FS_Singleton
  <2> QED BY <2>2, <2>3
<1> QED
  BY <1>1, InitGuard, NextGuard, PTL DEF VoicesSpec

--------------------------------------------------------------------------------
(* The pool of voices. *)

\* A pool without doubles, in the order of the relation r.
Pool(s, r) ==
  /\ s \in Seq(Voices) /\ IsInjective(s)
  /\ \A i, j \in DOMAIN s : i < j => <<s[i], s[j]>> \in r

\* What a pool is, by places.
LEMMA PoolPlaces ==
  ASSUME NEW s, NEW r, Pool(s, r)
  PROVE  /\ s \in Seq(Voices) /\ Len(s) \in Nat /\ DOMAIN s = 1..Len(s)
         /\ \A i \in 1..Len(s) : s[i] \in Voices /\ s[i] \in Range(s)
         /\ \A v \in Range(s) : \E i \in 1..Len(s) : v = s[i]
         /\ \A i, j \in 1..Len(s) : s[i] = s[j] => i = j
         /\ \A i, j \in 1..Len(s) : i < j => <<s[i], s[j]>> \in r
<1>1. s \in Seq(Voices)
  BY DEF Pool
<1>2. Len(s) \in Nat /\ DOMAIN s = 1..Len(s) /\ \A i \in 1..Len(s) : s[i] \in Voices
  BY <1>1
<1>3. /\ \A i \in 1..Len(s) : s[i] \in Range(s)
      /\ \A v \in Range(s) : \E i \in 1..Len(s) : v = s[i]
  BY <1>2 DEF Range
<1>4. \A i, j \in 1..Len(s) : s[i] = s[j] => i = j
  BY <1>2, Zenon DEF Pool, IsInjective
<1>5. \A i, j \in 1..Len(s) : i < j => <<s[i], s[j]>> \in r
  BY <1>2, Zenon DEF Pool
<1> QED BY <1>1, <1>2, <1>3, <1>4, <1>5

\* A sequence with these places is a pool.
LEMMA PlacesPool ==
  ASSUME NEW t \in Seq(Voices), NEW r,
         \A i, j \in 1..Len(t) : t[i] = t[j] => i = j,
         \A i, j \in 1..Len(t) : i < j => <<t[i], t[j]>> \in r
  PROVE  Pool(t, r)
<1>1. DOMAIN t = 1..Len(t)
  OBVIOUS
<1> QED BY <1>1, Zenon DEF Pool, IsInjective

\* A voice that is used goes to the end.
LEMMA LatestPool ==
  ASSUME NEW s, Pool(s, older), NEW k \in DOMAIN s
  PROVE  /\ Pool(Latest(s, k), Touched(s[k], Range(s) \ {s[k]}))
         /\ Len(Latest(s, k)) = Len(s) /\ Range(Latest(s, k)) = Range(s)
<1> DEFINE t == Latest(s, k)
           m == [i \in 1..Len(s) |-> IF i < k THEN i ELSE IF i < Len(s) THEN i + 1 ELSE k]
           r == Touched(s[k], Range(s) \ {s[k]})
<1>1. /\ s \in Seq(Voices) /\ Len(s) \in Nat /\ DOMAIN s = 1..Len(s)
      /\ \A i \in 1..Len(s) : s[i] \in Voices /\ s[i] \in Range(s)
      /\ \A v \in Range(s) : \E i \in 1..Len(s) : v = s[i]
      /\ \A i, j \in 1..Len(s) : s[i] = s[j] => i = j
      /\ \A i, j \in 1..Len(s) : i < j => <<s[i], s[j]>> \in older
  BY PoolPlaces
<1>a. k \in 1..Len(s)
  BY <1>1
<1>b. \A i \in 1..Len(s) : m[i] = IF i < k THEN i ELSE IF i < Len(s) THEN i + 1 ELSE k
  OBVIOUS
<1>c. t = [i \in 1..Len(s) |-> s[m[i]]]
  <2>1. \A i \in 1..Len(s) : s[m[i]] = IF i < k THEN s[i] ELSE IF i < Len(s) THEN s[i + 1] ELSE s[k]
    BY <1>b
  <2> HIDE DEF m
  <2> QED BY <2>1 DEF Latest
<1> HIDE DEF t, m
<1>2. \A i \in 1..Len(s) : m[i] \in 1..Len(s)
  BY <1>1, <1>a, <1>b
<1>d. \A i, j \in 1..Len(s) : m[i] = m[j] => i = j
  BY <1>1, <1>a, <1>b
<1>e. \A i, j \in 1..Len(s) : i < j /\ m[j] # k => m[i] < m[j] /\ m[i] # k
  BY <1>1, <1>a, <1>b
<1>3. ASSUME NEW i \in 1..Len(s) PROVE \E j \in 1..Len(s) : m[j] = i
  <2> DEFINE j == IF i < k THEN i ELSE IF i > k THEN i - 1 ELSE Len(s)
  <2>1. j \in 1..Len(s)
    BY <1>1, <1>a
  <2>2. m[j] = i
    BY <1>1, <1>a, <1>b, <2>1
  <2> QED BY <2>1, <2>2
<1>4. t \in Seq(Voices) /\ Len(t) = Len(s) /\ DOMAIN t = 1..Len(s) /\ \A i \in 1..Len(s) : t[i] = s[m[i]]
  <2>1. \A i \in 1..Len(s) : s[m[i]] \in Voices
    BY <1>1, <1>2
  <2>2. t \in [1..Len(s) -> Voices] /\ \A i \in 1..Len(s) : t[i] = s[m[i]]
    BY <1>c, <2>1
  <2>3. t \in Seq(Voices) /\ DOMAIN t = 1..Len(s) /\ Len(t) = Len(s)
    BY <1>1, <2>2
  <2> QED BY <2>2, <2>3
<1>5. \A i, j \in 1..Len(s) : t[i] = t[j] => i = j
  BY <1>1, <1>2, <1>d, <1>4
<1>6. Range(t) = Range(s)
  <2>1. ASSUME NEW v \in Range(t) PROVE v \in Range(s)
    <3>1. PICK i \in 1..Len(s) : v = t[i]
      BY <1>4 DEF Range
    <3> QED BY <1>1, <1>2, <1>4, <3>1
  <2>2. ASSUME NEW v \in Range(s) PROVE v \in Range(t)
    <3>1. PICK i \in 1..Len(s) : v = s[i]
      BY <1>1
    <3>2. PICK j \in 1..Len(s) : m[j] = i
      BY <1>3
    <3>3. t[j] = v /\ j \in DOMAIN t
      BY <1>4, <3>1, <3>2
    <3> QED BY <3>3 DEF Range
  <2> QED BY <2>1, <2>2
<1>7. ASSUME NEW i \in 1..Len(s), NEW j \in 1..Len(s), i < j
      PROVE  <<t[i], t[j]>> \in r
  <2>1. m[i] \in 1..Len(s) /\ m[j] \in 1..Len(s) /\ m[i] # k
    <3>1. m[i] = k => m[j] = k
      BY <1>e, <1>7
    <3>2. m[i] # m[j]
      <4>1. i # j
        BY <1>7
      <4> QED BY <1>d, <4>1
    <3> QED BY <1>2, <3>1, <3>2
  <2>2. s[m[i]] \in Range(s) \ {s[k]}
    BY <1>1, <1>a, <2>1
  <2>3. CASE m[j] = k
    BY <1>4, <2>2, <2>3 DEF Touched
  <2>4. CASE m[j] # k
    <3>1. s[m[j]] \in Range(s) \ {s[k]}
      BY <1>1, <1>a, <2>1, <2>4
    <3>2. <<s[m[i]], s[m[j]]>> \in older
      BY <1>1, <1>e, <1>7, <2>1, <2>4
    <3> QED BY <1>4, <2>2, <3>1, <3>2 DEF Touched
  <2> QED BY <2>3, <2>4
<1>8. Pool(t, r)
  <2> HIDE DEF r
  <2> QED BY <1>4, <1>5, <1>7, PlacesPool
<1> QED BY <1>4, <1>6, <1>8 DEF t

\* A voice that was not there is added.
LEMMA AppendPool ==
  ASSUME NEW s, Pool(s, older), NEW v \in Voices \ Range(s)
  PROVE  /\ Pool(Append(s, v), Touched(v, Range(s)))
         /\ Len(Append(s, v)) = Len(s) + 1 /\ Range(Append(s, v)) = Range(s) \cup {v}
<1> DEFINE t == Append(s, v)
           r == Touched(v, Range(s))
<1>1. /\ s \in Seq(Voices) /\ Len(s) \in Nat /\ DOMAIN s = 1..Len(s)
      /\ \A i \in 1..Len(s) : s[i] \in Voices /\ s[i] \in Range(s)
      /\ \A u \in Range(s) : \E i \in 1..Len(s) : u = s[i]
      /\ \A i, j \in 1..Len(s) : s[i] = s[j] => i = j
      /\ \A i, j \in 1..Len(s) : i < j => <<s[i], s[j]>> \in older
  BY PoolPlaces
<1>2. /\ t \in Seq(Voices) /\ Len(t) = Len(s) + 1 /\ DOMAIN t = 1..(Len(s) + 1)
      /\ t[Len(s) + 1] = v /\ \A i \in 1..Len(s) : t[i] = s[i]
  BY <1>1
<1> HIDE DEF t
<1>3. \A i \in 1..(Len(s) + 1) : i \in 1..Len(s) \/ i = Len(s) + 1
  BY <1>1
<1>4. \A i, j \in 1..Len(t) : t[i] = t[j] => i = j
  <2>1. \A i \in 1..Len(s) : t[i] # v
    BY <1>1, <1>2
  <2> QED BY <1>1, <1>2, <1>3, <2>1
<1>5. Range(t) = Range(s) \cup {v}
  <2>1. Len(s) + 1 \in DOMAIN t /\ \A i \in 1..Len(s) : i \in DOMAIN t
    BY <1>1, <1>2
  <2>2. ASSUME NEW u \in Range(t) PROVE u \in Range(s) \cup {v}
    <3>1. PICK i \in 1..(Len(s) + 1) : u = t[i]
      BY <1>2 DEF Range
    <3> QED BY <1>1, <1>2, <1>3, <3>1
  <2>3. ASSUME NEW u \in Range(s) \cup {v} PROVE u \in Range(t)
    BY <1>1, <1>2, <2>1 DEF Range
  <2> QED BY <2>2, <2>3
<1>6. ASSUME NEW i \in 1..Len(t), NEW j \in 1..Len(t), i < j
      PROVE  <<t[i], t[j]>> \in r
  <2>1. i \in 1..Len(s)
    BY <1>1, <1>2, <1>6
  <2>2. CASE j = Len(s) + 1
    BY <1>1, <1>2, <2>1, <2>2 DEF Touched
  <2>3. CASE j \in 1..Len(s)
    BY <1>1, <1>2, <1>6, <2>1, <2>3 DEF Touched
  <2> QED BY <1>2, <1>3, <2>2, <2>3
<1>7. Pool(t, r)
  <2> HIDE DEF r
  <2> QED BY <1>2, <1>4, <1>6, PlacesPool
<1> QED BY <1>2, <1>5, <1>7 DEF t

\* Room is made by the voice that was not used for the longest time.
LEMMA KeptPool ==
  ASSUME NEW s, Pool(s, older), Len(s) = MaxLoaded
  PROVE  /\ Pool(Kept(s), older) /\ Len(Kept(s)) = MaxLoaded - 1
         /\ 1 \in DOMAIN s /\ Range(Kept(s)) = Range(s) \ {s[1]}
<1> DEFINE t == Kept(s)
<1>0. MaxLoaded \in Nat \ {0}
  BY VoicesAssumption
<1>1. /\ s \in Seq(Voices) /\ Len(s) \in Nat /\ DOMAIN s = 1..Len(s)
      /\ \A i \in 1..Len(s) : s[i] \in Voices /\ s[i] \in Range(s)
      /\ \A u \in Range(s) : \E i \in 1..Len(s) : u = s[i]
      /\ \A i, j \in 1..Len(s) : s[i] = s[j] => i = j
      /\ \A i, j \in 1..Len(s) : i < j => <<s[i], s[j]>> \in older
  BY PoolPlaces
<1>2. /\ t \in Seq(Voices) /\ Len(t) = Len(s) - 1 /\ DOMAIN t = 1..(Len(s) - 1)
      /\ \A i \in 1..(Len(s) - 1) : t[i] = s[i + 1] /\ i + 1 \in 1..Len(s) /\ i + 1 # 1
  <2>1. t = SubSeq(s, 2, Len(s))
    BY <1>0, <1>1 DEF Kept
  <2> HIDE DEF t
  <2> QED BY <1>0, <1>1, <2>1
<1> HIDE DEF t
<1>3. \A i, j \in 1..Len(t) : t[i] = t[j] => i = j
  BY <1>0, <1>1, <1>2
<1>4. 1 \in 1..Len(s) /\ \A i \in 1..Len(s) : i # 1 => i - 1 \in 1..(Len(s) - 1) /\ t[i - 1] = s[i]
  BY <1>0, <1>1, <1>2
<1>5. Range(t) = Range(s) \ {s[1]}
  <2>1. ASSUME NEW v \in Range(t) PROVE v \in Range(s) \ {s[1]}
    <3>1. PICK i \in 1..(Len(s) - 1) : v = t[i]
      BY <1>2 DEF Range
    <3>2. i + 1 \in 1..Len(s) /\ i + 1 # 1 /\ v = s[i + 1]
      BY <1>2, <3>1
    <3> QED BY <1>1, <1>4, <3>2
  <2>2. ASSUME NEW v \in Range(s) \ {s[1]} PROVE v \in Range(t)
    <3>1. PICK i \in 1..Len(s) : v = s[i]
      BY <1>1
    <3>2. i - 1 \in DOMAIN t /\ t[i - 1] = v
      BY <1>2, <1>4, <3>1
    <3> QED BY <3>2 DEF Range
  <2> QED BY <2>1, <2>2
<1>6. ASSUME NEW i \in 1..Len(t), NEW j \in 1..Len(t), i < j
      PROVE  <<t[i], t[j]>> \in older
  <2>1. i + 1 \in 1..Len(s) /\ j + 1 \in 1..Len(s) /\ i + 1 < j + 1 /\ t[i] = s[i + 1] /\ t[j] = s[j + 1]
    BY <1>1, <1>2, <1>6
  <2> QED BY <1>1, <2>1
<1>7. Pool(t, older)
  BY <1>2, <1>3, <1>6, PlacesPool
<1> QED BY <1>0, <1>1, <1>2, <1>4, <1>5, <1>7 DEF t

--------------------------------------------------------------------------------
(* Voices within the memory. *)

\* The caller's request gives the guard a worker, or is refused.
LEMMA Started ==
  ASSUME GuardInv, NEW v, StartWorker(v)
  PROVE  \/ caller' = "idle" /\ UNCHANGED <<workerVars, iterator, got>>
         \/ \E w \in Workers :
              /\ Alive = {} /\ guard' = w /\ iterator' = w /\ caller' = "open"
              /\ thread' = [thread EXCEPT ![w] = "native"] /\ voice' = [voice EXCEPT ![w] = v]
              /\ UNCHANGED <<queue, stopped, item, audio, got>>
<1>1. CASE BusyForStart
  BY <1>1 DEF StartWorker
<1>2. CASE ~BusyForStart
  <2>1. Alive = {}
    BY <1>2, VoicesAssumption DEF BusyForStart, Busy, GuardInv, Alive
  <2> DEFINE w == CHOOSE w \in Workers : w \notin Alive
  <2>2. w \in Workers
    BY <1>2, <2>1 DEF StartWorker
  <2>3. /\ guard' = w /\ iterator' = w /\ caller' = "open"
        /\ thread' = [thread EXCEPT ![w] = "native"] /\ voice' = [voice EXCEPT ![w] = v]
        /\ UNCHANGED <<queue, stopped, item, audio, got>>
    BY <1>2 DEF StartWorker
  <2> HIDE DEF w
  <2> QED BY <2>1, <2>2, <2>3
<1> QED BY <1>1, <1>2

\* What the running workers use after such a request.
LEMMA StartedVoices ==
  ASSUME GuardInv, PoolInv, NEW v \in Voices, StartWorker(v), NEW loaded,
         Range(engines) \subseteq loaded \/ Alive = {}, v \in loaded
  PROVE  /\ \A w \in Alive' : voice'[w] \in loaded
         /\ voice' \in [Workers -> Voices \cup {NoVoice}] /\ guard' \in Workers \cup {NoWorker}
         /\ caller' # "loading"
<1>1. CASE caller' = "idle" /\ UNCHANGED <<workerVars, iterator, got>>
  BY <1>1 DEF workerVars, PoolInv, Alive
<1>2. CASE \E w \in Workers :
              /\ Alive = {} /\ guard' = w /\ iterator' = w /\ caller' = "open"
              /\ thread' = [thread EXCEPT ![w] = "native"] /\ voice' = [voice EXCEPT ![w] = v]
              /\ UNCHANGED <<queue, stopped, item, audio, got>>
  BY <1>2 DEF PoolInv, Alive, GuardInv, ThreadTypes
<1> QED BY <1>1, <1>2, Started

\* A loaded voice is used.
LEMMA UsePool ==
  ASSUME GuardInv, PoolInv, NEW v \in Voices, UseLoaded(v)
  PROVE  PoolInv' /\ Range(engines') = Range(engines)
<1>1. PICK k \in DOMAIN engines : engines[k] = v /\ engines' = Latest(engines, k)
  BY DEF UseLoaded
<1>2. Pool(engines, older)
  BY DEF Pool, PoolInv
<1>3. older' = Touched(engines[k], Range(engines) \ {engines[k]})
  BY <1>1 DEF UseLoaded
<1>4. Pool(engines', older') /\ Len(engines') = Len(engines) /\ Range(engines') = Range(engines)
  BY <1>1, <1>2, <1>3, LatestPool
<1>5. v \in Range(engines)
  BY <1>1 DEF Range
<1>6. /\ \A w \in Alive' : voice'[w] \in Range(engines)
      /\ voice' \in [Workers -> Voices \cup {NoVoice}] /\ guard' \in Workers \cup {NoWorker}
      /\ caller' # "loading"
  BY <1>5, StartedVoices DEF UseLoaded
<1>7. wanted' = wanted
  BY DEF UseLoaded
<1> QED BY <1>4, <1>6, <1>7 DEF PoolInv, Pool

\* A model that was read takes its place, and the oldest voice goes if there is none.
LEMMA LoadPool ==
  ASSUME GuardInv, PoolInv, EndLoad
  PROVE  /\ PoolInv'
         /\ IF Len(engines) >= MaxLoaded
            THEN /\ 1 \in DOMAIN engines
                 /\ Range(engines') = (Range(engines) \ {engines[1]}) \cup {wanted}
                 /\ pause' = 0
            ELSE Range(engines) \subseteq Range(engines') /\ pause' = pause
<1> DEFINE full == Len(engines) >= MaxLoaded
           kept == IF full THEN Kept(engines) ELSE engines
<1>0. MaxLoaded \in Nat \ {0} /\ Len(engines) \in 1..MaxLoaded
  BY VoicesAssumption DEF PoolInv
<1>1. Pool(engines, older) /\ wanted \in Voices \ Range(engines) /\ Alive = {}
  BY DEF Pool, PoolInv, EndLoad
<1>2. CASE full
  <2>1. Len(engines) = MaxLoaded
    BY <1>0, <1>2
  <2>2. /\ Pool(kept, older) /\ Len(kept) = MaxLoaded - 1 /\ 1 \in DOMAIN engines
        /\ Range(kept) = Range(engines) \ {engines[1]}
    BY <1>1, <1>2, <2>1, KeptPool
  <2> QED
    <3>1. engines' = Append(kept, wanted) /\ older' = Touched(wanted, Range(kept)) /\ pause' = 0
      BY <1>2 DEF EndLoad
    <3> HIDE DEF kept
    <3>2. /\ Pool(engines', older') /\ Len(engines') = Len(kept) + 1
          /\ Range(engines') = Range(kept) \cup {wanted}
      BY <1>1, <2>2, <3>1, AppendPool
    <3>3. Len(engines') \in 1..MaxLoaded
      BY <1>0, <2>2, <3>2
    <3>4. StartWorker(wanted) /\ wanted' = NoVoice
      BY DEF EndLoad
    <3>5. /\ \A w \in Alive' : voice'[w] \in Range(engines')
          /\ voice' \in [Workers -> Voices \cup {NoVoice}] /\ guard' \in Workers \cup {NoWorker}
          /\ caller' # "loading"
      <4>1. wanted \in Range(engines') /\ wanted \in Voices
        BY <1>1, <3>2
      <4> QED BY <1>1, <3>4, <4>1, StartedVoices
    <3> QED BY <1>2, <2>2, <3>1, <3>2, <3>3, <3>4, <3>5 DEF PoolInv, Pool
<1>3. CASE ~full
  <2>1. engines' = Append(engines, wanted) /\ older' = Touched(wanted, Range(engines)) /\ pause' = pause
    BY <1>3 DEF EndLoad
  <2>2. /\ Pool(engines', older') /\ Len(engines') = Len(engines) + 1
        /\ Range(engines') = Range(engines) \cup {wanted}
    BY <1>1, <2>1, AppendPool
  <2>3. Len(engines') \in 1..MaxLoaded
    BY <1>0, <1>3, <2>2
  <2>4. StartWorker(wanted) /\ wanted' = NoVoice
    BY DEF EndLoad
  <2>5. /\ \A w \in Alive' : voice'[w] \in Range(engines')
        /\ voice' \in [Workers -> Voices \cup {NoVoice}] /\ guard' \in Workers \cup {NoWorker}
        /\ caller' # "loading"
    <3>1. wanted \in Range(engines') /\ wanted \in Voices
      BY <1>1, <2>2
    <3> QED BY <1>1, <2>4, <3>1, StartedVoices
  <2> QED BY <1>3, <2>1, <2>2, <2>3, <2>4, <2>5 DEF PoolInv, Pool
<1> QED BY <1>2, <1>3

\* A worker keeps its voice until it is gone.
LEMMA WorkerVoice ==
  ASSUME GuardInv, PoolInv, NEW w \in Workers, WorkerStep(w)
  PROVE  PoolInv'
<1>1. UNCHANGED poolVars /\ UNCHANGED caller
  BY DEF WorkerStep, OnAudio, NativeReturns, NativeFails, Check, Put, Exit, OnlyWorker, callerVars
<1>2. thread[w] # "dead" /\ guard' \in {guard, NoWorker}
  BY DEF WorkerStep, OnAudio, NativeReturns, NativeFails, Check, Put, Exit, OnlyWorker
<1>3. \E p \in {"native", "check", "put", "exit", "dead"} : thread' = [thread EXCEPT ![w] = p]
  BY DEF WorkerStep, OnAudio, NativeReturns, NativeFails, Check, Put, Exit, Onward, Puts, Goes
<1>4. voice' = voice \/ (voice' = [voice EXCEPT ![w] = NoVoice] /\ thread'[w] = "dead")
  <2>1. CASE Exit(w)
    BY <2>1 DEF Exit, Goes, GuardInv, ThreadTypes
  <2>2. CASE ~Exit(w)
    BY <2>2 DEF WorkerStep, OnAudio, NativeReturns, NativeFails, Check, Put, OnlyWorker
  <2> QED BY <2>1, <2>2
<1>5. Alive' \subseteq Alive
  BY <1>2, <1>3 DEF Alive, GuardInv, ThreadTypes
<1>6. \A v \in Alive' : voice'[v] = voice[v]
  BY <1>4 DEF Alive, PoolInv
<1> QED BY <1>1, <1>2, <1>4, <1>5, <1>6 DEF PoolInv, poolVars

\* The rest of the caller's steps leave the loaded voices alone.
LEMMA NextPool ==
  ASSUME GuardInv, PoolInv, [VoicesNext]_voicesVars
  PROVE  PoolInv'
<1>1. ASSUME NEW v \in Voices, UseLoaded(v) PROVE PoolInv'
  BY <1>1, UsePool
<1>2. CASE EndLoad
  BY <1>2, LoadPool
<1>3. ASSUME NEW w \in Workers, WorkerStep(w) PROVE PoolInv'
  BY <1>3, WorkerVoice
<1>4. ASSUME NEW v \in Voices, BeginLoad(v) PROVE PoolInv'
  <2>1. UNCHANGED <<engines, older, guard, thread, voice>>
    BY <1>4 DEF BeginLoad, workerVars
  <2>2. Alive' = Alive
    BY <2>1 DEF Alive
  <2>3. CASE UNCHANGED <<caller, wanted>>
    BY <2>1, <2>2, <2>3 DEF PoolInv
  <2>4. CASE ~UNCHANGED <<caller, wanted>>
    <3>1. wanted' = v /\ v \notin Range(engines) /\ ~Busy
      BY <1>4, <2>4 DEF BeginLoad, BusyForLoad
    <3>2. Alive = {}
      BY <3>1, VoicesAssumption DEF Busy, GuardInv, Alive
    <3> QED BY <2>1, <2>2, <3>1, <3>2 DEF PoolInv
  <2> QED BY <2>3, <2>4
<1>5. CASE TakeNext \/ LoadFails \/ Got \/ Joined \/ Close \/ CloseDrains \/ CloseEnds \/ Tick
  <2>1. UNCHANGED <<engines, older, guard, thread, voice>> /\ wanted' \in {wanted, NoVoice}
    BY <1>5 DEF TakeNext, LoadFails, Got, Joined, Close, CloseDrains, CloseEnds, Tick, Forgets,
                OnlyCaller, workerVars, poolVars
  <2>2. caller' = "loading" => UNCHANGED <<caller, wanted>>
    BY <1>5 DEF TakeNext, LoadFails, Got, Joined, Close, CloseDrains, CloseEnds, Tick, Forgets,
                OnlyCaller, workerVars, poolVars, callerVars
  <2>3. Alive' = Alive
    BY <2>1 DEF Alive
  <2> QED BY <2>1, <2>2, <2>3 DEF PoolInv
<1>6. CASE UNCHANGED voicesVars
  <2>1. UNCHANGED <<engines, older, guard, thread, voice, caller, wanted>>
    BY <1>6 DEF voicesVars, workerVars, poolVars, callerVars
  <2>2. Alive' = Alive
    BY <2>1 DEF Alive
  <2> QED BY <2>1, <2>2 DEF PoolInv
<1> QED
  BY <1>1, <1>2, <1>3, <1>4, <1>5, <1>6 DEF VoicesNext, CallerStep

\* The times since a replacement and since an eviction.
LEMMA NextPace ==
  ASSUME GuardInv, PoolInv, PaceInv, [VoicesNext]_voicesVars
  PROVE  PaceInv'
<1>0. Interval \in Nat \ {0} /\ MaxLoaded \in Nat \ {0} /\ Len(engines) \in 1..MaxLoaded
  BY VoicesAssumption DEF PoolInv
<1> USE DEF PaceInv, TooSoon
<1>1. ASSUME NEW v \in Voices, UseLoaded(v) PROVE PaceInv'
  <2>1. caller' # "loading"
    BY <1>1, Started DEF UseLoaded
  <2> QED BY <1>1, <2>1 DEF UseLoaded
<1>2. CASE EndLoad
  <2>1. caller' # "loading"
    BY <1>2, Started DEF EndLoad
  <2>2. age' = 0 /\ replaced' = TRUE /\ pause' \in {0, pause}
    BY <1>2 DEF EndLoad
  <2> QED BY <1>0, <2>1, <2>2
<1>3. ASSUME NEW v \in Voices, BeginLoad(v) PROVE PaceInv'
  BY <1>0, <1>3 DEF BeginLoad
<1>4. CASE Tick
  <2>1. age' = Older(age) /\ pause' = Older(pause) /\ UNCHANGED <<engines, replaced, caller>>
    BY <1>4 DEF Tick, callerVars
  <2>2. /\ age' \in 0..Interval /\ pause' \in 0..Interval /\ age' <= pause' /\ age <= age'
        /\ age = Interval => age' = Interval
    BY <1>0, <2>1 DEF Older
  <2>3. caller' = "loading" => ~(Len(engines) >= MaxLoaded /\ replaced /\ age' < Interval)
    BY <1>0, <2>1, <2>2
  <2> QED BY <2>1, <2>2, <2>3
<1>5. CASE LoadFails
  BY <1>5 DEF LoadFails
<1>6. CASE \/ TakeNext \/ Got \/ Joined \/ Close \/ CloseDrains \/ CloseEnds
           \/ (\E w \in Workers : WorkerStep(w)) \/ UNCHANGED voicesVars
  <2>1. UNCHANGED <<engines, age, pause, replaced>>
    BY <1>6 DEF TakeNext, Got, Joined, Close, CloseDrains, CloseEnds, Forgets, OnlyCaller, WorkerStep,
                OnAudio, NativeReturns, NativeFails, Check, Put, Exit, OnlyWorker, poolVars, voicesVars
  <2>2. caller' = caller \/ caller' # "loading"
    BY <1>6 DEF TakeNext, Got, Joined, Close, CloseDrains, CloseEnds, Forgets, OnlyCaller, WorkerStep,
                OnAudio, NativeReturns, NativeFails, Check, Put, Exit, OnlyWorker, callerVars, voicesVars
  <2> QED BY <2>1, <2>2
<1> QED
  BY <1>1, <1>2, <1>3, <1>4, <1>5, <1>6 DEF VoicesNext, CallerStep

\* The pool and its pace at the start.
LEMMA InitPool == VoicesInit => PoolInv /\ PaceInv
<1> SUFFICES ASSUME VoicesInit PROVE PoolInv /\ PaceInv
  OBVIOUS
<1>0. Interval \in Nat \ {0} /\ MaxLoaded \in Nat \ {0}
  BY VoicesAssumption
<1>1. PICK startup \in SeqOf(Voices, MaxLoaded) :
        /\ startup # <<>> /\ IsInjective(startup) /\ engines = Reverse(startup)
        /\ older = {p \in Voices \X Voices : \E i, j \in DOMAIN startup :
                      j < i /\ p = <<startup[i], startup[j]>>}
  BY DEF VoicesInit
<1>2. PICK n \in 0..MaxLoaded : startup \in [1..n -> Voices]
  BY <1>1 DEF SeqOf
<1>3. /\ n \in Nat /\ startup \in Seq(Voices) /\ Len(startup) = n /\ DOMAIN startup = 1..n
      /\ \A i \in 1..n : startup[i] \in Voices
  BY <1>0, <1>2
<1>4. n \in 1..MaxLoaded
  <2>1. n # 0
    BY <1>1, <1>3
  <2> QED BY <1>0, <1>3, <2>1
<1>5. engines = [i \in 1..n |-> startup[n - i + 1]]
  BY <1>1, <1>3 DEF Reverse
<1>6. \A i \in 1..n : n - i + 1 \in 1..n
  BY <1>3
<1>7. engines \in Seq(Voices) /\ Len(engines) = n /\ \A i \in 1..n : engines[i] = startup[n - i + 1]
  <2>1. engines \in [1..n -> Voices]
    BY <1>3, <1>5, <1>6
  <2> QED BY <1>3, <1>5, <2>1
<1>8. \A i, j \in 1..n : engines[i] = engines[j] => i = j
  <2>1. \A i, j \in 1..n : startup[i] = startup[j] => i = j
    BY <1>1, <1>3 DEF IsInjective
  <2> QED BY <1>3, <1>6, <1>7, <2>1
<1>9. ASSUME NEW i \in 1..n, NEW j \in 1..n, i < j PROVE <<engines[i], engines[j]>> \in older
  <2>1. /\ n - i + 1 \in DOMAIN startup /\ n - j + 1 \in DOMAIN startup /\ n - j + 1 < n - i + 1
        /\ engines[i] = startup[n - i + 1] /\ engines[j] = startup[n - j + 1]
        /\ engines[i] \in Voices /\ engines[j] \in Voices
    BY <1>3, <1>6, <1>7, <1>9
  <2> QED BY <1>1, <2>1
<1>10. Pool(engines, older)
  BY <1>7, <1>8, <1>9, PlacesPool
<1>11. /\ Alive = {} /\ wanted = NoVoice /\ voice = [w \in Workers |-> NoVoice] /\ guard = NoWorker
       /\ caller = "idle" /\ age = Interval /\ replaced = FALSE /\ pause = Interval
  BY DEF VoicesInit, Alive
<1>12. PoolInv
  BY <1>4, <1>7, <1>10, <1>11 DEF PoolInv, Pool
<1>13. PaceInv
  <2>1. age \in 0..Interval /\ pause \in 0..Interval /\ age <= pause
    BY <1>0, <1>11
  <2>2. replaced \in BOOLEAN /\ age = Interval /\ caller # "loading"
    BY <1>11
  <2> QED BY <2>1, <2>2 DEF PaceInv
<1> QED BY <1>12, <1>13

--------------------------------------------------------------------------------
(* The stream between a worker and the caller. *)

\* The items of a worker are typed.
LEMMA ItemTypes ==
  /\ \A k \in 1..MaxAudio : Item("audio", k) \in Items
  /\ Item("last", 0) \in Items /\ Item("error", 0) \in Items /\ Item("done", 0) \in Items
<1>1. MaxAudio \in Nat \ {0}
  BY VoicesAssumption
<1> QED BY <1>1 DEF Item, Items

\* What an item is put from and taken to.
LEMMA ItemQueues ==
  ASSUME NEW q \in Seq(Items)
  PROVE  /\ Len(q) \in Nat /\ \A i \in 1..Len(q) : q[i] \in Items
         /\ q # <<>> => /\ Head(q) = q[1] /\ 1 \in 1..Len(q) /\ Tail(q) \in Seq(Items)
                        /\ Len(Tail(q)) = Len(q) - 1
                        /\ \A i \in 1..Len(Tail(q)) : Tail(q)[i] = q[i + 1] /\ i + 1 \in 1..Len(q)
         /\ \A x \in Items : /\ Append(q, x) \in Seq(Items) /\ Len(Append(q, x)) = Len(q) + 1
                             /\ Append(q, x)[Len(q) + 1] = x
                             /\ \A i \in 1..Len(q) : Append(q, x)[i] = q[i]
OBVIOUS

\* A worker's step changes its own iterator only.
LEMMA WorkerQueue ==
  ASSUME GuardInv, QueueInv, NEW w \in Workers, WorkerStep(w)
  PROVE  /\ QueueInv' /\ UNCHANGED <<caller, iterator, got>> /\ thread[w] # "dead"
         /\ \A v \in Workers \ {w} : thread'[v] = thread[v] /\ queue'[v] = queue[v] /\ item'[v] = item[v]
                                     /\ stopped'[v] = stopped[v] /\ audio'[v] = audio[v]
<1>0. MaxAudio \in Nat \ {0} /\ QueueSize \in Nat \ {0}
  BY VoicesAssumption
<1>1. UNCHANGED <<caller, iterator, got>> /\ thread[w] # "dead"
  BY DEF WorkerStep, OnAudio, NativeReturns, NativeFails, Check, Put, Exit, OnlyWorker, callerVars
<1>2. \E p \in {"native", "check", "put", "exit", "dead"} : thread' = [thread EXCEPT ![w] = p]
  BY DEF WorkerStep, OnAudio, NativeReturns, NativeFails, Check, Put, Exit, Onward, Puts, Goes
<1>3. item' = item \/ \E x \in Items : item' = [item EXCEPT ![w] = x]
  <2>1. CASE OnAudio(w)
    <3>1. audio[w] + 1 \in 1..MaxAudio
      BY <1>0, <2>1 DEF OnAudio, QueueInv
    <3> QED BY <2>1, <3>1, ItemTypes DEF OnAudio, Puts
  <2>2. CASE ~OnAudio(w)
    BY <2>2, ItemTypes DEF WorkerStep, NativeReturns, NativeFails, Check, Put, Exit, Onward, Puts
  <2> QED BY <2>1, <2>2
<1>4. CASE ~Exit(w)
  <2>1. stopped' = stopped
    BY <1>4 DEF WorkerStep, OnAudio, NativeReturns, NativeFails, Check, Put, OnlyWorker
  <2>2. queue' = queue \/ (Len(queue[w]) < QueueSize /\ queue' = [queue EXCEPT ![w] = Append(@, item[w])])
    BY <1>4 DEF WorkerStep, OnAudio, NativeReturns, NativeFails, Check, Put
  <2>3. audio' = audio \/ (audio[w] < MaxAudio /\ audio' = [audio EXCEPT ![w] = @ + 1])
    BY <1>4 DEF WorkerStep, OnAudio, NativeReturns, NativeFails, Check, Put
  <2>4. thread'[w] # "dead"
    BY <1>4 DEF WorkerStep, OnAudio, NativeReturns, NativeFails, Check, Put, Onward, Puts, Goes,
                GuardInv, ThreadTypes
  <2>5. queue' \in [Workers -> Seq(Items)] /\ \A v \in Workers : Len(queue'[v]) <= QueueSize
    <3>1. queue[w] \in Seq(Items) /\ item[w] \in Items
      BY DEF QueueInv
    <3>2. Append(queue[w], item[w]) \in Seq(Items) /\ Len(Append(queue[w], item[w])) = Len(queue[w]) + 1
      BY <3>1, ItemQueues
    <3>3. Len(queue[w]) < QueueSize => Len(Append(queue[w], item[w])) <= QueueSize
      <4>1. Len(queue[w]) \in Nat
        BY <3>1
      <4> QED BY <1>0, <3>2, <4>1
    <3> QED BY <2>2, <3>1, <3>2, <3>3 DEF QueueInv
  <2>6. audio' \in [Workers -> 0..MaxAudio]
    <3>1. audio[w] \in 0..MaxAudio /\ audio \in [Workers -> 0..MaxAudio]
      BY DEF QueueInv
    <3>2. audio[w] < MaxAudio => audio[w] + 1 \in 0..MaxAudio
      BY <1>0, <3>1
    <3> QED BY <2>3, <3>1, <3>2
  <2>7. \A v \in Workers \ {w} : thread'[v] = thread[v] /\ queue'[v] = queue[v] /\ item'[v] = item[v]
                                 /\ stopped'[v] = stopped[v] /\ audio'[v] = audio[v]
    BY <1>2, <1>3, <2>1, <2>2, <2>3 DEF QueueInv, GuardInv, ThreadTypes
  <2>8. item' \in [Workers -> Items]
    BY <1>3 DEF QueueInv
  <2> QED BY <1>1, <2>1, <2>4, <2>5, <2>6, <2>7, <2>8 DEF QueueInv
<1>5. CASE Exit(w)
  <2>1. item' = item /\ thread' = [thread EXCEPT ![w] = "dead"]
    BY <1>5 DEF Exit, Goes
  <2>2. CASE iterator = w
    <3>1. UNCHANGED <<queue, stopped, audio>>
      BY <1>5, <2>2 DEF Exit
    <3> QED BY <1>1, <2>1, <2>2, <3>1 DEF QueueInv, GuardInv, ThreadTypes
  <2>3. CASE iterator # w
    <3>1. Collect(w)
      BY <1>5, <2>3 DEF Exit
    <3>2. <<>> \in Seq(Items) /\ Len(<<>>) = 0
      OBVIOUS
    <3> QED BY <1>0, <1>1, <2>1, <2>3, <3>1, <3>2 DEF QueueInv, GuardInv, ThreadTypes, Collect
  <2> QED BY <2>2, <2>3
<1> QED BY <1>4, <1>5

\* The caller forgets its iterator.
LEMMA ForgetsQueue ==
  ASSUME GuardInv, QueueInv, Forgets, caller \in {"joining", "closing"}
  PROVE  QueueInv' /\ caller' = "idle"
<1>1. iterator \in Workers /\ <<>> \in Seq(Items) /\ Len(<<>>) = 0 /\ QueueSize \in Nat /\ MaxAudio \in Nat
  BY VoicesAssumption DEF QueueInv
<1>2. caller' = "idle" /\ iterator' = NoWorker /\ got' = <<>> /\ UNCHANGED <<thread, item>>
  BY DEF Forgets
<1>3. CASE iterator \in Alive
  <2>1. UNCHANGED <<queue, stopped, audio>> /\ thread[iterator] # "dead"
    BY <1>3 DEF Forgets, Alive
  <2> QED BY <1>1, <1>2, <2>1 DEF QueueInv
<1>4. CASE iterator \notin Alive
  <2>1. Collect(iterator)
    BY <1>4 DEF Forgets
  <2> QED BY <1>1, <1>2, <2>1 DEF QueueInv, Collect
<1> QED BY <1>3, <1>4

\* Every step keeps the queues.
LEMMA NextQueue ==
  ASSUME GuardInv, QueueInv, [VoicesNext]_voicesVars
  PROVE  QueueInv'
<1>1. ASSUME NEW v, StartWorker(v), caller \in {"idle", "loading"} PROVE QueueInv'
  <2>1. CASE caller' = "idle" /\ UNCHANGED <<workerVars, iterator, got>>
    BY <1>1, <2>1 DEF QueueInv, workerVars
  <2>2. CASE \E w \in Workers :
              /\ Alive = {} /\ guard' = w /\ iterator' = w /\ caller' = "open"
              /\ thread' = [thread EXCEPT ![w] = "native"] /\ voice' = [voice EXCEPT ![w] = v]
              /\ UNCHANGED <<queue, stopped, item, audio, got>>
    <3>1. PICK w \in Workers :
            /\ iterator' = w /\ caller' = "open" /\ thread' = [thread EXCEPT ![w] = "native"]
            /\ UNCHANGED <<queue, stopped, item, audio, got>>
      BY <2>2
    <3>2. iterator \notin Workers
      BY <1>1, VoicesAssumption DEF QueueInv
    <3>3. \A x \in Workers : thread'[x] = "dead" => thread[x] = "dead" /\ x # iterator
      BY <3>1, <3>2 DEF GuardInv, ThreadTypes
    <3> QED BY <3>1, <3>3 DEF QueueInv
  <2> QED BY <1>1, <2>1, <2>2, Started
<1>2. ASSUME NEW w \in Workers, WorkerStep(w) PROVE QueueInv'
  BY <1>2, WorkerQueue
<1>3. CASE \/ LoadFails \/ TakeNext \/ Tick \/ (\E v \in Voices : BeginLoad(v)) \/ UNCHANGED voicesVars
  <2>1. /\ UNCHANGED <<queue, stopped, audio, item, got, thread, iterator>>
        /\ \/ caller' = caller
           \/ caller \in {"idle", "loading"} /\ caller' \in {"idle", "loading"}
           \/ caller = "open" /\ caller' = "waiting"
    BY <1>3 DEF LoadFails, TakeNext, Tick, BeginLoad, OnlyCaller, workerVars, callerVars, voicesVars
  <2> QED BY <2>1 DEF QueueInv
<1>4. CASE Got
  <2> DEFINE q == queue[iterator]
  <2>1. iterator \in Workers /\ q \in Seq(Items) /\ q # <<>> /\ Len(q) <= QueueSize
    BY <1>4 DEF Got, QueueInv
  <2>2. /\ Len(q) \in Nat /\ Head(q) \in Items /\ Tail(q) \in Seq(Items) /\ Len(Tail(q)) = Len(q) - 1
    <3> HIDE DEF q
    <3> QED BY <2>1
  <2>3. QueueSize \in Nat /\ Len(Tail(q)) <= QueueSize
    <3> HIDE DEF q
    <3> QED BY <2>1, <2>2, VoicesAssumption
  <2>4. /\ queue' = [queue EXCEPT ![iterator] = Tail(q)] /\ got' = Append(got, Head(q))
        /\ UNCHANGED <<iterator, stopped, thread, audio, item>>
        /\ caller' \in {"joining", "failed", "open"} /\ caller = "waiting"
    BY <1>4 DEF Got, OnlyCaller
  <2>5. got' \in Seq(Items)
    <3>1. got \in Seq(Items)
      BY DEF QueueInv
    <3> HIDE DEF q
    <3> QED BY <2>2, <2>4, <3>1
  <2> HIDE DEF q
  <2> QED BY <2>1, <2>2, <2>3, <2>4, <2>5 DEF QueueInv
<1>5. CASE CloseDrains
  <2> DEFINE q == queue[iterator]
  <2>1. iterator \in Workers /\ q \in Seq(Items) /\ q # <<>> /\ Len(q) <= QueueSize
    BY <1>5 DEF CloseDrains, QueueInv
  <2>2. /\ Len(q) \in Nat /\ Tail(q) \in Seq(Items) /\ Len(Tail(q)) = Len(q) - 1
    <3> HIDE DEF q
    <3> QED BY <2>1
  <2>3. QueueSize \in Nat /\ Len(Tail(q)) <= QueueSize
    <3> HIDE DEF q
    <3> QED BY <2>1, <2>2, VoicesAssumption
  <2>4. /\ queue' = [queue EXCEPT ![iterator] = Tail(q)]
        /\ UNCHANGED <<iterator, stopped, thread, audio, item, got, caller>>
    BY <1>5 DEF CloseDrains, OnlyCaller
  <2> HIDE DEF q
  <2> QED BY <2>1, <2>2, <2>3, <2>4 DEF QueueInv
<1>6. CASE Close
  BY <1>6 DEF Close, OnlyCaller, QueueInv
<1>7. CASE Joined \/ CloseEnds
  BY <1>7, ForgetsQueue DEF Joined, CloseEnds
<1> QED
  BY <1>1, <1>2, <1>3, <1>4, <1>5, <1>6, <1>7 DEF VoicesNext, CallerStep, UseLoaded, EndLoad

\* What has its place keeps it while the worker's audio is the same.
LEMMA FitsKept ==
  ASSUME NEW w \in Workers, NEW v \in Workers, audio'[v] = audio[w], NEW place, NEW x, Fits(w, place, x)
  PROVE  Fits(v, place, x)'
BY DEF Fits, Item

\* Nothing happened to the stream of the iterator.
LEMMA LineKept ==
  ASSUME QueueInv, NEW w \in Workers, LineInv(w),
         got' = got, queue'[w] = queue[w], stopped'[w] = stopped[w], audio'[w] = audio[w],
         thread'[w] = thread[w], item'[w] = item[w]
  PROVE  LineInv(w)'
<1>1. \A place, x : Fits(w, place, x) => Fits(w, place, x)'
  BY FitsKept
<1> QED BY <1>1 DEF LineInv

\* The worker of the iterator goes on.
LEMMA WorkerLine ==
  ASSUME GuardInv, QueueInv, NEW w \in Workers, WorkerStep(w), LineInv(w), w = iterator
  PROVE  LineInv(w)'
<1> DEFINE q == queue[w]
           last == Len(got) + Len(q)
<1>0. /\ Len(got) \in Nat /\ Len(q) \in Nat /\ q \in Seq(Items) /\ item[w] \in Items
      /\ audio[w] \in Nat /\ got' = got /\ stopped'[w] = stopped[w] /\ ~stopped[w]
  <2>1. q \in Seq(Items) /\ got \in Seq(Items) /\ item[w] \in Items /\ audio[w] \in 0..MaxAudio
    BY DEF QueueInv
  <2>2. Len(q) \in Nat /\ Len(got) \in Nat
    <3> HIDE DEF q
    <3> QED BY <2>1
  <2>3. got' = got /\ ~stopped[w]
    BY WorkerQueue DEF LineInv
  <2>4. stopped'[w] = stopped[w]
    BY DEF WorkerStep, OnAudio, NativeReturns, NativeFails, Check, Put, Exit, OnlyWorker
  <2> QED BY <2>1, <2>2, <2>3, <2>4
<1>1. CASE OnAudio(w)
  <2>1. /\ queue'[w] = q /\ audio'[w] = audio[w] + 1 /\ thread[w] = "native"
        /\ thread'[w] = "check" /\ item'[w] = Item("audio", audio[w] + 1)
    BY <1>1 DEF OnAudio, Puts, Goes, QueueInv, GuardInv, ThreadTypes
  <2>2. last = audio[w]
    BY <2>1 DEF LineInv
  <2> HIDE DEF q
  <2>3. ASSUME NEW place \in 1..last, NEW x, Fits(w, place, x)
        PROVE  Fits(w, place, x)'
    <3>1. x = Item("audio", place) /\ place <= audio'[w]
      BY <1>0, <2>1, <2>2, <2>3 DEF Fits
    <3> QED BY <3>1 DEF Fits, Item
  <2>4. \A i \in 1..Len(got) : Fits(w, i, got[i])'
    <3>1. \A i \in 1..Len(got) : i \in 1..last /\ got[i]' = got[i] /\ Fits(w, i, got[i])
      BY <1>0 DEF LineInv
    <3> QED BY <1>0, <2>3, <3>1
  <2>5. \A i \in 1..Len(q) : Fits(w, Len(got) + i, q[i])'
    <3>1. \A i \in 1..Len(q) : Len(got) + i \in 1..last /\ Fits(w, Len(got) + i, q[i])
      BY <1>0 DEF LineInv, q
    <3> QED BY <1>0, <2>1, <2>3, <3>1 DEF q
  <2>6. Fits(w, last + 1, item[w])' /\ last + 1 = audio'[w]
    BY <1>0, <2>1, <2>2 DEF Fits, Item, q
  <2> QED BY <1>0, <2>1, <2>4, <2>5, <2>6 DEF LineInv, q
<1>2. CASE ~OnAudio(w) /\ ~Put(w)
  <2>1. audio'[w] = audio[w] /\ queue'[w] = q
    <3>1. CASE Exit(w)
      BY <3>1 DEF Exit
    <3>2. CASE ~Exit(w)
      BY <1>2, <3>2 DEF WorkerStep, NativeReturns, NativeFails, Check
    <3> QED BY <3>1, <3>2
  <2>2. \A place, x : Fits(w, place, x) => Fits(w, place, x)'
    BY <2>1, FitsKept
  <2>3. thread'[w] # "native" /\
        (thread'[w] \in {"check", "put"} =>
           Fits(w, last + 1, item'[w]) /\ (item'[w].kind = "audio" => last + 1 = audio[w]))
    <3>1. CASE NativeReturns(w) \/ NativeFails(w)
      <4>1. /\ thread[w] = "native" /\ thread'[w] = "check"
            /\ \/ item'[w] = Item("last", 0) /\ audio[w] = 0
               \/ item'[w] \in {Item("done", 0), Item("error", 0)}
        BY <3>1 DEF NativeReturns, NativeFails, Puts, Goes, QueueInv, GuardInv, ThreadTypes
      <4>2. last = audio[w]
        BY <4>1 DEF LineInv
      <4>3. item'[w].kind # "audio"
        BY <4>1 DEF Item
      <4>4. last + 1 = audio[w] + 1 /\ (audio[w] = 0 => last + 1 = 1)
        BY <4>2
      <4>5. Fits(w, last + 1, item'[w])
        BY <4>1, <4>4 DEF Fits
      <4> QED BY <4>1, <4>3, <4>5
    <3>2. CASE Check(w)
      <4>1. item'[w] = item[w] /\ thread'[w] = "put" /\ thread[w] = "check"
        BY <1>0, <3>2 DEF Check, GivesUp, Goes, GuardInv, ThreadTypes
      <4> QED BY <4>1 DEF LineInv
    <3>3. CASE Exit(w)
      BY <3>3 DEF Exit, Goes, GuardInv, ThreadTypes
    <3> QED BY <1>2, <3>1, <3>2, <3>3 DEF WorkerStep
  <2>4. \A i \in 1..Len(got) : Fits(w, i, got[i])'
    <3>1. \A i \in 1..Len(got) : Fits(w, i, got[i])
      BY DEF LineInv
    <3> QED BY <1>0, <2>2, <3>1
  <2>5. \A i \in 1..Len(q) : Fits(w, Len(got) + i, q[i])'
    <3>1. \A i \in 1..Len(q) : Fits(w, Len(got) + i, q[i])
      BY DEF LineInv
    <3> QED BY <1>0, <2>1, <2>2, <3>1 DEF q
  <2>6. thread'[w] \in {"check", "put"} => Fits(w, last + 1, item[w])'
    <3>1. thread'[w] \in {"check", "put"} => Fits(w, last + 1, item'[w])
      BY <2>3
    <3>2. Fits(w, last + 1, item'[w]) => Fits(w, last + 1, item[w])'
      BY <1>0, <2>1 DEF Fits, q
    <3> QED BY <3>1, <3>2
  <2> HIDE DEF q
  <2>7. \A i \in 1..Len(queue'[w]) : Fits(w, Len(got) + i, queue[w][i])'
    BY <2>1, <2>5 DEF q
  <2> QED BY <1>0, <2>1, <2>3, <2>4, <2>6, <2>7 DEF LineInv, q
<1>3. CASE Put(w)
  <2>1. audio'[w] = audio[w] /\ thread[w] = "put"
    BY <1>3 DEF Put
  <2>2. \A place, x : Fits(w, place, x) => Fits(w, place, x)'
    BY <2>1, FitsKept
  <2>3. Fits(w, last + 1, item[w]) /\ (item[w].kind = "audio" => last + 1 = audio[w])
    BY <2>1 DEF LineInv
  <2>4. CASE Len(queue[w]) >= QueueSize
    <3>1. queue'[w] = q /\ item'[w] = item[w] /\ thread'[w] = "check"
      BY <1>0, <1>3, <2>4, VoicesAssumption DEF Put, Goes, GuardInv, ThreadTypes
    <3>2. \A i \in 1..Len(got) : Fits(w, i, got[i])'
      <4>1. \A i \in 1..Len(got) : Fits(w, i, got[i])
        BY DEF LineInv
      <4> QED BY <1>0, <2>2, <4>1
    <3>3. \A i \in 1..Len(q) : Fits(w, Len(got) + i, q[i])'
      <4>1. \A i \in 1..Len(q) : Fits(w, Len(got) + i, q[i])
        BY DEF LineInv
      <4> QED BY <1>0, <3>1, <2>2, <4>1 DEF q
    <3>4. Fits(w, last + 1, item[w])'
      BY <1>0, <2>1, <2>3, <3>1 DEF Fits, q
    <3> HIDE DEF q
    <3> QED BY <1>0, <2>1, <2>3, <3>1, <3>2, <3>3, <3>4 DEF LineInv, q
  <2>5. CASE Len(queue[w]) < QueueSize
    <3>1. queue'[w] = Append(q, item[w]) /\ Onward(w)
      BY <1>3, <2>5 DEF Put, QueueInv
    <3>2. /\ Len(queue'[w]) = Len(q) + 1 /\ queue'[w][Len(q) + 1] = item[w]
          /\ \A i \in 1..Len(q) : queue'[w][i] = q[i]
      <4> HIDE DEF q
      <4> QED BY <1>0, <3>1, ItemQueues
    <3>3. /\ item[w].kind = "audio" => thread'[w] = "native"
          /\ item[w].kind = "done" => thread'[w] = "exit"
          /\ item[w].kind \in {"last", "error"} => thread'[w] = "check" /\ item'[w] = Item("done", 0)
      BY <3>1 DEF Onward, Puts, Goes, QueueInv, GuardInv, ThreadTypes
    <3>4. item[w].kind \in {"audio", "last", "error", "done"}
      BY <1>0 DEF Items
    <3>5. item[w].kind \in {"last", "error"} => last + 2 = audio[w] + 2
      <4>1. ASSUME item[w].kind \in {"last", "error"}
            PROVE  last + 1 = audio[w] + 1 \/ (last + 1 = 1 /\ audio[w] = 0)
        <5> HIDE DEF last
        <5> QED BY <2>3, <4>1 DEF Fits, Item
      <4>2. last \in Int
        BY <1>0
      <4> HIDE DEF last
      <4> QED BY <1>0, <4>1, <4>2
    <3>6. \A i \in 1..Len(got) : Fits(w, i, got[i])'
      <4>1. \A i \in 1..Len(got) : Fits(w, i, got[i])
        BY DEF LineInv
      <4> QED BY <1>0, <2>2, <4>1
    <3>7. ASSUME NEW i \in 1..Len(queue'[w]) PROVE Fits(w, Len(got) + i, queue[w][i])'
      <4>1. CASE i \in 1..Len(q)
        <5>1. Fits(w, Len(got) + i, q[i])
          BY <4>1 DEF LineInv
        <5>2. Fits(w, Len(got) + i, q[i]) => Fits(w, Len(got) + i, queue[w][i])'
          <6>1. queue'[w][i] = q[i] /\ Len(got)' = Len(got)
            BY <1>0, <3>2, <4>1
          <6> QED BY <2>1, <6>1 DEF Fits
        <5> QED BY <5>1, <5>2
      <4>2. CASE i = Len(q) + 1
        <5>1. Len(got) + i = last + 1 /\ queue'[w][i] = item[w] /\ Len(got)' = Len(got)
          <6>1. Len(got) + (Len(q) + 1) = last + 1
            BY <1>0
          <6> QED BY <1>0, <3>2, <4>2, <6>1
        <5> QED BY <2>1, <2>3, <5>1 DEF Fits
      <4>3. i \in 1..Len(q) \/ i = Len(q) + 1
        <5> HIDE DEF q
        <5> QED BY <1>0, <3>2
      <4> QED BY <4>1, <4>2, <4>3
    <3>8. Len(got') + Len(queue'[w]) = last + 1 /\ Len(got') + Len(queue'[w]) + 1 = last + 2
      <4> HIDE DEF q
      <4> QED BY <1>0, <3>2
    <3>9. /\ thread'[w] = "native" => last + 1 = audio'[w]
          /\ thread'[w] \in {"check", "put"} =>
               item'[w] = Item("done", 0) /\ last + 2 = audio'[w] + 2
      BY <2>1, <2>3, <3>3, <3>4, <3>5
    <3>10. thread'[w] \in {"check", "put"} =>
             Fits(w, Len(got) + Len(queue[w]) + 1, item[w])' /\ item'[w].kind # "audio"
      BY <3>8, <3>9 DEF Fits, Item
    <3> HIDE DEF q
    <3> QED BY <1>0, <3>6, <3>7, <3>8, <3>9, <3>10 DEF LineInv
  <2>6. Len(queue[w]) >= QueueSize \/ Len(queue[w]) < QueueSize
    BY <1>0, VoicesAssumption
  <2> QED BY <2>4, <2>5, <2>6
<1> QED BY <1>1, <1>2, <1>3

\* The caller takes the next item.
LEMMA GotLine ==
  ASSUME QueueInv, StreamInv, Got
  PROVE  LineInv(iterator)' /\ TakenInv'
<1> DEFINE w == iterator
           q == queue[w]
           g == Len(got)
<1>1. /\ LineInv(w) /\ TakenInv /\ caller = "waiting" /\ w \in Workers
      /\ q \in Seq(Items) /\ q # <<>> /\ got \in Seq(Items)
  BY DEF Got, StreamInv, QueueInv
<1>2. /\ queue'[w] = Tail(q) /\ got' = Append(got, Head(q)) /\ iterator' = w
      /\ stopped'[w] = stopped[w] /\ audio'[w] = audio[w] /\ item'[w] = item[w] /\ thread'[w] = thread[w]
      /\ caller' = IF Head(q).kind = "done" THEN "joining"
                   ELSE IF Head(q).kind = "error" THEN "failed" ELSE "open"
  BY <1>1 DEF Got, OnlyCaller, QueueInv
<1>3. /\ Len(q) \in Nat /\ Len(Tail(q)) = Len(q) - 1 /\ Head(q) = q[1] /\ 1 \in 1..Len(q)
      /\ \A i \in 1..Len(Tail(q)) : Tail(q)[i] = q[i + 1] /\ i + 1 \in 1..Len(q)
      /\ Head(q) \in Items
  <2> HIDE DEF q
  <2> QED BY <1>1, ItemQueues
<1>4. /\ g \in Nat /\ got' \in Seq(Items) /\ Len(got') = g + 1 /\ got'[g + 1] = Head(q)
      /\ \A i \in 1..g : got'[i] = got[i]
  <2>1. Head(q) \in Items /\ got \in Seq(Items)
    BY <1>1, <1>3
  <2> HIDE DEF q
  <2> QED BY <1>2, <2>1, ItemQueues
<1>5. \A place, x : Fits(w, place, x) => Fits(iterator, place, x)'
  BY <1>1, <1>2, FitsKept
<1>6. \A i \in 1..(g + 1) : i \in 1..g \/ i = g + 1
  BY <1>4
<1>7. /\ \A i \in 1..g : Fits(w, i, got[i])
      /\ \A i \in 1..Len(q) : Fits(w, g + i, q[i])
  BY <1>1 DEF LineInv
<1>8. \A i \in 1..(g + 1) : Fits(iterator, i, got[i])'
  <2>1. Fits(w, g + 1, Head(q))
    BY <1>3, <1>7
  <2>2. \A i \in 1..(g + 1) : Fits(w, i, got'[i])
    BY <1>4, <1>6, <1>7, <2>1
  <2> QED BY <1>5, <2>2
<1>9. \A i \in 1..Len(Tail(q)) : Fits(iterator, Len(got) + i, queue[iterator][i])'
  <2> SUFFICES ASSUME NEW i \in 1..Len(Tail(q))
               PROVE  Fits(iterator, Len(got) + i, queue[iterator][i])'
    OBVIOUS
  <2>1. Fits(w, g + (i + 1), q[i + 1])
    BY <1>3, <1>7
  <2>2. g + (i + 1) = Len(got') + i
    BY <1>3, <1>4
  <2>3. queue'[iterator'][i] = q[i + 1]
    BY <1>2, <1>3
  <2>4. Fits(w, Len(got') + i, q[i + 1])
    BY <2>1, <2>2
  <2> QED BY <2>3, <2>4, <1>2 DEF Fits
<1>10. Len(got') + Len(queue'[iterator']) = g + Len(q)
  <2>1. Len(queue'[iterator']) = Len(q) - 1
    BY <1>2, <1>3
  <2> HIDE DEF q
  <2> QED BY <1>3, <1>4, <2>1
<1>11. LineInv(iterator)'
  <2>1. thread[w] \in {"check", "put"} =>
          Fits(w, g + Len(q) + 1, item[w]) /\ (item[w].kind = "audio" => g + Len(q) + 1 = audio[w])
    BY <1>1 DEF LineInv
  <2>2. thread[w] = "native" => g + Len(q) = audio[w]
    BY <1>1 DEF LineInv
  <2>3. ~stopped[w]
    BY <1>1 DEF LineInv
  <2>4. Fits(w, g + Len(q) + 1, item[w]) => Fits(iterator, Len(got) + Len(queue[iterator]) + 1, item[iterator])'
    BY <1>2, <1>10 DEF Fits
  <2>5. Len(queue'[iterator']) = Len(Tail(q))
    BY <1>2
  <2>6. \A i \in 1..Len(got') : Fits(iterator, i, got[i])'
    BY <1>4, <1>8
  <2>7. \A i \in 1..Len(queue'[iterator']) : Fits(iterator, Len(got) + i, queue[iterator][i])'
    BY <1>9, <2>5
  <2>8. /\ stopped'[iterator'] = stopped[w] /\ thread'[iterator'] = thread[w]
        /\ item'[iterator'] = item[w] /\ audio'[iterator'] = audio[w]
    BY <1>2
  <2> HIDE DEF q, w, g
  <2> QED BY <1>10, <2>1, <2>2, <2>3, <2>4, <2>6, <2>7, <2>8 DEF LineInv
<1>12. TakenInv'
  <2>1. \A i \in 1..g : got'[i].kind \in {"audio", "last"}
    BY <1>1, <1>4 DEF TakenInv
  <2>2. got'[Len(got')] = Head(q) /\ got' # <<>>
    BY <1>4
  <2>3. Head(q).kind \in {"audio", "last", "error", "done"}
    BY <1>3 DEF Items
  <2>4. \A i \in 1..Len(got') : i \in 1..g \/ (i = g + 1 /\ ~(i < Len(got')))
    BY <1>4
  <2>5. got'[g + 1] = Head(q)
    BY <1>4
  <2> HIDE DEF q, w, g
  <2> QED BY <1>2, <2>1, <2>2, <2>3, <2>4, <2>5 DEF TakenInv
<1> QED BY <1>11, <1>12

\* A worker that starts has an empty stream.
LEMMA StartLine ==
  ASSUME GuardInv, QueueInv, NEW v, StartWorker(v), caller \in {"idle", "loading"}
  PROVE  StreamInv'
<1>1. CASE caller' = "idle"
  BY <1>1 DEF StreamInv
<1>2. CASE caller' # "idle"
  <2>1. PICK w \in Workers :
           /\ Alive = {} /\ iterator' = w /\ caller' = "open"
           /\ thread' = [thread EXCEPT ![w] = "native"]
           /\ UNCHANGED <<queue, stopped, item, audio, got>>
    BY <1>2, Started
  <2>2. thread[w] = "dead" /\ w # iterator /\ got = <<>>
    BY <1>1, <2>1, VoicesAssumption DEF Alive, QueueInv
  <2>3. queue[w] = <<>> /\ ~stopped[w] /\ audio[w] = 0 /\ thread'[w] = "native"
    BY <2>1, <2>2 DEF QueueInv, GuardInv, ThreadTypes
  <2>4. Len(<<>>) = 0 /\ 0 + 0 = 0 /\ 1..0 = {}
    OBVIOUS
  <2>5. LineInv(iterator)'
    <3>1. /\ ~stopped'[iterator'] /\ Len(got') = 0 /\ Len(queue'[iterator']) = 0
          /\ thread'[iterator'] = "native" /\ audio'[iterator'] = 0
      BY <2>1, <2>2, <2>3, <2>4
    <3> QED BY <2>4, <3>1 DEF LineInv
  <2>6. TakenInv'
    BY <2>1, <2>2, <2>4 DEF TakenInv
  <2> QED BY <2>5, <2>6 DEF StreamInv
<1> QED BY <1>1, <1>2

\* Every step keeps the stream.
LEMMA NextStream ==
  ASSUME GuardInv, QueueInv, StreamInv, [VoicesNext]_voicesVars
  PROVE  StreamInv'
<1>1. CASE \/ (\E v \in Voices : UseLoaded(v)) \/ EndLoad
  BY <1>1, StartLine DEF UseLoaded, EndLoad
<1>2. ASSUME NEW w \in Workers, WorkerStep(w) PROVE StreamInv'
  <2>1. UNCHANGED <<caller, iterator, got>>
    BY <1>2, WorkerQueue
  <2> SUFFICES ASSUME caller \in {"open", "waiting", "joining", "failed"}
               PROVE  LineInv(iterator)' /\ TakenInv'
    BY <2>1 DEF StreamInv
  <2>2. LineInv(iterator) /\ TakenInv /\ iterator \in Workers
    BY DEF StreamInv, QueueInv
  <2>3. TakenInv'
    BY <2>1, <2>2 DEF TakenInv
  <2>4. CASE w = iterator
    <3>1. LineInv(w)'
      BY <1>2, <2>2, <2>4, WorkerLine
    <3>2. LineInv(iterator)'
      BY <2>1, <2>4, <3>1 DEF LineInv, Fits
    <3> QED BY <2>3, <3>2
  <2>5. CASE w # iterator
    <3>1. /\ queue'[iterator] = queue[iterator] /\ item'[iterator] = item[iterator]
          /\ stopped'[iterator] = stopped[iterator] /\ audio'[iterator] = audio[iterator]
          /\ thread'[iterator] = thread[iterator]
      BY <1>2, <2>2, <2>5, WorkerQueue
    <3>2. ASSUME NEW u \in Workers, u = iterator PROVE LineInv(u)'
      BY <2>1, <2>2, <3>1, <3>2, LineKept
    <3>3. LineInv(iterator)'
      BY <2>1, <2>2, <3>2 DEF LineInv, Fits
    <3> QED BY <2>3, <3>3
  <2> QED BY <2>4, <2>5
<1>3. CASE Got
  BY <1>3, GotLine DEF StreamInv
<1>4. CASE \/ LoadFails \/ Joined \/ Close \/ CloseDrains \/ CloseEnds
           \/ (\E v \in Voices : BeginLoad(v))
  <2>1. caller' \in {"idle", "loading", "closing"}
    BY <1>4 DEF LoadFails, Joined, Close, CloseDrains, CloseEnds, Forgets, BeginLoad
  <2> QED BY <2>1 DEF StreamInv
<1>5. CASE TakeNext \/ Tick \/ UNCHANGED voicesVars
  <2>1. UNCHANGED <<queue, stopped, audio, item, got, thread, iterator>>
    BY <1>5 DEF TakeNext, Tick, OnlyCaller, workerVars, callerVars, voicesVars
  <2>2. caller' = caller \/ (caller = "open" /\ caller' = "waiting")
    BY <1>5 DEF TakeNext, Tick, OnlyCaller, workerVars, callerVars, voicesVars
  <2> QED BY <2>1, <2>2 DEF StreamInv, LineInv, TakenInv, Fits
<1> QED
  BY <1>1, <1>2, <1>3, <1>4, <1>5 DEF VoicesNext, CallerStep

\* The invariant holds at the start.
LEMMA InitVoices == VoicesInit => VoicesInv
<1> SUFFICES ASSUME VoicesInit PROVE VoicesInv
  OBVIOUS
<1>1. GuardInv /\ PoolInv /\ PaceInv
  BY InitGuard, InitPool
<1>2. /\ queue = [w \in Workers |-> <<>>] /\ stopped = [w \in Workers |-> FALSE]
      /\ audio = [w \in Workers |-> 0] /\ item = [w \in Workers |-> Item("done", 0)]
      /\ got = <<>> /\ caller = "idle" /\ iterator = NoWorker
  BY DEF VoicesInit
<1>3. /\ <<>> \in Seq(Items) /\ Len(<<>>) = 0 /\ 0 \in 0..MaxAudio /\ QueueSize \in Nat
      /\ Item("done", 0) \in Items
  BY VoicesAssumption, ItemTypes
<1>4. QueueInv
  BY <1>2, <1>3 DEF QueueInv
<1>5. StreamInv
  BY <1>2 DEF StreamInv
<1> QED BY <1>1, <1>4, <1>5 DEF VoicesInv

\* The invariant is inductive.
LEMMA NextVoices == VoicesInv /\ [VoicesNext]_voicesVars => VoicesInv'
BY NextGuard, NextPool, NextPace, NextQueue, NextStream DEF VoicesInv

\* The invariant holds throughout.
THEOREM VoicesInvariance == VoicesSpec => []VoicesInv
BY InitVoices, NextVoices, PTL DEF VoicesSpec

\* There are no more loaded voices than places, whoever uses them.
LEMMA PoolBounded == VoicesInv => VoicesTypeOK /\ MemoryBounded
<1> SUFFICES ASSUME VoicesInv PROVE VoicesTypeOK /\ MemoryBounded
  OBVIOUS
<1>1. VoicesTypeOK
  BY VoicesAssumption DEF VoicesInv, GuardInv, ThreadTypes, PoolInv, PaceInv, QueueInv, VoicesTypeOK
<1>2. MemoryBounded
  <2> DEFINE V == Range(engines)
             n == Len(engines)
  <2>1. V \cup {voice[w] : w \in Alive} = V
    BY DEF VoicesInv, PoolInv
  <2>2. engines \in Seq(Voices) /\ n \in 1..MaxLoaded
    BY DEF VoicesInv, PoolInv
  <2>3. n \in Nat /\ n <= MaxLoaded /\ DOMAIN engines = 1..n
    BY <2>2, VoicesAssumption
  <2>4. engines \in Surjection(1..n, V)
    BY <2>2, <2>3 DEF Surjection, Range
  <2>5. ExistsSurjection(1..n, V)
    BY <2>4 DEF ExistsSurjection
  <2>6. IsFiniteSet(V)
    BY <2>3, <2>4, FS_Interval, FS_Surjection
  <2>7. Cardinality(V) <= n
    BY <2>3, <2>5, FS_SurjCardinalityBound
  <2>8. Cardinality(V) \in Nat
    BY <2>6, FS_CardinalityType
  <2>9. MaxLoaded \in Int
    BY VoicesAssumption
  <2> HIDE DEF V, n
  <2>10. Cardinality(V) <= MaxLoaded
    BY <2>3, <2>7, <2>8, <2>9
  <2> QED BY <2>1, <2>10 DEF MemoryBounded, V
<1> QED BY <1>1, <1>2

\* A step that evicts a voice is the end of a load into a full pool.
LEMMA Evictions ==
  ASSUME VoicesInv, [VoicesNext]_voicesVars, Range(engines) \ Range(engines') # {}
  PROVE  EndLoad /\ Len(engines) >= MaxLoaded
<1>1. GuardInv /\ PoolInv
  BY DEF VoicesInv
<1>2. CASE EndLoad
  BY <1>1, <1>2, LoadPool
<1>3. CASE \E v \in Voices : UseLoaded(v)
  BY <1>1, <1>3, UsePool
<1>4. CASE ~EndLoad /\ ~(\E v \in Voices : UseLoaded(v))
  <2>1. engines' = engines
    BY <1>4 DEF VoicesNext, CallerStep, BeginLoad, TakeNext, LoadFails, Got, Joined, Close,
                CloseDrains, CloseEnds, Tick, Forgets, OnlyCaller, WorkerStep, OnAudio, NativeReturns,
                NativeFails, Check, Put, Exit, OnlyWorker, poolVars, voicesVars
  <2> QED BY <2>1
<1> QED BY <1>2, <1>3, <1>4

\* Loaded voices stay within the memory, those that a left worker uses included; one
\* voice goes per interval, and that is the one not used for the longest time
\* (LazyMultiVoiceTTSEngine._engine).
THEOREM VoicesAreKept == VoicesSpec => VoicesKept
<1>1. VoicesInv => VoicesTypeOK /\ MemoryBounded
  BY PoolBounded
<1>2. VoicesInv /\ [VoicesNext]_voicesVars =>
        [Range(engines) \ Range(engines') # {} => pause >= Interval]_voicesVars
  <2> SUFFICES ASSUME VoicesInv, [VoicesNext]_voicesVars, Range(engines) \ Range(engines') # {}
               PROVE  pause >= Interval
    OBVIOUS
  <2>1. EndLoad /\ Len(engines) >= MaxLoaded
    BY Evictions
  <2>2. ~TooSoon
    BY <2>1 DEF VoicesInv, PaceInv, EndLoad
  <2> QED BY <2>1, <2>2, VoicesAssumption DEF VoicesInv, PaceInv, TooSoon
<1>3. VoicesInv /\ [VoicesNext]_voicesVars =>
        [\A v \in Range(engines) \ Range(engines'), u \in Range(engines) \cap Range(engines') :
           <<v, u>> \in older]_voicesVars
  <2> SUFFICES ASSUME VoicesInv, [VoicesNext]_voicesVars,
                      NEW v \in Range(engines) \ Range(engines'),
                      NEW u \in Range(engines) \cap Range(engines')
               PROVE  <<v, u>> \in older
    OBVIOUS
  <2>1. EndLoad /\ Len(engines) >= MaxLoaded
    BY Evictions
  <2>2. /\ GuardInv /\ PoolInv /\ Pool(engines, older) /\ wanted \notin Range(engines)
    BY <2>1 DEF VoicesInv, PoolInv, Pool, EndLoad
  <2>3. 1 \in DOMAIN engines /\ Range(engines') = (Range(engines) \ {engines[1]}) \cup {wanted}
    BY <2>1, <2>2, LoadPool
  <2>4. v = engines[1] /\ u # engines[1]
    BY <2>2, <2>3
  <2>5. PICK k \in 1..Len(engines) : u = engines[k]
    BY <2>2, PoolPlaces
  <2>6. 1 \in 1..Len(engines) /\ 1 < k
    <3>1. Len(engines) \in Nat /\ DOMAIN engines = 1..Len(engines)
      BY <2>2, PoolPlaces
    <3> QED BY <2>3, <2>4, <2>5, <3>1
  <2> QED BY <2>2, <2>4, <2>5, <2>6, PoolPlaces
<1> QED
  BY <1>1, <1>2, <1>3, VoicesInvariance, PTL DEF VoicesSpec, VoicesKept, PacedEviction, OldestEvicted

\* An iterator that comes to its end gave every sentence of the worker, in order and
\* once, and one that fails those made before the failure (_NghiAudioIterator).
THEOREM AudioIsDelivered == VoicesSpec => []AllDelivered
<1>1. VoicesInv => AllDelivered
  <2> DEFINE ending == Item(IF caller = "joining" THEN "done" ELSE "error", 0)
             a == audio[iterator]
             n == Len(got)
             full == Append([k \in 1..a |-> Item("audio", k)], ending)
             short == <<Item("last", 0), ending>>
  <2> SUFFICES ASSUME VoicesInv, caller \in {"joining", "failed"}
               PROVE  got = full \/ (got = short /\ a = 0 /\ caller = "joining")
    BY DEF AllDelivered
  <2>1. LineInv(iterator) /\ TakenInv /\ iterator \in Workers /\ got \in Seq(Items) /\ a \in Nat
    BY VoicesAssumption DEF VoicesInv, StreamInv, QueueInv
  <2>2. /\ n \in Nat \ {0} /\ \A i \in 1..n : Fits(iterator, i, got[i])
        /\ got[n].kind = (IF caller = "joining" THEN "done" ELSE "error")
        /\ \A i \in 1..n : i < n => got[i].kind \in {"audio", "last"}
    <3>1. got # <<>> /\ n \in Nat
      BY <2>1 DEF TakenInv
    <3>2. n # 0
      BY <2>1, <3>1
    <3> QED BY <2>1, <3>1, <3>2 DEF LineInv, TakenInv
  <2>3. n \in 1..n
    BY <2>2
  <2>4. /\ got[n] = ending
        /\ n = a + 1 \/ (n = a + 2 /\ caller = "joining")
    <3>1. Fits(iterator, n, got[n])
      BY <2>2, <2>3
    <3>2. CASE caller = "joining"
      <4>1. got[n].kind = "done"
        BY <2>2, <3>2
      <4>2. got[n] = Item("done", 0) /\ n \in {a + 1, a + 2}
        <5> HIDE DEF n
        <5> QED BY <3>1, <4>1 DEF Fits, Item
      <4> QED BY <3>2, <4>2
    <3>3. CASE caller # "joining"
      <4>1. got[n].kind = "error"
        BY <2>2, <3>3
      <4>2. got[n] = Item("error", 0) /\ n = a + 1
        <5> HIDE DEF n
        <5> QED BY <3>1, <4>1 DEF Fits, Item
      <4> QED BY <3>3, <4>2
    <3> QED BY <3>2, <3>3
  <2>5. ASSUME NEW i \in 1..n, i < n
        PROVE  \/ got[i] = Item("audio", i) /\ i <= a
               \/ got[i] = Item("last", 0) /\ i = 1 /\ a = 0
    BY <2>2, <2>5 DEF Fits, Item
  <2>6. CASE n = a + 1
    <3> DEFINE s == [k \in 1..a |-> Item("audio", k)]
    <3>1. \A k \in 1..a : got[k] = Item("audio", k)
      BY <2>1, <2>5, <2>6
    <3>2. s \in Seq({got[k] : k \in 1..a}) /\ Len(s) = a /\ \A k \in 1..a : s[k] = got[k]
      <4>1. s \in [1..a -> {got[k] : k \in 1..a}]
        BY <3>1
      <4> QED BY <2>1, <3>1, <4>1
    <3> HIDE DEF s, ending
    <3>3. Len(Append(s, ending)) = n /\ \A k \in 1..n : Append(s, ending)[k] = got[k]
      BY <2>1, <2>2, <2>4, <2>6, <3>2
    <3>4. Append(s, ending) = got
      BY <2>1, <2>2, <3>2, <3>3
    <3> QED BY <3>4 DEF s, ending
  <2>7. CASE n = a + 2 /\ caller = "joining"
    <3>1. a + 1 \in 1..n /\ a + 1 < n /\ ~(a + 1 <= a)
      BY <2>1, <2>7
    <3>2. got[a + 1] = Item("last", 0) /\ a + 1 = 1 /\ a = 0
      BY <2>5, <3>1
    <3>3. n = 2 /\ got[1] = Item("last", 0) /\ got[2] = ending
      BY <2>4, <2>7, <3>2
    <3> HIDE DEF ending
    <3>4. got = <<Item("last", 0), ending>>
      BY <2>1, <3>3
    <3> QED BY <2>7, <3>2, <3>4 DEF ending
  <2> QED BY <2>4, <2>6, <2>7
<1> QED
  BY <1>1, VoicesInvariance, PTL
================================================================================
