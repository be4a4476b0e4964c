--------------------------- MODULE SpeechServerProofs ---------------------------
(* For any connections, limits and number of threads: both engines are leased, *)
(* shutdown included, slots, audio and transcripts are counted exactly, the     *)
(* executor's queue is as long as the connections allow, and the shutdown keeps *)
(* its order.                                                                  *)
EXTENDS SpeechServer, FiniteSums, SequenceTheorems

Holders == Conns \cup {Drain}
Places  == Outside \cup Speaking \cup
             {"read", "finish", "close", "release", "convert", "queue", "infer", "failing"}

LeaseTypes ==
  /\ at \in [Conns -> Places]
  /\ holder \in [Services -> Holders \cup {Free}]
  /\ waiters \in [Services -> Seq(Holders)]

\* The executor's queue holds calls that wait, each once.
PoolInv ==
  /\ job \in [Calls -> [Conns -> {"none", "queued", "running", "hung"}]]
  /\ backlog \in Seq(Calls \X Conns)
  /\ \A i \in 1..Len(backlog) : job[backlog[i][1]][backlog[i][2]] = "queued"
  /\ \A i, j \in 1..Len(backlog) : backlog[i] = backlog[j] => i = j

\* A call belongs to the holder of its lock.  A recognition is awaited by its
\* handler, which holds the lock until it has reported the outcome; a split is
\* awaited by its handler too, without a lock.
LeaseInv ==
  /\ LeaseTypes
  /\ PoolInv
  /\ \A s \in Services, c \in Conns : job[s][c] # "none" => holder[s] = c
  /\ \A c \in Conns : job["stt"][c] # "none" => at[c] = "infer"
  /\ \A c \in Conns : job["split"][c] # "none" => at[c] \in Speaking
  /\ \A c \in Conns : at[c] \in {"infer", "failing"} => holder["stt"] = c

\* The lease invariant holds at the start.
LEMMA InitLease == Init => LeaseInv
<1> SUFFICES ASSUME Init PROVE LeaseInv
  OBVIOUS
<1>1. LeaseTypes
  BY DEF Init, LeaseTypes, Places, Outside
<1>2. PoolInv
  BY DEF Init, PoolInv
<1>3. \A c \in Conns : at[c] = "away" /\ \A k \in Calls : job[k][c] = "none"
  BY DEF Init
<1>4. {"stt", "split"} \subseteq Calls /\ Services \subseteq Calls
  BY DEF Services, Calls
<1> QED BY <1>1, <1>2, <1>3, <1>4 DEF LeaseInv

\* Leaving keeps the set of waiting connections.
LEMMA LeaveType ==
  ASSUME LeaseTypes, NEW s \in Services, NEW p, Leave(s, p)
  PROVE  waiters' \in [Services -> Seq(Holders)]
<1>1. CASE ~Waiting(s, p)
  BY <1>1 DEF Leave, LeaseTypes
<1>2. CASE Waiting(s, p)
  <2> DEFINE q == waiters[s]
             i == CHOOSE i \in DOMAIN q : q[i] = p
  <2>1. i \in DOMAIN q
    BY <1>2 DEF Waiting
  <2>2. q \in Seq(Holders) /\ i \in 1..Len(q) /\ Len(q) \in Nat
    BY <2>1 DEF LeaseTypes
  <2> HIDE DEF q, i
  <2>3. \A k \in 1..Len(q) : q[k] \in Holders
    BY <2>2
  <2>4. SubSeq(q, 1, i - 1) \in Seq(Holders)
    BY <2>2, <2>3, SubSeqProperties
  <2>5. SubSeq(q, i + 1, Len(q)) \in Seq(Holders)
    BY <2>2, <2>3, SubSeqProperties
  <2>6. RemoveAt(q, i) \in Seq(Holders)
    BY <2>4, <2>5, ConcatProperties DEF RemoveAt
  <2>7. waiters' = [waiters EXCEPT ![s] = RemoveAt(q, i)]
    BY <1>2 DEF Leave, q, i
  <2> QED BY <2>6, <2>7 DEF LeaseTypes
<1> QED BY <1>1, <1>2


--------------------------------------------------------------------------------
(* The executor's queue. *)

\* A call is submitted once.
LEMMA SubmitPool ==
  ASSUME PoolInv, NEW k \in Calls, NEW c \in Conns, Submit(k, c), job[k][c] = "none"
  PROVE  PoolInv'
<1> DEFINE n == Len(backlog)
<1>1. /\ job' = [job EXCEPT ![k][c] = "queued"] /\ backlog' = Append(backlog, <<k, c>>)
      /\ n \in Nat
  BY DEF Submit, PoolInv
<1>2. /\ backlog' \in Seq(Calls \X Conns) /\ Len(backlog') = n + 1
      /\ \A i \in 1..n : backlog'[i] = backlog[i]
      /\ backlog'[n + 1] = <<k, c>>
  BY <1>1, AppendProperties DEF PoolInv
<1>3. job' \in [Calls -> [Conns -> {"none", "queued", "running", "hung"}]]
  BY <1>1 DEF PoolInv
<1>4. \A i \in 1..n : backlog[i] \in Calls \X Conns /\ backlog[i] # <<k, c>>
  BY DEF PoolInv
<1>5. \A i \in 1..n : job'[backlog[i][1]][backlog[i][2]] = "queued"
  BY <1>1, <1>4 DEF PoolInv
<1>6. job'[k][c] = "queued"
  BY <1>1 DEF PoolInv
<1>7. ASSUME NEW i \in 1..(n + 1) PROVE job'[backlog'[i][1]][backlog'[i][2]] = "queued"
  BY <1>1, <1>2, <1>5, <1>6
<1>8. ASSUME NEW i \in 1..(n + 1), NEW j \in 1..(n + 1), backlog'[i] = backlog'[j] PROVE i = j
  <2> HIDE DEF n
  <2>1. i \in 1..n \/ i = n + 1
    BY <1>1
  <2>2. j \in 1..n \/ j = n + 1
    BY <1>1
  <2> QED BY <1>2, <1>4, <1>8, <2>1, <2>2 DEF PoolInv, n
<1> HIDE DEF n
<1> QED BY <1>2, <1>3, <1>7, <1>8 DEF PoolInv

\* A thread takes a call that waits.
LEMMA TakePool ==
  ASSUME PoolInv, ThreadTakes
  PROVE  /\ PoolInv'
         /\ \E k \in Calls, c \in Conns : /\ job[k][c] = "queued"
                                          /\ job' = [job EXCEPT ![k][c] = "running"]
<1> DEFINE n == Len(backlog)
           k == backlog[1][1]
           c == backlog[1][2]
<1>0. backlog # <<>> /\ backlog' = Tail(backlog)
  BY DEF ThreadTakes
<1>a. Head(backlog) = backlog[1]
  BY <1>0, HeadTailProperties DEF PoolInv
<1>1. /\ backlog # <<>> /\ backlog' = Tail(backlog)
      /\ job' = [job EXCEPT ![k][c] = "running"]
  BY <1>0, <1>a DEF ThreadTakes
<1>2. /\ n \in Nat \ {0} /\ backlog' \in Seq(Calls \X Conns) /\ Len(backlog') = n - 1
      /\ \A i \in 1..(n - 1) : backlog'[i] = backlog[i + 1]
  BY <1>1, HeadTailProperties, EmptySeq DEF PoolInv
<1>3. \A i \in 1..n : backlog[i] \in Calls \X Conns
  BY DEF PoolInv
<1>4. 1 \in 1..n
  BY <1>2
<1>5. k \in Calls /\ c \in Conns /\ job[k][c] = "queued" /\ backlog[1] = <<k, c>>
  BY <1>3, <1>4 DEF PoolInv
<1>6. job' \in [Calls -> [Conns -> {"none", "queued", "running", "hung"}]]
  BY <1>1, <1>5 DEF PoolInv
<1>7. ASSUME NEW i \in 1..(n - 1) PROVE job'[backlog'[i][1]][backlog'[i][2]] = "queued"
  <2>1. i + 1 \in 1..n /\ i + 1 # 1
    BY <1>2
  <2>2. backlog[i + 1] # backlog[1]
    BY <1>4, <2>1 DEF PoolInv
  <2>3. job[backlog[i + 1][1]][backlog[i + 1][2]] = "queued"
    BY <2>1 DEF PoolInv
  <2>4. backlog'[i] = backlog[i + 1]
    BY <1>2
  <2>5. backlog[i + 1][1] # k \/ backlog[i + 1][2] # c
    BY <1>4, <1>5, <2>1, <2>2 DEF PoolInv
  <2> HIDE DEF k, c
  <2> QED BY SMTT(30), <1>1, <1>3, <1>5, <2>1, <2>3, <2>4, <2>5 DEF PoolInv
<1>8. ASSUME NEW i \in 1..(n - 1), NEW j \in 1..(n - 1), backlog'[i] = backlog'[j] PROVE i = j
  <2>1. i + 1 \in 1..n /\ j + 1 \in 1..n
    BY <1>2
  <2>2. i + 1 = j + 1
    BY <1>2, <1>8, <2>1 DEF PoolInv
  <2> QED BY <2>2
<1> HIDE DEF n, k, c
<1> QED BY <1>1, <1>2, <1>5, <1>6, <1>7, <1>8 DEF PoolInv

\* A call on a thread returns or hangs.
LEMMA EndPool ==
  ASSUME PoolInv, NEW k \in Calls, NEW c \in Conns, NEW j \in {"none", "hung"},
         job[k][c] = "running", job' = [job EXCEPT ![k][c] = j], backlog' = backlog
  PROVE  PoolInv'
<1>1. \A i \in 1..Len(backlog) : backlog[i] \in Calls \X Conns
  BY DEF PoolInv
<1>2. job' \in [Calls -> [Conns -> {"none", "queued", "running", "hung"}]]
  BY DEF PoolInv
<1>3. ASSUME NEW i \in 1..Len(backlog) PROVE job'[backlog[i][1]][backlog[i][2]] = "queued"
  BY <1>1 DEF PoolInv
<1> QED BY <1>2, <1>3 DEF PoolInv

--------------------------------------------------------------------------------
(* What a step does to a lock and to the calls under it. *)

CallsKept(s) == CallsOf(s)' = CallsOf(s)

Kept(s)   == holder'[s] = holder[s] /\ CallsKept(s)
Taken(s)  == holder[s] = Free /\ holder'[s] \in Holders /\ CallsKept(s)
Freed(s)  == holder[s] \in Holders /\ holder'[s] = Free /\ CallsOf(s) = {} /\ CallsKept(s)
Called(s) == /\ holder'[s] = holder[s]
             /\ \E c \in Conns : holder[s] = c /\ CallsOf(s) = {} /\ CallsOf(s)' = {c}
Over(s)   == /\ holder'[s] = holder[s]
             /\ \E c \in Conns : CallsOf(s) = {c} /\ CallsOf(s)' = {}

Outcome(s) == Kept(s) \/ Taken(s) \/ Freed(s) \/ Called(s) \/ Over(s)
Good == LeaseInv' /\ \A s \in Services : Outcome(s)

\* A service's calls are none or one, by the holder of its lock.
LEMMA OneCall ==
  ASSUME LeaseInv, NEW s \in Services
  PROVE  CallsOf(s) \subseteq {holder[s]}
BY DEF LeaseInv, CallsOf

\* Without a call that begins or ends, the calls of a service are the same.
LEMMA SameCalls == ASSUME UNCHANGED job PROVE \A s \in Services : CallsKept(s)
BY DEF CallsKept, CallsOf

\* Steps that leave the locks and the calls alone, and their handlers out of the
\* recognition and the split.
LEMMA Elsewhere ==
  ASSUME LeaseInv, UNCHANGED <<holder, job, backlog>>, waiters' \in [Services -> Seq(Holders)],
         NEW c \in Conns, NEW p \in Places \ {"infer", "failing"},
         at[c] \notin {"infer", "failing"}, at' \in {at, [at EXCEPT ![c] = p]},
         at[c] \in Speaking => SplitOver(c)
  PROVE  Good
<1>1. PoolInv'
  BY DEF LeaseInv, PoolInv
<1>2. at' \in [Conns -> Places] /\ \A q \in Conns \ {c} : at'[q] = at[q]
  BY DEF LeaseInv, LeaseTypes
<1>3. LeaseTypes'
  BY <1>2 DEF LeaseInv, LeaseTypes
<1>4. job["split"][c] = "none" \/ at' = at
  BY DEF LeaseInv, SplitOver
<1>5. at'[c] \notin {"infer", "failing"} /\ job["stt"][c] = "none"
  BY DEF LeaseInv, LeaseTypes
<1>6. LeaseInv'
  BY <1>1, <1>2, <1>3, <1>4, <1>5 DEF LeaseInv
<1> QED BY <1>6, SameCalls DEF Good, Outcome, Kept

\* Waiting for a lock keeps the queue's type.
LEMMA EnqueueType ==
  ASSUME LeaseTypes, NEW s \in Services, NEW p \in Holders, Enqueue(s, p)
  PROVE  waiters' \in [Services -> Seq(Holders)]
BY DEF LeaseTypes, Enqueue

\* Connection steps outside the engines keep the lease invariant.
LEMMA HandlerLease ==
  ASSUME LeaseInv, NEW c \in Conns, HandlerStep(c)
  PROVE  Good
<1>1. CASE ClientCloses(c)
  <2>1. UNCHANGED <<at, holder, waiters, job, backlog>>
    BY <1>1 DEF ClientCloses, lockVars, poolVars
  <2>2. PoolInv'
    BY <2>1 DEF LeaseInv, PoolInv
  <2>3. LeaseTypes'
    BY <2>1 DEF LeaseInv, LeaseTypes
  <2>4. LeaseInv'
    BY <2>1, <2>2, <2>3 DEF LeaseInv
  <2> QED BY <2>1, <2>4, SameCalls DEF Good, Outcome, Kept
<1>2. CASE ~ClientCloses(c)
  <2>1. /\ UNCHANGED <<holder, waiters, job, backlog>>
        /\ at[c] \notin {"infer", "failing"} \cup Speaking
    BY <1>2 DEF HandlerStep, Connect, ReadEnds, Written, Disconnect, ReleaseSlot, TurnedAway,
                lockVars, poolVars, Speaking
  <2>2. \E p \in Places \ {"infer", "failing"} : at' = [at EXCEPT ![c] = p]
    BY <1>2 DEF HandlerStep, Connect, ReadEnds, Written, Disconnect, ReleaseSlot, TurnedAway, Go,
                Places, Outside
  <2> QED BY <2>1, <2>2, Elsewhere DEF LeaseInv, LeaseTypes
<1> QED BY <1>1, <1>2

\* A lock is freed under no call by the handler of a recognition that is over.
LEMMA FreesStt ==
  ASSUME LeaseInv, NEW c \in Conns, NEW p \in {"close", "finish"},
         holder["stt"] = c, job["stt"][c] = "none", at[c] \in {"queue", "infer", "failing"},
         holder' = [holder EXCEPT !["stt"] = Free], at' = [at EXCEPT ![c] = p],
         UNCHANGED <<waiters, job, backlog>>
  PROVE  Good
<1> USE DEF Services
<1>1. \A q \in Conns : job["stt"][q] = "none"
  BY DEF LeaseInv
<1>2. CallsOf("stt") = {} /\ \A s \in Services : CallsKept(s)
  BY <1>1, SameCalls DEF CallsOf
<1>3. PoolInv'
  BY DEF LeaseInv, PoolInv
<1>4. LeaseTypes' /\ \A q \in Conns \ {c} : at'[q] = at[q]
  BY DEF LeaseInv, LeaseTypes, Places
<1>5. at'[c] = p /\ job["split"][c] = "none"
  BY DEF LeaseInv, LeaseTypes, Speaking
<1>6. \A s \in Services, q \in Conns : job[s][q] # "none" => holder'[s] = q
  BY <1>1 DEF LeaseInv, LeaseTypes
<1>7. \A q \in Conns : at'[q] \notin {"infer", "failing"}
  BY <1>4, <1>5 DEF LeaseInv
<1>8. LeaseInv'
  BY <1>1, <1>3, <1>4, <1>5, <1>6, <1>7 DEF LeaseInv
<1>9. Freed("stt") /\ Kept("tts")
  BY <1>2 DEF Freed, Kept, LeaseInv, LeaseTypes, Holders
<1> QED BY <1>8, <1>9 DEF Good, Outcome

\* The recognition's handler that reports a failure keeps its lock.
LEMMA FailsStt ==
  ASSUME LeaseInv, NEW c \in Conns, holder["stt"] = c, job["stt"][c] = "none",
         at[c] \in {"queue", "infer"}, at' = [at EXCEPT ![c] = "failing"],
         UNCHANGED <<holder, waiters, job, backlog>>
  PROVE  Good
<1>1. PoolInv'
  BY DEF LeaseInv, PoolInv
<1>2. LeaseTypes' /\ \A q \in Conns \ {c} : at'[q] = at[q]
  BY DEF LeaseInv, LeaseTypes, Places
<1>3. at'[c] = "failing" /\ job["split"][c] = "none"
  BY DEF LeaseInv, LeaseTypes, Speaking
<1>4. LeaseInv'
  BY <1>1, <1>2, <1>3 DEF LeaseInv
<1> QED BY <1>4, SameCalls DEF Good, Outcome, Kept

\* The holder of a lock begins a call.
LEMMA BeginsCall ==
  ASSUME LeaseInv, LeaseInv', NEW s \in Services, NEW c \in Conns, holder[s] = c,
         job[s][c] = "none", job' = [job EXCEPT ![s][c] = "queued"], UNCHANGED holder
  PROVE  \A t \in Services : Outcome(t)
<1> USE DEF Services, Calls
<1>1. \A q \in Conns : job[s][q] = "none"
  BY DEF LeaseInv
<1>2. job'[s] = [job[s] EXCEPT ![c] = "queued"] /\ \A t \in Services \ {s} : job'[t] = job[t]
  BY DEF LeaseInv, PoolInv
<1>3. CallsOf(s) = {} /\ CallsOf(s)' = {c}
  BY <1>1, <1>2 DEF CallsOf, LeaseInv, PoolInv
<1>4. \A t \in Services \ {s} : CallsKept(t)
  BY <1>2 DEF CallsKept, CallsOf
<1>5. Called(s) /\ \A t \in Services \ {s} : Kept(t)
  BY <1>3, <1>4 DEF Called, Kept
<1> QED BY <1>5 DEF Outcome

\* The STT handler's steps with its lock keep the lease invariant.
LEMMA SttLocks ==
  ASSUME LeaseInv, NEW c \in Conns,
         SkipInference(c) \/ StartInference(c) \/ InferenceEnds(c) \/ FailureWritten(c)
  PROVE  Good
<1> USE DEF Services
<1>1. CASE SkipInference(c)
  <2>1. /\ at' = [at EXCEPT ![c] = "close"] /\ holder' = [holder EXCEPT !["stt"] = Free]
        /\ UNCHANGED <<waiters, job, backlog>> /\ at[c] = "queue" /\ holder["stt"] = c
    BY <1>1 DEF SkipInference, Has, Release, Go, poolVars
  <2>2. job["stt"][c] = "none"
    BY <2>1 DEF LeaseInv
  <2> QED BY <2>1, <2>2, FreesStt
<1>2. CASE StartInference(c)
  <2>1. /\ at[c] = "queue" /\ holder["stt"] = c /\ UNCHANGED <<holder, waiters>>
    BY <1>2 DEF StartInference, Has, lockVars
  <2>2. job["stt"][c] = "none" /\ "stt" \in Calls
    BY <2>1 DEF LeaseInv, Calls
  <2>3. CASE Submit("stt", c) /\ at' = [at EXCEPT ![c] = "infer"]
    <3>1. PoolInv' /\ job' = [job EXCEPT !["stt"][c] = "queued"]
      BY <2>2, <2>3, SubmitPool DEF LeaseInv, Submit
    <3>2. LeaseTypes' /\ at'[c] = "infer" /\ \A q \in Conns \ {c} : at'[q] = at[q]
      BY <2>1, <2>3 DEF LeaseInv, LeaseTypes, Places
    <3>3. \A k \in Calls, q \in Conns : job'[k][q] = job[k][q] \/ (k = "stt" /\ q = c)
      BY <3>1 DEF LeaseInv, PoolInv, Calls
    <3>4. \A q \in Conns : q # c => job'["stt"][q] = job["stt"][q] /\ job'["split"][q] = job["split"][q]
      BY <3>3 DEF Calls
    <3>5. job'["split"][c] = job["split"][c] /\ job["split"][c] = "none"
      BY <2>1, <3>3 DEF Calls, LeaseInv, Speaking
    <3>6. \A s \in Services, q \in Conns : job'[s][q] # "none" => holder'[s] = q
      BY <2>1, <3>3 DEF Calls, LeaseInv
    <3>7. LeaseInv'
      BY <2>1, <3>1, <3>2, <3>4, <3>5, <3>6 DEF LeaseInv
    <3> QED BY <2>1, <2>2, <3>1, <3>7, BeginsCall DEF Good
  <2>4. CASE UNCHANGED <<job, backlog>> /\ at' = [at EXCEPT ![c] = "failing"]
    BY <2>1, <2>2, <2>4, FailsStt
  <2> QED BY <1>2, <2>3, <2>4 DEF StartInference, SttFail, Go, poolVars
<1>3. CASE InferenceEnds(c)
  <2>1. at[c] = "infer" /\ job["stt"][c] = "none" /\ UNCHANGED <<waiters, job, backlog>>
    BY <1>3 DEF InferenceEnds, poolVars
  <2>2. holder["stt"] = c
    BY <2>1 DEF LeaseInv
  <2>3. ASSUME NEW p \in {"close", "finish"}, holder' = [holder EXCEPT !["stt"] = Free],
               at' = [at EXCEPT ![c] = p]
        PROVE  Good
    BY <2>1, <2>2, <2>3, FreesStt
  <2>4. CASE holder' = holder /\ at' = [at EXCEPT ![c] = "failing"]
    BY <2>1, <2>2, <2>4, FailsStt
  <2> QED BY <1>3, <2>3, <2>4 DEF InferenceEnds, Release, SttFail, Go
<1>4. CASE FailureWritten(c)
  <2>1. /\ at[c] = "failing" /\ at' = [at EXCEPT ![c] = "close"]
        /\ holder' = [holder EXCEPT !["stt"] = Free] /\ UNCHANGED <<waiters, job, backlog>>
    BY <1>4 DEF FailureWritten, Release, Go, poolVars
  <2>2. holder["stt"] = c /\ job["stt"][c] = "none"
    BY <2>1 DEF LeaseInv
  <2> QED BY <2>1, <2>2, FreesStt
<1> QED BY <1>1, <1>2, <1>3, <1>4

\* So do its steps without it.
LEMMA SttElsewhere ==
  ASSUME LeaseInv, NEW c \in Conns,
         \/ SttInvalid(c) \/ HandleTranscribe(c) \/ HandleAudioStart(c) \/ HandleAudioChunk(c)
         \/ ConversionEnds(c) \/ HandleAudioStop(c) \/ QueueTimeout(c)
  PROVE  Good
<1> USE DEF Services
<1>1. UNCHANGED <<holder, job, backlog>> /\ at[c] \notin {"infer", "failing"} \cup Speaking
  BY DEF SttInvalid, HandleTranscribe, HandleAudioStart, HandleAudioChunk, ConversionEnds,
         HandleAudioStop, QueueTimeout, lockVars, poolVars, Speaking
<1>2. waiters' \in [Services -> Seq(Holders)]
  <2>1. CASE HandleAudioStop(c)
    BY <2>1, EnqueueType DEF HandleAudioStop, LeaseInv, LeaseTypes, Holders
  <2>2. CASE QueueTimeout(c)
    BY <2>2, LeaveType DEF QueueTimeout, LeaseInv
  <2>3. CASE waiters' = waiters
    BY <2>3 DEF LeaseInv, LeaseTypes
  <2> QED
    BY <2>1, <2>2, <2>3 DEF SttInvalid, HandleTranscribe, HandleAudioStart, HandleAudioChunk,
                            ConversionEnds, lockVars
<1>3. at' = at \/ \E p \in {"finish", "queue", "convert", "read"} : at' = [at EXCEPT ![c] = p]
  BY DEF SttInvalid, HandleTranscribe, HandleAudioStart, HandleAudioChunk, ConversionEnds,
         HandleAudioStop, QueueTimeout, SttFail, Go
<1>4. ASSUME NEW p \in Places \ {"infer", "failing"}, at' \in {at, [at EXCEPT ![c] = p]} PROVE Good
  BY <1>1, <1>2, <1>4, Elsewhere
<1> QED BY <1>3, <1>4 DEF Places

\* The TTS producer's steps keep it.
LEMMA TtsLocks ==
  ASSUME LeaseInv, NEW c \in Conns, ProducerCalls(c) \/ ProducerReleases(c)
  PROVE  Good
<1> USE DEF Services
<1>1. CASE ProducerCalls(c)
  <2>1. /\ holder["tts"] = c /\ job["tts"][c] = "none" /\ "tts" \in Calls
        /\ Submit("tts", c) /\ UNCHANGED <<at, holder, waiters>>
    BY <1>1 DEF ProducerCalls, lockVars, Calls
  <2>2. PoolInv' /\ job' = [job EXCEPT !["tts"][c] = "queued"]
    BY <2>1, SubmitPool DEF LeaseInv, Submit
  <2>3. /\ \A q \in Conns : job'["stt"][q] = job["stt"][q] /\ job'["split"][q] = job["split"][q]
        /\ \A q \in Conns : job'["tts"][q] # "none" => job["tts"][q] # "none" \/ q = c
    BY <2>2 DEF LeaseInv, PoolInv, Calls
  <2>4. LeaseInv'
    BY <2>1, <2>2, <2>3 DEF LeaseInv, LeaseTypes
  <2> QED BY <2>1, <2>2, <2>4, BeginsCall DEF Good
<1>2. CASE ProducerReleases(c)
  <2>1. /\ holder["tts"] = c /\ job["tts"][c] = "none"
        /\ holder' = [holder EXCEPT !["tts"] = Free] /\ UNCHANGED <<at, waiters, job, backlog>>
    BY <1>2 DEF ProducerReleases, CallOver, Release, poolVars
  <2>2. \A q \in Conns : job["tts"][q] = "none"
    BY <2>1 DEF LeaseInv
  <2>3. PoolInv' /\ LeaseTypes'
    BY <2>1 DEF LeaseInv, PoolInv, LeaseTypes
  <2>4. LeaseInv'
    BY <2>1, <2>2, <2>3 DEF LeaseInv, LeaseTypes
  <2>5. Freed("tts") /\ Kept("stt")
    BY <2>1, <2>2, SameCalls DEF Freed, Kept, CallsOf, LeaseInv, LeaseTypes, Holders
  <2> QED BY <2>4, <2>5 DEF Good, Outcome
<1> QED BY <1>1, <1>2

\* So do the TTS handler's steps that begin a text.
LEMMA TtsBegins ==
  ASSUME LeaseInv, NEW c \in Conns,
         \/ HandleSynthesize(c) \/ NextText(c)
         \/ HandleSynthesizeText(c, "chunk") \/ HandleSynthesizeText(c, "stop")
  PROVE  Good
<1> USE DEF Services
<1>1. PICK p \in Speaking : at' = [at EXCEPT ![c] = p]
  BY DEF HandleSynthesize, NextText, HandleSynthesizeText, Idle, Go, Speaking
<1>2. UNCHANGED holder /\ BeginText(c) /\ at[c] \notin {"infer", "failing"}
  BY DEF HandleSynthesize, NextText, HandleSynthesizeText, Idle, Speaking
<1>3. SplitOver(c)
  BY DEF HandleSynthesize, NextText, HandleSynthesizeText, Idle, Speaking, SplitOver, LeaseInv
<1>4. p \in Places \ {"infer", "failing"}
  BY DEF Places, Speaking
<1>5. CASE TokenLimited
  <2>1. Submit("split", c) /\ UNCHANGED waiters /\ "split" \in Calls
    BY <1>2, <1>5 DEF BeginText, Calls
  <2>2. PoolInv' /\ job' = [job EXCEPT !["split"][c] = "queued"]
    BY <1>3, <2>1, SubmitPool DEF LeaseInv, Submit, SplitOver
  <2>3. LeaseTypes' /\ at'[c] = p /\ \A q \in Conns \ {c} : at'[q] = at[q]
    BY <1>1, <1>2, <1>4, <2>1 DEF LeaseInv, LeaseTypes
  <2>4. /\ \A s \in Services : job'[s] = job[s]
        /\ \A q \in Conns : job'["split"][q] # "none" => job["split"][q] # "none" \/ q = c
    BY <2>2 DEF LeaseInv, PoolInv, Calls
  <2>5. job["stt"][c] = "none"
    BY <1>2 DEF LeaseInv
  <2>6. LeaseInv'
    BY <1>2, <1>4, <2>2, <2>3, <2>4, <2>5 DEF LeaseInv
  <2>7. \A s \in Services : Kept(s)
    BY <1>2, <2>4 DEF Kept, CallsKept, CallsOf
  <2> QED BY <2>6, <2>7 DEF Good, Outcome
<1>6. CASE ~TokenLimited
  <2>1. Enqueue("tts", c) /\ UNCHANGED <<job, backlog>>
    BY <1>2, <1>6 DEF BeginText, poolVars
  <2>2. waiters' \in [Services -> Seq(Holders)]
    BY <2>1, EnqueueType DEF LeaseInv, Holders
  <2> QED BY <1>1, <1>2, <1>3, <1>4, <2>1, <2>2, Elsewhere
<1> QED BY <1>5, <1>6

\* So do the TTS handler's other steps.
LEMMA TtsElsewhere ==
  ASSUME LeaseInv, NEW c \in Conns,
         HandleSynthesizeStart(c) \/ NextPart(c) \/ SynthesisEnds(c) \/ SynthesisFails(c)
  PROVE  Good
<1> USE DEF Services
<1>1. /\ UNCHANGED <<holder, job, backlog>> /\ at[c] \notin {"infer", "failing"}
      /\ at[c] \in Speaking => SplitOver(c)
  BY DEF HandleSynthesizeStart, NextPart, SynthesisEnds, SynthesisFails, Idle, Speaking, lockVars,
         poolVars
<1>2. waiters' \in [Services -> Seq(Holders)]
  <2>1. CASE Enqueue("tts", c)
    BY <2>1, EnqueueType DEF LeaseInv, Holders
  <2>2. CASE Leave("tts", c)
    BY <2>2, LeaveType DEF LeaseInv
  <2>3. CASE waiters' = waiters
    BY <2>3 DEF LeaseInv, LeaseTypes
  <2> QED
    BY <2>1, <2>2, <2>3 DEF HandleSynthesizeStart, NextPart, SynthesisEnds, SynthesisFails, lockVars
<1>3. at' = at \/ \E p \in {"close", "read", "finish"} : at' = [at EXCEPT ![c] = p]
  BY DEF HandleSynthesizeStart, NextPart, SynthesisEnds, SynthesisFails, Go
<1>4. ASSUME NEW p \in Places \ {"infer", "failing"}, at' \in {at, [at EXCEPT ![c] = p]} PROVE Good
  BY <1>1, <1>2, <1>4, Elsewhere
<1> QED BY <1>3, <1>4 DEF Places

\* Steps at a lock keep the lease invariant.
LEMMA LockLease ==
  ASSUME LeaseInv, NEW s \in Services, LockStep(s)
  PROVE  Good
<1>0. UNCHANGED <<at, job, backlog>> /\ PoolInv'
  BY DEF LockStep, Grant, Drained, DrainTimeout, poolVars, LeaseInv, PoolInv
<1>1. CASE Grant(s)
  <2>1. /\ holder[s] = Free /\ waiters[s] # <<>>
        /\ holder' = [holder EXCEPT ![s] = Head(waiters[s])]
        /\ waiters' = [waiters EXCEPT ![s] = Tail(waiters[s])]
    BY <1>1 DEF Grant
  <2>2. Head(waiters[s]) \in Holders /\ Tail(waiters[s]) \in Seq(Holders)
    BY <2>1, HeadTailProperties DEF LeaseInv, LeaseTypes
  <2>3. Free \notin Conns
    BY ServerAssumption DEF Conns
  <2>4. \A c \in Conns : job[s][c] = "none" /\ (s = "stt" => at[c] \notin {"infer", "failing"})
    BY <2>1, <2>3 DEF LeaseInv
  <2>5. LeaseTypes'
    BY <1>0, <2>1, <2>2 DEF LeaseInv, LeaseTypes
  <2>6. LeaseInv'
    BY <1>0, <2>1, <2>4, <2>5 DEF LeaseInv, LeaseTypes, Services
  <2>7. Taken(s) /\ \A t \in Services \ {s} : Kept(t)
    BY <1>0, <2>1, <2>2, SameCalls DEF Taken, Kept, LeaseInv, LeaseTypes
  <2> QED BY <2>6, <2>7 DEF Good, Outcome
<1>2. CASE Drained(s)
  <2>1. /\ holder[s] = Drain /\ holder' = [holder EXCEPT ![s] = Free] /\ UNCHANGED waiters
    BY <1>2 DEF Drained, Release
  <2>2. Drain \notin Conns
    BY ServerAssumption DEF Conns
  <2>3. \A c \in Conns : job[s][c] = "none" /\ (s = "stt" => at[c] \notin {"infer", "failing"})
    BY <2>1, <2>2 DEF LeaseInv
  <2>4. LeaseTypes'
    BY <1>0, <2>1 DEF LeaseInv, LeaseTypes
  <2>5. LeaseInv'
    BY <1>0, <2>1, <2>3, <2>4 DEF LeaseInv, LeaseTypes, Services
  <2>6. Freed(s) /\ \A t \in Services \ {s} : Kept(t)
    BY <1>0, <2>1, <2>3, SameCalls DEF Freed, Kept, CallsOf, LeaseInv, LeaseTypes, Holders
  <2> QED BY <2>5, <2>6 DEF Good, Outcome
<1>3. CASE DrainTimeout(s)
  <2>1. UNCHANGED holder /\ waiters' \in [Services -> Seq(Holders)]
    BY <1>3, LeaveType DEF DrainTimeout, LeaseInv
  <2>2. LeaseInv'
    BY <1>0, <2>1 DEF LeaseInv, LeaseTypes
  <2> QED BY <1>0, <2>1, <2>2, SameCalls DEF Good, Outcome, Kept
<1> QED BY <1>1, <1>2, <1>3 DEF LockStep

\* Where calls only go on or end, the lease invariant is kept.
LEMMA CallsShrink ==
  ASSUME LeaseInv, PoolInv', UNCHANGED <<at, holder>>, waiters' \in [Services -> Seq(Holders)],
         \A k \in Calls, c \in Conns : job'[k][c] # "none" => job[k][c] # "none"
  PROVE  Good
<1> USE DEF Services, Calls
<1>1. LeaseInv'
  BY DEF LeaseInv, LeaseTypes
<1>2. ASSUME NEW s \in Services PROVE Outcome(s)
  <2>1. CallsOf(s)' \subseteq CallsOf(s)
    BY DEF CallsOf
  <2>2. CallsOf(s) \subseteq {holder[s]}
    BY OneCall
  <2>3. CallsOf(s)' = CallsOf(s) \/ (CallsOf(s) = {holder[s]} /\ CallsOf(s)' = {})
    BY <2>1, <2>2
  <2>4. CallsOf(s) \subseteq Conns
    BY DEF CallsOf
  <2> QED BY <2>3, <2>4 DEF Outcome, Kept, CallsKept, Over
<1> QED BY <1>1, <1>2 DEF Good

\* The executor's steps keep it.
LEMMA PoolLease ==
  ASSUME LeaseInv, PoolStep
  PROVE  Good
<1>1. CASE ThreadTakes
  <2>1. UNCHANGED <<at, holder, waiters>>
    BY <1>1 DEF ThreadTakes, lockVars
  <2>2. PICK k \in Calls, c \in Conns : job[k][c] = "queued" /\ job' = [job EXCEPT ![k][c] = "running"]
    BY <1>1, TakePool DEF LeaseInv
  <2>3. PoolInv'
    BY <1>1, TakePool DEF LeaseInv
  <2>4. \A l \in Calls, q \in Conns : job'[l][q] # "none" => job[l][q] # "none"
    BY <2>2 DEF LeaseInv, PoolInv
  <2> QED BY <2>1, <2>3, <2>4, CallsShrink DEF LeaseInv, LeaseTypes
<1>2. ASSUME NEW k \in Calls, NEW c \in Conns, CallReturns(k, c) \/ Hang(k, c) PROVE Good
  <2>1. UNCHANGED <<at, holder, waiters, backlog>>
    BY <1>2 DEF CallReturns, Hang, lockVars
  <2>2. PICK j \in {"none", "hung"} : job[k][c] = "running" /\ job' = [job EXCEPT ![k][c] = j]
    BY <1>2 DEF CallReturns, Hang
  <2>3. PoolInv'
    BY <2>1, <2>2, EndPool DEF LeaseInv
  <2>4. \A l \in Calls, q \in Conns : job'[l][q] # "none" => job[l][q] # "none"
    BY <2>2 DEF LeaseInv, PoolInv
  <2> QED BY <2>1, <2>3, <2>4, CallsShrink DEF LeaseInv, LeaseTypes
<1> QED BY <1>1, <1>2 DEF PoolStep

\* So does the shutdown.
LEMMA ShutdownLease ==
  ASSUME LeaseInv, ShutdownStep
  PROVE  Good
<1>1. UNCHANGED <<at, holder>>
  BY DEF ShutdownStep, StopAccepting, ServerStop, ShutExecutor, ExecutorStopped, ExecutorTimeout,
         CloseEngine, lockVars
<1>2. waiters' \in [Services -> Seq(Holders)]
  <2>1. CASE StopAccepting
    BY <2>1 DEF StopAccepting, LeaseInv, LeaseTypes, Holders
  <2>2. CASE waiters' = waiters
    BY <2>2 DEF LeaseInv, LeaseTypes
  <2> QED
    BY <2>1, <2>2 DEF ShutdownStep, ServerStop, ShutExecutor, ExecutorStopped, ExecutorTimeout,
                      CloseEngine, lockVars
<1>3. CASE ExecutorTimeout
  <2>1. /\ backlog' = <<>>
        /\ job' = [k \in Calls |-> [c \in Conns |-> IF job[k][c] = "queued" THEN "none" ELSE job[k][c]]]
    BY <1>3 DEF ExecutorTimeout
  <2>2. job' \in [Calls -> [Conns -> {"none", "queued", "running", "hung"}]]
    BY <2>1 DEF LeaseInv, PoolInv
  <2>3. PoolInv'
    BY <2>1, <2>2 DEF PoolInv
  <2>4. \A k \in Calls, c \in Conns : job'[k][c] # "none" => job[k][c] # "none"
    BY <2>1
  <2> QED BY <1>1, <1>2, <2>3, <2>4, CallsShrink
<1>4. CASE UNCHANGED <<job, backlog>>
  <2>1. PoolInv'
    BY <1>4 DEF LeaseInv, PoolInv
  <2> QED BY <1>1, <1>2, <1>4, <2>1, CallsShrink
<1> QED
  BY <1>3, <1>4 DEF ShutdownStep, StopAccepting, ServerStop, ShutExecutor, ExecutorStopped,
                    CloseEngine, poolVars

\* So does every step.
LEMMA NextLease ==
  ASSUME LeaseInv, [Next]_vars
  PROVE  Good
<1>1. ASSUME NEW c \in Conns, SttStep(c) PROVE Good
  BY <1>1, SttLocks, SttElsewhere DEF SttStep
<1>2. ASSUME NEW c \in Conns, TtsStep(c) PROVE Good
  BY <1>2, TtsLocks, TtsBegins, TtsElsewhere DEF TtsStep
<1>3. CASE UNCHANGED vars
  <2>1. UNCHANGED <<at, holder, waiters, job, backlog>>
    BY <1>3 DEF vars, lockVars, poolVars
  <2>2. LeaseInv'
    BY <2>1 DEF LeaseInv, LeaseTypes, PoolInv
  <2> QED BY <2>1, <2>2, SameCalls DEF Good, Outcome, Kept
<1> QED BY <1>1, <1>2, <1>3, HandlerLease, LockLease, PoolLease, ShutdownLease DEF Next

\* The lease invariant holds in every reachable state.
LEMMA LeaseInvariant == Spec => []LeaseInv
<1>1. LeaseInv /\ [Next]_vars => LeaseInv'
  BY NextLease DEF Good
<1> QED BY <1>1, InitLease, PTL DEF Spec

--------------------------------------------------------------------------------
(* What happens to a lock and its calls is what a lease allows. *)

\* How a step of the server appears to the lease.
LEMMA Mapped ==
  ASSUME NEW s \in Services, Outcome(s)
  PROVE  LET H == HoldersOf(s)
             C == CallsOf(s)
         IN  \/ H' = H /\ C' = C
             \/ \E r \in Holders :
                  \/ H = {} /\ H' = {r} /\ C' = C
                  \/ r \in H /\ C = {} /\ C' = {r} /\ H' = H
                  \/ r \in C /\ C' = {} /\ H' = H
                  \/ r \in H /\ C = {} /\ H' = {} /\ C' = C
<1>1. Free \notin Holders /\ Conns \subseteq Holders
  BY ServerAssumption DEF Holders, Conns
<1>2. holder'[s] = holder[s] => HoldersOf(s)' = HoldersOf(s)
  BY DEF HoldersOf
<1> QED BY <1>1, <1>2 DEF Outcome, Kept, Taken, Freed, Called, Over, CallsKept, HoldersOf

\* Both engines, under requests, cancelled handlers, calls that hang and the shutdown's
\* drains, are used as a lease allows (_handle_audio_stop, _synthesize, _drain_inference).
THEOREM Leases == Spec => EnginesLeased
<1> USE DEF Services
<1>1. Init => SttLease!LeaseInit /\ TtsLease!LeaseInit
  <2> SUFFICES ASSUME Init PROVE SttLease!LeaseInit /\ TtsLease!LeaseInit
    OBVIOUS
  <2>1. \A s \in Services : HoldersOf(s) = {} /\ CallsOf(s) = {}
    BY InitLease DEF Init, HoldersOf, CallsOf, Calls
  <2> QED BY <2>1 DEF SttLease!LeaseInit, TtsLease!LeaseInit
<1>2. LeaseInv /\ LeaseInv' /\ [Next]_vars => [SttLease!LeaseNext]_(SttLease!leaseVars)
  <2> SUFFICES ASSUME LeaseInv, LeaseInv', [Next]_vars
               PROVE  [SttLease!LeaseNext]_(SttLease!leaseVars)
    OBVIOUS
  <2>1. Outcome("stt")
    BY NextLease DEF Good
  <2> QED BY <2>1, Mapped
          DEF SttLease!LeaseNext, SttLease!leaseVars, SttLease!Lease, SttLease!Call,
              SttLease!Return, SttLease!Vacate, Holders
<1>3. LeaseInv /\ LeaseInv' /\ [Next]_vars => [TtsLease!LeaseNext]_(TtsLease!leaseVars)
  <2> SUFFICES ASSUME LeaseInv, LeaseInv', [Next]_vars
               PROVE  [TtsLease!LeaseNext]_(TtsLease!leaseVars)
    OBVIOUS
  <2>1. Outcome("tts")
    BY NextLease DEF Good
  <2> QED BY <2>1, Mapped
          DEF TtsLease!LeaseNext, TtsLease!leaseVars, TtsLease!Lease, TtsLease!Call,
              TtsLease!Return, TtsLease!Vacate, Holders
<1> QED
  BY <1>1, <1>2, <1>3, LeaseInvariant, PTL
  DEF Spec, EnginesLeased, SttLeased, TtsLeased, SttLease!LeaseSpec, TtsLease!LeaseSpec

--------------------------------------------------------------------------------
(* The connection slots. *)

SlotInv ==
  /\ at \in [Conns -> Places]
  /\ SlotsExact
  /\ Cardinality(Admitted \cap Remote) <= MaximumConnections

\* The sets that are counted are finite.
LEMMA Finite ==
  /\ IsFiniteSet(Conns)
  /\ IsFiniteSet(Admitted) /\ Cardinality(Admitted) \in Nat
  /\ \A S : /\ IsFiniteSet(Admitted \cap S)
            /\ Cardinality(Admitted \cap S) \in Nat
            /\ Cardinality(Admitted \cap S) <= Cardinality(Admitted)
<1>1. IsFiniteSet(Conns)
  BY ServerAssumption, FS_Union DEF Conns
<1>2. IsFiniteSet(Admitted)
  BY <1>1, FS_Subset DEF Admitted
<1> QED BY <1>1, <1>2, FS_CardinalityType, FS_Intersection

\* The executor's threads leave everything else alone.
LEMMA PoolFrame ==
  ASSUME PoolStep
  PROVE  UNCHANGED <<accepting, active, at, closing, tracked, begun, started, reserved, transcripts,
                     budget, holder, waiters, late, phase, drains, engine>>
BY DEF PoolStep, ThreadTakes, CallReturns, Hang, limiterVars, routeVars, sttVars, lockVars, serverVars

\* Every place is free at the start.
LEMMA InitSlots == Init => SlotInv
<1> SUFFICES ASSUME Init PROVE SlotInv
  OBVIOUS
<1>1. Admitted = {} /\ Admitted \cap Remote = {} /\ active = 0
  BY DEF Init, Admitted, Outside
<1>2. at \in [Conns -> Places]
  BY DEF Init, Places, Outside
<1> QED BY <1>1, <1>2, FS_EmptySet, ServerAssumption DEF SlotInv, SlotsExact

\* A slot is taken by a connection that comes, given back by one that ends, and
\* kept in between.
Admits(c)   == /\ c \notin Admitted /\ active' = active + 1 /\ Admitted' = Admitted \cup {c}
               /\ active < SlotLimit(c)
Dismisses(c) == c \in Admitted /\ active' = active - 1 /\ Admitted' = Admitted \ {c}
SameSlots    == active' = active /\ Admitted' = Admitted

\* A connection that stays admitted keeps the count of places.
LEMMA Moves ==
  ASSUME at \in [Conns -> Places], NEW c \in Conns, NEW p \in Places \ Outside,
         at[c] \notin Outside, active' = active, at' \in {at, [at EXCEPT ![c] = p]}
  PROVE  at' \in [Conns -> Places] /\ SameSlots
<1> QED BY DEF SameSlots, Admitted

\* Admission and departure keep the count of places.
LEMMA ConnectionSlots ==
  ASSUME at \in [Conns -> Places], NEW c \in Conns, HandlerStep(c)
  PROVE  at' \in [Conns -> Places] /\ (Admits(c) \/ Dismisses(c) \/ SameSlots)
<1>1. CASE Connect(c)
  <2>1. CASE active' = active + 1 /\ active < SlotLimit(c) /\ at' = [at EXCEPT ![c] = "read"]
    BY <1>1, <2>1 DEF Connect, Admits, Admitted, Outside, Places
  <2>2. CASE active' = active /\ at' = [at EXCEPT ![c] = "gone"]
    BY <1>1, <2>2 DEF Connect, SameSlots, Admitted, Outside, Places
  <2> QED BY <1>1, <2>1, <2>2 DEF Connect, Go
<1>2. CASE ReleaseSlot(c)
  BY <1>2 DEF ReleaseSlot, Go, Dismisses, Admitted, Outside, Places
<1>3. CASE ClientCloses(c)
  BY <1>3 DEF ClientCloses, limiterVars, SameSlots, Admitted
<1>4. CASE ReadEnds(c) \/ Written(c) \/ Disconnect(c) \/ TurnedAway(c)
  <2>1. active' = active /\ at[c] \notin Outside
    BY <1>4 DEF ReadEnds, Written, Disconnect, TurnedAway, limiterVars, Outside
  <2>2. \E p \in {"close", "release", "finish"} : at' = [at EXCEPT ![c] = p]
    BY <1>4 DEF ReadEnds, Written, Disconnect, TurnedAway, Go
  <2> QED BY <2>1, <2>2, Moves DEF Places, Outside
<1> QED BY <1>1, <1>2, <1>3, <1>4 DEF HandlerStep

\* Steps of the STT handler keep it.
LEMMA SttSlots ==
  ASSUME at \in [Conns -> Places], NEW c \in Conns, SttStep(c)
  PROVE  at' \in [Conns -> Places] /\ SameSlots
<1>1. active' = active /\ (at' # at => at[c] \notin Outside)
  BY DEF SttStep, SttInvalid, HandleTranscribe, HandleAudioStart, HandleAudioChunk, ConversionEnds,
         HandleAudioStop, QueueTimeout, SkipInference, StartInference, InferenceEnds, FailureWritten, limiterVars, Outside
<1>2. at' = at \/ \E p \in {"finish", "convert", "read", "queue", "close", "infer", "failing"} :
                     at' = [at EXCEPT ![c] = p]
  BY DEF SttStep, SttInvalid, HandleTranscribe, HandleAudioStart, HandleAudioChunk, ConversionEnds,
         HandleAudioStop, QueueTimeout, SkipInference, StartInference, InferenceEnds, FailureWritten, SttFail, Go
<1>3. CASE at' = at
  BY <1>1, <1>3 DEF SameSlots, Admitted
<1> QED BY <1>1, <1>2, <1>3, Moves DEF Places, Outside

\* Steps of the TTS handler keep it.
LEMMA TtsSlots ==
  ASSUME at \in [Conns -> Places], NEW c \in Conns, TtsStep(c)
  PROVE  at' \in [Conns -> Places] /\ SameSlots
<1>1. active' = active /\ (at' # at => at[c] \notin Outside)
  BY DEF TtsStep, HandleSynthesize, HandleSynthesizeStart, HandleSynthesizeText, NextPart,
         NextText, Idle, ProducerCalls, ProducerReleases, SynthesisEnds, SynthesisFails, limiterVars, Outside,
         Speaking
<1>2. at' = at \/ \E p \in Speaking \cup {"close", "read", "finish"} : at' = [at EXCEPT ![c] = p]
  BY DEF TtsStep, HandleSynthesize, HandleSynthesizeStart, HandleSynthesizeText, NextPart,
         NextText, Idle, ProducerCalls, ProducerReleases, SynthesisEnds, SynthesisFails, Speaking, Go
<1>3. CASE at' = at
  BY <1>1, <1>3 DEF SameSlots, Admitted
<1> QED BY <1>1, <1>2, <1>3, Moves DEF Places, Outside, Speaking

\* Every step keeps it.
LEMMA NextSlots ==
  ASSUME SlotInv, [Next]_vars
  PROVE  SlotInv'
<1> DEFINE R == Admitted \cap Remote
<1>1. ASSUME NEW c \in Conns, at' \in [Conns -> Places], Admits(c) PROVE SlotInv'
  <2>1. Cardinality(Admitted') = Cardinality(Admitted) + 1
    BY <1>1, Finite, FS_AddElement DEF Admits
  <2>2. CASE c \in Remote
    <3>1. active < MaximumConnections
      BY <1>1, <2>2, ServerAssumption DEF Admits, SlotLimit
    <3>2. Cardinality(R') <= Cardinality(Admitted')
      <4>1. Admitted' = Admitted \cup {c} /\ R' \subseteq Admitted'
        BY <1>1 DEF Admits
      <4>2. IsFiniteSet(Admitted \cup {c})
        BY Finite, FS_AddElement
      <4> QED BY <4>1, <4>2, FS_Subset
    <3>3. Cardinality(Admitted') \in Nat /\ Cardinality(R') \in Nat
      <4>1. IsFiniteSet(Admitted \cup {c})
        BY Finite, FS_AddElement
      <4>2. IsFiniteSet(Admitted')
        BY <1>1, <4>1 DEF Admits
      <4>3. IsFiniteSet(R')
        BY <4>2, FS_Subset
      <4> QED BY <4>2, <4>3, FS_CardinalityType
    <3>4. active = Cardinality(Admitted) /\ active \in Nat /\ active' = active + 1
      BY <1>1, Finite DEF SlotInv, SlotsExact, Admits
    <3>5. active' = Cardinality(Admitted') /\ Cardinality(Admitted') <= MaximumConnections
      BY <2>1, <3>1, <3>4, ServerAssumption
    <3>6. Cardinality(R') <= MaximumConnections
      BY <3>2, <3>3, <3>5, ServerAssumption
    <3> QED BY <1>1, <3>5, <3>6 DEF SlotInv, SlotsExact
  <2>3. CASE c \notin Remote
    <3>1. R' = R
      BY <1>1, <2>3 DEF Admits
    <3> QED BY <1>1, <2>1, <3>1 DEF SlotInv, SlotsExact, Admits
  <2> QED BY <2>2, <2>3
<1>2. ASSUME NEW c \in Conns, at' \in [Conns -> Places], Dismisses(c) PROVE SlotInv'
  <2>1. Cardinality(Admitted') = Cardinality(Admitted) - 1
    BY <1>2, Finite, FS_RemoveElement DEF Dismisses
  <2>2. R' \subseteq R
    BY <1>2 DEF Dismisses
  <2>3. IsFiniteSet(R) /\ Cardinality(R) \in Nat
    BY Finite
  <2>4. Cardinality(R') \in Nat /\ Cardinality(R') <= Cardinality(R)
    BY <2>2, <2>3, FS_Subset, FS_CardinalityType
  <2> QED
    BY <1>2, <2>1, <2>3, <2>4, ServerAssumption DEF SlotInv, SlotsExact, Dismisses
<1>3. ASSUME at' \in [Conns -> Places], SameSlots PROVE SlotInv'
  BY <1>3 DEF SlotInv, SlotsExact, SameSlots
<1>4. ASSUME NEW c \in Conns, HandlerStep(c) PROVE SlotInv'
  BY <1>1, <1>2, <1>3, <1>4, ConnectionSlots DEF SlotInv
<1>5. ASSUME NEW c \in Conns, SttStep(c) \/ TtsStep(c) PROVE SlotInv'
  BY <1>3, <1>5, SttSlots, TtsSlots DEF SlotInv
<1>6. ASSUME NEW s \in Services, LockStep(s) PROVE UNCHANGED <<active, at>>
  BY <1>6 DEF LockStep, Grant, Drained, DrainTimeout, limiterVars
<1>7. CASE ShutdownStep
  BY <1>7 DEF ShutdownStep, StopAccepting, ServerStop, ShutExecutor, ExecutorStopped, ExecutorTimeout,
              CloseEngine, limiterVars, SlotInv, SlotsExact, Admitted
<1>8. ASSUME UNCHANGED <<active, at>> PROVE SlotInv'
  BY <1>8 DEF SlotInv, SlotsExact, Admitted
<1>9. PoolStep => UNCHANGED <<active, at>>
  BY PoolFrame
<1> QED BY <1>4, <1>5, <1>6, <1>7, <1>8, <1>9 DEF Next, vars, limiterVars

\* The counter of the limiter is the number of connections with a slot, and other hosts
\* leave the reserve to loopback clients (ConnectionLimiter, run).
THEOREM SlotsAreKept == Spec => []SlotsKept
<1>1. SlotInv => SlotsKept
  <2> SUFFICES ASSUME SlotInv PROVE SlotsKept
    OBVIOUS
  <2> DEFINE R == Admitted \cap Remote
             L == Admitted \cap Local
  <2>1. Admitted = R \cup L /\ R \cap L = {}
    BY ServerAssumption DEF Admitted, Conns
  <2>2. IsFiniteSet(R) /\ IsFiniteSet(L) /\ Cardinality(R) \in Nat /\ Cardinality(L) \in Nat
    BY Finite
  <2>3. Cardinality(Admitted) = Cardinality(R) + Cardinality(L)
    <3>1. Cardinality(R \cup L) = Cardinality(R) + Cardinality(L) - Cardinality(R \cap L)
      BY <2>2, FS_Union
    <3>2. Cardinality(R \cap L) = 0
      BY <2>1, FS_EmptySet
    <3>3. Cardinality(Admitted) = Cardinality(R \cup L)
      BY <2>1
    <3> HIDE DEF R, L
    <3> QED BY <2>2, <3>1, <3>2, <3>3
  <2>4. active = Cardinality(R) + Cardinality(L) /\ Cardinality(R) <= MaximumConnections
    BY <2>3 DEF SlotInv, SlotsExact
  <2>5. Cardinality(L) < LocalReserve => active < MaximumConnections + LocalReserve
    BY <2>2, <2>4, ServerAssumption
  <2>6. SlotsExact /\ ReserveKept
    BY <2>4, <2>5 DEF SlotInv, ReserveKept
  <2> QED BY <2>6 DEF SlotsKept
<1>2. SlotInv /\ [Next]_vars => SlotInv'
  BY NextSlots
<1> QED BY <1>1, <1>2, InitSlots, PTL DEF Spec

--------------------------------------------------------------------------------
(* What connections share: the audio budget, the transcripts, the threads. *)

Holding  == {"read", "finish", "close", "convert", "queue"} \cup Speaking
Answered == {"finish", "failing", "close", "release"}
AudioSum(f) == FoldFunction(LAMBDA a, b : a + b, 0, f)

AudioInv ==
  /\ reserved \in [Conns -> 0..AudioLimit]
  /\ budget \in 0..BudgetMaximum
  /\ budget = AudioSum(reserved)

\* Audio is held while it can still be given back, and a transcript is the last answer.
OwnInv ==
  /\ transcripts \in [Conns -> Nat]
  /\ \A c \in Conns : /\ reserved[c] > 0 => at[c] \in Holding
                      /\ transcripts[c] = 0 \/ (transcripts[c] = 1 /\ at[c] \in Answered)

ShareInv == at \in [Conns -> Places] /\ AudioInv /\ OwnInv

\* What a step of a connection may do to the audio: nothing, give it back, add a chunk.
AddAudio(c) == \E n \in ChunkSizes : /\ Fits(c, n)
                                     /\ budget' = budget + n
                                     /\ reserved' = [reserved EXCEPT ![c] = @ + n]
SameAudio   == UNCHANGED <<reserved, budget>>

\* One connection's audio changes the sum by as much.
LEMMA AudioChange ==
  ASSUME AudioInv, NEW c \in Conns, NEW v \in 0..AudioLimit,
         reserved' = [reserved EXCEPT ![c] = v],
         budget' = budget + v - reserved[c], budget' <= BudgetMaximum
  PROVE  AudioInv'
<1> DEFINE g == [reserved EXCEPT ![c] = v]
<1>0. IsFiniteSet(Conns) /\ AudioLimit \in Nat
  BY Finite, ServerAssumption
<1>1. reserved \in [Conns -> Nat] /\ reserved \in [Conns -> Int] /\ v \in Int /\ v \in Nat
  BY <1>0 DEF AudioInv
<1>2. g \in [Conns -> Nat] /\ DOMAIN g = Conns /\ DOMAIN reserved = Conns
  BY <1>1
<1>3. PICK F : IsSum(F, reserved, Conns) /\ AudioSum(reserved) = F[Conns]
  BY <1>0, <1>2, FoldIsSum DEF AudioSum
<1>4. PICK G : IsSum(G, g, Conns) /\ AudioSum(g) = G[Conns]
  <2> HIDE DEF g
  <2> QED BY <1>0, <1>2, FoldIsSum DEF AudioSum
<1>5. G[Conns] = F[Conns] + v - reserved[c]
  <2>1. g \in [Conns -> Int] /\ g[c] = v /\ \A q \in Conns \ {c} : g[q] = reserved[q]
    BY <1>1
  <2> HIDE DEF g
  <2> QED BY <1>0, <1>1, <1>3, <1>4, <2>1, SumChange
<1>6. G[Conns] \in Nat
  <2> HIDE DEF g
  <2> QED BY <1>0, <1>2, <1>4, SumType
<1>7. AudioSum(reserved') = G[Conns]
  <2>1. reserved' = g
    OBVIOUS
  <2> HIDE DEF g
  <2> QED BY <1>4, <2>1
<1>8. budget' = G[Conns]
  BY <1>3, <1>5 DEF AudioInv
<1>9. reserved' \in [Conns -> 0..AudioLimit]
  BY DEF AudioInv
<1>10. budget' \in 0..BudgetMaximum
  BY <1>6, <1>8, ServerAssumption
<1>11. budget' = AudioSum(reserved')
  BY <1>7, <1>8
<1> QED BY <1>9, <1>10, <1>11 DEF AudioInv

\* Whatever a step does to one buffer, the budget stays the sum of all.
LEMMA AudioStep ==
  ASSUME AudioInv, NEW c \in Conns, SameAudio \/ ClearBuffer(c) \/ AddAudio(c)
  PROVE  AudioInv' /\ \A q \in Conns \ {c} : reserved'[q] = reserved[q]
<1>0. AudioLimit \in Nat /\ BudgetMaximum \in Nat /\ ChunkSizes \subseteq Nat \ {0}
  BY ServerAssumption
<1>1. CASE SameAudio
  <2>1. reserved' = reserved /\ budget' = budget
    BY <1>1 DEF SameAudio
  <2>2. AudioSum(reserved') = AudioSum(reserved)
    BY <2>1, Zenon
  <2> QED BY <2>1, <2>2, Zenon DEF AudioInv
<1>2. CASE ClearBuffer(c)
  <2>1. budget' = budget + 0 - reserved[c] /\ budget' <= BudgetMaximum /\ 0 \in 0..AudioLimit
    BY <1>0, <1>2 DEF ClearBuffer, AudioInv
  <2> QED BY <1>2, <2>1, AudioChange DEF ClearBuffer, AudioInv
<1>3. CASE AddAudio(c)
  <2> PICK n \in ChunkSizes : /\ Fits(c, n) /\ budget' = budget + n
                              /\ reserved' = [reserved EXCEPT ![c] = @ + n]
    BY <1>3 DEF AddAudio
  <2> DEFINE v == reserved[c] + n
  <2>1. v \in 0..AudioLimit /\ budget' = budget + v - reserved[c] /\ budget' <= BudgetMaximum
    BY <1>0 DEF Fits, AudioInv
  <2>2. reserved' = [reserved EXCEPT ![c] = v]
    OBVIOUS
  <2> HIDE DEF v
  <2> QED BY <2>1, <2>2, AudioChange DEF AudioInv
<1> QED BY <1>1, <1>2, <1>3

\* A step of a connection leaves what the others hold alone.
OwnMove(c) ==
  /\ SameAudio \/ ClearBuffer(c) \/ AddAudio(c)
  /\ at' = at \/ \E p \in Places : at' = [at EXCEPT ![c] = p]
  /\ \/ transcripts' = transcripts
     \/ \E n \in {0, transcripts[c] + 1} : transcripts' = [transcripts EXCEPT ![c] = n]
  /\ reserved'[c] > 0 => at'[c] \in Holding
  /\ transcripts'[c] = 0 \/ (transcripts'[c] = 1 /\ at'[c] \in Answered)

\* And a connection holds a share only where its handler frees it.
LEMMA OwnStep ==
  ASSUME ShareInv, NEW c \in Conns, OwnMove(c)
  PROVE  ShareInv'
<1>1. AudioInv' /\ \A q \in Conns \ {c} : reserved'[q] = reserved[q]
  BY AudioStep DEF ShareInv, OwnMove
<1>2. /\ at' \in [Conns -> Places] /\ transcripts' \in [Conns -> Nat]
      /\ \A q \in Conns \ {c} : at'[q] = at[q] /\ transcripts'[q] = transcripts[q]
  BY DEF ShareInv, OwnInv, OwnMove
<1>3. ASSUME NEW q \in Conns
      PROVE  /\ reserved'[q] > 0 => at'[q] \in Holding
             /\ transcripts'[q] = 0 \/ (transcripts'[q] = 1 /\ at'[q] \in Answered)
  BY <1>1, <1>2 DEF ShareInv, OwnInv, OwnMove
<1> QED BY <1>1, <1>2, <1>3 DEF ShareInv, OwnInv, Holding, Answered, Speaking

\* Connection steps keep the shares exact.
LEMMA HandlerShares ==
  ASSUME ShareInv, NEW c \in Conns, HandlerStep(c)
  PROVE  ShareInv'
<1> USE DEF ShareInv, AudioInv, OwnInv, Places, Holding, Answered, Outside, Speaking
<1>0. AudioLimit \in Nat /\ reserved[c] \in Nat
  BY ServerAssumption
<1>1. CASE Connect(c) \/ ReadEnds(c) \/ ClientCloses(c) \/ Written(c) \/ TurnedAway(c)
  <2>1. SameAudio /\ transcripts' = transcripts
    BY <1>1 DEF Connect, ReadEnds, ClientCloses, Written, TurnedAway, sttVars, SameAudio
  <2>2. at' = at \/ \E p \in Places : at' = [at EXCEPT ![c] = p]
    BY <1>1 DEF Connect, ReadEnds, ClientCloses, Written, TurnedAway, Go
  <2>3. \/ at'[c] = at[c]
        \/ at[c] = "away" /\ at'[c] \in {"read", "gone"}
        \/ at[c] = "read" /\ at'[c] \in {"close", "finish"}
        \/ at[c] = "finish" /\ at'[c] = "close"
    BY <1>1 DEF Connect, ReadEnds, ClientCloses, Written, TurnedAway, Go
  <2>4. OwnMove(c)
    BY <1>0, <2>1, <2>2, <2>3 DEF OwnMove, SameAudio
  <2> QED BY <2>4, OwnStep
<1>2. CASE Disconnect(c)
  <2>1. /\ ClearBuffer(c) /\ transcripts' = transcripts
        /\ at[c] = "close" /\ at' = [at EXCEPT ![c] = "release"]
    BY <1>2 DEF Disconnect, Go
  <2>2. OwnMove(c)
    BY <1>0, <2>1 DEF OwnMove, ClearBuffer
  <2> QED BY <2>2, OwnStep
<1>3. CASE ReleaseSlot(c)
  <2>1. /\ SameAudio /\ transcripts' = [transcripts EXCEPT ![c] = 0]
        /\ at[c] = "release" /\ at' = [at EXCEPT ![c] = "gone"]
    BY <1>3 DEF ReleaseSlot, Go, SameAudio
  <2>2. ~(reserved'[c] > 0) /\ transcripts'[c] = 0
    BY <1>0, <2>1 DEF SameAudio
  <2>3. OwnMove(c)
    BY <2>1, <2>2 DEF OwnMove
  <2> QED BY <2>3, OwnStep
<1> QED BY <1>1, <1>2, <1>3 DEF HandlerStep

\* So do the steps of the STT handler.
LEMMA SttShares ==
  ASSUME ShareInv, NEW c \in Conns, SttStep(c)
  PROVE  ShareInv'
<1> USE DEF ShareInv, AudioInv, OwnInv, Places, Holding, Answered, Outside, Speaking
<1>0. AudioLimit \in Nat /\ reserved[c] \in Nat
  BY ServerAssumption
<1>1. ASSUME NEW p \in {"finish", "failing"}, SttFail(c, p), at[c] \in {"read", "convert", "queue", "infer"}
      PROVE  ShareInv'
  <2>1. /\ ClearBuffer(c) /\ transcripts' = [transcripts EXCEPT ![c] = transcripts[c] + 1]
        /\ at' = [at EXCEPT ![c] = p]
    BY <1>1 DEF SttFail, Go
  <2>2. ~(reserved'[c] > 0) /\ transcripts[c] = 0
    BY <1>0, <1>1, <2>1 DEF ClearBuffer
  <2>3. transcripts'[c] = 1 /\ at'[c] = p
    BY <2>1, <2>2
  <2>4. OwnMove(c)
    BY <1>1, <2>1, <2>2, <2>3 DEF OwnMove
  <2> QED BY <2>4, OwnStep
<1>2. CASE HandleTranscribe(c) \/ HandleAudioChunk(c) \/ FailureWritten(c)
  <2>1. SameAudio /\ transcripts' = transcripts
    BY <1>2 DEF HandleTranscribe, HandleAudioChunk, FailureWritten, sttVars, SameAudio
  <2>2. at' = at \/ \E p \in Places : at' = [at EXCEPT ![c] = p]
    BY <1>2 DEF HandleTranscribe, HandleAudioChunk, FailureWritten, Go
  <2>3. \/ at'[c] = at[c]
        \/ at[c] = "read" /\ at'[c] = "convert"
        \/ at[c] = "failing" /\ at'[c] = "close"
    BY <1>2 DEF HandleTranscribe, HandleAudioChunk, FailureWritten, Go
  <2>4. OwnMove(c)
    BY <1>0, <2>1, <2>2, <2>3 DEF OwnMove, SameAudio
  <2> QED BY <2>4, OwnStep
<1>3. CASE HandleAudioStart(c)
  <2>1. ClearBuffer(c) /\ transcripts' = transcripts /\ at' = at
    BY <1>3 DEF HandleAudioStart
  <2>2. OwnMove(c)
    BY <1>0, <2>1 DEF OwnMove, ClearBuffer
  <2> QED BY <2>2, OwnStep
<1>4. CASE ConversionEnds(c)
  <2>1. CASE AddAudio(c) /\ at[c] = "convert" /\ transcripts' = transcripts /\ at' = [at EXCEPT ![c] = "read"]
    <3>1. OwnMove(c)
      BY <1>0, <2>1 DEF OwnMove
    <3> QED BY <3>1, OwnStep
  <2> QED BY <1>1, <1>4, <2>1 DEF ConversionEnds, AddAudio, Go
<1>5. CASE HandleAudioStop(c)
  <2>1. /\ SameAudio /\ at[c] = "read"
        /\ \/ /\ transcripts' = [transcripts EXCEPT ![c] = transcripts[c] + 1]
              /\ at' = [at EXCEPT ![c] = "finish"]
           \/ transcripts' = transcripts /\ at' = [at EXCEPT ![c] = "queue"]
    BY <1>5 DEF HandleAudioStop, Go, SameAudio
  <2>2. OwnMove(c)
    BY <1>0, <2>1 DEF OwnMove, SameAudio
  <2> QED BY <2>2, OwnStep
<1>6. CASE SkipInference(c)
  <2>1. ClearBuffer(c) /\ transcripts' = transcripts /\ at[c] = "queue" /\ at' = [at EXCEPT ![c] = "close"]
    BY <1>6 DEF SkipInference, Go
  <2>2. OwnMove(c)
    BY <1>0, <2>1 DEF OwnMove, ClearBuffer
  <2> QED BY <2>2, OwnStep
<1>7. CASE StartInference(c)
  <2>1. CASE ClearBuffer(c) /\ transcripts' = transcripts /\ at' = [at EXCEPT ![c] = "infer"]
    <3>1. at[c] = "queue"
      BY <1>7 DEF StartInference
    <3>2. OwnMove(c)
      BY <1>0, <2>1, <3>1 DEF OwnMove, ClearBuffer
    <3> QED BY <3>2, OwnStep
  <2> QED BY <1>1, <1>7, <2>1 DEF StartInference, Go
<1>8. CASE InferenceEnds(c)
  <2>1. CASE /\ SameAudio
             /\ \/ /\ transcripts' = [transcripts EXCEPT ![c] = transcripts[c] + 1]
                   /\ at' = [at EXCEPT ![c] = "finish"]
                \/ transcripts' = transcripts /\ at' = [at EXCEPT ![c] = "close"]
    <3>1. at[c] = "infer"
      BY <1>8 DEF InferenceEnds
    <3>2. OwnMove(c)
      BY <1>0, <2>1, <3>1 DEF OwnMove, SameAudio
    <3> QED BY <3>2, OwnStep
  <2> QED BY <1>1, <1>8, <2>1 DEF InferenceEnds, Go, SameAudio
<1> QED BY <1>1, <1>2, <1>3, <1>4, <1>5, <1>6, <1>7, <1>8 DEF SttStep, SttInvalid, QueueTimeout

\* So do the steps of the TTS handler.
LEMMA TtsShares ==
  ASSUME ShareInv, NEW c \in Conns, TtsStep(c)
  PROVE  ShareInv'
<1> USE DEF ShareInv, AudioInv, OwnInv, Places, Holding, Answered, Outside, Speaking
<1>1. SameAudio /\ transcripts' = transcripts
  BY DEF TtsStep, HandleSynthesize, HandleSynthesizeStart, HandleSynthesizeText, NextPart,
         NextText, Idle, ProducerCalls, ProducerReleases, SynthesisEnds, SynthesisFails, sttVars, SameAudio
<1>2. \/ at' = at
      \/ /\ at[c] \in Speaking \cup {"read"}
         /\ \E p \in Speaking \cup {"close", "read", "finish"} : at' = [at EXCEPT ![c] = p]
  BY DEF TtsStep, HandleSynthesize, HandleSynthesizeStart, HandleSynthesizeText, NextPart,
         NextText, Idle, ProducerCalls, ProducerReleases, SynthesisEnds, SynthesisFails, Go
<1>3. reserved[c] \in Nat
  BY ServerAssumption
<1>4. OwnMove(c)
  BY <1>1, <1>2, <1>3 DEF OwnMove, SameAudio
<1> QED BY <1>4, OwnStep

\* So does every step.
LEMMA NextShares ==
  ASSUME ShareInv, [Next]_vars
  PROVE  ShareInv'
<1>1. CASE UNCHANGED <<at, reserved, transcripts, budget>>
  <2>1. AudioSum(reserved') = AudioSum(reserved)
    BY <1>1, Zenon
  <2>2. AudioInv'
    BY <1>1, <2>1, Zenon DEF AudioInv, ShareInv
  <2> QED BY <1>1, <2>2 DEF ShareInv, OwnInv
<1>2. ASSUME NEW s \in Services, LockStep(s) PROVE UNCHANGED <<at, reserved, transcripts, budget>>
  BY <1>2 DEF LockStep, Grant, Drained, DrainTimeout, sttVars
<1>3. ShutdownStep => UNCHANGED <<at, reserved, transcripts, budget>>
  BY DEF ShutdownStep, StopAccepting, ServerStop, ShutExecutor, ExecutorStopped, ExecutorTimeout,
         CloseEngine, sttVars
<1>4. UNCHANGED vars => UNCHANGED <<at, reserved, transcripts, budget>>
  BY DEF vars, sttVars
<1>5. PoolStep => UNCHANGED <<at, reserved, transcripts, budget>>
  BY PoolFrame
<1> QED BY <1>1, <1>2, <1>3, <1>4, <1>5, HandlerShares, SttShares, TtsShares DEF Next

\* No share is taken at the start.
LEMMA InitShares == Init => ShareInv
<1> SUFFICES ASSUME Init PROVE ShareInv
  OBVIOUS
<1>1. reserved \in [Conns -> {0}] /\ budget = 0 /\ at \in [Conns -> Places]
  BY DEF Init, Places, Outside
<1>2. PICK F : IsSum(F, reserved, Conns) /\ AudioSum(reserved) = F[Conns]
  BY <1>1, Finite, FoldIsSum DEF AudioSum
<1>3. F[Conns] = 0
  BY <1>1, <1>2, Finite, SumOfZeros
<1>4. AudioInv
  BY <1>1, <1>2, <1>3, ServerAssumption DEF AudioInv
<1>5. OwnInv
  <2>1. \A c \in Conns : ~(reserved[c] > 0) /\ transcripts[c] = 0
    BY <1>1 DEF Init
  <2>2. transcripts \in [Conns -> Nat]
    BY DEF Init
  <2> QED BY <2>1, <2>2 DEF OwnInv
<1> QED BY <1>1, <1>4, <1>5 DEF ShareInv

\* The types of what the lemmas above do not speak of.
RestTypes ==
  /\ accepting \in BOOLEAN
  /\ closing \in [Conns -> BOOLEAN]
  /\ tracked \in [Conns -> SUBSET Services] /\ begun \in [Conns -> SUBSET Services]
  /\ started \in [Conns -> BOOLEAN]
  /\ phase \in {"serve", "drain", "idle", "pool", "engine", "ended"}
  /\ drains \in [Services -> {"none", "waiting", "drained", "timeout"}]
  /\ late \subseteq Services /\ engine \in {"open", "closed"}

\* Every step keeps the remaining ranges.
LEMMA NextRest ==
  ASSUME RestTypes, [Next]_vars
  PROVE  RestTypes'
<1> USE DEF RestTypes, Services, limiterVars, routeVars, serverVars
<1>1. ASSUME NEW c \in Conns, HandlerStep(c) PROVE RestTypes'
  BY <1>1 DEF HandlerStep, Connect, ReadEnds, ClientCloses, Written, Disconnect, ReleaseSlot,
              TurnedAway, sttVars
<1>2. ASSUME NEW c \in Conns, SttStep(c) PROVE RestTypes'
  <2>1. UNCHANGED <<accepting, closing, phase, drains, engine>>
    BY <1>2 DEF SttStep, SttInvalid, HandleTranscribe, HandleAudioStart, HandleAudioChunk,
                ConversionEnds, HandleAudioStop, QueueTimeout, SkipInference, StartInference,
                InferenceEnds, FailureWritten
  <2>2. begun' = begun \/ Begin(c, "stt")
    BY <1>2 DEF SttStep, SttInvalid, HandleTranscribe, HandleAudioStart, HandleAudioChunk,
                ConversionEnds, HandleAudioStop, QueueTimeout, SkipInference, StartInference,
                InferenceEnds, FailureWritten
  <2>3. tracked' = tracked \/ Track(c, "stt") \/ Untrack(c, "stt")
    BY <1>2 DEF SttStep, SttInvalid, HandleTranscribe, HandleAudioStart, HandleAudioChunk,
                ConversionEnds, HandleAudioStop, QueueTimeout, SkipInference, StartInference,
                InferenceEnds, FailureWritten
  <2>4. started' = started \/ \E b \in BOOLEAN : started' = [started EXCEPT ![c] = b]
    BY <1>2 DEF SttStep, SttInvalid, HandleTranscribe, HandleAudioStart, HandleAudioChunk,
                ConversionEnds, HandleAudioStop, QueueTimeout, SkipInference, StartInference,
                InferenceEnds, FailureWritten, SttFail, sttVars
  <2>5. late' = late \/ Submit("stt", c)
    BY <1>2 DEF SttStep, SttInvalid, HandleTranscribe, HandleAudioStart, HandleAudioChunk,
                ConversionEnds, HandleAudioStop, QueueTimeout, SkipInference, StartInference,
                InferenceEnds, FailureWritten
  <2> QED BY <2>1, <2>2, <2>3, <2>4, <2>5 DEF Begin, Track, Untrack, Submit
<1>3. ASSUME NEW c \in Conns, TtsStep(c) PROVE RestTypes'
  BY SMTT(30), <1>3
  DEF TtsStep, HandleSynthesize, HandleSynthesizeStart, HandleSynthesizeText,
      NextPart, NextText, Idle, BeginText, ProducerCalls, ProducerReleases, SynthesisEnds,
      SynthesisFails, Submit, Begin, Track, Untrack, sttVars
<1>4. ASSUME NEW s \in Services, LockStep(s) PROVE RestTypes'
  <2>1. UNCHANGED <<accepting, closing, tracked, begun, started, phase, late, engine>>
    BY <1>4, Zenon DEF LockStep, Grant, Drained, DrainTimeout, sttVars
  <2>2. \/ drains' = drains
        \/ drains' = [drains EXCEPT ![s] = "drained"]
        \/ drains' = [drains EXCEPT ![s] = "timeout"]
    BY <1>4, Zenon DEF LockStep, Grant, Drained, DrainTimeout
  <2> QED BY <2>1, <2>2
<1>5. CASE ShutdownStep
  <2>1. UNCHANGED <<tracked, begun, started>>
    BY <1>5, Zenon DEF ShutdownStep, StopAccepting, ServerStop, ShutExecutor, ExecutorStopped,
                       ExecutorTimeout, CloseEngine, sttVars
  <2>2. /\ accepting' = accepting \/ accepting' = FALSE
        /\ phase' \in {"drain", "idle", "pool", "engine", "ended"}
        /\ late' = late \/ late' = {}
        /\ engine' = engine \/ engine' = "closed"
    BY <1>5 DEF ShutdownStep, StopAccepting, ServerStop, ShutExecutor, ExecutorStopped,
                ExecutorTimeout, CloseEngine
  <2>3. \/ closing' = closing
        \/ closing' = [c \in Conns |-> closing[c] \/ c \in Admitted]
    BY <1>5 DEF ShutdownStep, StopAccepting, ServerStop, ShutExecutor, ExecutorStopped,
                ExecutorTimeout, CloseEngine
  <2>4. \/ drains' = drains
        \/ \E x \in {"none", "waiting"} : drains' = [s \in Services |-> x]
    BY <1>5 DEF ShutdownStep, StopAccepting, ServerStop, ShutExecutor, ExecutorStopped,
                ExecutorTimeout, CloseEngine
  <2>5. closing' \in [Conns -> BOOLEAN]
    BY <2>3, Zenon
  <2> QED BY <2>1, <2>2, <2>4, <2>5
<1>6. CASE UNCHANGED vars
  BY <1>6 DEF vars, sttVars
<1>7. CASE PoolStep
  BY <1>7, PoolFrame
<1> QED BY <1>1, <1>2, <1>3, <1>4, <1>5, <1>6, <1>7 DEF Next

\* A call is a recognition or a split its handler awaits, or the TTS lock's holder's.
LEMMA QueueKeptShort ==
  ASSUME LeaseInv
  PROVE  CallsBounded
<1> DEFINE f == [c \in Admitted |-> IF at[c] = "infer" THEN <<"stt", c>> ELSE <<"split", c>>]
           T == {f[c] : c \in Admitted}
           x == <<"tts", holder["tts"]>>
<1>1. IsFiniteSet(T) /\ Cardinality(T) <= Cardinality(Admitted)
  <2>1. f \in Surjection(Admitted, T)
    BY DEF Surjection
  <2> HIDE DEF f, T
  <2> QED BY <2>1, Finite, FS_Surjection
<1>2. IsFiniteSet(T \cup {x}) /\ Cardinality(T \cup {x}) <= Cardinality(T) + 1
  <2> HIDE DEF T, x
  <2> QED BY <1>1, FS_AddElement, FS_CardinalityType
<1>3. ASSUME NEW k \in Calls, NEW c \in Conns, job[k][c] # "none" PROVE <<k, c>> \in T \cup {x}
  <2>1. CASE k = "tts"
    BY <1>3, <2>1 DEF LeaseInv, Services
  <2>2. CASE k = "stt"
    <3>1. at[c] = "infer" /\ c \in Admitted
      BY <1>3, <2>2 DEF LeaseInv, Admitted, Outside
    <3>2. f[c] = <<k, c>>
      BY <2>2, <3>1
    <3> QED BY <3>1, <3>2
  <2>3. CASE k = "split"
    <3>1. at[c] # "infer" /\ c \in Admitted
      BY <1>3, <2>3 DEF LeaseInv, Admitted, Outside, Speaking
    <3>2. f[c] = <<k, c>>
      BY <2>3, <3>1
    <3> QED BY <3>1, <3>2
  <2> HIDE DEF T, x
  <2> QED BY <2>1, <2>2, <2>3 DEF Calls, Services
<1>4. InProgress \subseteq T \cup {x}
  <2> HIDE DEF T, x
  <2> QED BY <1>3 DEF InProgress
<1> HIDE DEF f, T, x
<1>5. IsFiniteSet(InProgress) /\ Cardinality(InProgress) <= Cardinality(T \cup {x})
  BY <1>2, <1>4, FS_Subset
<1>6. /\ Cardinality(InProgress) \in Nat /\ Cardinality(T) \in Nat
      /\ Cardinality(T \cup {x}) \in Nat /\ Cardinality(Admitted) \in Nat
  BY <1>1, <1>2, <1>5, Finite, FS_CardinalityType
<1>7. Cardinality(InProgress) <= Cardinality(Admitted) + 1
  BY <1>1, <1>2, <1>5, <1>6
<1> QED BY <1>7 DEF CallsBounded

\* The audio budget is what the connections hold and none that ended or went to the
\* recognizer, a connection has one transcript, and the executor has at most one call of
\* each admitted connection and one that was left behind (ByteBudget, _append_audio, _clear_audio_buffer, _fail, run_inference).
THEOREM SharesAreExact == Spec => []SharesExact
<1>1. Init => RestTypes
  BY DEF Init, RestTypes, Services
<1>2. RestTypes /\ [Next]_vars => RestTypes'
  BY NextRest
<1>3. ShareInv /\ [Next]_vars => ShareInv'
  BY NextShares
<1>4. SlotInv /\ [Next]_vars => SlotInv'
  BY NextSlots
<1>5. LeaseInv /\ SlotInv /\ ShareInv /\ RestTypes => SharesExact
  <2> SUFFICES ASSUME LeaseInv, SlotInv, ShareInv, RestTypes PROVE SharesExact
    OBVIOUS
  <2>1. active \in Nat
    BY Finite DEF SlotInv, SlotsExact
  <2>2. TypeOK
    BY <2>1, ServerAssumption
    DEF TypeOK, RestTypes, ShareInv, AudioInv, OwnInv, LeaseInv, LeaseTypes, PoolInv, Places, Holders
  <2>3. BudgetExact
    BY DEF BudgetExact, ShareInv, AudioInv, AudioSum, OwnInv, Holding
  <2>4. OneTranscript
    BY DEF OneTranscript, ShareInv, OwnInv, Answered
  <2> QED BY <2>2, <2>3, <2>4, QueueKeptShort DEF SharesExact
<1> QED
  BY <1>1, <1>2, <1>3, <1>4, <1>5, InitShares, InitSlots, LeaseInvariant, PTL DEF Spec

--------------------------------------------------------------------------------
(* The order of the shutdown. *)

Calm(s) == \A c \in Conns : job[s][c] = "none"

\* A drained lock, a stopped executor and a closed engine have no call: it takes
\* the drain's own hold of the lock, and an executor that takes no more.
StopInv ==
  /\ \A s \in Services : drains[s] = "drained" /\ s \notin late => Calm(s)
  /\ phase = "engine" => ExecutorIdle
  /\ engine = "closed" => phase = "ended" /\ ExecutorIdle

\* Calls are followed back to the accepted request they began with.
AskedInv ==
  /\ \A c \in Conns : tracked[c] \subseteq begun[c]
  /\ \A c \in Conns : started[c] \/ at[c] \in {"convert", "queue"} => "stt" \in begun[c]
  /\ \A c \in Conns : at[c] \in Speaking => "tts" \in begun[c]

\* So is a producer, after its handler has left too.
ProducedInv == \A c \in Conns : Producing(c) => "tts" \in begun[c]

OrderInv == RestTypes /\ at \in [Conns -> Places] /\ StopInv /\ AskedInv /\ ProducedInv

\* A step of a connection keeps what it needs to make its calls.
AskedMove(c) ==
  /\ at' = at \/ \E p \in Places : at' = [at EXCEPT ![c] = p]
  /\ started' = started \/ \E b \in BOOLEAN : started' = [started EXCEPT ![c] = b]
  /\ tracked' = tracked \/ \E S \in SUBSET Services : tracked' = [tracked EXCEPT ![c] = S]
  /\ begun' = begun \/ \E S \in SUBSET Services : begun' = [begun EXCEPT ![c] = S]
  /\ tracked'[c] \subseteq begun'[c]
  /\ started'[c] \/ at'[c] \in {"convert", "queue"} => "stt" \in begun'[c]
  /\ at'[c] \in Speaking => "tts" \in begun'[c]

\* A connection's step keeps every call behind a request.
LEMMA AskedStep ==
  ASSUME OrderInv, NEW c \in Conns, AskedMove(c)
  PROVE  AskedInv'
<1>1. \A q \in Conns \ {c} : /\ at'[q] = at[q] /\ started'[q] = started[q]
                            /\ tracked'[q] = tracked[q] /\ begun'[q] = begun[q]
  BY DEF OrderInv, RestTypes, AskedMove
<1> QED BY <1>1 DEF OrderInv, AskedInv, AskedMove, Speaking

\* Steps of the connection are such steps.
LEMMA HandlerAsked ==
  ASSUME OrderInv, NEW c \in Conns, HandlerStep(c)
  PROVE  AskedMove(c)
<1> USE DEF OrderInv, RestTypes, AskedInv, Places, Outside, Speaking
<1>1. CASE Connect(c) \/ ReadEnds(c) \/ Written(c) \/ Disconnect(c) \/ TurnedAway(c)
  <2>1. UNCHANGED <<started, tracked, begun>>
    BY <1>1 DEF Connect, ReadEnds, Written, Disconnect, TurnedAway, sttVars, routeVars
  <2>2. \E p \in {"read", "gone", "close", "release", "finish"} : at' = [at EXCEPT ![c] = p]
    BY <1>1 DEF Connect, ReadEnds, Written, Disconnect, TurnedAway, Go
  <2> QED BY <2>1, <2>2 DEF AskedMove
<1>2. CASE ReleaseSlot(c)
  <2>1. /\ started' = [started EXCEPT ![c] = FALSE] /\ tracked' = [tracked EXCEPT ![c] = {}]
        /\ at' = [at EXCEPT ![c] = "gone"]
    BY <1>2 DEF ReleaseSlot, Go
  <2>2. begun' = begun \/ begun' = [begun EXCEPT ![c] = {}]
    BY <1>2 DEF ReleaseSlot
  <2>3. tracked'[c] = {} /\ started'[c] = FALSE /\ at'[c] = "gone"
    BY <2>1
  <2> QED BY <2>1, <2>2, <2>3 DEF AskedMove
<1>3. CASE ClientCloses(c)
  BY <1>3 DEF ClientCloses, sttVars, routeVars, AskedMove
<1> QED BY <1>1, <1>2, <1>3 DEF HandlerStep

\* So are those of the STT handler.
LEMMA SttAsked ==
  ASSUME OrderInv, NEW c \in Conns, SttStep(c)
  PROVE  AskedMove(c)
<1> USE DEF OrderInv, RestTypes, AskedInv, Places, Outside, Speaking
<1>1. CASE HandleTranscribe(c) \/ HandleAudioStart(c)
  <2>1. /\ at' = at /\ at[c] = "read"
        /\ Begin(c, "stt") /\ tracked' = [tracked EXCEPT ![c] = tracked[c] \cup {"stt"}]
        /\ started' = started \/ started' = [started EXCEPT ![c] = TRUE]
    BY <1>1 DEF HandleTranscribe, HandleAudioStart, Track, sttVars
  <2>2. accepting \/ "stt" \in tracked[c]
    BY <1>1 DEF HandleTranscribe, HandleAudioStart, Routed, StartsNewRequest
  <2> DEFINE S == IF accepting THEN begun[c] \cup {"stt"} ELSE begun[c]
  <2>3. begun' = [begun EXCEPT ![c] = S]
    BY <2>1 DEF Begin
  <2>4. S \in SUBSET Services /\ begun[c] \subseteq S /\ "stt" \in S
    BY <2>2 DEF Services
  <2>5. tracked[c] \cup {"stt"} \in SUBSET Services
    BY DEF Services
  <2> HIDE DEF S
  <2>6. tracked'[c] = tracked[c] \cup {"stt"} /\ begun'[c] = S
    BY <2>1, <2>3
  <2>7. tracked'[c] \subseteq begun'[c] /\ "stt" \in begun'[c] /\ at'[c] = "read"
    BY <2>1, <2>4, <2>6
  <2> QED BY <2>1, <2>3, <2>4, <2>5, <2>7 DEF AskedMove
<1>2. CASE HandleAudioChunk(c)
  <2>1. at' = [at EXCEPT ![c] = "convert"] /\ started[c] /\ UNCHANGED <<started, tracked, begun>>
    BY <1>2 DEF HandleAudioChunk, Go, routeVars
  <2> QED BY <2>1 DEF AskedMove
<1>3. CASE HandleAudioStop(c)
  <2>1. /\ started[c] /\ started' = [started EXCEPT ![c] = FALSE]
        /\ tracked' = [tracked EXCEPT ![c] = tracked[c] \ {"stt"}] /\ begun' = begun
        /\ \E p \in {"finish", "queue"} : at' = [at EXCEPT ![c] = p]
    BY <1>3 DEF HandleAudioStop, Go, Untrack
  <2> QED BY <2>1 DEF AskedMove
<1>4. CASE /\ ~HandleTranscribe(c) /\ ~HandleAudioStart(c) /\ ~HandleAudioChunk(c)
           /\ ~HandleAudioStop(c)
  <2>1. /\ begun' = begun
        /\ tracked' = tracked \/ tracked' = [tracked EXCEPT ![c] = tracked[c] \ {"stt"}]
        /\ started' = started \/ started' = [started EXCEPT ![c] = FALSE]
    BY <1>4 DEF SttStep, SttInvalid, ConversionEnds, QueueTimeout, SkipInference,
                StartInference, InferenceEnds, FailureWritten, SttFail,
                Untrack, routeVars, sttVars
  <2>2. \/ at' = at
        \/ \E p \in {"finish", "read", "close", "infer", "failing"} : at' = [at EXCEPT ![c] = p]
    BY <1>4 DEF SttStep, SttInvalid, ConversionEnds, QueueTimeout, SkipInference,
                StartInference, InferenceEnds, FailureWritten, SttFail, Go
  <2>3. tracked[c] \ {"stt"} \in SUBSET Services
    OBVIOUS
  <2>4. /\ tracked'[c] \subseteq begun'[c] /\ begun'[c] = begun[c]
        /\ started'[c] => started[c]
    BY <2>1
  <2>5. at'[c] \in {"convert", "queue"} \cup Speaking => at'[c] = at[c]
    BY <2>2
  <2> QED BY <2>1, <2>2, <2>3, <2>4, <2>5 DEF AskedMove
<1> QED BY <1>1, <1>2, <1>3, <1>4

\* So are those of the TTS handler.
LEMMA TtsAsked ==
  ASSUME OrderInv, NEW c \in Conns, TtsStep(c)
  PROVE  AskedMove(c)
<1> USE DEF OrderInv, RestTypes, AskedInv, Places, Outside, Speaking
<1>0. UNCHANGED started
  BY DEF TtsStep, HandleSynthesize, HandleSynthesizeStart, HandleSynthesizeText, NextPart,
         NextText, Idle, ProducerCalls, ProducerReleases, SynthesisEnds, SynthesisFails, sttVars
<1>1. CASE HandleSynthesize(c) \/ HandleSynthesizeStart(c)
  <2>1. /\ Begin(c, "tts") /\ accepting
        /\ tracked' = tracked \/ tracked' = [tracked EXCEPT ![c] = tracked[c] \cup {"tts"}]
        /\ at' = at \/ at' = [at EXCEPT ![c] = "once"]
    BY <1>1 DEF HandleSynthesize, HandleSynthesizeStart, Track, Go, Routed, StartsNewRequest
  <2>2. begun[c] \cup {"tts"} \in SUBSET Services /\ tracked[c] \cup {"tts"} \in SUBSET Services
    BY DEF Services
  <2>3. begun' = [begun EXCEPT ![c] = begun[c] \cup {"tts"}]
    BY <2>1 DEF Begin
  <2>4. tracked'[c] \subseteq begun'[c] /\ begun[c] \subseteq begun'[c] /\ "tts" \in begun'[c]
    BY <2>1, <2>3
  <2>5. started'[c] \/ at'[c] \in {"convert", "queue"} => "stt" \in begun'[c]
    BY <1>0, <2>1, <2>4
  <2> QED BY <1>0, <2>1, <2>2, <2>3, <2>4, <2>5 DEF AskedMove
<1>2. CASE HandleSynthesizeText(c, "chunk") \/ HandleSynthesizeText(c, "stop")
  <2>1. /\ "tts" \in tracked[c] /\ UNCHANGED <<tracked, begun>>
        /\ \E p \in {"chunk", "stop"} : at' = [at EXCEPT ![c] = p]
    BY <1>2 DEF HandleSynthesizeText, Go, routeVars
  <2> QED BY <1>0, <2>1 DEF AskedMove
<1>3. CASE NextPart(c) \/ NextText(c)
  <2>1. /\ UNCHANGED <<tracked, begun>> /\ at[c] \in Speaking
        /\ at' = at \/ \E p \in Speaking : at' = [at EXCEPT ![c] = p]
    BY <1>3 DEF NextPart, NextText, Idle, Go, routeVars
  <2> QED BY <1>0, <2>1 DEF AskedMove
<1>4. CASE ProducerCalls(c) \/ ProducerReleases(c) \/ SynthesisEnds(c) \/ SynthesisFails(c)
  <2>1. /\ begun' = begun
        /\ tracked' = tracked \/ tracked' = [tracked EXCEPT ![c] = tracked[c] \ {"tts"}]
        /\ at' = at \/ \E p \in {"close", "read", "finish"} : at' = [at EXCEPT ![c] = p]
    BY <1>4 DEF ProducerCalls, ProducerReleases, SynthesisEnds, SynthesisFails, Untrack, Go,
                routeVars
  <2>2. tracked[c] \ {"tts"} \in SUBSET Services
    OBVIOUS
  <2> QED BY <1>0, <2>1, <2>2 DEF AskedMove
<1> QED BY <1>1, <1>2, <1>3, <1>4 DEF TtsStep

\* A call begins in an executor that takes calls, for a request accepted before or in
\* the step, and is noted when it begins after the drain of its lock.
Starts(k, c) == job[k][c] = "none" /\ job'[k][c] # "none"
InOrder(k, c) ==
  /\ ~PoolShut
  /\ accepting \/ ServiceOf(k) \in begun[c]
  /\ k \in Services /\ drains[k] = "drained" => k \in late'
StartsInOrder == \A k \in Calls, c \in Conns : Starts(k, c) => InOrder(k, c)

\* A submission begins its call and no other.
LEMMA SubmitStarts ==
  ASSUME PoolInv, NEW t \in Calls, NEW q \in Conns, Submit(t, q),
         accepting \/ ServiceOf(t) \in begun[q]
  PROVE  StartsInOrder
<1>1. \A k \in Calls, c \in Conns : Starts(k, c) => k = t /\ c = q
  BY DEF Submit, Starts, PoolInv
<1>2. InOrder(t, q)
  BY DEF Submit, InOrder
<1> QED BY <1>1, <1>2 DEF StartsInOrder

\* Without a submission no call begins.
LEMMA NothingStarts ==
  ASSUME \A k \in Calls, c \in Conns : job[k][c] = "none" => job'[k][c] = "none"
  PROVE  StartsInOrder
BY DEF StartsInOrder, Starts

\* A call starts only before the pool is shut down, for work that had begun.
LEMMA StartInOrder ==
  ASSUME OrderInv, LeaseInv, [Next]_vars
  PROVE  StartsInOrder
<1>1. PoolInv /\ (UNCHANGED job => StartsInOrder)
  BY NothingStarts DEF LeaseInv
<1>2. ASSUME NEW q \in Conns, HandlerStep(q) PROVE StartsInOrder
  BY <1>1, <1>2 DEF HandlerStep, Connect, ReadEnds, ClientCloses, Written, Disconnect,
                    ReleaseSlot, TurnedAway, poolVars
<1>3. ASSUME NEW q \in Conns, SttStep(q) PROVE StartsInOrder
  <2>1. CASE Submit("stt", q) /\ at[q] = "queue"
    <3>1. "stt" \in Calls /\ ServiceOf("stt") \in begun[q]
      BY <2>1 DEF OrderInv, AskedInv, ServiceOf, Calls, Services
    <3> QED BY <1>1, <2>1, <3>1, SubmitStarts
  <2> QED
    BY <1>1, <1>3, <2>1
    DEF SttStep, SttInvalid, HandleTranscribe, HandleAudioStart, HandleAudioChunk, ConversionEnds,
        HandleAudioStop, QueueTimeout, SkipInference, StartInference, InferenceEnds,
        FailureWritten, poolVars
<1>4. ASSUME NEW q \in Conns, TtsStep(q) PROVE StartsInOrder
  <2>1. ASSUME BeginText(q), accepting \/ "tts" \in begun[q] PROVE StartsInOrder
    <3>1. CASE Submit("split", q)
      <4>1. "split" \in Calls /\ ServiceOf("split") = "tts"
        BY DEF Calls, ServiceOf
      <4> QED BY <1>1, <2>1, <3>1, <4>1, SubmitStarts
    <3> QED BY <1>1, <2>1, <3>1 DEF BeginText, poolVars
  <2>2. CASE HandleSynthesize(q)
    BY <2>1, <2>2 DEF HandleSynthesize, Routed, StartsNewRequest
  <2>3. CASE HandleSynthesizeText(q, "chunk") \/ HandleSynthesizeText(q, "stop")
    BY <2>1, <2>3 DEF HandleSynthesizeText, OrderInv, AskedInv
  <2>4. CASE NextText(q)
    BY <2>1, <2>4 DEF NextText, Idle, OrderInv, AskedInv
  <2>5. CASE ProducerCalls(q)
    <3>1. Submit("tts", q) /\ Producing(q)
      BY <2>5 DEF ProducerCalls, Producing
    <3>2. "tts" \in Calls /\ ServiceOf("tts") \in begun[q]
      BY <3>1 DEF OrderInv, ProducedInv, ServiceOf, Calls, Services
    <3> QED BY <1>1, <3>1, <3>2, SubmitStarts
  <2> QED
    BY <1>1, <1>4, <2>2, <2>3, <2>4, <2>5
    DEF TtsStep, HandleSynthesizeStart, NextPart, ProducerReleases, SynthesisEnds, SynthesisFails,
        poolVars
<1>5. ASSUME NEW t \in Services, LockStep(t) PROVE StartsInOrder
  BY <1>1, <1>5 DEF LockStep, Grant, Drained, DrainTimeout, poolVars
<1>6. CASE PoolStep
  <2>1. CASE ThreadTakes
    <3>1. PICK k \in Calls, c \in Conns :
            job[k][c] = "queued" /\ job' = [job EXCEPT ![k][c] = "running"]
      BY <1>1, <2>1, TakePool
    <3> QED BY <1>1, <3>1, NothingStarts DEF PoolInv
  <2>2. ASSUME NEW k \in Calls, NEW c \in Conns, CallReturns(k, c) \/ Hang(k, c)
        PROVE  StartsInOrder
    BY <1>1, <2>2, NothingStarts DEF CallReturns, Hang, PoolInv
  <2> QED BY <1>6, <2>1, <2>2 DEF PoolStep
<1>7. CASE ShutdownStep
  <2>1. CASE ExecutorTimeout
    BY <2>1, NothingStarts DEF ExecutorTimeout
  <2> QED
    BY <1>1, <1>7, <2>1 DEF ShutdownStep, StopAccepting, ServerStop, ShutExecutor, ExecutorStopped,
                            CloseEngine, poolVars
<1>8. CASE UNCHANGED vars
  BY <1>1, <1>8 DEF vars, poolVars
<1> QED BY <1>2, <1>3, <1>4, <1>5, <1>6, <1>7, <1>8 DEF Next

\* While the shutdown waits, calls only end.
LEMMA WaitKeeps ==
  ASSUME OrderInv, LeaseInv, StartsInOrder, UNCHANGED <<phase, drains, engine>>,
         late \subseteq late'
  PROVE  StopInv'
<1>1. ASSUME NEW s \in Services, drains[s] = "drained", s \notin late' PROVE Calm(s)'
  <2>1. Calm(s) /\ s \in Calls
    BY <1>1 DEF OrderInv, StopInv, Calls
  <2>2. \A c \in Conns : ~Starts(s, c)
    BY <1>1, <2>1 DEF StartsInOrder, InOrder
  <2> QED BY <2>1, <2>2 DEF Calm, Starts
<1>2. PoolShut /\ ExecutorIdle => ExecutorIdle'
  BY DEF StartsInOrder, InOrder, Starts, ExecutorIdle
<1> QED BY <1>1, <1>2 DEF OrderInv, StopInv, PoolShut

\* Every step keeps the order of the shutdown.
LEMMA NextStop ==
  ASSUME OrderInv, LeaseInv, [Next]_vars
  PROVE  StopInv'
<1>0. StartsInOrder
  BY StartInOrder
<1>1. ASSUME NEW c \in Conns, HandlerStep(c) PROVE StopInv'
  <2>1. UNCHANGED <<phase, drains, engine, late>>
    BY <1>1 DEF HandlerStep, Connect, ReadEnds, ClientCloses, Written, Disconnect, ReleaseSlot,
                TurnedAway, serverVars
  <2> QED BY <1>0, <2>1, WaitKeeps
<1>2. ASSUME NEW c \in Conns, SttStep(c) PROVE StopInv'
  <2>1. UNCHANGED <<phase, drains, engine>> /\ late \subseteq late'
    BY <1>2 DEF SttStep, SttInvalid, HandleTranscribe, HandleAudioStart, HandleAudioChunk,
                ConversionEnds, HandleAudioStop, QueueTimeout, SkipInference, StartInference,
                InferenceEnds, FailureWritten, Submit, serverVars
  <2> QED BY <1>0, <2>1, WaitKeeps
<1>3. ASSUME NEW c \in Conns, TtsStep(c) PROVE StopInv'
  <2>1. UNCHANGED <<phase, drains, engine>> /\ late \subseteq late'
    BY <1>3 DEF TtsStep, HandleSynthesize, HandleSynthesizeStart, HandleSynthesizeText,
                NextPart, NextText, BeginText, ProducerCalls, ProducerReleases, SynthesisEnds,
                SynthesisFails, Submit, serverVars
  <2> QED BY <1>0, <2>1, WaitKeeps
<1>4. ASSUME NEW s \in Services, LockStep(s) PROVE StopInv'
  <2>1. CASE Grant(s)
    <3>1. UNCHANGED <<phase, drains, engine, late>>
      BY <2>1 DEF Grant, serverVars
    <3> QED BY <1>0, <3>1, WaitKeeps
  <2>2. CASE Drained(s)
    <3>1. /\ holder[s] = Drain /\ drains' = [drains EXCEPT ![s] = "drained"]
          /\ UNCHANGED <<job, late, phase, engine>>
      BY <2>2 DEF Drained, poolVars
    <3>2. Drain \notin Conns
      BY ServerAssumption DEF Conns
    <3>3. Calm(s)
      BY <3>1, <3>2 DEF LeaseInv, Calm
    <3> QED BY <3>1, <3>3 DEF OrderInv, RestTypes, StopInv, Calm, ExecutorIdle
  <2>3. CASE DrainTimeout(s)
    <3>1. drains' = [drains EXCEPT ![s] = "timeout"] /\ UNCHANGED <<job, late, phase, engine>>
      BY <2>3 DEF DrainTimeout, poolVars
    <3> QED BY <3>1 DEF OrderInv, RestTypes, StopInv, Calm, ExecutorIdle
  <2> QED BY <1>4, <2>1, <2>2, <2>3 DEF LockStep
<1>5. CASE ShutdownStep
  <2>1. CASE ExecutorTimeout
    <3>1. /\ phase = "pool" /\ phase' = "ended" /\ UNCHANGED <<late, drains, engine>>
          /\ \A k \in Calls, c \in Conns : job[k][c] = "none" => job'[k][c] = "none"
      BY <2>1 DEF ExecutorTimeout
    <3> QED BY <3>1 DEF OrderInv, StopInv, Calm, Calls
  <2>2. CASE ~ExecutorTimeout
    BY <1>5, <2>2 DEF ShutdownStep, StopAccepting, ServerStop, ShutExecutor, ExecutorStopped,
                      CloseEngine, poolVars, OrderInv, RestTypes, StopInv, Calm, ExecutorIdle
  <2> QED BY <2>1, <2>2
<1>7. CASE PoolStep
  BY <1>0, <1>7, PoolFrame, WaitKeeps
<1>6. CASE UNCHANGED vars
  <2>1. UNCHANGED <<phase, drains, engine, late>>
    BY <1>6 DEF vars, serverVars
  <2> QED BY <1>0, <2>1, WaitKeeps
<1> QED BY <1>1, <1>2, <1>3, <1>4, <1>5, <1>6, <1>7 DEF Next

\* And every call behind a request.
LEMMA NextAsked ==
  ASSUME OrderInv, [Next]_vars
  PROVE  AskedInv'
<1>1. ASSUME UNCHANGED <<at, started, tracked, begun>> PROVE AskedInv'
  BY <1>1 DEF OrderInv, AskedInv
<1>2. ASSUME NEW s \in Services, LockStep(s) PROVE UNCHANGED <<at, started, tracked, begun>>
  BY <1>2 DEF LockStep, Grant, Drained, DrainTimeout, sttVars, routeVars
<1>3. ShutdownStep => UNCHANGED <<at, started, tracked, begun>>
  BY DEF ShutdownStep, StopAccepting, ServerStop, ShutExecutor, ExecutorStopped, ExecutorTimeout,
         CloseEngine, sttVars, routeVars
<1>4. UNCHANGED vars => UNCHANGED <<at, started, tracked, begun>>
  BY DEF vars, sttVars, routeVars
<1>5. PoolStep => UNCHANGED <<at, started, tracked, begun>>
  BY PoolFrame
<1> QED BY <1>1, <1>2, <1>3, <1>4, <1>5, AskedStep, HandlerAsked, SttAsked, TtsAsked DEF Next

\* Who is behind whom changes, and nobody is added to a lock's queue, when one leaves it.
LEMMA LeaveWaits ==
  ASSUME LeaseTypes, NEW s \in Services, NEW p, Leave(s, p), NEW t \in Services, NEW q,
         Waiting(t, q)'
  PROVE  Waiting(t, q)
<1>1. CASE ~Waiting(s, p) \/ t # s
  BY <1>1 DEF Leave, Waiting, LeaseTypes
<1>2. CASE Waiting(s, p) /\ t = s
  <2> DEFINE w == waiters[s]
             i == CHOOSE i \in DOMAIN w : w[i] = p
  <2>1. i \in DOMAIN w /\ w \in Seq(Holders)
    BY <1>2 DEF Waiting, LeaseTypes
  <2>2. waiters'[s] = RemoveAt(w, i)
    BY <1>2 DEF Leave, LeaseTypes
  <2> HIDE DEF i
  <2>3. i \in 1..Len(w) /\ Len(w) \in Nat
    BY <2>1
  <2>4. PICK j \in DOMAIN waiters'[s] : waiters'[s][j] = q
    BY <1>2 DEF Waiting
  <2>5. \E n \in DOMAIN w : w[n] = q
    <3> HIDE DEF w
    <3>1. /\ SubSeq(w, 1, i - 1) \in Seq(Holders) /\ SubSeq(w, i + 1, Len(w)) \in Seq(Holders)
          /\ Len(SubSeq(w, 1, i - 1)) = i - 1 /\ Len(SubSeq(w, i + 1, Len(w))) = Len(w) - i
          /\ \A n \in 1..(i - 1) : SubSeq(w, 1, i - 1)[n] = w[n]
          /\ \A n \in 1..(Len(w) - i) : SubSeq(w, i + 1, Len(w))[n] = w[i + n]
      BY <2>1, <2>3
    <3>2. RemoveAt(w, i) = SubSeq(w, 1, i - 1) \o SubSeq(w, i + 1, Len(w))
      BY DEF RemoveAt
    <3> DEFINE a == SubSeq(w, 1, i - 1)
               b == SubSeq(w, i + 1, Len(w))
               m == i - 1
               n == Len(w) - i
    <3>3. /\ a \in Seq(Holders) /\ b \in Seq(Holders) /\ Len(a) = m /\ Len(b) = n
          /\ m \in Nat /\ n \in Nat
          /\ \A l \in 1..m : a[l] = w[l]
          /\ \A l \in 1..n : b[l] = w[i + l]
      BY <2>3, <3>1
    <3>4. waiters'[s] = a \o b
      BY <2>2, <3>2
    <3> HIDE DEF a, b
    <3>5. j \in 1..(m + n) /\ (a \o b)[j] = q
      <4> HIDE DEF m, n
      <4> QED BY <2>4, <3>3, <3>4, ConcatProperties
    <3>6. CASE j <= m
      <4>1. (a \o b)[j] = a[j] /\ j \in 1..m
        <5> HIDE DEF m, n
        <5> QED BY <3>3, <3>5, <3>6, ConcatProperties
      <4>2. j \in DOMAIN w
        BY <2>1, <2>3, <4>1
      <4>3. w[j] = q
        BY <3>3, <3>5, <4>1
      <4> QED BY <4>2, <4>3
    <3>7. CASE ~(j <= m)
      <4>1. (a \o b)[j] = b[j - m] /\ j - m \in 1..n
        <5> HIDE DEF m, n
        <5> QED BY <3>3, <3>5, <3>7, ConcatProperties
      <4>2. b[j - m] = w[i + (j - m)]
        BY <3>3, <4>1
      <4>3. i + (j - m) \in 1..Len(w)
        BY <2>3, <4>1
      <4>4. DOMAIN w = 1..Len(w)
        BY <2>1
      <4> QED BY <3>5, <4>1, <4>2, <4>3, <4>4
    <3> QED BY <3>6, <3>7
  <2> QED BY <1>2, <2>5 DEF Waiting
<1> QED BY <1>1, <1>2

\* One that enters it is its last.
LEMMA AppendWaits ==
  ASSUME LeaseTypes, NEW s \in Services, NEW p \in Holders,
         waiters'[s] = Append(waiters[s], p), NEW q, Waiting(s, q)'
  PROVE  Waiting(s, q) \/ q = p
<1> DEFINE w == waiters[s]
<1>1. w \in Seq(Holders) /\ Len(w) \in Nat
  BY DEF LeaseTypes
<1>2. PICK j \in DOMAIN waiters'[s] : waiters'[s][j] = q
  BY DEF Waiting
<1> HIDE DEF w
<1>3. waiters'[s] = Append(w, p)
  BY DEF w
<1>4. j \in 1..(Len(w) + 1) /\ Append(w, p)[j] = q
  BY <1>1, <1>2, <1>3, AppendProperties
<1>5. CASE j = Len(w) + 1
  BY <1>1, <1>4, <1>5, AppendProperties
<1>6. CASE j # Len(w) + 1
  <2>1. j \in 1..Len(w) /\ w[j] = q
    BY <1>1, <1>4, <1>6, AppendProperties
  <2>2. j \in DOMAIN w
    BY <1>1, <2>1
  <2> QED BY <2>1, <2>2 DEF Waiting, w
<1> QED BY <1>5, <1>6

\* A lock's first waiter leaves its queue.
LEMMA TailWaits ==
  ASSUME LeaseTypes, NEW s \in Services, Grant(s), NEW t \in Services, NEW q, Waiting(t, q)'
  PROVE  Waiting(t, q)
<1>1. waiters[s] # <<>> /\ waiters' = [waiters EXCEPT ![s] = Tail(waiters[s])]
  BY DEF Grant
<1>2. CASE t # s
  BY <1>1, <1>2 DEF Waiting, LeaseTypes
<1>3. CASE t = s
  <2> DEFINE w == waiters[s]
  <2>1. w \in Seq(Holders) /\ w # <<>> /\ waiters'[s] = Tail(w)
    BY <1>1 DEF LeaseTypes
  <2>2. PICK j \in DOMAIN waiters'[s] : waiters'[s][j] = q
    BY <1>3 DEF Waiting
  <2> HIDE DEF w
  <2>3. Len(w) \in Nat \ {0} /\ j \in 1..(Len(w) - 1) /\ Tail(w)[j] = w[j + 1]
    BY <2>1, <2>2, HeadTailProperties, EmptySeq
  <2>4. j + 1 \in DOMAIN w /\ w[j + 1] = q
    BY <2>1, <2>2, <2>3
  <2> QED BY <1>3, <2>4 DEF Waiting, w
<1> QED BY <1>2, <1>3

\* A producer begins where its handler speaks.
LEMMA WhoProduces ==
  ASSUME LeaseInv, [Next]_vars, NEW c \in Conns, Producing(c)'
  PROVE  Producing(c) \/ (TtsStep(c) /\ at'[c] \in Speaking)
<1> USE DEF Services
<1>0. LeaseTypes /\ c # Drain /\ c # Free /\ c \in Holders
  BY ServerAssumption DEF LeaseInv, Conns, Holders
<1>1. CASE UNCHANGED <<holder, waiters>>
  BY <1>1 DEF Producing, Waiting
<1>2. CASE UNCHANGED waiters /\ holder'["tts"] # c
  BY <1>2 DEF Producing, Waiting
<1>3. ASSUME NEW s \in Services, NEW p, Leave(s, p), holder' = holder PROVE Producing(c)
  BY <1>0, <1>3, LeaveWaits DEF Producing
<1>4. ASSUME NEW q \in Conns, HandlerStep(q) PROVE Producing(c)
  <2>1. UNCHANGED <<holder, waiters>>
    BY <1>4 DEF HandlerStep, Connect, ReadEnds, ClientCloses, Written, Disconnect, ReleaseSlot,
                TurnedAway, lockVars
  <2> QED BY <1>1, <2>1 DEF Producing, Waiting
<1>5. ASSUME NEW q \in Conns, SttStep(q) PROVE Producing(c)
  <2>1. holder' = holder \/ Release("stt")
    BY <1>5 DEF SttStep, SttInvalid, HandleTranscribe, HandleAudioStart, HandleAudioChunk,
                ConversionEnds, HandleAudioStop, QueueTimeout, SkipInference, StartInference,
                InferenceEnds, FailureWritten, lockVars
  <2>2. waiters' = waiters \/ Enqueue("stt", q) \/ (Leave("stt", q) /\ holder' = holder)
    BY <1>5 DEF SttStep, SttInvalid, HandleTranscribe, HandleAudioStart, HandleAudioChunk,
                ConversionEnds, HandleAudioStop, QueueTimeout, SkipInference, StartInference,
                InferenceEnds, FailureWritten, lockVars
  <2>3. Enqueue("stt", q) => waiters'["tts"] = waiters["tts"]
    BY DEF Enqueue
  <2>4. holder'["tts"] = holder["tts"]
    BY <1>0, <2>1 DEF Release, LeaseTypes
  <2> QED BY <1>3, <2>2, <2>3, <2>4 DEF Producing, Waiting
<1>6. ASSUME NEW q \in Conns, TtsStep(q) PROVE Producing(c) \/ (q = c /\ at'[c] \in Speaking)
  <2>1. CASE Enqueue("tts", q) /\ holder' = holder /\ at'[q] \in Speaking
    <3>1. q \in Holders /\ waiters'["tts"] = Append(waiters["tts"], q)
      BY <1>0, <2>1 DEF Enqueue, LeaseTypes, Holders
    <3>2. Waiting("tts", c)' => Waiting("tts", c) \/ c = q
      BY <1>0, <3>1, AppendWaits
    <3> QED BY <2>1, <3>2 DEF Producing
  <2>2. CASE UNCHANGED <<holder, waiters>>
    BY <1>1, <2>2 DEF Producing, Waiting
  <2>3. CASE holder' = [holder EXCEPT !["tts"] = Free] /\ UNCHANGED waiters
    BY <1>0, <2>3 DEF LeaseTypes, Producing, Waiting
  <2>4. CASE Leave("tts", q) /\ holder' = holder
    BY <1>3, <2>4
  <2>5. CASE HandleSynthesize(q) \/ HandleSynthesizeText(q, "chunk") \/ HandleSynthesizeText(q, "stop")
    <3>1. at'[q] \in Speaking /\ BeginText(q) /\ holder' = holder
      BY <1>0, <2>5 DEF HandleSynthesize, HandleSynthesizeText, Go, Speaking, LeaseTypes
    <3> QED BY <2>1, <2>2, <3>1 DEF BeginText
  <2>6. CASE NextText(q)
    <3>1. at'[q] \in Speaking /\ BeginText(q) /\ holder' = holder
      BY <1>0, <2>6 DEF NextText, Idle, Go, Speaking, LeaseTypes
    <3> QED BY <2>1, <2>2, <3>1 DEF BeginText
  <2>7. CASE NextPart(q)
    BY <2>1, <2>7 DEF NextPart, Idle
  <2> QED
    BY <1>6, <2>2, <2>3, <2>4, <2>5, <2>6, <2>7
    DEF TtsStep, HandleSynthesizeStart, ProducerCalls, ProducerReleases, Release, SynthesisEnds,
        SynthesisFails, lockVars
<1>7. ASSUME NEW s \in Services, LockStep(s) PROVE Producing(c)
  <2>1. CASE Grant(s)
    <3>1. Waiting("tts", c)' => Waiting("tts", c)
      BY <1>0, <2>1, TailWaits
    <3>2. holder'["tts"] = holder["tts"] \/ (s = "tts" /\ holder'["tts"] = waiters["tts"][1])
      <4>1. waiters[s] \in Seq(Holders) /\ waiters[s] # <<>>
        BY <1>0, <2>1 DEF Grant, LeaseTypes
      <4>2. Head(waiters[s]) = waiters[s][1]
        BY <4>1, HeadTailProperties
      <4> QED BY <1>0, <2>1, <4>2 DEF Grant, LeaseTypes
    <3>3. s = "tts" => 1 \in DOMAIN waiters["tts"]
      <4>1. waiters[s] \in Seq(Holders) /\ waiters[s] # <<>>
        BY <1>0, <2>1 DEF Grant, LeaseTypes
      <4> QED BY <4>1, EmptySeq
    <3> QED BY <3>1, <3>2, <3>3 DEF Producing, Waiting
  <2>2. CASE Drained(s)
    BY <1>0, <2>2 DEF Drained, Release, LeaseTypes, Producing, Waiting
  <2>3. CASE DrainTimeout(s)
    BY <1>3, <2>3 DEF DrainTimeout
  <2> QED BY <1>7, <2>1, <2>2, <2>3 DEF LockStep
<1>8. CASE ShutdownStep
  <2>1. CASE StopAccepting
    <3>1. waiters'["tts"] = Append(waiters["tts"], Drain) /\ holder' = holder
      BY <2>1 DEF StopAccepting
    <3>2. Waiting("tts", c)' => Waiting("tts", c)
      BY <1>0, <3>1, AppendWaits DEF Holders
    <3> QED BY <3>1, <3>2 DEF Producing
  <2>2. CASE UNCHANGED <<holder, waiters>>
    BY <1>1, <2>2 DEF Producing, Waiting
  <2> QED BY <1>8, <2>1, <2>2 DEF ShutdownStep, ServerStop, ShutExecutor, ExecutorStopped,
                                  ExecutorTimeout, CloseEngine, lockVars
<1>9. CASE PoolStep \/ UNCHANGED vars
  <2>1. UNCHANGED <<holder, waiters>>
    BY <1>9, PoolFrame DEF vars, lockVars
  <2> QED BY <2>1 DEF Producing, Waiting
<1> QED BY <1>4, <1>5, <1>6, <1>7, <1>8, <1>9 DEF Next

\* A request is forgotten when its connection has no producer.
LEMMA BegunKept ==
  ASSUME OrderInv, [Next]_vars, NEW c \in Conns
  PROVE  begun[c] \subseteq begun'[c] \/ ~Producing(c)
<1> USE DEF OrderInv, RestTypes, routeVars
<1>1. ASSUME UNCHANGED begun PROVE begun[c] \subseteq begun'[c]
  BY <1>1
<1>2. ASSUME NEW q \in Conns, NEW s, Begin(q, s) PROVE begun[c] \subseteq begun'[c]
  BY <1>2 DEF Begin
<1>3. ASSUME NEW q \in Conns, HandlerStep(q) PROVE begun[c] \subseteq begun'[c] \/ ~Producing(c)
  <2>1. CASE ReleaseSlot(q)
    <3>1. begun' = [begun EXCEPT ![q] = IF Producing(q) THEN @ ELSE {}]
      BY <2>1 DEF ReleaseSlot
    <3> QED BY <3>1
  <2> QED BY <1>3, <2>1 DEF HandlerStep, Connect, ReadEnds, ClientCloses, Written, Disconnect, TurnedAway
<1>4. ASSUME NEW q \in Conns, SttStep(q) PROVE begun[c] \subseteq begun'[c]
  BY <1>1, <1>2, <1>4
  DEF SttStep, SttInvalid, HandleTranscribe, HandleAudioStart, HandleAudioChunk, ConversionEnds,
      HandleAudioStop, QueueTimeout, SkipInference, StartInference, InferenceEnds, FailureWritten
<1>5. ASSUME NEW q \in Conns, TtsStep(q) PROVE begun[c] \subseteq begun'[c]
  BY <1>1, <1>2, <1>5
  DEF TtsStep, HandleSynthesize, HandleSynthesizeStart, HandleSynthesizeText, NextPart, NextText,
      ProducerCalls, ProducerReleases, SynthesisEnds, SynthesisFails
<1>6. ASSUME NEW s \in Services, LockStep(s) PROVE UNCHANGED begun
  BY <1>6 DEF LockStep, Grant, Drained, DrainTimeout
<1>7. ShutdownStep \/ PoolStep \/ UNCHANGED vars => UNCHANGED begun
  BY PoolFrame DEF ShutdownStep, StopAccepting, ServerStop, ShutExecutor, ExecutorStopped,
                   ExecutorTimeout, CloseEngine, vars
<1> QED BY <1>1, <1>3, <1>4, <1>5, <1>6, <1>7 DEF Next

\* And every producer's.
LEMMA NextProduced ==
  ASSUME OrderInv, LeaseInv, [Next]_vars
  PROVE  ProducedInv'
<1> SUFFICES ASSUME NEW c \in Conns, Producing(c)' PROVE "tts" \in begun'[c]
  BY DEF ProducedInv
<1>1. CASE Producing(c)
  BY <1>1, BegunKept DEF OrderInv, ProducedInv
<1>2. CASE TtsStep(c) /\ at'[c] \in Speaking
  BY <1>2, TtsAsked DEF AskedMove
<1> QED BY <1>1, <1>2, WhoProduces


\* Nothing is shut down at the start.
LEMMA InitOrder == Init => OrderInv
<1> SUFFICES ASSUME Init PROVE OrderInv
  OBVIOUS
<1>1. RestTypes /\ at \in [Conns -> Places]
  BY DEF Init, RestTypes, Services, Places, Outside
<1>2. StopInv
  BY DEF Init, StopInv
<1>3. AskedInv
  BY DEF Init, AskedInv, Speaking
<1>4. ProducedInv
  <2>1. Free \notin Conns
    BY ServerAssumption DEF Conns
  <2> QED BY <2>1 DEF Init, ProducedInv, Producing, Waiting, Services
<1> QED BY <1>1, <1>2, <1>3, <1>4 DEF OrderInv

\* What the shutdown drained is idle, calls during it belong to requests accepted before
\* it, and the engine closes after the last call (run_server, CombinedEventHandler).
THEOREM ShutdownInOrder == Spec => ShutdownOrdered
<1>1. OrderInv /\ LeaseInv /\ LeaseInv' /\ [Next]_vars => OrderInv'
  BY NextRest, NextStop, NextAsked, NextProduced DEF OrderInv, LeaseInv, LeaseTypes
<1>2. OrderInv => DrainedIsIdle /\ ClosedAfterCalls
  BY DEF OrderInv, StopInv, DrainedIsIdle, ClosedAfterCalls, Calm, ExecutorIdle
<1>3. OrderInv /\ LeaseInv /\ [Next]_vars =>
        [\A k \in Calls, c \in Conns :
           job[k][c] = "none" /\ job'[k][c] # "none" /\ ~accepting => ServiceOf(k) \in begun[c]]_vars
  BY StartInOrder DEF StartsInOrder, InOrder, Starts
<1> QED
  BY <1>1, <1>2, <1>3, InitOrder, LeaseInvariant, PTL
  DEF Spec, ShutdownOrdered, NoNewRequestInShutdown
================================================================================
