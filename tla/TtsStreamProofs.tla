---------------------------- MODULE TtsStreamProofs ----------------------------
(***************************************************************************)
(* Proofs about TtsStream, for every limit on the text, on the empty       *)
(* events, on the parts of a clause and on the events of a client; about   *)
(* TokenSplit, for every tokenizer, limit and text; and about              *)
(* ClauseDetector, for every text and chunk over the classes of            *)
(* characters and every minimum of a clause.                               *)
(***************************************************************************)
EXTENDS TtsStream, TokenSplit, ClauseDetector, FiniteSums, FiniteSetTheorems, SequenceTheorems, TLAPS

--------------------------------------------------------------------------------
(* Counting events. *)

\* An event more leaves what was counted before it and adds one to its own count.
LEMMA SeenAppend ==
  ASSUME NEW s \in Seq(Events), NEW x \in Events, NEW e
  PROVE  /\ \A n \in 1..Len(s) : Seen(Append(s, x), e, n) = Seen(s, e, n)
         /\ Seen(s, e, Len(s)) \in Nat
         /\ x = e => Seen(Append(s, x), e, Len(s) + 1) = Seen(s, e, Len(s)) + 1
         /\ x # e => Seen(Append(s, x), e, Len(s) + 1) = Seen(s, e, Len(s))
<1> DEFINE t == Append(s, x)
           m == Len(s)
           old == {i \in 1..m : s[i] = e}
           new == {i \in 1..(m + 1) : t[i] = e}
<1>1. m \in Nat /\ t[m + 1] = x /\ \A i \in 1..m : t[i] = s[i]
  OBVIOUS
<1> HIDE DEF t, m
<1>2. ASSUME NEW n \in 1..m
      PROVE  Seen(t, e, n) = Seen(s, e, n)
  <2>1. \A i \in 1..n : i \in 1..m
    BY <1>1
  <2>2. {i \in 1..n : t[i] = e} = {i \in 1..n : s[i] = e}
    BY <1>1, <2>1
  <2> QED BY <2>2 DEF Seen
<1>3. IsFiniteSet(old) /\ Cardinality(old) \in Nat
  <2>1. IsFiniteSet(1..m)
    BY <1>1, FS_Interval
  <2>2. IsFiniteSet(old)
    BY <2>1, FS_Subset
  <2> QED BY <2>2, FS_CardinalityType
<1>4. m + 1 \notin old /\ \A i : i \in 1..(m + 1) <=> i \in 1..m \/ i = m + 1
  BY <1>1
<1>5. CASE x = e
  <2>1. new = old \cup {m + 1}
    BY <1>1, <1>4, <1>5
  <2>2. Cardinality(old \cup {m + 1}) = Cardinality(old) + 1
    <3> HIDE DEF old
    <3> QED BY <1>3, <1>4, FS_AddElement
  <2>3. Cardinality(new) = Cardinality(old) + 1
    BY <2>1, <2>2
  <2> QED BY <1>2, <1>3, <1>5, <2>3 DEF Seen, t, m
<1>6. CASE x # e
  <2>1. new = old
    BY <1>1, <1>4, <1>6
  <2> QED BY <1>2, <1>3, <1>6, <2>1 DEF Seen, t, m
<1> QED BY <1>5, <1>6

\* What the client was told, in numbers: starts, stops and ends of streams.
Told(s, interrupted, starts, stops, ends) ==
  /\ s \in Seq(Events) /\ WellFormed(s, interrupted)
  /\ Seen(s, "AudioStart", Len(s)) = starts
  /\ Seen(s, "AudioStop", Len(s)) = stops
  /\ Seen(s, "SynthesizeStopped", Len(s)) = ends
  /\ starts \in Nat /\ stops \in Nat /\ ends \in Nat

\* One event more, in its place.
LEMMA ToldMore ==
  ASSUME NEW s, NEW l \in BOOLEAN, NEW a, NEW b, NEW c, Told(s, l, a, b, c), NEW x \in Events,
         NEW a1, NEW b1, NEW c1,
         a1 = (IF x = "AudioStart" THEN a + 1 ELSE a),
         b1 = (IF x = "AudioStop" THEN b + 1 ELSE b),
         c1 = (IF x = "SynthesizeStopped" THEN c + 1 ELSE c),
         a1 = b1 \/ a1 = b1 + 1,
         x \in {"AudioChunk", "Silence"} => a1 = b1 + 1,
         x = "SynthesizeStopped" => a1 = b1 \/ l
  PROVE  Told(Append(s, x), l, a1, b1, c1)
<1> DEFINE t == Append(s, x)
           m == Len(s)
<1>1. s \in Seq(Events) /\ a \in Nat /\ b \in Nat /\ c \in Nat
      /\ Seen(s, "AudioStart", m) = a /\ Seen(s, "AudioStop", m) = b
      /\ Seen(s, "SynthesizeStopped", m) = c
  BY DEF Told
<1>2. m \in Nat /\ t \in Seq(Events) /\ Len(t) = m + 1 /\ t[m + 1] = x /\ \A i \in 1..m : t[i] = s[i]
  BY <1>1
<1>3. Seen(t, "AudioStart", m + 1) = a1
  BY <1>1, SeenAppend
<1>4. Seen(t, "AudioStop", m + 1) = b1
  BY <1>1, SeenAppend
<1>5. Seen(t, "SynthesizeStopped", m + 1) = c1
  BY <1>1, SeenAppend
<1>6. \A n \in 1..m : Seen(t, "AudioStart", n) = Seen(s, "AudioStart", n)
                      /\ Seen(t, "AudioStop", n) = Seen(s, "AudioStop", n)
  BY <1>1, SeenAppend
<1>7. a1 \in Nat /\ b1 \in Nat /\ c1 \in Nat
  BY <1>1
<1> HIDE DEF t, m
<1>8. ASSUME NEW n \in 1..Len(t)
      PROVE  /\ Seen(t, "AudioStart", n) - Seen(t, "AudioStop", n) \in {0, 1}
             /\ t[n] \in {"AudioChunk", "Silence"} =>
                  Seen(t, "AudioStart", n) = Seen(t, "AudioStop", n) + 1
             /\ t[n] = "SynthesizeStopped" => Seen(t, "AudioStart", n) = Seen(t, "AudioStop", n) \/ l
  <2>1. CASE n \in 1..m
    <3>1. WellFormed(s, l) /\ m = Len(s)
      BY DEF Told, m
    <3> QED BY <1>2, <1>6, <2>1, <3>1 DEF WellFormed
  <2>2. CASE n = m + 1
    <3>1. a1 - b1 \in {0, 1}
      BY <1>7
    <3> QED BY <1>2, <1>3, <1>4, <2>2, <3>1
  <2> QED BY <1>2, <2>1, <2>2
<1>9. WellFormed(t, l)
  BY <1>8 DEF WellFormed
<1> QED BY <1>2, <1>3, <1>4, <1>5, <1>7, <1>9 DEF Told, t

\* Sequences written out are appended event by event.
LEMMA Written ==
  ASSUME NEW s \in Seq(Events), NEW e \in Events, NEW f \in Events, NEW g \in Events
  PROVE  /\ s \o <<>> = s
         /\ s \o <<e>> = Append(s, e)
         /\ s \o <<e, f>> = Append(Append(s, e), f)
         /\ s \o <<e, f, g>> = Append(Append(Append(s, e), f), g)
<1>1. s \o <<>> = s
  OBVIOUS
<1>2. s \o <<e>> = Append(s, e)
  OBVIOUS
<1>3. s \o <<e, f>> = Append(Append(s, e), f)
  OBVIOUS
<1>4. s \o <<e, f, g>> = Append(Append(Append(s, e), f), g)
  OBVIOUS
<1> QED BY <1>1, <1>2, <1>3, <1>4

\* A timeout excuses what follows, never what came before.
LEMMA ToldLost ==
  ASSUME NEW s, NEW l, NEW a, NEW b, NEW c, Told(s, l, a, b, c)
  PROVE  Told(s, TRUE, a, b, c)
BY DEF Told, WellFormed

\* The end of a stream after audio that is over.
LEMMA ToldStopped ==
  ASSUME NEW s, NEW l \in BOOLEAN, NEW a, NEW b, NEW c, Told(s, l, a, b, c), a = b \/ (l /\ a = b + 1)
  PROVE  /\ Told(s \o <<"SynthesizeStopped">>, l, a, b, c + 1)
         /\ Told(Append(s, "SynthesizeStopped"), l, a, b, c + 1)
<1>1. s \in Seq(Events) /\ "SynthesizeStopped" \in Events
  BY DEF Told, Events
<1>2. s \o <<"SynthesizeStopped">> = Append(s, "SynthesizeStopped")
  BY <1>1, Written
<1>3. Told(Append(s, "SynthesizeStopped"), l, a, b, c + 1)
  BY <1>1, ToldMore
<1> QED BY <1>2, <1>3

\* A failure that opens an audio if none is open, and closes it.
LEMMA ToldFailure ==
  ASSUME NEW s, NEW l \in BOOLEAN, NEW a, NEW b, NEW c, Told(s, l, a, b, c), NEW started \in BOOLEAN,
         a = b + (IF started THEN 1 ELSE 0)
  PROVE  Told(s \o Failure(started), l, IF started THEN a ELSE a + 1, IF started THEN a ELSE a + 1, c)
<1>1. s \in Seq(Events) /\ a \in Nat /\ b \in Nat /\ c \in Nat
  BY DEF Told
<1>2. "Error" \in Events /\ "AudioStart" \in Events /\ "AudioStop" \in Events
  BY DEF Events
<1> DEFINE t == Append(s, "Error")
<1>3. Told(t, l, a, b, c)
  BY <1>1, <1>2, ToldMore
<1>4. CASE started
  <2>1. s \o Failure(started) = Append(t, "AudioStop")
    BY <1>1, <1>2, <1>4, Written DEF Failure
  <2> HIDE DEF t
  <2>2. Told(Append(t, "AudioStop"), l, a, b + 1, c)
    BY <1>1, <1>2, <1>3, <1>4, ToldMore
  <2>3. b + 1 = a
    BY <1>4
  <2> QED BY <1>4, <2>1, <2>2, <2>3
<1>5. CASE ~started
  <2>1. s \o Failure(started) = Append(Append(t, "AudioStart"), "AudioStop")
    BY <1>1, <1>2, <1>5, Written DEF Failure
  <2> HIDE DEF t
  <2>2. Told(Append(t, "AudioStart"), l, a + 1, b, c)
    BY <1>1, <1>2, <1>3, <1>5, ToldMore
  <2>3. a + 1 = b + 1 /\ b + 1 \in Nat
    BY <1>1, <1>5
  <2>4. Told(Append(Append(t, "AudioStart"), "AudioStop"), l, a + 1, b + 1, c)
    BY <1>1, <1>2, <2>2, <2>3, ToldMore
  <2> QED BY <1>5, <2>1, <2>3, <2>4
<1> QED BY <1>4, <1>5

\* The start of an audio, if it is due.
LEMMA ToldStart ==
  ASSUME NEW s, NEW l \in BOOLEAN, NEW a, NEW b, NEW c, Told(s, l, a, b, c), NEW due \in BOOLEAN,
         a = b + (IF due THEN 0 ELSE 1)
  PROVE  /\ Told(s \o (IF due THEN <<"AudioStart">> ELSE <<>>), l, b + 1, b, c)
         /\ due => Told(s \o <<"AudioStart", "AudioChunk">>, l, b + 1, b, c)
<1>1. s \in Seq(Events) /\ a \in Nat /\ b \in Nat /\ c \in Nat
  BY DEF Told
<1>2. "AudioStart" \in Events /\ "AudioChunk" \in Events
  BY DEF Events
<1>3. CASE due
  <2> DEFINE t == Append(s, "AudioStart")
  <2>1. s \o <<"AudioStart">> = t /\ s \o <<"AudioStart", "AudioChunk">> = Append(t, "AudioChunk")
    BY <1>1, <1>2, Written
  <2>2. a + 1 = b + 1
    BY <1>1, <1>3
  <2>3. Told(t, l, b + 1, b, c)
    BY <1>1, <1>2, <2>2, ToldMore
  <2> HIDE DEF t
  <2>4. Told(Append(t, "AudioChunk"), l, b + 1, b, c)
    BY <1>1, <1>2, <2>3, ToldMore
  <2> QED BY <1>3, <2>1, <2>3, <2>4
<1>4. CASE ~due
  <2>1. s \o <<>> = s /\ a = b + 1
    BY <1>1, <1>2, <1>4, Written
  <2> QED BY <1>4, <2>1
<1> QED BY <1>3, <1>4

\* The sound of a part, and the silence or the stop after it.
LEMMA ToldSound ==
  ASSUME NEW s, NEW l \in BOOLEAN, NEW a, NEW b, NEW c, Told(s, l, a, b, c), NEW ends \in BOOLEAN, a = b + 1
  PROVE  Told(s \o <<"AudioChunk", IF ends THEN "AudioStop" ELSE "Silence">>, l, a,
              IF ends THEN a ELSE b, c)
<1>1. s \in Seq(Events) /\ a \in Nat /\ b \in Nat /\ c \in Nat
  BY DEF Told
<1> DEFINE x == IF ends THEN "AudioStop" ELSE "Silence"
           t == Append(s, "AudioChunk")
<1>2. "AudioChunk" \in Events /\ x \in Events
  BY DEF Events
<1>3. s \o <<"AudioChunk", x>> = Append(t, x)
  BY <1>1, <1>2, Written
<1>4. Told(t, l, a, b, c)
  BY <1>1, <1>2, ToldMore
<1> HIDE DEF t
<1>5. CASE ends
  <2>1. Told(Append(t, "AudioStop"), l, a, b + 1, c)
    BY <1>1, <1>2, <1>4, <1>5, ToldMore
  <2> QED BY <1>3, <1>5, <2>1
<1>6. CASE ~ends
  <2>1. Told(Append(t, "Silence"), l, a, b, c)
    BY <1>1, <1>2, <1>4, <1>6, ToldMore
  <2> QED BY <1>3, <1>6, <2>1
<1> QED BY <1>5, <1>6

--------------------------------------------------------------------------------
(* The parts of a request. *)

\* The parts of new clauses are in order, and the first of them begins one.
LEMMA SegmentedOrders ==
  ASSUME NEW n \in Nat \ {0}, NEW final \in BOOLEAN, Segmented(n, final), MaxParts \in Nat \ {0},
         final <=> request' \in {"once", "stop"}, request' = "once" => n = 1
  PROVE  WorkInv' /\ work' # <<>> /\ Head(work').first
<1>0. PICK length \in n..(n * MaxParts) : \E ends \in SUBSET (1..length) :
        /\ length \in ends /\ Cardinality(ends) = n
        /\ \A i \in 1..length : \E e \in ends : e \in i..(i + MaxParts - 1)
        /\ work' = [i \in 1..length |-> [first |-> i = 1 \/ i - 1 \in ends, last |-> i \in ends,
                                         stop |-> final /\ i = length]]
  BY DEF Segmented
<1>1. PICK ends \in SUBSET (1..length) :
        /\ length \in ends /\ Cardinality(ends) = n
        /\ work' = [i \in 1..length |-> [first |-> i = 1 \/ i - 1 \in ends, last |-> i \in ends,
                                         stop |-> final /\ i = length]]
  BY <1>0
<1> DEFINE w == work'
<1>2. length \in Nat \ {0}
  <2>1. n * MaxParts \in Nat
    OBVIOUS
  <2> QED BY <2>1
<1>3. /\ w \in Seq(Piece) /\ Len(w) = length
      /\ \A i \in 1..length : /\ w[i].first = (i = 1 \/ i - 1 \in ends)
                              /\ w[i].last = (i \in ends)
                              /\ w[i].stop = (final /\ i = length)
  <2>1. ASSUME NEW i \in 1..length
        PROVE  [first |-> i = 1 \/ i - 1 \in ends, last |-> i \in ends, stop |-> final /\ i = length] \in Piece
    BY DEF Piece
  <2>2. w \in [1..length -> Piece]
    BY <1>1, <2>1
  <2>3. w \in Seq(Piece) /\ Len(w) = length
    BY <1>2, <2>2
  <2> QED BY <1>1, <2>3
<1>4. n = 1 => \A e \in ends : e = length
  <2>0. IsFiniteSet(1..length)
    BY <1>2, FS_Interval
  <2>1. IsFiniteSet(ends)
    BY <2>0, FS_Subset
  <2>2. n = 1 => \E x : ends = {x}
    BY <1>1, <2>1, FS_Singleton
  <2> QED BY <1>1, <2>2
<1> HIDE DEF w
<1>5. ASSUME NEW i \in 1..length
      PROVE  /\ w[i].stop <=> (i = length /\ request' \in {"once", "stop"})
             /\ i = length => w[i].last
             /\ i < length /\ ~w[i].last => ~w[i + 1].first
             /\ i < length /\ request' = "once" => ~w[i].last
  <2>1. w[i].stop = (final /\ i = length) /\ w[i].last = (i \in ends)
    BY <1>3
  <2>2. i < length => i + 1 \in 1..length /\ i + 1 # 1 /\ i + 1 - 1 = i
    BY <1>2
  <2>3. i < length => w[i + 1].first = (i \in ends)
    BY <1>3, <2>2
  <2>4. i < length /\ request' = "once" => i \notin ends
    BY <1>2, <1>4
  <2> QED BY <1>1, <2>1, <2>3, <2>4
<1>6. WorkInv'
  BY <1>3, <1>5 DEF WorkInv, w
<1>7. work' # <<>> /\ Head(work').first
  <2>0. 1 \in 1..length
    BY <1>2
  <2>1. w[1].first
    BY <1>3, <2>0
  <2>2. w # <<>> /\ Head(w) = w[1]
    BY <1>2, <1>3
  <2> QED BY <2>1, <2>2 DEF w
<1> QED BY <1>6, <1>7

\* What is left after a part is in order; a clause that goes on does not begin.
LEMMA TailOrders ==
  ASSUME WorkInv, Len(work) > 1, work' = Tail(work), request' = request
  PROVE  /\ WorkInv' /\ work' # <<>> /\ ~Head(work).stop
         /\ ~Head(work).last => ~Head(work').first
         /\ request = "once" => ~Head(work).last
<1> DEFINE w == work'
           m == Len(work)
<1>1. work \in Seq(Piece) /\ m \in Nat /\ m > 1 /\ w = Tail(work)
  BY DEF WorkInv
<1>2. /\ w \in Seq(Piece) /\ Len(w) = m - 1 /\ \A i \in 1..(m - 1) : w[i] = work[i + 1]
      /\ Head(work) = work[1]
  BY <1>1
<1>3. w # <<>> /\ Head(w) = w[1]
  <2>1. Len(w) > 0
    BY <1>1, <1>2
  <2>2. w # <<>>
    BY <2>1
  <2> HIDE DEF w
  <2>3. Head(w) = w[1]
    BY <1>2, <2>2
  <2> QED BY <2>2, <2>3
<1>4. \A i \in 1..m :
        /\ work[i].stop <=> (i = m /\ request \in {"once", "stop"})
        /\ i = m => work[i].last
        /\ i < m /\ ~work[i].last => ~work[i + 1].first
        /\ i < m /\ request = "once" => ~work[i].last
  BY DEF WorkInv
<1> HIDE DEF w, m
<1>5. ASSUME NEW i \in 1..(m - 1)
      PROVE  /\ w[i].stop <=> (i = m - 1 /\ request \in {"once", "stop"})
             /\ i = m - 1 => w[i].last
             /\ i < m - 1 /\ ~w[i].last => ~w[i + 1].first
             /\ i < m - 1 /\ request = "once" => ~w[i].last
  <2>1. i + 1 \in 1..m /\ (i + 1 = m <=> i = m - 1) /\ (i + 1 < m <=> i < m - 1)
    BY <1>1
  <2>2. i < m - 1 => i + 1 \in 1..(m - 1)
    BY <1>1
  <2>3. w[i] = work[i + 1] /\ (i < m - 1 => w[i + 1] = work[(i + 1) + 1])
    BY <1>2, <2>2
  <2> QED BY <1>4, <2>1, <2>3
<1>6. WorkInv'
  BY <1>2, <1>5 DEF WorkInv, w
<1>7. 1 \in 1..m /\ 1 < m /\ 1 \in 1..(m - 1)
  BY <1>1
<1>8. w[1] = work[1 + 1]
  BY <1>2, <1>7
<1> QED BY <1>2, <1>3, <1>4, <1>6, <1>7, <1>8 DEF w

\* The last part of a request stops its audio if the request does.
LEMMA LastOrders ==
  ASSUME WorkInv, work # <<>>
  PROVE  /\ Len(work) \in Nat /\ Head(work) \in Piece
         /\ Len(work) > 1 \/ (Head(work).stop <=> request \in {"once", "stop"})
<1>1. work \in Seq(Piece) /\ Len(work) \in Nat /\ Len(work) > 0 /\ Head(work) = work[1] /\ 1 \in 1..Len(work)
  BY DEF WorkInv
<1>2. Head(work) \in Piece
  BY <1>1
<1>3. work[1].stop <=> (1 = Len(work) /\ request \in {"once", "stop"})
  BY <1>1 DEF WorkInv
<1>0. Len(work) \in Nat /\ Len(work) > 0
  BY <1>1
<1>4. Len(work) > 1 \/ 1 = Len(work)
  <2> DEFINE m == Len(work)
  <2>1. m \in Nat /\ m > 0
    BY <1>0
  <2> HIDE DEF m
  <2>2. m > 1 \/ 1 = m
    BY <2>1
  <2> QED BY <2>2 DEF m
<1>5. Len(work) > 1 \/ (work[1].stop <=> request \in {"once", "stop"})
  BY <1>3, <1>4
<1> QED BY <1>1, <1>2, <1>5

--------------------------------------------------------------------------------
(* The invariant, in numbers. *)

\* Everything in the type invariant but the work.
Typed ==
  /\ open \in BOOLEAN /\ streaming \in BOOLEAN /\ audible \in BOOLEAN /\ served \in BOOLEAN
  /\ expired \in BOOLEAN /\ held \in BOOLEAN /\ lost \in BOOLEAN
  /\ chars \in 0..MaxTextChars /\ spoken \in 0..MaxTextChars /\ blanks \in 0..MaxEmptyEvents
  /\ request \in {"none", "once", "chunk", "stop"}
  /\ lifecycles \in 0..MaxEvents /\ events \in 0..MaxEvents

LEMMA TypesAre == StreamTypeOK <=> Typed /\ (work # <<>> => request # "none")
BY DEF StreamTypeOK, Typed

\* The same one step later.
LEMMA TypesNext == StreamTypeOK' <=> Typed' /\ (work' # <<>> => request' # "none")
BY DEF StreamTypeOK, Typed

\* The invariant of a state, of the numbers it is about.
Numbers(a, b, c) ==
  /\ Told(sent, lost, a, b, c)
  /\ ~lost => a = b + (IF Sounding THEN 1 ELSE 0)
  /\ ~lost => lifecycles = c + (IF streaming THEN 1 ELSE 0)
  /\ ~lost /\ lifecycles > 0 => lifecycles = a + (IF streaming /\ ~Begun THEN 1 ELSE 0)
  /\ open /\ lifecycles = 0 /\ (request = "none" \/ (work # <<>> /\ ~Begun)) => a = 0
  /\ a <= (IF lifecycles = 0 THEN 1 ELSE lifecycles)

LEMMA NumbersAre ==
  ASSUME AnswerInv
  PROVE  \E a, b, c : Numbers(a, b, c)
<1> DEFINE a == Count("AudioStart")
           b == Count("AudioStop")
           c == Count("SynthesizeStopped")
<1>1. sent \in Seq(Events) /\ "Error" \in Events
  BY DEF AnswerInv, Events
<1>2. a \in Nat /\ b \in Nat /\ c \in Nat
  BY <1>1, SeenAppend DEF Count
<1>3. Told(sent, lost, a, b, c)
  BY <1>1, <1>2 DEF AnswerInv, Told, AudioWellFormed, Count
<1>4. Numbers(a, b, c)
  BY <1>3 DEF AnswerInv, CountInv, SpokenOnce, Numbers
<1> QED BY <1>4

LEMMA NumbersMake ==
  ASSUME StreamTypeOK, WorkInv, PhaseInv, NEW a, NEW b, NEW c, Numbers(a, b, c)
  PROVE  AnswerInv
<1>1. Told(sent, lost, a, b, c)
  BY DEF Numbers
<1>2. sent \in Seq(Events) /\ AudioWellFormed
      /\ Count("AudioStart") = a /\ Count("AudioStop") = b /\ Count("SynthesizeStopped") = c
  BY <1>1 DEF Told, AudioWellFormed, Count
<1>3. CountInv /\ SpokenOnce
  BY <1>2 DEF Numbers, CountInv, SpokenOnce
<1> QED BY <1>2, <1>3 DEF AnswerInv

\* One step later: what has to be shown of an action.
LEMMA NumbersNext ==
  ASSUME StreamTypeOK', WorkInv', PhaseInv', NEW a, NEW b, NEW c,
         Told(sent', lost', a, b, c),
         ~lost' => a = b + (IF Sounding' THEN 1 ELSE 0),
         ~lost' => lifecycles' = c + (IF streaming' THEN 1 ELSE 0),
         ~lost' /\ lifecycles' > 0 => lifecycles' = a + (IF streaming' /\ ~Begun' THEN 1 ELSE 0),
         open' /\ lifecycles' = 0 /\ (request' = "none" \/ (work' # <<>> /\ ~Begun')) => a = 0,
         a <= (IF lifecycles' = 0 THEN 1 ELSE lifecycles')
  PROVE  AnswerInv'
<1>1. sent' \in Seq(Events) /\ AudioWellFormed'
      /\ Count("AudioStart")' = a /\ Count("AudioStop")' = b /\ Count("SynthesizeStopped")' = c
  BY DEF Told, AudioWellFormed, Count
<1>3. CountInv' /\ SpokenOnce'
  BY <1>1 DEF CountInv, SpokenOnce
<1> QED BY <1>1, <1>3 DEF AnswerInv

\* No work left: nothing to be in order.
LEMMA NoWork ==
  /\ work = <<>> => WorkInv
  /\ work' = <<>> => WorkInv'
<1>1. ASSUME work = <<>> PROVE WorkInv
  BY <1>1 DEF WorkInv
<1>2. ASSUME work' = <<>> PROVE WorkInv'
  BY <1>2 DEF WorkInv
<1> QED BY <1>1, <1>2

\* Before the client's next event.
LEMMA Idle ==
  ASSUME AnswerInv, Receives
  PROVE  /\ Typed /\ open /\ ~lost /\ request = "none" /\ work = <<>>
         /\ events < MaxEvents /\ events' = events + 1 /\ lifecycles <= events
         /\ audible => streaming
         /\ streaming => lifecycles > 0
         /\ ~served /\ ~streaming => lifecycles = 0
         /\ \E a, b, c :
              /\ Told(sent, FALSE, a, b, c)
              /\ a = b + (IF audible THEN 1 ELSE 0)
              /\ lifecycles = c + (IF streaming THEN 1 ELSE 0)
              /\ lifecycles = a + (IF streaming /\ ~audible THEN 1 ELSE 0)
<1>1. Typed /\ open /\ ~lost /\ request = "none" /\ work = <<>>
      /\ events < MaxEvents /\ events' = events + 1 /\ lifecycles <= events
  BY TypesAre DEF AnswerInv, PhaseInv, Receives
<1>2. (audible => streaming) /\ (streaming => lifecycles > 0) /\ (~served /\ ~streaming => lifecycles = 0)
  BY <1>1 DEF AnswerInv, PhaseInv
<1>3. (Begun <=> audible) /\ (Sounding <=> audible)
  BY <1>1 DEF Begun, Sounding
<1>4. PICK a, b, c : Numbers(a, b, c)
  BY NumbersAre
<1>5. Told(sent, FALSE, a, b, c)
  BY <1>1, <1>4 DEF Numbers, Typed
<1>6. /\ a = b + (IF audible THEN 1 ELSE 0)
      /\ lifecycles = c + (IF streaming THEN 1 ELSE 0)
      /\ lifecycles > 0 => lifecycles = a + (IF streaming /\ ~audible THEN 1 ELSE 0)
      /\ lifecycles = 0 => a = 0
  BY <1>1, <1>3, <1>4 DEF Numbers
<1>7. lifecycles \in Nat
  BY <1>1 DEF Typed
<1>8. lifecycles = a + (IF streaming /\ ~audible THEN 1 ELSE 0)
  <2>1. CASE lifecycles > 0
    BY <1>6, <2>1
  <2>2. CASE lifecycles = 0
    <3>1. ~streaming /\ a = 0
      BY <1>2, <1>6, <1>7, <2>2
    <3> QED BY <2>2, <3>1
  <2> QED BY <1>7, <2>1, <2>2
<1> QED BY <1>1, <1>2, <1>5, <1>6, <1>8

--------------------------------------------------------------------------------
(* Failures of streams. *)

\* A stream that fails is closed, audio and all, whatever was sent of it.
LEMMA FailStreamAnswers ==
  ASSUME StreamAssumption, AnswerInv, Receives, FailStream, UNCHANGED <<workVars, lost>>,
         lifecycles' = IF streaming THEN lifecycles ELSE lifecycles + 1
  PROVE  AnswerInv'
<1>1. /\ Typed /\ open /\ ~lost /\ request = "none" /\ work = <<>>
      /\ events < MaxEvents /\ events' = events + 1 /\ lifecycles <= events
      /\ audible => streaming
  BY Idle
<1>2. PICK a, b, c :
        /\ Told(sent, FALSE, a, b, c)
        /\ a = b + (IF audible THEN 1 ELSE 0)
        /\ lifecycles = c + (IF streaming THEN 1 ELSE 0)
        /\ lifecycles = a + (IF streaming /\ ~audible THEN 1 ELSE 0)
  BY Idle
<1>3. /\ sent' = sent \o Failure(audible) \o <<"SynthesizeStopped">>
      /\ ~streaming' /\ ~audible' /\ ~expired' /\ ~held' /\ streaming' \in BOOLEAN /\ audible' \in BOOLEAN
      /\ expired' \in BOOLEAN /\ held' \in BOOLEAN
      /\ chars' = 0 /\ spoken' = 0 /\ blanks' = 0
      /\ served' = TRUE /\ open' = FALSE /\ lost' = lost
      /\ request' = "none" /\ work' = <<>>
  BY <1>1 DEF FailStream, ResetStream, workVars
<1>4. a \in Nat /\ b \in Nat /\ c \in Nat /\ lifecycles \in Nat /\ events \in Nat
  BY <1>1, <1>2 DEF Told, Typed
<1> DEFINE d == IF audible THEN a ELSE a + 1
<1>5. Told(sent', lost', d, d, c + 1)
  <2>1. audible \in BOOLEAN /\ lost' = FALSE
    BY <1>1, <1>3 DEF Typed
  <2>2. Told(sent \o Failure(audible), FALSE, d, d, c)
    BY <1>2, <2>1, ToldFailure
  <2> HIDE DEF d
  <2>3. Told(sent \o Failure(audible) \o <<"SynthesizeStopped">>, FALSE, d, d, c + 1)
    BY <2>2, ToldStopped
  <2> QED BY <1>3, <2>1, <2>3
<1>6. lifecycles' = d /\ lifecycles' = c + 1
  BY <1>1, <1>2, <1>4
<1>7. lifecycles' \in 0..MaxEvents /\ events' \in 0..MaxEvents /\ lifecycles' <= events' /\ lifecycles' > 0
  BY <1>1, <1>2, <1>4 DEF StreamAssumption
<1>8. StreamTypeOK'
  <2>1. 0 \in 0..MaxTextChars /\ 0 \in 0..MaxEmptyEvents
    BY DEF StreamAssumption
  <2>2. lost' \in BOOLEAN /\ served' \in BOOLEAN /\ open' \in BOOLEAN
    BY <1>1, <1>3 DEF Typed
  <2>3. Typed'
    BY <1>3, <1>7, <2>1, <2>2 DEF Typed
  <2> QED BY <1>3, <2>3, TypesNext
<1>9. WorkInv'
  BY <1>3, NoWork
<1>10. PhaseInv'
  BY <1>1, <1>3, <1>7 DEF PhaseInv
<1>11. ~Sounding' /\ ~Begun'
  BY <1>3 DEF Sounding, Begun
<1> HIDE DEF d
<1>12. d \in Nat /\ d > 0
  BY <1>6, <1>7
<1> QED BY <1>3, <1>5, <1>6, <1>7, <1>8, <1>9, <1>10, <1>11, <1>12, NumbersNext

--------------------------------------------------------------------------------
(* Steps that send nothing. *)

LEMMA DeadlineAnswers ==
  ASSUME AnswerInv, DeadlinePasses
  PROVE  AnswerInv'
<1>1. /\ expired' = TRUE
      /\ UNCHANGED <<open, streaming, audible, served, chars, spoken, blanks, held, request, work,
                     sent, lost, lifecycles, events>>
  BY DEF DeadlinePasses, workVars
<1>2. StreamTypeOK'
  <2>1. Typed /\ (work # <<>> => request # "none")
    BY TypesAre DEF AnswerInv
  <2>2. Typed'
    BY <1>1, <2>1 DEF Typed
  <2> QED BY <1>1, <2>1, <2>2, TypesNext
<1>3. (Begun' <=> Begun) /\ (Sounding' <=> Sounding)
  BY <1>1 DEF Begun, Sounding
<1>4. WorkInv' /\ PhaseInv'
  BY <1>1 DEF AnswerInv, WorkInv, PhaseInv
<1>5. CountInv' /\ AudioWellFormed' /\ SpokenOnce'
  BY <1>1, <1>3 DEF AnswerInv, CountInv, AudioWellFormed, SpokenOnce, Count
<1> QED BY <1>1, <1>2, <1>4, <1>5 DEF AnswerInv

LEMMA IgnoreAnswers ==
  ASSUME StreamAssumption, AnswerInv, IgnoreSynthesize
  PROVE  AnswerInv'
<1>1. /\ Receives /\ (streaming \/ served)
      /\ UNCHANGED <<open, streaming, audible, served, expired, chars, spoken, blanks, held, request,
                     work, sent, lost, lifecycles>>
  BY DEF IgnoreSynthesize, Redundant, workVars, streamVars
<1>2. /\ Typed /\ request = "none" /\ work = <<>> /\ events < MaxEvents /\ events' = events + 1
      /\ lifecycles <= events
  BY <1>1, Idle
<1>3. events' \in 0..MaxEvents /\ lifecycles <= events'
  BY <1>2 DEF Typed, StreamAssumption
<1>4. StreamTypeOK'
  <2>1. Typed'
    BY <1>1, <1>2, <1>3 DEF Typed
  <2> QED BY <1>1, <1>2, <2>1, TypesNext
<1>5. (Begun' <=> Begun) /\ (Sounding' <=> Sounding)
  BY <1>1 DEF Begun, Sounding
<1>6. WorkInv' /\ PhaseInv'
  BY <1>1, <1>3 DEF AnswerInv, WorkInv, PhaseInv
<1>7. CountInv' /\ AudioWellFormed' /\ SpokenOnce'
  BY <1>1, <1>5 DEF AnswerInv, CountInv, AudioWellFormed, SpokenOnce, Count
<1> QED BY <1>1, <1>4, <1>6, <1>7 DEF AnswerInv

\* A request of one clause: nothing was spoken before.
LEMMA OnceAnswers ==
  ASSUME StreamAssumption, AnswerInv, HandleSynthesize
  PROVE  AnswerInv'
<1>1. /\ Receives /\ ~streaming /\ ~served /\ request' = "once" /\ Segmented(1, TRUE)
      /\ UNCHANGED <<open, streaming, audible, served, expired, chars, spoken, blanks, held, sent, lost,
                     lifecycles>>
  BY DEF HandleSynthesize, Redundant, streamVars
<1>2. /\ Typed /\ events < MaxEvents /\ events' = events + 1 /\ lifecycles <= events
      /\ ~audible /\ lifecycles = 0 /\ open /\ ~lost
  BY <1>1, Idle
<1>3. PICK a, b, c :
        /\ Told(sent, FALSE, a, b, c)
        /\ a = b + (IF audible THEN 1 ELSE 0)
        /\ lifecycles = c + (IF streaming THEN 1 ELSE 0)
        /\ lifecycles = a + (IF streaming /\ ~audible THEN 1 ELSE 0)
  BY <1>1, Idle
<1>4. a = 0 /\ b = 0 /\ c = 0
  BY <1>1, <1>2, <1>3 DEF Told
<1>5. WorkInv' /\ work' # <<>> /\ Head(work').first
  <2>1. 1 \in Nat \ {0} /\ TRUE \in BOOLEAN /\ (TRUE <=> request' \in {"once", "stop"})
        /\ MaxParts \in Nat \ {0}
    BY <1>1 DEF StreamAssumption
  <2> QED BY <1>1, <2>1, SegmentedOrders
<1>6. events' \in 0..MaxEvents /\ lifecycles' <= events'
  BY <1>1, <1>2 DEF Typed, StreamAssumption
<1>7. StreamTypeOK'
  <2>1. Typed'
    BY <1>1, <1>2, <1>6 DEF Typed
  <2> QED BY <1>1, <2>1, TypesNext
<1>8. PhaseInv'
  BY <1>1, <1>2, <1>5, <1>6 DEF PhaseInv
<1>9. ~Begun' /\ ~Sounding'
  BY <1>1, <1>2, <1>5 DEF Begun, Sounding
<1>10. Told(sent', lost', 0, 0, 0)
  BY <1>1, <1>2, <1>3, <1>4 DEF Typed
<1>12. /\ ~lost' => 0 = 0 + (IF Sounding' THEN 1 ELSE 0)
       /\ ~lost' => lifecycles' = 0 + (IF streaming' THEN 1 ELSE 0)
       /\ ~lost' /\ lifecycles' > 0 => lifecycles' = 0 + (IF streaming' /\ ~Begun' THEN 1 ELSE 0)
       /\ open' /\ lifecycles' = 0 /\ (request' = "none" \/ (work' # <<>> /\ ~Begun')) => 0 = 0
       /\ 0 <= (IF lifecycles' = 0 THEN 1 ELSE lifecycles')
  BY <1>1, <1>2, <1>9
<1> QED BY <1>5, <1>7, <1>8, <1>10, <1>12, NumbersNext

LEMMA StartAnswers ==
  ASSUME StreamAssumption, AnswerInv, HandleStreamStart
  PROVE  AnswerInv'
<1>1. /\ Receives /\ ~streaming /\ streaming' = TRUE
      /\ audible' = FALSE /\ expired' = FALSE /\ chars' = 0 /\ spoken' = 0 /\ blanks' = 0 /\ held' = FALSE
      /\ lifecycles' = lifecycles + 1
      /\ UNCHANGED <<open, served, request, work, sent, lost>>
  BY DEF HandleStreamStart, workVars
<1>2. /\ Typed /\ events < MaxEvents /\ events' = events + 1 /\ lifecycles <= events
      /\ ~audible /\ open /\ ~lost /\ request = "none" /\ work = <<>>
  BY <1>1, Idle
<1>3. PICK a, b, c :
        /\ Told(sent, FALSE, a, b, c)
        /\ a = b + (IF audible THEN 1 ELSE 0)
        /\ lifecycles = c + (IF streaming THEN 1 ELSE 0)
        /\ lifecycles = a + (IF streaming /\ ~audible THEN 1 ELSE 0)
  BY <1>1, Idle
<1>4. a \in Nat /\ a = b /\ lifecycles = a /\ lifecycles = c
  BY <1>1, <1>2, <1>3 DEF Told
<1>6. events' \in 0..MaxEvents /\ lifecycles' <= events' /\ lifecycles' \in 0..MaxEvents /\ lifecycles' > 0
  BY <1>1, <1>2 DEF Typed, StreamAssumption
<1>7. StreamTypeOK'
  <2>1. 0 \in 0..MaxTextChars /\ 0 \in 0..MaxEmptyEvents
    BY DEF StreamAssumption
  <2>2. Typed'
    BY <1>1, <1>2, <1>6, <2>1 DEF Typed
  <2> QED BY <1>1, <1>2, <2>2, TypesNext
<1>8. PhaseInv'
  BY <1>1, <1>2, <1>6 DEF PhaseInv
<1>9. ~Begun' /\ ~Sounding'
  BY <1>1, <1>2 DEF Begun, Sounding
<1>10. Told(sent', lost', a, b, c)
  BY <1>1, <1>2, <1>3 DEF Typed
<1>11. WorkInv'
  BY <1>1, <1>2, NoWork
<1>12. /\ ~lost' => a = b + (IF Sounding' THEN 1 ELSE 0)
       /\ ~lost' => lifecycles' = c + (IF streaming' THEN 1 ELSE 0)
       /\ ~lost' /\ lifecycles' > 0 => lifecycles' = a + (IF streaming' /\ ~Begun' THEN 1 ELSE 0)
       /\ open' /\ lifecycles' = 0 /\ (request' = "none" \/ (work' # <<>> /\ ~Begun')) => a = 0
       /\ a <= (IF lifecycles' = 0 THEN 1 ELSE lifecycles')
  BY <1>1, <1>2, <1>4, <1>6, <1>9
<1> QED BY <1>7, <1>8, <1>10, <1>11, <1>12, NumbersNext

LEMMA RefuseAnswers ==
  ASSUME StreamAssumption, AnswerInv, RefuseSynthesize
  PROVE  AnswerInv'
<1>1. /\ Receives /\ ~streaming /\ ~served /\ open' = FALSE /\ sent' = sent \o Failure(FALSE)
      /\ UNCHANGED <<streaming, audible, served, expired, chars, spoken, blanks, held, request, work,
                     lost, lifecycles>>
  BY DEF RefuseSynthesize, Redundant, streamVars, workVars
<1>2. /\ Typed /\ events < MaxEvents /\ events' = events + 1 /\ lifecycles <= events
      /\ ~audible /\ lifecycles = 0 /\ ~lost /\ request = "none" /\ work = <<>>
  BY <1>1, Idle
<1>3. PICK a, b, c :
        /\ Told(sent, FALSE, a, b, c)
        /\ a = b + (IF audible THEN 1 ELSE 0)
        /\ lifecycles = c + (IF streaming THEN 1 ELSE 0)
        /\ lifecycles = a + (IF streaming /\ ~audible THEN 1 ELSE 0)
  BY <1>1, Idle
<1>4. a = 0 /\ b = 0 /\ c = 0
  BY <1>1, <1>2, <1>3 DEF Told
<1>6. events' \in 0..MaxEvents /\ lifecycles' <= events'
  BY <1>1, <1>2 DEF Typed, StreamAssumption
<1>7. StreamTypeOK'
  <2>1. Typed'
    BY <1>1, <1>2, <1>6 DEF Typed
  <2> QED BY <1>1, <1>2, <2>1, TypesNext
<1>8. PhaseInv'
  BY <1>1, <1>2, <1>6 DEF PhaseInv
<1>9. ~Begun' /\ ~Sounding'
  BY <1>1, <1>2 DEF Begun, Sounding
<1>10. Told(sent', lost', 1, 1, 0)
  <2>0. Told(sent, FALSE, 0, 0, 0)
    BY <1>3, <1>4
  <2>1. FALSE \in BOOLEAN /\ 0 = 0 + (IF FALSE THEN 1 ELSE 0) /\ 0 + 1 = 1
    OBVIOUS
  <2>3. Told(sent \o Failure(FALSE), FALSE, IF FALSE THEN 0 ELSE 0 + 1, IF FALSE THEN 0 ELSE 0 + 1, 0)
    BY <2>0, <2>1, ToldFailure
  <2>2. lost' = FALSE
    BY <1>1, <1>2 DEF Typed
  <2>4. Told(sent', lost', 0 + 1, 0 + 1, 0)
    BY <1>1, <2>2, <2>3
  <2> QED BY <2>1, <2>4
<1>11. WorkInv'
  BY <1>1, <1>2, NoWork
<1>12. /\ ~lost' => 1 = 1 + (IF Sounding' THEN 1 ELSE 0)
       /\ ~lost' => lifecycles' = 0 + (IF streaming' THEN 1 ELSE 0)
       /\ ~lost' /\ lifecycles' > 0 => lifecycles' = 1 + (IF streaming' /\ ~Begun' THEN 1 ELSE 0)
       /\ open' /\ lifecycles' = 0 /\ (request' = "none" \/ (work' # <<>> /\ ~Begun')) => 1 = 0
       /\ 1 <= (IF lifecycles' = 0 THEN 1 ELSE lifecycles')
  BY <1>1, <1>2, <1>9
<1> QED BY <1>7, <1>8, <1>10, <1>11, <1>12, NumbersNext

--------------------------------------------------------------------------------
(* Chunks and the end of a stream. *)

LEMMA ChunkAnswers ==
  ASSUME StreamAssumption, AnswerInv, NEW n \in 0..2, NEW size \in n..(2 * n), NEW blank \in BOOLEAN,
         HandleStreamChunk(n, size, blank)
  PROVE  AnswerInv'
<1>1. /\ Receives /\ streaming /\ lost' = lost /\ lifecycles' = lifecycles
  BY DEF HandleStreamChunk
<1>2. /\ Typed /\ open /\ ~lost /\ request = "none" /\ work = <<>>
      /\ events < MaxEvents /\ events' = events + 1 /\ lifecycles <= events
      /\ lifecycles > 0
  BY <1>1, Idle
<1>3. PICK length \in (IF blank THEN 0..1 ELSE {1}) :
        IF \/ blank /\ blanks = MaxEmptyEvents
           \/ chars + length > MaxTextChars
           \/ ~FitsNormalized(size)
        THEN FailStream /\ UNCHANGED workVars
        ELSE /\ chars' = chars + length
             /\ spoken' = spoken + size
             /\ blanks' = (IF blank THEN blanks + 1 ELSE 0)
             /\ held' \in (CASE n > 0 -> BOOLEAN [] blank -> {held} [] OTHER -> {TRUE})
             /\ IF n = 0 THEN UNCHANGED workVars
                ELSE /\ request' = "chunk"
                     /\ Segmented(n, FALSE)
             /\ UNCHANGED <<open, streaming, audible, served, expired, sent>>
  BY DEF HandleStreamChunk
<1>4. CASE FailStream /\ UNCHANGED workVars
  <2>1. UNCHANGED <<workVars, lost>> /\ lifecycles' = IF streaming THEN lifecycles ELSE lifecycles + 1
    BY <1>1, <1>4
  <2> QED BY <1>1, <1>4, <2>1, FailStreamAnswers
<1>5. CASE /\ ~(blank /\ blanks = MaxEmptyEvents) /\ ~(chars + length > MaxTextChars) /\ FitsNormalized(size)
           /\ chars' = chars + length /\ spoken' = spoken + size
           /\ blanks' = (IF blank THEN blanks + 1 ELSE 0)
           /\ held' \in (CASE n > 0 -> BOOLEAN [] blank -> {held} [] OTHER -> {TRUE})
           /\ IF n = 0 THEN UNCHANGED workVars ELSE request' = "chunk" /\ Segmented(n, FALSE)
           /\ UNCHANGED <<open, streaming, audible, served, expired, sent>>
  <2>1. PICK a, b, c :
          /\ Told(sent, FALSE, a, b, c)
          /\ a = b + (IF audible THEN 1 ELSE 0)
          /\ lifecycles = c + (IF streaming THEN 1 ELSE 0)
          /\ lifecycles = a + (IF streaming /\ ~audible THEN 1 ELSE 0)
    BY <1>1, Idle
  <2>2. Told(sent', lost', a, b, c) /\ a \in Nat
    BY <1>1, <1>2, <1>5, <2>1 DEF Typed, Told
  <2>3. events' \in 0..MaxEvents /\ lifecycles' <= events'
    BY <1>1, <1>2 DEF Typed, StreamAssumption
  <2>4. /\ chars' \in 0..MaxTextChars /\ spoken' \in 0..MaxTextChars /\ blanks' \in 0..MaxEmptyEvents
    <3>1. size \in Nat /\ length \in Nat
      OBVIOUS
    <3>0. /\ MaxTextChars \in Nat /\ MaxEmptyEvents \in Nat
          /\ chars \in 0..MaxTextChars /\ spoken \in 0..MaxTextChars /\ blanks \in 0..MaxEmptyEvents
      BY <1>2 DEF Typed, StreamAssumption
    <3>2. chars' \in 0..MaxTextChars
      <4>1. chars' = chars + length /\ ~(chars + length > MaxTextChars)
        BY <1>5
      <4> QED BY <4>1, <3>0, <3>1
    <3>3. spoken' \in 0..MaxTextChars
      <4>1. spoken' = spoken + size /\ spoken + size <= MaxTextChars
        BY <1>5 DEF FitsNormalized
      <4> QED BY <4>1, <3>0, <3>1
    <3>4. blanks' \in 0..MaxEmptyEvents
      <4>1. ~(blank /\ blanks = MaxEmptyEvents) /\ blanks' = (IF blank THEN blanks + 1 ELSE 0)
        BY <1>5
      <4> QED BY <4>1, <3>0
    <3> QED BY <3>2, <3>3, <3>4
  <2>5. held' \in BOOLEAN
    <3>1. held \in BOOLEAN
      BY <1>2 DEF Typed
    <3> QED BY <1>5, <3>1
  <2>6. CASE n = 0
    <3>1. request' = "none" /\ work' = <<>>
      BY <1>2, <1>5, <2>6 DEF workVars
    <3>2. WorkInv'
      BY <3>1, NoWork
    <3>3. Typed'
      BY <1>1, <1>2, <1>5, <2>3, <2>4, <2>5, <3>1 DEF Typed
    <3>4. StreamTypeOK'
      BY <3>1, <3>3, TypesNext
    <3>5. PhaseInv'
      BY <1>1, <1>2, <1>5, <2>3, <3>1 DEF PhaseInv
    <3>6. (Begun' <=> audible) /\ (Sounding' <=> audible)
      BY <1>5, <3>1 DEF Begun, Sounding
    <3>7. /\ ~lost' => a = b + (IF Sounding' THEN 1 ELSE 0)
          /\ ~lost' => lifecycles' = c + (IF streaming' THEN 1 ELSE 0)
          /\ ~lost' /\ lifecycles' > 0 => lifecycles' = a + (IF streaming' /\ ~Begun' THEN 1 ELSE 0)
          /\ open' /\ lifecycles' = 0 /\ (request' = "none" \/ (work' # <<>> /\ ~Begun')) => a = 0
          /\ a <= (IF lifecycles' = 0 THEN 1 ELSE lifecycles')
      BY <1>1, <1>2, <1>5, <2>1, <2>2, <3>6
    <3> QED BY <2>2, <3>2, <3>4, <3>5, <3>7, NumbersNext
  <2>7. CASE n # 0
    <3>1. request' = "chunk" /\ Segmented(n, FALSE)
      BY <1>5, <2>7
    <3>2. WorkInv' /\ work' # <<>> /\ Head(work').first
      <4>1. n \in Nat \ {0} /\ FALSE \in BOOLEAN /\ (FALSE <=> request' \in {"once", "stop"})
            /\ MaxParts \in Nat \ {0} /\ (request' = "once" => n = 1)
        BY <2>7, <3>1 DEF StreamAssumption
      <4> QED BY <3>1, <4>1, SegmentedOrders
    <3>3. Typed'
      BY <1>1, <1>2, <1>5, <2>3, <2>4, <2>5, <3>1 DEF Typed
    <3>4. StreamTypeOK'
      BY <3>1, <3>3, TypesNext
    <3>5. PhaseInv'
      BY <1>1, <1>2, <1>5, <2>3, <3>1, <3>2 DEF PhaseInv
    <3>6. (Begun' <=> audible) /\ (Sounding' <=> audible)
      BY <1>5, <3>1, <3>2 DEF Begun, Sounding
    <3>7. /\ ~lost' => a = b + (IF Sounding' THEN 1 ELSE 0)
          /\ ~lost' => lifecycles' = c + (IF streaming' THEN 1 ELSE 0)
          /\ ~lost' /\ lifecycles' > 0 => lifecycles' = a + (IF streaming' /\ ~Begun' THEN 1 ELSE 0)
          /\ open' /\ lifecycles' = 0 /\ (request' = "none" \/ (work' # <<>> /\ ~Begun')) => a = 0
          /\ a <= (IF lifecycles' = 0 THEN 1 ELSE lifecycles')
      BY <1>1, <1>2, <1>5, <2>1, <2>2, <3>6
    <3> QED BY <2>2, <3>2, <3>4, <3>5, <3>7, NumbersNext
  <2> QED BY <2>6, <2>7
<1> QED BY <1>3, <1>4, <1>5

LEMMA StopAnswers ==
  ASSUME StreamAssumption, AnswerInv, NEW n \in 1..2, NEW size \in n..(2 * n), HandleStreamStop(n, size)
  PROVE  AnswerInv'
<1>1. /\ Receives /\ streaming /\ lost' = lost /\ lifecycles' = lifecycles
  BY DEF HandleStreamStop
<1>2. /\ Typed /\ open /\ ~lost /\ request = "none" /\ work = <<>>
      /\ events < MaxEvents /\ events' = events + 1 /\ lifecycles <= events
      /\ lifecycles > 0
  BY <1>1, Idle
<1>3. PICK a, b, c :
        /\ Told(sent, FALSE, a, b, c)
        /\ a = b + (IF audible THEN 1 ELSE 0)
        /\ lifecycles = c + (IF streaming THEN 1 ELSE 0)
        /\ lifecycles = a + (IF streaming /\ ~audible THEN 1 ELSE 0)
  BY <1>1, Idle
<1>4. events' \in 0..MaxEvents /\ lifecycles' <= events'
  BY <1>1, <1>2 DEF Typed, StreamAssumption
<1>5. CASE FailStream /\ UNCHANGED workVars
  <2>1. UNCHANGED <<workVars, lost>> /\ lifecycles' = IF streaming THEN lifecycles ELSE lifecycles + 1
    BY <1>1, <1>5
  <2> QED BY <1>1, <1>5, <2>1, FailStreamAnswers
<1>6. CASE /\ FitsNormalized(size)
           /\ served' = TRUE /\ held' = FALSE /\ spoken' = spoken + size /\ request' = "stop"
           /\ Segmented(n, TRUE)
           /\ UNCHANGED <<open, streaming, audible, expired, chars, blanks, sent>>
  <2>1. Told(sent', lost', a, b, c) /\ a \in Nat
    BY <1>1, <1>2, <1>3, <1>6 DEF Typed, Told
  <2>2. spoken' \in 0..MaxTextChars
    BY <1>2, <1>6 DEF Typed, FitsNormalized, StreamAssumption
  <2>3. WorkInv' /\ work' # <<>> /\ Head(work').first
    <3>1. n \in Nat \ {0} /\ TRUE \in BOOLEAN /\ (TRUE <=> request' \in {"once", "stop"})
          /\ MaxParts \in Nat \ {0} /\ (request' = "once" => n = 1)
      BY <1>6 DEF StreamAssumption
    <3> QED BY <1>6, <3>1, SegmentedOrders
  <2>4. Typed'
    BY <1>1, <1>2, <1>4, <1>6, <2>2 DEF Typed
  <2>5. StreamTypeOK'
    BY <1>6, <2>4, TypesNext
  <2>6. PhaseInv'
    BY <1>1, <1>2, <1>4, <1>6, <2>3 DEF PhaseInv
  <2>7. (Begun' <=> audible) /\ (Sounding' <=> audible)
    BY <1>6, <2>3 DEF Begun, Sounding
  <2>8. /\ ~lost' => a = b + (IF Sounding' THEN 1 ELSE 0)
        /\ ~lost' => lifecycles' = c + (IF streaming' THEN 1 ELSE 0)
        /\ ~lost' /\ lifecycles' > 0 => lifecycles' = a + (IF streaming' /\ ~Begun' THEN 1 ELSE 0)
        /\ open' /\ lifecycles' = 0 /\ (request' = "none" \/ (work' # <<>> /\ ~Begun')) => a = 0
        /\ a <= (IF lifecycles' = 0 THEN 1 ELSE lifecycles')
    BY <1>1, <1>2, <1>3, <1>6, <2>1, <2>7
  <2> QED BY <2>1, <2>3, <2>5, <2>6, <2>8, NumbersNext
<1>7. CASE /\ audible /\ UNCHANGED workVars
           /\ sent' = sent \o <<"AudioStop", "SynthesizeStopped">>
           /\ served' = TRUE /\ ResetStream /\ UNCHANGED open
  <2>1. /\ streaming' = FALSE /\ audible' = FALSE /\ expired' = FALSE
        /\ chars' = 0 /\ spoken' = 0 /\ blanks' = 0 /\ held' = FALSE
        /\ request' = "none" /\ work' = <<>>
    BY <1>2, <1>7 DEF ResetStream, workVars
  <2>2. a \in Nat /\ b \in Nat /\ c \in Nat /\ b + 1 = a
    BY <1>3, <1>7 DEF Told
  <2>3. Told(sent', lost', a, a, c + 1)
    <3>1. sent \in Seq(Events) /\ "AudioStop" \in Events /\ "SynthesizeStopped" \in Events
      BY <1>3 DEF Told, Events
    <3>2. sent' = Append(Append(sent, "AudioStop"), "SynthesizeStopped")
      BY <1>7, <3>1, Written
    <3>3. Told(Append(sent, "AudioStop"), FALSE, a, a, c)
      BY <1>3, <2>2, <3>1, ToldMore
    <3>4. Told(Append(Append(sent, "AudioStop"), "SynthesizeStopped"), FALSE, a, a, c + 1)
      BY <3>3, ToldStopped
    <3>5. lost' = FALSE
      BY <1>1, <1>2 DEF Typed
    <3> QED BY <3>2, <3>4, <3>5
  <2>4. StreamTypeOK'
    <3>1. 0 \in 0..MaxTextChars /\ 0 \in 0..MaxEmptyEvents
      BY DEF StreamAssumption
    <3>2. Typed'
      BY <1>1, <1>2, <1>4, <1>7, <2>1, <3>1 DEF Typed
    <3> QED BY <2>1, <3>2, TypesNext
  <2>5. WorkInv'
    BY <2>1, NoWork
  <2>6. PhaseInv'
    BY <1>1, <1>2, <1>4, <1>7, <2>1 DEF PhaseInv
  <2>7. ~Begun' /\ ~Sounding'
    BY <2>1 DEF Begun, Sounding
  <2>8. /\ ~lost' => a = a + (IF Sounding' THEN 1 ELSE 0)
        /\ ~lost' => lifecycles' = c + 1 + (IF streaming' THEN 1 ELSE 0)
        /\ ~lost' /\ lifecycles' > 0 => lifecycles' = a + (IF streaming' /\ ~Begun' THEN 1 ELSE 0)
        /\ open' /\ lifecycles' = 0 /\ (request' = "none" \/ (work' # <<>> /\ ~Begun')) => a = 0
        /\ a <= (IF lifecycles' = 0 THEN 1 ELSE lifecycles')
    BY <1>1, <1>2, <1>3, <1>7, <2>1, <2>2, <2>7
  <2> QED BY <2>3, <2>4, <2>5, <2>6, <2>8, NumbersNext
<1> QED BY <1>5, <1>6, <1>7 DEF HandleStreamStop

--------------------------------------------------------------------------------
(* The parts, spoken or not. *)

\* While parts are left.
LEMMA Busy ==
  ASSUME AnswerInv, work # <<>>
  PROVE  /\ Typed /\ open /\ ~lost /\ WorkInv /\ lifecycles <= events
         /\ request \in {"once", "chunk", "stop"}
         /\ request = "once" => ~streaming /\ ~served /\ lifecycles = 0
         /\ request # "once" => streaming /\ lifecycles > 0
         /\ audible => streaming
         /\ SendStart <=> ~Begun
         /\ Sounding <=> Begun
         /\ \E a, b, c :
              /\ Told(sent, FALSE, a, b, c)
              /\ a = b + (IF Begun THEN 1 ELSE 0)
              /\ lifecycles = c + (IF streaming THEN 1 ELSE 0)
              /\ lifecycles > 0 => lifecycles = a + (IF ~Begun THEN 1 ELSE 0)
              /\ lifecycles = 0 => a <= 1 /\ (~Begun => a = 0)
<1>1. Typed /\ WorkInv /\ PhaseInv /\ request # "none"
  BY TypesAre DEF AnswerInv
<1>2. open /\ ~lost /\ request \in {"once", "chunk", "stop"}
  BY <1>1 DEF PhaseInv, Typed
<1>3. /\ lifecycles <= events /\ (audible => streaming)
      /\ request = "once" => ~streaming /\ ~served /\ lifecycles = 0
      /\ request # "once" => streaming /\ lifecycles > 0
  BY <1>1, <1>2 DEF PhaseInv
<1>4. (SendStart <=> ~Begun) /\ (Sounding <=> Begun)
  BY DEF SendStart, Begun, Sounding
<1>5. PICK a, b, c : Numbers(a, b, c)
  BY NumbersAre
<1>6. Told(sent, FALSE, a, b, c)
  BY <1>1, <1>2, <1>5 DEF Numbers, Typed
<1>7. lifecycles \in Nat
  BY <1>1 DEF Typed
<1>8. /\ a = b + (IF Begun THEN 1 ELSE 0)
      /\ lifecycles = c + (IF streaming THEN 1 ELSE 0)
      /\ lifecycles > 0 => lifecycles = a + (IF streaming /\ ~Begun THEN 1 ELSE 0)
      /\ lifecycles = 0 => a <= 1 /\ (~Begun => a = 0)
  BY <1>2, <1>4, <1>5 DEF Numbers
<1>9. lifecycles > 0 => lifecycles = a + (IF ~Begun THEN 1 ELSE 0)
  <2>1. lifecycles > 0 => streaming
    BY <1>3, <1>7
  <2> QED BY <1>8, <2>1
<1> QED BY <1>1, <1>2, <1>3, <1>4, <1>6, <1>8, <1>9

LEMMA SpokenAnswers ==
  ASSUME StreamAssumption, AnswerInv, PartSpoken
  PROVE  AnswerInv'
<1> DEFINE p == Head(work)
<1>1. /\ work # <<>>
      /\ sent' = sent \o (IF SendStart THEN <<"AudioStart">> ELSE <<>>)
                      \o <<"AudioChunk", IF p.stop THEN "AudioStop" ELSE "Silence">>
      /\ IF Len(work) > 1
         THEN /\ work' = Tail(work)
              /\ audible' = (audible \/ (p.last /\ streaming))
              /\ UNCHANGED request
         ELSE /\ work' = <<>>
              /\ audible' = (audible \/ streaming)
              /\ request' = IF request = "chunk" THEN "none" ELSE request
      /\ UNCHANGED <<open, streaming, served, expired, chars, spoken, blanks, held, lost, lifecycles,
                     events>>
  BY DEF PartSpoken
<1>2. /\ Typed /\ open /\ ~lost /\ WorkInv /\ lifecycles <= events
      /\ request \in {"once", "chunk", "stop"}
      /\ request = "once" => ~streaming /\ ~served /\ lifecycles = 0
      /\ request # "once" => streaming /\ lifecycles > 0
      /\ audible => streaming
      /\ SendStart <=> ~Begun
      /\ Sounding <=> Begun
  BY <1>1, Busy
<1>3. PICK a, b, c :
        /\ Told(sent, FALSE, a, b, c)
        /\ a = b + (IF Begun THEN 1 ELSE 0)
        /\ lifecycles = c + (IF streaming THEN 1 ELSE 0)
        /\ lifecycles > 0 => lifecycles = a + (IF ~Begun THEN 1 ELSE 0)
        /\ lifecycles = 0 => a <= 1 /\ (~Begun => a = 0)
  BY <1>1, Busy
<1>4. a \in Nat /\ b \in Nat /\ c \in Nat /\ lifecycles \in Nat
  BY <1>2, <1>3 DEF Told, Typed
<1>5. /\ p \in Piece /\ p.stop \in BOOLEAN /\ p.last \in BOOLEAN
      /\ Len(work) > 1 \/ (p.stop <=> request \in {"once", "stop"})
  <2>1. p \in Piece /\ (Len(work) > 1 \/ (p.stop <=> request \in {"once", "stop"}))
    BY <1>1, <1>2, LastOrders
  <2> HIDE DEF p
  <2> QED BY <2>1 DEF Piece
\* The audio is begun, whether by this part or by an earlier one.
<1>6. Told(sent', lost', b + 1, IF p.stop THEN b + 1 ELSE b, c)
  <2>1. SendStart \in BOOLEAN /\ a = b + (IF SendStart THEN 0 ELSE 1)
    <3>1. SendStart \in BOOLEAN
      BY DEF SendStart
    <3> QED BY <1>2, <1>3, <3>1
  <2> DEFINE s == sent \o (IF SendStart THEN <<"AudioStart">> ELSE <<>>)
  <2>2. Told(s, FALSE, b + 1, b, c)
    BY <1>3, <2>1, ToldStart
  <2>3. sent' = s \o <<"AudioChunk", IF p.stop THEN "AudioStop" ELSE "Silence">>
    BY <1>1
  <2> HIDE DEF s, p
  <2>4. Told(s \o <<"AudioChunk", IF p.stop THEN "AudioStop" ELSE "Silence">>, FALSE, b + 1,
             IF p.stop THEN b + 1 ELSE b, c)
    BY <1>5, <2>2, ToldSound
  <2>5. lost' = FALSE
    BY <1>1, <1>2 DEF Typed
  <2> QED BY <2>3, <2>4, <2>5
<1>7. lifecycles > 0 => lifecycles = b + 1
  BY <1>2, <1>3, <1>4
<1>8. lifecycles = 0 => b + 1 <= 1
  BY <1>2, <1>3, <1>4
<1>9. CASE Len(work) > 1
  <2>1. work' = Tail(work) /\ audible' = (audible \/ (p.last /\ streaming)) /\ request' = request
    BY <1>1, <1>9
  <2>2. /\ WorkInv' /\ work' # <<>> /\ ~p.stop
        /\ ~p.last => ~Head(work').first
        /\ request = "once" => ~p.last
    BY <1>2, <1>9, <2>1, TailOrders
  <2> HIDE DEF p
  <2>3. Typed'
    <3>1. audible' \in BOOLEAN
      BY <1>2, <2>1 DEF Typed
    <3> QED BY <1>1, <1>2, <2>1, <3>1 DEF Typed
  <2>4. StreamTypeOK'
    BY <1>2, <2>1, <2>3, TypesNext
  <2>5. audible' => streaming
    BY <1>2, <2>1
  <2>6. PhaseInv'
    BY <1>1, <1>2, <2>1, <2>2, <2>5 DEF AnswerInv, PhaseInv
  <2>7. Begun' /\ Sounding'
    <3>1. CASE request = "once"
      BY <2>2, <3>1 DEF Begun, Sounding
    <3>2. CASE request # "once" /\ p.last
      BY <1>2, <2>1, <2>2, <3>2 DEF Begun, Sounding
    <3>3. CASE ~p.last
      BY <2>2, <3>3 DEF Begun, Sounding
    <3> QED BY <1>5, <3>1, <3>2, <3>3
  <2>8. Told(sent', lost', b + 1, b, c)
    BY <1>6, <2>2
  <2>9. /\ ~lost' => b + 1 = b + (IF Sounding' THEN 1 ELSE 0)
        /\ ~lost' => lifecycles' = c + (IF streaming' THEN 1 ELSE 0)
        /\ ~lost' /\ lifecycles' > 0 => lifecycles' = b + 1 + (IF streaming' /\ ~Begun' THEN 1 ELSE 0)
        /\ open' /\ lifecycles' = 0 /\ (request' = "none" \/ (work' # <<>> /\ ~Begun')) => b + 1 = 0
        /\ b + 1 <= (IF lifecycles' = 0 THEN 1 ELSE lifecycles')
    <3>1. request' # "none"
      BY <1>2, <2>1
    <3> QED BY <1>1, <1>3, <1>4, <1>7, <1>8, <2>7, <3>1
  <2> QED BY <2>2, <2>4, <2>6, <2>8, <2>9, NumbersNext
<1>10. CASE ~(Len(work) > 1)
  <2>1. /\ work' = <<>> /\ audible' = (audible \/ streaming)
        /\ request' = IF request = "chunk" THEN "none" ELSE request
    BY <1>1, <1>10
  <2>2. p.stop <=> request \in {"once", "stop"}
    BY <1>5, <1>10
  <2> HIDE DEF p
  <2>3. audible' = streaming /\ audible' \in BOOLEAN
    BY <1>2, <2>1 DEF Typed
  <2>4. StreamTypeOK'
    <3>1. Typed'
      BY <1>1, <1>2, <2>1, <2>3 DEF Typed
    <3> QED BY <2>1, <3>1, TypesNext
  <2>5. WorkInv'
    BY <2>1, NoWork
  <2>6. PhaseInv'
    BY <1>1, <1>2, <2>1, <2>3 DEF AnswerInv, PhaseInv
  <2>7. (Begun' <=> streaming) /\ (Sounding' <=> request = "chunk")
    BY <1>2, <2>1, <2>3 DEF Begun, Sounding
  <2> DEFINE d == IF request = "chunk" THEN b ELSE b + 1
  <2>8. Told(sent', lost', b + 1, d, c)
    <3>1. d = IF p.stop THEN b + 1 ELSE b
      BY <1>2, <1>5, <2>2
    <3> QED BY <1>6, <3>1
  <2>9. /\ ~lost' => b + 1 = d + (IF Sounding' THEN 1 ELSE 0)
        /\ ~lost' => lifecycles' = c + (IF streaming' THEN 1 ELSE 0)
        /\ ~lost' /\ lifecycles' > 0 => lifecycles' = b + 1 + (IF streaming' /\ ~Begun' THEN 1 ELSE 0)
        /\ open' /\ lifecycles' = 0 /\ (request' = "none" \/ (work' # <<>> /\ ~Begun')) => b + 1 = 0
        /\ b + 1 <= (IF lifecycles' = 0 THEN 1 ELSE lifecycles')
    <3>1. lifecycles = 0 => request' # "none"
      BY <1>2, <1>4, <2>1
    <3> QED BY <1>1, <1>3, <1>4, <1>7, <1>8, <2>1, <2>7, <3>1
  <2> HIDE DEF d
  <2> QED BY <2>4, <2>5, <2>6, <2>8, <2>9, NumbersNext
<1> QED BY <1>9, <1>10

\* A request that is given up after what was told of it.
LEMMA GivenUpAnswers ==
  ASSUME StreamAssumption, AnswerInv, work # <<>>, NEW told, GiveUp(told), lost' \in BOOLEAN,
         NEW a, NEW b, NEW c, Told(told, lost', a, b, c), a = b \/ (lost' /\ a = b + 1),
         lifecycles = c + (IF streaming THEN 1 ELSE 0),
         lifecycles > 0 => lifecycles = a,
         lifecycles = 0 => a <= 1
  PROVE  AnswerInv'
<1>1. /\ Typed /\ lifecycles <= events
      /\ request = "once" => ~streaming /\ ~served /\ lifecycles = 0
      /\ request # "once" => streaming /\ lifecycles > 0
      /\ audible => streaming
  BY Busy
<1>2. /\ sent' = told \o (IF request = "once" THEN <<>> ELSE <<"SynthesizeStopped">>)
      /\ open' = FALSE /\ request' = "none" /\ work' = <<>>
      /\ IF request = "once" THEN UNCHANGED streamVars ELSE ResetStream /\ UNCHANGED served
      /\ lifecycles' = lifecycles /\ events' = events
  BY DEF GiveUp
<1>3. /\ streaming' = FALSE /\ audible' = FALSE /\ expired' \in BOOLEAN /\ held' \in BOOLEAN
      /\ chars' \in 0..MaxTextChars /\ spoken' \in 0..MaxTextChars /\ blanks' \in 0..MaxEmptyEvents
      /\ served' = served
  <2>1. 0 \in 0..MaxTextChars /\ 0 \in 0..MaxEmptyEvents
    BY DEF StreamAssumption
  <2>2. CASE request = "once"
    <3>1. UNCHANGED <<streaming, audible, served, expired, chars, spoken, blanks, held>>
      BY <1>2, <2>2 DEF streamVars
    <3>2. streaming = FALSE /\ audible = FALSE
      BY <1>1, <2>2 DEF Typed
    <3> QED BY <1>1, <3>1, <3>2 DEF Typed
  <2>3. CASE request # "once"
    BY <1>2, <2>1, <2>3 DEF ResetStream
  <2> QED BY <2>2, <2>3
<1>4. a \in Nat /\ b \in Nat /\ c \in Nat /\ lifecycles \in Nat
  BY <1>1 DEF Told, Typed
<1> DEFINE d == IF request = "once" THEN c ELSE c + 1
<1>5. Told(sent', lost', a, b, d)
  <2>1. CASE request = "once"
    <3>1. told \in Seq(Events) /\ "Error" \in Events
      BY DEF Told, Events
    <3>2. sent' = told
      BY <1>2, <2>1, <3>1, Written
    <3> QED BY <2>1, <3>2
  <2>2. CASE request # "once"
    <3>1. Told(told \o <<"SynthesizeStopped">>, lost', a, b, c + 1)
      BY ToldStopped
    <3> QED BY <1>2, <2>2, <3>1
  <2> QED BY <2>1, <2>2
<1>6. lifecycles = d
  BY <1>1, <1>4
<1> HIDE DEF d
<1>7. StreamTypeOK'
  <2>1. Typed'
    BY <1>1, <1>2, <1>3 DEF Typed
  <2> QED BY <1>2, <2>1, TypesNext
<1>8. WorkInv'
  BY <1>2, NoWork
<1>9. PhaseInv'
  BY <1>1, <1>2, <1>3 DEF PhaseInv
<1>10. ~Begun' /\ ~Sounding'
  BY <1>2, <1>3 DEF Begun, Sounding
<1>11. /\ ~lost' => a = b + (IF Sounding' THEN 1 ELSE 0)
       /\ ~lost' => lifecycles' = d + (IF streaming' THEN 1 ELSE 0)
       /\ ~lost' /\ lifecycles' > 0 => lifecycles' = a + (IF streaming' /\ ~Begun' THEN 1 ELSE 0)
       /\ open' /\ lifecycles' = 0 /\ (request' = "none" \/ (work' # <<>> /\ ~Begun')) => a = 0
       /\ a <= (IF lifecycles' = 0 THEN 1 ELSE lifecycles')
  BY <1>2, <1>3, <1>4, <1>6, <1>10
<1> QED BY <1>5, <1>7, <1>8, <1>9, <1>11, NumbersNext

LEMMA FailsAnswers ==
  ASSUME StreamAssumption, AnswerInv, PartFails
  PROVE  AnswerInv'
<1>1. PICK begun \in (IF SendStart THEN BOOLEAN ELSE {TRUE}) :
        GiveUp(sent \o (IF SendStart /\ begun THEN <<"AudioStart", "AudioChunk">> ELSE <<>>)
                    \o Failure(begun))
  BY DEF PartFails
<1>2. work # <<>> /\ lost' = lost
  BY DEF PartFails
<1>3. Typed /\ ~lost /\ (SendStart <=> ~Begun)
  BY <1>2, Busy
<1>4. PICK a, b, c :
        /\ Told(sent, FALSE, a, b, c)
        /\ a = b + (IF Begun THEN 1 ELSE 0)
        /\ lifecycles = c + (IF streaming THEN 1 ELSE 0)
        /\ lifecycles > 0 => lifecycles = a + (IF ~Begun THEN 1 ELSE 0)
        /\ lifecycles = 0 => a <= 1 /\ (~Begun => a = 0)
  BY <1>2, Busy
<1>5. a \in Nat /\ b \in Nat /\ c \in Nat /\ lifecycles \in Nat /\ lost' = FALSE /\ lost' \in BOOLEAN
  BY <1>2, <1>3, <1>4 DEF Told, Typed
<1> DEFINE u == sent \o (IF SendStart /\ begun THEN <<"AudioStart", "AudioChunk">> ELSE <<>>)
<1>6. (lifecycles > 0 => lifecycles = b + 1) /\ (lifecycles = 0 => b + 1 <= 1) /\ b + 1 \in Nat
  BY <1>4, <1>5
<1>7. Told(u \o Failure(begun), FALSE, b + 1, b + 1, c)
  <2>1. begun \in BOOLEAN /\ sent \in Seq(Events) /\ "Error" \in Events
    BY <1>1, <1>4 DEF Told, Events
  <2>2. CASE SendStart /\ begun
    <3>1. a = b + (IF TRUE THEN 0 ELSE 1) /\ TRUE \in BOOLEAN
      BY <1>3, <1>4, <1>5, <2>2
    <3>2. Told(sent \o <<"AudioStart", "AudioChunk">>, FALSE, b + 1, b, c)
      BY <1>4, <3>1, ToldStart
    <3>3. Told(u, FALSE, b + 1, b, c)
      BY <2>2, <3>2
    <3> HIDE DEF u
    <3>4. Told(u \o Failure(TRUE), FALSE, IF TRUE THEN b + 1 ELSE (b + 1) + 1,
               IF TRUE THEN b + 1 ELSE (b + 1) + 1, c)
      BY <3>3, ToldFailure
    <3>5. begun = TRUE
      BY <2>1, <2>2
    <3> QED BY <3>4, <3>5
  <2>3. CASE SendStart /\ ~begun
    <3>1. u = sent /\ a = b /\ begun = FALSE
      BY <1>3, <1>4, <1>5, <2>1, <2>3, Written
    <3>2. Told(u, FALSE, b, b, c)
      BY <1>4, <3>1
    <3> HIDE DEF u
    <3>3. b = b + (IF FALSE THEN 1 ELSE 0)
      BY <1>5
    <3>4. Told(u \o Failure(FALSE), FALSE, IF FALSE THEN b ELSE b + 1, IF FALSE THEN b ELSE b + 1, c)
      BY <3>2, <3>3, ToldFailure
    <3> QED BY <3>1, <3>4
  <2>4. CASE ~SendStart
    <3>1. u = sent /\ a = b + 1 /\ begun = TRUE
      BY <1>1, <1>3, <1>4, <1>5, <2>1, <2>4, Written
    <3>2. Told(u, FALSE, b + 1, b, c)
      BY <1>4, <3>1
    <3> HIDE DEF u
    <3>4. Told(u \o Failure(TRUE), FALSE, IF TRUE THEN b + 1 ELSE (b + 1) + 1,
               IF TRUE THEN b + 1 ELSE (b + 1) + 1, c)
      BY <3>2, ToldFailure
    <3> QED BY <3>1, <3>4
  <2> QED BY <2>2, <2>3, <2>4
<1>8. GiveUp(u \o Failure(begun)) /\ Told(u \o Failure(begun), lost', b + 1, b + 1, c)
  BY <1>1, <1>5, <1>7
<1> HIDE DEF u
<1> QED BY <1>2, <1>4, <1>5, <1>6, <1>8, GivenUpAnswers

LEMMA LostAnswers ==
  ASSUME StreamAssumption, AnswerInv, PartLost
  PROVE  AnswerInv'
<1> DEFINE u == sent \o (IF SendStart THEN <<"AudioStart">> ELSE <<>>)
<1>1. GiveUp(u) /\ work # <<>> /\ lost' = TRUE
  BY DEF PartLost
<1>3. SendStart <=> ~Begun
  BY <1>1, Busy
<1>4. PICK a, b, c :
        /\ Told(sent, FALSE, a, b, c)
        /\ a = b + (IF Begun THEN 1 ELSE 0)
        /\ lifecycles = c + (IF streaming THEN 1 ELSE 0)
        /\ lifecycles > 0 => lifecycles = a + (IF ~Begun THEN 1 ELSE 0)
        /\ lifecycles = 0 => a <= 1 /\ (~Begun => a = 0)
  BY <1>1, Busy
<1>5. a \in Nat /\ b \in Nat /\ lost' \in BOOLEAN
  BY <1>1, <1>4 DEF Told
<1>6. (lifecycles > 0 => lifecycles = b + 1) /\ (lifecycles = 0 => b + 1 <= 1) /\ b + 1 \in Nat
  BY <1>4, <1>5
<1>7. SendStart \in BOOLEAN /\ a = b + (IF SendStart THEN 0 ELSE 1)
  <2>1. SendStart \in BOOLEAN
    BY DEF SendStart
  <2> QED BY <1>3, <1>4, <2>1
<1>8. Told(u, FALSE, b + 1, b, c)
  BY <1>4, <1>7, ToldStart
<1> HIDE DEF u
<1>9. Told(u, lost', b + 1, b, c)
  BY <1>1, <1>8, ToldLost
<1> QED BY <1>1, <1>4, <1>5, <1>6, <1>9, GivenUpAnswers

--------------------------------------------------------------------------------
(* The ends of requests and of connections. *)

LEMMA EndsAnswers ==
  ASSUME StreamAssumption, AnswerInv, RequestEnds
  PROVE  AnswerInv'
<1>1. /\ work = <<>> /\ request \in {"once", "stop"} /\ request' = "none"
      /\ IF request = "once"
         THEN open' = FALSE /\ UNCHANGED <<streamVars, sent>>
         ELSE /\ sent' = Append(sent, "SynthesizeStopped")
              /\ ResetStream
              /\ UNCHANGED <<open, served>>
      /\ UNCHANGED <<work, lost, lifecycles, events>>
  BY DEF RequestEnds
<1>2. Typed /\ PhaseInv
  BY TypesAre DEF AnswerInv
<1>3. open /\ ~lost
  BY <1>1, <1>2 DEF PhaseInv, Typed
<1>4. /\ lifecycles <= events
      /\ request = "once" => ~streaming /\ ~served /\ ~audible /\ lifecycles = 0
      /\ request = "stop" => streaming /\ audible /\ lifecycles > 0
  BY <1>1, <1>2, <1>3 DEF PhaseInv
<1>5. ~Sounding /\ (Begun <=> audible)
  BY <1>1, <1>4 DEF Sounding, Begun
<1>6. PICK a, b, c : Numbers(a, b, c)
  BY NumbersAre
<1>7. lifecycles \in Nat /\ Told(sent, FALSE, a, b, c)
  <2>1. lifecycles \in Nat /\ lost = FALSE
    BY <1>2, <1>3 DEF Typed
  <2>2. Told(sent, lost, a, b, c)
    BY <1>6 DEF Numbers
  <2> QED BY <2>1, <2>2
<1>8. a \in Nat /\ b \in Nat /\ c \in Nat
  BY <1>7 DEF Told
<1>9. /\ a = b /\ a <= (IF lifecycles = 0 THEN 1 ELSE lifecycles)
      /\ request = "once" => lifecycles = c
      /\ request = "stop" => lifecycles = c + 1 /\ lifecycles = a
  BY <1>3, <1>4, <1>5, <1>6, <1>8 DEF Numbers
<1> DEFINE d == IF request = "once" THEN c ELSE c + 1
<1>10. Told(sent', lost', a, b, d)
  <2>1. lost' = FALSE
    BY <1>1, <1>2, <1>3 DEF Typed
  <2>2. CASE request = "once"
    BY <1>1, <1>7, <2>1, <2>2
  <2>3. CASE request # "once"
    <3>1. Told(Append(sent, "SynthesizeStopped"), FALSE, a, b, c + 1)
      BY <1>7, <1>9, ToldStopped
    <3> QED BY <1>1, <2>1, <2>3, <3>1
  <2> QED BY <2>2, <2>3
<1>11. /\ streaming' = FALSE /\ audible' = FALSE /\ expired' \in BOOLEAN /\ held' \in BOOLEAN
       /\ chars' \in 0..MaxTextChars /\ spoken' \in 0..MaxTextChars /\ blanks' \in 0..MaxEmptyEvents
       /\ served' = served /\ open' \in BOOLEAN
  <2>1. 0 \in 0..MaxTextChars /\ 0 \in 0..MaxEmptyEvents
    BY DEF StreamAssumption
  <2>2. CASE request = "once"
    <3>1. UNCHANGED <<streaming, audible, served, expired, chars, spoken, blanks, held>>
      BY <1>1, <2>2 DEF streamVars
    <3>2. streaming = FALSE /\ audible = FALSE /\ open' \in BOOLEAN
      BY <1>1, <1>2, <1>4, <2>2 DEF Typed
    <3> QED BY <1>2, <3>1, <3>2 DEF Typed
  <2>3. CASE request # "once"
    BY <1>1, <1>2, <2>1, <2>3 DEF ResetStream, Typed
  <2> QED BY <2>2, <2>3
<1>12. StreamTypeOK'
  <2>1. Typed'
    BY <1>1, <1>2, <1>11 DEF Typed
  <2> QED BY <1>1, <2>1, TypesNext
<1>13. WorkInv'
  BY <1>1, NoWork
<1>14. open' /\ ~served' => request = "stop" /\ ~served
  BY <1>1, <1>11
<1>15. PhaseInv'
  <2>1. request = "stop" => served
    BY DEF AnswerInv, PhaseInv
  <2> QED BY <1>1, <1>3, <1>4, <1>11, <1>14, <2>1 DEF PhaseInv
<1>16. ~Begun' /\ ~Sounding'
  BY <1>1, <1>11 DEF Begun, Sounding
<1>17. lifecycles = d
  BY <1>1, <1>9
<1> HIDE DEF d
<1>18. open' => lifecycles > 0
  BY <1>1, <1>4
<1>19. /\ ~lost' => a = b + (IF Sounding' THEN 1 ELSE 0)
       /\ ~lost' => lifecycles' = d + (IF streaming' THEN 1 ELSE 0)
       /\ ~lost' /\ lifecycles' > 0 => lifecycles' = a + (IF streaming' /\ ~Begun' THEN 1 ELSE 0)
       /\ open' /\ lifecycles' = 0 /\ (request' = "none" \/ (work' # <<>> /\ ~Begun')) => a = 0
       /\ a <= (IF lifecycles' = 0 THEN 1 ELSE lifecycles')
  <2>1. lifecycles > 0 => lifecycles = a
    BY <1>1, <1>4, <1>9
  <2>2. lifecycles' = lifecycles
    BY <1>1
  <2> QED BY <1>7, <1>8, <1>9, <1>11, <1>16, <1>17, <1>18, <2>1, <2>2
<1> QED BY <1>10, <1>12, <1>13, <1>15, <1>19, NumbersNext

LEMMA ConnectionLostAnswers ==
  ASSUME StreamAssumption, AnswerInv, ConnectionLost
  PROVE  AnswerInv'
<1>1. /\ open' = FALSE /\ lost' = TRUE
      /\ streaming' = FALSE /\ audible' = FALSE /\ expired' = FALSE
      /\ chars' = 0 /\ spoken' = 0 /\ blanks' = 0 /\ held' = FALSE
      /\ served' = FALSE /\ request' = "none" /\ work' = <<>>
      /\ UNCHANGED <<sent, lifecycles, events>>
  BY DEF ConnectionLost, ResetStream
<1>2. Typed /\ PhaseInv
  BY TypesAre DEF AnswerInv
<1>3. PICK a, b, c : Numbers(a, b, c)
  BY NumbersAre
<1>4. Told(sent', lost', a, b, c)
  BY <1>1, <1>3, ToldLost DEF Numbers
<1>5. StreamTypeOK'
  <2>1. 0 \in 0..MaxTextChars /\ 0 \in 0..MaxEmptyEvents
    BY DEF StreamAssumption
  <2>2. Typed'
    BY <1>1, <1>2, <2>1 DEF Typed
  <2> QED BY <1>1, <2>2, TypesNext
<1>6. WorkInv'
  BY <1>1, NoWork
<1>7. PhaseInv'
  BY <1>1, <1>2 DEF PhaseInv
<1>8. a <= (IF lifecycles' = 0 THEN 1 ELSE lifecycles')
  BY <1>1, <1>3 DEF Numbers
<1> QED BY <1>1, <1>4, <1>5, <1>6, <1>7, <1>8, NumbersNext

--------------------------------------------------------------------------------
(* The invariant and the theorems. *)

LEMMA AnswerInit ==
  ASSUME StreamAssumption, StreamInit
  PROVE  AnswerInv
<1>1. /\ open = TRUE /\ streaming = FALSE /\ audible = FALSE /\ served = FALSE /\ expired = FALSE
      /\ chars = 0 /\ spoken = 0 /\ blanks = 0 /\ held = FALSE
      /\ request = "none" /\ work = <<>>
      /\ sent = <<>> /\ lost = FALSE /\ lifecycles = 0 /\ events = 0
  BY DEF StreamInit
<1>2. StreamTypeOK
  <2>1. 0 \in 0..MaxTextChars /\ 0 \in 0..MaxEmptyEvents /\ 0 \in 0..MaxEvents
    BY DEF StreamAssumption
  <2>2. Typed
    BY <1>1, <2>1 DEF Typed
  <2> QED BY <1>1, <2>2, TypesAre
<1>3. sent \in Seq(Events) /\ Len(sent) = 0
  BY <1>1
<1>4. \A e : Seen(sent, e, Len(sent)) = 0
  <2>1. ASSUME NEW e
        PROVE  Seen(sent, e, Len(sent)) = 0
    <3>1. {i \in 1..0 : sent[i] = e} = {}
      OBVIOUS
    <3> QED BY <1>3, <3>1, FS_EmptySet DEF Seen
  <2> QED BY <2>1
<1>5. WellFormed(sent, lost)
  <2>1. \A n \in 1..Len(sent) : FALSE
    BY <1>3
  <2> QED BY <2>1 DEF WellFormed
<1>6. Told(sent, lost, 0, 0, 0)
  BY <1>3, <1>4, <1>5 DEF Told
<1>7. WorkInv /\ PhaseInv
  BY <1>1, NoWork DEF PhaseInv
<1>8. ~Begun /\ ~Sounding
  BY <1>1 DEF Begun, Sounding
<1>9. Numbers(0, 0, 0)
  BY <1>1, <1>6, <1>8 DEF Numbers
<1> QED BY <1>2, <1>7, <1>9, NumbersMake

\* Each event of a client, each part of an answer and each failure keeps the
\* numbers right.
LEMMA AnswerStep ==
  ASSUME StreamAssumption, AnswerInv, [StreamNext]_handlerVars
  PROVE  AnswerInv'
<1>1. ASSUME NEW n \in 0..2, NEW size \in n..(2 * n), NEW blank \in BOOLEAN,
             HandleStreamChunk(n, size, blank)
      PROVE  AnswerInv'
  BY <1>1, ChunkAnswers
<1>2. ASSUME NEW n \in 1..2, NEW size \in n..(2 * n), HandleStreamStop(n, size)
      PROVE  AnswerInv'
  BY <1>2, StopAnswers
<1>3. CASE InvalidStreamEvent
  <2>1. /\ Receives /\ FailStream /\ UNCHANGED <<workVars, lost>>
        /\ lifecycles' = IF streaming THEN lifecycles ELSE lifecycles + 1
    BY <1>3 DEF InvalidStreamEvent
  <2> QED BY <2>1, FailStreamAnswers
<1>4. CASE UNCHANGED handlerVars
  <2>1. UNCHANGED <<open, streaming, audible, served, expired, chars, spoken, blanks, held, request,
                    work, sent, lost, lifecycles, events>>
    BY <1>4 DEF handlerVars, streamVars, workVars
  <2>2. (Begun' <=> Begun) /\ (Sounding' <=> Sounding)
    BY <2>1 DEF Begun, Sounding
  <2>3. StreamTypeOK'
    <3>1. Typed /\ (work # <<>> => request # "none")
      BY TypesAre DEF AnswerInv
    <3>2. Typed'
      BY <2>1, <3>1 DEF Typed
    <3> QED BY <2>1, <3>1, <3>2, TypesNext
  <2>4. WorkInv' /\ PhaseInv'
    BY <2>1 DEF AnswerInv, WorkInv, PhaseInv
  <2>5. CountInv' /\ AudioWellFormed' /\ SpokenOnce'
    BY <2>1, <2>2 DEF AnswerInv, CountInv, AudioWellFormed, SpokenOnce, Count
  <2> QED BY <2>1, <2>3, <2>4, <2>5 DEF AnswerInv
<1> QED BY <1>1, <1>2, <1>3, <1>4, DeadlineAnswers, IgnoreAnswers, RefuseAnswers, OnceAnswers,
           StartAnswers, SpokenAnswers, EndsAnswers, FailsAnswers, LostAnswers, ConnectionLostAnswers
    DEF StreamNext

THEOREM AnswerInvariance == StreamSpec => []AnswerInv
<1>1. StreamInit => AnswerInv
  BY StreamAssumption, AnswerInit
<1>2. AnswerInv /\ [StreamNext]_handlerVars => AnswerInv'
  BY StreamAssumption, AnswerStep
<1> QED BY <1>1, <1>2, PTL DEF StreamSpec

\* Whatever a client sends and whatever fails, each of its streams is answered
\* by one well-formed audio and one synthesize-stopped (_fail_stream,
\* _handle_stream_stop and _synthesize), for every limit on texts and events.
THEOREM StreamsAreAnswered == StreamSpec => []StreamAnswered
<1>1. AnswerInv => StreamAnswered
  <2> SUFFICES ASSUME AnswerInv PROVE StreamAnswered
    OBVIOUS
  <2>1. ASSUME request = "none", ~streaming, ~lost, lifecycles > 0
        PROVE  /\ Count("SynthesizeStopped") = lifecycles
               /\ Count("AudioStart") = lifecycles /\ Count("AudioStop") = lifecycles
    <3>1. work = <<>> /\ ~audible
      BY <2>1 DEF AnswerInv, PhaseInv
    <3>2. ~Begun /\ ~Sounding
      BY <3>1 DEF Begun, Sounding
    <3>3. /\ Count("AudioStart") = Count("AudioStop") + 0
          /\ lifecycles = Count("SynthesizeStopped") + 0
          /\ lifecycles = Count("AudioStart") + 0
      BY <2>1, <3>2 DEF AnswerInv, CountInv
    <3>4. /\ Count("AudioStart") \in Nat /\ Count("AudioStop") \in Nat
          /\ Count("SynthesizeStopped") \in Nat
      <4>1. sent \in Seq(Events) /\ "Error" \in Events
        BY DEF AnswerInv, Events
      <4> QED BY <4>1, SeenAppend DEF Count
    <3> QED BY <3>3, <3>4
  <2>2. LifecycleAnswered
    BY <2>1 DEF LifecycleAnswered
  <2> QED BY <2>2 DEF AnswerInv, StreamAnswered
<1> QED BY <1>1, AnswerInvariance, PTL

\* A one-shot request that repeats the text of a stream is not spoken again
\* (handle_event's check of is_streaming and stream_lifecycle_served).
THEOREM SpokenNotTwice == StreamSpec => []SpokenOnce
<1>1. AnswerInv => SpokenOnce
  BY DEF AnswerInv
<1> QED BY <1>1, AnswerInvariance, PTL

--------------------------------------------------------------------------------
(* TokenSplit: where words and parts lie in a text. *)

\* A text as SplitAssumption has it.
Spaced(t) == /\ t = [i \in 1..Len(t) |-> t[i]] /\ Len(t) \in Nat
             /\ t # <<>> => t[1] # Space /\ t[Len(t)] # Space
             /\ \A i \in 1..Len(t) - 1 : t[i] # Space \/ t[i + 1] # Space

\* A text is a sequence.
LEMMA TextIsSequence ==
  ASSUME NEW t, Spaced(t)
  PROVE  /\ t \in Seq({t[i] : i \in 1..Len(t)} \cup {Space}) /\ DOMAIN t = 1..Len(t) /\ Len(t) \in Nat
         /\ t = <<>> <=> Len(t) = 0
<1> DEFINE S == {t[i] : i \in 1..Len(t)} \cup {Space}
<1>1. t \in [1..Len(t) -> S] /\ Len(t) \in Nat
  BY DEF Spaced
<1>2. t \in Seq(S)
  <2> HIDE DEF S
  <2> QED BY <1>1
<1> HIDE DEF S
<1>3. t = <<>> <=> Len(t) = 0
  BY <1>2
<1> QED BY <1>1, <1>2, <1>3 DEF S

\* A slice of a sequence, and its elements.
LEMMA Slice ==
  ASSUME NEW S, NEW t \in Seq(S), NEW a \in 1..Len(t), NEW b \in a - 1..Len(t)
  PROVE  /\ SubSeq(t, a, b) \in Seq(S) /\ Len(SubSeq(t, a, b)) = b - a + 1
         /\ \A i \in 1..b - a + 1 : SubSeq(t, a, b)[i] = t[a + i - 1]
  OBVIOUS

\* Two slices with the space between them.
LEMMA JoinedSlices ==
  ASSUME NEW S, NEW t \in Seq(S), NEW a \in 1..Len(t), NEW b \in a..Len(t), b + 2 <= Len(t),
         NEW c \in b + 2..Len(t), t[b + 1] = Space
  PROVE  SubSeq(t, a, b) \o <<Space>> \o SubSeq(t, b + 2, c) = SubSeq(t, a, c)
<1>1. b + 1 \in 1..Len(t) /\ b + 1 \in (b + 1) - 1..Len(t)
  OBVIOUS
<1>2. Len(SubSeq(t, b + 1, b + 1)) = 1 /\ SubSeq(t, b + 1, b + 1)[1] = Space
      /\ SubSeq(t, b + 1, b + 1) \in Seq(S)
  <2>1. SubSeq(t, b + 1, b + 1) \in Seq(S) /\ Len(SubSeq(t, b + 1, b + 1)) = (b + 1) - (b + 1) + 1
        /\ \A i \in 1..(b + 1) - (b + 1) + 1 : SubSeq(t, b + 1, b + 1)[i] = t[(b + 1) + i - 1]
    BY <1>1, Slice
  <2>2. (b + 1) - (b + 1) + 1 = 1 /\ (b + 1) + 1 - 1 = b + 1
    OBVIOUS
  <2> QED BY <2>1, <2>2
<1>3. SubSeq(t, b + 1, b + 1) = <<Space>>
  <2> DEFINE u == SubSeq(t, b + 1, b + 1)
  <2>1. u \in Seq(S) /\ Len(u) = 1 /\ u[1] = Space
    BY <1>2
  <2> HIDE DEF u
  <2>2. u = <<Space>>
    BY <2>1
  <2> QED BY <2>2 DEF u
<1>4. SubSeq(t, a, b) \o SubSeq(t, b + 1, b + 1) = SubSeq(t, a, b + 1)
  <2>1. a \in 1..Len(t) + 1 /\ b \in a - 1..Len(t) /\ b + 1 \in b..Len(t)
    OBVIOUS
  <2> QED BY <2>1, ConcatAdjacentSubSeq
<1>5. SubSeq(t, a, b + 1) \o SubSeq(t, (b + 1) + 1, c) = SubSeq(t, a, c)
  <2>1. a \in 1..Len(t) + 1 /\ b + 1 \in a - 1..Len(t) /\ c \in b + 1..Len(t)
    OBVIOUS
  <2> QED BY <2>1, ConcatAdjacentSubSeq
<1>6. (b + 1) + 1 = b + 2
  OBVIOUS
<1> QED BY <1>3, <1>4, <1>5, <1>6

\* The end of a word.
LEMMA WordEnds ==
  ASSUME NEW t, Spaced(t), NEW p \in 1..Len(t), t[p] # Space
  PROVE  /\ WordEnd(t, p) \in p..Len(t)
         /\ WordEnd(t, p) = Len(t) \/ t[WordEnd(t, p) + 1] = Space
         /\ \A q \in p..WordEnd(t, p) : t[q] # Space
<1> DEFINE E == {i \in p..Len(t) : i = Len(t) \/ t[i + 1] = Space}
           e == WordEnd(t, p)
<1>1. Len(t) \in Nat
  BY TextIsSequence
<1>2. E \subseteq Nat /\ Len(t) \in E
  BY <1>1
<1>3. e \in E /\ \A i \in E : e <= i
  <2> HIDE DEF E
  <2>1. E # {}
    BY <1>2
  <2>2. Min(E) \in E /\ \A i \in E : Min(E) <= i
    BY <2>1, <1>2, Lowest
  <2>3. e = Min(E)
    BY DEF WordEnd, E
  <2> QED BY <2>2, <2>3
<1> HIDE DEF e
<1>4. \A q \in p..e : t[q] # Space
  <2> SUFFICES ASSUME NEW q \in p..e, t[q] = Space PROVE FALSE
    OBVIOUS
  <2>0. e \in Int /\ e <= Len(t) /\ q \in Int /\ p <= q /\ q <= e
    BY <1>1, <1>3
  <2>1. q # p
    OBVIOUS
  <2>2. q - 1 \in p..Len(t) /\ (q - 1) + 1 = q
    BY <2>0, <2>1, <1>1
  <2>3. q - 1 \in E
    BY <2>2
  <2>4. e <= q - 1
    BY <2>3, <1>3
  <2> QED BY <2>0, <2>4
<1> QED BY <1>3, <1>4 DEF e

\* The characters of a word have that word around them.
LEMMA WordAround ==
  ASSUME NEW t, Spaced(t), NEW a \in 1..Len(t), t[a] # Space, a = 1 \/ t[a - 1] = Space,
         NEW p \in a..WordEnd(t, a)
  PROVE  WordAt(t, p) = SubSeq(t, a, WordEnd(t, a))
<1> DEFINE e == WordEnd(t, a)
           B == {i \in 1..p : i = 1 \/ t[i - 1] = Space}
           E == {i \in p..Len(t) : i = Len(t) \/ t[i + 1] = Space}
<1>1. Len(t) \in Nat
  BY TextIsSequence
<1>2. e \in a..Len(t) /\ (e = Len(t) \/ t[e + 1] = Space) /\ \A q \in a..e : t[q] # Space
  BY WordEnds
<1> HIDE DEF e
<1>0. p \in a..e
  BY DEF e
<1>3. Max(B) = a
  <2>1. B \subseteq Int /\ a \in B
    BY <1>0, <1>1, <1>2
  <2>2. \A i \in B : i <= a
    <3> SUFFICES ASSUME NEW i \in B, i > a PROVE FALSE
      BY <2>1
    <3>1. i - 1 \in a..e /\ t[i - 1] = Space
      BY <1>0, <1>1, <1>2
    <3> QED BY <3>1, <1>2
  <2> HIDE DEF B
  <2> QED BY <2>1, <2>2, Greatest
<1>4. Min(E) = e
  <2>1. E \subseteq Int /\ e \in E
    BY <1>0, <1>1, <1>2
  <2>2. \A i \in E : e <= i
    <3> SUFFICES ASSUME NEW i \in E, i < e PROVE FALSE
      BY <2>1, <1>1, <1>2
    <3>1. i + 1 \in a..e /\ t[i + 1] = Space
      BY <1>0, <1>1, <1>2
    <3> QED BY <3>1, <1>2
  <2> HIDE DEF E
  <2> QED BY <2>1, <2>2, Smallest
<1> QED BY <1>3, <1>4 DEF WordAt, WordEnd, e
--------------------------------------------------------------------------------
(* The invariant. *)

AheadOf(t, n) == {i \in n + 1..Len(t) : t[i] # Space}
FromOf(t, n)  == Min(AheadOf(t, n))
WordOf(t, n)  == SubSeq(t, FromOf(t, n), WordEnd(t, FromOf(t, n)))
Edge(t, n)    == n = 0 \/ (t[n] # Space /\ (n = Len(t) \/ t[n + 1] = Space))

\* The next word after one.
LEMMA NextWord ==
  ASSUME NEW t, Spaced(t), NEW n \in 0..Len(t), Edge(t, n), AheadOf(t, n) # {}
  PROVE  LET f == FromOf(t, n)
             e == WordEnd(t, f)
         IN  /\ f \in 1..Len(t) /\ e \in f..Len(t) /\ Edge(t, e)
             /\ IF n = 0 THEN f = 1 ELSE f = n + 2 /\ t[n + 1] = Space
             /\ Len(WordOf(t, n)) = e - f + 1
             /\ \A p \in f..e : WordAt(t, p) = WordOf(t, n)
<1> DEFINE f == FromOf(t, n)
           e == WordEnd(t, f)
<1>1. /\ Len(t) \in Nat /\ t \in Seq({t[i] : i \in 1..Len(t)} \cup {Space})
      /\ t # <<>> => t[1] # Space /\ t[Len(t)] # Space
      /\ t = <<>> <=> Len(t) = 0
      /\ \A i \in 1..Len(t) - 1 : t[i] # Space \/ t[i + 1] # Space
  BY TextIsSequence DEF Spaced
<1>2. f \in AheadOf(t, n) /\ \A i \in AheadOf(t, n) : f <= i
  <2>1. AheadOf(t, n) \subseteq Nat
    BY <1>1 DEF AheadOf
  <2> QED BY <2>1, Lowest DEF FromOf
<1>3. f \in n + 1..Len(t) /\ f \in 1..Len(t) /\ t[f] # Space
  BY <1>1, <1>2 DEF AheadOf
<1>4. ASSUME n = 0 PROVE f = 1
  <2>1. 1 \in AheadOf(t, n)
    BY <1>1, <1>3, <1>4 DEF AheadOf
  <2> HIDE DEF f
  <2> QED BY <2>1, <1>2, <1>3, <1>4
<1>5. ASSUME n # 0 PROVE f = n + 2 /\ t[n + 1] = Space
  <2>1. n < Len(t) /\ t[n + 1] = Space
    BY <1>1, <1>3, <1>5 DEF Edge
  <2>2. n + 1 < Len(t)
    BY <1>1, <1>5, <2>1
  <2>3. t[n + 2] # Space
    <3>1. n + 1 \in 1..Len(t) - 1 /\ (n + 1) + 1 = n + 2
      BY <2>2, <1>1
    <3> QED BY <3>1, <2>1, <1>1
  <2>4. n + 2 \in AheadOf(t, n)
    BY <2>2, <2>3, <1>1 DEF AheadOf
  <2>5. f # n + 1
    BY <2>1, <1>3
  <2>6. f = n + 2
    BY <2>4, <2>5, <1>2, <1>3
  <2> QED BY <2>1, <2>6
<1>6. f = 1 \/ t[f - 1] = Space
  <2>1. n + 2 - 1 = n + 1
    OBVIOUS
  <2> QED BY <2>1, <1>4, <1>5
<1> HIDE DEF f
<1>7. /\ e \in f..Len(t) /\ (e = Len(t) \/ t[e + 1] = Space)
      /\ \A q \in f..e : t[q] # Space
  BY <1>3, WordEnds
<1> HIDE DEF e
<1>8. Edge(t, e)
  BY <1>3, <1>7 DEF Edge
<1>9. WordOf(t, n) = SubSeq(t, f, e)
  BY DEF WordOf, f, e
<1>10. Len(SubSeq(t, f, e)) = e - f + 1
  <2>1. f \in 1..Len(t) /\ e \in f - 1..Len(t)
    BY <1>1, <1>3, <1>7
  <2> QED BY <2>1, <1>1, Slice
<1>11. \A p \in f..e : WordAt(t, p) = SubSeq(t, f, e)
  BY <1>3, <1>6, WordAround DEF e
<1> QED BY <1>3, <1>4, <1>5, <1>7, <1>8, <1>9, <1>10, <1>11 DEF f, e

\* After the last word the text ends.
LEMMA NoWordLeft ==
  ASSUME NEW t, Spaced(t), NEW n \in 0..Len(t), AheadOf(t, n) = {}
  PROVE  n = Len(t)
<1>1. Len(t) \in Nat /\ (t # <<>> => t[Len(t)] # Space) /\ (t = <<>> <=> Len(t) = 0)
  BY TextIsSequence DEF Spaced
<1>2. SUFFICES ASSUME n # Len(t) PROVE FALSE
  OBVIOUS
<1>3. Len(t) \in n + 1..Len(t) /\ t[Len(t)] # Space
  BY <1>1, <1>2
<1> QED BY <1>3 DEF AheadOf

\* A part is a slice of the text.
Good(t, p, s) == /\ s \in [from : Nat, to : Nat] /\ 1 <= s.from /\ s.from <= s.to /\ s.to <= Len(t)
                 /\ p = SubSeq(t, s.from, s.to)

\* What begins where follows what ends where: after a space, or inside a word that is too long.
Meets(task, end, first) ==
  IF end = 0 THEN first = 1
  ELSE \/ first = end + 2 /\ task.text[end + 1] = Space
       \/ first = end + 1 /\ ~(Tokens(task.vocabulary, WordAt(task.text, first)) <= task.limit)

Chained(task, ps, ss) ==
  /\ ps = [i \in 1..Len(ps) |-> ps[i]] /\ ss = [i \in 1..Len(ss) |-> ss[i]]
  /\ Len(ps) \in Nat /\ Len(ps) = Len(ss)
  /\ \A i \in 1..Len(ps) : /\ Good(task.text, ps[i], ss[i])
                           /\ Meets(task, IF i = 1 THEN 0 ELSE ss[i - 1].to, ss[i].from)
EndOf(ss) == IF ss = <<>> THEN 0 ELSE ss[Len(ss)].to

Small(task, p)     == Tokens(task.vocabulary, p) <= task.limit \/ Len(p) = 1
AllSmall(task, ps) == \A i \in 1..Len(ps) : Small(task, ps[i])

\* A part more.
LEMMA ChainGrows ==
  ASSUME NEW task, NEW ps, NEW ss, Chained(task, ps, ss), NEW p, NEW s,
         Good(task.text, p, s), Meets(task, EndOf(ss), s.from)
  PROVE  /\ Chained(task, Append(ps, p), Append(ss, s))
         /\ EndOf(Append(ss, s)) = s.to
         /\ Append(ps, p) # <<>>
         /\ AllSmall(task, ps) /\ Small(task, p) => AllSmall(task, Append(ps, p))
<1> DEFINE n == Len(ps)
           P == {ps[i] : i \in 1..n} \cup {p}
           Q == {ss[i] : i \in 1..n} \cup {s}
           pp == Append(ps, p)
           sp == Append(ss, s)
<1>1. n \in Nat /\ Len(ss) = n /\ ps \in [1..n -> P] /\ ss \in [1..n -> Q]
  BY DEF Chained
<1>2. ps \in Seq(P) /\ ss \in Seq(Q) /\ p \in P /\ s \in Q
  <2>1. p \in P /\ s \in Q
    OBVIOUS
  <2> HIDE DEF P, Q, n
  <2> QED BY <2>1, <1>1
<1> HIDE DEF P, Q
<1>3. /\ pp \in Seq(P) /\ pp # <<>> /\ Len(pp) = n + 1 /\ pp[n + 1] = p /\ \A i \in 1..n : pp[i] = ps[i]
  BY <1>2, AppendProperties
<1>4. /\ sp \in Seq(Q) /\ sp # <<>> /\ Len(sp) = n + 1 /\ sp[n + 1] = s /\ \A i \in 1..n : sp[i] = ss[i]
  BY <1>1, <1>2, AppendProperties
<1> HIDE DEF pp, sp, n
<1>5. pp = [i \in 1..Len(pp) |-> pp[i]] /\ sp = [i \in 1..Len(sp) |-> sp[i]]
  BY <1>3, <1>4
<1>6. EndOf(sp) = s.to
  BY <1>4 DEF EndOf
<1>7. EndOf(ss) = IF n = 0 THEN 0 ELSE ss[n].to
  BY <1>1, <1>2 DEF EndOf
<1>8. ASSUME NEW i \in 1..n + 1
      PROVE  /\ Good(task.text, pp[i], sp[i])
             /\ Meets(task, IF i = 1 THEN 0 ELSE sp[i - 1].to, sp[i].from)
  <2>1. CASE i \in 1..n
    <3>1. pp[i] = ps[i] /\ sp[i] = ss[i] /\ (i # 1 => sp[i - 1] = ss[i - 1])
      BY <2>1, <1>1, <1>3, <1>4
    <3>2. Good(task.text, ps[i], ss[i]) /\ Meets(task, IF i = 1 THEN 0 ELSE ss[i - 1].to, ss[i].from)
      BY <2>1 DEF Chained, n
    <3> QED BY <3>1, <3>2
  <2>2. CASE i = n + 1
    <3>1. pp[i] = p /\ sp[i] = s
      BY <2>2, <1>3, <1>4
    <3>2. (IF i = 1 THEN 0 ELSE sp[i - 1].to) = EndOf(ss)
      <4>1. n # 0 => n \in 1..n /\ i - 1 = n /\ i # 1
        BY <2>2, <1>1
      <4>2. n = 0 => i = 1
        BY <2>2
      <4> QED BY <4>1, <4>2, <1>4, <1>7
    <3> QED BY <3>1, <3>2
  <2> QED BY <2>1, <2>2, <1>1
<1>9. Chained(task, pp, sp)
  BY <1>1, <1>3, <1>4, <1>5, <1>8 DEF Chained
<1>10. AllSmall(task, ps) /\ Small(task, p) => AllSmall(task, pp)
  <2> SUFFICES ASSUME AllSmall(task, ps), Small(task, p), NEW i \in 1..n + 1 PROVE Small(task, pp[i])
    BY <1>3 DEF AllSmall
  <2>1. i \in 1..n \/ i = n + 1
    BY <1>1
  <2> QED BY <2>1, <1>3 DEF AllSmall, n
<1> QED BY <1>3, <1>6, <1>9, <1>10 DEF pp, sp

\* No parts are a chain.
LEMMA NoParts ==
  ASSUME NEW task
  PROVE  Chained(task, <<>>, <<>>) /\ EndOf(<<>>) = 0 /\ AllSmall(task, <<>>)
<1>1. Len(<<>>) = 0 /\ <<>> = [i \in 1..0 |-> <<>>[i]]
  OBVIOUS
<1> QED BY <1>1 DEF Chained, EndOf, AllSmall
InWords ==
  IF current = <<>> THEN at = 0 /\ parts = <<>> /\ spans = <<>>
  ELSE /\ Good(split_task.text, current, span) /\ span.to = at
       /\ Meets(split_task, EndOf(spans), span.from)
       /\ ~by_word => Small(split_task, current)

Searching(task, n, ss, ch) ==
  /\ AheadOf(task.text, n) # {}
  /\ ~(Tokens(task.vocabulary, WordOf(task.text, n)) <= task.limit)
  /\ ch \in [start : Nat, low : Int, high : Int, best : Nat]
  /\ ch.start < ch.best /\ ch.best <= Len(WordOf(task.text, n))
  /\ ch.start < ch.low /\ ch.high <= Len(WordOf(task.text, n))
  /\ Small(task, SubSeq(WordOf(task.text, n), ch.start + 1, ch.best))
  /\ Meets(task, EndOf(ss), FromOf(task.text, n) + ch.start)

SplitInv ==
  /\ split_task.text \in Texts /\ stage \in {"begin", "words", "search", "end"}
  /\ at \in 0..Len(split_task.text) /\ Edge(split_task.text, at)
  /\ Chained(split_task, parts, spans) /\ (~by_word => AllSmall(split_task, parts))
  /\ stage = "begin" => at = 0 /\ parts = <<>> /\ spans = <<>> /\ current = <<>> /\ ~by_word
  /\ stage = "words" => InWords
  /\ stage = "search" => current = <<>> /\ Searching(split_task, at, spans, chunk)
  /\ stage = "end" => /\ EndOf(spans) = Len(split_task.text) /\ AllSmall(split_task, parts)
                      /\ parts = <<>> <=> split_task.text = <<>>

\* The words of the model and of the lemmas.
LEMMA SplitNames ==
  /\ Ahead = AheadOf(split_task.text, at) /\ from = FromOf(split_task.text, at)
  /\ to = WordEnd(split_task.text, from) /\ word = WordOf(split_task.text, at)
  /\ \A s : Fits(s) <=> Tokens(split_task.vocabulary, s) <= split_task.limit
<1>1. Ahead = AheadOf(split_task.text, at)
  BY DEF Ahead, AheadOf, text
<1>2. from = FromOf(split_task.text, at)
  BY <1>1 DEF from, FromOf
<1>3. to = WordEnd(split_task.text, from)
  BY DEF to, text
<1>4. word = WordOf(split_task.text, at)
  BY <1>2, <1>3 DEF word, WordOf, text
<1> QED BY <1>1, <1>2, <1>3, <1>4 DEF Fits, text_token_count, limit

\* What the invariant says of the text and of the next word.
LEMMA SplitFacts ==
  ASSUME SplitInv
  PROVE  LET t == split_task.text
             S == {t[i] : i \in 1..Len(t)} \cup {Space}
         IN  /\ Spaced(t) /\ t \in Seq(S) /\ Len(t) \in Nat /\ (t = <<>> <=> Len(t) = 0)
             /\ Ahead = {} => at = Len(t)
             /\ Ahead # {} => /\ from \in 1..Len(t) /\ to \in from..Len(t) /\ Edge(t, to)
                              /\ IF at = 0 THEN from = 1 ELSE from = at + 2 /\ t[at + 1] = Space
                              /\ word = SubSeq(t, from, to)
                              /\ word \in Seq(S) /\ Len(word) = to - from + 1 /\ word # <<>>
                              /\ \A p \in from..to : WordAt(t, p) = word
<1> DEFINE t == split_task.text
           S == {t[i] : i \in 1..Len(t)} \cup {Space}
<1>1. Spaced(t) /\ at \in 0..Len(t) /\ Edge(t, at)
  BY SplitAssumption DEF SplitInv, Spaced
<1>2. t \in Seq(S) /\ Len(t) \in Nat /\ (t = <<>> <=> Len(t) = 0)
  BY <1>1, TextIsSequence
<1> HIDE DEF t, S
<1>3. Ahead = {} => at = Len(t)
  BY <1>1, NoWordLeft, SplitNames DEF t
<1>4. ASSUME Ahead # {}
      PROVE  /\ from \in 1..Len(t) /\ to \in from..Len(t) /\ Edge(t, to)
             /\ IF at = 0 THEN from = 1 ELSE from = at + 2 /\ t[at + 1] = Space
             /\ word = SubSeq(t, from, to)
             /\ word \in Seq(S) /\ Len(word) = to - from + 1 /\ word # <<>>
             /\ \A p \in from..to : WordAt(t, p) = word
  <2>1. /\ from \in 1..Len(t) /\ to \in from..Len(t) /\ Edge(t, to)
        /\ IF at = 0 THEN from = 1 ELSE from = at + 2 /\ t[at + 1] = Space
        /\ Len(word) = to - from + 1
        /\ \A p \in from..to : WordAt(t, p) = word
    BY <1>1, <1>4, NextWord, SplitNames DEF t
  <2>2. word = SubSeq(t, from, to)
    BY DEF word, text, t
  <2>3. word \in Seq(S)
    <3>1. to \in from - 1..Len(t)
      BY <2>1, <1>2
    <3> QED BY <3>1, <2>1, <2>2, <1>2, Slice
  <2>4. word # <<>>
    <3>1. Len(word) # 0
      BY <2>1, <1>2
    <3> QED BY <3>1
  <2> QED BY <2>1, <2>2, <2>3, <2>4
<1> QED BY <1>1, <1>2, <1>3, <1>4 DEF t, S

\* With its current part, the text is laid out up to the end of the last word.
LEMMA FlushKeeps ==
  ASSUME SplitInv, stage = "words"
  PROVE  /\ Chained(split_task, Flushed(parts, current), Flushed(spans, span))
         /\ EndOf(Flushed(spans, span)) = at
         /\ ~by_word => AllSmall(split_task, Flushed(parts, current))
         /\ Flushed(parts, current) = <<>> => at = 0
         /\ at = 0 => Flushed(parts, current) = <<>>
<1>1. InWords /\ Chained(split_task, parts, spans) /\ (~by_word => AllSmall(split_task, parts))
  BY DEF SplitInv
<1>2. CASE current = <<>>
  <2>1. Flushed(parts, current) = <<>> /\ Flushed(spans, span) = <<>> /\ at = 0
    BY <1>1, <1>2 DEF InWords, Flushed
  <2> QED BY <2>1, NoParts
<1>3. CASE current # <<>>
  <2>1. Flushed(parts, current) = Append(parts, current) /\ Flushed(spans, span) = Append(spans, span)
    BY <1>3 DEF Flushed
  <2>2. /\ Good(split_task.text, current, span) /\ span.to = at
        /\ Meets(split_task, EndOf(spans), span.from)
        /\ ~by_word => Small(split_task, current)
    BY <1>1, <1>3 DEF InWords
  <2>3. /\ Chained(split_task, Append(parts, current), Append(spans, span))
        /\ EndOf(Append(spans, span)) = span.to /\ Append(parts, current) # <<>>
        /\ AllSmall(split_task, parts) /\ Small(split_task, current)
             => AllSmall(split_task, Append(parts, current))
    BY <1>1, <2>2, ChainGrows
  <2>4. at # 0
    BY <2>2 DEF Good
  <2> QED BY <1>1, <2>1, <2>2, <2>3, <2>4
<1> QED BY <1>2, <1>3

\* What follows the last word is the next one.
LEMMA WordMeets ==
  ASSUME SplitInv, Ahead # {}
  PROVE  Meets(split_task, at, from)
BY SplitFacts DEF Meets

--------------------------------------------------------------------------------
(* The steps. *)

\* A text that is kept whole.
LEMMA WholeKeeps == ASSUME SplitInv, Whole PROVE SplitInv'
<1> DEFINE t == split_task.text
           s == [from |-> 1, to |-> Len(t)]
<1>1. /\ Spaced(t) /\ Len(t) \in Nat /\ (t = <<>> <=> Len(t) = 0) /\ t \in Texts
      /\ t \in Seq({t[i] : i \in 1..Len(t)} \cup {Space})
  BY SplitFacts DEF SplitInv
<1>2. /\ split_task' = split_task /\ stage' = "end" /\ at' = Len(t) /\ by_word' = by_word
      /\ parts' = (IF t = <<>> THEN <<>> ELSE <<t>>) /\ spans' = (IF t = <<>> THEN <<>> ELSE <<s>>)
      /\ Tokens(split_task.vocabulary, t) <= split_task.limit
  BY SplitNames DEF Whole, text
<1> HIDE DEF t, s
<1>3. Edge(t, Len(t))
  BY <1>1 DEF Edge, Spaced
<1>4. CASE t = <<>>
  <2>1. parts' = <<>> /\ spans' = <<>> /\ Len(t) = 0
    BY <1>1, <1>2, <1>4
  <2>2. Chained(split_task, <<>>, <<>>) /\ EndOf(<<>>) = 0 /\ AllSmall(split_task, <<>>)
    BY NoParts
  <2> QED BY <1>1, <1>2, <1>3, <1>4, <2>1, <2>2 DEF SplitInv, t
<1>5. CASE t # <<>>
  <2>1. parts' = Append(<<>>, t) /\ spans' = Append(<<>>, s)
    BY <1>2, <1>5
  <2>2. Good(t, t, s) /\ Meets(split_task, EndOf(<<>>), s.from)
    <3>1. Len(t) >= 1 /\ s.from = 1 /\ s.to = Len(t) /\ s \in [from : Nat, to : Nat]
      BY <1>1, <1>5 DEF s
    <3>2. SubSeq(t, 1, Len(t)) = t
      BY <1>1, SubSeqFull
    <3> QED BY <3>1, <3>2, NoParts DEF Good, Meets
  <2>3. Small(split_task, t)
    BY <1>2 DEF Small
  <2>4. /\ Chained(split_task, Append(<<>>, t), Append(<<>>, s))
        /\ EndOf(Append(<<>>, s)) = s.to /\ Append(<<>>, t) # <<>>
        /\ AllSmall(split_task, Append(<<>>, t))
    <3>1. split_task.text = t
      BY DEF t
    <3>2. Good(split_task.text, t, s)
      BY <2>2, <3>1
    <3>3. Chained(split_task, <<>>, <<>>) /\ AllSmall(split_task, <<>>)
      BY NoParts
    <3>4. Meets(split_task, EndOf(<<>>), s.from)
      BY <2>2
    <3> QED BY <3>2, <3>3, <3>4, <2>3, ChainGrows
  <2>5. s.to = Len(t)
    BY DEF s
  <2>6. /\ Chained(split_task', parts', spans') /\ EndOf(spans') = Len(t)
        /\ AllSmall(split_task', parts') /\ parts' # <<>>
    BY <2>1, <2>4, <2>5, <1>2
  <2> QED BY <1>1, <1>2, <1>3, <1>5, <2>6 DEF SplitInv, t
<1> QED BY <1>4, <1>5

\* The first word is next.
LEMMA BeginKeeps == ASSUME SplitInv, Begin PROVE SplitInv'
<1>1. at = 0 /\ parts = <<>> /\ spans = <<>> /\ current = <<>>
  BY DEF SplitInv, Begin
<1>2. /\ stage' = "words" /\ split_task' = split_task /\ at' = at /\ parts' = parts /\ spans' = spans
      /\ current' = current
  BY DEF Begin
<1>3. InWords'
  BY <1>1, <1>2 DEF InWords
<1>4. AllSmall(split_task, <<>>)
  BY NoParts
<1> QED BY <1>1, <1>2, <1>3, <1>4 DEF SplitInv

\* A word that fits joins the current part.
LEMMA JoinKeeps == ASSUME SplitInv, Join PROVE SplitInv'
<1> DEFINE t == split_task.text
           S == {t[i] : i \in 1..Len(t)} \cup {Space}
<1>1. /\ t \in Seq(S) /\ Len(t) \in Nat /\ t \in Texts /\ Ahead # {} /\ current # <<>> /\ stage = "words"
      /\ from \in 1..Len(t) /\ to \in from..Len(t) /\ Edge(t, to)
      /\ IF at = 0 THEN from = 1 ELSE from = at + 2 /\ t[at + 1] = Space
      /\ word = SubSeq(t, from, to)
  BY SplitFacts DEF SplitInv, Join
<1>2. /\ Good(t, current, span) /\ span.to = at
      /\ Meets(split_task, EndOf(spans), span.from)
  BY <1>1 DEF SplitInv, InWords
<1>3. /\ split_task' = split_task /\ stage' = stage /\ by_word' = by_word /\ at' = to
      /\ parts' = parts /\ spans' = spans /\ current' = Joined /\ span' = [span EXCEPT !.to = to]
      /\ Composed <= limit
  BY DEF Join
<1> HIDE DEF t, S
<1>4. /\ span.from \in 1..Len(t) /\ at \in span.from..Len(t) /\ from = at + 2 /\ t[at + 1] = Space
      /\ current = SubSeq(t, span.from, at) /\ at \in Nat
  BY <1>1, <1>2 DEF Good
<1>5. Joined = SubSeq(t, span.from, to)
  <2>1. at + 2 <= Len(t) /\ to \in at + 2..Len(t)
    BY <1>1, <1>4
  <2>2. SubSeq(t, span.from, at) \o <<Space>> \o SubSeq(t, at + 2, to) = SubSeq(t, span.from, to)
    BY <1>1, <1>4, <2>1, JoinedSlices
  <2> QED BY <2>2, <1>1, <1>4 DEF Joined
<1>6. span' \in [from : Nat, to : Nat] /\ span'.from = span.from /\ span'.to = to
  <2>1. to \in Nat
    BY <1>1
  <2>2. span \in [from : Nat, to : Nat]
    BY <1>2 DEF Good
  <2> QED BY <2>1, <2>2, <1>3
<1>7. Good(t, current', span')
  <2>1. 1 <= span.from /\ span.from <= to /\ to <= Len(t)
    BY <1>1, <1>4
  <2>2. current' = SubSeq(t, span'.from, span'.to)
    BY <1>3, <1>5, <1>6
  <2> QED BY <2>1, <2>2, <1>6 DEF Good
<1>8. current' # <<>>
  <2>1. to \in span.from - 1..Len(t)
    BY <1>1, <1>4
  <2>2. Len(SubSeq(t, span.from, to)) = to - span.from + 1
    BY <2>1, <1>1, <1>4, Slice
  <2>3. to - span.from + 1 # 0
    BY <1>1, <1>4
  <2>4. Len(current') # 0
    BY <2>2, <2>3, <1>3, <1>5
  <2> QED BY <2>4
<1>9. ~by_word => Small(split_task, current')
  BY <1>3 DEF Composed, Small, text_token_count, limit
<1>10. InWords'
  BY <1>2, <1>3, <1>6, <1>7, <1>8, <1>9 DEF InWords, t
<1>11. to \in 0..Len(t)
  BY <1>1
<1> QED BY <1>1, <1>3, <1>10, <1>11 DEF SplitInv, t

\* A word that fits by itself begins a part.
LEMMA StartWordKeeps == ASSUME SplitInv, StartWord PROVE SplitInv'
<1> DEFINE t == split_task.text
<1>1. /\ Len(t) \in Nat /\ t \in Texts /\ Ahead # {} /\ stage = "words"
      /\ from \in 1..Len(t) /\ to \in from..Len(t) /\ Edge(t, to)
      /\ word = SubSeq(t, from, to) /\ word # <<>>
  BY SplitFacts DEF SplitInv, StartWord, NewPart
<1>2. /\ split_task' = split_task /\ stage' = stage /\ by_word' = by_word /\ at' = to
      /\ parts' = Flushed(parts, current) /\ spans' = Flushed(spans, span)
      /\ current' = word /\ span' = [from |-> from, to |-> to]
      /\ Tokens(split_task.vocabulary, word) <= split_task.limit
  BY SplitNames DEF StartWord, NewPart, TooLong
<1>3. /\ Chained(split_task, parts', spans') /\ EndOf(spans') = at
      /\ ~by_word => AllSmall(split_task, parts')
  BY <1>1, <1>2, FlushKeeps
<1>4. Meets(split_task, at, from)
  BY <1>1, WordMeets
<1> HIDE DEF t
<1>5. span'.from = from /\ span'.to = to /\ Good(t, current', span')
  BY <1>1, <1>2 DEF Good
<1>6. InWords'
  BY <1>1, <1>2, <1>3, <1>4, <1>5 DEF InWords, Small, t
<1>7. to \in 0..Len(t)
  BY <1>1
<1> QED BY <1>1, <1>2, <1>3, <1>6, <1>7 DEF SplitInv, t

\* A word that is too long is searched from its first character.
LEMMA BreakWordKeeps == ASSUME SplitInv, BreakWord PROVE SplitInv'
<1> DEFINE t == split_task.text
           S == {t[i] : i \in 1..Len(t)} \cup {Space}
<1>1. /\ Len(t) \in Nat /\ t \in Texts /\ Ahead # {} /\ stage = "words"
      /\ from \in 1..Len(t) /\ to \in from..Len(t)
      /\ word \in Seq(S) /\ Len(word) = to - from + 1
      /\ at \in 0..Len(t) /\ Edge(t, at)
  BY SplitFacts DEF SplitInv, BreakWord, NewPart
<1>2. /\ split_task' = split_task /\ stage' = "search" /\ by_word' = by_word /\ at' = at
      /\ parts' = Flushed(parts, current) /\ spans' = Flushed(spans, span)
      /\ current' = <<>>
      /\ chunk' = [start |-> 0, low |-> 0 + 1, high |-> Len(word), best |-> 0 + 1]
      /\ ~(Tokens(split_task.vocabulary, word) <= split_task.limit)
  BY SplitNames DEF BreakWord, NewPart, TooLong, FreshChunk
<1>3. /\ Chained(split_task, parts', spans') /\ EndOf(spans') = at
      /\ ~by_word => AllSmall(split_task, parts')
  BY <1>1, <1>2, FlushKeeps
<1>4. Meets(split_task, at, from)
  BY <1>1, WordMeets
<1> HIDE DEF t, S
<1>5. Len(word) \in Nat /\ Len(word) >= 1
  BY <1>1
<1>6. Small(split_task, SubSeq(word, 0 + 1, 0 + 1))
  <2>1. 0 + 1 \in 1..Len(word) /\ 0 + 1 \in (0 + 1) - 1..Len(word)
    BY <1>5
  <2>2. Len(SubSeq(word, 0 + 1, 0 + 1)) = (0 + 1) - (0 + 1) + 1
    BY <2>1, <1>1, Slice
  <2>3. (0 + 1) - (0 + 1) + 1 = 1
    OBVIOUS
  <2> QED BY <2>2, <2>3 DEF Small
<1>7. /\ chunk' \in [start : Nat, low : Int, high : Int, best : Nat]
      /\ chunk'.start = 0 /\ chunk'.best = 0 + 1 /\ chunk'.low = 0 + 1 /\ chunk'.high = Len(word)
  BY <1>2, <1>5
<1>8. from + 0 = from
  BY <1>1
<1>9. Searching(split_task, at, spans', chunk')
  BY <1>1, <1>2, <1>3, <1>4, <1>5, <1>6, <1>7, <1>8, SplitNames DEF Searching
<1> QED BY <1>1, <1>2, <1>3, <1>9 DEF SplitInv, t
\* A turn of the binary search.
LEMMA ProbeKeeps == ASSUME SplitInv, Probe PROVE SplitInv'
<1> DEFINE w == WordOf(split_task.text, at)
           middle == (chunk.low + chunk.high) \div 2
           fits == Tokens(split_task.vocabulary, SubSeq(w, chunk.start + 1, middle)) <= split_task.limit
<1>1. /\ split_task' = split_task /\ stage' = stage /\ by_word' = by_word /\ at' = at
      /\ parts' = parts /\ spans' = spans /\ current' = current
      /\ stage = "search" /\ chunk.low <= chunk.high
      /\ chunk' = IF fits THEN [chunk EXCEPT !.best = middle, !.low = middle + 1]
                  ELSE [chunk EXCEPT !.high = middle - 1]
  BY SplitNames DEF Probe
<1>2. Searching(split_task, at, spans, chunk) /\ current = <<>>
  BY <1>1 DEF SplitInv
<1>3. /\ chunk \in [start : Nat, low : Int, high : Int, best : Nat]
      /\ chunk.start < chunk.best /\ chunk.best <= Len(w)
      /\ chunk.start < chunk.low /\ chunk.high <= Len(w)
      /\ Small(split_task, SubSeq(w, chunk.start + 1, chunk.best))
      /\ Meets(split_task, EndOf(spans), FromOf(split_task.text, at) + chunk.start)
  BY <1>2 DEF Searching
<1>4. Len(w) \in Nat
  BY <1>2, SplitFacts, SplitNames DEF Searching
<1> HIDE DEF w
<1>5. middle \in Int /\ chunk.low <= middle /\ middle <= chunk.high
  BY <1>1, <1>3
<1> HIDE DEF middle
<1>6. middle \in Nat /\ chunk.start < middle /\ middle <= Len(w)
  BY <1>3, <1>4, <1>5
<1>7. CASE fits
  <2>1. /\ chunk' \in [start : Nat, low : Int, high : Int, best : Nat]
        /\ chunk'.start = chunk.start /\ chunk'.best = middle /\ chunk'.low = middle + 1
        /\ chunk'.high = chunk.high
    <3>1. chunk' = [chunk EXCEPT !.best = middle, !.low = middle + 1]
      BY <1>1, <1>7
    <3>2. middle \in Nat /\ middle + 1 \in Int
      BY <1>6
    <3> QED BY <3>1, <3>2, <1>3
  <2>2. Small(split_task, SubSeq(w, chunk.start + 1, middle))
    BY <1>7 DEF Small
  <2>3. chunk.start < middle + 1
    BY <1>3, <1>6
  <2> HIDE DEF fits
  <2>4. Searching(split_task, at, spans, chunk')
    BY <1>2, <1>3, <1>6, <2>1, <2>2, <2>3 DEF Searching, w
  <2> QED BY <1>1, <1>2, <2>4 DEF SplitInv
<1>8. CASE ~fits
  <2>1. /\ chunk' \in [start : Nat, low : Int, high : Int, best : Nat]
        /\ chunk'.start = chunk.start /\ chunk'.best = chunk.best /\ chunk'.low = chunk.low
        /\ chunk'.high = middle - 1
    BY <1>1, <1>3, <1>6, <1>8
  <2>2. middle - 1 <= Len(w)
    BY <1>4, <1>6
  <2> HIDE DEF fits
  <2>3. Searching(split_task, at, spans, chunk')
    BY <1>2, <1>3, <2>1, <2>2 DEF Searching, w
  <2> QED BY <1>1, <1>2, <2>3 DEF SplitInv
<1> QED BY <1>7, <1>8

\* The chunk that is cut is a part, or, at the end of the word, the beginning of the next one.
LEMMA CutKeeps == ASSUME SplitInv, Cut PROVE SplitInv'
<1> DEFINE t == split_task.text
           S == {t[i] : i \in 1..Len(t)} \cup {Space}
           b == chunk.best
           c == chunk.start
           piece == SubSeq(word, c + 1, b)
           place == [from |-> from + c, to |-> from + b - 1]
<1>1. Searching(split_task, at, spans, chunk) /\ current = <<>> /\ Ahead # {} /\ stage = "search"
  BY SplitNames DEF SplitInv, Cut, Searching
<1>2. /\ t \in Seq(S) /\ Len(t) \in Nat /\ t \in Texts
      /\ from \in 1..Len(t) /\ to \in from..Len(t) /\ Edge(t, to)
      /\ word = SubSeq(t, from, to) /\ word \in Seq(S) /\ Len(word) = to - from + 1
      /\ \A p \in from..to : WordAt(t, p) = word
  BY <1>1, SplitFacts DEF SplitInv
<1>3. /\ chunk \in [start : Nat, low : Int, high : Int, best : Nat]
      /\ c < b /\ b <= Len(word)
      /\ Small(split_task, piece)
      /\ Meets(split_task, EndOf(spans), from + c)
      /\ ~(Tokens(split_task.vocabulary, word) <= split_task.limit)
  BY <1>1, SplitNames DEF Searching
<1>4. /\ Chained(split_task, parts, spans) /\ (~by_word => AllSmall(split_task, parts))
      /\ at \in 0..Len(t) /\ Edge(t, at)
  BY DEF SplitInv
<1>5. /\ split_task' = split_task /\ by_word' = by_word
      /\ b < Len(word) => /\ parts' = Append(parts, piece) /\ spans' = Append(spans, place)
                          /\ chunk' = [start |-> b, low |-> b + 1, high |-> Len(word), best |-> b + 1]
                          /\ stage' = stage /\ at' = at /\ current' = current
      /\ ~(b < Len(word)) => /\ current' = piece /\ span' = place /\ at' = to /\ stage' = "words"
                             /\ parts' = parts /\ spans' = spans
  BY DEF Cut, FreshChunk
<1> HIDE DEF t, S
<1>6. b \in Nat /\ c \in Nat
  BY <1>3
<1> HIDE DEF b, c
<1>7. place \in [from : Nat, to : Nat] /\ place.from = from + c /\ place.to = from + b - 1
  BY <1>2, <1>3, <1>6
<1>8. piece = SubSeq(t, from + c, from + b - 1)
  <2>1. /\ from \in 1..Len(t) /\ to \in 1..Len(t) /\ c + 1 \in 1..to - from + 1 /\ b \in 1..to - from + 1
        /\ from + (c + 1) - 1 = from + c
    BY <1>2, <1>3, <1>6
  <2>2. SubSeq(SubSeq(t, from, to), c + 1, b) = SubSeq(t, from + (c + 1) - 1, from + b - 1)
    <3> DEFINE m == c + 1
    <3>1. m \in 1..to - from + 1
      BY <2>1
    <3> HIDE DEF m
    <3>2. SubSeq(SubSeq(t, from, to), m, b) = SubSeq(t, from + m - 1, from + b - 1)
      BY <1>2, <2>1, <3>1, SubSeqOfSubSeq
    <3> QED BY <3>2 DEF m
  <2> QED BY <1>2, <2>1, <2>2
<1> HIDE DEF piece, place
<1>9. Good(t, piece, place)
  <2>1. 1 <= place.from /\ place.from <= place.to /\ place.to <= Len(t)
    BY <1>2, <1>3, <1>6, <1>7
  <2> QED BY <2>1, <1>7, <1>8 DEF Good
<1>10. CASE b < Len(word)
  <2>1. /\ Chained(split_task, parts', spans') /\ EndOf(spans') = place.to
        /\ ~by_word => AllSmall(split_task, parts')
    <3>1. split_task.text = t
      BY DEF t
    <3>2. Good(split_task.text, piece, place) /\ Meets(split_task, EndOf(spans), place.from)
      BY <3>1, <1>3, <1>7, <1>9
    <3>3. /\ Chained(split_task, Append(parts, piece), Append(spans, place))
          /\ EndOf(Append(spans, place)) = place.to
          /\ AllSmall(split_task, parts) => AllSmall(split_task, Append(parts, piece))
      BY <3>2, <1>3, <1>4, ChainGrows
    <3> QED BY <3>3, <1>4, <1>5, <1>10
  <2>2. Meets(split_task, EndOf(spans'), from + b)
    <3>1. from + b = (from + b - 1) + 1 /\ from + b - 1 # 0 /\ from + b \in from..to
      BY <1>2, <1>3, <1>6, <1>10
    <3>2. WordAt(t, from + b) = word
      BY <3>1, <1>2
    <3>3. EndOf(spans') # 0 /\ from + b = EndOf(spans') + 1
      BY <2>1, <3>1, <1>7
    <3> QED BY <3>2, <3>3, <1>3 DEF Meets, t
  <2>3. Len(word) \in Nat /\ b + 1 <= Len(word) /\ b < b + 1
    BY <1>2, <1>6, <1>10
  <2>4. Small(split_task, SubSeq(word, b + 1, b + 1))
    <3>1. b + 1 \in 1..Len(word) /\ b + 1 \in (b + 1) - 1..Len(word)
      BY <2>3, <1>6
    <3>2. Len(SubSeq(word, b + 1, b + 1)) = (b + 1) - (b + 1) + 1
      BY <3>1, <1>2, Slice
    <3>3. (b + 1) - (b + 1) + 1 = 1
      BY <1>6
    <3> QED BY <3>2, <3>3 DEF Small
  <2>5. /\ chunk' \in [start : Nat, low : Int, high : Int, best : Nat]
        /\ chunk'.start = b /\ chunk'.best = b + 1 /\ chunk'.low = b + 1 /\ chunk'.high = Len(word)
    BY <2>3, <1>5, <1>6, <1>10
  <2>6. Searching(split_task, at, spans', chunk')
    BY <1>1, <1>3, <2>2, <2>3, <2>4, <2>5, SplitNames DEF Searching
  <2>7. split_task' = split_task /\ by_word' = by_word /\ stage' = "search" /\ at' = at /\ current' = <<>>
    BY <1>1, <1>5, <1>10
  <2> QED BY <1>2, <1>4, <2>1, <2>6, <2>7 DEF SplitInv, t
<1>11. CASE ~(b < Len(word))
  <2>1. b = Len(word) /\ place.to = to
    BY <1>2, <1>3, <1>6, <1>7, <1>11
  <2>2. piece # <<>>
    <3>1. from + c \in 1..Len(t) /\ from + b - 1 \in (from + c) - 1..Len(t)
      BY <1>2, <1>3, <1>6
    <3>2. Len(piece) = (from + b - 1) - (from + c) + 1
      BY <3>1, <1>2, <1>8, Slice
    <3>3. Len(piece) # 0
      BY <3>2, <1>2, <1>3, <1>6
    <3> QED BY <3>3
  <2>3. /\ split_task' = split_task /\ by_word' = by_word /\ stage' = "words" /\ at' = to
        /\ current' = piece /\ span' = place /\ parts' = parts /\ spans' = spans
    BY <1>5, <1>11
  <2>4. InWords'
    BY <2>1, <2>2, <2>3, <1>3, <1>7, <1>9 DEF InWords, t
  <2>5. to \in 0..Len(t)
    BY <1>2
  <2> QED BY <1>2, <1>4, <2>3, <2>4, <2>5 DEF SplitInv, t
<1> QED BY <1>10, <1>11

\* The words are split, or are split again by candidates.
LEMMA FinishKeeps == ASSUME SplitInv, Finish PROVE SplitInv'
<1> DEFINE t == split_task.text
           pieces == Flushed(parts, current)
<1>1. /\ Len(t) \in Nat /\ (t = <<>> <=> Len(t) = 0) /\ at = Len(t) /\ stage = "words" /\ t \in Texts
      /\ at \in 0..Len(t) /\ Edge(t, at)
  BY SplitFacts DEF SplitInv, Finish
<1>2. /\ Chained(split_task, pieces, Flushed(spans, span)) /\ EndOf(Flushed(spans, span)) = at
      /\ ~by_word => AllSmall(split_task, pieces)
      /\ pieces = <<>> <=> at = 0
  BY <1>1, FlushKeeps
<1> HIDE DEF t, pieces
<1>3. CASE by_word /\ ~Verified(pieces)
  <2>1. /\ split_task' = split_task /\ stage' = "words" /\ by_word' = FALSE /\ at' = 0
        /\ parts' = <<>> /\ current' = <<>> /\ spans' = <<>>
    BY <1>1, <1>3 DEF Finish, pieces
  <2>2. Chained(split_task, <<>>, <<>>) /\ AllSmall(split_task, <<>>)
    BY NoParts
  <2>3. InWords'
    BY <2>1 DEF InWords
  <2>4. Edge(t, 0) /\ 0 \in 0..Len(t)
    BY <1>1 DEF Edge
  <2> QED BY <1>1, <2>1, <2>2, <2>3, <2>4 DEF SplitInv, t
<1>4. CASE ~(by_word /\ ~Verified(pieces))
  <2>1. /\ split_task' = split_task /\ stage' = "end" /\ by_word' = by_word /\ at' = at
        /\ parts' = pieces /\ spans' = Flushed(spans, span)
    BY <1>4 DEF Finish, pieces
  <2>2. AllSmall(split_task, pieces)
    <3>1. CASE ~by_word
      BY <3>1, <1>2
    <3>2. CASE Verified(pieces)
      <4>1. DOMAIN pieces = 1..Len(pieces)
        BY <1>2 DEF Chained
      <4>2. \A i \in 1..Len(pieces) : Tokens(split_task.vocabulary, pieces[i]) <= split_task.limit
        BY <3>2, <4>1, SplitNames DEF Verified
      <4> QED BY <4>2 DEF AllSmall, Small
    <3> QED BY <1>4, <3>1, <3>2
  <2>3. /\ Chained(split_task', parts', spans') /\ EndOf(spans') = Len(t)
        /\ AllSmall(split_task', parts') /\ (parts' = <<>> <=> t = <<>>)
    BY <1>1, <1>2, <2>1, <2>2
  <2> QED BY <1>1, <2>1, <2>3 DEF SplitInv, t
<1> QED BY <1>3, <1>4

\* In every state the parts so far are the text so far, and within the limit where they are
\* not counted again.
LEMMA SplitKeepsInv == SplitSpec => []SplitInv
<1>1. SplitInit => SplitInv
  <2> SUFFICES ASSUME SplitInit PROVE SplitInv
    OBVIOUS
  <2>1. split_task.text \in Texts /\ Len(split_task.text) \in Nat
    BY SplitAssumption DEF SplitInit
  <2>2. 0 \in 0..Len(split_task.text) /\ Edge(split_task.text, 0)
    BY <2>1 DEF Edge
  <2> QED BY <2>1, <2>2, NoParts DEF SplitInit, SplitInv
<1>2. SplitInv /\ [SplitNext]_split_vars => SplitInv'
  <2> SUFFICES ASSUME SplitInv, [SplitNext]_split_vars PROVE SplitInv'
    OBVIOUS
  <2>1. CASE UNCHANGED split_vars
    <3>1. InWords' = InWords
      BY <2>1 DEF split_vars, InWords
    <3> QED BY <2>1, <3>1 DEF split_vars, SplitInv
  <2>2. CASE SplitNext
    BY <2>2, WholeKeeps, BeginKeeps, JoinKeeps, StartWordKeeps, BreakWordKeeps, ProbeKeeps, CutKeeps,
       FinishKeeps DEF SplitNext
  <2> QED BY <2>1, <2>2
<1> QED BY <1>1, <1>2, PTL DEF SplitSpec

\* TextsWhole: whatever the tokenizer, the parts of a text are all of it in its order, each
\* within the limit of the native model or one character, and only words that exceed the limit
\* by themselves are broken (split_text_by_tokens).
THEOREM TextsStayWhole == SplitSpec => []TextsWhole
<1>1. SplitInv => TextsWhole
  <2> SUFFICES ASSUME SplitInv, stage = "end" PROVE TextsWhole
    BY DEF TextsWhole, NothingUnspoken, PartsFit, WordsWhole
  <2> DEFINE t == split_task.text
  <2>1. /\ Chained(split_task, parts, spans) /\ AllSmall(split_task, parts)
        /\ EndOf(spans) = Len(t) /\ (parts = <<>> <=> t = <<>>)
    BY DEF SplitInv
  <2>2. /\ DOMAIN parts = 1..Len(parts) /\ DOMAIN spans = 1..Len(parts) /\ Len(parts) \in Nat
        /\ Len(spans) = Len(parts)
        /\ \A i \in 1..Len(parts) : /\ Good(t, parts[i], spans[i])
                                    /\ Meets(split_task, IF i = 1 THEN 0 ELSE spans[i - 1].to, spans[i].from)
    BY <2>1 DEF Chained
  <2>3. ASSUME NEW i \in 1..Len(parts)
        PROVE  /\ parts[i] = SubSeq(t, spans[i].from, spans[i].to) /\ spans[i].from <= spans[i].to
               /\ i = 1 => spans[i].from = 1
               /\ i > 1 => \/ spans[i].from = spans[i - 1].to + 1
                           \/ spans[i].from = spans[i - 1].to + 2 /\ t[spans[i].from - 1] = Space
               /\ i > 1 /\ t[spans[i].from - 1] # Space
                    => ~(Tokens(split_task.vocabulary, WordAt(t, spans[i].from)) <= split_task.limit)
               /\ i = Len(parts) => spans[i].to = Len(t)
    <3>1. /\ parts[i] = SubSeq(t, spans[i].from, spans[i].to) /\ spans[i].from <= spans[i].to
      BY <2>2 DEF Good
    <3>2. i = 1 => spans[i].from = 1
      BY <2>2 DEF Meets
    <3>3. ASSUME i > 1
          PROVE  \/ spans[i].from = spans[i - 1].to + 2 /\ t[spans[i].from - 1] = Space
                 \/ /\ spans[i].from = spans[i - 1].to + 1
                    /\ ~(Tokens(split_task.vocabulary, WordAt(t, spans[i].from)) <= split_task.limit)
      <4>1. i - 1 \in 1..Len(parts) /\ i # 1
        BY <3>3, <2>2
      <4>2. spans[i - 1].to \in Nat /\ spans[i - 1].to # 0
        <5>1. Good(t, parts[i - 1], spans[i - 1])
          BY <4>1, <2>2
        <5> QED BY <5>1 DEF Good
      <4>3. Meets(split_task, spans[i - 1].to, spans[i].from)
        BY <4>1, <2>2
      <4>4. (spans[i - 1].to + 2) - 1 = spans[i - 1].to + 1
        BY <4>2
      <4> QED BY <4>2, <4>3, <4>4 DEF Meets
    <3>4. i = Len(parts) => spans[i].to = Len(t)
      <4>1. spans # <<>>
        BY <2>2
      <4> QED BY <4>1, <2>1, <2>2 DEF EndOf
    <3> QED BY <3>1, <3>2, <3>3, <3>4
  <2>4. \A i \in 1..Len(parts) : Small(split_task, parts[i])
    BY <2>1 DEF AllSmall
  <2>5. NothingUnspoken
    BY <2>1, <2>2, <2>3 DEF NothingUnspoken, text
  <2>6. PartsFit
    BY <2>2, <2>4, SplitNames DEF PartsFit, Small
  <2>7. WordsWhole
    BY <2>2, <2>3, SplitNames DEF WordsWhole, text
  <2> QED BY <2>5, <2>6, <2>7 DEF TextsWhole
<1> QED BY <1>1, SplitKeepsInv, PTL


--------------------------------------------------------------------------------
(* ClauseDetector: runs of characters. *)

\* The classes of characters that a scan tells apart.
LEMMA Classes ==
  /\ White \cap Alnum = {} /\ Delimiters \cap Alnum = {} /\ Digit \subseteq Alnum
  /\ SentenceEnd \cap White = {} /\ ClauseEnd \cap White = {} /\ LineBreak \subseteq White
  /\ LineBreak \subseteq Delimiters /\ SentenceEnd \subseteq Delimiters /\ ClauseEnd \subseteq Delimiters
  /\ SentenceEnd = {"."} /\ ClauseEnd = {",", "-"}
  /\ LineBreak \cap {",", ".", "-"} = {} /\ White \cap {",", ".", "-"} = {}
  BY DEF White, Alnum, Delimiters, Digit, Upper, Lower, SentenceEnd, ClauseEnd, LineBreak

\* A nonempty set of numbers up to n has a greatest one.
LEMMA Highest ==
  ASSUME NEW n \in Nat, NEW T, T \subseteq 0..n, T # {}
  PROVE  Max(T) \in T /\ \A x \in T : x <= Max(T)
<1> DEFINE R == {y \in 0..n : n - y \in T}
<1>1. R \subseteq Nat /\ R # {}
  <2>1. PICK x \in T : TRUE
    OBVIOUS
  <2>2. n - x \in 0..n /\ n - (n - x) = x
    BY <2>1
  <2>3. n - x \in R
    BY <2>2
  <2>4. R \subseteq Nat
    OBVIOUS
  <2> HIDE DEF R
  <2> QED BY <2>3, <2>4
<1>2. PICK m \in R : \A y \in R : m <= y
  BY <1>1, Least
<1>3. n - m \in T
  BY <1>2
<1>4. ASSUME NEW x \in T PROVE x <= n - m
  <2>1. x \in 0..n /\ n - x \in 0..n /\ n - (n - x) = x
    OBVIOUS
  <2>2. m <= n - x /\ m \in 0..n
    BY <2>1, <1>2
  <2> QED BY <2>1, <2>2
<1>5. T \subseteq Int
  OBVIOUS
<1>6. Max(T) = n - m
  BY <1>3, <1>4, <1>5, Greatest
<1> QED BY <1>3, <1>4, <1>6

\* A run ends where it ends.
LEMMA RunEnds ==
  ASSUME NEW S, NEW s \in Seq(S), NEW i \in 0..Len(s), NEW class
  PROVE  LET e == RunEnd(s, i, class)
         IN  /\ e \in i..Len(s) /\ \A k \in i + 1..e : s[k] \in class
             /\ e = Len(s) \/ s[e + 1] \notin class
<1> DEFINE T == {Len(s)} \cup {k \in i..Len(s) - 1 : s[k + 1] \notin class}
           e == RunEnd(s, i, class)
<1>0. Len(s) \in Nat
  OBVIOUS
<1>1. T \subseteq Nat /\ T # {}
  BY <1>0
<1>2. Min(T) \in T /\ \A x \in T : Min(T) <= x
  <2> HIDE DEF T
  <2> QED BY <1>1, Lowest
<1>3. e \in T /\ \A x \in T : e <= x
  BY <1>2 DEF RunEnd
<1> HIDE DEF e
<1>4. e \in i..Len(s) /\ (e = Len(s) \/ s[e + 1] \notin class)
  BY <1>3, <1>0
<1>5. ASSUME NEW k \in i + 1..e, s[k] \notin class PROVE FALSE
  <2>1. k - 1 \in i..Len(s) - 1 /\ (k - 1) + 1 = k /\ k - 1 < e
    BY <1>4, <1>0
  <2>2. k - 1 \in T
    BY <2>1, <1>5
  <2>3. e <= k - 1
    <3> HIDE DEF T
    <3> QED BY <2>2, <1>3
  <2> QED BY <2>1, <2>3, <1>4, <1>0
<1> QED BY <1>4, <1>5 DEF e

\* And nowhere else.
LEMMA RunEndIs ==
  ASSUME NEW S, NEW s \in Seq(S), NEW i \in 0..Len(s), NEW class, NEW e \in i..Len(s),
         \A k \in i + 1..e : s[k] \in class, e = Len(s) \/ s[e + 1] \notin class
  PROVE  RunEnd(s, i, class) = e
<1> DEFINE d == RunEnd(s, i, class)
<1>1. /\ d \in i..Len(s) /\ \A k \in i + 1..d : s[k] \in class
      /\ d = Len(s) \/ s[d + 1] \notin class
  BY RunEnds
<1> HIDE DEF d
<1>2. ASSUME d < e PROVE FALSE
  <2>1. d + 1 \in i + 1..e /\ d # Len(s)
    BY <1>1, <1>2
  <2> QED BY <2>1, <1>1
<1>3. ASSUME e < d PROVE FALSE
  <2>1. e + 1 \in i + 1..d /\ e # Len(s)
    BY <1>1, <1>3
  <2> QED BY <2>1, <1>1
<1> QED BY <1>1, <1>2, <1>3 DEF d

\* The last character outside a class.
LEMMA Outside ==
  ASSUME NEW S, NEW s \in Seq(S), NEW n \in 0..Len(s), NEW class
  PROVE  LET o == LastOutside(s, n, class)
         IN  /\ o \in 0..n /\ (o = 0 \/ s[o] \notin class)
             /\ \A k \in o + 1..n : s[k] \in class
<1> DEFINE T == {0} \cup {k \in 1..n : s[k] \notin class}
           o == LastOutside(s, n, class)
<1>1. n \in Nat /\ T \subseteq 0..n /\ T # {}
  OBVIOUS
<1>2. Max(T) \in T /\ \A x \in T : x <= Max(T)
  <2> HIDE DEF T
  <2> QED BY <1>1, Highest
<1>3. o \in T /\ \A x \in T : x <= o
  BY <1>2 DEF LastOutside
<1> HIDE DEF o
<1>4. o \in 0..n /\ (o = 0 \/ s[o] \notin class)
  BY <1>3, <1>1
<1>5. ASSUME NEW k \in o + 1..n, s[k] \notin class PROVE FALSE
  <2>1. k \in 1..n /\ o < k
    BY <1>4
  <2>2. k \in T
    BY <2>1, <1>5
  <2> QED BY <2>1, <2>2, <1>3, <1>4
<1> QED BY <1>4, <1>5 DEF o

\* What is left of a text without the white space before it,
LEMMA LStripIs ==
  ASSUME NEW S, NEW s \in Seq(S)
  PROVE  /\ Leading(s) \in 0..Len(s) /\ \A k \in 1..Leading(s) : s[k] \in White
         /\ Leading(s) < Len(s) => s[Leading(s) + 1] \notin White
         /\ LStrip(s) \in Seq(S) /\ Len(LStrip(s)) = Len(s) - Leading(s)
         /\ \A k \in 1..Len(s) - Leading(s) : LStrip(s)[k] = s[Leading(s) + k]
<1> DEFINE n == Leading(s)
<1>1. /\ n \in 0..Len(s) /\ \A k \in 1..n : s[k] \in White
      /\ n < Len(s) => s[n + 1] \notin White
  <2>1. 0 \in 0..Len(s)
    OBVIOUS
  <2>2. LET e == RunEnd(s, 0, White)
        IN  /\ e \in 0..Len(s) /\ \A k \in 0 + 1..e : s[k] \in White
            /\ e = Len(s) \/ s[e + 1] \notin White
    BY <2>1, RunEnds
  <2> QED BY <2>2 DEF Leading
<1>2. LStrip(s) = SubSeq(s, n + 1, Len(s))
  BY DEF LStrip
<1> HIDE DEF n
<1>3. /\ SubSeq(s, n + 1, Len(s)) \in Seq(S) /\ Len(SubSeq(s, n + 1, Len(s))) = Len(s) - n
      /\ \A k \in 1..Len(s) - n : SubSeq(s, n + 1, Len(s))[k] = s[n + k]
  BY <1>1
<1> QED BY <1>1, <1>2, <1>3 DEF n

\* and without that around it.
LEMMA StripIs ==
  ASSUME NEW S, NEW s \in Seq(S)
  PROVE  \/ /\ Strip(s) = <<>> /\ Leading(s) = Len(s) /\ \A k \in 1..Len(s) : s[k] \in White
         \/ \E a \in Leading(s) + 1..Len(s) :
              /\ s[a] \notin White /\ s[Leading(s) + 1] \notin White
              /\ \A k \in 1..Leading(s) : s[k] \in White
              /\ \A k \in a + 1..Len(s) : s[k] \in White
              /\ Strip(s) = SubSeq(s, Leading(s) + 1, a) /\ Strip(s) # <<>>
              /\ Strip(s) \in Seq(S) /\ Len(Strip(s)) = a - Leading(s)
<1> DEFINE n == Leading(s)
           a == LastOutside(s, Len(s), White)
<1>1. /\ n \in 0..Len(s) /\ \A k \in 1..n : s[k] \in White
      /\ n < Len(s) => s[n + 1] \notin White
  BY LStripIs
<1>2. a \in 0..Len(s) /\ (a = 0 \/ s[a] \notin White) /\ \A k \in a + 1..Len(s) : s[k] \in White
  <2>1. Len(s) \in 0..Len(s)
    OBVIOUS
  <2>2. LET o == LastOutside(s, Len(s), White)
        IN  /\ o \in 0..Len(s) /\ (o = 0 \/ s[o] \notin White)
            /\ \A k \in o + 1..Len(s) : s[k] \in White
    BY <2>1, Outside
  <2> QED BY <2>2
<1>3. Strip(s) = SubSeq(s, n + 1, a)
  BY DEF Strip
<1> HIDE DEF n, a
<1>4. CASE n = Len(s)
  <2>1. a = 0
    BY <1>1, <1>2, <1>4
  <2>2. SubSeq(s, n + 1, a) = <<>>
    BY <2>1, <1>1
  <2> QED BY <2>2, <1>1, <1>3, <1>4 DEF n
<1>5. CASE n < Len(s)
  <2>1. a >= n + 1
    BY <1>1, <1>2, <1>5
  <2>2. a \in n + 1..Len(s) /\ s[a] \notin White
    BY <2>1, <1>1, <1>2
  <2>3. SubSeq(s, n + 1, a) \in Seq(S) /\ Len(SubSeq(s, n + 1, a)) = a - n
    BY <2>2, <1>1
  <2>4. SubSeq(s, n + 1, a) # <<>>
    BY <2>2, <2>3, <1>1
  <2> QED BY <2>2, <2>3, <2>4, <1>1, <1>2, <1>3, <1>5 DEF n
<1> QED BY <1>1, <1>4, <1>5

--------------------------------------------------------------------------------
(* What more text does not change. *)

\* t begins with s.
Grows(s, t) == Len(s) <= Len(t) /\ \A k \in 1..Len(s) : t[k] = s[k]

\* A sequence grows into itself, by what is appended, and in several steps.
LEMMA GrowsMore ==
  ASSUME NEW S, NEW s \in Seq(S), NEW t \in Seq(S)
  PROVE  /\ Grows(s, s) /\ Grows(s, s \o t)
         /\ \A u \in Seq(S) : Grows(s, t) /\ Grows(t, u) => Grows(s, u)
  BY DEF Grows

\* A run that ends in s,
LEMMA SameRun ==
  ASSUME NEW S, NEW s \in Seq(S), NEW t \in Seq(S), Grows(s, t), NEW i \in 0..Len(s), NEW class,
         RunEnd(s, i, class) < Len(s)
  PROVE  RunEnd(t, i, class) = RunEnd(s, i, class)
<1> DEFINE e == RunEnd(s, i, class)
<1>1. e \in i..Len(s) /\ (\A k \in i + 1..e : s[k] \in class) /\ (e = Len(s) \/ s[e + 1] \notin class)
  BY RunEnds
<1>2. e < Len(s)
  OBVIOUS
<1> HIDE DEF e
<1>3. i \in 0..Len(t) /\ e \in i..Len(t) /\ (\A k \in i + 1..e : t[k] \in class) /\ t[e + 1] \notin class
  <2>1. \A k \in i + 1..e : k \in 1..Len(s)
    BY <1>1
  <2>2. e + 1 \in 1..Len(s) /\ Len(s) <= Len(t)
    BY <1>1, <1>2 DEF Grows
  <2> QED BY <1>1, <1>2, <2>1, <2>2 DEF Grows
<1>4. RunEnd(t, i, class) = e
  BY <1>3, RunEndIs
<1> QED BY <1>4 DEF e

\* a slice of s,
LEMMA SameSlice ==
  ASSUME NEW S, NEW s \in Seq(S), NEW t \in Seq(S), Grows(s, t), NEW a \in Nat \ {0}, NEW b \in 0..Len(s)
  PROVE  SubSeq(t, a, b) = SubSeq(s, a, b)
<1>1. \A k \in a..b : t[k] = s[k] /\ k \in 1..Len(s) /\ k \in 1..Len(t)
  BY DEF Grows
<1>2. CASE a > b
  BY <1>2
<1>3. CASE a <= b
  <2>1. SubSeq(t, a, b) = [k \in 1..b - a + 1 |-> t[a + k - 1]] /\ SubSeq(s, a, b) = [k \in 1..b - a + 1 |-> s[a + k - 1]]
    BY <1>3
  <2>2. \A k \in 1..b - a + 1 : a + k - 1 \in a..b
    OBVIOUS
  <2> QED BY <2>1, <2>2, <1>1
<1> QED BY <1>2, <1>3

\* and what was decided of a delimiter that has another one after it.
LEMMA SameSeparator ==
  ASSUME NEW S, NEW s \in Seq(S), NEW t \in Seq(S), Grows(s, t),
         NEW i \in 1..Len(s), NEW class, NEW p \in i + 1..Len(s), s[p] \notin White \cup Alnum,
         IsIntraTokenSeparator(s, Match(s, i, class))
  PROVE  IsIntraTokenSeparator(t, Match(t, i, class))
<1> DEFINE m == Match(s, i, class)
           n == Match(t, i, class)
<1>1. i < Len(s) /\ i + 1 \in 1..Len(s) /\ i + 1 \in 1..Len(t) /\ i < Len(t) /\ i \in 1..Len(t) /\ i \in 0..Len(s)
      /\ i - 1 \in Nat /\ i \in Nat
  BY DEF Grows
<1>2. t[i] = s[i] /\ t[i + 1] = s[i + 1] /\ \A k \in 1..i : t[k] = s[k]
  BY <1>1 DEF Grows
<1>3. m.start = i /\ n.start = i /\ m.stop = RunEnd(s, i, class) /\ n.stop = RunEnd(t, i, class)
      /\ m.end = RunEnd(s, m.stop, White) /\ n.end = RunEnd(t, n.stop, White)
  BY DEF Match
<1>4. m.stop = i
  BY <1>3 DEF IsIntraTokenSeparator
<1>5. n.stop = i
  <2>1. RunEnd(s, i, class) = i /\ i < Len(s) /\ i \in 0..Len(s)
    BY <1>1, <1>3, <1>4
  <2>2. RunEnd(t, i, class) = RunEnd(s, i, class)
    BY <2>1, SameRun
  <2> QED BY <2>1, <2>2, <1>3
<1>6. \A c \in {White, Alnum} : RunEnd(s, i, c) < Len(s)
  <2> SUFFICES ASSUME NEW c \in {White, Alnum} PROVE RunEnd(s, i, c) < Len(s)
    OBVIOUS
  <2>1. RunEnd(s, i, c) \in i..Len(s) /\ \A k \in i + 1..RunEnd(s, i, c) : s[k] \in c
    BY <1>1, RunEnds
  <2>2. s[p] \notin c
    OBVIOUS
  <2> QED BY <2>1, <2>2
<1>7. IsNumericSeparator(s, i) => IsNumericSeparator(t, i)
  <2>1. i > 1 => i - 1 \in 1..i
    BY <1>1
  <2> QED BY <1>1, <1>2, <2>1 DEF IsNumericSeparator
<1>8. TokenBefore(t, i) = TokenBefore(s, i) /\ Len(TokenBefore(s, i)) \in 0..i - 1
  <2>1. \A k \in 1..i - 1 : t[k] = s[k]
    BY <1>1, <1>2
  <2>2. LastOutside(t, i - 1, Alnum) = LastOutside(s, i - 1, Alnum)
    BY <2>1 DEF LastOutside
  <2>3. LastOutside(s, i - 1, Alnum) \in 0..i - 1
    <3>1. i - 1 \in 0..Len(s)
      BY <1>1
    <3> QED BY <3>1, Outside
  <2> DEFINE o == LastOutside(s, i - 1, Alnum)
  <2> HIDE DEF o
  <2>4. o \in 0..i - 1
    BY <2>3 DEF o
  <2>5. o + 1 \in Nat \ {0} /\ i - 1 \in 0..Len(s)
    BY <2>4, <1>1
  <2>6. SubSeq(t, o + 1, i - 1) = SubSeq(s, o + 1, i - 1)
    <3> DEFINE a == o + 1
               b == i - 1
    <3>1. a \in Nat \ {0} /\ b \in 0..Len(s)
      BY <2>5
    <3> HIDE DEF a, b
    <3>2. SubSeq(t, a, b) = SubSeq(s, a, b)
      BY <3>1, SameSlice
    <3> QED BY <3>2 DEF a, b
  <2>7. Len(SubSeq(s, o + 1, i - 1)) \in 0..i - 1
    BY <2>4, <2>5
  <2> QED BY <2>2, <2>6, <2>7 DEF TokenBefore, o
<1>9. TokenAfter(t, i) = TokenAfter(s, i)
  <2> DEFINE e == RunEnd(s, i, Alnum)
  <2>1. RunEnd(t, i, Alnum) = e
    BY <1>1, <1>6, SameRun
  <2>2. e \in i..Len(s)
    BY <1>1, RunEnds
  <2> HIDE DEF e
  <2>3. e \in 0..Len(s) /\ i + 1 \in Nat \ {0}
    BY <2>2, <1>1
  <2>4. SubSeq(t, i + 1, e) = SubSeq(s, i + 1, e)
    BY <2>3, SameSlice
  <2> QED BY <2>1, <2>4 DEF TokenAfter, e
<1>10. IsLetterJoiningPeriod(s, i) => IsLetterJoiningPeriod(t, i)
  <2>1. i > 1 => i - 1 \in 1..i
    BY <1>1
  <2> QED BY <1>1, <1>2, <1>8, <1>9, <2>1 DEF IsLetterJoiningPeriod
<1>11. IsPrefixAbbrevPeriod(s, i) => IsPrefixAbbrevPeriod(t, i)
  <2> DEFINE u == SubSeq(s, i + 1, Len(s))
             v == SubSeq(t, i + 1, Len(t))
             f == Leading(u)
  <2>1. /\ u \in Seq(S) /\ Len(u) = Len(s) - i /\ \A k \in 1..Len(s) - i : u[k] = s[i + k]
        /\ v \in Seq(S) /\ Len(v) = Len(t) - i /\ \A k \in 1..Len(t) - i : v[k] = t[i + k]
    <3>1. u \in Seq(S) /\ Len(u) = Len(s) - i /\ \A k \in 1..Len(s) - i : u[k] = s[i + k]
      BY <1>1
    <3>2. v \in Seq(S) /\ Len(v) = Len(t) - i /\ \A k \in 1..Len(t) - i : v[k] = t[i + k]
      <4>1. i + 1 \in 1..Len(t) /\ Len(t) \in Nat
        BY <1>1
      <4> QED BY <4>1
    <3> QED BY <3>1, <3>2
  <2>2. Grows(u, v)
    BY <2>1, <1>1 DEF Grows
  <2> HIDE DEF u, v
  <2>3. /\ f \in 0..Len(u) /\ \A k \in 1..f : u[k] \in White
        /\ f < Len(u) => u[f + 1] \notin White
        /\ LStrip(u) \in Seq(S) /\ Len(LStrip(u)) = Len(u) - f
        /\ \A k \in 1..Len(u) - f : LStrip(u)[k] = u[f + k]
    BY <2>1, LStripIs
  <2>4. p - i \in 1..Len(u) /\ u[p - i] \notin White
    <3>1. p - i \in 1..Len(s) - i /\ i + (p - i) = p
      BY <1>1
    <3> QED BY <3>1, <2>1
  <2>5. f < Len(u)
    BY <2>3, <2>4
  <2>6. Leading(v) = f
    <3>1. 0 \in 0..Len(u) /\ RunEnd(u, 0, White) = f
      BY <2>1, <1>1 DEF Leading
    <3>2. RunEnd(v, 0, White) = RunEnd(u, 0, White)
      <4>1. u \in Seq(S) /\ v \in Seq(S) /\ RunEnd(u, 0, White) < Len(u)
        BY <2>1, <2>5, <3>1
      <4> QED BY <4>1, <3>1, <2>2, SameRun
    <3> QED BY <3>1, <3>2 DEF Leading
  <2>7. /\ LStrip(v) \in Seq(S) /\ Len(LStrip(v)) = Len(v) - f
        /\ \A k \in 1..Len(v) - f : LStrip(v)[k] = v[f + k]
    <3>1. v \in Seq(S)
      BY <2>1
    <3>2. /\ LStrip(v) \in Seq(S) /\ Len(LStrip(v)) = Len(v) - Leading(v)
          /\ \A k \in 1..Len(v) - Leading(v) : LStrip(v)[k] = v[Leading(v) + k]
      BY <3>1, LStripIs
    <3> HIDE DEF f
    <3> QED BY <3>2, <2>6
  <2> HIDE DEF f
  <2>8. f + 1 \in 1..Len(u) /\ 1 \in 1..Len(u) - f /\ 1 \in 1..Len(v) - f /\ Len(u) <= Len(v)
    BY <2>1, <2>2, <2>3, <2>5, <1>1 DEF Grows
  <2>9. v[f + 1] = u[f + 1]
    BY <2>2, <2>8 DEF Grows
  <2>10. LStrip(u)[1] = u[f + 1] /\ LStrip(v)[1] = v[f + 1]
    BY <2>3, <2>7, <2>8
  <2>11. LStrip(u) # <<>> /\ LStrip(v) # <<>>
    BY <2>3, <2>7, <2>8
  <2> DEFINE token == TokenBefore(s, i)
  <2>12. LET before == i - 1 - Len(token) IN before > 0 => before \in 1..i
    BY <1>8, <1>1
  <2> QED BY <1>2, <1>8, <2>9, <2>10, <2>11, <2>12 DEF IsPrefixAbbrevPeriod, u, v
<1>12. IsTokenJoiningDash(s, m) => IsTokenJoiningDash(t, n)
  <2>1. RunEnd(t, i, White) = RunEnd(s, i, White)
    BY <1>1, <1>6, SameRun
  <2>2. i > 1 => i - 1 \in 1..i
    BY <1>1
  <2> QED BY <1>2, <1>3, <1>4, <1>5, <2>1, <2>2 DEF IsTokenJoiningDash
<1> HIDE DEF m, n
<1> QED BY <1>2, <1>3, <1>4, <1>5, <1>7, <1>10, <1>11, <1>12 DEF IsIntraTokenSeparator, m, n

--------------------------------------------------------------------------------
(* What a scan has settled. *)

Kinds == {LineBreak, SentenceEnd, ClauseEnd}

\* The first off characters of s have no boundary, whatever follows s.
Firm(s, off, split) ==
  /\ off \in 0..Len(s) /\ (off = 0 \/ s[off] \notin Delimiters)
  /\ \A k \in 1..off : s[k] \notin LineBreak
  /\ \A t \in Seq(Chars) : Grows(s, t) => \A m \in Boundaries(t, 0, split) : m.start > off

\* A match, and where it lies.
LEMMA MatchIs ==
  ASSUME NEW S, NEW s \in Seq(S), NEW off \in 0..Len(s), NEW class, NEW i \in Starts(s, off, class)
  PROVE  LET m == Match(s, i, class)
         IN  /\ i \in off + 1..Len(s) /\ s[i] \in class
             /\ m.start = i /\ m.stop \in i..Len(s) /\ m.end \in m.stop..Len(s)
             /\ \A k \in i..m.stop : s[k] \in class
             /\ \A k \in m.stop + 1..m.end : s[k] \in White
<1> DEFINE m == Match(s, i, class)
<1>1. i \in off + 1..Len(s) /\ s[i] \in class /\ i \in 0..Len(s) /\ Len(s) \in Nat
  BY DEF Starts
<1>2. m.start = i /\ m.stop = RunEnd(s, i, class) /\ m.end = RunEnd(s, m.stop, White)
  BY DEF Match
<1> HIDE DEF m
<1>3. m.stop \in i..Len(s) /\ \A k \in i + 1..m.stop : s[k] \in class
  BY <1>1, <1>2, RunEnds
<1>4. m.stop \in 0..Len(s)
  BY <1>1, <1>3
<1>5. m.end \in m.stop..Len(s) /\ \A k \in m.stop + 1..m.end : s[k] \in White
  BY <1>2, <1>4, RunEnds
<1>6. \A k \in i..m.stop : k = i \/ k \in i + 1..m.stop
  BY <1>1, <1>3
<1> QED BY <1>1, <1>2, <1>3, <1>5, <1>6 DEF m

\* A scan from there finds what a scan of everything finds.
LEMMA SameStarts ==
  ASSUME NEW t \in Seq(Chars), NEW off \in 0..Len(t), off = 0 \/ t[off] \notin Delimiters,
         \A k \in 1..off : t[k] \notin LineBreak, NEW class \in Kinds
  PROVE  Starts(t, off, class) = {i \in Starts(t, 0, class) : i > off}
<1>1. ASSUME NEW i \in Starts(t, 0, class), i > off PROVE i \in Starts(t, off, class)
  <2>1. i \in off + 1..Len(t) /\ \A j \in off + 1..i - 1 : j \in 0 + 1..i - 1
    BY <1>1 DEF Starts
  <2> QED BY <1>1, <2>1 DEF Starts
<1>2. ASSUME NEW i \in Starts(t, off, class) PROVE i \in Starts(t, 0, class) /\ i > off
  <2>1. i \in 0 + 1..Len(t) /\ t[i] \in class /\ i > off
    BY <1>2 DEF Starts
  <2>2. ASSUME NEW j \in 0 + 1..i - 1, t[j] \in class, All(t, j, i, class) \/ All(t, j, i, White)
        PROVE  FALSE
    <3>1. ~(j \in off + 1..i - 1)
      BY <1>2, <2>2 DEF Starts
    <3>2. j \in 1..off /\ off \in j..i /\ off # 0
      BY <3>1, <2>1
    <3>3. CASE All(t, j, i, class)
      <4>1. t[off] \in class
        BY <3>2, <3>3 DEF All
      <4> QED BY <4>1, <3>2, Classes DEF Kinds
    <3>4. CASE All(t, j, i, White)
      <4>1. t[j] \in White
        <5>1. j \in j..i
          BY <3>2, <2>1
        <5> QED BY <5>1, <3>4 DEF All
      <4>2. class = LineBreak
        BY <4>1, <2>2, Classes DEF Kinds
      <4> QED BY <4>2, <2>2, <3>2
    <3> QED BY <2>2, <3>3, <3>4
  <2> QED BY <2>1, <2>2 DEF Starts
<1> QED BY <1>1, <1>2

\* Behind a firm offset a scan finds the boundaries of a scan from the start.
LEMMA SameBoundaries ==
  ASSUME NEW s \in Seq(Chars), NEW off, NEW split, Firm(s, off, split), NEW t \in Seq(Chars), Grows(s, t)
  PROVE  Boundaries(t, off, split) = Boundaries(t, 0, split)
<1>1. /\ off \in 0..Len(t) /\ off \in 0..Len(s) /\ (off = 0 \/ t[off] \notin Delimiters)
      /\ \A k \in 1..off : t[k] \notin LineBreak
  BY DEF Firm, Grows
<1>2. \A class \in Kinds : Starts(t, off, class) = {i \in Starts(t, 0, class) : i > off}
  BY <1>1, SameStarts
<1>3. \A m \in Boundaries(t, 0, split) : m.start > off
  BY DEF Firm
<1>4. \A class, i : Match(t, i, class).start = i
  BY DEF Match
<1>5. \A class \in Kinds : Matches(t, off, class) = {m \in Matches(t, 0, class) : m.start > off}
  BY <1>2, <1>4 DEF Matches
<1>6. ClauseMatches(t, off, split) = {m \in ClauseMatches(t, 0, split) : m.start > off}
  BY <1>5 DEF ClauseMatches, Kinds
<1>7. /\ Matches(t, off, LineBreak) = {m \in Matches(t, 0, LineBreak) : m.start > off}
      /\ Matches(t, off, SentenceEnd) = {m \in Matches(t, 0, SentenceEnd) : m.start > off}
  BY <1>5 DEF Kinds
<1>8. Boundaries(t, off, split) = {m \in Boundaries(t, 0, split) : m.start > off}
  BY <1>6, <1>7 DEF Boundaries
<1> QED BY <1>3, <1>8

\* An offset that is firm stays so when more text arrives.
LEMMA FirmGrows ==
  ASSUME NEW s \in Seq(Chars), NEW off, NEW split, Firm(s, off, split), NEW t \in Seq(Chars), Grows(s, t)
  PROVE  Firm(t, off, split)
<1>1. /\ off \in 0..Len(t) /\ (off = 0 \/ t[off] \notin Delimiters)
      /\ \A k \in 1..off : t[k] \notin LineBreak
  BY DEF Firm, Grows
<1>2. \A u \in Seq(Chars) : Grows(t, u) => Grows(s, u)
  BY GrowsMore
<1> QED BY <1>1, <1>2 DEF Firm

\* The offset of a new window is firm.
LEMMA FirmFresh ==
  ASSUME NEW s \in Seq(Chars), NEW split
  PROVE  Firm(s, 0, split)
<1>1. ASSUME NEW t \in Seq(Chars), NEW m \in Boundaries(t, 0, split)
      PROVE  m.start > 0
  <2>1. PICK class \in Kinds : m \in Matches(t, 0, class)
    BY DEF Boundaries, ClauseMatches, Kinds
  <2>2. PICK i \in Starts(t, 0, class) : m = Match(t, i, class)
    BY <2>1 DEF Matches
  <2>3. m.start = i /\ i \in 0 + 1..Len(t)
    BY <2>2 DEF Match, Starts
  <2> QED BY <2>3
<1> QED BY <1>1 DEF Firm

\* The offset for the next scan is not beyond the last match of a kind.
LEMMA LatestIs ==
  ASSUME NEW n \in Nat, NEW ms, \A m \in ms : m.start \in 1..n, NEW o \in Nat,
         \A x \in Latest(ms) : o <= x, NEW m0 \in ms
  PROVE  \E m \in ms : o < m.start
<1> DEFINE T == {m.start - 1 : m \in ms}
<1>1. T \subseteq 0..n /\ T # {}
  OBVIOUS
<1>2. Max(T) \in T
  <2> HIDE DEF T
  <2> QED BY <1>1, Highest
<1>3. Latest(ms) = {Max(T)}
  BY DEF Latest
<1>4. o <= Max(T)
  BY <1>3
<1> QED BY <1>2, <1>4

\* _resume_offset: the offset is at no later place than the last match of a kind.
LEMMA ResumeIs ==
  ASSUME NEW s \in Seq(Chars), NEW off \in 0..Len(s), NEW split
  PROVE  \E o \in 0..Len(s) :
           /\ Resume(s, off, split) = Widen(s, o)
           /\ \A x \in Latest(Matches(s, off, SentenceEnd)) : o <= x
           /\ \A x \in Latest({m \in ClauseMatches(s, off, split) : MayGrow(s, m)}) : o <= x
<1> DEFINE A == Latest(Matches(s, off, LineBreak))
           B == Latest(Matches(s, off, SentenceEnd))
           C == Latest({m \in ClauseMatches(s, off, split) : MayGrow(s, m)})
           T == {Len(s)} \cup A \cup B \cup C
<1>0. Len(s) \in Nat
  OBVIOUS
<1>1. \A class \in Kinds : \A m \in Matches(s, off, class) : m.start \in 1..Len(s)
  <2> SUFFICES ASSUME NEW class \in Kinds, NEW i \in Starts(s, off, class)
               PROVE  Match(s, i, class).start \in 1..Len(s)
    BY DEF Matches
  <2> QED BY DEF Match, Starts
<1>2. \A ms : (\A m \in ms : m.start \in 1..Len(s)) => Latest(ms) \subseteq Nat
  <2> SUFFICES ASSUME NEW ms, ms # {}, \A m \in ms : m.start \in 1..Len(s)
               PROVE  Max({m.start - 1 : m \in ms}) \in Nat
    BY DEF Latest
  <2> DEFINE U == {m.start - 1 : m \in ms}
  <2>1. U \subseteq 0..Len(s) /\ U # {}
    BY <1>0
  <2>2. Max(U) \in U
    <3> HIDE DEF U
    <3> QED BY <2>1, <1>0, Highest
  <2> QED BY <2>1, <2>2, <1>0
<1>3. \A m \in ClauseMatches(s, off, split) : m.start \in 1..Len(s)
  BY <1>1 DEF ClauseMatches, Kinds
<1>4. A \subseteq Nat /\ B \subseteq Nat /\ C \subseteq Nat
  BY <1>1, <1>2, <1>3 DEF Kinds
<1> HIDE DEF A, B, C
<1>5. T \subseteq Nat /\ Len(s) \in T
  BY <1>0, <1>4
<1>6. Min(T) \in T /\ \A x \in T : Min(T) <= x
  <2> HIDE DEF T
  <2> QED BY <1>5, Lowest
<1>7. Min(T) \in 0..Len(s) /\ (\A x \in B : Min(T) <= x) /\ (\A x \in C : Min(T) <= x)
  <2>1. Min(T) \in Nat /\ Min(T) <= Len(s)
    BY <1>5, <1>6
  <2>2. B \subseteq T /\ C \subseteq T
    OBVIOUS
  <2> HIDE DEF T
  <2> QED BY <1>0, <1>6, <2>1, <2>2
<1>8. Resume(s, off, split) = Widen(s, Min(T))
  BY DEF Resume, T, A, B, C
<1> HIDE DEF T
<1> QED BY <1>7, <1>8 DEF B, C

\* What a scan without a boundary settles.
LEMMA Resumed ==
  ASSUME NEW s \in Seq(Chars), NEW off, NEW split \in BOOLEAN, Firm(s, off, split),
         Boundaries(s, off, split) = {}
  PROVE  Firm(s, Resume(s, off, split), split)
<1>0. off \in 0..Len(s) /\ Len(s) \in Nat
  BY DEF Firm
<1>1. PICK o \in 0..Len(s) :
        /\ Resume(s, off, split) = Widen(s, o)
        /\ \A x \in Latest(Matches(s, off, SentenceEnd)) : o <= x
        /\ \A x \in Latest({m \in ClauseMatches(s, off, split) : MayGrow(s, m)}) : o <= x
  BY <1>0, ResumeIs
<1> DEFINE n == Widen(s, o)
<1>2. n \in 0..o /\ (n = 0 \/ s[n] \notin Delimiters)
  <2>1. LET w == LastOutside(s, o, Delimiters)
        IN  /\ w \in 0..o /\ (w = 0 \/ s[w] \notin Delimiters)
            /\ \A k \in w + 1..o : s[k] \in Delimiters
    BY Outside
  <2> QED BY <2>1 DEF Widen
<1> HIDE DEF n
<1>3. \A k \in 1..Len(s) : s[k] \notin LineBreak
  <2> SUFFICES ASSUME NEW k0 \in 1..Len(s), s[k0] \in LineBreak PROVE FALSE
    OBVIOUS
  <2> DEFINE T == {k \in off + 1..Len(s) : s[k] \in LineBreak}
  <2>1. k0 \in off + 1..Len(s)
    BY <1>0 DEF Firm
  <2>2. T \subseteq Nat /\ T # {}
    BY <2>1, <1>0
  <2>3. PICK k \in T : \A x \in T : k <= x
    BY <2>2, Least
  <2>4. \A j \in off + 1..k - 1 : s[j] \notin LineBreak
    <3> SUFFICES ASSUME NEW j \in off + 1..k - 1, s[j] \in LineBreak PROVE FALSE
      OBVIOUS
    <3>1. j \in T /\ j < k
      BY <1>0, <2>3
    <3> QED BY <3>1, <2>3, <2>2
  <2>5. k \in Starts(s, off, LineBreak)
    BY <2>3, <2>4 DEF Starts
  <2>6. Match(s, k, LineBreak) \in Matches(s, off, LineBreak)
    BY <2>5 DEF Matches
  <2>7. ~IsIntraTokenSeparator(s, Match(s, k, LineBreak))
    <3>1. Match(s, k, LineBreak).start = k /\ s[k] \notin {",", ".", "-"}
      BY <2>3, Classes DEF Match
    <3> QED BY <3>1 DEF IsIntraTokenSeparator
  <2> QED BY <2>6, <2>7 DEF Boundaries
<1>4. ASSUME NEW t \in Seq(Chars), Grows(s, t), NEW m \in Boundaries(t, 0, split), m.start <= n
      PROVE  FALSE
  <2>1. PICK class \in Kinds :
          /\ m \in Matches(t, 0, class) /\ ~IsIntraTokenSeparator(t, m)
          /\ class = ClauseEnd => split /\ m.end >= MinClause
    <3>1. ~IsIntraTokenSeparator(t, m) /\ LineBreak # ClauseEnd /\ SentenceEnd # ClauseEnd
      BY Classes DEF Boundaries
    <3>2. \/ m \in Matches(t, 0, LineBreak) \/ m \in Matches(t, 0, SentenceEnd)
          \/ m \in ClauseMatches(t, 0, split) /\ m.end >= MinClause
      BY DEF Boundaries
    <3>3. m \in ClauseMatches(t, 0, split) => split /\ m \in Matches(t, 0, ClauseEnd)
      BY DEF ClauseMatches
    <3> QED BY <3>1, <3>2, <3>3 DEF Kinds
  <2>2. PICK i \in Starts(t, 0, class) : m = Match(t, i, class)
    BY <2>1 DEF Matches
  <2>3. m.start = i /\ i \in 1..Len(t) /\ i <= n
    BY <2>2, <1>4 DEF Match, Starts
  <2>4. i > off
    BY <2>3, <1>4 DEF Firm
  <2>5. i \in 1..Len(s) /\ i <= o /\ i \in 0..Len(s)
    BY <2>3, <1>0, <1>2
  <2>6. \A k \in 1..i : t[k] = s[k]
    BY <2>5, <1>4 DEF Grows
  <2>7. i \in Starts(s, off, class)
    <3>1. i \in off + 1..Len(s) /\ s[i] \in class
      BY <2>2, <2>4, <2>5, <2>6, <1>0 DEF Starts
    <3>2. ASSUME NEW j \in off + 1..i - 1, s[j] \in class, All(s, j, i, class) \/ All(s, j, i, White)
          PROVE  FALSE
      <4>1. j \in 0 + 1..i - 1 /\ \A k \in j..i : k \in 1..i
        BY <1>0, <2>5
      <4>2. t[j] \in class /\ (All(t, j, i, class) \/ All(t, j, i, White))
        <5>1. t[j] = s[j] /\ \A k \in j..i : t[k] = s[k]
          BY <4>1, <2>5, <2>6
        <5> QED BY <5>1, <3>2 DEF All
      <4> QED BY <4>1, <4>2, <2>2 DEF Starts
    <3> QED BY <3>1, <3>2 DEF Starts
  <2> DEFINE m0 == Match(s, i, class)
  <2>8. /\ m0.start = i /\ m0.stop \in i..Len(s) /\ m0.end \in m0.stop..Len(s)
        /\ \A k \in i..m0.stop : s[k] \in class
        /\ \A k \in m0.stop + 1..m0.end : s[k] \in White
    BY <2>7, <1>0, MatchIs
  <2>9. m0 \in Matches(s, off, class) /\ m0.stop = RunEnd(s, i, class) /\ m0.end = RunEnd(s, m0.stop, White)
    BY <2>7 DEF Matches, Match
  <2>10. class # LineBreak
    BY <1>3, <2>5, <2>7 DEF Starts
  <2> HIDE DEF m0
  <2>11. IsIntraTokenSeparator(s, m0) => \A p \in i + 1..Len(s) : s[p] \notin SentenceEnd \cup ClauseEnd
    <3> SUFFICES ASSUME NEW p \in i + 1..Len(s), s[p] \in SentenceEnd \cup ClauseEnd,
                        IsIntraTokenSeparator(s, Match(s, i, class))
                 PROVE  FALSE
      BY DEF m0
    <3>1. s[p] \notin White \cup Alnum
      BY Classes
    <3>2. IsIntraTokenSeparator(t, Match(t, i, class))
      BY <3>1, <2>5, <1>4, SameSeparator
    <3> QED BY <3>2, <2>1, <2>2
  <2>12. CASE class = SentenceEnd
    <3>1. IsIntraTokenSeparator(s, m0)
      BY <2>9, <2>12 DEF Boundaries
    <3> DEFINE ms == Matches(s, off, SentenceEnd)
    <3>2. \A x \in ms : x.start \in 1..Len(s) /\ s[x.start] \in SentenceEnd
      <4> SUFFICES ASSUME NEW h \in Starts(s, off, SentenceEnd)
                   PROVE  Match(s, h, SentenceEnd).start \in 1..Len(s)
                          /\ s[Match(s, h, SentenceEnd).start] \in SentenceEnd
        BY DEF Matches
      <4> QED BY <1>0 DEF Match, Starts
    <3>3. m0 \in ms /\ (\A x \in Latest(ms) : o <= x) /\ o \in Nat
      BY <2>9, <2>12, <1>1
    <3> HIDE DEF ms
    <3>4. PICK x \in ms : o < x.start
      BY <3>2, <3>3, <1>0, LatestIs
    <3>5. x.start \in i + 1..Len(s)
      BY <3>2, <3>4, <2>5, <1>0
    <3> QED BY <3>1, <3>2, <3>5, <2>11
  <2>13. CASE class = ClauseEnd
    <3> DEFINE ms == {x \in ClauseMatches(s, off, split) : MayGrow(s, x)}
    <3>1. m0 \in ClauseMatches(s, off, split)
      BY <2>1, <2>9, <2>13 DEF ClauseMatches
    <3>2. \A x \in ms : /\ x.start \in 1..Len(s) /\ s[x.start] \in ClauseEnd
                        /\ \E h \in Starts(s, off, ClauseEnd) : x.start = h
      <4> SUFFICES ASSUME NEW h \in Starts(s, off, ClauseEnd)
                   PROVE  Match(s, h, ClauseEnd).start = h /\ h \in 1..Len(s) /\ s[h] \in ClauseEnd
        BY DEF Matches, ClauseMatches
      <4> QED BY <1>0 DEF Match, Starts
    <3>3. (\A x \in Latest(ms) : o <= x) /\ o \in Nat
      BY <1>1
    <3> HIDE DEF ms
    <3>4. m0 \in ms => \E h \in Starts(s, off, ClauseEnd) : h \in i + 1..Len(s) /\ s[h] \in ClauseEnd
      <4> SUFFICES ASSUME m0 \in ms
                   PROVE  \E h \in Starts(s, off, ClauseEnd) : h \in i + 1..Len(s) /\ s[h] \in ClauseEnd
        OBVIOUS
      <4>1. PICK x \in ms : o < x.start
        BY <3>2, <3>3, <1>0, LatestIs
      <4>2. x.start \in i + 1..Len(s)
        BY <3>2, <4>1, <2>5, <1>0
      <4> QED BY <3>2, <4>2
    <3>5. m0.end # Len(s)
      <4> SUFFICES ASSUME m0.end = Len(s) PROVE FALSE
        OBVIOUS
      <4>1. m0 \in ms
        BY <3>1 DEF ms, MayGrow
      <4>2. PICK h \in Starts(s, off, ClauseEnd) : h \in i + 1..Len(s) /\ s[h] \in ClauseEnd
        BY <3>4, <4>1
      <4>3. h <= m0.stop
        <5> SUFFICES ASSUME h > m0.stop PROVE FALSE
          BY <2>8, <4>2, <1>0
        <5>1. h \in m0.stop + 1..m0.end
          BY <4>2, <2>8, <1>0
        <5>2. s[h] \in White
          BY <5>1, <2>8
        <5> QED BY <5>2, <4>2, Classes
      <4>4. \A k \in i..h : k \in i..m0.stop
        BY <4>2, <4>3, <2>8, <1>0
      <4>5. All(s, i, h, ClauseEnd) /\ i \in off + 1..h - 1 /\ s[i] \in ClauseEnd
        BY <4>2, <4>4, <2>4, <2>5, <2>8, <2>13, <1>0 DEF All
      <4> QED BY <4>2, <4>5 DEF Starts
    <3>6. m0.stop < Len(s) /\ m0.end < Len(s) /\ m0.stop \in 0..Len(s)
      BY <3>5, <2>8, <2>5
    <3>7. RunEnd(t, i, class) = m0.stop
      BY <3>6, <2>5, <2>9, <1>4, SameRun
    <3>8. RunEnd(t, m0.stop, White) = m0.end
      BY <3>6, <2>9, <1>4, SameRun
    <3>9. m.end = m0.end
      BY <3>7, <3>8, <2>2 DEF Match
    <3>10. m0.end >= MinClause
      BY <3>9, <2>1, <2>13
    <3>11. IsIntraTokenSeparator(s, m0)
      BY <3>1, <3>10 DEF Boundaries
    <3>12. m0 \in ms
      BY <3>1, <3>10 DEF ms, MayGrow
    <3> QED BY <3>4, <3>11, <3>12, <2>11
  <2> QED BY <2>10, <2>12, <2>13 DEF Kinds
<1>5. \A t \in Seq(Chars) : Grows(s, t) => \A m \in Boundaries(t, 0, split) : m.start > n
  <2> SUFFICES ASSUME NEW t \in Seq(Chars), Grows(s, t), NEW m \in Boundaries(t, 0, split)
               PROVE  m.start > n
    OBVIOUS
  <2>1. m.start \in Int
    <3>1. PICK class \in Kinds : m \in Matches(t, 0, class)
      BY DEF Boundaries, ClauseMatches, Kinds
    <3>2. PICK i \in Starts(t, 0, class) : m = Match(t, i, class)
      BY <3>1 DEF Matches
    <3> QED BY <3>2 DEF Match, Starts
  <2>2. ~(m.start <= n)
    BY <1>4
  <2> QED BY <2>1, <2>2, <1>2
<1>6. n \in 0..Len(s) /\ \A k \in 1..n : s[k] \notin LineBreak
  BY <1>0, <1>2, <1>3
<1>7. Firm(s, n, split)
  BY <1>2, <1>5, <1>6 DEF Firm
<1> QED BY <1>1, <1>7 DEF n

--------------------------------------------------------------------------------
(* Where clauses lie in a text. *)

\* Delimiter d after x may join a token, as it does before y.
Joins(x, d)  == x \in Alnum /\ (d = "-" \/ (x \in Digit /\ d \in {",", "."}))
GoesOn(d, y) == y \notin White /\ (d = "-" \/ y \in Digit)

\* Nothing that joins a token ends a clause: neither does the text go on after the last
\* character n of one as a token does, nor may it.
Uncut(t, complete, n) ==
  n > 1 /\ Joins(t[n - 1], t[n]) => IF n = Len(t) THEN complete ELSE ~GoesOn(t[n], t[n + 1])

\* The boundary taken is a match that joins no token.
LEMMA FirstIs ==
  ASSUME NEW s \in Seq(Chars), NEW off \in 0..Len(s), NEW split, Boundaries(s, off, split) # {}
  PROVE  \E class \in Kinds : \E i \in Starts(s, off, class) :
           /\ FirstMatch(Boundaries(s, off, split)) = Match(s, i, class)
           /\ ~IsIntraTokenSeparator(s, Match(s, i, class))
<1> DEFINE ms == Boundaries(s, off, split)
           T == {m.start : m \in ms}
<1>1. \A m \in ms : \E class \in Kinds : m \in Matches(s, off, class) /\ ~IsIntraTokenSeparator(s, m)
  BY DEF Boundaries, ClauseMatches, Kinds
<1>2. \A m \in ms : \E class \in Kinds : \E i \in Starts(s, off, class) : m = Match(s, i, class)
  BY <1>1 DEF Matches
<1>3. \A m \in ms : m.start \in Nat
  BY <1>2 DEF Match, Starts
<1> HIDE DEF ms
<1>4. T \subseteq Nat /\ T # {}
  BY <1>3 DEF ms
<1>5. PICK x \in T : \A y \in T : x <= y
  BY <1>4, Least
<1>6. \E m \in ms : \A n \in ms : m.start <= n.start
  BY <1>5
<1>7. FirstMatch(ms) \in ms
  BY <1>6 DEF FirstMatch
<1>8. PICK class \in Kinds : FirstMatch(ms) \in Matches(s, off, class) /\ ~IsIntraTokenSeparator(s, FirstMatch(ms))
  BY <1>1, <1>7
<1>9. PICK i \in Starts(s, off, class) : FirstMatch(ms) = Match(s, i, class)
  BY <1>8 DEF Matches
<1> QED BY <1>8, <1>9 DEF ms

\* A boundary is where no token is cut.
LEMMA BoundaryUncut ==
  ASSUME NEW s \in Seq(Chars), NEW off \in 0..Len(s), NEW class \in Kinds,
         NEW i \in Starts(s, off, class), ~IsIntraTokenSeparator(s, Match(s, i, class)),
         NEW a \in 1..Match(s, i, class).end, s[a] \notin White,
         \A k \in a + 1..Match(s, i, class).end : s[k] \in White
  PROVE  Uncut(s, FALSE, a)
<1> DEFINE m == Match(s, i, class)
<1>1. /\ i \in 1..Len(s) /\ s[i] \in class
      /\ m.start = i /\ m.stop \in i..Len(s) /\ m.end \in m.stop..Len(s)
      /\ \A k \in i..m.stop : s[k] \in class
      /\ \A k \in m.stop + 1..m.end : s[k] \in White
  BY MatchIs
<1>2. m.stop = RunEnd(s, i, class) /\ m.end = RunEnd(s, m.stop, White) /\ a \in 1..m.end
      /\ ~IsIntraTokenSeparator(s, m) /\ \A k \in a + 1..m.end : s[k] \in White
  BY DEF Match
<1> HIDE DEF m
<1> DEFINE stop == m.stop
           end == m.end
<1>3. /\ i \in Nat /\ stop \in Nat /\ end \in Nat /\ a \in Nat /\ Len(s) \in Nat
      /\ 1 <= i /\ i <= stop /\ stop <= end /\ end <= Len(s) /\ a <= end
  <2>1. Len(s) \in Nat /\ i \in Nat /\ 1 <= i
    BY <1>1
  <2>2. stop \in Nat /\ i <= stop
    BY <2>1, <1>1
  <2>3. end \in Nat /\ stop <= end /\ end <= Len(s)
    BY <2>1, <2>2, <1>1
  <2> QED BY <2>1, <2>2, <2>3, <1>2
<1>4. /\ m.start = i /\ s[i] \in class
      /\ \A k \in i..stop : s[k] \in class
      /\ \A k \in stop + 1..end : s[k] \in White
      /\ \A k \in a + 1..end : s[k] \in White
      /\ ~IsIntraTokenSeparator(s, m) /\ m.stop = stop /\ m.end = end
  BY <1>1, <1>2
<1> HIDE DEF stop, end
<1>5. CASE class = LineBreak
  <2>1. \A k \in i..end : s[k] \in White
    <3>1. \A k \in i..end : k \in i..stop \/ k \in stop + 1..end
      BY <1>3
    <3> QED BY <3>1, <1>4, <1>5, Classes
  <2>2. a < i
    <3>1. ~(a \in i..end)
      BY <2>1
    <3> QED BY <3>1, <1>3
  <2>3. a + 1 \in a + 1..end /\ a # Len(s)
    BY <2>2, <1>3
  <2>4. s[a + 1] \in White
    BY <2>3, <1>4
  <2> QED BY <2>3, <2>4 DEF Uncut, GoesOn
<1>6. CASE class # LineBreak
  <2>1. class \cap White = {} /\ class \cap Alnum = {}
    BY <1>6, Classes DEF Kinds
  <2>2. a = stop
    <3>1. ~(a > stop)
      <4>1. a > stop => a \in stop + 1..end
        BY <1>3
      <4> QED BY <4>1, <1>4
    <3>2. ~(a < stop)
      <4>1. a < stop => stop \in a + 1..end /\ stop \in i..stop
        BY <1>3
      <4> QED BY <4>1, <1>4, <2>1
    <3> QED BY <3>1, <3>2, <1>3
  <2>3. a > 1 /\ s[a - 1] \in Alnum => i = a
    <3>1. a > 1 /\ i < a => a - 1 \in i..stop
      BY <2>2, <1>3
    <3> QED BY <3>1, <2>1, <2>2, <1>3, <1>4
  <2>4. end # stop => s[a + 1] \in White /\ a # Len(s)
    <3>1. end # stop => a + 1 \in stop + 1..end /\ a # Len(s)
      BY <2>2, <1>3
    <3> QED BY <3>1, <1>4
  <2>5. ASSUME a > 1, s[a - 1] \in Alnum, s[a] = "-"
        PROVE  s[a + 1] \in White /\ a # Len(s)
    <3>1. ~IsTokenJoiningDash(s, m)
      BY <1>4, <2>2, <2>3, <2>5 DEF IsIntraTokenSeparator
    <3>2. s[a - 1] \notin White
      BY <2>5, Classes
    <3>3. end # stop
      BY <3>1, <3>2, <1>4, <2>3, <2>5 DEF IsTokenJoiningDash
    <3> QED BY <3>3, <2>4
  <2>6. ASSUME a > 1, s[a - 1] \in Alnum, s[a - 1] \in Digit, s[a] \in {",", "."}
        PROVE  s[a + 1] \notin Digit /\ a # Len(s)
    <3>1. ~IsNumericSeparator(s, a)
      BY <1>4, <2>2, <2>3, <2>6 DEF IsIntraTokenSeparator
    <3> QED BY <3>1, <2>6 DEF IsNumericSeparator
  <2>7. "-" \notin {",", "."}
    OBVIOUS
  <2> QED BY <2>5, <2>6, <2>7 DEF Uncut, Joins, GoesOn
<1> QED BY <1>5, <1>6

\* A turn of the loop parts the window.
LEMMA Parts ==
  ASSUME NEW s \in Seq(Chars), NEW off \in 0..Len(s), NEW split, Boundaries(s, off, split) # {}
  PROVE  LET head  == SubSeq(s, 1, FirstMatch(Boundaries(s, off, split)).end)
             piece == Strip(head)
             rest  == After(s, Len(head))
         IN  \E a \in 0..Len(s), d \in 1..Len(s) :
               /\ d = Len(s) - Len(rest) /\ rest = SubSeq(s, d + 1, Len(s)) /\ s[d] \notin Alnum
               /\ d < Len(s) => s[d + 1] \notin White
               /\ Leading(head) \in 0..Len(s)
               /\ \/ piece = <<>> /\ \A k \in 1..d : s[k] \in White
                  \/ /\ piece # <<>> /\ a \in Leading(head) + 1..d /\ Leading(head) + Len(piece) = a
                     /\ piece = SubSeq(s, Leading(head) + 1, a)
                     /\ s[Leading(head) + 1] \notin White /\ s[a] \notin White
                     /\ \A k \in 1..Leading(head) : s[k] \in White
                     /\ \A k \in a + 1..d : s[k] \in White
                     /\ Uncut(s, FALSE, a)
<1>0. PICK class \in Kinds : \E i \in Starts(s, off, class) :
        /\ FirstMatch(Boundaries(s, off, split)) = Match(s, i, class)
        /\ ~IsIntraTokenSeparator(s, Match(s, i, class))
  BY FirstIs
<1>1. PICK i \in Starts(s, off, class) :
        /\ FirstMatch(Boundaries(s, off, split)) = Match(s, i, class)
        /\ ~IsIntraTokenSeparator(s, Match(s, i, class))
  BY <1>0
<1> DEFINE m == Match(s, i, class)
           end == m.end
           head == SubSeq(s, 1, end)
           lead == Leading(head)
           piece == Strip(head)
           tail == SubSeq(s, end + 1, Len(s))
           rest == LStrip(tail)
           d == end + Leading(tail)
<1>2. /\ i \in 1..Len(s) /\ s[i] \in class
      /\ m.start = i /\ m.stop \in i..Len(s) /\ m.end \in m.stop..Len(s)
      /\ \A k \in i..m.stop : s[k] \in class
      /\ \A k \in m.stop + 1..m.end : s[k] \in White
  BY MatchIs
<1> HIDE DEF m
<1>3. end \in 1..Len(s) /\ Len(s) \in Nat /\ s[end] \notin Alnum
  <2>1. end \in 1..Len(s) /\ Len(s) \in Nat
    BY <1>2
  <2>2. class \cap Alnum = {}
    BY Classes DEF Kinds
  <2>3. end = m.stop \/ end \in m.stop + 1..m.end
    BY <1>2
  <2>4. m.stop \in i..m.stop
    BY <1>2
  <2> QED BY <2>1, <2>2, <2>3, <2>4, <1>2, Classes
<1> HIDE DEF end
<1>4. head \in Seq(Chars) /\ Len(head) = end /\ \A k \in 1..end : head[k] = s[k]
  BY <1>3
<1>5. tail \in Seq(Chars) /\ Len(tail) = Len(s) - end /\ \A k \in 1..Len(s) - end : tail[k] = s[end + k]
  BY <1>3
<1> HIDE DEF head, tail
<1>6. /\ Leading(tail) \in 0..Len(tail) /\ \A k \in 1..Leading(tail) : tail[k] \in White
      /\ Leading(tail) < Len(tail) => tail[Leading(tail) + 1] \notin White
      /\ rest \in Seq(Chars) /\ Len(rest) = Len(tail) - Leading(tail)
      /\ \A k \in 1..Len(tail) - Leading(tail) : rest[k] = tail[Leading(tail) + k]
  BY <1>5, LStripIs
<1>7. d \in end..Len(s) /\ Len(rest) = Len(s) - d /\ d = Len(s) - Len(rest)
  <2> DEFINE q == Leading(tail)
  <2>1. q \in 0..Len(s) - end /\ Len(rest) = Len(s) - end - q
    BY <1>5, <1>6
  <2> HIDE DEF q, rest
  <2>2. end + q \in end..Len(s) /\ Len(rest) = Len(s) - (end + q) /\ end + q = Len(s) - Len(rest)
    BY <2>1, <1>3
  <2> QED BY <2>2 DEF q
<1>8. \A k \in end + 1..d : s[k] \in White
  <2> SUFFICES ASSUME NEW k \in end + 1..d PROVE s[k] \in White
    OBVIOUS
  <2>1. k - end \in 1..Leading(tail) /\ end + (k - end) = k /\ k - end \in 1..Len(s) - end
    <3> DEFINE q == Leading(tail)
    <3>1. q \in 0..Len(s) - end /\ k \in end + 1..end + q
      BY <1>5, <1>6
    <3> HIDE DEF q
    <3>2. k - end \in 1..q /\ end + (k - end) = k /\ k - end \in 1..Len(s) - end
      BY <3>1, <1>3
    <3> QED BY <3>2 DEF q
  <2>2. tail[k - end] = s[k]
    BY <2>1, <1>5
  <2> QED BY <2>1, <2>2, <1>6
<1>9. d < Len(s) => s[d + 1] \notin White
  <2> SUFFICES ASSUME d < Len(s) PROVE s[d + 1] \notin White
    OBVIOUS
  <2>1. Leading(tail) < Len(tail) /\ Leading(tail) + 1 \in 1..Len(s) - end /\ end + (Leading(tail) + 1) = d + 1
    BY <1>3, <1>5, <1>6, <1>7
  <2>2. tail[Leading(tail) + 1] = s[end + (Leading(tail) + 1)]
    BY <2>1, <1>5
  <2> QED BY <2>1, <2>2, <1>6
<1>10. rest = SubSeq(s, d + 1, Len(s))
  <2> DEFINE r == SubSeq(s, d + 1, Len(s))
  <2>1. r \in Seq(Chars) /\ Len(r) = Len(s) - d /\ \A k \in 1..Len(s) - d : r[k] = s[d + k]
    <3>1. d \in 0..Len(s)
      BY <1>3, <1>7
    <3> HIDE DEF d
    <3> QED BY <3>1, <1>3
  <2>2. \A k \in 1..Len(s) - d : rest[k] = s[d + k]
    <3> SUFFICES ASSUME NEW k \in 1..Len(s) - d PROVE rest[k] = s[d + k]
      OBVIOUS
    <3>1. /\ k \in 1..Len(tail) - Leading(tail) /\ Leading(tail) + k \in 1..Len(s) - end
          /\ end + (Leading(tail) + k) = d + k
      <4> DEFINE q == Leading(tail)
      <4>1. q \in 0..Len(s) - end /\ Len(tail) = Len(s) - end /\ d = end + q
        BY <1>5, <1>6
      <4> HIDE DEF q, d
      <4>2. k \in 1..Len(tail) - q /\ q + k \in 1..Len(s) - end /\ end + (q + k) = d + k
        BY <4>1, <1>3
      <4> QED BY <4>2 DEF q
    <3> QED BY <3>1, <1>5, <1>6
  <2> HIDE DEF r, rest, d
  <2>3. rest \in Seq(Chars) /\ Len(rest) = Len(r) /\ \A k \in 1..Len(r) : rest[k] = r[k]
    <3>1. Len(rest) = Len(r) /\ 1..Len(r) = 1..Len(s) - d
      BY <2>1, <1>7
    <3>2. rest \in Seq(Chars)
      BY <1>6
    <3> QED BY <2>1, <2>2, <3>1, <3>2
  <2>4. rest = r
    BY <2>1, <2>3, SeqEqual
  <2> QED BY <2>4 DEF r
<1>11. s[d] \notin Alnum
  <2>1. d = end \/ d \in end + 1..d
    BY <1>3, <1>7
  <2> QED BY <2>1, <1>3, <1>8, Classes
<1>12. After(s, Len(head)) = rest
  BY <1>4 DEF After, tail
<1> HIDE DEF d, rest
<1>13. CASE Strip(head) = <<>> /\ Leading(head) = Len(head) /\ \A k \in 1..Len(head) : head[k] \in White
  <2>1. \A k \in 1..d : s[k] \in White
    <3>1. \A k \in 1..d : k \in 1..end \/ k \in end + 1..d
      BY <1>3, <1>7
    <3> QED BY <3>1, <1>4, <1>8, <1>13
  <2>2. Leading(head) \in 0..Len(s) /\ 0 \in 0..Len(s) /\ d \in 1..Len(s)
    BY <1>3, <1>4, <1>7, <1>13
  <2> QED BY <1>1, <1>7, <1>9, <1>10, <1>11, <1>12, <1>13, <2>1, <2>2 DEF head, end, m
<1>14. CASE \E a \in Leading(head) + 1..Len(head) :
              /\ head[a] \notin White /\ head[Leading(head) + 1] \notin White
              /\ \A k \in 1..Leading(head) : head[k] \in White
              /\ \A k \in a + 1..Len(head) : head[k] \in White
              /\ Strip(head) = SubSeq(head, Leading(head) + 1, a) /\ Strip(head) # <<>>
              /\ Strip(head) \in Seq(Chars) /\ Len(Strip(head)) = a - Leading(head)
  <2>1. PICK a \in Leading(head) + 1..Len(head) :
              /\ head[a] \notin White /\ head[Leading(head) + 1] \notin White
              /\ \A k \in 1..Leading(head) : head[k] \in White
              /\ \A k \in a + 1..Len(head) : head[k] \in White
              /\ Strip(head) = SubSeq(head, Leading(head) + 1, a) /\ Strip(head) # <<>>
              /\ Strip(head) \in Seq(Chars) /\ Len(Strip(head)) = a - Leading(head)
    BY <1>14
  <2>2. Leading(head) \in 0..end
    BY <1>4, LStripIs
  <2>3. /\ lead \in 0..Len(s) /\ a \in lead + 1..end /\ lead + 1 \in 1..end /\ a \in 1..end
        /\ lead + Len(piece) = a /\ a \in 0..Len(s) /\ a \in lead + 1..d
    <3>1. /\ Len(head) = end /\ end \in 1..Len(s) /\ Len(s) \in Nat /\ d \in end..Len(s)
          /\ a \in lead + 1..Len(head) /\ lead \in 0..end /\ Len(piece) = a - lead
      BY <2>1, <2>2, <1>3, <1>4, <1>7
    <3> HIDE DEF lead, piece
    <3> QED BY <3>1
  <2>4. s[lead + 1] \notin White /\ s[a] \notin White /\ (\A k \in 1..lead : s[k] \in White)
        /\ \A k \in a + 1..end : s[k] \in White
    <3>1. \A k \in 1..lead : k \in 1..end
      BY <2>3, <1>3
    <3>2. \A k \in a + 1..end : k \in 1..end
      BY <2>3
    <3> QED BY <3>1, <3>2, <2>1, <2>3, <1>4
  <2>5. \A k \in a + 1..d : s[k] \in White
    <3>1. \A k \in a + 1..d : k \in a + 1..end \/ k \in end + 1..d
      BY <2>3, <1>3, <1>7
    <3> QED BY <3>1, <2>4, <1>8
  <2>6. piece = SubSeq(s, lead + 1, a)
    <3>1. Grows(head, s)
      BY <1>3, <1>4 DEF Grows
    <3>2. lead + 1 \in Nat \ {0} /\ a \in 0..Len(head)
      BY <2>3, <1>4
    <3>3. SubSeq(s, lead + 1, a) = SubSeq(head, lead + 1, a)
      <4> HIDE DEF lead
      <4> QED BY <3>1, <3>2, <1>4, SameSlice
    <3> QED BY <3>3, <2>1
  <2>7. Uncut(s, FALSE, a)
    <3>1. a \in 1..m.end /\ \A k \in a + 1..m.end : s[k] \in White
      BY <2>3, <2>4 DEF end
    <3> QED BY <3>1, <2>4, <1>1, BoundaryUncut DEF m
  <2>8. d \in 1..Len(s)
    BY <1>3, <1>7
  <2> HIDE DEF lead, piece
  <2> QED BY <1>1, <1>7, <1>9, <1>10, <1>11, <1>12, <2>1, <2>3, <2>4, <2>5, <2>6, <2>7, <2>8
          DEF head, end, m, lead, piece
<1> QED BY <1>4, <1>13, <1>14, StripIs

--------------------------------------------------------------------------------
(* The invariant of the detector. *)

\* Window b of text t begins after n characters.
Window(t, b, n) == n \in Nat /\ n + Len(b) <= Len(t) /\ \A k \in 1..Len(b) : b[k] = t[n + k]

\* Position i of what begins after n characters of the text is position m of the text.
IsAt(m, n, i) == m = n + i

\* Characters d + 1 to y of window b are characters v + 1 to w of the text.
IsPart(t, b, n, d, y, v, w) ==
  /\ t \in Seq(Chars) /\ b \in Seq(Chars) /\ Window(t, b, n)
  /\ d \in 0..Len(b) /\ y \in d..Len(b) /\ v = n + d /\ w = n + y

IsSlice(c, t, v, w) == c = SubSeq(t, v + 1, w)

\* Clause c lies at p, among the first n characters.
Placed(t, complete, n, c, p) ==
  /\ 1 <= p.from /\ p.from <= p.to /\ p.to <= n
  /\ c[1] = SubSeq(t, p.from, p.to) /\ t[p.from] \notin White /\ t[p.to] \notin White
  /\ Uncut(t, complete, p.to)

AllPlaced(t, complete, n, cs, ps) ==
  \A k \in 1..Len(ps) : Placed(t, complete, n, cs[k], ps[k]) /\ (k > 1 => ps[k - 1].to < ps[k].from)

Covered(t, b, n, ps) ==
  \A i \in 1..Len(t) : \/ t[i] \in White
                       \/ \E k \in 1..Len(ps) : ps[k].from <= i /\ i <= ps[k].to
                       \/ n < i /\ i <= n + Len(b)

\* The window of a block: it begins with a visible character, and its end is that of the text.
Bounded(t, b, n) ==
  /\ n + Len(b) >= 1 /\ t[n + Len(b)] \notin White
  /\ \A i \in n + Len(b) + 1..Len(t) : t[i] \in White
  /\ b # <<>> => b[1] \notin White

\* The separators of a block lie between its clauses.
NextAt(n, ps, k) == IF k < Len(ps) THEN ps[k + 1].from ELSE n + 1
Rejoined(t, n, st, cs, ps) ==
  \A k \in st + 1..Len(ps) :
    ps[k].to < NextAt(n, ps, k) /\ cs[k][2] = SubSeq(t, ps[k].to + 1, NextAt(n, ps, k) - 1)

DetectorTyped ==
  /\ received \in Seq(Chars) /\ Len(received) <= MaxText /\ split_clauses \in BOOLEAN
  /\ phase \in {"waiting", "draining", "over"} /\ block \in BOOLEAN
  /\ buffer \in Seq(Chars) /\ left \in Nat /\ left + Len(buffer) <= Len(received)
  /\ clauses \in Seq(Seq(Chars) \X Seq(Chars)) /\ places \in Seq([from : Nat, to : Nat])
  /\ Len(places) = Len(clauses) /\ streamed \in 0..Len(clauses)

\* Where the window lies.
Framed ==
  /\ Window(received, buffer, left)
  /\ ~block => left + Len(buffer) = Len(received) /\ phase # "over"
  /\ phase = "over" => buffer = <<>>
  /\ phase # "over" /\ left # 0 => received[left] \notin Alnum
  /\ block /\ phase # "over" => Bounded(received, buffer, left)

DetectorInv ==
  /\ DetectorTyped /\ Framed /\ Firm(buffer, offset, split_clauses)
  /\ AllPlaced(received, block, left, clauses, places)
  /\ Covered(received, buffer, left, places)
  /\ block => Rejoined(received, left, streamed, clauses, places)
  /\ phase = "over" /\ streamed < Len(places) => places[Len(places)].to = left

\* Characters and slices of a window are those of the text.
LEMMA WindowSlice ==
  ASSUME NEW t, NEW b, NEW n, NEW d, NEW y, NEW v, NEW w, IsPart(t, b, n, d, y, v, w)
  PROVE  IsSlice(SubSeq(b, d + 1, y), t, v, w)
<1> DEFINE p == SubSeq(b, d + 1, y)
           q == SubSeq(t, v + 1, w)
<1>1. /\ n \in Nat /\ n + Len(b) <= Len(t) /\ Len(b) \in Nat /\ Len(t) \in Nat /\ d \in Nat /\ y \in Nat
      /\ v = n + d /\ w = n + y /\ t \in Seq(Chars) /\ b \in Seq(Chars) /\ d \in 0..Len(b) /\ y \in d..Len(b)
  BY DEF Window, IsPart
<1>2. p \in Seq(Chars) /\ Len(p) = y - d /\ \A i \in 1..y - d : p[i] = b[d + i]
  BY <1>1
<1>3. q \in Seq(Chars) /\ Len(q) = y - d /\ \A i \in 1..y - d : q[i] = t[v + i]
  <2>1. v \in Nat /\ w \in Nat /\ v <= w /\ w <= Len(t) /\ w - v = y - d
    BY <1>1
  <2> QED BY <2>1, <1>1
<1> HIDE DEF p, q
<1>4. \A i \in 1..y - d : b[d + i] = t[v + i]
  <2> SUFFICES ASSUME NEW i \in 1..y - d PROVE b[d + i] = t[v + i]
    OBVIOUS
  <2>1. d + i \in 1..Len(b) /\ n + (d + i) = v + i
    BY <1>1
  <2> QED BY <2>1 DEF Window, IsPart
<1>5. p = q
  BY <1>2, <1>3, <1>4, SeqEqual
<1> QED BY <1>5 DEF p, q, IsSlice

\* A window is a slice of its text.
LEMMA WindowIsSlice ==
  ASSUME NEW S, NEW t \in Seq(S), NEW b \in Seq(S), NEW n, Window(t, b, n)
  PROVE  b = SubSeq(t, n + 1, n + Len(b))
<1> DEFINE q == SubSeq(t, n + 1, n + Len(b))
<1>1. n \in Nat /\ n + Len(b) <= Len(t) /\ Len(b) \in Nat /\ Len(t) \in Nat
  BY DEF Window
<1>2. n + 1 \in 1..Len(t) + 1 /\ n + Len(b) \in (n + 1) - 1..Len(t) /\ (n + Len(b)) - (n + 1) + 1 = Len(b)
  BY <1>1
<1>3. q \in Seq(S) /\ Len(q) = Len(b) /\ \A i \in 1..Len(b) : q[i] = t[n + i]
  <2> DEFINE v == n + 1
             w == n + Len(b)
  <2>1. v \in 1..Len(t) + 1 /\ w \in v - 1..Len(t) /\ w - v + 1 = Len(b)
    BY <1>2
  <2>2. v \in Nat /\ \A i \in 1..Len(b) : v + i - 1 = n + i
    BY <1>1
  <2> HIDE DEF v, w
  <2>3. /\ SubSeq(t, v, w) \in Seq(S) /\ Len(SubSeq(t, v, w)) = w - v + 1
        /\ \A i \in 1..w - v + 1 : SubSeq(t, v, w)[i] = t[v + i - 1]
    BY <2>1
  <2> QED BY <2>1, <2>2, <2>3 DEF v, w
<1> HIDE DEF q
<1>4. \A i \in 1..Len(b) : b[i] = q[i]
  BY <1>3 DEF Window
<1>5. b = q
  BY <1>3, <1>4, SeqEqual
<1> QED BY <1>5 DEF q

\* A part of a window is a window.
LEMMA WindowPart ==
  ASSUME NEW S, NEW t \in Seq(S), NEW b \in Seq(S), NEW n, Window(t, b, n),
         NEW d \in 0..Len(b), NEW y \in d..Len(b), NEW m, IsAt(m, n, d)
  PROVE  LET c == SubSeq(b, d + 1, y)
         IN  Window(t, c, m) /\ c \in Seq(S) /\ Len(c) = y - d /\ m + Len(c) = n + y
<1>1. n \in Nat /\ n + Len(b) <= Len(t) /\ Len(b) \in Nat /\ Len(t) \in Nat /\ d \in Nat /\ m = n + d
  BY DEF Window, IsAt
<1> DEFINE c == SubSeq(b, d + 1, y)
<1>2. c \in Seq(S) /\ Len(c) = y - d /\ \A i \in 1..y - d : c[i] = b[d + i]
  BY <1>1
<1> HIDE DEF c
<1>3. m \in Nat /\ m + Len(c) = n + y /\ n + y <= Len(t)
  BY <1>1, <1>2
<1>4. \A i \in 1..Len(c) : c[i] = t[m + i]
  <2> SUFFICES ASSUME NEW i \in 1..Len(c) PROVE c[i] = t[m + i]
    OBVIOUS
  <2>1. d + i \in 1..Len(b) /\ n + (d + i) = m + i /\ i \in 1..y - d
    BY <1>1, <1>2
  <2> QED BY <2>1, <1>2 DEF Window
<1> QED BY <1>2, <1>3, <1>4 DEF Window, c

\* What holds at a place in a window holds there in the text.
LEMMA UncutShift ==
  ASSUME NEW t \in Seq(Chars), NEW b \in Seq(Chars), NEW n, Window(t, b, n), NEW complete \in BOOLEAN,
         n # 0 => t[n] \notin Alnum, NEW a \in 1..Len(b), Uncut(b, FALSE, a)
  PROVE  Uncut(t, complete, n + a)
<1> DEFINE p == n + a
<1>1. n \in Nat /\ n + Len(b) <= Len(t) /\ Len(b) \in Nat /\ Len(t) \in Nat /\ a \in Nat /\ p \in Nat
  BY DEF Window
<1>2. t[p] = b[a]
  BY DEF Window
<1>3. a > 1 => t[p - 1] = b[a - 1]
  <2>1. a > 1 => a - 1 \in 1..Len(b) /\ n + (a - 1) = p - 1
    BY <1>1
  <2> QED BY <2>1 DEF Window
<1>4. a = 1 => p - 1 = n /\ (p > 1 => n # 0)
  BY <1>1
<1>5. a < Len(b) => p # Len(t) /\ a # Len(b) /\ t[p + 1] = b[a + 1]
  <2>1. a < Len(b) => a + 1 \in 1..Len(b) /\ n + (a + 1) = p + 1 /\ p # Len(t) /\ a # Len(b)
    BY <1>1
  <2> QED BY <2>1 DEF Window
<1>6. a = 1 \/ (a > 1 /\ (a = Len(b) \/ a < Len(b)))
  BY <1>1
<1> SUFFICES Uncut(t, complete, p)
  OBVIOUS
<1> HIDE DEF p
<1>7. CASE a = 1
  <2>1. p > 1 => ~Joins(t[p - 1], t[p])
    BY <1>4, <1>7 DEF Joins
  <2> QED BY <2>1 DEF Uncut
<1>8. CASE a > 1 /\ a = Len(b)
  <2>1. ~Joins(b[a - 1], b[a])
    BY <1>8 DEF Uncut
  <2>2. ~Joins(t[p - 1], t[p])
    BY <2>1, <1>2, <1>3, <1>8
  <2> QED BY <2>2 DEF Uncut
<1>9. CASE a > 1 /\ a < Len(b)
  <2>1. Joins(b[a - 1], b[a]) => ~GoesOn(b[a], b[a + 1])
    BY <1>5, <1>9 DEF Uncut
  <2>2. Joins(t[p - 1], t[p]) => p # Len(t) /\ ~GoesOn(t[p], t[p + 1])
    BY <2>1, <1>2, <1>3, <1>5, <1>9
  <2> QED BY <2>2 DEF Uncut
<1> QED BY <1>6, <1>7, <1>8, <1>9

\* What was handed out stays where it is when more text arrives, or none will.
LEMMA PlacedGrows ==
  ASSUME NEW t \in Seq(Chars), NEW u \in Seq(Chars), Grows(t, u), NEW complete \in BOOLEAN,
         NEW n \in 0..Len(t), NEW cs, NEW ps \in Seq([from : Nat, to : Nat]),
         AllPlaced(t, FALSE, n, cs, ps), NEW m \in Nat, n <= m
  PROVE  AllPlaced(u, complete, m, cs, ps)
<1> SUFFICES ASSUME NEW k \in 1..Len(ps) PROVE Placed(u, complete, m, cs[k], ps[k])
  BY DEF AllPlaced
<1> DEFINE f == ps[k].from
           e == ps[k].to
<1>1. f \in Nat /\ e \in Nat
  <2>1. ps[k] \in [from : Nat, to : Nat]
    <3> HIDE DEF f, e
    <3>1. k \in 1..Len(ps)
      OBVIOUS
    <3>2. ps \in [1..Len(ps) -> [from : Nat, to : Nat]]
      BY LenProperties
    <3> QED BY <3>1, <3>2
  <2> QED BY <2>1
<1>2. /\ 1 <= f /\ f <= e /\ e <= n
      /\ cs[k][1] = SubSeq(t, f, e) /\ t[f] \notin White /\ t[e] \notin White
      /\ Uncut(t, FALSE, e)
  BY DEF AllPlaced, Placed
<1> HIDE DEF f, e
<1>3. f \in 1..Len(t) /\ e \in 1..Len(t) /\ e <= m /\ e \in 0..Len(t) /\ f \in Nat \ {0} /\ Len(t) <= Len(u)
  <2>1. Len(t) \in Nat /\ n \in Nat /\ n <= Len(t)
    OBVIOUS
  <2>2. f \in Nat /\ e \in Nat /\ 1 <= f /\ f <= e /\ e <= n
    BY <1>1, <1>2
  <2>3. Len(t) <= Len(u)
    BY DEF Grows
  <2>4. f <= Len(t) /\ e <= Len(t) /\ e <= m /\ 1 <= e
    BY <2>1, <2>2
  <2> QED BY <2>1, <2>2, <2>3, <2>4
<1>4. u[f] = t[f] /\ u[e] = t[e]
  BY <1>3 DEF Grows
<1>5. SubSeq(u, f, e) = SubSeq(t, f, e)
  BY <1>3, SameSlice
<1>6. Uncut(u, complete, e)
  <2>1. e > 1 => e - 1 \in 1..Len(t)
    BY <1>3
  <2>2. e > 1 => u[e - 1] = t[e - 1]
    BY <2>1 DEF Grows
  <2>3. e # Len(t) => e + 1 \in 1..Len(t) /\ e # Len(u)
    BY <1>3
  <2>4. e # Len(t) => u[e + 1] = t[e + 1]
    BY <2>3 DEF Grows
  <2> QED BY <1>2, <1>4, <2>2, <2>3, <2>4 DEF Uncut
<1> QED BY <1>2, <1>3, <1>4, <1>5, <1>6 DEF Placed, f, e

\* The numbers of a place.
LEMMA PlaceType ==
  ASSUME NEW ps \in Seq([from : Nat, to : Nat]), NEW k \in 1..Len(ps)
  PROVE  ps[k] \in [from : Nat, to : Nat] /\ ps[k].from \in Nat /\ ps[k].to \in Nat
<1>1. ps \in [1..Len(ps) -> [from : Nat, to : Nat]]
  BY LenProperties
<1> QED BY <1>1

\* A sequence with one element more.
LEMMA Appended ==
  ASSUME NEW S, NEW s \in Seq(S), NEW x \in S
  PROVE  /\ Append(s, x) \in Seq(S) /\ Len(Append(s, x)) = Len(s) + 1 /\ Len(s) \in Nat
         /\ \A k \in 1..Len(s) : Append(s, x)[k] = s[k]
         /\ Append(s, x)[Len(s) + 1] = x
  BY AppendProperties, LenProperties

\* Clauses stay where they lie when the window moves on.
LEMMA PlacedMore ==
  ASSUME NEW t, NEW complete, NEW n \in Nat, NEW m \in Nat, n <= m, NEW cs,
         NEW ps \in Seq([from : Nat, to : Nat]), AllPlaced(t, complete, n, cs, ps)
  PROVE  AllPlaced(t, complete, m, cs, ps)
<1> SUFFICES ASSUME NEW k \in 1..Len(ps) PROVE Placed(t, complete, m, cs[k], ps[k])
  BY DEF AllPlaced
<1>1. Placed(t, complete, n, cs[k], ps[k])
  BY DEF AllPlaced
<1>2. ps[k].to \in Nat
  BY PlaceType
<1> QED BY <1>1, <1>2 DEF Placed

\* One clause more, behind the others.
LEMMA PlacedNext ==
  ASSUME NEW t, NEW complete, NEW n \in Nat, NEW m \in Nat, n <= m,
         NEW C, NEW cs \in Seq(C), NEW ps \in Seq([from : Nat, to : Nat]), Len(ps) = Len(cs),
         AllPlaced(t, complete, n, cs, ps),
         NEW c \in C, NEW p \in [from : Nat, to : Nat], Placed(t, complete, m, c, p), n < p.from
  PROVE  AllPlaced(t, complete, m, Append(cs, c), Append(ps, p))
<1> DEFINE ds == Append(cs, c)
           qs == Append(ps, p)
           l == Len(ps)
<1>1. l \in Nat /\ Len(qs) = l + 1 /\ (\A k \in 1..l : qs[k] = ps[k]) /\ qs[l + 1] = p
  BY Appended
<1>2. (\A k \in 1..l : ds[k] = cs[k]) /\ ds[l + 1] = c
  BY Appended
<1>3. AllPlaced(t, complete, m, cs, ps)
  BY PlacedMore
<1>4. \A k \in 1..l : ps[k].to \in Nat /\ ps[k].to <= n
  <2> SUFFICES ASSUME NEW k \in 1..l PROVE ps[k].to \in Nat /\ ps[k].to <= n
    OBVIOUS
  <2> QED BY PlaceType DEF AllPlaced, Placed
<1> HIDE DEF ds, qs, l
<1>5. ASSUME NEW k \in 1..l + 1 PROVE Placed(t, complete, m, ds[k], qs[k])
  <2>1. k \in 1..l \/ k = l + 1
    BY <1>1
  <2> QED BY <2>1, <1>1, <1>2, <1>3 DEF AllPlaced, l
<1>6. ASSUME NEW k \in 1..l + 1, k > 1 PROVE qs[k - 1].to < qs[k].from
  <2>1. CASE k \in 1..l
    <3>1. k - 1 \in 1..l
      BY <1>1, <1>6, <2>1
    <3>2. ps[k - 1].to < ps[k].from
      BY <2>1, <1>3, <1>6 DEF AllPlaced, l
    <3> QED BY <3>1, <3>2, <2>1, <1>1
  <2>2. CASE k = l + 1
    <3>1. k - 1 = l /\ l \in 1..l
      BY <1>1, <1>6, <2>2
    <3>2. p.from \in Nat /\ ps[l].to \in Nat /\ ps[l].to <= n
      BY <3>1, <1>4
    <3>3. ps[l].to < p.from
      BY <3>2
    <3> QED BY <3>1, <3>3, <2>2, <1>1
  <2> QED BY <2>1, <2>2, <1>1
<1> QED BY <1>1, <1>5, <1>6 DEF AllPlaced, ds, qs

\* Its separator follows it, and it follows the separator before it.
LEMMA RejoinedNext ==
  ASSUME NEW t, NEW n \in Nat, NEW m \in Nat, NEW st \in Nat,
         NEW C, NEW cs \in Seq(C), NEW ps \in Seq([from : Nat, to : Nat]), Len(ps) = Len(cs),
         Rejoined(t, n, st, cs, ps), NEW c \in C, NEW p \in [from : Nat, to : Nat],
         p.from = n + 1, p.to <= m, c[2] = SubSeq(t, p.to + 1, m)
  PROVE  Rejoined(t, m, st, Append(cs, c), Append(ps, p))
<1> DEFINE ds == Append(cs, c)
           qs == Append(ps, p)
           l == Len(ps)
<1>1. l \in Nat /\ Len(qs) = l + 1 /\ (\A k \in 1..l : qs[k] = ps[k]) /\ qs[l + 1] = p
  BY Appended
<1>2. (\A k \in 1..l : ds[k] = cs[k]) /\ ds[l + 1] = c
  BY Appended
<1> HIDE DEF ds, qs
<1>3. p.to \in Nat /\ Len(ps) = l
  OBVIOUS
<1> HIDE DEF l
<1> SUFFICES ASSUME NEW k \in st + 1..l + 1
             PROVE  /\ qs[k].to < NextAt(m, qs, k)
                    /\ ds[k][2] = SubSeq(t, qs[k].to + 1, NextAt(m, qs, k) - 1)
  BY <1>1 DEF Rejoined, ds, qs
<1>4. CASE k = l + 1
  <2>1. NextAt(m, qs, k) = m + 1 /\ (m + 1) - 1 = m /\ p.to < m + 1
    BY <1>1, <1>3, <1>4 DEF NextAt
  <2>2. qs[k] = p /\ ds[k] = c
    BY <1>1, <1>2, <1>4
  <2>3. ds[k][2] = SubSeq(t, p.to + 1, m)
    BY <2>2
  <2> QED BY <2>1, <2>2, <2>3
<1>5. CASE k \in 1..l
  <2>1. NextAt(m, qs, k) = NextAt(n, ps, k)
    <3>1. k + 1 \in 1..l + 1 /\ k < l + 1
      BY <1>1, <1>5
    <3>2. NextAt(m, qs, k) = qs[k + 1].from
      BY <3>1, <1>1 DEF NextAt
    <3>3. CASE k = l
      <4>1. NextAt(n, ps, k) = n + 1
        BY <3>3, <1>1, <1>3 DEF NextAt
      <4> QED BY <3>2, <3>3, <4>1, <1>1
    <3>4. CASE k < l
      <4>1. k < Len(ps)
        BY <3>4, <1>3
      <4>2. NextAt(n, ps, k) = ps[k + 1].from
        BY <4>1 DEF NextAt
      <4>3. k + 1 \in 1..l
        BY <3>4, <1>1, <1>5
      <4> QED BY <3>2, <4>2, <4>3, <1>1
    <3> QED BY <3>3, <3>4, <1>1, <1>5
  <2>2. k \in st + 1..Len(ps) /\ qs[k] = ps[k] /\ ds[k] = cs[k]
    BY <1>1, <1>2, <1>3, <1>5
  <2>3. ps[k].to < NextAt(n, ps, k) /\ cs[k][2] = SubSeq(t, ps[k].to + 1, NextAt(n, ps, k) - 1)
    BY <2>2 DEF Rejoined
  <2> DEFINE x == NextAt(n, ps, k)
             y == NextAt(m, qs, k)
  <2>4. x = y /\ ps[k].to < x /\ cs[k][2] = SubSeq(t, ps[k].to + 1, x - 1) /\ qs[k] = ps[k] /\ ds[k] = cs[k]
    BY <2>1, <2>2, <2>3
  <2> SUFFICES qs[k].to < y /\ ds[k][2] = SubSeq(t, qs[k].to + 1, y - 1)
    OBVIOUS
  <2> HIDE DEF x, y
  <2> QED BY <2>4, Zenon
<1>6. k = l + 1 \/ k \in 1..l
  <2>1. l \in Nat
    BY <1>1
  <2> QED BY <2>1
<1> QED BY <1>4, <1>5, <1>6

\* A chunk is a sequence of characters.
LEMMA StringsAre ==
  ASSUME NEW n, NEW new \in Strings(n)
  PROVE  new \in Seq(Chars)
<1>1. PICK k \in 1..n : new \in [1..k -> Chars]
  BY DEF Strings
<1>2. k \in Nat
  OBVIOUS
<1> QED BY <1>1, <1>2

\* The text and the window with more text behind them.
LEMMA WindowMore ==
  ASSUME NEW t \in Seq(Chars), NEW b \in Seq(Chars), NEW n, Window(t, b, n), n + Len(b) = Len(t),
         NEW new \in Seq(Chars)
  PROVE  /\ t \o new \in Seq(Chars) /\ b \o new \in Seq(Chars)
         /\ Len(t \o new) = Len(t) + Len(new) /\ Len(b \o new) = Len(b) + Len(new)
         /\ Window(t \o new, b \o new, n) /\ Grows(t, t \o new) /\ Grows(b, b \o new)
<1>1. n \in Nat /\ Len(b) \in Nat /\ Len(t) \in Nat /\ Len(new) \in Nat
  BY DEF Window
<1> DEFINE u == t \o new
           c == b \o new
<1>2. /\ u \in Seq(Chars) /\ Len(u) = Len(t) + Len(new)
      /\ (\A i \in 1..Len(t) : u[i] = t[i]) /\ \A i \in 1..Len(new) : u[Len(t) + i] = new[i]
  OBVIOUS
<1>3. /\ c \in Seq(Chars) /\ Len(c) = Len(b) + Len(new)
      /\ (\A i \in 1..Len(b) : c[i] = b[i]) /\ \A i \in 1..Len(new) : c[Len(b) + i] = new[i]
  OBVIOUS
<1> HIDE DEF u, c
<1>4. ASSUME NEW k \in 1..Len(c) PROVE c[k] = u[n + k]
  <2>1. CASE k \in 1..Len(b)
    <3>1. n + k \in 1..Len(t) /\ b[k] = t[n + k]
      BY <1>1, <2>1 DEF Window
    <3> QED BY <3>1, <2>1, <1>2, <1>3
  <2>2. CASE k > Len(b)
    <3> DEFINE l == Len(b)
    <3>1. l \in Nat /\ k \in 1..l + Len(new) /\ k > l /\ Len(t) = n + l
      BY <1>1, <1>3, <2>2
    <3> HIDE DEF l
    <3>2. k - l \in 1..Len(new) /\ l + (k - l) = k /\ (n + l) + (k - l) = n + k
      BY <1>1, <3>1
    <3>3. u[Len(t) + (k - l)] = new[k - l] /\ c[l + (k - l)] = new[k - l]
      BY <3>2, <1>2, <1>3 DEF l
    <3> QED BY <3>1, <3>2, <3>3
  <2> QED BY <2>1, <2>2, <1>1
<1>5. Window(u, c, n)
  BY <1>1, <1>2, <1>3, <1>4 DEF Window
<1> QED BY <1>1, <1>2, <1>3, <1>5 DEF Grows, u, c

\* A chunk that arrives keeps the invariant.
LEMMA AddKeeps ==
  ASSUME DetectorInv, NEW new \in Seq(Chars), Len(received) + Len(new) <= MaxText, AddChunk(new)
  PROVE  DetectorInv'
<1>1. /\ DetectorTyped /\ Framed /\ Firm(buffer, offset, split_clauses)
      /\ AllPlaced(received, block, left, clauses, places) /\ Covered(received, buffer, left, places)
  BY DEF DetectorInv
<1>2. /\ block = FALSE /\ left + Len(buffer) = Len(received) /\ Window(received, buffer, left)
      /\ received \in Seq(Chars) /\ buffer \in Seq(Chars) /\ left \in Nat
      /\ places \in Seq([from : Nat, to : Nat])
  BY <1>1 DEF DetectorTyped, Framed, AddChunk
<1>3. /\ received' = received \o new /\ buffer' = buffer \o new /\ phase' = "draining"
      /\ block' = FALSE /\ left' = left /\ offset' = offset /\ split_clauses' = split_clauses
      /\ clauses' = clauses /\ places' = places /\ streamed' = streamed
  BY <1>2 DEF AddChunk
<1>4. /\ received' \in Seq(Chars) /\ buffer' \in Seq(Chars)
      /\ Len(received') = Len(received) + Len(new) /\ Len(buffer') = Len(buffer) + Len(new)
      /\ Window(received', buffer', left) /\ Grows(received, received') /\ Grows(buffer, buffer')
  <2>1. /\ received \o new \in Seq(Chars) /\ buffer \o new \in Seq(Chars)
        /\ Len(received \o new) = Len(received) + Len(new) /\ Len(buffer \o new) = Len(buffer) + Len(new)
        /\ Window(received \o new, buffer \o new, left)
        /\ Grows(received, received \o new) /\ Grows(buffer, buffer \o new)
    <3>1. received \in Seq(Chars) /\ buffer \in Seq(Chars)
      BY <1>2
    <3>2. Window(received, buffer, left) /\ left + Len(buffer) = Len(received)
      BY <1>2
    <3>3. Window(received \o new, buffer \o new, left)
      BY <3>1, <3>2, WindowMore
    <3>4. Grows(received, received \o new) /\ Grows(buffer, buffer \o new)
      BY <3>1, <3>2, WindowMore
    <3> QED BY <3>1, <3>3, <3>4
  <2> QED BY <2>1, <1>3
<1>5. Len(received) \in Nat /\ Len(buffer) \in Nat /\ Len(new) \in Nat
  BY <1>2
<1>6. left + Len(buffer') = Len(received')
  <2> DEFINE l == Len(buffer)
  <2>1. left \in Nat /\ l \in Nat /\ left + l = Len(received) /\ Len(buffer') = l + Len(new)
    BY <1>2, <1>4, <1>5
  <2> HIDE DEF l
  <2> QED BY <2>1, <1>4, <1>5
<1>7. DetectorTyped'
  <2>1. left' + Len(buffer') <= Len(received') /\ Len(received') <= MaxText
    BY <1>3, <1>4, <1>5, <1>6
  <2> QED BY <1>1, <1>3, <1>4, <2>1 DEF DetectorTyped
<1>8. Framed'
  <2>1. left # 0 => received[left] \notin Alnum
    BY <1>1, <1>3 DEF Framed, AddChunk
  <2>2. left # 0 => left \in 1..Len(received)
    BY <1>2, <1>5
  <2>3. left # 0 => received'[left] \notin Alnum
    BY <2>1, <2>2, <1>4 DEF Grows
  <2> QED BY <2>3, <1>3, <1>4, <1>6 DEF Framed
<1>9. Firm(buffer', offset, split_clauses)
  BY <1>1, <1>2, <1>4, FirmGrows
<1>10. AllPlaced(received', FALSE, left, clauses, places)
  <2>1. left \in 0..Len(received)
    BY <1>2, <1>5
  <2>2. AllPlaced(received, FALSE, left, clauses, places)
    BY <1>1, <1>2
  <2>3. left <= left /\ FALSE \in BOOLEAN
    BY <1>2
  <2> QED BY <2>1, <2>2, <2>3, <1>2, <1>4, PlacedGrows
<1>11. Covered(received', buffer', left, places)
  <2> SUFFICES ASSUME NEW i \in 1..Len(received')
               PROVE  \/ received'[i] \in White
                      \/ \E k \in 1..Len(places) : places[k].from <= i /\ i <= places[k].to
                      \/ left < i /\ i <= left + Len(buffer')
    BY DEF Covered
  <2>1. CASE i > left
    BY <2>1, <1>6
  <2>2. CASE i <= left
    <3>1. i \in 1..Len(received) /\ ~(left < i)
      BY <2>2, <1>2, <1>5, <1>4
    <3>2. received'[i] = received[i]
      BY <3>1, <1>4 DEF Grows
    <3> QED BY <3>1, <3>2, <1>1 DEF Covered
  <2> QED BY <2>1, <2>2, <1>2, <1>4, <1>5
<1> QED BY <1>3, <1>7, <1>8, <1>9, <1>10, <1>11 DEF DetectorInv

\* A block of its own that lies at the end of what is known.
LEMMA BlockKeeps ==
  ASSUME DetectorTyped, NEW t \in Seq(Chars), received' = t, Len(t) <= MaxText,
         NEW s \in Seq(Chars), NEW n, Window(t, s, n), n + Len(s) = Len(t), n # 0 => t[n] \notin Alnum,
         AllPlaced(t, FALSE, n, clauses, places), Covered(t, s, n, places), SplitBlock(s, n)
  PROVE  DetectorInv'
<1> DEFINE lead == Leading(s)
<1>1. /\ n \in Nat /\ Len(s) \in Nat /\ Len(t) \in Nat /\ places \in Seq([from : Nat, to : Nat])
      /\ Len(places) = Len(clauses) /\ Len(clauses) \in Nat
  BY DEF Window, DetectorTyped
<1>2. /\ block' = TRUE /\ buffer' = Strip(s) /\ left' = n + lead /\ offset' = 0 /\ streamed' = Len(clauses)
      /\ phase' = (IF Strip(s) = <<>> THEN "over" ELSE "draining")
      /\ split_clauses' = split_clauses /\ clauses' = clauses /\ places' = places
  BY DEF SplitBlock
<1>3. lead \in 0..Len(s)
  BY LStripIs
<1> HIDE DEF lead
<1>4. AllPlaced(t, TRUE, left', clauses, places)
  <2>1. n \in 0..Len(t) /\ n + lead \in Nat /\ n <= n + lead
    BY <1>1, <1>3
  <2>2. Grows(t, t)
    BY <1>1 DEF Grows
  <2> QED BY <2>1, <2>2, <1>1, <1>2, PlacedGrows
<1>5. Rejoined(t, left', streamed', clauses, places)
  <2>1. Len(clauses) + 1..Len(places) = {}
    BY <1>1
  <2> QED BY <2>1, <1>2 DEF Rejoined
<1>6. ~(streamed' < Len(places))
  BY <1>1, <1>2
<1>7. CASE /\ Strip(s) = <<>> /\ lead = Len(s) /\ \A k \in 1..Len(s) : s[k] \in White
  <2>1. buffer' = <<>> /\ Len(buffer') = 0 /\ left' = Len(t) /\ phase' = "over"
    BY <1>2, <1>7
  <2>2. DetectorTyped'
    BY <2>1, <1>1, <1>2 DEF DetectorTyped
  <2>3. Window(t, buffer', left')
    BY <2>1, <1>1 DEF Window
  <2>4. Framed'
    BY <2>1, <2>3, <1>2 DEF Framed
  <2>5. Covered(t, buffer', left', places)
    <3> SUFFICES ASSUME NEW i \in 1..Len(t), n < i PROVE t[i] \in White
      BY <1>1 DEF Covered
    <3>1. i - n \in 1..Len(s) /\ n + (i - n) = i
      BY <1>1
    <3> QED BY <3>1, <1>7 DEF Window
  <2>6. Firm(buffer', offset', split_clauses')
    BY <2>2, <1>2, FirmFresh DEF DetectorTyped
  <2> QED BY <2>2, <2>4, <2>5, <2>6, <1>2, <1>4, <1>5, <1>6 DEF DetectorInv
<1>8. CASE \E a \in lead + 1..Len(s) :
              /\ s[a] \notin White /\ s[lead + 1] \notin White
              /\ \A k \in 1..lead : s[k] \in White
              /\ \A k \in a + 1..Len(s) : s[k] \in White
              /\ Strip(s) = SubSeq(s, lead + 1, a) /\ Strip(s) # <<>>
              /\ Strip(s) \in Seq(Chars) /\ Len(Strip(s)) = a - lead
  <2>1. PICK a \in lead + 1..Len(s) :
              /\ s[a] \notin White /\ s[lead + 1] \notin White
              /\ \A k \in 1..lead : s[k] \in White
              /\ \A k \in a + 1..Len(s) : s[k] \in White
              /\ Strip(s) = SubSeq(s, lead + 1, a) /\ Strip(s) # <<>>
              /\ Strip(s) \in Seq(Chars) /\ Len(Strip(s)) = a - lead
    BY <1>8
  <2>2. /\ lead \in 0..Len(s) /\ a \in lead..Len(s) /\ IsAt(n + lead, n, lead)
        /\ a \in 1..Len(s) /\ lead + 1 \in 1..Len(s) /\ a - lead = a - (lead + 1) + 1
    BY <1>1, <1>3 DEF IsAt
  <2>3. Window(t, Strip(s), n + lead) /\ (n + lead) + Len(Strip(s)) = n + a
    <3>1. LET c == SubSeq(s, lead + 1, a)
          IN  Window(t, c, n + lead) /\ (n + lead) + Len(c) = n + a
      BY <2>2, WindowPart
    <3> QED BY <3>1, <2>1, <2>2
  <2>4. phase' = "draining"
    BY <2>1, <1>2
  <2>5. n + a <= Len(t) /\ n + lead \in Nat
    BY <2>2, <1>1, <1>3
  <2>6. DetectorTyped'
    BY <2>1, <2>3, <2>4, <2>5, <1>1, <1>2 DEF DetectorTyped
  <2>7. \A k \in 1..Len(s) : s[k] = t[n + k]
    BY DEF Window
  <2>8. n + lead # 0 => t[n + lead] \notin Alnum
    <3>1. CASE lead = 0
      BY <3>1, <1>1
    <3>2. CASE lead # 0
      <4>1. lead \in 1..lead /\ lead \in 1..Len(s)
        BY <3>2, <1>1, <1>3
      <4>2. t[n + lead] \in White
        BY <4>1, <2>1, <2>7
      <4> QED BY <4>2, Classes
    <3> QED BY <3>1, <3>2
  <2>9. Bounded(t, Strip(s), n + lead)
    <3>1. n + a >= 1 /\ t[n + a] \notin White
      <4>1. n + a >= 1 /\ a \in 1..Len(s)
        BY <2>2, <1>1
      <4>2. s[a] = t[n + a]
        BY <4>1, <2>7
      <4> QED BY <4>1, <4>2, <2>1
    <3>2. \A i \in n + a + 1..Len(t) : t[i] \in White
      <4> SUFFICES ASSUME NEW i \in n + a + 1..Len(t) PROVE t[i] \in White
        OBVIOUS
      <4>1. i - n \in a + 1..Len(s) /\ n + (i - n) = i /\ i - n \in 1..Len(s)
        BY <2>2, <1>1
      <4> QED BY <4>1, <2>1, <2>7
    <3>3. Strip(s)[1] = s[lead + 1]
      <4>1. 1 \in 1..Len(Strip(s)) /\ n + lead + 1 = n + (lead + 1)
        BY <2>1, <2>2, <1>1, <1>3
      <4>2. Strip(s)[1] = t[n + lead + 1]
        BY <4>1, <2>3 DEF Window
      <4> QED BY <4>1, <4>2, <2>2, <2>7
    <3> QED BY <3>1, <3>2, <3>3, <2>1, <2>3 DEF Bounded
  <2>10. Framed'
    BY <2>3, <2>4, <2>8, <2>9, <1>2 DEF Framed
  <2>11. Covered(t, Strip(s), n + lead, places)
    <3> SUFFICES ASSUME NEW i \in 1..Len(t), n < i, ~(n + lead < i /\ i <= n + a) PROVE t[i] \in White
      BY <2>3, <1>1 DEF Covered
    <3>1. /\ i - n \in 1..Len(s) /\ n + (i - n) = i
          /\ i - n \in 1..lead \/ i - n \in a + 1..Len(s)
      BY <2>2, <1>1, <1>3
    <3> QED BY <3>1, <2>1, <2>7
  <2>12. Firm(buffer', offset', split_clauses')
    BY <2>6, <1>2, FirmFresh DEF DetectorTyped
  <2> QED BY <2>4, <2>6, <2>10, <2>11, <2>12, <1>2, <1>4, <1>5 DEF DetectorInv
<1> QED BY <1>7, <1>8, StripIs DEF lead

\* A text that is there at once keeps the invariant.
LEMMA SplitTextKeeps ==
  ASSUME DetectorInv, NEW new \in Seq(Chars), Len(new) <= MaxText, SplitText(new)
  PROVE  DetectorInv'
<1>1. /\ DetectorTyped /\ AllPlaced(received, block, left, clauses, places)
      /\ places \in Seq([from : Nat, to : Nat]) /\ received = <<>> /\ received' = new /\ SplitBlock(new, 0)
      /\ left \in Nat /\ buffer \in Seq(Chars) /\ left + Len(buffer) <= Len(received)
  BY DEF DetectorInv, DetectorTyped, SplitText
<1>2. left = 0
  BY <1>1
<1>3. 1..Len(places) = {}
  <2> SUFFICES ASSUME NEW k \in 1..Len(places) PROVE FALSE
    OBVIOUS
  <2>1. places[k].from \in Nat /\ places[k].to \in Nat
    BY <1>1, PlaceType
  <2>2. 1 <= places[k].from /\ places[k].from <= places[k].to /\ places[k].to <= 0
    BY <1>1, <1>2 DEF AllPlaced, Placed
  <2> QED BY <2>1, <2>2
<1>4. AllPlaced(new, FALSE, 0, clauses, places)
  BY <1>3 DEF AllPlaced
<1>5. Window(new, new, 0) /\ 0 + Len(new) = Len(new) /\ Covered(new, new, 0, places)
  BY DEF Window, Covered
<1> QED BY <1>1, <1>4, <1>5, BlockKeeps

\* The end of the stream keeps the invariant.
LEMMA StopKeeps ==
  ASSUME DetectorInv, StreamStops
  PROVE  DetectorInv'
<1>1. /\ DetectorTyped /\ Framed /\ AllPlaced(received, block, left, clauses, places)
      /\ Covered(received, buffer, left, places) /\ received' = received /\ SplitBlock(buffer, left)
  BY DEF DetectorInv, StreamStops
<1>2. /\ received \in Seq(Chars) /\ buffer \in Seq(Chars) /\ Len(received) <= MaxText
      /\ block = FALSE /\ phase # "over"
  BY <1>1 DEF DetectorTyped, SplitBlock
<1>3. /\ Window(received, buffer, left) /\ left + Len(buffer) = Len(received)
      /\ left # 0 => received[left] \notin Alnum
  BY <1>1, <1>2 DEF Framed
<1> QED BY <1>1, <1>2, <1>3, BlockKeeps

\* A scan that finds no boundary keeps the invariant: its new offset is firm.
LEMMA DrainedKeeps ==
  ASSUME DetectorInv, Drained
  PROVE  DetectorInv'
<1>1. /\ split_clauses' = split_clauses /\ buffer' = buffer /\ block' = block /\ received' = received
      /\ left' = left /\ clauses' = clauses /\ places' = places /\ streamed' = streamed
      /\ phase' = "waiting" /\ phase = "draining" /\ Boundaries(buffer, offset, split_clauses) = {}
      /\ offset' = (IF buffer = <<>> THEN offset ELSE Resume(buffer, offset, split_clauses))
  BY DEF Drained
<1>2. DetectorTyped' /\ buffer \in Seq(Chars) /\ split_clauses \in BOOLEAN
  BY <1>1 DEF DetectorInv, DetectorTyped
<1>3. Framed'
  BY <1>1 DEF DetectorInv, Framed
<1>4. Firm(buffer, offset, split_clauses)
  BY DEF DetectorInv
<1>5. Firm(buffer, Resume(buffer, offset, split_clauses), split_clauses)
  BY <1>1, <1>2, <1>4, Resumed
<1>6. Firm(buffer', offset', split_clauses')
  BY <1>1, <1>4, <1>5
<1> QED BY <1>1, <1>2, <1>3, <1>6 DEF DetectorInv

\* What a turn of the loop leaves of the window.
IsCutAt(t, b, n, d, rest, m) ==
  /\ t \in Seq(Chars) /\ b \in Seq(Chars) /\ Window(t, b, n)
  /\ d \in 1..Len(b) /\ b[d] \notin Alnum /\ (d < Len(b) => b[d + 1] \notin White)
  /\ rest = SubSeq(b, d + 1, Len(b)) /\ m = n + d

\* What is left behind a boundary is a window of the text.
LEMMA TakeLeaves ==
  ASSUME NEW t, NEW b, NEW n, NEW d, NEW rest, NEW m, IsCutAt(t, b, n, d, rest, m)
  PROVE  /\ rest \in Seq(Chars) /\ Window(t, rest, m) /\ n + Len(b) - Len(rest) = m
         /\ m \in Nat /\ m + Len(rest) = n + Len(b) /\ t[m] \notin Alnum
         /\ Bounded(t, b, n) => Bounded(t, rest, m)
<1> DEFINE l == Len(b)
<1>1. /\ n \in Nat /\ l \in Nat /\ m \in Nat /\ l = Len(b) /\ d \in 1..l /\ m = n + d
      /\ \A k \in 1..Len(b) : b[k] = t[n + k]
      /\ t \in Seq(Chars) /\ b \in Seq(Chars) /\ Window(t, b, n) /\ IsAt(m, n, d)
      /\ b[d] \notin Alnum /\ (d < Len(b) => b[d + 1] \notin White) /\ rest = SubSeq(b, d + 1, Len(b))
  BY DEF Window, IsAt, IsCutAt
<1> SUFFICES /\ rest \in Seq(Chars) /\ Window(t, rest, m) /\ n + l - Len(rest) = m
             /\ m + Len(rest) = n + l /\ t[m] \notin Alnum
             /\ Bounded(t, b, n) => Bounded(t, rest, m)
  BY <1>1
<1> HIDE DEF l
<1>2. d \in 0..Len(b) /\ l \in d..Len(b)
  <2>1. d \in Nat /\ 1 <= d /\ d <= l /\ l \in Nat /\ Len(b) = l
    BY <1>1
  <2> QED BY <2>1
<1>3. rest \in Seq(Chars) /\ Window(t, rest, m) /\ m + Len(rest) = n + l
  <2>0. t \in Seq(Chars) /\ b \in Seq(Chars) /\ Window(t, b, n) /\ IsAt(m, n, d)
    BY <1>1
  <2>1. Window(t, SubSeq(b, d + 1, l), m) /\ SubSeq(b, d + 1, l) \in Seq(Chars)
    BY <2>0, <1>2, WindowPart
  <2>2. m + Len(SubSeq(b, d + 1, l)) = n + l
    BY <2>0, <1>2, WindowPart
  <2> QED BY <2>1, <2>2, <1>1
<1>4. Len(rest) \in Nat
  BY <1>3
<1>5. n + l - Len(rest) = m
  <2>1. m \in Nat /\ n \in Nat /\ l \in Nat /\ m + Len(rest) = n + l
    BY <1>1, <1>3
  <2> QED BY <2>1, <1>4
<1>6. t[m] \notin Alnum
  BY <1>1
<1>7. rest # <<>> => rest[1] \notin White
  <2> SUFFICES ASSUME rest # <<>> PROVE rest[1] \notin White
    OBVIOUS
  <2>1. Len(rest) # 0
    BY <1>3, EmptySeq
  <2>2. 1 \in 1..Len(rest) /\ d < l /\ d + 1 \in 1..l /\ m + 1 = n + (d + 1)
    BY <2>1, <1>1, <1>3, <1>4
  <2>3. rest[1] = t[m + 1]
    BY <2>2, <1>3 DEF Window
  <2>4. rest[1] = b[d + 1]
    BY <2>2, <2>3, <1>1
  <2> QED BY <2>2, <2>4, <1>1
<1>8. Bounded(t, b, n) => Bounded(t, rest, m)
  BY <1>1, <1>3, <1>7 DEF Bounded
<1> QED BY <1>3, <1>5, <1>6, <1>8

\* A clause that is taken keeps the invariant.
LEMMA TakeKeeps ==
  ASSUME DetectorInv, Take
  PROVE  DetectorInv'
<1> DEFINE found == Boundaries(buffer, offset, split_clauses)
           head  == SubSeq(buffer, 1, FirstMatch(found).end)
           piece == Strip(head)
           rest  == After(buffer, Len(head))
           lead  == Leading(head)
           after == lead + Len(piece)
           sep   == SubSeq(buffer, after + 1, Len(buffer) - Len(rest))
           place == [from |-> left + lead + 1, to |-> left + after]
<1>1. /\ phase = "draining" /\ found # {} /\ buffer' = rest /\ left' = left + Len(buffer) - Len(rest)
      /\ offset' = 0 /\ split_clauses' = split_clauses /\ phase' = phase /\ block' = block
      /\ received' = received /\ streamed' = streamed
      /\ IF piece = <<>> THEN clauses' = clauses /\ places' = places
         ELSE clauses' = Append(clauses, <<piece, sep>>) /\ places' = Append(places, place)
  BY DEF Take, FreshOffset
<1>2. /\ received \in Seq(Chars) /\ buffer \in Seq(Chars) /\ left \in Nat /\ split_clauses \in BOOLEAN
      /\ clauses \in Seq(Seq(Chars) \X Seq(Chars)) /\ places \in Seq([from : Nat, to : Nat])
      /\ Len(places) = Len(clauses) /\ block \in BOOLEAN /\ streamed \in 0..Len(clauses)
      /\ left + Len(buffer) <= Len(received)
  BY DEF DetectorInv, DetectorTyped
<1>3. /\ Window(received, buffer, left) /\ (left # 0 => received[left] \notin Alnum)
      /\ (~block => left + Len(buffer) = Len(received)) /\ (block => Bounded(received, buffer, left))
  BY <1>1 DEF DetectorInv, Framed
<1>4. /\ AllPlaced(received, block, left, clauses, places) /\ Covered(received, buffer, left, places)
      /\ (block => Rejoined(received, left, streamed, clauses, places)) /\ offset \in 0..Len(buffer)
  BY DEF DetectorInv, Firm
<1>5. \E a \in 0..Len(buffer), d \in 1..Len(buffer) :
        /\ d = Len(buffer) - Len(rest) /\ rest = SubSeq(buffer, d + 1, Len(buffer)) /\ buffer[d] \notin Alnum
        /\ d < Len(buffer) => buffer[d + 1] \notin White
        /\ lead \in 0..Len(buffer)
        /\ \/ piece = <<>> /\ \A k \in 1..d : buffer[k] \in White
           \/ /\ piece # <<>> /\ a \in lead + 1..d /\ lead + Len(piece) = a
              /\ piece = SubSeq(buffer, lead + 1, a)
              /\ buffer[lead + 1] \notin White /\ buffer[a] \notin White
              /\ \A k \in 1..lead : buffer[k] \in White
              /\ \A k \in a + 1..d : buffer[k] \in White
              /\ Uncut(buffer, FALSE, a)
  BY <1>1, <1>2, <1>4, Parts
<1>6. PICK a \in 0..Len(buffer), d \in 1..Len(buffer) :
        /\ d = Len(buffer) - Len(rest) /\ rest = SubSeq(buffer, d + 1, Len(buffer)) /\ buffer[d] \notin Alnum
        /\ d < Len(buffer) => buffer[d + 1] \notin White
        /\ lead \in 0..Len(buffer)
        /\ \/ piece = <<>> /\ \A k \in 1..d : buffer[k] \in White
           \/ /\ piece # <<>> /\ a \in lead + 1..d /\ lead + Len(piece) = a
              /\ piece = SubSeq(buffer, lead + 1, a)
              /\ buffer[lead + 1] \notin White /\ buffer[a] \notin White
              /\ \A k \in 1..lead : buffer[k] \in White
              /\ \A k \in a + 1..d : buffer[k] \in White
              /\ Uncut(buffer, FALSE, a)
  BY <1>5
<1> HIDE DEF found, head, piece, rest, lead
<1>7. /\ rest \in Seq(Chars) /\ Window(received, rest, left + d) /\ left' = left + d
      /\ left + d \in Nat /\ (left + d) + Len(rest) = left + Len(buffer) /\ received[left + d] \notin Alnum
      /\ Bounded(received, buffer, left) => Bounded(received, rest, left + d)
  <2>1. IsCutAt(received, buffer, left, d, rest, left + d)
    BY <1>2, <1>3, <1>6 DEF IsCutAt
  <2>2. rest \in Seq(Chars) /\ Window(received, rest, left + d)
    BY <2>1, TakeLeaves
  <2>3. left + Len(buffer) - Len(rest) = left + d
    BY <2>1, TakeLeaves
  <2>4. left + d \in Nat /\ (left + d) + Len(rest) = left + Len(buffer)
    BY <2>1, TakeLeaves
  <2>5. received[left + d] \notin Alnum
    BY <2>1, TakeLeaves
  <2>6. Bounded(received, buffer, left) => Bounded(received, rest, left + d)
    BY <2>1, TakeLeaves
  <2> QED BY <2>2, <2>3, <2>4, <2>5, <2>6, <1>1
<1>8. Len(buffer) \in Nat /\ d \in Nat /\ d <= Len(buffer) /\ 1 <= d /\ left <= left + d
      /\ \A k \in 1..Len(buffer) : buffer[k] = received[left + k]
  <2>1. Len(buffer) \in Nat /\ left \in Nat /\ d \in 1..Len(buffer)
    BY <1>2, <1>3
  <2>2. \A k \in 1..Len(buffer) : buffer[k] = received[left + k]
    BY <1>2, <1>3 DEF Window
  <2>3. d \in Nat /\ d <= Len(buffer) /\ 1 <= d /\ left <= left + d
    BY <2>1
  <2> QED BY <2>1, <2>2, <2>3
<1>9. Framed'
  BY <1>1, <1>3, <1>7 DEF Framed
<1>10. Firm(buffer', offset', split_clauses')
  BY <1>1, <1>2, <1>7, FirmFresh
<1>11. phase' # "over"
  BY <1>1
<1>12. CASE piece = <<>>
  <2>1. clauses' = clauses /\ places' = places
    BY <1>1, <1>12
  <2>2. \A k \in 1..d : buffer[k] \in White
    BY <1>6, <1>12
  <2>3. ~block
    <3> SUFFICES ASSUME block PROVE FALSE
      OBVIOUS
    <3>1. 1 \in 1..d /\ buffer # <<>>
      BY <1>8
    <3> QED BY <3>1, <2>2, <1>3 DEF Bounded
  <2>4. DetectorTyped'
    BY <2>1, <1>1, <1>7 DEF DetectorInv, DetectorTyped
  <2>5. AllPlaced(received, block, left + d, clauses, places)
    BY <1>2, <1>4, <1>7, <1>8, PlacedMore
  <2>6. Covered(received, rest, left + d, places)
    <3>0. \A i \in 1..Len(received) :
            left < i /\ i <= left + Len(buffer) => (left < i /\ i <= left + d)
                                               \/ (left + d < i /\ i <= (left + d) + Len(rest))
      BY <1>2, <1>7, <1>8
    <3> SUFFICES ASSUME NEW i \in 1..Len(received), left < i, i <= left + d PROVE received[i] \in White
      BY <3>0, <1>4 DEF Covered
    <3>1. i - left \in 1..d /\ i - left \in 1..Len(buffer) /\ left + (i - left) = i
      BY <1>2, <1>8
    <3> QED BY <3>1, <2>2, <1>8
  <2> QED BY <1>1, <1>7, <1>9, <1>10, <1>11, <2>1, <2>3, <2>4, <2>5, <2>6 DEF DetectorInv
<1>13. CASE piece # <<>>
  <2>1. clauses' = Append(clauses, <<piece, sep>>) /\ places' = Append(places, place)
    BY <1>1, <1>13
  <2>2. /\ a \in lead + 1..d /\ after = a /\ piece = SubSeq(buffer, lead + 1, a)
        /\ buffer[lead + 1] \notin White /\ buffer[a] \notin White
        /\ (\A k \in 1..lead : buffer[k] \in White) /\ (\A k \in a + 1..d : buffer[k] \in White)
        /\ Uncut(buffer, FALSE, a) /\ lead \in Nat /\ sep = SubSeq(buffer, a + 1, d)
    <3>1. /\ a \in lead + 1..d /\ lead + Len(piece) = a /\ piece = SubSeq(buffer, lead + 1, a)
          /\ buffer[lead + 1] \notin White /\ buffer[a] \notin White
          /\ (\A k \in 1..lead : buffer[k] \in White) /\ (\A k \in a + 1..d : buffer[k] \in White)
          /\ Uncut(buffer, FALSE, a) /\ lead \in 0..Len(buffer) /\ d = Len(buffer) - Len(rest)
      BY <1>6, <1>13
    <3>2. lead \in Nat /\ after = a
      BY <3>1, <1>8
    <3>3. sep = SubSeq(buffer, a + 1, d)
      BY <3>1, <3>2
    <3> QED BY <3>1, <3>2, <3>3
  <2>3. a \in 1..Len(buffer) /\ a \in Nat /\ a <= d /\ lead + 1 <= a /\ lead + 1 \in 1..Len(buffer)
    <3> DEFINE l == Len(buffer)
    <3>1. l \in Nat /\ d \in Nat /\ d <= l /\ lead \in Nat /\ a \in lead + 1..d
      BY <2>2, <1>8
    <3> HIDE DEF l
    <3>2. a \in 1..l /\ a \in Nat /\ a <= d /\ lead + 1 <= a /\ lead + 1 \in 1..l
      BY <3>1
    <3> QED BY <3>2 DEF l
  <2>4. place = [from |-> left + lead + 1, to |-> left + a]
    BY <2>2
  <2> HIDE DEF after, sep, place
  <2>5. /\ place \in [from : Nat, to : Nat] /\ place.from = left + lead + 1 /\ place.to = left + a
        /\ 1 <= place.from /\ place.from <= place.to /\ place.to <= left + d /\ left < place.from
    BY <2>2, <2>3, <2>4, <1>2, <1>8
  <2>6. piece = SubSeq(received, place.from, place.to)
    <3> DEFINE v == left + lead
               w == left + a
    <3>1. IsPart(received, buffer, left, lead, a, v, w)
      BY <2>2, <2>3, <1>2, <1>3 DEF IsPart
    <3>2. place.from = v + 1 /\ place.to = w
      BY <2>5
    <3> HIDE DEF v, w
    <3>3. IsSlice(SubSeq(buffer, lead + 1, a), received, v, w)
      BY <3>1, WindowSlice
    <3>4. piece = SubSeq(received, v + 1, w)
      BY <3>3, <2>2 DEF IsSlice
    <3> QED BY <3>2, <3>4
  <2>7. sep = SubSeq(received, place.to + 1, left + d)
    <3> DEFINE w == left + d
    <3>1. IsPart(received, buffer, left, a, d, place.to, w)
      BY <2>2, <2>3, <2>5, <1>2, <1>3, <1>8 DEF IsPart
    <3> HIDE DEF w
    <3>2. IsSlice(SubSeq(buffer, a + 1, d), received, place.to, w)
      BY <3>1, WindowSlice
    <3> QED BY <3>2, <2>2 DEF IsSlice, w
  <2>8. <<piece, sep>> \in Seq(Chars) \X Seq(Chars)
    <3>1. piece \in Seq(Chars)
      BY <2>2, <2>3, <1>2
    <3>2. sep \in Seq(Chars)
      BY <2>2, <2>3, <1>2, <1>8
    <3> QED BY <3>1, <3>2
  <2>9. Placed(received, block, left + d, <<piece, sep>>, place)
    <3>1. received[place.from] \notin White /\ received[place.to] \notin White
      <4>1. left + (lead + 1) = place.from
        BY <2>2, <2>5, <1>2
      <4> QED BY <4>1, <2>2, <2>3, <2>5, <1>8
    <3>2. Uncut(received, block, left + a)
      BY <2>2, <2>3, <1>2, <1>3, UncutShift
    <3> QED BY <3>1, <3>2, <2>5, <2>6 DEF Placed
  <2>10. AllPlaced(received, block, left + d, Append(clauses, <<piece, sep>>), Append(places, place))
    BY <2>5, <2>8, <2>9, <1>2, <1>4, <1>7, <1>8, PlacedNext
  <2>11. ASSUME block
         PROVE  Rejoined(received, left + d, streamed, Append(clauses, <<piece, sep>>), Append(places, place))
    <3>1. lead = 0
      <4>1. buffer # <<>> /\ (lead # 0 => 1 \in 1..lead)
        BY <2>2, <1>8
      <4> QED BY <4>1, <2>2, <2>11, <1>3 DEF Bounded
    <3>2. place.from = left + 1
      BY <3>1, <2>5, <1>2
    <3>3. <<piece, sep>>[2] = sep /\ streamed \in Nat
      BY <1>2
    <3> QED BY <3>2, <3>3, <2>5, <2>7, <2>8, <2>11, <1>2, <1>4, <1>7, RejoinedNext
  <2>12. Covered(received, rest, left + d, Append(places, place))
    <3>1. /\ Len(Append(places, place)) = Len(places) + 1 /\ Len(places) \in Nat
          /\ (\A k \in 1..Len(places) : Append(places, place)[k] = places[k])
          /\ Append(places, place)[Len(places) + 1] = place
      BY <2>5, <1>2, Appended
    <3> DEFINE qs == Append(places, place)
    <3> HIDE DEF qs
    <3> SUFFICES ASSUME NEW i \in 1..Len(received)
                 PROVE  \/ received[i] \in White
                        \/ \E k \in 1..Len(qs) : qs[k].from <= i /\ i <= qs[k].to
                        \/ left + d < i /\ i <= (left + d) + Len(rest)
      BY DEF Covered, qs
    <3>2. CASE \E k \in 1..Len(places) : places[k].from <= i /\ i <= places[k].to
      <4>1. PICK k \in 1..Len(places) : places[k].from <= i /\ i <= places[k].to
        BY <3>2
      <4>2. k \in 1..Len(qs) /\ qs[k] = places[k]
        BY <3>1 DEF qs
      <4> QED BY <4>1, <4>2
    <3>3. CASE left < i /\ i <= left + d
      <4>1. i - left \in 1..d /\ i - left \in 1..Len(buffer) /\ left + (i - left) = i
        BY <3>3, <1>2, <1>8
      <4>2. i - left \in 1..lead \/ i - left \in a + 1..d \/ (lead + 1 <= i - left /\ i - left <= a)
        BY <4>1, <2>2, <2>3
      <4>3. lead + 1 <= i - left /\ i - left <= a => place.from <= i /\ i <= place.to
        BY <4>1, <2>2, <2>3, <2>5, <1>2
      <4>4. Len(places) + 1 \in 1..Len(qs) /\ qs[Len(places) + 1] = place
        BY <3>1 DEF qs
      <4> QED BY <4>1, <4>2, <4>3, <4>4, <2>2, <1>8
    <3>4. CASE left + d < i /\ i <= left + Len(buffer)
      BY <3>4, <1>7
    <3>5. CASE received[i] \in White
      BY <3>5
    <3> QED BY <3>2, <3>3, <3>4, <3>5, <1>2, <1>4, <1>8 DEF Covered
  <2>13. DetectorTyped'
    <3>1. /\ clauses' \in Seq(Seq(Chars) \X Seq(Chars)) /\ places' \in Seq([from : Nat, to : Nat])
          /\ Len(places') = Len(clauses') /\ streamed' \in 0..Len(clauses')
      <4>1. Append(clauses, <<piece, sep>>) \in Seq(Seq(Chars) \X Seq(Chars))
            /\ Len(Append(clauses, <<piece, sep>>)) = Len(clauses) + 1 /\ Len(clauses) \in Nat
        BY <2>8, <1>2, Appended
      <4>2. Append(places, place) \in Seq([from : Nat, to : Nat])
        BY <2>5, <1>2, AppendProperties
      <4>3. Len(Append(places, place)) = Len(places) + 1
        BY <2>5, <1>2, AppendProperties
      <4>4. streamed \in 0..Len(clauses) + 1
        BY <4>1, <1>2
      <4> QED BY <4>1, <4>2, <4>3, <4>4, <2>1, <1>1, <1>2
    <3> QED BY <3>1, <1>1, <1>7 DEF DetectorInv, DetectorTyped
  <2> QED BY <1>1, <1>7, <1>9, <1>10, <1>11, <2>1, <2>10, <2>11, <2>12, <2>13 DEF DetectorInv
<1> QED BY <1>12, <1>13

\* Nothing is to strip from the window of a block.
LEMMA BoundedStrip ==
  ASSUME NEW t \in Seq(Chars), NEW b \in Seq(Chars), NEW n, Window(t, b, n), Bounded(t, b, n)
  PROVE  Strip(b) = b /\ Leading(b) = 0
<1>1. n \in Nat /\ Len(b) \in Nat /\ \A k \in 1..Len(b) : b[k] = t[n + k]
  BY DEF Window
<1>2. Leading(b) \in 0..Len(b)
  BY LStripIs
<1>3. CASE b = <<>>
  <2>1. Len(b) = 0
    BY <1>3
  <2>2. Leading(b) = 0
    BY <2>1, <1>2
  <2>3. Strip(b) = <<>>
    <3>1. ~\E a \in Leading(b) + 1..Len(b) : TRUE
      BY <2>1, <2>2
    <3> QED BY <3>1, StripIs
  <2> QED BY <2>2, <2>3, <1>3
<1>4. CASE b # <<>>
  <2>1. Len(b) # 0
    BY <1>4, EmptySeq
  <2>2. 1 \in 1..Len(b) /\ Len(b) \in 1..Len(b)
    BY <2>1, <1>1
  <2>3. b[1] \notin White /\ b[Len(b)] \notin White
    BY <2>2, <1>1, <1>4 DEF Bounded
  <2>4. PICK a \in Leading(b) + 1..Len(b) :
              /\ b[a] \notin White /\ b[Leading(b) + 1] \notin White
              /\ \A k \in 1..Leading(b) : b[k] \in White
              /\ \A k \in a + 1..Len(b) : b[k] \in White
              /\ Strip(b) = SubSeq(b, Leading(b) + 1, a)
    BY <2>2, <2>3, StripIs
  <2>5. Leading(b) = 0
    <3>1. Leading(b) # 0 => 1 \in 1..Leading(b)
      BY <1>1, <1>2
    <3> QED BY <3>1, <2>3, <2>4
  <2>6. a = Len(b)
    <3>1. a # Len(b) => Len(b) \in a + 1..Len(b)
      BY <1>1, <2>4, <2>5
    <3> QED BY <3>1, <2>3, <2>4
  <2>7. Strip(b) = SubSeq(b, 1, Len(b))
    BY <2>4, <2>5, <2>6
  <2>8. SubSeq(b, 1, Len(b)) = b
    OBVIOUS
  <2> QED BY <2>5, <2>7, <2>8
<1> QED BY <1>3, <1>4

\* Adjacent parts of a text, joined.
LEMMA JoinedParts ==
  ASSUME NEW t \in Seq(Chars), NEW f \in Nat, NEW e \in Nat, NEW g \in Nat, NEW h \in Nat,
         1 <= f, f <= e, e <= g, g <= h, h <= Len(t)
  PROVE  SubSeq(t, f, e) \o SubSeq(t, e + 1, g) \o SubSeq(t, g + 1, h) = SubSeq(t, f, h)
<1>1. Len(t) \in Nat
  OBVIOUS
<1>2. f \in 1..Len(t) + 1 /\ e \in f - 1..Len(t) /\ g \in e..Len(t) /\ g \in f - 1..Len(t) /\ h \in g..Len(t)
  BY <1>1
<1>3. SubSeq(t, f, e) \o SubSeq(t, e + 1, g) = SubSeq(t, f, g)
  BY <1>2, ConcatAdjacentSubSeq
<1>4. SubSeq(t, f, g) \o SubSeq(t, g + 1, h) = SubSeq(t, f, h)
  BY <1>2, ConcatAdjacentSubSeq
<1> QED BY <1>3, <1>4

\* The last clause takes what lies up to h: clauses ds at qs instead of cs at ps.
LastTakes(t, n, h, st, cs, ps, l, ds, qs) ==
  /\ t \in Seq(Chars) /\ n \in Nat /\ h \in Nat /\ n < h /\ h <= Len(t)
  /\ t[h] \notin White /\ Uncut(t, TRUE, h)
  /\ cs \in Seq(Seq(Chars) \X Seq(Chars)) /\ ps \in Seq([from : Nat, to : Nat])
  /\ l \in Nat /\ Len(cs) = l /\ Len(ps) = l /\ st \in Nat /\ st < l
  /\ AllPlaced(t, TRUE, n, cs, ps) /\ Rejoined(t, n, st, cs, ps)
  /\ ds = [cs EXCEPT ![l] = <<cs[l][1] \o cs[l][2] \o SubSeq(t, n + 1, h), <<>>>>]
  /\ qs = [ps EXCEPT ![l] = [ps[l] EXCEPT !.to = h]]

LastHas(t, h, st, ps, l, ds, qs) ==
  /\ ds \in Seq(Seq(Chars) \X Seq(Chars)) /\ qs \in Seq([from : Nat, to : Nat])
  /\ Len(ds) = l /\ Len(qs) = l /\ qs[l].to = h
  /\ \A k \in 1..l : qs[k].from = ps[k].from /\ ps[k].to <= qs[k].to
  /\ AllPlaced(t, TRUE, h, ds, qs) /\ Rejoined(t, h, st, ds, qs)

\* The last clause with the short tail is placed as a clause is.
LEMMA LastTaken ==
  ASSUME NEW t, NEW n, NEW h, NEW st, NEW cs, NEW ps, NEW l, NEW ds, NEW qs,
         LastTakes(t, n, h, st, cs, ps, l, ds, qs)
  PROVE  LastHas(t, h, st, ps, l, ds, qs)
<1>0. /\ t \in Seq(Chars) /\ n \in Nat /\ h \in Nat /\ n < h /\ h <= Len(t)
      /\ t[h] \notin White /\ Uncut(t, TRUE, h)
      /\ cs \in Seq(Seq(Chars) \X Seq(Chars)) /\ ps \in Seq([from : Nat, to : Nat])
      /\ l \in Nat /\ Len(cs) = l /\ Len(ps) = l /\ st \in Nat /\ st < l
      /\ AllPlaced(t, TRUE, n, cs, ps) /\ Rejoined(t, n, st, cs, ps)
  BY Zenon DEF LastTakes
<1>1. l \in 1..l /\ l \in st + 1..l /\ Len(t) \in Nat
  BY <1>0
<1>2. ps[l].from \in Nat /\ ps[l].to \in Nat /\ ps[l] \in [from : Nat, to : Nat]
  BY <1>0, <1>1, PlaceType
<1>3. /\ 1 <= ps[l].from /\ ps[l].from <= ps[l].to /\ ps[l].to <= n
      /\ cs[l][1] = SubSeq(t, ps[l].from, ps[l].to) /\ t[ps[l].from] \notin White
  BY <1>0, <1>1 DEF AllPlaced, Placed
<1>4. cs[l][2] = SubSeq(t, ps[l].to + 1, n)
  <2>1. NextAt(n, ps, l) = n + 1 /\ (n + 1) - 1 = n
    BY <1>0 DEF NextAt
  <2> QED BY <2>1, <1>0, <1>1 DEF Rejoined
<1> DEFINE f == ps[l].from
           e == ps[l].to
           c == cs[l][1] \o cs[l][2] \o SubSeq(t, n + 1, h)
           q == [ps[l] EXCEPT !.to = h]
<1>5. c = SubSeq(t, f, h)
  <2>1. f \in Nat /\ e \in Nat /\ 1 <= f /\ f <= e /\ e <= n /\ n <= h
    BY <1>0, <1>2, <1>3
  <2>0. t \in Seq(Chars) /\ h \in Nat /\ n \in Nat /\ h <= Len(t)
    BY <1>0
  <2>2. c = SubSeq(t, f, e) \o SubSeq(t, e + 1, n) \o SubSeq(t, n + 1, h)
    BY <1>3, <1>4
  <2> HIDE DEF f, e, c
  <2>3. SubSeq(t, f, e) \o SubSeq(t, e + 1, n) \o SubSeq(t, n + 1, h) = SubSeq(t, f, h)
    BY <2>0, <2>1, JoinedParts
  <2> QED BY <2>2, <2>3
<1>6. c \in Seq(Chars) /\ <<>> \in Seq(Chars)
  <2>1. f \in 1..Len(t) /\ h \in f - 1..Len(t)
    BY <1>0, <1>1, <1>2, <1>3
  <2> HIDE DEF f, c
  <2> QED BY <2>1, <1>0, <1>5
<1> HIDE DEF c
<1>7. ds = [cs EXCEPT ![l] = <<c, <<>>>>] /\ <<c, <<>>>> \in Seq(Chars) \X Seq(Chars)
  BY <1>6 DEF c, LastTakes
<1>8. /\ ds \in Seq(Seq(Chars) \X Seq(Chars)) /\ Len(ds) = l /\ ds[l] = <<c, <<>>>>
      /\ \A k \in 1..l : k # l => ds[k] = cs[k]
  BY <1>0, <1>1, <1>7, ExceptSeq
<1>9. q \in [from : Nat, to : Nat] /\ q.from = f /\ q.to = h
  BY <1>0, <1>2
<1>10. qs = [ps EXCEPT ![l] = q]
  BY DEF LastTakes
<1> HIDE DEF q
<1>11. /\ qs \in Seq([from : Nat, to : Nat]) /\ Len(qs) = l /\ qs[l] = q
       /\ \A k \in 1..l : k # l => qs[k] = ps[k]
  BY <1>0, <1>1, <1>9, <1>10, ExceptSeq
<1>12. \A k \in 1..l : qs[k].from = ps[k].from /\ ps[k].to <= qs[k].to
  <2> SUFFICES ASSUME NEW k \in 1..l PROVE qs[k].from = ps[k].from /\ ps[k].to <= qs[k].to
    OBVIOUS
  <2>1. ps[k].to \in Nat
    BY <1>0, PlaceType
  <2>2. CASE k # l
    <3>1. qs[k] = ps[k]
      BY <2>2, <1>11
    <3> QED BY <2>1, <3>1
  <2>3. CASE k = l
    <3>1. qs[k].from = ps[k].from /\ qs[k].to = h
      BY <2>3, <1>9, <1>11
    <3>2. h \in Nat /\ n \in Nat /\ n < h /\ ps[k].to <= n
      BY <2>3, <1>0, <1>3
    <3> QED BY <2>1, <3>1, <3>2
  <2> QED BY <2>2, <2>3
<1>13. AllPlaced(t, TRUE, n, cs, ps) /\ AllPlaced(t, TRUE, h, cs, ps)
  <2>1. n <= h
    BY <1>0
  <2> QED BY <2>1, <1>0, PlacedMore
<1>14. ASSUME NEW k \in 1..l PROVE Placed(t, TRUE, h, ds[k], qs[k])
  <2>1. CASE k # l
    BY <2>1, <1>0, <1>8, <1>11, <1>13 DEF AllPlaced
  <2>2. CASE k = l
    <3>1. ds[k][1] = c /\ qs[k].from = f /\ qs[k].to = h
      BY <2>2, <1>8, <1>9, <1>11
    <3>2. 1 <= f /\ f <= h /\ h <= h /\ t[f] \notin White
      <4>1. n \in Nat /\ h \in Nat /\ n < h
        BY <1>0
      <4> QED BY <4>1, <1>2, <1>3
    <3> HIDE DEF f
    <3> QED BY <3>1, <3>2, <1>0, <1>5 DEF Placed
  <2> QED BY <2>1, <2>2
<1>15. ASSUME NEW k \in 1..l, k > 1 PROVE qs[k - 1].to < qs[k].from
  <2>1. k - 1 \in 1..l /\ k - 1 # l
    BY <1>0, <1>15
  <2>2. ps[k - 1].to < ps[k].from
    BY <1>0, <1>13, <1>15 DEF AllPlaced
  <2> QED BY <2>1, <2>2, <1>11, <1>12
<1>16. AllPlaced(t, TRUE, h, ds, qs)
  BY <1>11, <1>14, <1>15 DEF AllPlaced
<1>17. ASSUME NEW k \in st + 1..l
       PROVE  /\ qs[k].to < NextAt(h, qs, k)
              /\ ds[k][2] = SubSeq(t, qs[k].to + 1, NextAt(h, qs, k) - 1)
  <2>1. CASE k = l
    <3>0. h \in Nat /\ l \in Nat /\ Len(qs) = l /\ (h + 1) - 1 = h /\ h < h + 1 /\ ~(k < Len(qs))
      <4>1. h \in Nat /\ l \in Nat
        BY <1>0
      <4>2. Len(qs) = l
        BY <1>11
      <4> QED BY <4>1, <4>2, <2>1
    <3>1. NextAt(h, qs, k) = h + 1 /\ (h + 1) - 1 = h /\ h < h + 1
      BY <3>0 DEF NextAt
    <3>2. SubSeq(t, h + 1, h) = <<>>
      BY <1>0
    <3>3. qs[k].to = h /\ ds[k][2] = <<>>
      BY <2>1, <1>8, <1>9, <1>11
    <3> QED BY <3>1, <3>2, <3>3
  <2>2. CASE k # l
    <3>1. k \in 1..l /\ k + 1 \in 1..l /\ k < Len(ps) /\ k < Len(qs) /\ k \in st + 1..Len(ps)
      <4>1. l \in Nat /\ st \in Nat /\ Len(ps) = l /\ Len(qs) = l
        BY <1>0, <1>11
      <4> QED BY <4>1, <2>2
    <3>2. NextAt(h, qs, k) = qs[k + 1].from /\ NextAt(n, ps, k) = ps[k + 1].from
      BY <3>1 DEF NextAt
    <3>3. NextAt(h, qs, k) = NextAt(n, ps, k)
      BY <3>1, <3>2, <1>12
    <3>4. qs[k] = ps[k] /\ ds[k] = cs[k]
      BY <3>1, <2>2, <1>8, <1>11
    <3> QED BY <3>1, <3>3, <3>4, <1>0 DEF Rejoined
  <2> QED BY <2>1, <2>2
<1>18. Rejoined(t, h, st, ds, qs)
  BY <1>11, <1>17 DEF Rejoined
<1> QED BY <1>8, <1>9, <1>11, <1>12, <1>16, <1>18 DEF LastHas

\* The last clause of a block is where its text ends.
LEMMA LastEnds ==
  ASSUME NEW t \in Seq(Chars), NEW n \in Nat, n >= 1, n <= Len(t), t[n] \notin White, NEW complete, NEW cs,
         NEW ps \in Seq([from : Nat, to : Nat]), AllPlaced(t, complete, n, cs, ps), Covered(t, <<>>, n, ps)
  PROVE  ps[Len(ps)].to = n
<1>1. n \in 1..Len(t) /\ ~(n < n)
  OBVIOUS
<1>2. PICK j \in 1..Len(ps) : ps[j].from <= n /\ n <= ps[j].to
  BY <1>1 DEF Covered
<1>3. ps[j].to \in Nat /\ ps[j].to <= n
  BY PlaceType DEF AllPlaced, Placed
<1>4. j = Len(ps)
  <2> SUFFICES ASSUME j # Len(ps) PROVE FALSE
    OBVIOUS
  <2>1. j + 1 \in 1..Len(ps) /\ j + 1 > 1 /\ (j + 1) - 1 = j
    OBVIOUS
  <2> DEFINE k == j + 1
  <2>2. k \in 1..Len(ps) /\ k > 1 /\ k - 1 = j
    BY <2>1
  <2> HIDE DEF k
  <2>3. ps[k - 1].to < ps[k].from /\ ps[k].from <= ps[k].to /\ ps[k].to <= n
    BY <2>2 DEF AllPlaced, Placed
  <2>4. ps[k].to \in Nat /\ ps[k].from \in Nat
    BY <2>2, PlaceType
  <2>5. ps[j].to < ps[k].from
    BY <2>2, <2>3
  <2>6. ps[k].from <= ps[k].to /\ ps[k].to <= n /\ n <= ps[j].to
    BY <2>3, <1>2
  <2>7. \A x, y, z \in Nat : ~(x < y /\ y <= z /\ z <= n /\ n <= x)
    OBVIOUS
  <2> QED BY <2>4, <2>5, <2>6, <2>7, <1>3, Zenon
<1> QED BY <1>2, <1>3, <1>4

\* What a block leaves keeps the invariant, a clause of its own or joined to the last.
LEMMA RemainderKeeps ==
  ASSUME DetectorInv, Remainder
  PROVE  DetectorInv'
<1> DEFINE n == Len(clauses)
           h == left + Len(buffer)
           alone == IF n = streamed \/ Len(buffer) >= MinClause THEN TRUE
                    ELSE EndsAt(clauses[n][1], clauses[n][2]) \in {"paragraph", "sentence"}
           place == [from |-> left + 0 + 1, to |-> left + 0 + Len(buffer)]
           ds == [clauses EXCEPT ![n] = AttachTail(@, buffer)]
           qs == [places EXCEPT ![n].to = place.to]
<1>1. /\ received \in Seq(Chars) /\ buffer \in Seq(Chars) /\ left \in Nat /\ split_clauses \in BOOLEAN
      /\ clauses \in Seq(Seq(Chars) \X Seq(Chars)) /\ places \in Seq([from : Nat, to : Nat])
      /\ Len(places) = Len(clauses) /\ streamed \in 0..Len(clauses) /\ left + Len(buffer) <= Len(received)
  BY DEF DetectorInv, DetectorTyped
<1>2. phase = "waiting" /\ block = TRUE
  BY DEF Remainder, DetectorInv, DetectorTyped
<1>3. /\ Window(received, buffer, left) /\ Bounded(received, buffer, left)
      /\ AllPlaced(received, TRUE, left, clauses, places) /\ Covered(received, buffer, left, places)
      /\ Rejoined(received, left, streamed, clauses, places)
  BY <1>2 DEF DetectorInv, Framed
<1>4. Strip(buffer) = buffer /\ Leading(buffer) = 0
  BY <1>1, <1>3, BoundedStrip
<1>5. /\ \/ buffer = <<>> /\ clauses' = clauses /\ places' = places
         \/ buffer # <<>> /\ alone /\ clauses' = Append(clauses, <<buffer, <<>>>>) /\ places' = Append(places, place)
         \/ buffer # <<>> /\ ~alone /\ clauses' = ds /\ places' = qs
      /\ buffer' = <<>> /\ offset' = 0 /\ left' = h /\ phase' = "over" /\ split_clauses' = split_clauses
      /\ block' = block /\ received' = received /\ streamed' = streamed
  BY <1>4 DEF Remainder
<1>6. /\ Len(buffer) \in Nat /\ n \in Nat /\ h \in Nat /\ h <= Len(received) /\ left <= h /\ h >= 1
      /\ received[h] \notin White /\ Len(received) \in Nat /\ h = left + Len(buffer)
  <2>1. Len(buffer) \in Nat /\ n \in Nat /\ Len(received) \in Nat
    BY <1>1
  <2>2. h >= 1 /\ received[h] \notin White
    BY <1>3 DEF Bounded
  <2>3. left \in Nat /\ left + Len(buffer) <= Len(received)
    BY <1>1
  <2>4. h \in Nat /\ h <= Len(received) /\ left <= h
    BY <2>1, <2>3
  <2> QED BY <2>1, <2>2, <2>4
<1>7. Uncut(received, TRUE, h)
  <2>1. h # Len(received) => h + 1 \in h + 1..Len(received)
    BY <1>6
  <2>2. h # Len(received) => received[h + 1] \in White
    BY <2>1, <1>3 DEF Bounded
  <2> QED BY <2>2 DEF Uncut, GoesOn
<1>8. Len(<<>>) = 0 /\ \A i \in Nat : ~(h < i /\ i <= h + 0)
  BY <1>6
<1>9. Window(received, <<>>, h)
  BY <1>6, <1>8 DEF Window
<1>10. Framed'
  BY <1>2, <1>5, <1>9 DEF Framed
<1>11. Firm(<<>>, 0, split_clauses)
  <2>1. <<>> \in Seq(Chars)
    OBVIOUS
  <2> QED BY <2>1, FirmFresh
<1>12. SUFFICES /\ clauses' \in Seq(Seq(Chars) \X Seq(Chars)) /\ places' \in Seq([from : Nat, to : Nat])
                /\ Len(places') = Len(clauses') /\ streamed \in 0..Len(clauses')
                /\ AllPlaced(received, TRUE, h, clauses', places')
                /\ Covered(received, <<>>, h, places')
                /\ Rejoined(received, h, streamed, clauses', places')
                /\ streamed < Len(places') => places'[Len(places')].to = h
  <2>1. DetectorTyped'
    BY <1>1, <1>2, <1>5, <1>6, <1>8, <1>12 DEF DetectorInv, DetectorTyped
  <2> QED BY <2>1, <1>2, <1>5, <1>10, <1>11, <1>12 DEF DetectorInv
<1>n. n = Len(clauses) /\ n = Len(places)
  BY <1>1
<1> HIDE DEF h, n
<1>13. CASE buffer = <<>>
  <2>1. clauses' = clauses /\ places' = places /\ Len(buffer) = 0
    BY <1>5, <1>13
  <2>2. h = left
    BY <2>1, <1>1, <1>6
  <2>3. Covered(received, <<>>, left, places)
    BY <1>3, <1>13
  <2>4. places[Len(places)].to = left
    <3>1. left >= 1 /\ left <= Len(received) /\ received[left] \notin White
      BY <2>2, <1>6
    <3> QED BY <3>1, <2>3, <1>1, <1>3, LastEnds
  <2> QED BY <2>1, <2>2, <2>3, <2>4, <1>1, <1>3
<1>14. CASE buffer # <<>>
  <2>1. Len(buffer) >= 1 /\ left < h /\ 1 \in 1..Len(buffer)
    <3>1. Len(buffer) # 0
      BY <1>1, <1>14, EmptySeq
    <3> QED BY <3>1, <1>1, <1>6
  <2>2. buffer = SubSeq(received, left + 1, h)
    <3>1. buffer = SubSeq(received, left + 1, left + Len(buffer))
      BY <1>1, <1>3, WindowIsSlice
    <3> QED BY <3>1 DEF h
  <2>3. received[left + 1] \notin White
    <3>1. buffer[1] = received[left + 1]
      BY <2>1, <1>3 DEF Window
    <3> QED BY <3>1, <1>3, <1>14 DEF Bounded
  <2>4. place = [from |-> left + 1, to |-> h]
    BY <1>1, <1>6
  <2> HIDE DEF place
  <2>5. /\ place \in [from : Nat, to : Nat] /\ place.from = left + 1 /\ place.to = h
        /\ 1 <= place.from /\ place.from <= h /\ h <= h /\ left < place.from
    BY <2>1, <2>4, <1>1, <1>6
  <2>6. CASE alone /\ clauses' = Append(clauses, <<buffer, <<>>>>) /\ places' = Append(places, place)
    <3> DEFINE c == <<buffer, <<>>>>
    <3>1. c \in Seq(Chars) \X Seq(Chars) /\ c[1] = buffer /\ c[2] = <<>>
      <4>1. buffer \in Seq(Chars) /\ <<>> \in Seq(Chars)
        BY <1>1
      <4> QED BY <4>1
    <3>2. clauses' = Append(clauses, c) /\ places' = Append(places, place)
      BY <2>6
    <3> HIDE DEF c, alone
    <3>3. Placed(received, TRUE, h, c, place)
      BY <3>1, <2>2, <2>3, <2>5, <1>6, <1>7 DEF Placed
    <3>4. AllPlaced(received, TRUE, h, Append(clauses, c), Append(places, place))
      BY <3>1, <3>3, <2>5, <1>1, <1>3, <1>6, PlacedNext
    <3>5. Rejoined(received, h, streamed, Append(clauses, c), Append(places, place))
      <4>1. SubSeq(received, h + 1, h) = <<>>
        BY <1>6
      <4>2. c[2] = SubSeq(received, place.to + 1, h) /\ place.to <= h /\ streamed \in Nat
        BY <4>1, <3>1, <2>5, <1>1
      <4> QED BY <4>2, <3>1, <2>5, <1>1, <1>3, <1>6, RejoinedNext
    <3>6. /\ Append(clauses, c) \in Seq(Seq(Chars) \X Seq(Chars)) /\ Len(Append(clauses, c)) = n + 1
      BY <3>1, <1>1, <1>n, AppendProperties
    <3>7. /\ Append(places, place) \in Seq([from : Nat, to : Nat]) /\ Len(Append(places, place)) = n + 1
          /\ (\A k \in 1..n : Append(places, place)[k] = places[k])
          /\ Append(places, place)[n + 1] = place
      <4>1. /\ Append(places, place) \in Seq([from : Nat, to : Nat])
            /\ Len(Append(places, place)) = Len(places) + 1
            /\ (\A k \in 1..Len(places) : Append(places, place)[k] = places[k])
            /\ Append(places, place)[Len(places) + 1] = place
        BY <2>5, <1>1, Appended
      <4> QED BY <4>1, <1>n
    <3> DEFINE ps == Append(places, place)
    <3> HIDE DEF ps
    <3>8. Covered(received, <<>>, h, ps)
      <4> SUFFICES ASSUME NEW i \in 1..Len(received)
                   PROVE  received[i] \in White \/ \E k \in 1..Len(ps) : ps[k].from <= i /\ i <= ps[k].to
        BY DEF Covered
      <4>1. CASE \E k \in 1..Len(places) : places[k].from <= i /\ i <= places[k].to
        <5>1. PICK k \in 1..Len(places) : places[k].from <= i /\ i <= places[k].to
          BY <4>1
        <5>2. k \in 1..Len(ps) /\ ps[k] = places[k]
          <6>1. k \in 1..n /\ k \in 1..n + 1 /\ Len(ps) = n + 1
            BY <3>7, <1>n, <1>6 DEF ps
          <6> QED BY <6>1, <3>7 DEF ps
        <5> QED BY <5>1, <5>2
      <4>2. CASE left < i /\ i <= h
        <5>1. n + 1 \in 1..Len(ps) /\ ps[n + 1] = place
          BY <3>7, <1>6 DEF ps
        <5>2. place.from <= i /\ i <= place.to
          BY <4>2, <2>5, <1>1
        <5> QED BY <5>1, <5>2
      <4>3. \/ received[i] \in White
            \/ \E k \in 1..Len(places) : places[k].from <= i /\ i <= places[k].to
            \/ left < i /\ i <= h
        BY <1>3 DEF Covered, h
      <4> QED BY <4>1, <4>2, <4>3
    <3>9. ps[Len(ps)].to = h /\ streamed \in 0..n + 1
      BY <3>7, <2>5, <1>1, <1>6 DEF ps
    <3> QED BY <3>2, <3>4, <3>5, <3>6, <3>7, <3>8, <3>9 DEF ps
  <2>7. CASE ~alone /\ clauses' = ds /\ places' = qs
    <3>1. streamed < n
      <4>1. n # streamed
        BY <2>7
      <4> QED BY <4>1, <1>1, <1>6, <1>n
    <3>2. /\ ds = [clauses EXCEPT ![n] = <<clauses[n][1] \o clauses[n][2] \o SubSeq(received, left + 1, h), <<>>>>]
          /\ qs = [places EXCEPT ![n] = [places[n] EXCEPT !.to = h]]
      BY <2>2, <2>5 DEF AttachTail
    <3> HIDE DEF ds, qs, alone
    <3>3. LastTakes(received, left, h, streamed, clauses, places, n, ds, qs)
      <4>1. /\ received \in Seq(Chars) /\ left \in Nat /\ h \in Nat /\ left < h /\ h <= Len(received)
            /\ received[h] \notin White /\ Uncut(received, TRUE, h)
        BY <2>1, <1>1, <1>6, <1>7
      <4>2. /\ clauses \in Seq(Seq(Chars) \X Seq(Chars)) /\ places \in Seq([from : Nat, to : Nat])
            /\ n \in Nat /\ Len(clauses) = n /\ Len(places) = n /\ streamed \in Nat /\ streamed < n
        BY <3>1, <1>1, <1>6, <1>n
      <4> QED BY <4>1, <4>2, <3>2, <1>3, Zenon DEF LastTakes
    <3>4. LastHas(received, h, streamed, places, n, ds, qs)
      BY <3>3, LastTaken
    <3>5. /\ ds \in Seq(Seq(Chars) \X Seq(Chars)) /\ qs \in Seq([from : Nat, to : Nat])
          /\ Len(ds) = n /\ Len(qs) = n /\ qs[n].to = h
          /\ AllPlaced(received, TRUE, h, ds, qs) /\ Rejoined(received, h, streamed, ds, qs)
          /\ \A k \in 1..n : qs[k].from = places[k].from /\ places[k].to <= qs[k].to
      BY <3>4 DEF LastHas
    <3>6. Covered(received, <<>>, h, qs)
      <4> SUFFICES ASSUME NEW i \in 1..Len(received)
                   PROVE  received[i] \in White \/ \E k \in 1..Len(qs) : qs[k].from <= i /\ i <= qs[k].to
        BY DEF Covered
      <4>1. CASE \E k \in 1..Len(places) : places[k].from <= i /\ i <= places[k].to
        <5>1. PICK k \in 1..n : places[k].from <= i /\ i <= places[k].to
          BY <4>1, <1>n
        <5>2. places[k].to \in Nat /\ qs[k].to \in Nat
          BY <3>5, <1>1, <1>n, PlaceType
        <5>3. qs[k].from = places[k].from /\ places[k].to <= qs[k].to /\ k \in 1..Len(qs)
          BY <3>5
        <5>4. qs[k].from <= i /\ i <= qs[k].to /\ k \in 1..Len(qs)
          BY <5>1, <5>2, <5>3
        <5> QED BY <5>4
      <4>2. CASE left < i /\ i <= h
        <5>1. n \in 1..n /\ n \in 1..Len(places)
          BY <3>1, <1>1, <1>6, <1>n
        <5>2. places[n].from \in Nat /\ places[n].to \in Nat /\ places[n].from <= places[n].to /\ places[n].to <= left
          BY <5>1, <1>1, <1>3, PlaceType DEF AllPlaced, Placed
        <5>3. qs[n].from <= i /\ i <= qs[n].to /\ n \in 1..Len(qs)
          <6>1. qs[n].from = places[n].from /\ qs[n].to = h /\ n \in 1..Len(qs)
            BY <5>1, <3>5
          <6>2. places[n].from <= i
            <7>1. left \in Nat /\ left < i
              BY <4>2, <1>1
            <7> QED BY <7>1, <5>2
          <6> QED BY <6>1, <6>2, <4>2
        <5> QED BY <5>3
      <4>3. \/ received[i] \in White
            \/ \E k \in 1..Len(places) : places[k].from <= i /\ i <= places[k].to
            \/ left < i /\ i <= h
        BY <1>3 DEF Covered, h
      <4> QED BY <4>1, <4>2, <4>3
    <3> QED BY <3>5, <3>6, <2>7, <1>1, <1>n
  <2> HIDE DEF alone, ds, qs
  <2> QED BY <2>6, <2>7, <1>5, <1>14
<1> QED BY <1>13, <1>14

--------------------------------------------------------------------------------

\* The initial states, and every step, keep the invariant.
LEMMA DetectorInvariance == DetectorSpec => []DetectorInv
<1> USE DetectorAssumption
<1>1. ASSUME DetectorInit PROVE DetectorInv
  <2>1. <<>> \in Seq(Chars) /\ Len(<<>>) = 0 /\ <<>> \in Seq(Seq(Chars) \X Seq(Chars))
        /\ <<>> \in Seq([from : Nat, to : Nat]) /\ MaxText \in Nat /\ 1..0 = {}
    BY DEF DetectorAssumption
  <2>2. DetectorTyped
    <3>1. 0 <= MaxText /\ 0 \in 0..0 /\ 0 \in Nat /\ 0 + 0 <= 0
      BY <2>1
    <3>2. received = <<>> /\ buffer = <<>> /\ clauses = <<>> /\ places = <<>> /\ left = 0 /\ streamed = 0
          /\ split_clauses \in BOOLEAN /\ block \in BOOLEAN /\ phase = "waiting"
      BY <1>1 DEF DetectorInit
    <3> QED BY <2>1, <3>1, <3>2 DEF DetectorTyped
  <2>3. Framed
    BY <1>1, <2>1 DEF DetectorInit, Framed, Window
  <2>4. Firm(buffer, offset, split_clauses)
    BY <1>1, <2>1, FirmFresh DEF DetectorInit
  <2>5. AllPlaced(received, block, left, clauses, places) /\ Covered(received, buffer, left, places)
    BY <1>1, <2>1 DEF DetectorInit, AllPlaced, Covered
  <2>6. block = FALSE /\ phase = "waiting"
    BY <1>1 DEF DetectorInit
  <2> QED BY <2>2, <2>3, <2>4, <2>5, <2>6 DEF DetectorInv
<1>2. ASSUME DetectorInv, [DetectorNext]_detectorVars PROVE DetectorInv'
  <2>1. ASSUME NEW new \in Strings(MaxChunk), Len(received) + Len(new) <= MaxText, AddChunk(new)
        PROVE  DetectorInv'
    BY <1>2, <2>1, StringsAre, AddKeeps
  <2>2. ASSUME NEW new \in Strings(MaxText), SplitText(new) PROVE DetectorInv'
    <3>1. new \in Seq(Chars) /\ Len(new) <= MaxText
      <4>1. PICK k \in 1..MaxText : new \in [1..k -> Chars]
        BY DEF Strings
      <4>2. k \in Nat /\ k <= MaxText
        BY DEF DetectorAssumption
      <4> QED BY <4>1, <4>2
    <3> QED BY <3>1, <1>2, <2>2, SplitTextKeeps
  <2>3. CASE Take
    BY <1>2, <2>3, TakeKeeps
  <2>4. CASE Drained
    BY <1>2, <2>4, DrainedKeeps
  <2>5. CASE StreamStops
    BY <1>2, <2>5, StopKeeps
  <2>6. CASE Remainder
    BY <1>2, <2>6, RemainderKeeps
  <2>7. CASE UNCHANGED detectorVars
    BY <1>2, <2>7 DEF detectorVars, DetectorInv, DetectorTyped, Framed
  <2> QED BY <1>2, <2>1, <2>2, <2>3, <2>4, <2>5, <2>6, <2>7 DEF DetectorNext
<1> QED BY <1>1, <1>2, PTL DEF DetectorSpec

\* What _find_natural_boundary settled stays settled, whatever text arrives:
\* a scan from _scan_offset finds what a scan of the whole buffer finds.
THEOREM DetectorSettles == DetectorSpec => []ClausesSettled
<1>1. ASSUME DetectorInv PROVE ClausesSettled
  <2>1. DetectorTypeOK
    <3>1. DetectorTyped /\ offset \in 0..Len(buffer)
      BY <1>1 DEF DetectorInv, Firm
    <3>2. DOMAIN places = 1..Len(places) /\ DOMAIN clauses = 1..Len(clauses)
      BY <3>1 DEF DetectorTyped
    <3> QED BY <3>1, <3>2 DEF DetectorTyped, DetectorTypeOK
  <2>2. SettledStaysSettled
    <3> SUFFICES ASSUME NEW new \in Strings(MaxChunk)
                 PROVE  Boundaries(buffer \o new, offset, split_clauses) = Boundaries(buffer \o new, 0, split_clauses)
      BY DEF SettledStaysSettled
    <3>1. new \in Seq(Chars) /\ buffer \in Seq(Chars) /\ Firm(buffer, offset, split_clauses)
      BY <1>1, StringsAre DEF DetectorInv, DetectorTyped
    <3> DEFINE t == buffer \o new
    <3>2. t \in Seq(Chars) /\ Grows(buffer, t)
      BY <3>1, GrowsMore
    <3> HIDE DEF t
    <3>3. Boundaries(t, offset, split_clauses) = Boundaries(t, 0, split_clauses)
      BY <3>1, <3>2, SameBoundaries
    <3> QED BY <3>3 DEF t
  <2> QED BY <2>1, <2>2 DEF ClausesSettled
<1> QED BY <1>1, DetectorInvariance, PTL

\* For every text, however it is cut into chunks: _drain loses no visible character,
\* cuts no number at its separator and no word at its hyphen, and the clauses of
\* split_clause_text_with_separators and their separators rejoin to the text.
THEOREM DetectorKeepsWhole == DetectorSpec => []ClausesWhole
<1>1. ASSUME DetectorInv PROVE ClausesWhole
  <2>1. /\ received \in Seq(Chars) /\ buffer \in Seq(Chars) /\ Len(places) = Len(clauses)
        /\ clauses \in Seq(Seq(Chars) \X Seq(Chars)) /\ places \in Seq([from : Nat, to : Nat])
        /\ Window(received, buffer, left) /\ AllPlaced(received, block, left, clauses, places)
        /\ Covered(received, buffer, left, places) /\ block \in BOOLEAN /\ streamed \in Nat /\ left \in Nat
        /\ phase = "over" => block /\ Rejoined(received, left, streamed, clauses, places)
        /\ phase = "over" /\ streamed < Len(places) => places[Len(places)].to = left
    BY <1>1 DEF DetectorInv, DetectorTyped, Framed
  <2>2. DOMAIN clauses = 1..Len(places) /\ DOMAIN received = 1..Len(received) /\ Len(places) \in Nat
    BY <2>1
  <2>3. NothingLost
    <3>1. buffer = SubSeq(received, left + 1, left + Len(buffer))
      BY <2>1, WindowIsSlice
    <3>2. ASSUME NEW k \in DOMAIN clauses
          PROVE  LET p == places[k]
                 IN  /\ clauses[k][1] = SubSeq(received, p.from, p.to) /\ p.from <= p.to
                     /\ received[p.from] \notin White /\ received[p.to] \notin White
                     /\ p.to <= left /\ k > 1 => places[k - 1].to < p.from
      BY <2>1, <2>2 DEF AllPlaced, Placed
    <3>3. \A i \in DOMAIN received :
             \/ received[i] \in White
             \/ \E k \in DOMAIN clauses : places[k].from <= i /\ i <= places[k].to
             \/ left < i /\ i <= left + Len(buffer)
      BY <2>1, <2>2 DEF Covered
    <3> QED BY <3>1, <3>2, <3>3 DEF NothingLost
  <2>4. TokensWhole
    <3> SUFFICES ASSUME NEW k \in DOMAIN clauses, NEW n, n = places[k].to,
                        n > 1, n < Len(received), received[n - 1] \in Alnum, received[n + 1] \notin White
                 PROVE  /\ received[n] # "-"
                        /\ received[n - 1] \in Digit /\ received[n] \in {",", "."} => received[n + 1] \notin Digit
      BY DEF TokensWhole
    <3>1. Uncut(received, block, n) /\ n \in Nat
      BY <2>1, <2>2, PlaceType DEF AllPlaced, Placed
    <3>2. n # Len(received)
      <4>1. Len(received) \in Nat
        BY <2>1
      <4> QED BY <4>1, <3>1
    <3>3. Joins(received[n - 1], received[n]) => ~GoesOn(received[n], received[n + 1])
      BY <3>1, <3>2 DEF Uncut
    <3> QED BY <3>3 DEF Joins, GoesOn
  <2>5. SplitRejoins
    <3> SUFFICES ASSUME phase = "over", NEW k \in streamed + 1..Len(places)
                 PROVE  LET next == IF k = Len(places) THEN places[k].to + 1 ELSE places[k + 1].from
                        IN  clauses[k][2] = SubSeq(received, places[k].to + 1, next - 1)
      BY <2>1 DEF SplitRejoins
    <3>1. clauses[k][2] = SubSeq(received, places[k].to + 1, NextAt(left, places, k) - 1)
      BY <2>1 DEF Rejoined
    <3>2. CASE k = Len(places)
      <4>1. NextAt(left, places, k) = left + 1
        BY <3>2 DEF NextAt
      <4>2. streamed < Len(places)
        BY <3>2, <2>1, <2>2
      <4> QED BY <4>1, <4>2, <3>1, <3>2, <2>1
    <3>3. CASE k # Len(places)
      <4>1. NextAt(left, places, k) = places[k + 1].from
        BY <3>3, <2>1, <2>2 DEF NextAt
      <4> QED BY <4>1, <3>1, <3>3
    <3> QED BY <3>2, <3>3
  <2> QED BY <2>3, <2>4, <2>5 DEF ClausesWhole
<1> QED BY <1>1, DetectorInvariance, PTL
================================================================================
