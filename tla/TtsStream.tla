------------------------------- MODULE TtsStream -------------------------------
(***************************************************************************)
(* TTSEventHandler of tts.py as its client sees it: one-shot requests, and *)
(* streams of text whose clauses are spoken in one audio lifecycle.  The   *)
(* synthesis of one part of a text is one step (SynthesisPipeline has its  *)
(* detail); the clauses of a chunk are as many as ClauseDetector may find. *)
(***************************************************************************)
EXTENDS Integers, Sequences, FiniteSets

CONSTANTS
  MaxTextChars,    \* max_text_chars
  MaxEmptyEvents,  \* RequestLimit.MAX_EMPTY_EVENTS
  MaxParts,        \* bound: token segments of a clause
  MaxEvents        \* bound: events of a client

ASSUME StreamAssumption ==
  /\ MaxTextChars \in Nat \ {0} /\ MaxEmptyEvents \in Nat
  /\ MaxParts \in Nat \ {0} /\ MaxEvents \in Nat

VARIABLES
  open,        \* the connection's loop goes on
  streaming,   \* is_streaming
  audible,     \* stream_audio_started
  served,      \* stream_lifecycle_served
  expired,     \* stream_deadline has passed
  chars,       \* stream_text_chars
  spoken,      \* stream_normalized_chars
  blanks,      \* stream_empty_events
  held,        \* the detector holds text
  request,     \* what is being synthesized for: "none", "once", "chunk", "stop"
  work,        \* parts still to be synthesized
  sent,        \* history: events written
  lost,        \* history: a write timed out
  lifecycles,  \* history: streams begun, and stream events refused outside one
  events       \* history: events of the client

streamVars == <<streaming, audible, served, expired, chars, spoken, blanks, held>>
workVars   == <<request, work>>
handlerVars == <<open, streamVars, workVars, sent, lost, lifecycles, events>>

Failure(started) ==
  IF started THEN <<"Error", "AudioStop">> ELSE <<"Error", "AudioStart", "AudioStop">>

StreamInit ==
  /\ open = TRUE /\ streaming = FALSE /\ audible = FALSE /\ served = FALSE /\ expired = FALSE
  /\ chars = 0 /\ spoken = 0 /\ blanks = 0 /\ held = FALSE
  /\ request = "none" /\ work = <<>>
  /\ sent = <<>> /\ lost = FALSE /\ lifecycles = 0 /\ events = 0

ResetStream ==
  /\ streaming' = FALSE /\ audible' = FALSE /\ expired' = FALSE
  /\ chars' = 0 /\ spoken' = 0 /\ blanks' = 0 /\ held' = FALSE

\* Faulty: a stream that failed is always closed by an audio of its own.
FailStreamAnew ==
  /\ sent' = sent \o Failure(FALSE) \o <<"SynthesizeStopped">>
  /\ ResetStream
  /\ served' = TRUE /\ open' = FALSE

\* _fail_stream
FailStream ==
  /\ sent' = sent \o Failure(audible) \o <<"SynthesizeStopped">>
  /\ ResetStream
  /\ served' = TRUE /\ open' = FALSE

\* The client's next event is read once the last one was handled.
Receives == open /\ work = <<>> /\ request = "none" /\ events < MaxEvents /\ events' = events + 1

DeadlinePasses ==
  /\ streaming /\ ~expired
  /\ expired' = TRUE
  /\ UNCHANGED <<open, streaming, audible, served, chars, spoken, blanks, held, workVars, sent,
                 lost, lifecycles, events>>

\* The work becomes the token segments of n clauses, numbered through; ends holds
\* the last one of each clause.  Audio stops after the very last if final.
Segmented(n, final) ==
  \E length \in n..(n * MaxParts) : \E ends \in SUBSET (1..length) :
    /\ length \in ends /\ Cardinality(ends) = n
    /\ \A i \in 1..length : \E e \in ends : e \in i..(i + MaxParts - 1)
    /\ work' = [i \in 1..length |-> [first |-> i = 1 \/ i - 1 \in ends, last |-> i \in ends,
                                     stop |-> final /\ i = length]]

--------------------------------------------------------------------------------
(* One-shot requests. *)

\* Faulty: only a stream in progress makes a one-shot request redundant.
RedundantInStream == streaming

\* Streaming clients repeat their whole text in a one-shot request.
Redundant == streaming \/ served

IgnoreSynthesize ==
  /\ Receives /\ Redundant
  /\ UNCHANGED <<open, streamVars, workVars, sent, lost, lifecycles>>

RefuseSynthesize ==
  /\ Receives /\ ~Redundant
  /\ sent' = sent \o Failure(FALSE)
  /\ open' = FALSE
  /\ UNCHANGED <<streamVars, workVars, lost, lifecycles>>

HandleSynthesize ==
  /\ Receives /\ ~Redundant
  /\ request' = "once"
  /\ Segmented(1, TRUE)
  /\ UNCHANGED <<open, streamVars, sent, lost, lifecycles>>

--------------------------------------------------------------------------------
(* Streams. *)

HandleStreamStart ==
  /\ Receives /\ ~streaming
  /\ streaming' = TRUE
  /\ audible' = FALSE /\ expired' = FALSE /\ chars' = 0 /\ spoken' = 0 /\ blanks' = 0 /\ held' = FALSE
  /\ lifecycles' = lifecycles + 1
  /\ UNCHANGED <<open, served, workVars, sent, lost>>

\* A stream event that is malformed, out of order or past the deadline, or a
\* text that the normalizer refuses.
InvalidStreamEvent ==
  /\ Receives
  /\ FailStream
  /\ lifecycles' = IF streaming THEN lifecycles ELSE lifecycles + 1
  /\ UNCHANGED <<workVars, lost>>

\* Faulty: the text is measured before it is normalized.
FitsRaw(size) == chars < MaxTextChars

\* Room for size more characters of normalized text.
FitsNormalized(size) == spoken + size <= MaxTextChars

\* A chunk that completes n clauses, of size characters once normalized; one of
\* white space may complete a clause too, and an empty one has no characters.
HandleStreamChunk(n, size, blank) ==
  /\ Receives /\ streaming /\ ~expired
  /\ \E length \in (IF blank THEN 0..1 ELSE {1}) :
       IF \/ blank /\ blanks = MaxEmptyEvents
          \/ chars + length > MaxTextChars
          \/ ~FitsNormalized(size)
       THEN FailStream /\ UNCHANGED workVars
       ELSE /\ chars' = chars + length
            /\ spoken' = spoken + size
            /\ blanks' = (IF blank THEN blanks + 1 ELSE 0)
            /\ held' \in (CASE n > 0 -> BOOLEAN [] blank -> {held} [] OTHER -> {TRUE})
            /\ IF n = 0 THEN UNCHANGED workVars
               ELSE /\ request' = "chunk"
                    /\ Segmented(n, FALSE)
            /\ UNCHANGED <<open, streaming, audible, served, expired, sent>>
  /\ UNCHANGED <<lost, lifecycles>>

\* The end of the stream, with what the detector held, with nothing left to
\* say after audio, or with no text at all.
HandleStreamStop(n, size) ==
  /\ Receives /\ streaming /\ ~expired
  /\ IF held
     THEN IF ~FitsNormalized(size) THEN FailStream /\ UNCHANGED workVars
          ELSE /\ served' = TRUE
               /\ held' = FALSE
               /\ spoken' = spoken + size
               /\ request' = "stop"
               /\ Segmented(n, TRUE)
               /\ UNCHANGED <<open, streaming, audible, expired, chars, blanks, sent>>
     ELSE /\ UNCHANGED workVars
          /\ IF audible
             THEN /\ sent' = sent \o <<"AudioStop", "SynthesizeStopped">>
                  /\ served' = TRUE
                  /\ ResetStream
                  /\ UNCHANGED open
             ELSE FailStream
  /\ UNCHANGED <<lost, lifecycles>>

--------------------------------------------------------------------------------
(* The parts of the text, one after the other. *)

\* Faulty: every clause starts an audio of its own.
SendStartAlways == Head(work).first

\* send_start of a part
SendStart == ~audible /\ Head(work).first

PartSpoken ==
  /\ work # <<>>
  /\ LET p == Head(work)
     IN /\ sent' = sent \o (IF SendStart THEN <<"AudioStart">> ELSE <<>>)
                        \o <<"AudioChunk", IF p.stop THEN "AudioStop" ELSE "Silence">>
        /\ IF Len(work) > 1
           THEN /\ work' = Tail(work)
                /\ audible' = (audible \/ (p.last /\ streaming))
                /\ UNCHANGED request
           ELSE /\ work' = <<>>
                /\ audible' = (audible \/ streaming)
                /\ request' = IF request = "chunk" THEN "none" ELSE request
  /\ UNCHANGED <<open, streaming, served, expired, chars, spoken, blanks, held, lost, lifecycles,
                 events>>

\* What follows the last part.
RequestEnds ==
  /\ work = <<>> /\ request \in {"once", "stop"}
  /\ request' = "none"
  /\ IF request = "once"
     THEN open' = FALSE /\ UNCHANGED <<streamVars, sent>>
     ELSE /\ sent' = Append(sent, "SynthesizeStopped")
          /\ ResetStream
          /\ UNCHANGED <<open, served>>
  /\ UNCHANGED <<work, lost, lifecycles, events>>

\* After None from _synthesize, all of it told: a stream is told that it ended.
GiveUp(told) ==
  /\ sent' = told \o (IF request = "once" THEN <<>> ELSE <<"SynthesizeStopped">>)
  /\ open' = FALSE
  /\ request' = "none" /\ work' = <<>>
  /\ IF request = "once" THEN UNCHANGED streamVars ELSE ResetStream /\ UNCHANGED served
  /\ UNCHANGED <<lifecycles, events>>

\* The engine fails, is busy or exceeds its limit, before the audio of this
\* part starts or after.
PartFails ==
  /\ work # <<>>
  /\ \E begun \in (IF SendStart THEN BOOLEAN ELSE {TRUE}) :
       GiveUp(sent \o (IF SendStart /\ begun THEN <<"AudioStart", "AudioChunk">> ELSE <<>>)
                   \o Failure(begun))
  /\ UNCHANGED lost

\* A write of audio times out; a later one may be taken by the client.
PartLost ==
  /\ work # <<>>
  /\ lost' = TRUE
  /\ GiveUp(sent \o (IF SendStart THEN <<"AudioStart">> ELSE <<>>))

\* Any other write fails or the client is gone: the loop ends.
ConnectionLost ==
  /\ open
  /\ open' = FALSE /\ lost' = TRUE
  /\ ResetStream /\ served' = FALSE
  /\ request' = "none" /\ work' = <<>>
  /\ UNCHANGED <<sent, lifecycles, events>>

StreamNext ==
  \/ DeadlinePasses
  \/ IgnoreSynthesize \/ RefuseSynthesize \/ HandleSynthesize
  \/ HandleStreamStart \/ InvalidStreamEvent
  \/ \E n \in 0..2 : \E size \in n..(2 * n) : \E blank \in BOOLEAN : HandleStreamChunk(n, size, blank)
  \/ \E n \in 1..2 : \E size \in n..(2 * n) : HandleStreamStop(n, size)
  \/ PartSpoken \/ RequestEnds \/ PartFails \/ PartLost \/ ConnectionLost

StreamSpec == StreamInit /\ [][StreamNext]_handlerVars

--------------------------------------------------------------------------------
(* Properties *)

Events == {"AudioStart", "AudioChunk", "Silence", "AudioStop", "SynthesizeStopped", "Error"}

\* How often event e is among the first n of s.
Seen(s, e, n) == Cardinality({i \in 1..n : s[i] = e})

Count(e) == Seen(sent, e, Len(sent))

StreamTypeOK ==
  /\ {open, streaming, audible, served, expired, held, lost} \subseteq BOOLEAN
  /\ chars \in 0..MaxTextChars /\ spoken \in 0..MaxTextChars /\ blanks \in 0..MaxEmptyEvents
  /\ request \in {"none", "once", "chunk", "stop"}
  /\ work # <<>> => request # "none"
  /\ lifecycles \in 0..MaxEvents /\ events \in 0..MaxEvents

\* Audio starts and stops in turn, sound is sent only between, and a stream is
\* reported as stopped only when its audio is.
WellFormed(s, interrupted) ==
  \A n \in 1..Len(s) :
    /\ Seen(s, "AudioStart", n) - Seen(s, "AudioStop", n) \in {0, 1}
    /\ s[n] \in {"AudioChunk", "Silence"} => Seen(s, "AudioStart", n) = Seen(s, "AudioStop", n) + 1
    /\ s[n] = "SynthesizeStopped" =>
         Seen(s, "AudioStart", n) = Seen(s, "AudioStop", n) \/ interrupted

\* What the client was told is in order.
AudioWellFormed == WellFormed(sent, lost)

\* Each stream is answered by one audio, be it empty, and by one
\* synthesize-stopped, however it ends, unless the client stopped reading.
LifecycleAnswered ==
  request = "none" /\ ~streaming /\ ~lost /\ lifecycles > 0 =>
    /\ Count("SynthesizeStopped") = lifecycles
    /\ Count("AudioStart") = lifecycles /\ Count("AudioStop") = lifecycles

\* A one-shot request that repeats the text of a stream, during or after it, is
\* not spoken again.
SpokenOnce == Count("AudioStart") <= (IF lifecycles = 0 THEN 1 ELSE lifecycles)

\* A client sees one well-formed answer to each stream.
StreamAnswered == StreamTypeOK /\ AudioWellFormed /\ LifecycleAnswered

--------------------------------------------------------------------------------
(* The invariant behind them. *)

\* Of what is being synthesized, the audio has begun.
Begun == audible \/ (work # <<>> /\ ~Head(work).first)

\* The audio is open towards the client.
Sounding == Begun /\ ~(request = "stop" /\ work = <<>>)

Piece == [first : BOOLEAN, last : BOOLEAN, stop : BOOLEAN]

\* The parts left of a request: only a clause that ends lets another one begin,
\* and the last part is the one that closes the audio of a request which does.
WorkInv ==
  /\ work \in Seq(Piece)
  /\ \A i \in 1..Len(work) :
       /\ work[i].stop <=> (i = Len(work) /\ request \in {"once", "stop"})
       /\ i = Len(work) => work[i].last
       /\ i < Len(work) /\ ~work[i].last => ~work[i + 1].first
       /\ i < Len(work) /\ request = "once" => ~work[i].last

\* Which requests there are when, and when there are none.
PhaseInv ==
  /\ request = "none" => work = <<>>
  /\ request = "chunk" => work # <<>>
  /\ request \in {"chunk", "stop"} => streaming
  /\ request = "once" => ~streaming /\ ~served
  /\ request = "stop" => served /\ (work = <<>> => audible)
  /\ audible => streaming
  /\ streaming => lifecycles > 0
  /\ ~open => ~streaming /\ request = "none"
  /\ lost => ~open
  /\ open /\ ~served /\ ~streaming => lifecycles = 0
  /\ lifecycles <= events

\* What was sent, in numbers.
CountInv ==
  /\ ~lost => Count("AudioStart") = Count("AudioStop") + (IF Sounding THEN 1 ELSE 0)
  /\ ~lost => lifecycles = Count("SynthesizeStopped") + (IF streaming THEN 1 ELSE 0)
  /\ ~lost /\ lifecycles > 0 =>
       lifecycles = Count("AudioStart") + (IF streaming /\ ~Begun THEN 1 ELSE 0)
  /\ open /\ lifecycles = 0 /\ (request = "none" \/ (work # <<>> /\ ~Begun)) => Count("AudioStart") = 0

AnswerInv ==
  /\ StreamTypeOK /\ sent \in Seq(Events)
  /\ WorkInv /\ PhaseInv /\ CountInv
  /\ AudioWellFormed /\ SpokenOnce
================================================================================
