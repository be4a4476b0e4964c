------------------------------ MODULE VoiceUsage ------------------------------
(***************************************************************************)
(* The record of recently used voices (voice_usage.py) that servers share  *)
(* on a volume: the file is read and then replaced, under a lock of the    *)
(* process only. A server that starts loads the most recently used of its  *)
(* voices, up to what its memory allows (__main__.py).                     *)
(***************************************************************************)
EXTENDS Integers, Sequences, SequencesExt, FiniteSetsExt, Subsequences

CONSTANTS Recorders,          \* server processes
          VoiceNames,         \* voices that are used
          MaxRecent,          \* _MAX_RECENT_VOICES
          MaxRecords          \* bound on the uses of voices and the starts


VARIABLES recent,      \* the file; BadFile when it cannot be read as a list
          draft,       \* per server: the list it is about to write
          asked,       \* per server: the voice it records, or NoVoice
          startup,     \* [configured, limit, chosen] of the server that started last
          used,        \* history: every voice that was recorded, the last one first
          overlap,     \* history: two servers have recorded at the same time, or a write failed
          uses         \* what is left of the bound

usage_vars == <<recent, draft, asked, startup, used, overlap, uses>>

NoVoice == "none"

ASSUME UsageAssumption ==
  /\ MaxRecent \in Nat \ {0} /\ MaxRecords \in Nat
  /\ IsFiniteSet(VoiceNames) /\ NoVoice \notin VoiceNames

BadFile == <<NoVoice>>
NotStarted == [configured |-> <<>>, limit |-> 0, from |-> <<>>, chosen |-> <<>>]

UsageInit ==
  /\ recent \in {<<>>, BadFile}
  /\ draft = [p \in Recorders |-> <<>>] /\ asked = [p \in Recorders |-> NoVoice]
  /\ startup = NotStarted /\ used = <<>> /\ overlap = FALSE /\ uses = MaxRecords

get_recent == IF recent = BadFile THEN <<>> ELSE recent

Truncated(list) == SubSeq(list, 1, Min({Len(list), MaxRecent}))
Others(list, voice) == {i \in DOMAIN list : list[i] # voice}
MovedToFront(voice, list) == <<voice>> \o Picked(list, Others(list, voice))

\* Faulty: a voice that is in the list already keeps its place.
KeptInPlace(voice) == IF voice \in Range(get_recent) THEN get_recent
                      ELSE Truncated(<<voice>> \o get_recent)
\* Faulty: the list is cut to its size before the voice is added.
CutBefore(voice) == MovedToFront(voice, Truncated(get_recent))
NewList(voice) == Truncated(MovedToFront(voice, get_recent))

record(p, voice) ==
  /\ asked[p] = NoVoice /\ uses > 0 /\ uses' = uses - 1
  /\ used' = MovedToFront(voice, used)
  /\ overlap' = (overlap \/ \E q \in Recorders : asked[q] # NoVoice)
  /\ IF get_recent # <<>> /\ Head(get_recent) = voice
     THEN UNCHANGED <<draft, asked>>
     ELSE /\ draft' = [draft EXCEPT ![p] = NewList(voice)]
          /\ asked' = [asked EXCEPT ![p] = voice]
  /\ UNCHANGED <<recent, startup>>

\* os.replace; an error leaves the file alone.
Persist(p) ==
  /\ asked[p] # NoVoice
  /\ \/ recent' = draft[p] /\ UNCHANGED overlap
     \/ overlap' = TRUE /\ UNCHANGED recent
  /\ asked' = [asked EXCEPT ![p] = NoVoice] /\ draft' = [draft EXCEPT ![p] = <<>>]
  /\ UNCHANGED <<startup, used, uses>>

\* Faulty: the limit is filled up from the configured voices first.
ConfiguredFirst(configured, names) == configured \o names
Ordered(configured, names) == names \o configured
FirstPlaces(list, voices) ==
  {i \in DOMAIN list : list[i] \in voices /\ \A j \in 1..i - 1 : list[j] # list[i]}
_select_startup_voices(configured, names, limit) ==
  LET ordered  == Ordered(configured, names)
      selected == Picked(ordered, FirstPlaces(ordered, Range(configured)))
  IN  SubSeq(selected, 1, Min({Len(selected), limit}))

\* A server starts with its configuration; a limit of all its voices stands for no limit.
StartServer ==
  /\ uses > 0 /\ uses' = uses - 1
  /\ \E configured \in SetToSeqs(VoiceNames) \cup {<<v>> : v \in VoiceNames} :
       \E limit \in 0..Len(configured) :
         startup' = [configured |-> configured, limit |-> limit, from |-> get_recent,
                     chosen |-> _select_startup_voices(configured, get_recent, limit)]
  /\ UNCHANGED <<recent, draft, asked, used, overlap>>

UsageNext == \/ \E p \in Recorders : (\E v \in VoiceNames : record(p, v)) \/ Persist(p)
             \/ StartServer

UsageSpec == UsageInit /\ [][UsageNext]_usage_vars

-------------------------------------------------------------------------------
(* Properties.                                                             *)

\* However servers overlap, the file is a list of at most MaxRecent different voices, which
\* were used (record).
RecordSound == /\ Range(get_recent) \subseteq Range(used) /\ IsInjective(get_recent)
               /\ Len(get_recent) <= MaxRecent

\* If no two servers record at the same time and no write fails, the file is the true order of
\* use: nothing is forgotten but what is older than MaxRecent others (record).
ExactAlone == ~overlap /\ (\A p \in Recorders : asked[p] = NoVoice) => get_recent = Truncated(used)

\* A voice is loaded at the start exactly if fewer than the limit come before it: voices used
\* more recently, and, for one never used, those configured before it too
\* (_select_startup_voices).
RecentLoaded ==
  LET c == startup.configured
      r == startup.from
      Rank(s, v) == CHOOSE i \in DOMAIN s : s[i] = v
      Before(v, w) == IF w \in Range(r) THEN v \in Range(r) /\ Rank(r, v) < Rank(r, w)
                                        ELSE v \in Range(r) \/ Rank(c, v) < Rank(c, w)
  IN  \A w \in Range(c) :
        w \in Range(startup.chosen)
          <=> Cardinality({v \in Range(c) \ {w} : Before(v, w)}) < startup.limit

\* The record keeps voices in the order of their use, and a start goes by it.
UsageTrue == RecordSound /\ ExactAlone /\ RecentLoaded
===============================================================================
