----------------------------- MODULE ClauseDetector -----------------------------
(***************************************************************************)
(* StreamClauseDetector of tts.py: text arrives in chunks, and whatever is *)
(* complete up to a paragraph, sentence or clause delimiter is handed out; *)
(* what is left in the end, or a text that is there at once, is a block.   *)
(* A character stands for its class; a text is a sequence of them. A step  *)
(* is one turn of the loop of _drain.                                      *)
(***************************************************************************)
EXTENDS Integers, Sequences, FiniteSetsExt

CONSTANTS
  Chars,      \* the characters of the texts, a subset of the classes below
  MinClause,  \* min_clause_chars
  MaxText,    \* bound: characters in a text
  MaxChunk    \* bound: characters in a chunk

Lower == {"a"}
Upper == {"Q"}       \* an upper-case letter that alone is in _PREFIX_ABBR
Digit == {"1"}
SentenceEnd == {"."}
ClauseEnd   == {",", "-"}
LineBreak   == {"/"}       \* stands for the line feed
Delimiters  == SentenceEnd \cup ClauseEnd \cup LineBreak
White       == {" "} \cup LineBreak
Alnum       == Lower \cup Upper \cup Digit

ASSUME DetectorAssumption ==
  /\ Chars \subseteq Alnum \cup Delimiters \cup White
  /\ MinClause \in Nat \ {0} /\ MaxText \in Nat /\ MaxChunk \in Nat \ {0}

VARIABLES
  split_clauses,  \* whether clause delimiters are boundaries
  buffer,         \* buffer
  offset,         \* _scan_offset: characters of the buffer that are settled
  phase,          \* "waiting" for text, "draining", "over"
  block,          \* the text is complete: split_clause_text_with_separators
  received,       \* history: the text received
  left,           \* history: characters of it before the buffer
  clauses,        \* history: the pairs <<clause, separator>> handed out
  places,         \* history: where in the text each clause lies
  streamed        \* history: how many were handed out before the block

detectorVars == <<split_clauses, buffer, offset, phase, block, received, left, clauses, places, streamed>>

--------------------------------------------------------------------------------
(* Strings: positions count from 1, offsets are numbers of characters. *)

All(s, i, j, class) == \A k \in i..j : s[k] \in class

\* The last position of the run of class that starts after position i.
RunEnd(s, i, class) == Min({Len(s)} \cup {k \in i..Len(s) - 1 : s[k + 1] \notin class})

\* The last position up to n that is not in class.
LastOutside(s, n, class) == Max({0} \cup {k \in 1..n : s[k] \notin class})

Leading(s) == RunEnd(s, 0, White)
LStrip(s)  == SubSeq(s, Leading(s) + 1, Len(s))
Strip(s)   == SubSeq(s, Leading(s) + 1, LastOutside(s, Len(s), White))

\* The alphanumeric runs that end before position i and begin after it.
TokenBefore(s, i) == SubSeq(s, LastOutside(s, i - 1, Alnum) + 1, i - 1)
TokenAfter(s, i)  == SubSeq(s, i + 1, RunEnd(s, i, Alnum))

--------------------------------------------------------------------------------
(* Delimiters inside a token. *)

\* Faulty: a dot that ends the buffer ends the number before it.
IsNumericSeparatorNow(s, i) ==
  /\ i > 1 /\ s[i - 1] \in Digit
  /\ i < Len(s) /\ s[i + 1] \in Digit

IsNumericSeparator(s, i) ==
  /\ i > 1 /\ s[i - 1] \in Digit
  /\ i = Len(s) \/ s[i + 1] \in Digit

IsAbbreviationToken(t) ==
  /\ t # <<>> /\ Len(t) <= 4
  /\ \E k \in DOMAIN t : t[k] \in Upper
  /\ \A k \in DOMAIN t : t[k] \notin Lower

IsLetterJoiningPeriod(s, i) ==
  /\ i > 1 /\ s[i - 1] \in Alnum
  /\ IsAbbreviationToken(TokenBefore(s, i))
  /\ i < Len(s) => s[i + 1] \in Alnum /\ IsAbbreviationToken(TokenAfter(s, i))

\* A prefix abbreviation before a name or a number that is still to come.
IsPrefixAbbrevPeriod(s, i) ==
  LET token == TokenBefore(s, i)
      before == i - 1 - Len(token)
      rest == LStrip(SubSeq(s, i + 1, Len(s)))
  IN /\ Len(token) = 1 /\ token[1] \in Upper
     /\ before > 0 => s[before] # "."
     /\ rest = <<>> \/ rest[1] \in Digit \cup Upper

IsTokenJoiningDash(s, m) == m.end = m.stop /\ m.start > 1 /\ s[m.start - 1] \notin White

IsIntraTokenSeparator(s, m) ==
  LET d == s[m.start]
  IN /\ m.stop = m.start
     /\ \/ d \in {",", ".", "-"} /\ IsNumericSeparator(s, m.start)
        \/ d = "." /\ (IsLetterJoiningPeriod(s, m.start) \/ IsPrefixAbbrevPeriod(s, m.start))
        \/ d = "-" /\ IsTokenJoiningDash(s, m)

--------------------------------------------------------------------------------
(* The scan. *)

\* The run of class at position i, and the white space that follows it.
Match(s, i, class) ==
  LET stop == RunEnd(s, i, class) IN [start |-> i, stop |-> stop, end |-> RunEnd(s, stop, White)]

\* finditer after the first off characters: no match begins inside another.
Starts(s, off, class) ==
  {i \in (off + 1)..Len(s) :
     s[i] \in class /\ ~\E j \in (off + 1)..(i - 1) :
                          s[j] \in class /\ (All(s, j, i, class) \/ All(s, j, i, White))}
Matches(s, off, class) == {Match(s, i, class) : i \in Starts(s, off, class)}
ClauseMatches(s, off, split) == IF split THEN Matches(s, off, ClauseEnd) ELSE {}

FirstMatch(ms) == CHOOSE m \in ms : \A n \in ms : m.start <= n.start

\* The boundaries found, of which the first counts.
Boundaries(s, off, split) ==
  {m \in Matches(s, off, LineBreak) \cup Matches(s, off, SentenceEnd)
           \cup {c \in ClauseMatches(s, off, split) : c.end >= MinClause} :
     ~IsIntraTokenSeparator(s, m)}

\* Faulty: a short clause is settled, whatever follows it.
MayNotGrow(s, m) == m.end >= MinClause

\* A short clause at the end of the buffer may still grow to the minimum.
MayGrow(s, m) == m.end >= MinClause \/ m.end = Len(s)

\* The offset moves back to the start of the run of delimiters it is in.
Widen(s, off) == LastOutside(s, off, Delimiters)

Latest(ms) == IF ms = {} THEN {} ELSE {Max({m.start - 1 : m \in ms})}

\* _resume_offset: the last match of each kind may change when more text arrives.
Resume(s, off, split) ==
  Widen(s, Min({Len(s)} \cup Latest(Matches(s, off, LineBreak)) \cup Latest(Matches(s, off, SentenceEnd))
                         \cup Latest({m \in ClauseMatches(s, off, split) : MayGrow(s, m)})))

\* Faulty: one character too many is skipped.
AfterShort(s, end) == LStrip(SubSeq(s, end + 2, Len(s)))

\* The window after a boundary.
After(s, end) == LStrip(SubSeq(s, end + 1, Len(s)))

\* Faulty: the offset of the old window is kept for the new one.
StaleOffset(off) == off

\* A new window is scanned from its start.
FreshOffset(off) == 0

--------------------------------------------------------------------------------

Strings(n) == UNION {[1..k -> Chars] : k \in 1..n}

DetectorInit ==
  /\ split_clauses \in BOOLEAN
  /\ buffer = <<>> /\ offset = 0 /\ phase = "waiting" /\ block = FALSE
  /\ received = <<>> /\ left = 0 /\ clauses = <<>> /\ places = <<>> /\ streamed = 0

\* add_chunk_with_separators
AddChunk(new) ==
  /\ phase = "waiting" /\ ~block
  /\ received' = received \o new /\ buffer' = buffer \o new /\ phase' = "draining"
  /\ UNCHANGED <<split_clauses, offset, block, left, clauses, places, streamed>>

\* A turn of the loop: up to the first boundary.
Take ==
  LET found == Boundaries(buffer, offset, split_clauses)
      head  == SubSeq(buffer, 1, FirstMatch(found).end)
      piece == Strip(head)
      rest  == After(buffer, Len(head))
      after == Leading(head) + Len(piece)
      separator == SubSeq(buffer, after + 1, Len(buffer) - Len(rest))
  IN  /\ phase = "draining" /\ found # {}
      /\ buffer' = rest
      /\ left' = left + Len(buffer) - Len(rest)
      /\ offset' = FreshOffset(Resume(buffer, offset, split_clauses))
      /\ IF piece = <<>> THEN UNCHANGED <<clauses, places>>
         ELSE /\ clauses' = Append(clauses, <<piece, separator>>)
              /\ places' = Append(places, [from |-> left + Leading(head) + 1, to |-> left + after])
      /\ UNCHANGED <<split_clauses, phase, block, received, streamed>>

\* The buffer has no boundary.
Drained ==
  /\ phase = "draining" /\ Boundaries(buffer, offset, split_clauses) = {}
  /\ offset' = (IF buffer = <<>> THEN offset ELSE Resume(buffer, offset, split_clauses))
  /\ phase' = "waiting"
  /\ UNCHANGED <<split_clauses, buffer, block, received, left, clauses, places, streamed>>

\* A detector of its own takes s, which begins after n characters of the text.
SplitBlock(s, n) ==
  /\ phase = "waiting" /\ ~block
  /\ block' = TRUE /\ buffer' = Strip(s) /\ left' = n + Leading(s) /\ offset' = 0
  /\ phase' = IF Strip(s) = <<>> THEN "over" ELSE "draining"
  /\ streamed' = Len(clauses)
  /\ UNCHANGED <<split_clauses, clauses, places>>

\* A text at once.
SplitText(new) == received = <<>> /\ received' = new /\ SplitBlock(new, 0)

\* _handle_stream_stop: finish hands out the buffer, which is split as a block.
StreamStops == received # <<>> /\ SplitBlock(buffer, left) /\ UNCHANGED received

EndsAt(piece, sep) ==
  IF \E i \in DOMAIN sep : sep[i] \in LineBreak THEN "paragraph"
  ELSE IF piece[Len(piece)] \in SentenceEnd THEN "sentence"
  ELSE IF piece[Len(piece)] \in ClauseEnd THEN "clause" ELSE "none"

\* Faulty: the separator before a short tail is dropped.
JoinTail(pair, tail) == <<pair[1] \o tail, <<>>>>

\* A short tail joins the clause before it, with the white space between them.
AttachTail(pair, tail) == <<pair[1] \o pair[2] \o tail, <<>>>>

\* What a block leaves in the buffer.
Remainder ==
  LET rest  == Strip(buffer)
      n     == Len(clauses)
      alone == IF n = streamed \/ Len(rest) >= MinClause THEN TRUE
               ELSE EndsAt(clauses[n][1], clauses[n][2]) \in {"paragraph", "sentence"}
      start == left + Leading(buffer)
      place == [from |-> start + 1, to |-> start + Len(rest)]
  IN  /\ phase = "waiting" /\ block
      /\ \/ rest = <<>> /\ UNCHANGED <<clauses, places>>
         \/ /\ rest # <<>> /\ alone
            /\ clauses' = Append(clauses, <<rest, <<>>>>) /\ places' = Append(places, place)
         \/ /\ rest # <<>> /\ ~alone
            /\ clauses' = [clauses EXCEPT ![n] = AttachTail(@, rest)]
            /\ places' = [places EXCEPT ![n].to = place.to]
      /\ buffer' = <<>> /\ offset' = 0 /\ left' = left + Len(buffer) /\ phase' = "over"
      /\ UNCHANGED <<split_clauses, block, received, streamed>>

DetectorNext ==
  \/ \E new \in Strings(MaxChunk) : Len(received) + Len(new) <= MaxText /\ AddChunk(new)
  \/ \E new \in Strings(MaxText) : SplitText(new)
  \/ Take \/ Drained \/ StreamStops \/ Remainder

DetectorSpec == DetectorInit /\ [][DetectorNext]_detectorVars

--------------------------------------------------------------------------------
(* Properties *)

DetectorTypeOK ==
  /\ received \in Seq(Chars) /\ Len(received) <= MaxText /\ split_clauses \in BOOLEAN
  /\ phase \in {"waiting", "draining", "over"} /\ block \in BOOLEAN
  /\ offset \in 0..Len(buffer) /\ left + Len(buffer) <= Len(received)
  /\ streamed \in 0..Len(clauses) /\ DOMAIN places = DOMAIN clauses

\* What an earlier scan settled does not change when more text arrives: a scan
\* from _scan_offset finds what a scan of the whole buffer finds (tts.py:846).
SettledStaysSettled ==
  phase = "waiting" /\ ~block => \A new \in Strings(MaxChunk) :
    Boundaries(buffer \o new, offset, split_clauses) = Boundaries(buffer \o new, 0, split_clauses)

\* Whatever the chunks, a clause is a part of the text that begins and ends with a visible
\* character, the clauses and the buffer lie one behind the other, and each visible character
\* is in one of them (_drain).
NothingLost ==
  /\ buffer = SubSeq(received, left + 1, left + Len(buffer))
  /\ \A k \in DOMAIN clauses :
       LET p == places[k]
       IN  /\ clauses[k][1] = SubSeq(received, p.from, p.to) /\ p.from <= p.to
           /\ received[p.from] \notin White /\ received[p.to] \notin White
           /\ p.to <= left /\ k > 1 => places[k - 1].to < p.from
  /\ \A i \in DOMAIN received :
       \/ received[i] \in White
       \/ \E k \in DOMAIN clauses : places[k].from <= i /\ i <= places[k].to
       \/ left < i /\ i <= left + Len(buffer)

\* No chunking cuts a number at its separator or a word at its hyphen
\* (_is_numeric_separator, _is_token_joining_dash).
TokensWhole ==
  \A k \in DOMAIN clauses :
    LET n == places[k].to
    IN  n > 1 /\ n < Len(received) /\ received[n - 1] \in Alnum /\ received[n + 1] \notin White =>
          /\ received[n] # "-"
          /\ received[n - 1] \in Digit /\ received[n] \in {",", "."} => received[n + 1] \notin Digit

\* The clauses of a block and their separators, laid end to end, are its text: each separator
\* is what lies between its clause and the next (split_clause_text_with_separators).
SplitRejoins ==
  phase = "over" =>
    \A k \in streamed + 1..Len(clauses) :
      LET next == IF k = Len(clauses) THEN places[k].to + 1 ELSE places[k + 1].from
      IN  clauses[k][2] = SubSeq(received, places[k].to + 1, next - 1)

\* What is settled stays so.
ClausesSettled == DetectorTypeOK /\ SettledStaysSettled

\* The clauses hold all of the text, no token is cut, and they rejoin to it.
ClausesWhole == NothingLost /\ TokensWhole /\ SplitRejoins
================================================================================
