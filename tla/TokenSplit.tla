------------------------------ MODULE TokenSplit ------------------------------
(***************************************************************************)
(* Splitting a text that exceeds the token limit of the native ZeroTTS     *)
(* model (zerotts_engine.py, split_text_by_tokens): at spaces, by the      *)
(* tokens of each word; by those of each candidate when that goes wrong or *)
(* the tokenizer is opaque; inside a word that is too long by itself. A    *)
(* step is one turn of a loop.                                             *)
(***************************************************************************)
EXTENDS Integers, Sequences, SequencesExt, FiniteSetsExt

CONSTANTS Texts,          \* normalized texts, as sequences of characters
          TokenLimits     \* limits

Space == "_"

\* Words have one space between them.
ASSUME SplitAssumption ==
  /\ TokenLimits \subseteq Nat \ {0}
  /\ \A t \in Texts : /\ t = [i \in 1..Len(t) |-> t[i]] /\ Len(t) \in Nat
                      /\ t # <<>> => t[1] # Space /\ t[Len(t)] # Space
                      /\ \A i \in 1..Len(t) - 1 : t[i] # Space \/ t[i + 1] # Space

VARIABLES
  split_task,   \* the text, the tokenizer, the limit
  stage,        \* "begin", "words", "search" (inside a long word), "end"
  by_word,      \* the tokens of each word are added up
  at,           \* characters of the text that are split
  parts, current, tokens,
  chunk,        \* of a long word: start, low, high, best
  spans, span   \* history: where each part, and the current one, lies in the text

split_vars == <<split_task, stage, by_word, at, parts, current, tokens, chunk, spans, span>>

\* Vocabularies: none; within words, of which a longer one costs less than its beginning; a
\* space joined to the word after it; across words; and one whose words cost more together
\* than apart.
Vocabularies ==
  {{}, {<<"a", "b">>}, {<<"b", "a", "b">>}, {<<Space, "a">>}, {<<"b", Space, "a">>},
   {<<"a", Space>>, <<Space, "a", "b">>}}

text  == split_task.text
limit == split_task.limit

\* The longest token first; a character that is no token costs its bytes.
Tokens(vocabulary, s) ==
  LET Longest(t) == Max({1} \cup {Len(v) : v \in {v \in vocabulary : IsPrefix(v, t)}})
      count[i \in 1..Len(s) + 1] ==
        IF i > Len(s) THEN 0
        ELSE (IF s[i] = "c" THEN 3 ELSE 1) + count[i + Longest(SubSeq(s, i, Len(s)))]
  IN  count[1]

text_token_count(s) == Tokens(split_task.vocabulary, s)
Fits(s) == text_token_count(s) <= limit

-------------------------------------------------------------------------------
(* The words: text.split().                                                *)

WordEnd(t, p) == Min({i \in p..Len(t) : i = Len(t) \/ t[i + 1] = Space})

\* The next word.
Ahead == {i \in at + 1..Len(text) : text[i] # Space}
from  == Min(Ahead)
to    == WordEnd(text, from)
word  == SubSeq(text, from, to)

-------------------------------------------------------------------------------

SplitInit ==
  /\ split_task \in [text : Texts, vocabulary : Vocabularies, limit : TokenLimits, opaque : BOOLEAN]
  /\ stage = "begin" /\ by_word = FALSE /\ at = 0
  /\ parts = <<>> /\ current = <<>> /\ tokens = 0 /\ spans = <<>>
  /\ span = [from |-> 0, to |-> 0]
  /\ chunk = [start |-> 0, low |-> 0, high |-> 0, best |-> 0]

\* A text within the limit stays as it is.
Whole ==
  /\ stage = "begin" /\ Fits(text)
  /\ stage' = "end" /\ at' = Len(text)
  /\ parts' = (IF text = <<>> THEN <<>> ELSE <<text>>)
  /\ spans' = (IF text = <<>> THEN <<>> ELSE <<[from |-> 1, to |-> Len(text)]>>)
  /\ UNCHANGED <<split_task, by_word, current, tokens, chunk, span>>

Begin ==
  /\ stage = "begin" /\ ~Fits(text)
  /\ stage' = "words" /\ by_word' = ~split_task.opaque
  /\ UNCHANGED <<split_task, at, parts, current, tokens, chunk, spans, span>>

\* The tokens of the current part with the next word.
Joined == current \o <<Space>> \o word
Composed == IF by_word THEN tokens + text_token_count(<<Space>> \o word) ELSE text_token_count(Joined)

Join ==
  /\ stage = "words" /\ Ahead # {} /\ current # <<>> /\ Composed <= limit
  /\ current' = Joined /\ tokens' = Composed /\ at' = to
  /\ span' = [span EXCEPT !.to = to]
  /\ UNCHANGED <<split_task, stage, by_word, parts, chunk, spans>>

\* Faulty: the part that is full is dropped.
Dropped(list, piece) == list
Flushed(list, piece) == IF current = <<>> THEN list ELSE Append(list, piece)

\* Faulty: every word goes through the search.
AnyWord == TRUE
TooLong == ~Fits(word)

FreshChunk(start) == [start |-> start, low |-> start + 1, high |-> Len(word), best |-> start + 1]

\* The next word does not fit with the current part: it begins the next one,
NewPart ==
  /\ stage = "words" /\ Ahead # {} /\ ~(current # <<>> /\ Composed <= limit)
  /\ parts' = Flushed(parts, current) /\ spans' = Flushed(spans, span)
  /\ UNCHANGED <<split_task, by_word>>

StartWord ==
  /\ NewPart /\ ~TooLong
  /\ current' = word /\ tokens' = text_token_count(word) /\ at' = to
  /\ span' = [from |-> from, to |-> to]
  /\ UNCHANGED <<stage, chunk>>

\* or is too long for one.
BreakWord ==
  /\ NewPart /\ TooLong
  /\ stage' = "search" /\ chunk' = FreshChunk(0) /\ current' = <<>>
  /\ UNCHANGED <<at, tokens, span>>

\* The binary search; the count of a prefix need not grow with it.
Probe ==
  /\ stage = "search" /\ chunk.low <= chunk.high
  /\ LET middle == (chunk.low + chunk.high) \div 2
     IN  chunk' = IF Fits(SubSeq(word, chunk.start + 1, middle))
                  THEN [chunk EXCEPT !.best = middle, !.low = middle + 1]
                  ELSE [chunk EXCEPT !.high = middle - 1]
  /\ UNCHANGED <<split_task, stage, by_word, at, parts, current, tokens, spans, span>>

\* The last chunk of the word begins the next part.
Cut ==
  /\ stage = "search" /\ chunk.low > chunk.high
  /\ LET piece == SubSeq(word, chunk.start + 1, chunk.best)
         place == [from |-> from + chunk.start, to |-> from + chunk.best - 1]
     IN  IF chunk.best < Len(word)
         THEN /\ parts' = Append(parts, piece) /\ spans' = Append(spans, place)
              /\ chunk' = FreshChunk(chunk.best)
              /\ UNCHANGED <<stage, at, current, tokens, span>>
         ELSE /\ current' = piece /\ span' = place /\ tokens' = text_token_count(piece)
              /\ at' = to /\ stage' = "words"
              /\ UNCHANGED <<parts, spans, chunk>>
  /\ UNCHANGED <<split_task, by_word>>

\* Faulty: the parts are not counted again.
Trusted(pieces) == TRUE
Verified(pieces) == \A i \in DOMAIN pieces : Fits(pieces[i])

\* All words are split. Parts by the tokens of words are counted again; if one exceeds the
\* limit the words are split by the tokens of each candidate.
Finish ==
  /\ stage = "words" /\ Ahead = {}
  /\ LET pieces == Flushed(parts, current)
     IN  IF by_word /\ ~Verified(pieces)
         THEN /\ by_word' = FALSE /\ at' = 0 /\ parts' = <<>> /\ current' = <<>> /\ spans' = <<>>
              /\ UNCHANGED stage
         ELSE /\ stage' = "end" /\ parts' = pieces /\ spans' = Flushed(spans, span)
              /\ UNCHANGED <<by_word, at, current>>
  /\ UNCHANGED <<split_task, tokens, chunk, span>>

SplitNext == Whole \/ Begin \/ Join \/ StartWord \/ BreakWord \/ Probe \/ Cut \/ Finish

SplitSpec == SplitInit /\ [][SplitNext]_split_vars

-------------------------------------------------------------------------------
(* Properties.                                                             *)

\* The word around a character.
WordAt(t, p) == SubSeq(t, Max({i \in 1..p : i = 1 \/ t[i - 1] = Space}), WordEnd(t, p))

\* The parts are the text from its first character to its last, but for a space between two;
\* none is empty (split_text_by_tokens: "non-empty text segments in reading order").
NothingUnspoken ==
  stage = "end" =>
    /\ DOMAIN parts = DOMAIN spans /\ (parts = <<>> <=> text = <<>>)
    /\ \A i \in DOMAIN parts :
         /\ parts[i] = SubSeq(text, spans[i].from, spans[i].to) /\ spans[i].from <= spans[i].to
         /\ i = 1 => spans[i].from = 1
         /\ i > 1 => \/ spans[i].from = spans[i - 1].to + 1
                     \/ spans[i].from = spans[i - 1].to + 2 /\ text[spans[i].from - 1] = Space
         /\ i = Len(parts) => spans[i].to = Len(text)

\* The native model accepts every part: it is within the limit, or one character that exceeds
\* it, whatever the tokenizer makes of a word beside another (_split_words_by_token_counts).
PartsFit ==
  stage = "end" => \A i \in DOMAIN parts : Fits(parts[i]) \/ Len(parts[i]) = 1

\* A word is broken only if it exceeds the limit by itself (_split_long_word).
WordsWhole ==
  stage = "end" =>
    \A i \in DOMAIN parts :
      i > 1 /\ text[spans[i].from - 1] # Space => ~Fits(WordAt(text, spans[i].from))

\* The native model is given all of a text, in parts it accepts, and words in one piece.
TextsWhole == NothingUnspoken /\ PartsFit /\ WordsWhole
===============================================================================
