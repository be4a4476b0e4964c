------------------------------ MODULE ModelTables ------------------------------
(***************************************************************************)
(* The protocol buffers that download.py reads and writes by itself: the   *)
(* pieces of a SentencePiece model, for the table of tokens, and the       *)
(* metadata appended to a voice's ONNX graph. Bytes are numbers.           *)
(***************************************************************************)
EXTENDS Integers, Sequences, SequencesExt

CONSTANTS Lengths,        \* lengths of texts
          Values          \* values of varints

ASSUME TablesAssumption == Lengths \cup Values \subseteq Nat

VARIABLES table_task, table

table_vars == <<table_task, table>>

Unread == <<>>
Text(length) == [i \in 1..length |-> 97 + (i % 26)]
Refusal == [ok |-> FALSE, value |-> 0, at |-> 0]
Read(value, at) == [ok |-> TRUE, value |-> value, at |-> at]

-------------------------------------------------------------------------------
(* Writing.                                                                *)

RECURSIVE _encode_protobuf_varint(_)
_encode_protobuf_varint(value) ==
  IF value < 128 THEN <<value>>
  ELSE <<(value % 128) + 128>> \o _encode_protobuf_varint(value \div 128)

Tag(field, wire) == _encode_protobuf_varint(field * 8 + wire)
_encode_protobuf_text_field(field, text) == Tag(field, 2) \o _encode_protobuf_varint(Len(text)) \o text
_encode_onnx_metadata(entries) ==
  FlattenSeq([i \in DOMAIN entries |->
    _encode_protobuf_text_field(14, _encode_protobuf_text_field(1, entries[i].key)
                                      \o _encode_protobuf_text_field(2, entries[i].value))])

\* What SentencePiece writes: entries of a piece, a score and a type, then another message.
PieceFile(pieces) ==
  FlattenSeq([i \in DOMAIN pieces |->
    _encode_protobuf_text_field(1, _encode_protobuf_text_field(1, pieces[i])
                                     \o <<21, 0, 0, 0, 0>> \o <<24, 1>>)])
  \o _encode_protobuf_text_field(2, <<8, 1>>)

-------------------------------------------------------------------------------
(* Reading. Offsets count from 0; a refusal is an exception.               *)

RECURSIVE Varint(_, _, _, _)
\* At most ten bytes.
Varint(data, offset, end, size) ==
  IF offset >= end \/ size = 10 THEN Refusal
  ELSE LET byte == data[offset + 1]
       IN  IF byte < 128 THEN Read(byte, offset + 1)
           ELSE LET rest == Varint(data, offset + 1, end, size + 1)
                IN  IF ~rest.ok THEN Refusal ELSE Read(byte - 128 + 128 * rest.value, rest.at)
\* Faulty: eight bytes are the limit.
EightBytes(data, offset, end) == Varint(data, offset, end, 2)
_read_varint(data, offset, end) == Varint(data, offset, end, 0)

\* Faulty: a field that exceeds its message is cut off.
CutOff(at, end) == Read(0, IF at > end THEN end ELSE at)
Within(at, end) == IF at > end THEN Refusal ELSE Read(0, at)
_skip_protobuf_field(data, offset, end, wire) ==
  LET number == _read_varint(data, offset, end)
  IN  CASE wire = 0 -> IF number.ok THEN Within(number.at, end) ELSE Refusal
        [] wire = 1 -> Within(offset + 8, end)
        [] wire = 2 -> IF number.ok THEN Within(number.at + number.value, end) ELSE Refusal
        [] wire = 5 -> Within(offset + 4, end)
        [] OTHER    -> Refusal

\* The fields of a message: those that are wanted are taken, the others skipped. A field that
\* exceeds the message refuses it.
RECURSIVE Fields(_, _, _, _)
Fields(data, offset, end, wanted) ==
  IF offset >= end THEN Read(<<>>, offset)
  ELSE LET tag  == _read_varint(data, offset, end)
           size == _read_varint(data, tag.at, end)
           take == tag.ok /\ tag.value = wanted * 8 + 2
           next == IF ~tag.ok THEN Refusal
                   ELSE _skip_protobuf_field(data, tag.at, end, tag.value % 8)
           rest == Fields(data, next.at, end, wanted)
       IN  IF ~next.ok \/ ~rest.ok THEN Refusal
           ELSE Read(IF take THEN <<[from |-> size.at, to |-> next.at]>> \o rest.value ELSE rest.value,
                     rest.at)

\* The last piece text of an entry counts; an entry without one refuses the file.
_generate_tokens_from_bpe(data) ==
  LET entries == Fields(data, 0, Len(data), 1)
      Piece(entry) == Fields(data, entry.from, entry.to, 1)
      Good(entry) == Piece(entry).ok /\ Piece(entry).value # <<>>
  IN  IF ~entries.ok \/ entries.value = <<>> \/ \E i \in DOMAIN entries.value : ~Good(entries.value[i])
      THEN Refusal
      ELSE Read([i \in DOMAIN entries.value |->
                   LET text == Last(Piece(entries.value[i]).value)
                   IN  SubSeq(data, text.from + 1, text.to)], Len(data))

-------------------------------------------------------------------------------

PieceLists == SeqOf({Text(n) : n \in Lengths}, 2)
\* A varint with bytes of padding; a model file of which only some bytes are there; metadata.
Tasks ==
  [kind : {"varint"}, value : Values, padding : 0..10]
    \cup UNION {[kind : {"pieces"}, pieces : {p}, kept : 0..Len(PieceFile(p))] : p \in PieceLists}
    \cup [kind : {"metadata"}, entries : SeqOf([key : {Text(5)}, value : {Text(n) : n \in Lengths}], 2)]

\* Continuation bytes before the last one.
Padded(value, padding) ==
  LET bytes == _encode_protobuf_varint(value)
  IN  IF padding = 0 THEN bytes
      ELSE Front(bytes) \o <<Last(bytes) + 128>> \o [i \in 1..padding - 1 |-> 128] \o <<0>>

TablesInit == table_task \in Tasks /\ table = Unread
TablesNext ==
  /\ table = Unread
  /\ LET t == table_task
     IN  table' = << CASE t.kind = "varint" ->
                            LET bytes == Padded(t.value, t.padding) IN _read_varint(bytes, 0, Len(bytes))
                       [] t.kind = "pieces" -> _generate_tokens_from_bpe(SubSeq(PieceFile(t.pieces), 1, t.kept))
                       [] t.kind = "metadata" ->
                            Read(_encode_onnx_metadata(t.entries), 0) >>
  /\ UNCHANGED table_task

TablesSpec == TablesInit /\ [][TablesNext]_table_vars

-------------------------------------------------------------------------------
(* Properties.                                                             *)

\* Numbers of up to ten bytes are read as they were written, longer ones refused; and what is
\* written as metadata is a message from which a reader gets every entry
\* (_encode_onnx_metadata).
ReadsBack ==
  table # Unread =>
    LET t == table_task
        data == table[1].value
        Parts(message, field) == Fields(data, message.from, message.to, field).value
        TextAt(m) == SubSeq(data, m.from + 1, m.to)
        bytes == Len(_encode_protobuf_varint(t.value)) + t.padding
    IN  CASE t.kind = "varint" ->
               table[1] = (IF bytes > 10 THEN Refusal ELSE Read(t.value, bytes))
          [] t.kind = "metadata" ->
               LET messages == Fields(data, 0, Len(data), 14)
               IN  /\ messages.ok /\ Len(messages.value) = Len(t.entries)
                   /\ \A i \in DOMAIN t.entries :
                        /\ TextAt(Parts(messages.value[i], 1)[1]) = t.entries[i].key
                        /\ TextAt(Parts(messages.value[i], 2)[1]) = t.entries[i].value
          [] OTHER -> TRUE

\* Of a model file that was cut short, the table is refused, or has exactly the pieces of all
\* the entries before the cut: no piece is cut, and none has what follows it
\* (_generate_tokens_from_bpe).
PiecesWhole ==
  table # Unread /\ table_task.kind = "pieces" =>
    LET t == table_task
        Size(i) == Len(PieceFile(SubSeq(t.pieces, 1, i))) - 4
    IN  IF table[1].ok
        THEN /\ IsPrefix(table[1].value, t.pieces)
             /\ t.kept \in {Size(Len(table[1].value)), Size(Len(t.pieces)) + 4}
        ELSE t.pieces = <<>> \/ t.kept \notin {Size(i) : i \in 1..Len(t.pieces)} \cup {Size(Len(t.pieces)) + 4}

\* A table is read as it was written, or refused.
TablesWhole == ReadsBack /\ PiecesWhole
===============================================================================
