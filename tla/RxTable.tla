------------------------------ MODULE RxTable ------------------------------
(***************************************************************************)
(* The live dashboard of --table: the rows RxTable keeps and the console   *)
(* buffer it writes them to.                                               *)
(*                                                                         *)
(* Rows count from 0.  A line is a record of the texts in its cells and of *)
(* the widths its cells were padded to; what the padding looks like is     *)
(* left out.  The buffer's width does not change, nobody else writes to    *)
(* the console, and the --table runs call every operation from one thread, *)
(* the read loop's.                                                        *)
(***************************************************************************)
EXTENDS Integers, SequencesExt

CONSTANTS
  TopicLists,  \* the lists of topic names a table may begin with
  Ids,         \* the source identifiers that are heard of
  Texts,       \* values, status texts and tx lines
  WidthOf,     \* the length of each topic name and identifier
  Heights,     \* the buffer's height before the table begins
  Growable,    \* whether SetConsoleScreenBufferSize succeeds
  Margin       \* the rows a growing buffer gains beyond the need: 50

\* The text of a row that has none yet.
Empty == ""

Topics == UNION {ToSet(list) : list \in TopicLists}
Keys == Topics \X Ids

ASSUME TextsAssumption == Texts # {} /\ Empty \notin Texts
ASSUME TopicListsAssumption == TopicLists \subseteq Seq(STRING)
ASSUME WidthOfAssumption == WidthOf \in [Topics \cup Ids -> Nat]
ASSUME HeightsAssumption ==
  Heights \subseteq Nat \ {0} /\ Growable \subseteq BOOLEAN /\ Margin \in Nat

VARIABLES
  active,      \* the flag of that name
  topics,      \* the list given to Begin: its positions are the status rows
  hasTxLine,
  txText,
  statusText,  \* topicStatusText
  topicWidth,
  idWidth,
  rowsByKey,   \* the value and the row of each topic and id heard of
  rowOrder,
  nextRow,
  console      \* external: the buffer's lines, the cursor's row, ...

layout == <<topics, hasTxLine>>
vars == <<active, layout, txText, statusText, topicWidth, idWidth,
          rowsByKey, rowOrder, nextRow, console>>

-----------------------------------------------------------------------------
(* The console.                                                            *)

Line(cells, widths) == [cells |-> cells, widths |-> widths]
Blank == Line(<<>>, <<>>)
BlankLines(n) == [i \in 1 .. n |-> Blank]

\* A console whose buffer can be made higher or not.
Cleared(height, growable) ==
  [lines |-> BlankLines(height), cursor |-> 0,
   growable |-> growable, scrolled |-> FALSE]

\* EnsureBufferHeight: a buffer that cannot grow stays as it is.
Ensured(con, minHeight) ==
  IF Len(con.lines) < minHeight /\ con.growable
  THEN [con EXCEPT !.lines =
          @ \o BlankLines(minHeight + Margin - Len(@))]
  ELSE con

\* A full line ends at the next row's start, and on the last row scrolls.
Written(con, row, line) ==
  LET text == ReplaceAt(con.lines, row + 1, line)
  IN  IF row + 1 < Len(con.lines)
      THEN [con EXCEPT !.lines = text, !.cursor = row + 1]
      ELSE [con EXCEPT !.lines = Append(Tail(text), Blank), !.cursor = row,
                       !.scrolled = TRUE]

\* WriteLineAtRow.  A position outside the buffer is refused, and the text
\* goes to wherever the cursor is.
WriteLineAtRow(con, write) ==
  LET roomy == Ensured(con, write.row + 2)
      row == IF write.row < Len(roomy.lines) THEN write.row ELSE roomy.cursor
  IN  Written(roomy, row, write.line)

\* One write after another.
AfterWrites(con, writes) ==
  LET after[n \in 0 .. Len(writes)] ==
        IF n = 0 THEN con ELSE WriteLineAtRow(after[n - 1], writes[n])
  IN  after[Len(writes)]

-----------------------------------------------------------------------------
(* The rows of a table.                                                    *)

At(row, line) == [row |-> row, line |-> line]

\* topicStatusRows: emplace keeps the first position of a repeated name.
StatusRow(topic) ==
  (CHOOSE i \in DOMAIN topics :
     topics[i] = topic /\ \A j \in 1 .. i - 1 : topics[j] # topic) - 1

TxRowOf(list) == Len(list)
HeaderRowOf(list, withTx) == Len(list) + (IF withTx THEN 1 ELSE 0)
UnderlineRowOf(list, withTx) == HeaderRowOf(list, withTx) + 1

TxLine(text, tw) == Line(<<"tx", text>>, <<tw>>)
HeaderLine(tw, iw) == Line(<<"topic", "id", "value">>, <<tw, iw>>)
UnderlineLine(tw, iw) == Line(<<"-", "-", "-">>, <<tw, iw>>)
DataLine(key, value, tw, iw) == Line(<<key[1], key[2], value>>, <<tw, iw>>)
StatusLine(topic, text, tw) == Line(<<topic, text>>, <<tw>>)

\* A slip: the header keeps the widths it was written with.
RedrawBelowHeader(list, withTx, tx, tw, iw, rows, order) ==
  [i \in DOMAIN order |->
     At(rows[order[i]].row, DataLine(order[i], rows[order[i]].value, tw, iw))]

\* The writes of RedrawAll: not the status lines.
Redraw(list, withTx, tx, tw, iw, rows, order) ==
  (IF withTx THEN <<At(TxRowOf(list), TxLine(tx, tw))>> ELSE <<>>)
  \o <<At(HeaderRowOf(list, withTx), HeaderLine(tw, iw)),
       At(UnderlineRowOf(list, withTx), UnderlineLine(tw, iw))>>
  \o [i \in DOMAIN order |->
        At(rows[order[i]].row, DataLine(order[i], rows[order[i]].value, tw, iw))]

Wider(width, texts) ==
  Max({width} \cup {WidthOf[text] : text \in texts})

WidthChanged(tw, iw) == tw # topicWidth \/ iw # idWidth

-----------------------------------------------------------------------------
(* The operations.                                                         *)

NoRows == [key \in {} |-> [value |-> Empty, row |-> 0]]

\* The console before Begin, which clears it.
Init ==
  /\ active = FALSE
  /\ topics = <<>>
  /\ hasTxLine = FALSE
  /\ txText = Empty
  /\ statusText = [topic \in {} |-> Empty]
  /\ topicWidth = 5
  /\ idWidth = 2
  /\ rowsByKey = NoRows
  /\ rowOrder = <<>>
  /\ nextRow = 2
  /\ console \in {Cleared(height, growable) : height \in Heights, growable \in Growable}

\* Begin fails without a console, before anything is changed.
Begin(list, withTx) ==
  /\ ~active /\ rowOrder = <<>> /\ topics = <<>>
  /\ active' = TRUE
  /\ topics' = list
  /\ hasTxLine' = withTx
  /\ txText' = Empty
  /\ statusText' = [topic \in ToSet(list) |-> Empty]
  /\ topicWidth' = Wider(5, ToSet(list))
  /\ idWidth' = 2
  /\ rowsByKey' = NoRows
  /\ rowOrder' = <<>>
  /\ nextRow' = UnderlineRowOf(list, withTx) + 1
  /\ console' =
       AfterWrites(Cleared(Len(console.lines), console.growable),
                   Redraw(list, withTx, Empty, topicWidth', 2, NoRows, <<>>))

\* A slip: a row that is new in its topic takes the topic's status row.
NewRowAfterTopics == Len(topics) + Len(rowOrder)

\* AllocateRow: the row the next new key gets.
NewRow == nextRow

\* A slip: the key is not pushed back.
OrderWithout(key) == rowOrder

OrderWith(key) == Append(rowOrder, key)

\* Update of a key that has its row.
UpdateOldRow(topic, id, value) ==
  LET key == <<topic, id>>
  IN  /\ active
      /\ key \in DOMAIN rowsByKey
      /\ topicWidth' = Wider(topicWidth, {topic})
      /\ idWidth' = Wider(idWidth, {id})
      /\ rowsByKey' = [rowsByKey EXCEPT ![key].value = value]
      /\ console' =
           AfterWrites(console,
             IF WidthChanged(topicWidth', idWidth')
             THEN Redraw(topics, hasTxLine, txText, topicWidth', idWidth',
                         rowsByKey', rowOrder)
             ELSE <<At(rowsByKey[key].row,
                       DataLine(key, value, topicWidth', idWidth'))>>)
      /\ UNCHANGED <<active, layout, txText, statusText, rowOrder, nextRow>>

\* Update of a key that is new: its row is allocated, then all is redrawn.
UpdateNewRow(topic, id, value) ==
  LET key == <<topic, id>>
  IN  /\ active
      /\ key \notin DOMAIN rowsByKey
      /\ topicWidth' = Wider(topicWidth, {topic})
      /\ idWidth' = Wider(idWidth, {id})
      /\ rowsByKey' = [k \in DOMAIN rowsByKey \cup {key} |->
                         IF k = key THEN [value |-> value, row |-> NewRow]
                         ELSE rowsByKey[k]]
      /\ rowOrder' = OrderWith(key)
      /\ nextRow' = nextRow + 1
      /\ console' =
           AfterWrites(Ensured(console, nextRow' + 2),
             <<At(NewRow, Blank)>>
             \o Redraw(topics, hasTxLine, txText, topicWidth', idWidth',
                       rowsByKey', rowOrder'))
      /\ UNCHANGED <<active, layout, txText, statusText>>

SetTxStateLine(text) ==
  /\ active /\ hasTxLine
  /\ txText' = text
  /\ console' = WriteLineAtRow(console, At(TxRowOf(topics), TxLine(text, topicWidth)))
  /\ UNCHANGED <<active, layout, statusText, topicWidth, idWidth,
                 rowsByKey, rowOrder, nextRow>>

\* A topic of the list, whose name is no wider than the column.
SetTopicStatus(topic, status) ==
  /\ active
  /\ topic \in ToSet(topics)
  /\ statusText' = [statusText EXCEPT ![topic] = status]
  /\ console' =
       WriteLineAtRow(console, At(StatusRow(topic), StatusLine(topic, status, topicWidth)))
  /\ UNCHANGED <<active, layout, txText, topicWidth, idWidth,
                 rowsByKey, rowOrder, nextRow>>

\* End, at the latest from the destructor; the cursor goes below the table
\* if there is such a row.
End ==
  /\ active
  /\ active' = FALSE
  /\ console' = IF nextRow + 1 < Len(console.lines)
                THEN [console EXCEPT !.cursor = nextRow + 1] ELSE console
  /\ UNCHANGED <<layout, txText, statusText, topicWidth, idWidth,
                 rowsByKey, rowOrder, nextRow>>

\* The poller and the handlers name the topics the table began with.
Next ==
  \/ \E list \in TopicLists, withTx \in BOOLEAN : Begin(list, withTx)
  \/ \E topic \in ToSet(topics), id \in Ids, value \in Texts :
       UpdateOldRow(topic, id, value) \/ UpdateNewRow(topic, id, value)
  \/ \E topic \in ToSet(topics), status \in Texts : SetTopicStatus(topic, status)
  \/ \E text \in Texts : SetTxStateLine(text)
  \/ End

Spec == Init /\ [][Next]_vars

-----------------------------------------------------------------------------
(* Properties.                                                             *)

Row == [value : Texts, row : Nat]

\* Every variable has its type.
TypeOK ==
  /\ active \in BOOLEAN
  /\ topics \in TopicLists \cup {<<>>}
  /\ hasTxLine \in BOOLEAN
  /\ txText \in Texts \cup {Empty}
  /\ DOMAIN statusText = ToSet(topics)
  /\ topicWidth \in Nat /\ idWidth \in Nat
  /\ DOMAIN rowsByKey \subseteq Keys
  /\ \A key \in DOMAIN rowsByKey : rowsByKey[key] \in Row
  /\ rowOrder \in Seq(Keys) /\ ToSet(rowOrder) = DOMAIN rowsByKey
  /\ nextRow \in Nat

\* No two sources share a row of the table, none has a row of the fixed part
\* above it, and every row is above the next free one.
RowsDistinct ==
  /\ \A key \in DOMAIN rowsByKey :
       /\ UnderlineRowOf(topics, hasTxLine) < rowsByKey[key].row
       /\ rowsByKey[key].row < nextRow
  /\ \A key1, key2 \in DOMAIN rowsByKey :
       rowsByKey[key1].row = rowsByKey[key2].row => key1 = key2

\* What the user should be reading: the table's fixed part, and for every
\* source its latest value, all at the column widths of now.
Expected ==
  {At(HeaderRowOf(topics, hasTxLine), HeaderLine(topicWidth, idWidth)),
   At(UnderlineRowOf(topics, hasTxLine), UnderlineLine(topicWidth, idWidth))}
  \cup (IF hasTxLine THEN {At(TxRowOf(topics), TxLine(txText, topicWidth))} ELSE {})
  \cup {At(rowsByKey[key].row,
            DataLine(key, rowsByKey[key].value, topicWidth, idWidth)) :
          key \in DOMAIN rowsByKey}
  \cup {At(StatusRow(t), StatusLine(t, statusText[t], topicWidth)) :
          t \in {t \in DOMAIN statusText : statusText[t] # Empty}}

\* On a console that can grow, the screen shows exactly what the table holds,
\* after any sequence of updates: nothing is stale, misaligned, overwritten
\* or lost, although most operations redraw one line only.
ScreenShowsTable ==
  console.growable =>
    /\ ~console.scrolled
    /\ active =>
         \A write \in Expected :
           /\ write.row < Len(console.lines)
           /\ console.lines[write.row + 1] = write.line
=============================================================================
