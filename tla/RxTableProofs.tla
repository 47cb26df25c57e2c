--------------------------- MODULE RxTableProofs ---------------------------
(***************************************************************************)
(* What the dashboard shows is what the table holds, for any topics, any   *)
(* identifiers and any console that can grow, and on every console no two  *)
(* sources share a row.                                                    *)
(*                                                                         *)
(* The screen is the console after one write upon another, so the first    *)
(* part is about one write and about any number of them: a later write     *)
(* leaves the earlier lines alone unless it goes to their row.  The second *)
(* is about the writes of a redraw, the third about the rows a table hands *)
(* out.  The invariant VInv then says line by line what is on the screen.  *)
(***************************************************************************)
EXTENDS RxTable, TLAPS, NaturalsInduction, WellFoundedInduction

-----------------------------------------------------------------------------
(* Writing to the console.                                                 *)

\* What the cells of a line hold.
Cell ==
  STRING \cup Ids \cup Texts \cup {Empty, "tx", "topic", "id", "value", "-"}
Lines == [cells : Seq(Cell), widths : Seq(Nat)]
Write == [row : Nat, line : Lines]
Console == [lines : Seq(Lines), cursor : Nat, growable : BOOLEAN, scrolled : BOOLEAN]

\* The cursor is in the buffer.
Good(con) == con \in Console /\ con.cursor < Len(con.lines)

\* A blank line is a line.
LEMMA BlankType == Blank \in Lines
  BY DEF Blank, Line, Lines

\* BlankLines makes as many as it is asked for.
LEMMA BlankLinesType ==
  ASSUME NEW n \in Nat
  PROVE  BlankLines(n) \in Seq(Lines) /\ Len(BlankLines(n)) = n
  <1> HIDE DEF Blank
  <1> QED BY BlankType DEF BlankLines

\* The fields of a console.
LEMMA ConsoleFields ==
  ASSUME NEW con, Good(con)
  PROVE  /\ con.lines \in Seq(Lines) /\ Len(con.lines) \in Nat /\ Len(con.lines) > 0
         /\ con.cursor \in Nat /\ con.cursor < Len(con.lines)
         /\ con.growable \in BOOLEAN /\ con.scrolled \in BOOLEAN
  <1>1. con.lines \in Seq(Lines)
    BY DEF Good, Console
  <1>2. Len(con.lines) \in Nat
    BY <1>1
  <1> QED BY <1>1, <1>2 DEF Good, Console

\* A console with more lines instead of its own.
LEMMA WithLines ==
  ASSUME NEW con, Good(con), NEW lines \in Seq(Lines), Len(lines) >= Len(con.lines)
  PROVE  LET new == [con EXCEPT !.lines = lines]
         IN  /\ Good(new) /\ new.lines = lines /\ new.cursor = con.cursor
             /\ new.growable = con.growable /\ new.scrolled = con.scrolled
  <1> DEFINE new == [con EXCEPT !.lines = lines]
  <1>1. new.lines = lines /\ new.cursor = con.cursor
        /\ new.growable = con.growable /\ new.scrolled = con.scrolled
    BY DEF Good, Console
  <1>2. new \in Console
    BY DEF Good, Console
  <1>3. con.cursor \in Nat /\ con.cursor < Len(con.lines)
        /\ Len(con.lines) \in Nat /\ Len(lines) \in Nat
    BY ConsoleFields
  <1> HIDE DEF new
  <1>4. Good(new)
    BY <1>1, <1>2, <1>3 DEF Good
  <1> QED BY <1>1, <1>4 DEF new

\* EnsureBufferHeight keeps what is there, and makes room if it can.
LEMMA EnsuredRoom ==
  ASSUME NEW con, Good(con), NEW min \in Nat
  PROVE  LET roomy == Ensured(con, min)
         IN  /\ Good(roomy) /\ roomy.cursor = con.cursor
             /\ roomy.growable = con.growable /\ roomy.scrolled = con.scrolled
             /\ Len(con.lines) <= Len(roomy.lines)
             /\ con.growable => min <= Len(roomy.lines)
             /\ \A i \in 1..Len(con.lines) : roomy.lines[i] = con.lines[i]
  <1>1. /\ con.lines \in Seq(Lines) /\ Len(con.lines) \in Nat /\ con.growable \in BOOLEAN
    BY ConsoleFields
  <1>2. CASE ~(Len(con.lines) < min /\ con.growable)
    <2>1. Ensured(con, min) = con
      BY <1>2, Zenon DEF Ensured
    <2>2. con.growable => min <= Len(con.lines)
      BY <1>1, <1>2
    <2> QED BY <1>1, <2>1, <2>2
  <1>3. CASE Len(con.lines) < min /\ con.growable
    <2> DEFINE more == BlankLines(min + Margin - Len(con.lines))
               lines == con.lines \o more
    <2>1. min + Margin - Len(con.lines) \in Nat /\ Margin \in Nat
      BY <1>1, <1>3, HeightsAssumption
    <2>2. more \in Seq(Lines) /\ Len(more) = min + Margin - Len(con.lines)
      BY <2>1, BlankLinesType
    <2> HIDE DEF more
    <2>3. /\ lines \in Seq(Lines) /\ Len(lines) = min + Margin
          /\ \A i \in 1..Len(con.lines) : lines[i] = con.lines[i]
      BY <1>1, <2>1, <2>2
    <2>4. Ensured(con, min) = [con EXCEPT !.lines = lines]
      BY <1>3, Zenon DEF Ensured, lines, more
    <2> HIDE DEF lines
    <2>5. Len(con.lines) <= Len(lines) /\ min <= Len(lines)
      BY <1>1, <1>3, <2>1, <2>3
    <2> QED BY <2>3, <2>4, <2>5, WithLines
  <1> QED BY <1>2, <1>3

\* A line is written where there is room below, without scrolling.
LEMMA WrittenLine ==
  ASSUME NEW con, Good(con), NEW row \in Nat, row < Len(con.lines), NEW line \in Lines
  PROVE  LET new == Written(con, row, line)
         IN  /\ Good(new) /\ new.growable = con.growable
             /\ row + 1 < Len(con.lines) =>
                  /\ new.scrolled = con.scrolled
                  /\ Len(new.lines) = Len(con.lines)
                  /\ new.lines[row + 1] = line
                  /\ \A i \in 1..Len(con.lines) :
                       i # row + 1 => new.lines[i] = con.lines[i]
  <1> DEFINE text == ReplaceAt(con.lines, row + 1, line)
             new == Written(con, row, line)
  <1>1. /\ con.lines \in Seq(Lines) /\ Len(con.lines) \in Nat
    BY ConsoleFields
  <1>2. /\ text \in Seq(Lines) /\ Len(text) = Len(con.lines)
        /\ text[row + 1] = line
        /\ \A i \in 1..Len(con.lines) : i # row + 1 => text[i] = con.lines[i]
    BY <1>1 DEF ReplaceAt
  <1> HIDE DEF text
  <1>3. CASE row + 1 < Len(con.lines)
    <2> DEFINE below == row + 1
               made == [con EXCEPT !.lines = text, !.cursor = below]
    <2>1. new = made /\ below \in Nat
      <3>1. new = made
        BY <1>3, Zenon DEF Written, text
      <3> QED BY <3>1
    <2> HIDE DEF below
    <2>2. /\ made \in Console /\ made.lines = text /\ made.cursor = below
          /\ made.growable = con.growable /\ made.scrolled = con.scrolled
      BY <1>2, <2>1 DEF Good, Console
    <2> HIDE DEF made, new
    <2>3. Good(new)
      BY <1>2, <1>3, <2>1, <2>2 DEF Good, below
    <2> QED BY <1>2, <2>1, <2>2, <2>3 DEF new
  <1>4. CASE ~(row + 1 < Len(con.lines))
    <2> DEFINE rest == Append(Tail(text), Blank)
               made == [con EXCEPT !.lines = rest, !.cursor = row, !.scrolled = TRUE]
    <2>1. new = made
      BY <1>4, Zenon DEF Written, text
    <2>2. rest \in Seq(Lines) /\ Len(rest) = Len(con.lines)
      <3>1. text # <<>>
        BY <1>1, <1>2
      <3>2. Tail(text) \in Seq(Lines) /\ Len(Tail(text)) = Len(text) - 1
        BY <1>2, <3>1
      <3> HIDE DEF Blank
      <3> QED BY <1>1, <1>2, <3>2, BlankType
    <2> HIDE DEF rest
    <2>3. /\ made \in Console /\ made.lines = rest /\ made.cursor = row
          /\ made.growable = con.growable
      BY <2>2 DEF Good, Console
    <2> HIDE DEF made, new
    <2>4. Good(new)
      BY <1>1, <2>1, <2>2, <2>3 DEF Good
    <2> QED BY <1>4, <2>1, <2>3, <2>4 DEF new
  <1> QED BY <1>3, <1>4

\* Where the buffer can grow a write lands on its row and nowhere else.
LEMMA WriteLands ==
  ASSUME NEW con, Good(con), NEW write \in Write
  PROVE  LET new == WriteLineAtRow(con, write)
         IN  /\ Good(new) /\ new.growable = con.growable
             /\ con.growable =>
                  /\ new.scrolled = con.scrolled
                  /\ Len(con.lines) <= Len(new.lines)
                  /\ write.row < Len(new.lines)
                  /\ new.lines[write.row + 1] = write.line
                  /\ \A i \in 1..Len(con.lines) :
                       i # write.row + 1 => new.lines[i] = con.lines[i]
  <1> DEFINE roomy == Ensured(con, write.row + 2)
             row == IF write.row < Len(roomy.lines) THEN write.row ELSE roomy.cursor
             new == WriteLineAtRow(con, write)
  <1>1. write.row \in Nat /\ write.line \in Lines
    BY DEF Write
  <1>2. write.row + 2 \in Nat
    BY <1>1
  <1>3. /\ Good(roomy) /\ roomy.growable = con.growable /\ roomy.scrolled = con.scrolled
        /\ Len(con.lines) <= Len(roomy.lines)
        /\ con.growable => write.row + 2 <= Len(roomy.lines)
        /\ \A i \in 1..Len(con.lines) : roomy.lines[i] = con.lines[i]
    BY <1>2, EnsuredRoom
  <1>4. new = Written(roomy, row, write.line)
    BY Zenon DEF WriteLineAtRow
  <1> HIDE DEF roomy, new
  <1>5. Len(con.lines) \in Nat /\ Len(roomy.lines) \in Nat /\ con.growable \in BOOLEAN
    BY <1>3, ConsoleFields
  <1>6. row \in Nat /\ row < Len(roomy.lines)
    BY <1>1, <1>3, ConsoleFields
  <1>7. con.growable => row = write.row /\ row + 1 < Len(roomy.lines)
    BY <1>1, <1>3, <1>5
  <1> HIDE DEF row
  <1>8. /\ Good(new) /\ new.growable = roomy.growable
        /\ row + 1 < Len(roomy.lines) =>
             /\ new.scrolled = roomy.scrolled
             /\ Len(new.lines) = Len(roomy.lines)
             /\ new.lines[row + 1] = write.line
             /\ \A i \in 1..Len(roomy.lines) :
                  i # row + 1 => new.lines[i] = roomy.lines[i]
    BY <1>1, <1>3, <1>4, <1>6, WrittenLine
  <1>9. con.growable =>
          /\ new.scrolled = con.scrolled
          /\ Len(con.lines) <= Len(new.lines)
          /\ write.row < Len(new.lines)
          /\ new.lines[write.row + 1] = write.line
    BY <1>1, <1>3, <1>5, <1>7, <1>8
  <1>10. ASSUME con.growable, NEW i \in 1..Len(con.lines), i # write.row + 1
         PROVE  new.lines[i] = con.lines[i]
    BY <1>3, <1>5, <1>7, <1>8, <1>10
  <1> QED BY <1>3, <1>8, <1>9, <1>10 DEF new

-----------------------------------------------------------------------------
\* A set of numbers that is not empty has a least one.
LEMMA LeastNatural ==
  ASSUME NEW S \in SUBSET Nat, S # {}
  PROVE  \E x \in S : \A y \in S : x <= y
  <1> DEFINE less == OpToRel(<, Nat)
  <1>1. IsWellFoundedOn(less, Nat)
    BY NatLessThanWellFounded, Zenon
  <1>2. \A x, y \in Nat : y < x => <<y, x>> \in less
    BY Zenon DEF OpToRel
  <1> HIDE DEF less
  <1>3. PICK x \in S : \A y \in S : ~(<<y, x>> \in less)
    BY <1>1, WFMin
  <1>4. \A y \in S : ~(y < x)
    BY <1>2, <1>3
  <1>5. x \in Nat /\ \A y \in S : y \in Nat
    OBVIOUS
  <1> QED BY <1>4, <1>5

\* What AfterWrites is up to its n-th write.
Follows(f, con, writes, n) ==
  f = [i \in 0..n |-> IF i = 0 THEN con ELSE WriteLineAtRow(f[i - 1], writes[i])]

\* There is such a function, by a least n that would have none.
LEMMA FollowsExists ==
  ASSUME NEW con, NEW writes, NEW n \in Nat
  PROVE  \E f : Follows(f, con, writes, n)
  <1> DEFINE Bad == {m \in Nat : ~ \E f : Follows(f, con, writes, m)}
  <1>1. SUFFICES ASSUME Bad # {} PROVE FALSE
    OBVIOUS
  <1>2. PICK x \in Bad : \A y \in Bad : x <= y
    <2>1. Bad \in SUBSET Nat
      OBVIOUS
    <2> HIDE DEF Bad
    <2> QED BY <1>1, <2>1, LeastNatural
  <1>3. x \in Nat /\ ~ \E f : Follows(f, con, writes, x)
    BY <1>2
  <1>4. CASE x = 0
    <2> DEFINE g == [i \in 0..0 |-> con]
    <2>1. g = [i \in 0..0 |-> IF i = 0 THEN con ELSE WriteLineAtRow(g[i - 1], writes[i])]
      OBVIOUS
    <2> HIDE DEF g
    <2>2. Follows(g, con, writes, 0)
      BY <2>1 DEF Follows
    <2> QED BY <1>3, <1>4, <2>2
  <1>5. CASE x # 0
    <2>1. x - 1 \in Nat /\ x - 1 \notin Bad
      BY <1>2, <1>3, <1>5
    <2>2. PICK f : Follows(f, con, writes, x - 1)
      BY <2>1
    <2> DEFINE g == [i \in 0..x |-> IF i = x THEN WriteLineAtRow(f[x - 1], writes[x])
                                   ELSE f[i]]
    <2>3. /\ \A i \in 0..x - 1 :
               f[i] = IF i = 0 THEN con ELSE WriteLineAtRow(f[i - 1], writes[i])
      BY <2>2, Zenon DEF Follows
    <2>4. g[x] = WriteLineAtRow(f[x - 1], writes[x]) /\ \A i \in 0..x - 1 : g[i] = f[i]
      BY <1>3
    <2>5. \A i \in 0..x : i = x \/ i \in 0..x - 1
      BY <1>3
    <2>6. \A i \in 0..x : i # 0 => i - 1 \in 0..x - 1
      BY <1>3
    <2>7. DOMAIN g = 0..x /\ g = [i \in 0..x |-> g[i]]
      OBVIOUS
    <2> HIDE DEF g
    <2>8. ASSUME NEW i \in 0..x
          PROVE  g[i] = IF i = 0 THEN con ELSE WriteLineAtRow(g[i - 1], writes[i])
      <3>1. CASE i = x
        BY <1>5, <2>4, <2>6, <3>1
      <3>2. CASE i \in 0..x - 1
        <4>1. CASE i = 0
          BY <2>3, <2>4, <3>2, <4>1
        <4>2. CASE i # 0
          <5>1. i - 1 \in 0..x - 1
            BY <2>6, <4>2
          <5>2. g[i - 1] = f[i - 1] /\ g[i] = f[i]
            BY <2>4, <3>2, <5>1
          <5> QED BY <2>3, <3>2, <4>2, <5>2
        <4> QED BY <4>1, <4>2
      <3> QED BY <2>5, <3>1, <3>2
    <2>9. g = [i \in 0..x |-> IF i = 0 THEN con ELSE WriteLineAtRow(g[i - 1], writes[i])]
      BY <2>7, <2>8
    <2> QED BY <1>3, <2>9 DEF Follows
  <1> QED BY <1>4, <1>5

\* AfterWrites is the value such a function ends with.
LEMMA AfterWritesIs ==
  ASSUME NEW con, NEW writes, Len(writes) \in Nat
  PROVE  \E f : /\ DOMAIN f = 0..Len(writes) /\ f[0] = con
                /\ \A i \in 1..Len(writes) : f[i] = WriteLineAtRow(f[i - 1], writes[i])
                /\ AfterWrites(con, writes) = f[Len(writes)]
  <1> DEFINE n == Len(writes)
             f == CHOOSE f : f = [i \in 0..n |->
                    IF i = 0 THEN con ELSE WriteLineAtRow(f[i - 1], writes[i])]
  <1>1. AfterWrites(con, writes) = f[n]
    BY Zenon DEF AfterWrites
  <1>2. f = [i \in 0..n |-> IF i = 0 THEN con ELSE WriteLineAtRow(f[i - 1], writes[i])]
    <2>1. \E g : g = [i \in 0..n |->
                        IF i = 0 THEN con ELSE WriteLineAtRow(g[i - 1], writes[i])]
      <3>1. PICK g : Follows(g, con, writes, n)
        BY FollowsExists
      <3> QED BY <3>1, Zenon DEF Follows
    <2> QED BY <2>1, Zenon
  <1> HIDE DEF f
  <1>3. DOMAIN f = 0..n
    BY <1>2, Zenon
  <1>4. \A i \in 0..n : f[i] = IF i = 0 THEN con ELSE WriteLineAtRow(f[i - 1], writes[i])
    BY <1>2, Zenon
  <1>5. 0 \in 0..n /\ \A i \in 1..n : i \in 0..n /\ i # 0
    OBVIOUS
  <1>6. f[0] = con
    BY <1>4, <1>5
  <1>7. \A i \in 1..n : f[i] = WriteLineAtRow(f[i - 1], writes[i])
    BY <1>4, <1>5
  <1> QED BY <1>1, <1>3, <1>6, <1>7

\* No write below k goes to its row, but such as write the same.
LastOf(writes, k) ==
  \A j \in DOMAIN writes :
    j > k /\ writes[j].row = writes[k].row => writes[j].line = writes[k].line

\* After some writes the last of each row is shown, and the rest as it was.
LEMMA WritesShow ==
  ASSUME NEW con, Good(con), NEW writes \in Seq(Write)
  PROVE  LET new == AfterWrites(con, writes)
         IN  /\ Good(new) /\ new.growable = con.growable
             /\ con.growable =>
                  /\ new.scrolled = con.scrolled
                  /\ Len(con.lines) <= Len(new.lines)
                  /\ \A i \in 1..Len(con.lines) :
                       (\A j \in DOMAIN writes : writes[j].row # i - 1)
                         => new.lines[i] = con.lines[i]
                  /\ \A k \in DOMAIN writes :
                       LastOf(writes, k)
                         => /\ writes[k].row < Len(new.lines)
                            /\ new.lines[writes[k].row + 1] = writes[k].line
  <1> DEFINE N == Len(writes)
  <1>1. N \in Nat /\ DOMAIN writes = 1..N
        /\ \A j \in 1..N : writes[j] \in Write /\ writes[j].row \in Nat
    <2>1. N \in Nat /\ DOMAIN writes = 1..N /\ \A j \in 1..N : writes[j] \in Write
      OBVIOUS
    <2>2. \A w \in Write : w.row \in Nat
      BY DEF Write
    <2> QED BY <2>1, <2>2
  <1>2. PICK f : /\ DOMAIN f = 0..N /\ f[0] = con
                 /\ \A i \in 1..N : f[i] = WriteLineAtRow(f[i - 1], writes[i])
                 /\ AfterWrites(con, writes) = f[N]
    BY <1>1, AfterWritesIs
  <1> DEFINE Kept(n) == Good(f[n]) /\ f[n].growable = con.growable
             Grown(n) ==
               /\ f[n].scrolled = con.scrolled
               /\ Len(con.lines) <= Len(f[n].lines)
             Rest(n) ==
               \A i \in 1..Len(con.lines) :
                 (\A j \in 1..n : writes[j].row # i - 1) => f[n].lines[i] = con.lines[i]
             Shown(n) ==
               \A k \in 1..n :
                 (\A j \in 1..n : j > k /\ writes[j].row = writes[k].row
                                    => writes[j].line = writes[k].line)
                   => /\ writes[k].row < Len(f[n].lines)
                      /\ f[n].lines[writes[k].row + 1] = writes[k].line
             P(n) == Kept(n) /\ (con.growable => Grown(n) /\ Rest(n) /\ Shown(n))
  <1>3. Len(con.lines) \in Nat /\ con.growable \in BOOLEAN
    BY ConsoleFields
  <1>4. P(0)
    BY <1>2, <1>3
  <1>5. ASSUME NEW n \in 0..N, n > 0, P(n - 1) PROVE P(n)
    <2> DEFINE old == f[n - 1]
               new == f[n]
               w == writes[n]
    <2>1. n \in 1..N /\ n \in Nat /\ n - 1 \in Nat /\ w \in Write /\ w.row \in Nat
      BY <1>1, <1>5
    <2>2. new = WriteLineAtRow(old, w)
      BY <1>2, <2>1
    <2>3. Good(old) /\ old.growable = con.growable
      BY <1>5
    <2>4. /\ Good(new) /\ new.growable = old.growable
          /\ old.growable =>
               /\ new.scrolled = old.scrolled
               /\ Len(old.lines) <= Len(new.lines)
               /\ w.row < Len(new.lines)
               /\ new.lines[w.row + 1] = w.line
               /\ \A i \in 1..Len(old.lines) :
                    i # w.row + 1 => new.lines[i] = old.lines[i]
      <3> HIDE DEF old, new, w
      <3> QED BY <2>1, <2>2, <2>3, WriteLands
    <2>5. Len(old.lines) \in Nat /\ Len(new.lines) \in Nat
      BY <2>3, <2>4, ConsoleFields
    <2>6. ASSUME con.growable PROVE Grown(n) /\ Rest(n) /\ Shown(n)
      <3>1. Grown(n - 1) /\ Rest(n - 1) /\ Shown(n - 1)
        BY <1>5, <2>6
      <3>2. /\ new.scrolled = old.scrolled
            /\ Len(old.lines) <= Len(new.lines)
            /\ w.row < Len(new.lines)
            /\ new.lines[w.row + 1] = w.line
            /\ \A i \in 1..Len(old.lines) :
                 i # w.row + 1 => new.lines[i] = old.lines[i]
        BY <2>3, <2>4, <2>6
      <3>3. Grown(n)
        BY <1>3, <2>5, <3>1, <3>2
      <3>4. \A j \in 1..n - 1 : j \in 1..n
        BY <2>1
      <3>5. Rest(n)
        <4> SUFFICES ASSUME NEW i \in 1..Len(con.lines),
                            \A j \in 1..n : writes[j].row # i - 1
                     PROVE  new.lines[i] = con.lines[i]
          OBVIOUS
        <4>1. old.lines[i] = con.lines[i]
          BY <3>1, <3>4
        <4>2. i \in 1..Len(old.lines)
          BY <1>3, <2>5, <3>1
        <4>3. i # w.row + 1
          BY <2>1
        <4> QED BY <3>2, <4>1, <4>2, <4>3
      <3>6. Shown(n)
        <4> SUFFICES ASSUME NEW k \in 1..n,
                            \A j \in 1..n : j > k /\ writes[j].row = writes[k].row
                                              => writes[j].line = writes[k].line
                     PROVE  /\ writes[k].row < Len(new.lines)
                            /\ new.lines[writes[k].row + 1] = writes[k].line
          OBVIOUS
        <4>1. CASE w.row = writes[k].row
          <5>1. w.line = writes[k].line
            <6>1. k = n \/ n > k
              BY <2>1
            <6>2. n \in 1..n
              BY <2>1
            <6> QED BY <4>1, <6>1, <6>2
          <5> QED BY <3>2, <4>1, <5>1
        <4>2. CASE w.row # writes[k].row
          <5>1. k \in 1..n - 1
            BY <2>1, <4>2
          <5>2. /\ writes[k].row < Len(old.lines)
                /\ old.lines[writes[k].row + 1] = writes[k].line
            BY <3>1, <3>4, <5>1
          <5>3. writes[k].row \in Nat
            BY <1>1, <2>1, <5>1
          <5>4. writes[k].row + 1 \in 1..Len(old.lines) /\ writes[k].row + 1 # w.row + 1
            <6> HIDE DEF w, old
            <6> QED BY <2>1, <2>5, <4>2, <5>2, <5>3
          <5>5. new.lines[writes[k].row + 1] = old.lines[writes[k].row + 1]
            BY <3>2, <5>4
          <5> QED BY <2>5, <3>2, <5>2, <5>3, <5>5
        <4> QED BY <4>1, <4>2
      <3> QED BY <3>3, <3>5, <3>6
    <2> QED BY <2>3, <2>4, <2>6
  <1>6. P(N)
    <2> HIDE DEF P
    <2> DEFINE Wrong == {m \in 0..N : ~P(m)}
    <2>1. ASSUME Wrong # {} PROVE FALSE
      <3>1. Wrong \in SUBSET Nat
        BY <1>1
      <3>2. PICK x \in Wrong : \A y \in Wrong : x <= y
        <4> HIDE DEF Wrong
        <4> QED BY <2>1, <3>1, LeastNatural
      <3>3. x \in 0..N /\ ~P(x) /\ x # 0 /\ x > 0
        BY <1>1, <1>4, <3>2
      <3>4. x - 1 \in 0..N /\ x - 1 \notin Wrong
        BY <1>1, <3>2, <3>3
      <3> QED BY <1>5, <3>3, <3>4
    <2> QED BY <1>1, <2>1
  <1> QED BY <1>1, <1>2, <1>6 DEF LastOf

-----------------------------------------------------------------------------
(* The columns, and what a redraw writes.                                  *)

\* Topics are texts, and their widths are numbers.
LEMMA TopicNames ==
  /\ Topics \in SUBSET STRING
  /\ \A list \in TopicLists : list \in Seq(STRING) /\ ToSet(list) \in SUBSET Topics
  /\ \A t \in Topics \cup Ids : WidthOf[t] \in Nat
  <1>1. \A list \in TopicLists : list \in Seq(STRING)
    BY TopicListsAssumption
  <1>2. \A list \in Seq(STRING) : ToSet(list) \in SUBSET STRING
    BY DEF ToSet
  <1> QED BY <1>1, <1>2, WidthOfAssumption DEF Topics

\* Wider is the greatest of a width and of the widths of some texts.
LEMMA WiderIs ==
  ASSUME NEW w \in Nat, NEW g \in Seq(Topics \cup Ids)
  PROVE  /\ Wider(w, ToSet(g)) \in Nat /\ w <= Wider(w, ToSet(g))
         /\ \A t \in ToSet(g) : WidthOf[t] <= Wider(w, ToSet(g))
         /\ \/ Wider(w, ToSet(g)) = w
            \/ \E t \in ToSet(g) : Wider(w, ToSet(g)) = WidthOf[t]
  <1> DEFINE N == Len(g)
             texts == ToSet(g)
  <1>1. N \in Nat /\ DOMAIN g = 1..N /\ \A i \in 1..N : WidthOf[g[i]] \in Nat
    <2>1. Len(g) \in Nat /\ DOMAIN g = 1..Len(g)
          /\ \A i \in 1..Len(g) : g[i] \in Topics \cup Ids
      OBVIOUS
    <2> QED BY <2>1, TopicNames
  <1>2. texts = {g[i] : i \in 1..N}
    BY <1>1 DEF ToSet
  <1> HIDE DEF N, texts
  <1> DEFINE All(n) == {w} \cup {WidthOf[g[i]] : i \in 1..n}
             P(n) == \E x \in All(n) : \A y \in All(n) : x >= y
             Wrong == {n \in 0..N : ~P(n)}
  <1>3. P(0)
    BY <1>1
  <1>4. ASSUME NEW n \in 0..N, n > 0, P(n - 1) PROVE P(n)
    <2>1. n \in 1..N /\ WidthOf[g[n]] \in Nat /\ n \in Nat
      BY <1>1, <1>4
    <2>2. PICK x \in All(n - 1) : \A y \in All(n - 1) : x >= y
      BY <1>4
    <2>3. All(n) = All(n - 1) \cup {WidthOf[g[n]]}
      <3>1. \A i \in 1..n : i \in 1..n - 1 \/ i = n
        BY <2>1
      <3>2. \A i \in 1..n - 1 : i \in 1..n
        BY <2>1
      <3>3. n \in 1..n
        BY <2>1
      <3> QED BY <3>1, <3>2, <3>3
    <2>4. x \in Nat
      <3>1. \A i \in 1..n - 1 : i \in 1..N
        BY <1>1, <2>1
      <3> QED BY <1>1, <3>1
    <2> HIDE DEF All
    <2>5. CASE x >= WidthOf[g[n]]
      BY <2>2, <2>3, <2>5
    <2>6. CASE WidthOf[g[n]] > x
      <3>1. \A y \in All(n - 1) : y \in Nat
        <4>1. \A i \in 1..n - 1 : i \in 1..N
          BY <1>1, <2>1
        <4> QED BY <1>1, <4>1 DEF All
      <3> QED BY <2>1, <2>2, <2>3, <2>4, <2>6, <3>1
    <2> QED BY <2>1, <2>4, <2>5, <2>6
  <1>5. P(N)
    <2> HIDE DEF P
    <2>1. ASSUME Wrong # {} PROVE FALSE
      <3>1. Wrong \in SUBSET Nat
        BY <1>1
      <3>2. PICK x \in Wrong : \A y \in Wrong : x <= y
        <4> HIDE DEF Wrong
        <4> QED BY <2>1, <3>1, LeastNatural
      <3>3. x \in 0..N /\ ~P(x) /\ x # 0 /\ x > 0
        BY <1>1, <1>3, <3>2
      <3>4. x - 1 \in 0..N /\ x - 1 \notin Wrong
        BY <1>1, <3>2, <3>3
      <3> QED BY <1>4, <3>3, <3>4
    <2> QED BY <1>1, <2>1
  <1> DEFINE S == {w} \cup {WidthOf[text] : text \in texts}
  <1>6. S = All(N)
    BY <1>2
  <1>7. \A x \in S : x \in Nat
    BY <1>1, <1>2
  <1>8. \E x \in S : \A y \in S : x >= y
    BY <1>5, <1>6
  <1>9. Wider(w, texts) = Max(S)
    BY DEF Wider
  <1>10. Max(S) \in S /\ \A y \in S : Max(S) >= y
    <2> HIDE DEF S
    <2> QED BY <1>8, Zenon DEF Max
  <1>11. w \in S /\ \A t \in texts : WidthOf[t] \in S
    OBVIOUS
  <1>12. Wider(w, texts) = w \/ \E t \in texts : Wider(w, texts) = WidthOf[t]
    BY <1>9, <1>10
  <1> HIDE DEF S
  <1>13. \A y \in S : y <= Wider(w, texts)
    BY <1>7, <1>9, <1>10
  <1> QED BY <1>7, <1>9, <1>10, <1>11, <1>12, <1>13 DEF texts

\* The column of the topics is wide enough for each of them.
LEMMA WiderList ==
  ASSUME NEW list \in TopicLists
  PROVE  /\ Wider(5, ToSet(list)) \in Nat
         /\ \A t \in ToSet(list) : WidthOf[t] <= Wider(5, ToSet(list))
  <1>1. list \in Seq(Topics \cup Ids)
    BY TopicNames DEF ToSet
  <1>2. 5 \in Nat
    OBVIOUS
  <1> QED BY <1>1, <1>2, WiderIs

\* One more text makes a column no narrower, and no wider if it fits.
LEMMA WiderOne ==
  ASSUME NEW w \in Nat, NEW t \in Topics \cup Ids
  PROVE  /\ Wider(w, {t}) \in Nat
         /\ WidthOf[t] <= w => Wider(w, {t}) = w
  <1> DEFINE g == <<t>>
  <1>1. g \in Seq(Topics \cup Ids) /\ ToSet(g) = {t} /\ WidthOf[t] \in Nat
    BY TopicNames DEF ToSet
  <1> HIDE DEF g
  <1>2. /\ Wider(w, {t}) \in Nat /\ w <= Wider(w, {t})
        /\ Wider(w, {t}) = w \/ \E u \in {t} : Wider(w, {t}) = WidthOf[u]
    BY <1>1, WiderIs
  <1> QED BY <1>1, <1>2

\* A topic's status has the row of its first place in the list.
LEMMA StatusRowIs ==
  ASSUME topics \in Seq(STRING), NEW t \in ToSet(topics)
  PROVE  /\ StatusRow(t) \in Nat /\ StatusRow(t) < Len(topics)
         /\ topics[StatusRow(t) + 1] = t
  <1> DEFINE S == {i \in DOMAIN topics : topics[i] = t}
  <1>1. DOMAIN topics = 1..Len(topics) /\ Len(topics) \in Nat
    OBVIOUS
  <1>2. S \in SUBSET Nat /\ S # {}
    BY <1>1 DEF ToSet
  <1>3. PICK x \in S : \A y \in S : x <= y
    <2> HIDE DEF S
    <2> QED BY <1>2, LeastNatural
  <1>4. \A j \in 1..x - 1 : topics[j] # t
    <2> SUFFICES ASSUME NEW j \in 1..x - 1, topics[j] = t PROVE FALSE
      OBVIOUS
    <2>1. x \in 1..Len(topics)
      BY <1>1, <1>3
    <2>2. j \in S /\ j < x
      BY <1>1, <2>1
    <2> QED BY <1>3, <2>1, <2>2
  <1> DEFINE c == CHOOSE i \in DOMAIN topics :
                    topics[i] = t /\ \A j \in 1 .. i - 1 : topics[j] # t
  <1>5. c \in DOMAIN topics /\ topics[c] = t
    BY <1>3, <1>4, Zenon
  <1>6. StatusRow(t) = c - 1
    BY Zenon DEF StatusRow
  <1> HIDE DEF c
  <1> QED BY <1>1, <1>5, <1>6

-----------------------------------------------------------------------------
\* The writes of a redraw, by name.
TxWrite(list, tx, tw) == At(TxRowOf(list), TxLine(tx, tw))
HeaderWrite(list, withTx, tw, iw) == At(HeaderRowOf(list, withTx), HeaderLine(tw, iw))
UnderlineWrite(list, withTx, tw, iw) ==
  At(UnderlineRowOf(list, withTx), UnderlineLine(tw, iw))
DataWrite(key, rows, tw, iw) == At(rows[key].row, DataLine(key, rows[key].value, tw, iw))

\* What Redraw writes, as a set: the fixed part and a line for each source.
Fixed(list, withTx, tx, tw, iw) ==
  (IF withTx THEN {TxWrite(list, tx, tw)} ELSE {})
  \cup {HeaderWrite(list, withTx, tw, iw), UnderlineWrite(list, withTx, tw, iw)}
Redrawn(list, withTx, tx, tw, iw, rows, order) ==
  Fixed(list, withTx, tx, tw, iw)
  \cup {DataWrite(key, rows, tw, iw) : key \in ToSet(order)}

\* The fixed words of the table.
LEMMA Words ==
  /\ "tx" \in Cell /\ "topic" \in Cell /\ "id" \in Cell /\ "value" \in Cell
  /\ "-" \in Cell
  BY Zenon DEF Cell

\* The lines of the table are lines.
LEMMA LineTypes ==
  ASSUME NEW tx \in Cell, NEW tw \in Nat, NEW iw \in Nat
  PROVE  /\ TxLine(tx, tw) \in Lines /\ HeaderLine(tw, iw) \in Lines
         /\ UnderlineLine(tw, iw) \in Lines
         /\ \A key \in Keys : DataLine(key, tx, tw, iw) \in Lines
         /\ \A t \in Topics : StatusLine(t, tx, tw) \in Lines
  <1>1. Topics \in SUBSET Cell /\ \A key \in Keys : key[1] \in Cell /\ key[2] \in Cell
    BY TopicNames DEF Keys, Cell
  <1>2. <<tw>> \in Seq(Nat) /\ <<tw, iw>> \in Seq(Nat)
    OBVIOUS
  <1>3. \A cells \in Seq(Cell), widths \in Seq(Nat) : Line(cells, widths) \in Lines
    BY DEF Line, Lines
  <1>4. /\ \A x \in Cell, y \in Cell : <<x, y>> \in Seq(Cell)
        /\ \A x \in Cell, y \in Cell, z \in Cell : <<x, y, z>> \in Seq(Cell)
    OBVIOUS
  <1> HIDE DEF Cell, Line, Lines
  <1>5. /\ <<"tx", tx>> \in Seq(Cell) /\ <<"topic", "id", "value">> \in Seq(Cell)
        /\ <<"-", "-", "-">> \in Seq(Cell)
    BY <1>4, Words, Zenon
  <1>6. TxLine(tx, tw) \in Lines /\ HeaderLine(tw, iw) \in Lines
        /\ UnderlineLine(tw, iw) \in Lines
    BY <1>2, <1>3, <1>5, Zenon DEF TxLine, HeaderLine, UnderlineLine
  <1>7. \A key \in Keys : DataLine(key, tx, tw, iw) \in Lines
    BY <1>1, <1>2, <1>3, <1>4 DEF DataLine
  <1>8. \A t \in Topics : StatusLine(t, tx, tw) \in Lines
    BY <1>1, <1>2, <1>3, <1>4 DEF StatusLine
  <1> QED BY <1>6, <1>7, <1>8

\* The members of two sequences in one.
LEMMA Concatenation ==
  ASSUME NEW S, NEW s \in Seq(S), NEW t \in Seq(S)
  PROVE  s \o t \in Seq(S) /\ ToSet(s \o t) = ToSet(s) \cup ToSet(t)
  <1> DEFINE both == s \o t
  <1>1. /\ Len(s) \in Nat /\ Len(t) \in Nat
        /\ DOMAIN s = 1..Len(s) /\ DOMAIN t = 1..Len(t)
        /\ both \in Seq(S) /\ DOMAIN both = 1..Len(s) + Len(t)
        /\ \A i \in 1..Len(s) : both[i] = s[i] /\ i \in 1..Len(s) + Len(t)
        /\ \A i \in 1..Len(t) : both[Len(s) + i] = t[i] /\ Len(s) + i \in 1..Len(s) + Len(t)
    OBVIOUS
  <1>2. \A i \in 1..Len(s) + Len(t) :
          \/ i \in 1..Len(s)
          \/ i - Len(s) \in 1..Len(t) /\ Len(s) + (i - Len(s)) = i
    BY <1>1
  <1> HIDE DEF both
  <1>3. \A x \in ToSet(both) : x \in ToSet(s) \/ x \in ToSet(t)
    <2> SUFFICES ASSUME NEW i \in 1..Len(s) + Len(t)
                 PROVE  both[i] \in ToSet(s) \/ both[i] \in ToSet(t)
      BY <1>1 DEF ToSet
    <2>1. CASE i \in 1..Len(s)
      BY <1>1, <2>1 DEF ToSet
    <2>2. CASE i - Len(s) \in 1..Len(t) /\ Len(s) + (i - Len(s)) = i
      <3>1. both[i] = t[i - Len(s)]
        BY <1>1, <2>2
      <3> QED BY <1>1, <2>2, <3>1 DEF ToSet
    <2> QED BY <1>2, <2>1, <2>2
  <1>4. \A x \in ToSet(s) : x \in ToSet(both)
    BY <1>1 DEF ToSet
  <1>5. \A x \in ToSet(t) : x \in ToSet(both)
    <2> SUFFICES ASSUME NEW i \in 1..Len(t) PROVE t[i] \in ToSet(both)
      BY <1>1 DEF ToSet
    <2>1. both[Len(s) + i] = t[i] /\ Len(s) + i \in DOMAIN both
      BY <1>1
    <2> QED BY <2>1 DEF ToSet
  <1>6. ToSet(both) = ToSet(s) \cup ToSet(t)
    BY <1>3, <1>4, <1>5
  <1> QED BY <1>1, <1>6 DEF both

\* Redraw writes the fixed part and every source.
LEMMA RedrawIs ==
  ASSUME NEW list \in Seq(STRING), NEW withTx \in BOOLEAN, NEW tx \in Cell,
         NEW tw \in Nat, NEW iw \in Nat, NEW rows, NEW order \in Seq(Keys),
         \A key \in ToSet(order) : rows[key].row \in Nat /\ rows[key].value \in Cell
  PROVE  LET writes == Redraw(list, withTx, tx, tw, iw, rows, order)
         IN  /\ writes \in Seq(Write)
             /\ ToSet(writes) = Redrawn(list, withTx, tx, tw, iw, rows, order)
  <1> DEFINE a == IF withTx THEN <<TxWrite(list, tx, tw)>> ELSE <<>>
             h == HeaderWrite(list, withTx, tw, iw)
             u == UnderlineWrite(list, withTx, tw, iw)
             b == <<h, u>>
             c == [i \in DOMAIN order |-> DataWrite(order[i], rows, tw, iw)]
  <1>1. Redraw(list, withTx, tx, tw, iw, rows, order) = a \o b \o c
    BY Zenon DEF Redraw, TxWrite, HeaderWrite, UnderlineWrite, DataWrite
  <1>2. Len(list) \in Nat
    OBVIOUS
  <1>3. DOMAIN order = 1..Len(order) /\ Len(order) \in Nat
        /\ \A i \in 1..Len(order) : order[i] \in Keys /\ order[i] \in ToSet(order)
    BY DEF ToSet
  <1>4. h \in Write /\ u \in Write /\ TxWrite(list, tx, tw) \in Write
    <2>1. /\ TxLine(tx, tw) \in Lines /\ HeaderLine(tw, iw) \in Lines
          /\ UnderlineLine(tw, iw) \in Lines
      BY LineTypes
    <2>2. /\ TxRowOf(list) \in Nat /\ HeaderRowOf(list, withTx) \in Nat
          /\ UnderlineRowOf(list, withTx) \in Nat
      BY <1>2 DEF TxRowOf, HeaderRowOf, UnderlineRowOf
    <2> QED BY <2>1, <2>2 DEF Write, At, TxWrite, HeaderWrite, UnderlineWrite
  <1>5. \A i \in 1..Len(order) : DataWrite(order[i], rows, tw, iw) \in Write
    <2> SUFFICES ASSUME NEW i \in 1..Len(order)
                 PROVE  DataWrite(order[i], rows, tw, iw) \in Write
      OBVIOUS
    <2> DEFINE k == order[i]
    <2>1. k \in Keys /\ rows[k].row \in Nat /\ rows[k].value \in Cell
      BY <1>3
    <2> HIDE DEF k
    <2>2. DataLine(k, rows[k].value, tw, iw) \in Lines
      BY <2>1, LineTypes
    <2> QED BY <2>1, <2>2 DEF Write, At, DataWrite, k
  <1>6. /\ a \in Seq(Write) /\ ToSet(a) = IF withTx THEN {TxWrite(list, tx, tw)} ELSE {}
    BY <1>4 DEF ToSet
  <1> HIDE DEF a
  <1>7. b \in Seq(Write) /\ ToSet(b) = {h, u}
    <2> HIDE DEF h, u
    <2> QED BY <1>4 DEF ToSet
  <1> HIDE DEF b, h, u
  <1>8. c \in Seq(Write) /\ ToSet(c) = {DataWrite(key, rows, tw, iw) : key \in ToSet(order)}
    BY <1>3, <1>5 DEF ToSet
  <1> HIDE DEF c
  <1>9. a \o b \in Seq(Write) /\ ToSet(a \o b) = ToSet(a) \cup ToSet(b)
    BY <1>6, <1>7, Concatenation
  <1> DEFINE ab == a \o b
  <1> HIDE DEF ab
  <1>10. /\ ab \o c \in Seq(Write)
         /\ ToSet(ab \o c) = ToSet(a) \cup ToSet(b) \cup ToSet(c)
    <2>1. ab \in Seq(Write) /\ ToSet(ab) = ToSet(a) \cup ToSet(b)
      BY <1>9 DEF ab
    <2> QED BY <1>8, <2>1, Concatenation
  <1>11. ToSet(a) \cup ToSet(b) \cup ToSet(c) =
           Redrawn(list, withTx, tx, tw, iw, rows, order)
    BY <1>6, <1>7, <1>8, Zenon DEF Redrawn, Fixed, h, u
  <1> QED BY <1>1, <1>10, <1>11 DEF ab

-----------------------------------------------------------------------------
(* The rows.                                                               *)

\* The types the rows depend on.
Rows ==
  /\ topics \in Seq(STRING)
  /\ nextRow \in Nat
  /\ rowsByKey \in [DOMAIN rowsByKey -> Row]

\* The next free row is below the fixed part.
Below == UnderlineRowOf(topics, hasTxLine) < nextRow

\* RowsDistinct alone says nothing of the next row while there is no source.
IInv == Rows /\ Below /\ RowsDistinct

\* The length of a list of topics is a number.
LEMMA Lengths == \A list \in Seq(STRING) : Len(list) \in Nat
  OBVIOUS

\* A fresh table has no rows, and its next row is below its fixed part.
LEMMA InitRows == Init => IInv
  <1> SUFFICES ASSUME Init PROVE IInv
    OBVIOUS
  <1>1. /\ topics = <<>> /\ hasTxLine = FALSE /\ nextRow = 2
        /\ rowsByKey = NoRows
    BY DEF Init
  <1>2. DOMAIN NoRows = {} /\ NoRows \in [{} -> Row]
    BY DEF NoRows
  <1>3. Len(<<>>) = 0 /\ <<>> \in Seq(STRING)
    OBVIOUS
  <1> QED
    BY <1>1, <1>2, <1>3 DEF IInv, Rows, Below, RowsDistinct, UnderlineRowOf, HeaderRowOf

\* Begin: the same of the table that begins.
LEMMA BeginRows ==
  ASSUME NEW list \in TopicLists, NEW withTx \in BOOLEAN, Begin(list, withTx)
  PROVE  IInv'
  <1>1. list \in Seq(STRING)
    BY TopicListsAssumption
  <1>2. /\ topics' = list /\ hasTxLine' = withTx /\ rowsByKey' = NoRows
        /\ nextRow' = UnderlineRowOf(list, withTx) + 1
    BY DEF Begin
  <1>3. DOMAIN NoRows = {} /\ NoRows \in [{} -> Row]
    BY DEF NoRows
  <1> QED
    BY <1>1, <1>2, <1>3, Lengths DEF IInv, Rows, Below, RowsDistinct, UnderlineRowOf, HeaderRowOf

\* Update of a key that has a row changes the value beside it only.
LEMMA OldRow ==
  ASSUME IInv, NEW topic, NEW id, NEW value \in Texts,
         UpdateOldRow(topic, id, value)
  PROVE  IInv'
  <1> DEFINE key == <<topic, id>>
  <1>1. /\ topics' = topics /\ hasTxLine' = hasTxLine /\ nextRow' = nextRow
        /\ rowsByKey' = [rowsByKey EXCEPT ![key].value = value]
    BY DEF UpdateOldRow, layout
  <1>2. DOMAIN rowsByKey' = DOMAIN rowsByKey
    BY <1>1
  <1>3. rowsByKey \in [DOMAIN rowsByKey -> Row]
    BY DEF IInv, Rows
  <1>4. rowsByKey' \in [DOMAIN rowsByKey -> Row]
    BY <1>1, <1>3 DEF Row
  <1>5. \A k \in DOMAIN rowsByKey : rowsByKey'[k].row = rowsByKey[k].row
    BY <1>1, <1>3 DEF Row
  <1>6. Rows' /\ Below'
    BY <1>1, <1>2, <1>4 DEF IInv, Rows, Below, UnderlineRowOf, HeaderRowOf
  <1>7. RowsDistinct'
    BY <1>1, <1>2, <1>5 DEF IInv, RowsDistinct, UnderlineRowOf, HeaderRowOf
  <1> QED
    BY <1>6, <1>7 DEF IInv

\* Update of a new key: it gets the free row, and the next is free.
LEMMA FreshRow ==
  ASSUME IInv, NEW topic, NEW id, NEW value \in Texts,
         UpdateNewRow(topic, id, value)
  PROVE  IInv'
  <1> DEFINE key == <<topic, id>>
  <1>1. /\ topics' = topics /\ hasTxLine' = hasTxLine /\ nextRow' = nextRow + 1
        /\ key \notin DOMAIN rowsByKey
        /\ rowsByKey' = [k \in DOMAIN rowsByKey \cup {key} |->
                           IF k = key THEN [value |-> value, row |-> nextRow]
                           ELSE rowsByKey[k]]
    BY DEF UpdateNewRow, layout, NewRow
  <1>2. DOMAIN rowsByKey' = DOMAIN rowsByKey \cup {key}
    BY <1>1
  <1>3. rowsByKey'[key].row = nextRow
    BY <1>1
  <1>4. \A k \in DOMAIN rowsByKey : rowsByKey'[k].row = rowsByKey[k].row
    BY <1>1
  <1> HIDE DEF key
  <1>5. /\ topics \in Seq(STRING) /\ Len(topics) \in Nat /\ nextRow \in Nat
        /\ \A k \in DOMAIN rowsByKey : rowsByKey[k] \in Row /\ rowsByKey[k].row \in Nat
    BY Lengths DEF IInv, Rows, Row
  <1>6. Rows' /\ Below'
    <2>1. [value |-> value, row |-> nextRow] \in Row
      BY <1>5 DEF Row
    <2>2. rowsByKey' \in [DOMAIN rowsByKey \cup {key} -> Row]
      BY <1>1, <1>5, <2>1
    <2> QED
      BY <1>1, <1>2, <1>5, <2>2 DEF IInv, Rows, Below, UnderlineRowOf, HeaderRowOf
  <1>7. RowsDistinct'
    BY <1>1, <1>2, <1>3, <1>4, <1>5
       DEF IInv, RowsDistinct, Below, UnderlineRowOf, HeaderRowOf
  <1> QED
    BY <1>6, <1>7 DEF IInv

\* The other operations leave the rows alone.
LEMMA SameRows ==
  ASSUME IInv, UNCHANGED <<topics, hasTxLine, rowsByKey, nextRow>>
  PROVE  IInv'
  BY DEF IInv, Rows, Below, RowsDistinct, UnderlineRowOf, HeaderRowOf

\* Every step keeps the rows distinct.
LEMMA StepRows == IInv /\ [Next]_vars => IInv'
  <1> SUFFICES ASSUME IInv, [Next]_vars PROVE IInv'
    OBVIOUS
  <1>1. CASE \E list \in TopicLists, withTx \in BOOLEAN : Begin(list, withTx)
    BY <1>1, BeginRows
  <1>2. CASE \E topic \in ToSet(topics), id \in Ids, value \in Texts :
               UpdateOldRow(topic, id, value) \/ UpdateNewRow(topic, id, value)
    BY <1>2, OldRow, FreshRow
  <1>3. CASE \E topic \in ToSet(topics), status \in Texts : SetTopicStatus(topic, status)
    BY <1>3, SameRows DEF SetTopicStatus, layout
  <1>4. CASE \E text \in Texts : SetTxStateLine(text)
    BY <1>4, SameRows DEF SetTxStateLine, layout
  <1>5. CASE End
    BY <1>5, SameRows DEF End, layout
  <1>6. CASE UNCHANGED vars
    BY <1>6, SameRows DEF vars, layout
  <1> QED
    BY <1>1, <1>2, <1>3, <1>4, <1>5, <1>6 DEF Next

\* No two sources share a row, and none is drawn over the fixed part of the
\* table: AllocateRow hands out every row once, below the underline.
THEOREM RowsStayDistinct == Spec => []RowsDistinct
  <1>1. IInv => RowsDistinct
    BY DEF IInv
  <1> QED
    BY InitRows, StepRows, <1>1, PTL DEF Spec

-----------------------------------------------------------------------------
(* What a redraw shows.                                                    *)

\* A write can be seen on its row.
Shows(con, write) ==
  /\ write.row < Len(con.lines)
  /\ con.lines[write.row + 1] = write.line

\* Writes to one row are one write.
RowsApart(S) == \A v, w \in S : v.row = w.row => v = w

\* What is written at the end of some writes can be seen after them.
LEMMA LastWritesShow ==
  ASSUME NEW con, Good(con), NEW pre \in Seq(Write), NEW ws \in Seq(Write),
         RowsApart(ToSet(ws))
  PROVE  LET new == AfterWrites(con, pre \o ws)
         IN  /\ Good(new) /\ new.growable = con.growable
             /\ con.growable =>
                  /\ new.scrolled = con.scrolled
                  /\ Len(con.lines) <= Len(new.lines)
                  /\ \A i \in 1..Len(con.lines) :
                       (\A w \in ToSet(pre) \cup ToSet(ws) : w.row # i - 1)
                         => new.lines[i] = con.lines[i]
                  /\ \A w \in ToSet(ws) : Shows(new, w)
  <1> DEFINE all == pre \o ws
             new == AfterWrites(con, all)
  <1>1. all \in Seq(Write) /\ ToSet(all) = ToSet(pre) \cup ToSet(ws)
    BY Concatenation
  <1>2. /\ Len(pre) \in Nat /\ Len(ws) \in Nat
        /\ DOMAIN ws = 1..Len(ws) /\ DOMAIN all = 1..Len(pre) + Len(ws)
        /\ \A i \in 1..Len(ws) : all[Len(pre) + i] = ws[i]
    OBVIOUS
  <1> HIDE DEF all
  <1>3. /\ Good(new) /\ new.growable = con.growable
        /\ con.growable =>
             /\ new.scrolled = con.scrolled
             /\ Len(con.lines) <= Len(new.lines)
             /\ \A i \in 1..Len(con.lines) :
                  (\A j \in DOMAIN all : all[j].row # i - 1)
                    => new.lines[i] = con.lines[i]
             /\ \A k \in DOMAIN all :
                  LastOf(all, k)
                    => /\ all[k].row < Len(new.lines)
                       /\ new.lines[all[k].row + 1] = all[k].line
    BY <1>1, WritesShow
  <1> HIDE DEF new
  <1>4. ASSUME con.growable, NEW i \in 1..Len(con.lines),
               \A w \in ToSet(pre) \cup ToSet(ws) : w.row # i - 1
        PROVE  new.lines[i] = con.lines[i]
    <2>1. \A j \in DOMAIN all : all[j].row # i - 1
      BY <1>1, <1>4 DEF ToSet
    <2> QED BY <1>3, <1>4, <2>1
  <1>5. ASSUME con.growable, NEW i \in 1..Len(ws)
        PROVE  Shows(new, ws[i])
    <2> DEFINE k == Len(pre) + i
    <2>1. k \in DOMAIN all /\ all[k] = ws[i]
      BY <1>2
    <2>2. ASSUME NEW j \in DOMAIN all, j > k, all[j].row = all[k].row
          PROVE  all[j].line = all[k].line
      <3>1. j - Len(pre) \in 1..Len(ws) /\ Len(pre) + (j - Len(pre)) = j
        BY <1>2, <2>2
      <3>2. all[j] = ws[j - Len(pre)]
        BY <1>2, <3>1
      <3>3. ws[j - Len(pre)] \in ToSet(ws) /\ ws[i] \in ToSet(ws)
        BY <1>2, <3>1 DEF ToSet
      <3> QED BY <2>1, <2>2, <3>2, <3>3 DEF RowsApart
    <2> HIDE DEF k
    <2>3. LastOf(all, k)
      BY <2>2 DEF LastOf
    <2> QED BY <1>3, <1>5, <2>1, <2>3 DEF Shows
  <1>6. ASSUME con.growable, NEW w \in ToSet(ws) PROVE Shows(new, w)
    BY <1>2, <1>5, <1>6 DEF ToSet
  <1> QED BY <1>3, <1>4, <1>6 DEF new, all

-----------------------------------------------------------------------------
\* The sources of a table have rows of their own below its fixed part.
RowsFit(list, withTx, rows, order) ==
  /\ \A key \in ToSet(order) :
       /\ rows[key].row \in Nat /\ rows[key].value \in Cell
       /\ UnderlineRowOf(list, withTx) < rows[key].row
  /\ \A key1, key2 \in ToSet(order) : rows[key1].row = rows[key2].row => key1 = key2

\* A redraw writes no row twice, and none of the status rows.
LEMMA RedrawnRows ==
  ASSUME NEW list \in Seq(STRING), NEW withTx \in BOOLEAN, NEW tx, NEW tw, NEW iw,
         NEW rows, NEW order, RowsFit(list, withTx, rows, order)
  PROVE  LET S == Redrawn(list, withTx, tx, tw, iw, rows, order)
         IN  /\ RowsApart(S)
             /\ \A w \in S : w.row \in Nat /\ Len(list) <= w.row
  <1> DEFINE S == Redrawn(list, withTx, tx, tw, iw, rows, order)
             n == Len(list)
             T == TxWrite(list, tx, tw)
             H == HeaderWrite(list, withTx, tw, iw)
             U == UnderlineWrite(list, withTx, tw, iw)
             D == {DataWrite(key, rows, tw, iw) : key \in ToSet(order)}
  <1>1. n \in Nat
    OBVIOUS
  <1>2. /\ T.row = n /\ H.row = n + (IF withTx THEN 1 ELSE 0) /\ U.row = H.row + 1
        /\ \A key \in ToSet(order) : DataWrite(key, rows, tw, iw).row = rows[key].row
    BY DEF TxWrite, HeaderWrite, UnderlineWrite, DataWrite, At, TxRowOf, HeaderRowOf,
           UnderlineRowOf
  <1>3. UnderlineRowOf(list, withTx) = U.row
    BY DEF UnderlineWrite, At
  <1>4. \A w \in D : w.row \in Nat /\ U.row < w.row
    BY <1>2, <1>3 DEF RowsFit
  <1>5. \A v, w \in D : v.row = w.row => v = w
    BY <1>2 DEF RowsFit
  <1>6. S = (IF withTx THEN {T} ELSE {}) \cup {H, U} \cup D
    BY DEF Redrawn, Fixed
  <1> HIDE DEF S, n, T, H, U, D
  <1>7. \A w \in S : (w = T /\ withTx) \/ w = H \/ w = U \/ w \in D
    BY <1>6
  <1>8. RowsApart(S)
    <2> SUFFICES ASSUME NEW v \in S, NEW w \in S, v.row = w.row PROVE v = w
      BY DEF RowsApart
    <2>1. CASE withTx
      BY <1>1, <1>2, <1>4, <1>5, <1>7, <2>1
    <2>2. CASE ~withTx
      BY <1>1, <1>2, <1>4, <1>5, <1>7, <2>2
    <2> QED BY <2>1, <2>2
  <1>9. \A w \in S : w.row \in Nat /\ n <= w.row
    BY <1>1, <1>2, <1>4, <1>7
  <1> QED BY <1>8, <1>9 DEF S, n

\* A redraw shows the table and leaves the status lines alone.
LEMMA RedrawShows ==
  ASSUME NEW con, Good(con), NEW pre \in Seq(Write),
         NEW list \in Seq(STRING), NEW withTx \in BOOLEAN, NEW tx \in Cell,
         NEW tw \in Nat, NEW iw \in Nat, NEW rows, NEW order \in Seq(Keys),
         RowsFit(list, withTx, rows, order),
         \A w \in ToSet(pre) : w.row \in Nat /\ Len(list) <= w.row
  PROVE  LET new == AfterWrites(con, pre \o Redraw(list, withTx, tx, tw, iw, rows, order))
         IN  /\ Good(new) /\ new.growable = con.growable
             /\ con.growable =>
                  /\ new.scrolled = con.scrolled
                  /\ Len(con.lines) <= Len(new.lines)
                  /\ \A i \in 1..Len(con.lines) :
                       i <= Len(list) => new.lines[i] = con.lines[i]
                  /\ \A w \in Redrawn(list, withTx, tx, tw, iw, rows, order) : Shows(new, w)
  <1> DEFINE ws == Redraw(list, withTx, tx, tw, iw, rows, order)
             S == Redrawn(list, withTx, tx, tw, iw, rows, order)
             new == AfterWrites(con, pre \o ws)
  <1>1. ws \in Seq(Write) /\ ToSet(ws) = S
    <2>1. \A key \in ToSet(order) : rows[key].row \in Nat /\ rows[key].value \in Cell
      BY DEF RowsFit
    <2> QED BY <2>1, RedrawIs
  <1>2. RowsApart(S) /\ \A w \in S : w.row \in Nat /\ Len(list) <= w.row
    BY RedrawnRows
  <1> HIDE DEF ws, S
  <1>3. /\ Good(new) /\ new.growable = con.growable
        /\ con.growable =>
             /\ new.scrolled = con.scrolled
             /\ Len(con.lines) <= Len(new.lines)
             /\ \A i \in 1..Len(con.lines) :
                  (\A w \in ToSet(pre) \cup ToSet(ws) : w.row # i - 1)
                    => new.lines[i] = con.lines[i]
             /\ \A w \in ToSet(ws) : Shows(new, w)
    BY <1>1, <1>2, LastWritesShow
  <1> HIDE DEF new
  <1>4. ASSUME con.growable, NEW i \in 1..Len(con.lines), i <= Len(list)
        PROVE  new.lines[i] = con.lines[i]
    <2>1. Len(list) \in Nat
      OBVIOUS
    <2>2. \A w \in ToSet(pre) \cup ToSet(ws) : w.row # i - 1
      BY <1>1, <1>2, <1>4, <2>1
    <2> QED BY <1>3, <1>4, <2>2
  <1> QED BY <1>1, <1>3, <1>4 DEF new, ws, S

-----------------------------------------------------------------------------
(* The invariant.                                                          *)

\* What the screen should show: a status line, and the rest of the table.
StatusWrite(t) == At(StatusRow(t), StatusLine(t, statusText[t], topicWidth))
Told == {t \in DOMAIN statusText : statusText[t] # Empty}
Drawn == Redrawn(topics, hasTxLine, txText, topicWidth, idWidth, rowsByKey, rowOrder)

\* The type of what Begin is given.
Lists ==
  /\ active \in BOOLEAN /\ hasTxLine \in BOOLEAN
  /\ topics \in TopicLists \cup {<<>>}

\* Every topic of the list fits its column, which therefore never grows.
Columns ==
  /\ topicWidth \in Nat /\ idWidth \in Nat
  /\ \A t \in ToSet(topics) : WidthOf[t] <= topicWidth

\* The texts the table was given.
Said ==
  /\ txText \in Texts \cup {Empty}
  /\ DOMAIN statusText = ToSet(topics)
  /\ \A t \in DOMAIN statusText : statusText[t] \in Texts \cup {Empty}

\* The sources heard of, in the order of their rows.
Sources ==
  /\ DOMAIN rowsByKey \subseteq Keys
  /\ rowOrder \in Seq(Keys) /\ ToSet(rowOrder) = DOMAIN rowsByKey

\* The screen, with what is expected of it as the writes that show it.
Screen ==
  /\ Good(console)
  /\ console.growable =>
       /\ ~console.scrolled
       /\ active => /\ \A w \in Drawn : Shows(console, w)
                    /\ \A t \in Told : Shows(console, StatusWrite(t))

\* All of it but the screen.
Table == IInv /\ Lists /\ Columns /\ Said /\ Sources

\* The screen shows the table.
VInv == Table /\ Screen

\* What the operations use of a table.
Facts ==
  /\ topics \in Seq(STRING) /\ Len(topics) \in Nat
  /\ ToSet(topics) \in SUBSET Topics
  /\ hasTxLine \in BOOLEAN /\ txText \in Cell
  /\ topicWidth \in Nat /\ idWidth \in Nat /\ rowOrder \in Seq(Keys)
  /\ RowsFit(topics, hasTxLine, rowsByKey, rowOrder)
  /\ ToSet(rowOrder) = DOMAIN rowsByKey
  /\ DOMAIN statusText = ToSet(topics)
  /\ \A t \in DOMAIN statusText : statusText[t] \in Cell

\* They hold of every table.
LEMMA TableFacts == Table => Facts
  <1> SUFFICES ASSUME Table PROVE Facts
    OBVIOUS
  <1>1. topics \in Seq(STRING) /\ Len(topics) \in Nat /\ ToSet(topics) \in SUBSET Topics
    <2>1. CASE topics = <<>>
      BY <2>1 DEF ToSet
    <2>2. CASE topics \in TopicLists
      BY <2>2, TopicNames
    <2> QED BY <2>1, <2>2 DEF Table, Lists
  <1>2. Texts \cup {Empty} \in SUBSET Cell
    BY DEF Cell
  <1>3. RowsFit(topics, hasTxLine, rowsByKey, rowOrder)
    <2>1. \A key \in DOMAIN rowsByKey : rowsByKey[key].row \in Nat /\ rowsByKey[key].value \in Cell
      BY <1>2 DEF Table, IInv, Rows, Row
    <2> QED BY <2>1 DEF Table, IInv, RowsDistinct, Sources, RowsFit
  <1> QED BY <1>1, <1>2, <1>3 DEF Table, Lists, Columns, Said, Sources, Facts

\* And of the next one.
LEMMA NextTableFacts == Table' => Facts'
  BY TableFacts, PTL

\* A topic's status row is above what Redraw writes, and its own.
LEMMA StatusRows ==
  ASSUME Facts, NEW t \in ToSet(topics)
  PROVE  /\ StatusRow(t) \in Nat /\ StatusRow(t) < Len(topics)
         /\ \A u \in ToSet(topics) : StatusRow(u) = StatusRow(t) => u = t
  BY StatusRowIs DEF Facts

\* VInv is what the properties say, and more.
LEMMA PropertiesFromVInv == VInv => TypeOK /\ ScreenShowsTable
  <1> SUFFICES ASSUME VInv PROVE TypeOK /\ ScreenShowsTable
    OBVIOUS
  <1>1. TypeOK
    BY DEF VInv, Table, Lists, Columns, Said, Sources, IInv, Rows, TypeOK
  <1>2. Expected = Drawn \cup {StatusWrite(t) : t \in Told}
    <2>1. ToSet(rowOrder) = DOMAIN rowsByKey
      BY DEF VInv, Table, Sources
    <2> QED BY <2>1 DEF Expected, Drawn, Redrawn, Fixed, Told, StatusWrite, TxWrite, HeaderWrite,
                        UnderlineWrite, DataWrite
  <1>3. ScreenShowsTable
    BY <1>2 DEF VInv, Screen, ScreenShowsTable, Shows
  <1> QED BY <1>1, <1>3

\* A console that was just cleared.
LEMMA ClearedConsole ==
  ASSUME NEW height \in Nat \ {0}, NEW growable \in BOOLEAN
  PROVE  LET con == Cleared(height, growable)
         IN  /\ Good(con) /\ con.growable = growable /\ con.scrolled = FALSE
             /\ Len(con.lines) = height
  <1> DEFINE lines == BlankLines(height)
  <1>1. lines \in Seq(Lines) /\ Len(lines) = height
    BY BlankLinesType
  <1> HIDE DEF lines
  <1>2. Cleared(height, growable) = [lines |-> lines, cursor |-> 0,
                                     growable |-> growable, scrolled |-> FALSE]
    BY Zenon DEF Cleared, lines
  <1> QED BY <1>1, <1>2 DEF Good, Console

\* Before Begin nothing need be shown.
LEMMA InitVInv == Init => VInv
  <1> SUFFICES ASSUME Init PROVE VInv
    OBVIOUS
  <1>1. IInv
    BY InitRows
  <1>2. /\ active = FALSE /\ topics = <<>> /\ hasTxLine = FALSE /\ txText = Empty
        /\ DOMAIN statusText = {} /\ topicWidth = 5 /\ idWidth = 2
        /\ rowsByKey = NoRows /\ rowOrder = <<>>
    BY DEF Init
  <1>3. ToSet(<<>>) = {} /\ DOMAIN NoRows = {} /\ <<>> \in Seq(Keys)
    BY DEF ToSet, NoRows
  <1>4. Table
    BY <1>1, <1>2, <1>3 DEF Table, Lists, Columns, Said, Sources
  <1>5. PICK height \in Heights, growable \in Growable : console = Cleared(height, growable)
    BY DEF Init
  <1>6. height \in Nat \ {0} /\ growable \in BOOLEAN
    BY HeightsAssumption
  <1>7. Screen
    BY <1>2, <1>5, <1>6, ClearedConsole DEF Screen
  <1> QED BY <1>4, <1>7 DEF VInv

-----------------------------------------------------------------------------
(* The operations.                                                         *)

\* Begin draws the fixed part on a console it has cleared.
LEMMA BeginVInv ==
  ASSUME VInv, NEW list \in TopicLists, NEW withTx \in BOOLEAN, Begin(list, withTx)
  PROVE  VInv'
  <1>1. IInv'
    BY BeginRows DEF VInv, Table
  <1>2. /\ active' = TRUE /\ topics' = list /\ hasTxLine' = withTx /\ txText' = Empty
        /\ statusText' = [topic \in ToSet(list) |-> Empty]
        /\ topicWidth' = Wider(5, ToSet(list)) /\ idWidth' = 2
        /\ rowsByKey' = NoRows /\ rowOrder' = <<>>
        /\ console' = AfterWrites(Cleared(Len(console.lines), console.growable),
                        Redraw(list, withTx, Empty, topicWidth', 2, NoRows, <<>>))
    BY DEF Begin
  <1>3. ToSet(<<>>) = {} /\ DOMAIN NoRows = {} /\ <<>> \in Seq(Keys)
    BY DEF ToSet, NoRows
  <1>4. Table'
    BY <1>1, <1>2, <1>3, WiderList DEF Table, Lists, Columns, Said, Sources
  <1>5. Facts'
    BY <1>4, NextTableFacts
  <1> DEFINE clear == Cleared(Len(console.lines), console.growable)
  <1>6. /\ Len(console.lines) \in Nat \ {0} /\ console.growable \in BOOLEAN
    BY ConsoleFields DEF VInv, Screen
  <1>7. Good(clear) /\ clear.growable = console.growable /\ clear.scrolled = FALSE
    BY <1>6, ClearedConsole
  <1> HIDE DEF clear
  <1> DEFINE pre == <<>>
             redraw == Redraw(topics', hasTxLine', txText', topicWidth', idWidth',
                              rowsByKey', rowOrder')
             new == AfterWrites(clear, pre \o redraw)
  <1>8. pre \in Seq(Write) /\ ToSet(pre) = {}
    BY DEF ToSet
  <1>9. redraw \in Seq(Write)
    BY <1>5, RedrawIs DEF Facts, RowsFit
  <1> HIDE DEF redraw
  <1>10. pre \o redraw = redraw
    BY <1>9
  <1>11. console' = new
    BY <1>2, <1>10 DEF clear, redraw
  <1>12. /\ Good(new) /\ new.growable = clear.growable
         /\ clear.growable =>
              /\ new.scrolled = clear.scrolled
              /\ \A w \in Drawn' : Shows(new, w)
    <2> HIDE DEF pre
    <2> QED BY <1>5, <1>7, <1>8, RedrawShows DEF Facts, Drawn, redraw
  <1>13. Told' = {}
    BY <1>2 DEF Told
  <1>14. Screen'
    BY <1>2, <1>7, <1>11, <1>12, <1>13 DEF Screen, Shows
  <1> QED BY <1>4, <1>14 DEF VInv

\* What the next table shows when it is redrawn.
LEMMA RedrawNext ==
  ASSUME Facts', NEW con, Good(con), NEW pre \in Seq(Write),
         \A w \in ToSet(pre) : w.row \in Nat /\ Len(topics') <= w.row
  PROVE  LET new == AfterWrites(con, pre \o Redraw(topics', hasTxLine', txText', topicWidth',
                                                   idWidth', rowsByKey', rowOrder'))
         IN  /\ Good(new) /\ new.growable = con.growable
             /\ con.growable =>
                  /\ new.scrolled = con.scrolled
                  /\ Len(con.lines) <= Len(new.lines)
                  /\ \A i \in 1..Len(con.lines) :
                       i <= Len(topics') => new.lines[i] = con.lines[i]
                  /\ \A w \in Drawn' : Shows(new, w)
  <1> DEFINE list == topics'
             withTx == hasTxLine'
             tx == txText'
             tw == topicWidth'
             iw == idWidth'
             rows == rowsByKey'
             order == rowOrder'
             new == AfterWrites(con, pre \o Redraw(list, withTx, tx, tw, iw, rows, order))
             S == Redrawn(list, withTx, tx, tw, iw, rows, order)
  <1>1. /\ list \in Seq(STRING) /\ withTx \in BOOLEAN /\ tx \in Cell
        /\ tw \in Nat /\ iw \in Nat /\ order \in Seq(Keys)
        /\ RowsFit(list, withTx, rows, order)
    BY DEF Facts
  <1>2. Drawn' = S
    BY DEF Drawn
  <1>3. \A w \in ToSet(pre) : w.row \in Nat /\ Len(list) <= w.row
    OBVIOUS
  <1> HIDE DEF list, withTx, tx, tw, iw, rows, order
  <1>4. /\ Good(new) /\ new.growable = con.growable
        /\ con.growable =>
             /\ new.scrolled = con.scrolled
             /\ Len(con.lines) <= Len(new.lines)
             /\ \A i \in 1..Len(con.lines) :
                  i <= Len(list) => new.lines[i] = con.lines[i]
             /\ \A w \in S : Shows(new, w)
    BY <1>1, <1>3, RedrawShows
  <1> HIDE DEF S, new
  <1> QED
    BY <1>2, <1>4 DEF new, list, withTx, tx, tw, iw, rows, order

\* An update that redraws the table, on a console that may have been raised and
\* with rows that are cleared first.
LEMMA RedrawVInv ==
  ASSUME VInv, Table', active, active' = active, topics' = topics,
         hasTxLine' = hasTxLine, statusText' = statusText, topicWidth' = topicWidth,
         NEW con, Good(con), con.growable = console.growable,
         con.scrolled = console.scrolled,
         Len(console.lines) <= Len(con.lines),
         \A i \in 1..Len(console.lines) : con.lines[i] = console.lines[i],
         NEW pre \in Seq(Write),
         \A w \in ToSet(pre) : w.row \in Nat /\ Len(topics) <= w.row,
         console' = AfterWrites(con,
                      pre \o Redraw(topics, hasTxLine, txText', topicWidth', idWidth',
                                    rowsByKey', rowOrder'))
  PROVE  VInv'
  <1>1. Facts /\ Facts'
    BY TableFacts, NextTableFacts DEF VInv
  <1>2. /\ Good(console') /\ console'.growable = con.growable
        /\ con.growable =>
             /\ console'.scrolled = con.scrolled
             /\ Len(con.lines) <= Len(console'.lines)
             /\ \A i \in 1..Len(con.lines) :
                  i <= Len(topics) => console'.lines[i] = con.lines[i]
             /\ \A w \in Drawn' : Shows(console', w)
    <2> DEFINE redraw == Redraw(topics', hasTxLine', txText', topicWidth', idWidth',
                                rowsByKey', rowOrder')
               new == AfterWrites(con, pre \o redraw)
    <2>1. console' = new
      OBVIOUS
    <2>2. /\ Good(new) /\ new.growable = con.growable
          /\ con.growable =>
               /\ new.scrolled = con.scrolled
               /\ Len(con.lines) <= Len(new.lines)
               /\ \A i \in 1..Len(con.lines) :
                    i <= Len(topics') => new.lines[i] = con.lines[i]
               /\ \A w \in Drawn' : Shows(new, w)
      <3>1. \A w \in ToSet(pre) : w.row \in Nat /\ Len(topics') <= w.row
        OBVIOUS
      <3> HIDE DEF redraw
      <3> QED BY <1>1, <3>1, RedrawNext DEF redraw
    <2> HIDE DEF new
    <2> QED BY <2>1, <2>2
  <1>3. Told' = Told
    BY DEF Told
  <1>4. ASSUME con.growable, NEW t \in Told
        PROVE  Shows(console', StatusWrite(t)')
    <2>1. t \in ToSet(topics)
      BY <1>1 DEF Facts, Told
    <2> DEFINE w == StatusWrite(t)
    <2>2. StatusWrite(t)' = w
      BY DEF StatusWrite, StatusRow
    <2>3. w.row \in Nat /\ w.row < Len(topics) /\ Len(topics) \in Nat
      BY <1>1, <2>1, StatusRows DEF StatusWrite, At, Facts
    <2>4. w.row < Len(console.lines) /\ console.lines[w.row + 1] = w.line
      BY <1>4 DEF VInv, Screen, Shows
    <2> HIDE DEF w
    <2>5. /\ Len(console.lines) \in Nat /\ Len(con.lines) \in Nat /\ Len(console'.lines) \in Nat
      BY <1>2, ConsoleFields DEF VInv, Screen
    <2>6. /\ w.row + 1 \in 1..Len(console.lines) /\ w.row + 1 \in 1..Len(con.lines)
          /\ w.row + 1 <= Len(topics) /\ w.row < Len(console'.lines)
      BY <1>2, <1>4, <2>3, <2>4, <2>5
    <2>7. console'.lines[w.row + 1] = w.line
      BY <1>2, <1>4, <2>4, <2>6
    <2> QED BY <2>2, <2>6, <2>7 DEF Shows
  <1>5. Screen'
    BY <1>2, <1>3, <1>4 DEF VInv, Screen, Shows
  <1> QED BY <1>5 DEF VInv

\* One line on its row, beside which the table stays as it was.
LEMMA LineVInv ==
  ASSUME VInv, Table', active, active' = active, topics' = topics, topicWidth' = topicWidth,
         NEW write \in Write,
         console' = WriteLineAtRow(console, write),
         \A w \in Drawn' : w = write \/ (w \in Drawn /\ w.row # write.row),
         \A t \in Told' : \/ StatusWrite(t)' = write
                          \/ /\ t \in Told /\ StatusWrite(t)' = StatusWrite(t)
                             /\ StatusRow(t) # write.row
  PROVE  VInv'
  <1>1. Facts /\ Facts'
    BY TableFacts, NextTableFacts DEF VInv
  <1>2. /\ Good(console') /\ console'.growable = console.growable
        /\ console.growable =>
             /\ console'.scrolled = console.scrolled
             /\ Len(console.lines) <= Len(console'.lines)
             /\ write.row < Len(console'.lines)
             /\ console'.lines[write.row + 1] = write.line
             /\ \A i \in 1..Len(console.lines) :
                  i # write.row + 1 => console'.lines[i] = console.lines[i]
    BY WriteLands DEF VInv, Screen
  <1>3. /\ Len(console.lines) \in Nat /\ Len(console'.lines) \in Nat
        /\ console.growable \in BOOLEAN
    BY <1>2, ConsoleFields DEF VInv, Screen
  <1>4. write.row \in Nat
    BY DEF Write
  <1>5. ASSUME console.growable, NEW w, Shows(console, w), w.row \in Nat, w.row # write.row
        PROVE  Shows(console', w)
    <2>1. w.row + 1 \in 1..Len(console.lines) /\ w.row + 1 # write.row + 1
          /\ w.row < Len(console.lines) /\ console.lines[w.row + 1] = w.line
      BY <1>3, <1>4, <1>5 DEF Shows
    <2>2. console'.lines[w.row + 1] = w.line
      BY <1>2, <1>5, <2>1
    <2>3. w.row < Len(console'.lines)
      BY <1>2, <1>3, <1>5, <2>1
    <2> QED BY <2>2, <2>3 DEF Shows
  <1>6. Shows(console', write) \/ ~console.growable
    BY <1>2 DEF Shows
  <1>7. ASSUME console.growable, NEW w \in Drawn' PROVE Shows(console', w)
    <2>1. \A v \in Drawn : v.row \in Nat
      BY <1>1, RedrawnRows DEF Facts, Drawn
    <2>2. CASE w = write
      BY <1>6, <1>7, <2>2
    <2>3. CASE w \in Drawn /\ w.row # write.row
      <3>1. Shows(console, w)
        BY <1>7, <2>3 DEF VInv, Screen
      <3> QED BY <1>5, <1>7, <2>1, <2>3, <3>1
    <2> QED BY <2>2, <2>3
  <1>8. ASSUME console.growable, NEW t \in Told' PROVE Shows(console', StatusWrite(t)')
    <2>1. CASE StatusWrite(t)' = write
      BY <1>6, <1>8, <2>1
    <2>2. CASE /\ t \in Told /\ StatusWrite(t)' = StatusWrite(t)
               /\ StatusRow(t) # write.row
      <3> DEFINE w == StatusWrite(t)
      <3>1. t \in ToSet(topics)
        BY <1>1, <2>2 DEF Facts, Told
      <3>2. w.row = StatusRow(t) /\ w.row \in Nat
        BY <1>1, <3>1, StatusRows DEF StatusWrite, At
      <3>3. Shows(console, w)
        BY <1>8, <2>2 DEF VInv, Screen
      <3>4. StatusWrite(t)' = w
        BY <2>2
      <3> HIDE DEF w
      <3>5. Shows(console', w)
        BY <1>5, <1>8, <2>2, <3>2, <3>3
      <3> QED BY <3>4, <3>5
    <2> QED BY <2>1, <2>2
  <1>9. Screen'
    BY <1>2, <1>7, <1>8 DEF VInv, Screen
  <1> QED BY <1>9 DEF VInv

\* The fixed part ends with the underline.
LEMMA FixedRows ==
  ASSUME NEW list \in Seq(STRING), NEW withTx \in BOOLEAN, NEW tx, NEW tw, NEW iw,
         NEW w \in Fixed(list, withTx, tx, tw, iw)
  PROVE  w.row \in Nat /\ w.row <= UnderlineRowOf(list, withTx)
  BY Lengths DEF Fixed, TxWrite, HeaderWrite, UnderlineWrite, At, TxRowOf, HeaderRowOf,
                 UnderlineRowOf

\* One write is WriteLineAtRow.
LEMMA OneWrite ==
  ASSUME NEW con, NEW write
  PROVE  AfterWrites(con, <<write>>) = WriteLineAtRow(con, write)
  <1> DEFINE writes == <<write>>
  <1>1. Len(writes) = 1 /\ Len(writes) \in Nat /\ writes[1] = write
    OBVIOUS
  <1> HIDE DEF writes
  <1>2. Len(writes) \in Nat
    BY <1>1
  <1>4. \E f : /\ DOMAIN f = 0..Len(writes) /\ f[0] = con
               /\ \A i \in 1..Len(writes) : f[i] = WriteLineAtRow(f[i - 1], writes[i])
               /\ AfterWrites(con, writes) = f[Len(writes)]
    BY <1>2, AfterWritesIs
  <1>5. PICK f : /\ DOMAIN f = 0..Len(writes) /\ f[0] = con
                 /\ \A i \in 1..Len(writes) : f[i] = WriteLineAtRow(f[i - 1], writes[i])
                 /\ AfterWrites(con, writes) = f[Len(writes)]
    BY <1>4, Zenon
  <1>3. f[1] = WriteLineAtRow(f[0], writes[1])
    <2>1. 1 \in 1..Len(writes) /\ 1 - 1 = 0
      BY <1>1
    <2> QED BY <1>5, <2>1
  <1> QED BY <1>1, <1>3, <1>5 DEF writes

\* The columns and the rows that an update leaves.
LEMMA UpdateColumns ==
  ASSUME VInv, NEW topic \in ToSet(topics), NEW id \in Ids,
         topicWidth' = Wider(topicWidth, {topic}), idWidth' = Wider(idWidth, {id}),
         topics' = topics
  PROVE  /\ topicWidth' = topicWidth /\ Columns'
         /\ <<topic, id>> \in Keys
  <1>1. topic \in Topics /\ topicWidth \in Nat /\ idWidth \in Nat
        /\ WidthOf[topic] <= topicWidth
    BY TableFacts DEF VInv, Table, Columns, Facts
  <1>2. topicWidth' = topicWidth /\ idWidth' \in Nat
    BY <1>1, WiderOne
  <1> QED BY <1>1, <1>2 DEF VInv, Table, Columns, Keys

\* Update of an old row: its line, or all of them when a column grew.
LEMMA UpdateOldRowVInv ==
  ASSUME VInv, NEW topic \in ToSet(topics), NEW id \in Ids, NEW value \in Texts,
         UpdateOldRow(topic, id, value)
  PROVE  VInv'
  <1> DEFINE key == <<topic, id>>
             write == At(rowsByKey[key].row, DataLine(key, value, topicWidth', idWidth'))
             redraw == Redraw(topics, hasTxLine, txText, topicWidth', idWidth',
                              rowsByKey', rowOrder)
  <1>1. /\ active /\ key \in DOMAIN rowsByKey
        /\ topicWidth' = Wider(topicWidth, {topic}) /\ idWidth' = Wider(idWidth, {id})
        /\ rowsByKey' = [rowsByKey EXCEPT ![key].value = value]
        /\ active' = active /\ topics' = topics /\ hasTxLine' = hasTxLine
        /\ txText' = txText /\ statusText' = statusText /\ rowOrder' = rowOrder
    BY DEF UpdateOldRow, layout
  <1>2. console' = AfterWrites(console, IF WidthChanged(topicWidth', idWidth')
                                        THEN redraw ELSE <<write>>)
    BY Zenon DEF UpdateOldRow
  <1>3. IInv'
    BY OldRow DEF VInv, Table
  <1>4. topicWidth' = topicWidth /\ Columns' /\ key \in Keys
    BY <1>1, UpdateColumns
  <1>5. /\ DOMAIN rowsByKey' = DOMAIN rowsByKey
        /\ \A k \in DOMAIN rowsByKey : k # key => rowsByKey'[k] = rowsByKey[k]
        /\ rowsByKey'[key].row = rowsByKey[key].row /\ rowsByKey'[key].value = value
    <2>1. rowsByKey[key] \in Row
      BY <1>1 DEF VInv, Table, IInv, Rows
    <2> HIDE DEF key
    <2> QED BY <1>1, <2>1 DEF Row
  <1>6. Table'
    BY <1>1, <1>3, <1>4, <1>5 DEF VInv, Table, Lists, Said, Sources
  <1>7. Facts /\ Facts'
    BY <1>6, TableFacts, NextTableFacts DEF VInv
  <1> HIDE DEF key, write, redraw
  <1>8. CASE WidthChanged(topicWidth', idWidth')
    <2>1. redraw \in Seq(Write)
      <3>1. redraw = Redraw(topics', hasTxLine', txText', topicWidth', idWidth',
                            rowsByKey', rowOrder')
        BY <1>1 DEF redraw
      <3> QED BY <1>7, <3>1, RedrawIs DEF Facts, RowsFit
    <2> DEFINE pre == <<>>
    <2>2. pre \in Seq(Write) /\ ToSet(pre) = {} /\ pre \o redraw = redraw
      BY <2>1 DEF ToSet
    <2>3. console' = AfterWrites(console, pre \o redraw)
      BY <1>2, <1>8, <2>2, Zenon
    <2> HIDE DEF pre
    <2>4. console' = AfterWrites(console, pre \o Redraw(topics, hasTxLine, txText', topicWidth',
                                                       idWidth', rowsByKey', rowOrder'))
      BY <1>1, <2>3 DEF redraw
    <2>5. Good(console) /\ Len(console.lines) \in Nat
      BY ConsoleFields DEF VInv, Screen
    <2> DEFINE con == console
    <2>6. /\ Good(con) /\ con.growable = console.growable /\ con.scrolled = console.scrolled
          /\ Len(console.lines) <= Len(con.lines)
          /\ \A i \in 1..Len(console.lines) : con.lines[i] = console.lines[i]
      BY <2>5
    <2>7. console' = AfterWrites(con, pre \o Redraw(topics, hasTxLine, txText', topicWidth',
                                                   idWidth', rowsByKey', rowOrder'))
      BY <2>4
    <2>8. \A w \in ToSet(pre) : w.row \in Nat /\ Len(topics) <= w.row
      BY <2>2
    <2> HIDE DEF con
    <2> QED BY <1>1, <1>4, <1>6, <2>2, <2>6, <2>7, <2>8, RedrawVInv
  <1>9. CASE ~WidthChanged(topicWidth', idWidth')
    <2>1. idWidth' = idWidth
      BY <1>9 DEF WidthChanged
    <2>2. console' = WriteLineAtRow(console, write)
      BY <1>2, <1>9, OneWrite, Zenon
    <2>3. write = DataWrite(key, rowsByKey', topicWidth', idWidth')
          /\ write.row = rowsByKey[key].row
      BY <1>5 DEF write, DataWrite, At
    <2>4. write \in Write
      <3>1. value \in Cell
        BY DEF Cell
      <3>2. topicWidth' \in Nat /\ idWidth' \in Nat
        BY <1>7 DEF Facts
      <3>3. DataLine(key, value, topicWidth', idWidth') \in Lines
        BY <1>4, <3>1, <3>2, LineTypes
      <3>4. rowsByKey[key].row \in Nat
        BY <1>1, <1>7 DEF Facts, RowsFit, key
      <3> QED BY <3>3, <3>4 DEF write, Write, At
    <2>5. ASSUME NEW w \in Drawn' PROVE w = write \/ (w \in Drawn /\ w.row # write.row)
      <3>1. CASE w \in Fixed(topics, hasTxLine, txText, topicWidth, idWidth)
        <4>1. w.row \in Nat /\ w.row <= UnderlineRowOf(topics, hasTxLine)
          BY <1>7, <3>1, FixedRows DEF Facts
        <4>2. /\ UnderlineRowOf(topics, hasTxLine) < rowsByKey[key].row
              /\ rowsByKey[key].row \in Nat /\ UnderlineRowOf(topics, hasTxLine) \in Nat
          BY <1>1, <1>7 DEF Facts, RowsFit, key, UnderlineRowOf, HeaderRowOf
        <4> QED BY <2>3, <3>1, <4>1, <4>2 DEF Drawn, Redrawn
      <3>2. ASSUME NEW k \in DOMAIN rowsByKey, k # key,
                   w = DataWrite(k, rowsByKey', topicWidth, idWidth)
            PROVE  w \in Drawn /\ w.row # write.row
        <4>1. w = DataWrite(k, rowsByKey, topicWidth, idWidth) /\ w.row = rowsByKey[k].row
          BY <1>5, <3>2 DEF DataWrite, At
        <4>2. rowsByKey[k].row # rowsByKey[key].row
          BY <1>1, <1>7, <3>2 DEF Facts, RowsFit, key
        <4> QED BY <1>7, <2>3, <4>1, <4>2 DEF Drawn, Redrawn, Facts
      <3>3. \/ w \in Fixed(topics, hasTxLine, txText, topicWidth, idWidth)
            \/ \E k \in DOMAIN rowsByKey : w = DataWrite(k, rowsByKey', topicWidth, idWidth)
        BY <1>1, <1>4, <1>7, <2>1 DEF Drawn, Redrawn, Facts
      <3> QED BY <1>4, <2>1, <2>3, <3>1, <3>2, <3>3
    <2>6. \A t \in Told' : /\ t \in Told /\ StatusWrite(t)' = StatusWrite(t)
                           /\ StatusRow(t) # write.row
      <3> SUFFICES ASSUME NEW t \in Told'
                   PROVE  /\ t \in Told /\ StatusWrite(t)' = StatusWrite(t)
                          /\ StatusRow(t) # write.row
        OBVIOUS
      <3>1. t \in Told /\ StatusWrite(t)' = StatusWrite(t)
        BY <1>1, <1>4 DEF Told, StatusWrite, StatusRow
      <3>2. t \in ToSet(topics)
        BY <1>7, <3>1 DEF Told, Facts
      <3>3. StatusRow(t) \in Nat /\ StatusRow(t) < Len(topics)
        BY <1>7, <3>2, StatusRows
      <3>4. /\ UnderlineRowOf(topics, hasTxLine) < rowsByKey[key].row
            /\ rowsByKey[key].row \in Nat /\ Len(topics) <= UnderlineRowOf(topics, hasTxLine)
        BY <1>1, <1>7 DEF Facts, RowsFit, key, UnderlineRowOf, HeaderRowOf
      <3>5. Len(topics) \in Nat /\ UnderlineRowOf(topics, hasTxLine) \in Nat
        BY <1>7 DEF Facts, UnderlineRowOf, HeaderRowOf
      <3> QED BY <2>3, <3>1, <3>3, <3>4, <3>5
    <2> QED BY <1>1, <1>4, <1>6, <2>2, <2>4, <2>5, <2>6, LineVInv
  <1> QED BY <1>8, <1>9

\* Update of a new row: room for it, and a redraw.
LEMMA UpdateNewRowVInv ==
  ASSUME VInv, NEW topic \in ToSet(topics), NEW id \in Ids, NEW value \in Texts,
         UpdateNewRow(topic, id, value)
  PROVE  VInv'
  <1> DEFINE key == <<topic, id>>
             con == Ensured(console, nextRow' + 2)
             pre == <<At(nextRow, Blank)>>
             redraw == Redraw(topics, hasTxLine, txText, topicWidth', idWidth',
                              rowsByKey', rowOrder')
  <1>1. /\ active /\ key \notin DOMAIN rowsByKey
        /\ topicWidth' = Wider(topicWidth, {topic}) /\ idWidth' = Wider(idWidth, {id})
        /\ rowsByKey' = [k \in DOMAIN rowsByKey \cup {key} |->
                           IF k = key THEN [value |-> value, row |-> nextRow]
                           ELSE rowsByKey[k]]
        /\ rowOrder' = Append(rowOrder, key) /\ nextRow' = nextRow + 1
        /\ active' = active /\ topics' = topics /\ hasTxLine' = hasTxLine
        /\ txText' = txText /\ statusText' = statusText
    BY DEF UpdateNewRow, layout, OrderWith, NewRow
  <1>2. console' = AfterWrites(con, pre \o redraw)
    BY Zenon DEF UpdateNewRow, NewRow
  <1>3. IInv'
    BY FreshRow DEF VInv, Table
  <1>4. topicWidth' = topicWidth /\ Columns' /\ key \in Keys
    BY <1>1, UpdateColumns
  <1> HIDE DEF key
  <1>5. Sources'
    <2>1. rowOrder \in Seq(Keys) /\ ToSet(rowOrder) = DOMAIN rowsByKey
          /\ DOMAIN rowsByKey \in SUBSET Keys
      BY DEF VInv, Table, Sources
    <2>2. rowOrder' \in Seq(Keys)
      BY <1>1, <1>4, <2>1
    <2>3. ToSet(rowOrder') = ToSet(rowOrder) \cup {key}
      <3> DEFINE one == <<key>>
      <3>1. one \in Seq(Keys) /\ ToSet(one) = {key}
        BY <1>4 DEF ToSet
      <3>2. Append(rowOrder, key) = rowOrder \o one
        BY <1>4, <2>1
      <3> HIDE DEF one
      <3>3. ToSet(rowOrder \o one) = ToSet(rowOrder) \cup ToSet(one)
        BY <2>1, <3>1, Concatenation
      <3> QED BY <1>1, <3>1, <3>2, <3>3
    <2>4. DOMAIN rowsByKey' = DOMAIN rowsByKey \cup {key}
      BY <1>1
    <2> QED BY <1>4, <2>1, <2>2, <2>3, <2>4 DEF Sources
  <1>6. Table'
    BY <1>1, <1>3, <1>4, <1>5 DEF VInv, Table, Lists, Said
  <1>7. Facts
    BY TableFacts DEF VInv
  <1>8. nextRow \in Nat /\ Len(topics) <= nextRow /\ nextRow' + 2 \in Nat
    BY <1>1, <1>7 DEF VInv, Table, IInv, Rows, Below, Facts, UnderlineRowOf, HeaderRowOf
  <1>9. /\ Good(con) /\ con.growable = console.growable /\ con.scrolled = console.scrolled
        /\ Len(console.lines) <= Len(con.lines)
        /\ \A i \in 1..Len(console.lines) : con.lines[i] = console.lines[i]
    <2>1. Good(console)
      BY DEF VInv, Screen
    <2> QED BY <1>8, <2>1, EnsuredRoom
  <1> HIDE DEF con
  <1>10. /\ pre \in Seq(Write)
         /\ \A w \in ToSet(pre) : w.row \in Nat /\ Len(topics) <= w.row
    <2> DEFINE w == At(nextRow, Blank)
    <2>1. w \in Write /\ w.row = nextRow
      <3> HIDE DEF Blank
      <3> QED BY <1>8, BlankType DEF At, Write
    <2> HIDE DEF w
    <2>2. <<w>> \in Seq(Write) /\ ToSet(<<w>>) = {w}
      BY <2>1 DEF ToSet
    <2> QED BY <1>8, <2>1, <2>2 DEF w
  <1> HIDE DEF pre
  <1>11. console' = AfterWrites(con, pre \o Redraw(topics, hasTxLine, txText', topicWidth',
                                                  idWidth', rowsByKey', rowOrder'))
    <2>1. txText' = txText
      BY <1>1
    <2> QED BY <1>2, <2>1, Zenon
  <1> QED BY <1>1, <1>4, <1>6, <1>9, <1>10, <1>11, RedrawVInv

\* SetTxStateLine: the line above the header.
LEMMA SetTxStateLineVInv ==
  ASSUME VInv, NEW text \in Texts, SetTxStateLine(text)
  PROVE  VInv'
  <1> DEFINE write == At(TxRowOf(topics), TxLine(text, topicWidth))
  <1>1. /\ active /\ hasTxLine /\ txText' = text
        /\ console' = WriteLineAtRow(console, write)
        /\ active' = active /\ topics' = topics /\ hasTxLine' = hasTxLine
        /\ statusText' = statusText /\ topicWidth' = topicWidth /\ idWidth' = idWidth
        /\ rowsByKey' = rowsByKey /\ rowOrder' = rowOrder /\ nextRow' = nextRow
    BY DEF SetTxStateLine, layout
  <1>2. Facts
    BY TableFacts DEF VInv
  <1>3. Table'
    <2>1. IInv'
      BY <1>1, SameRows DEF VInv, Table
    <2> QED BY <1>1, <2>1 DEF VInv, Table, Lists, Columns, Said, Sources
  <1>4. write \in Write /\ write.row = Len(topics)
    <2>1. text \in Cell
      BY DEF Cell
    <2>2. TxLine(text, topicWidth) \in Lines
      BY <1>2, <2>1, LineTypes DEF Facts
    <2> QED BY <1>2, <2>2 DEF Write, At, TxRowOf, Facts
  <1>5. ASSUME NEW w \in Drawn' PROVE w = write \/ (w \in Drawn /\ w.row # write.row)
    <2> DEFINE others ==
          {HeaderWrite(topics, hasTxLine, topicWidth, idWidth),
           UnderlineWrite(topics, hasTxLine, topicWidth, idWidth)}
          \cup {DataWrite(k, rowsByKey, topicWidth, idWidth) : k \in ToSet(rowOrder)}
    <2>1. w = write \/ w \in others
      BY <1>1 DEF Drawn, Redrawn, Fixed, TxWrite
    <2>2. others \subseteq Drawn
      BY DEF Drawn, Redrawn, Fixed
    <2>3. ASSUME w \in others PROVE w.row # Len(topics)
      <3>1. Len(topics) \in Nat /\ HeaderRowOf(topics, hasTxLine) = Len(topics) + 1
            /\ UnderlineRowOf(topics, hasTxLine) = Len(topics) + 2
        BY <1>1, <1>2 DEF Facts, HeaderRowOf, UnderlineRowOf
      <3>2. \A k \in ToSet(rowOrder) :
              rowsByKey[k].row \in Nat /\ Len(topics) + 2 < rowsByKey[k].row
        BY <1>2, <3>1 DEF Facts, RowsFit
      <3>3. \/ w.row = HeaderRowOf(topics, hasTxLine)
            \/ w.row = UnderlineRowOf(topics, hasTxLine)
            \/ \E k \in ToSet(rowOrder) : w.row = rowsByKey[k].row
        BY <2>3 DEF HeaderWrite, UnderlineWrite, DataWrite, At
      <3> QED BY <3>1, <3>2, <3>3
    <2> HIDE DEF others, write
    <2> QED BY <1>4, <2>1, <2>2, <2>3
  <1>6. ASSUME NEW t \in Told'
        PROVE  /\ t \in Told /\ StatusWrite(t)' = StatusWrite(t)
               /\ StatusRow(t) # write.row
    <2>1. t \in Told /\ StatusWrite(t)' = StatusWrite(t)
      BY <1>1 DEF Told, StatusWrite, StatusRow
    <2>2. t \in ToSet(topics)
      BY <1>2, <2>1 DEF Told, Facts
    <2>3. StatusRow(t) \in Nat /\ StatusRow(t) < Len(topics)
      BY <1>2, <2>2, StatusRows
    <2>4. Len(topics) \in Nat
      BY <1>2 DEF Facts
    <2> QED BY <1>4, <2>1, <2>3, <2>4
  <1> HIDE DEF write
  <1> QED BY <1>1, <1>3, <1>4, <1>5, <1>6, LineVInv

\* SetTopicStatus: the topic's line, which no other topic has.
LEMMA SetTopicStatusVInv ==
  ASSUME VInv, NEW topic \in ToSet(topics), NEW status \in Texts,
         SetTopicStatus(topic, status)
  PROVE  VInv'
  <1> DEFINE write == At(StatusRow(topic), StatusLine(topic, status, topicWidth))
  <1>1. /\ active /\ statusText' = [statusText EXCEPT ![topic] = status]
        /\ console' = WriteLineAtRow(console, write)
        /\ active' = active /\ topics' = topics /\ hasTxLine' = hasTxLine
        /\ txText' = txText /\ topicWidth' = topicWidth /\ idWidth' = idWidth
        /\ rowsByKey' = rowsByKey /\ rowOrder' = rowOrder /\ nextRow' = nextRow
    BY DEF SetTopicStatus, layout
  <1>2. Facts
    BY TableFacts DEF VInv
  <1>3. DOMAIN statusText' = DOMAIN statusText /\ topic \in DOMAIN statusText
        /\ statusText'[topic] = status
        /\ \A t \in DOMAIN statusText : t # topic => statusText'[t] = statusText[t]
    BY <1>1, <1>2 DEF Facts
  <1>4. Table'
    <2>1. IInv'
      BY <1>1, SameRows DEF VInv, Table
    <2>2. \A t \in DOMAIN statusText' : statusText'[t] \in Texts \cup {Empty}
      BY <1>3 DEF VInv, Table, Said
    <2> QED BY <1>1, <1>3, <2>1, <2>2 DEF VInv, Table, Lists, Columns, Said, Sources
  <1>5. /\ StatusRow(topic) \in Nat /\ StatusRow(topic) < Len(topics)
        /\ \A u \in ToSet(topics) : StatusRow(u) = StatusRow(topic) => u = topic
    BY <1>2, StatusRows
  <1>6. write \in Write /\ write.row = StatusRow(topic)
    <2>1. status \in Cell /\ topic \in Topics /\ topicWidth \in Nat
      BY <1>2 DEF Cell, Facts
    <2>2. StatusLine(topic, status, topicWidth) \in Lines
      BY <2>1, LineTypes
    <2> QED BY <1>5, <2>2 DEF Write, At
  <1>7. ASSUME NEW w \in Drawn' PROVE w \in Drawn /\ w.row # write.row
    <2>1. w \in Drawn
      BY <1>1 DEF Drawn
    <2>2. w.row \in Nat /\ Len(topics) <= w.row
      BY <1>2, <2>1, RedrawnRows DEF Facts, Drawn
    <2>3. Len(topics) \in Nat
      BY <1>2 DEF Facts
    <2> HIDE DEF write
    <2> QED BY <1>5, <1>6, <2>1, <2>2, <2>3
  <1>8. ASSUME NEW t \in Told'
        PROVE  \/ StatusWrite(t)' = write
               \/ /\ t \in Told /\ StatusWrite(t)' = StatusWrite(t)
                  /\ StatusRow(t) # write.row
    <2>1. t \in ToSet(topics) /\ statusText'[t] # Empty
      BY <1>2, <1>3 DEF Told, Facts
    <2>2. StatusWrite(t)' = At(StatusRow(t), StatusLine(t, statusText'[t], topicWidth))
      BY <1>1 DEF StatusWrite, StatusRow
    <2>3. CASE t = topic
      BY <1>3, <2>2, <2>3
    <2>4. CASE t # topic
      <3>1. statusText'[t] = statusText[t] /\ t \in DOMAIN statusText
        BY <1>2, <1>3, <2>1, <2>4 DEF Facts
      <3>2. t \in Told /\ StatusWrite(t)' = StatusWrite(t)
        BY <2>1, <2>2, <3>1 DEF Told, StatusWrite
      <3>3. StatusRow(t) # StatusRow(topic)
        BY <1>5, <2>1, <2>4
      <3> QED BY <1>6, <3>2, <3>3
    <2> QED BY <2>3, <2>4
  <1> HIDE DEF write
  <1> QED BY <1>1, <1>4, <1>6, <1>7, <1>8, LineVInv

\* End moves the cursor at most.
LEMMA EndVInv == ASSUME VInv, End PROVE VInv'
  <1>1. /\ active' = FALSE /\ UNCHANGED <<topics, hasTxLine, txText, statusText, topicWidth,
                                         idWidth, rowsByKey, rowOrder, nextRow>>
        /\ console' = IF nextRow + 1 < Len(console.lines)
                      THEN [console EXCEPT !.cursor = nextRow + 1] ELSE console
    BY DEF End, layout
  <1>2. Table'
    <2>1. IInv'
      BY <1>1, SameRows DEF VInv, Table
    <2> QED BY <1>1, <2>1 DEF VInv, Table, Lists, Columns, Said, Sources
  <1>3. Good(console) /\ (console.growable => ~console.scrolled)
    BY DEF VInv, Screen
  <1>4. Good(console') /\ (console'.growable => ~console'.scrolled)
    <2>1. CASE ~(nextRow + 1 < Len(console.lines))
      BY <1>1, <1>3, <2>1
    <2>2. CASE nextRow + 1 < Len(console.lines)
      <3>1. nextRow + 1 \in Nat
        BY DEF VInv, Table, IInv, Rows
      <3> DEFINE below == nextRow + 1
      <3>2. console' = [console EXCEPT !.cursor = below]
        BY <1>1, <2>2
      <3> HIDE DEF below
      <3>3. console'.lines = console.lines /\ console'.cursor = below
            /\ console'.growable = console.growable /\ console'.scrolled = console.scrolled
            /\ console' \in Console
        BY <1>3, <3>1, <3>2 DEF Good, Console, below
      <3> QED BY <1>3, <2>2, <3>3 DEF Good, below
    <2> QED BY <2>1, <2>2
  <1> QED BY <1>1, <1>2, <1>4 DEF VInv, Screen

\* Nothing else changes the screen.
LEMMA SameVInv == ASSUME VInv, UNCHANGED vars PROVE VInv'
  <1>1. IInv'
    BY SameRows DEF VInv, Table, vars, layout
  <1>2. Table'
    BY <1>1 DEF VInv, Table, Lists, Columns, Said, Sources, vars, layout
  <1>3. Screen'
    BY DEF VInv, Screen, Drawn, Told, StatusWrite, StatusRow, Shows, vars, layout
  <1> QED BY <1>2, <1>3 DEF VInv

\* Every step keeps the screen right.
LEMMA StepVInv == VInv /\ [Next]_vars => VInv'
  <1> SUFFICES ASSUME VInv, [Next]_vars PROVE VInv'
    OBVIOUS
  <1>1. CASE \E list \in TopicLists, withTx \in BOOLEAN : Begin(list, withTx)
    BY <1>1, BeginVInv
  <1>2. CASE \E topic \in ToSet(topics), id \in Ids, value \in Texts :
               UpdateOldRow(topic, id, value) \/ UpdateNewRow(topic, id, value)
    BY <1>2, UpdateOldRowVInv, UpdateNewRowVInv
  <1>3. CASE \E topic \in ToSet(topics), status \in Texts : SetTopicStatus(topic, status)
    BY <1>3, SetTopicStatusVInv
  <1>4. CASE \E text \in Texts : SetTxStateLine(text)
    BY <1>4, SetTxStateLineVInv
  <1>5. CASE End
    BY <1>5, EndVInv
  <1>6. CASE UNCHANGED vars
    BY <1>6, SameVInv
  <1> QED
    BY <1>1, <1>2, <1>3, <1>4, <1>5, <1>6 DEF Next

\* The dashboard's variables keep their types, through Begin, Update,
\* SetTopicStatus, SetTxStateLine and End in any order.
THEOREM TableTypeCorrect == Spec => []TypeOK
  <1>1. VInv => TypeOK
    BY PropertiesFromVInv
  <1> QED
    BY InitVInv, StepVInv, <1>1, PTL DEF Spec

\* On a console that can grow, the screen always shows the table: every source's
\* latest value on its row, the fixed part and the statuses, none of it stale,
\* overwritten or scrolled away, although most operations write one line.
THEOREM ScreenStaysRight == Spec => []ScreenShowsTable
  <1>1. VInv => ScreenShowsTable
    BY PropertiesFromVInv
  <1> QED
    BY InitVInv, StepVInv, <1>1, PTL DEF Spec
=============================================================================
