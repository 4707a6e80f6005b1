--------------------------- MODULE ScreenProofs ----------------------------
(* Every terminal shows what its own process wrote and drew and its user      *)
(* typed: for screens of any size, any number of terminals, any characters,   *)
(* any prompt and any starting place of the cursors.                          *)
EXTENDS Screen, SequenceTheorems, WellFoundedInduction, TLAPS

-----------------------------------------------------------------------------
(* Folds *)

\* A set of numbers has a least one: what an induction over a sequence rests on.
LEMMA Least ==
    ASSUME NEW T \in SUBSET Nat, T # {}
    PROVE  \E m \in T : \A k \in T : m <= k
<1>1. PICK m \in T : \A k \in T : ~(<<k, m>> \in OpToRel(<, Nat))
  BY WFMin, NatLessThanWellFounded, Zenon
<1>2. \A k \in T : ~(k < m)
  BY <1>1 DEF OpToRel
<1> QED
  BY <1>2

LEMMA Induction ==
    ASSUME NEW n \in Nat, NEW T, 0 \in T, \A m \in 1 .. n : m - 1 \in T => m \in T
    PROVE  n \in T
<1> DEFINE bad == {m \in 0 .. n : m \notin T}
<1>1. ASSUME bad # {} PROVE FALSE
  <2>1. bad \in SUBSET Nat
    OBVIOUS
  <2>2. PICK m \in bad : \A k \in bad : m <= k
    BY <1>1, <2>1, Least, Zenon
  <2>3. m # 0 /\ m \in 0 .. n /\ m \notin T
    OBVIOUS
  <2>4. m \in 1 .. n /\ m - 1 \in 0 .. n /\ ~(m <= m - 1)
    BY <2>3
  <2>5. m - 1 \in T
    BY <2>2, <2>4
  <2> QED
    BY <2>3, <2>4, <2>5
<1> QED
  BY <1>1

LEMMA MaxOfPrefix ==
    ASSUME NEW n \in Nat \ {0}
    PROVE  /\ Max(1 .. n) = n /\ (1 .. n) \ {Max(1 .. n)} = 1 .. n - 1
           /\ \A s \in SUBSET (1 .. n) : n \in s => Max(s) = n
           /\ \A s \in SUBSET (1 .. n) : s # {} => Max(s) \in s
<1>1. ASSUME NEW s \in SUBSET (1 .. n), n \in s
      PROVE  Max(s) = n
  <2>1. \A y \in s : n >= y
    OBVIOUS
  <2>2. \A x \in s : (\A y \in s : x >= y) => x = n
    BY <1>1
  <2> QED
    BY <1>1, <2>1, <2>2, Zenon DEF Max
<1>2. \A s \in SUBSET (1 .. n) : s # {} => Max(s) \in s
  <2> SUFFICES ASSUME NEW s \in SUBSET (1 .. n), s # {}
               PROVE  \E x \in s : \A y \in s : x >= y
    BY DEF Max
  <2> DEFINE gap == {n - y : y \in s}
  <2>0. \A y \in s : n - y \in Nat
    OBVIOUS
  <2>1. gap \in SUBSET Nat /\ gap # {}
    BY <2>0, Zenon
  <2>2. PICK m \in gap : \A k \in gap : m <= k
    BY <2>1, Least
  <2>3. PICK x \in s : m = n - x
    BY <2>2
  <2>4. \A y \in s : n - x <= n - y
    BY <2>2, <2>3
  <2>5. \A y \in s : x >= y
    BY <2>4
  <2> QED
    BY <2>5
<1> QED
  BY <1>1, <1>2

\* What FoldLeft's definition asks of the function that folds the first of a
\* sequence's elements: from start, by[k] for the element at k.
Folds(f, by, start, n) ==
    f = [s \in SUBSET (1 .. n) |-> IF s = {} THEN start ELSE by[Max(s)][f[s \ {Max(s)}]]]

IsFold(f, by, start, n, S) ==
    n \in Nat /\ f \in [SUBSET (1 .. n) -> S] /\ Folds(f, by, start, n)

\* What is left of that for the beginnings of the sequence.
Climbs(h, by, start, n, S) ==
    /\ h[{}] = start
    /\ \A m \in 1 .. n : h[1 .. m - 1] \in S => h[1 .. m] = by[m][h[1 .. m - 1]]

\* Every step by[k] in S corresponds to the step onto[k] of what S is mapped to.
Commute(map, by, onto, n, S) == \A k \in 1 .. n : \A s \in S : map[by[k][s]] = onto[k][map[s]]

\* There is such a function.
LEMMA FoldExists ==
    ASSUME NEW n \in Nat, NEW S, NEW start \in S, NEW by \in [1 .. n -> [S -> S]]
    PROVE  \E f \in [SUBSET (1 .. n) -> S] : Folds(f, by, start, n)
<1> DEFINE Has(m) == \E f \in [SUBSET (1 .. m) -> S] : Folds(f, by, start, m)
           T == {m \in 0 .. n : Has(m)}
<1> HIDE DEF Has
<1>1. 0 \in T
  <2> SUFFICES Has(0)
    OBVIOUS
  <2> DEFINE f == [s \in SUBSET (1 .. 0) |-> start]
  <2>1. \A s \in SUBSET (1 .. 0) : s = {}
    OBVIOUS
  <2>2. f \in [SUBSET (1 .. 0) -> S] /\ Folds(f, by, start, 0)
    BY <2>1 DEF Folds
  <2> HIDE DEF f
  <2> QED
    BY <2>2 DEF Has
<1>2. ASSUME NEW m \in 1 .. n, Has(m - 1)
      PROVE  Has(m)
  <2>1. m \in Nat \ {0}
    OBVIOUS
  <2>2. PICK g \in [SUBSET (1 .. m - 1) -> S] : Folds(g, by, start, m - 1)
    BY <1>2 DEF Has
  <2> DEFINE f == [s \in SUBSET (1 .. m) |-> IF m \in s THEN by[m][g[s \ {m}]] ELSE g[s]]
  <2>3. f \in [SUBSET (1 .. m) -> S]
    <3> SUFFICES ASSUME NEW s \in SUBSET (1 .. m)
                 PROVE  (IF m \in s THEN by[m][g[s \ {m}]] ELSE g[s]) \in S
      OBVIOUS
    <3>1. s \ {m} \in SUBSET (1 .. m - 1) /\ (m \notin s => s \in SUBSET (1 .. m - 1))
      BY <2>1
    <3>2. g[s \ {m}] \in S /\ by[m] \in [S -> S]
      BY <2>1, <3>1
    <3> QED
      BY <3>1, <3>2
  <2>4. \A s \in SUBSET (1 .. m) :
          f[s] = IF s = {} THEN start ELSE by[Max(s)][f[s \ {Max(s)}]]
    <3> SUFFICES ASSUME NEW s \in SUBSET (1 .. m)
                 PROVE  f[s] = IF s = {} THEN start ELSE by[Max(s)][f[s \ {Max(s)}]]
      OBVIOUS
    <3>1. CASE m \in s
      <4>1. Max(s) = m
        BY <2>1, <3>1, MaxOfPrefix
      <4>2. s \ {m} \in SUBSET (1 .. m) /\ m \notin s \ {m}
        OBVIOUS
      <4>3. f[s \ {m}] = g[s \ {m}]
        BY <4>2
      <4> QED
        BY <3>1, <4>1, <4>3
    <3>2. CASE m \notin s
      <4>1. s \in SUBSET (1 .. m - 1)
        BY <2>1, <3>2
      <4>2. g[s] = IF s = {} THEN start ELSE by[Max(s)][g[s \ {Max(s)}]]
        BY <2>2, <4>1, Zenon DEF Folds
      <4>3. s \ {Max(s)} \in SUBSET (1 .. m) /\ m \notin s \ {Max(s)}
        BY <3>2
      <4>4. f[s \ {Max(s)}] = g[s \ {Max(s)}] /\ f[s] = g[s]
        BY <3>2, <4>3
      <4> QED
        BY <4>2, <4>4
    <3> QED
      BY <3>1, <3>2
  <2>5. Folds(f, by, start, m)
    <3> HIDE DEF f
    <3> QED
      BY <2>3, <2>4 DEF Folds
  <2>6. Has(m)
    <3> HIDE DEF f
    <3> QED
      BY <2>3, <2>5 DEF Has
  <2> QED
    BY <2>6
<1> QED
  <2>1. \A m \in 1 .. n : m - 1 \in T => m \in T
    BY <1>2
  <2>2. n \in T
    <3> HIDE DEF T
    <3> QED
      BY <1>1, <2>1, Induction
  <2> QED
    BY <2>2 DEF Has

\* It is the only one, as far as the sequence's beginnings go.
LEMMA FoldUnique ==
    ASSUME NEW n, NEW S, NEW start, NEW by, NEW f, IsFold(f, by, start, n, S),
           NEW h, Climbs(h, by, start, n, S)
    PROVE  h[1 .. n] = f[1 .. n]
<1>0. n \in Nat /\ f \in [SUBSET (1 .. n) -> S] /\ Folds(f, by, start, n)
  BY Zenon DEF IsFold
<1> DEFINE U == {m \in 0 .. n : h[1 .. m] = f[1 .. m]}
<1>1. \A s \in SUBSET (1 .. n) :
        f[s] = IF s = {} THEN start ELSE by[Max(s)][f[s \ {Max(s)}]]
  BY <1>0, Zenon DEF Folds
<1>2. 0 \in U
  <2>1. 1 .. 0 = {} /\ {} \in SUBSET (1 .. n)
    OBVIOUS
  <2>2. h[1 .. 0] = f[1 .. 0]
    BY <1>1, <2>1, Zenon DEF Climbs
  <2> QED
    BY <1>0, <2>2
<1>3. ASSUME NEW m \in 1 .. n, m - 1 \in U
      PROVE  m \in U
  <2>1. h[1 .. m - 1] = f[1 .. m - 1] /\ m \in Nat \ {0}
    BY <1>0, <1>3
  <2>2. 1 .. m # {} /\ 1 .. m \in SUBSET (1 .. n) /\ 1 .. m - 1 \in SUBSET (1 .. n)
    <3>1. m \in 1 .. m /\ \A k \in 1 .. m : k \in 1 .. n
      BY <1>0, <2>1
    <3>2. \A k \in 1 .. m - 1 : k \in 1 .. n
      BY <1>0, <2>1
    <3> QED
      BY <3>1, <3>2, Zenon
  <2>3. Max(1 .. m) = m /\ (1 .. m) \ {Max(1 .. m)} = 1 .. m - 1
    BY <2>1, MaxOfPrefix, Zenon
  <2>4. f[1 .. m] = by[m][f[1 .. m - 1]]
    <3>1. f[1 .. m] = by[Max(1 .. m)][f[(1 .. m) \ {Max(1 .. m)}]]
      BY <1>1, <2>2, Zenon
    <3> QED
      BY <2>3, <3>1, Zenon
  <2>5. f[1 .. m - 1] \in S
    BY <1>0, <2>2, Zenon
  <2>6. h[1 .. m] = f[1 .. m]
    BY <2>1, <2>4, <2>5, Zenon DEF Climbs
  <2> QED
    BY <1>0, <2>6
<1>4. n \in U
  <2>1. \A m \in 1 .. n : m - 1 \in U => m \in U
    BY <1>3
  <2> HIDE DEF U
  <2> QED
    BY <1>0, <1>2, <2>1, Induction
<1> QED
  BY <1>0, <1>4

\* What corresponds to a fold step by step is a fold.
LEMMA FoldMaps ==
    ASSUME NEW n, NEW S, NEW T, NEW start, NEW by, NEW map \in [S -> T], NEW onto,
           NEW f, IsFold(f, by, start, n, S), Commute(map, by, onto, n, S),
           NEW g, g = [s \in SUBSET (1 .. n) |-> map[f[s]]]
    PROVE  IsFold(g, onto, map[start], n, T)
<1>0. n \in Nat /\ f \in [SUBSET (1 .. n) -> S] /\ Folds(f, by, start, n)
  BY Zenon DEF IsFold
<1>1. ASSUME NEW s \in SUBSET (1 .. n)
      PROVE  g[s] = IF s = {} THEN map[start] ELSE onto[Max(s)][g[s \ {Max(s)}]]
  <2>1. f[s] = IF s = {} THEN start ELSE by[Max(s)][f[s \ {Max(s)}]]
    BY <1>0, Zenon DEF Folds
  <2>2. CASE s = {}
    BY <2>1, <2>2
  <2>3. CASE s # {}
    <3>1. s \ {Max(s)} \in SUBSET (1 .. n) /\ n \in Nat \ {0}
      <4>1. PICK k \in s : TRUE
        BY <2>3
      <4>2. k \in 1 .. n
        OBVIOUS
      <4>3. n \in Nat \ {0}
        BY <1>0, <4>2
      <4>4. s \ {Max(s)} \in SUBSET (1 .. n)
        BY Zenon
      <4> QED
        BY <4>3, <4>4
    <3>2. Max(s) \in 1 .. n
      BY <1>0, <2>3, <3>1, MaxOfPrefix
    <3>3. f[s \ {Max(s)}] \in S
      BY <1>0, <3>1, Zenon
    <3>4. map[by[Max(s)][f[s \ {Max(s)}]]] = onto[Max(s)][map[f[s \ {Max(s)}]]]
      BY <3>2, <3>3, Zenon DEF Commute
    <3>5. g[s] = map[f[s]] /\ g[s \ {Max(s)}] = map[f[s \ {Max(s)}]]
      BY <3>1
    <3> QED
      BY <2>1, <2>3, <3>4, <3>5, Zenon
  <2> QED
    BY <2>2, <2>3
<1>2. g = [s \in SUBSET (1 .. n) |-> g[s]]
  OBVIOUS
<1>3. g \in [SUBSET (1 .. n) -> T]
  BY <1>0
<1>4. Folds(g, onto, map[start], n)
  BY <1>1, <1>2 DEF Folds
<1> QED
  BY <1>0, <1>3, <1>4, Zenon DEF IsFold

-----------------------------------------------------------------------------
(* Rows and columns *)

LEMMA DivMod ==
    \A k \in Nat : /\ k \div NUM_COLS \in Nat /\ k % NUM_COLS \in 0 .. NUM_COLS - 1
                   /\ k = NUM_COLS * (k \div NUM_COLS) + (k % NUM_COLS)
BY TtyAssumption

LEMMA NextRow ==
    ASSUME NEW a \in Int, NEW b \in Int, a < b
    PROVE  NUM_COLS * a + NUM_COLS <= NUM_COLS * b
BY TtyAssumption

LEMMA DivModUnique ==
    ASSUME NEW k \in Nat, NEW y \in Nat, NEW x \in 0 .. NUM_COLS - 1, k = NUM_COLS * y + x
    PROVE  k \div NUM_COLS = y /\ k % NUM_COLS = x
<1> DEFINE r == k \div NUM_COLS
           c == k % NUM_COLS
<1>1. r \in Nat /\ c \in 0 .. NUM_COLS - 1 /\ k = NUM_COLS * r + c
  BY DivMod
<1> HIDE DEF r, c
<1>2. NUM_COLS * r \in Int /\ NUM_COLS * y \in Int /\ NUM_COLS \in Nat
  BY <1>1, TtyAssumption
<1>3. ~(r < y)
  BY <1>1, <1>2, NextRow
<1>4. ~(y < r)
  BY <1>1, <1>2, NextRow
<1>5. r = y
  BY <1>1, <1>3, <1>4
<1> QED
  BY <1>1, <1>2, <1>5 DEF r, c

\* The row and the column of the k-th cell, and the cell at a row and a column.
RowOf(k) == (k - 1) \div NUM_COLS
ColOf(k) == (k - 1) % NUM_COLS
Cell(y, x) == NUM_COLS * y + x + 1

LEMMA SizeFacts ==
    /\ NUM_COLS \in Nat \ {0} /\ NUM_ROWS \in Nat \ {0} /\ Size \in Nat \ {0}
    /\ Size = NUM_COLS * (NUM_ROWS - 1) + NUM_COLS
    /\ NUM_COLS <= Size
    /\ 0 \in Col /\ 0 \in Row /\ NUM_COLS - 1 \in Col /\ NUM_ROWS - 1 \in Row
BY TtyAssumption DEF Size, Col, Row

LEMMA CellFacts ==
    ASSUME NEW y \in Row, NEW x \in Col
    PROVE  /\ Cell(y, x) \in 1 .. Size
           /\ RowOf(Cell(y, x)) = y /\ ColOf(Cell(y, x)) = x
           /\ NUM_COLS * y \in Nat
<1>1. y \in Nat /\ x \in 0 .. NUM_COLS - 1 /\ NUM_COLS * y \in Nat
  BY TtyAssumption DEF Row, Col
<1>2. NUM_COLS * y + NUM_COLS <= NUM_COLS * NUM_ROWS
  BY <1>1, NextRow, TtyAssumption DEF Row
<1>3. Cell(y, x) \in 1 .. Size
  BY <1>1, <1>2, TtyAssumption DEF Cell, Size
<1>4. Cell(y, x) - 1 = NUM_COLS * y + x /\ Cell(y, x) - 1 \in Nat
  BY <1>1 DEF Cell
<1> QED
  BY <1>1, <1>3, <1>4, DivModUnique DEF RowOf, ColOf

LEMMA RowColFacts ==
    ASSUME NEW k \in 1 .. Size
    PROVE  RowOf(k) \in Row /\ ColOf(k) \in Col /\ k = Cell(RowOf(k), ColOf(k))
<1> DEFINE r == RowOf(k)
           c == ColOf(k)
<1>1. r \in Nat /\ c \in 0 .. NUM_COLS - 1 /\ k - 1 = NUM_COLS * r + c
  BY DivMod DEF RowOf, ColOf
<1> HIDE DEF r, c
<1>2. NUM_COLS * r \in Nat
  BY <1>1, TtyAssumption
<1>3. ~(NUM_ROWS - 1 < r)
  BY <1>1, <1>2, NextRow, SizeFacts
<1>4. r \in Row /\ c \in Col
  BY <1>1, <1>3, TtyAssumption DEF Row, Col
<1>5. k = Cell(r, c)
  BY <1>1, <1>2 DEF Cell
<1> QED
  BY <1>4, <1>5 DEF r, c

\* One row on is a whole row of cells on; the last row is the last of the cells.
LEMMA RowBelow ==
    ASSUME NEW k \in 1 .. Size
    PROVE  /\ RowOf(k) = NUM_ROWS - 1 <=> k > Size - NUM_COLS
           /\ k <= Size - NUM_COLS =>
                k + NUM_COLS \in 1 .. Size /\ RowOf(k + NUM_COLS) = RowOf(k) + 1
                /\ ColOf(k + NUM_COLS) = ColOf(k)
<1> DEFINE r == RowOf(k)
           c == ColOf(k)
<1>1. r \in Row /\ c \in Col /\ k = NUM_COLS * r + c + 1 /\ NUM_COLS * r \in Nat
  BY RowColFacts, CellFacts DEF Cell
<1> HIDE DEF r, c
<1>2. r = NUM_ROWS - 1 => k > Size - NUM_COLS
  BY <1>1, SizeFacts DEF Col
<1>3. ASSUME r # NUM_ROWS - 1
      PROVE  k <= Size - NUM_COLS /\ r + 1 \in Row
  <2>1. NUM_COLS * r + NUM_COLS <= NUM_COLS * (NUM_ROWS - 1)
    BY <1>1, <1>3, NextRow, SizeFacts DEF Row
  <2> QED
    BY <1>1, <1>3, <2>1, SizeFacts DEF Col, Row
<1>4. ASSUME r # NUM_ROWS - 1
      PROVE  k + NUM_COLS = Cell(r + 1, c)
  <2>1. NUM_COLS * (r + 1) = NUM_COLS * r + NUM_COLS
    BY <1>1, SizeFacts DEF Row
  <2> QED
    BY <1>1, <2>1, SizeFacts DEF Cell, Col
<1>5. ASSUME r # NUM_ROWS - 1
      PROVE  k + NUM_COLS \in 1 .. Size /\ RowOf(k + NUM_COLS) = r + 1
             /\ ColOf(k + NUM_COLS) = c
  BY <1>1, <1>3, <1>4, <1>5, CellFacts
<1>6. (r = NUM_ROWS - 1) <=> (k > Size - NUM_COLS)
  BY <1>2, <1>3, SizeFacts
<1> QED
  BY <1>2, <1>5, <1>6, SizeFacts DEF r, c

-----------------------------------------------------------------------------
(* One page as a terminal *)

Glyph     == Chars \cup {Space}
PageState == [cell : Text, x : Col, y : Row]
TtyState  == [text : [1 .. Size -> Glyph], at : 0 .. Size - 1]

LEMMA TextCells ==
    ASSUME NEW f \in Text
    PROVE  /\ f \in [Row -> [Col -> Glyph]]
           /\ \A y \in Row, x \in Col : f[y][x] \in Glyph
BY DEF Text, Glyph

LEMMA AsTtyType ==
    ASSUME NEW s \in PageState
    PROVE  /\ AsTty(s) \in TtyState
           /\ AsTty(s).at + 1 = Cell(s.y, s.x)
           /\ \A k \in 1 .. Size : AsTty(s).text[k] = s.cell[RowOf(k)][ColOf(k)]
<1>1. s.cell \in Text /\ s.x \in Col /\ s.y \in Row
  BY DEF PageState
<1>2. \A k \in 1 .. Size : s.cell[RowOf(k)][ColOf(k)] \in Glyph
  BY <1>1, TextCells, RowColFacts
<1>3. AsTty(s).text = [k \in 1 .. Size |-> s.cell[RowOf(k)][ColOf(k)]]
      /\ AsTty(s).at = NUM_COLS * s.y + s.x
  BY DEF AsTty, RowOf, ColOf
<1>4. AsTty(s).at + 1 = Cell(s.y, s.x) /\ AsTty(s).at \in 0 .. Size - 1
  <2>1. Cell(s.y, s.x) \in 1 .. Size /\ NUM_COLS * s.y \in Nat
    BY <1>1, CellFacts
  <2> QED
    BY <1>1, <1>3, <2>1, SizeFacts, SMTT(30) DEF Cell, Col
<1>5. AsTty(s).text \in [1 .. Size -> Glyph]
  BY <1>2, <1>3
<1>6. AsTty(s) = [text |-> AsTty(s).text, at |-> AsTty(s).at]
  BY DEF AsTty
<1> QED
  BY <1>2, <1>3, <1>4, <1>5, <1>6 DEF TtyState

\* What makes a terminal the one that a page shows.
LEMMA SameTty ==
    ASSUME NEW s \in PageState, NEW t, t = [text |-> t.text, at |-> t.at],
           t.text \in [1 .. Size -> Glyph],
           t.at = NUM_COLS * s.y + s.x,
           \A k \in 1 .. Size : t.text[k] = s.cell[RowOf(k)][ColOf(k)]
    PROVE  AsTty(s) = t
<1>1. t.text = [k \in 1 .. Size |-> s.cell[RowOf(k)][ColOf(k)]]
  OBVIOUS
<1>2. AsTty(s) = [text |-> t.text, at |-> t.at]
  BY <1>1, Zenon DEF AsTty, RowOf, ColOf
<1> QED
  BY <1>2

LEMMA FillType ==
    ASSUME NEW s \in PageState, NEW c \in Glyph
    PROVE  /\ Fill(s, c) \in PageState
           /\ Fill(s, c).x = s.x /\ Fill(s, c).y = s.y
           /\ \A y \in Row, x \in Col :
                Fill(s, c).cell[y][x] = IF y = s.y /\ x = s.x THEN c ELSE s.cell[y][x]
<1>1. s.cell \in [Row -> [Col -> Glyph]] /\ s.x \in Col /\ s.y \in Row
  BY DEF PageState, Text, Glyph
<1>2. Fill(s, c) = [s EXCEPT !.cell = [s.cell EXCEPT ![s.y] = [s.cell[s.y] EXCEPT ![s.x] = c]]]
  BY DEF Fill, PageState
<1>3. [s.cell EXCEPT ![s.y] = [s.cell[s.y] EXCEPT ![s.x] = c]] \in [Row -> [Col -> Glyph]]
  BY <1>1
<1>4. /\ Fill(s, c).cell = [s.cell EXCEPT ![s.y] = [s.cell[s.y] EXCEPT ![s.x] = c]]
      /\ Fill(s, c).x = s.x /\ Fill(s, c).y = s.y
  BY <1>2 DEF PageState
<1>5. Fill(s, c) \in PageState
  BY <1>1, <1>2, <1>3 DEF PageState, Text, Glyph
<1>6. ASSUME NEW y \in Row, NEW x \in Col
      PROVE  Fill(s, c).cell[y][x] = IF y = s.y /\ x = s.x THEN c ELSE s.cell[y][x]
  BY <1>1, <1>4
<1> QED
  BY <1>4, <1>5, <1>6

\* Writing a character where the cursor is replaces it in the run of cells.
LEMMA FillShows ==
    ASSUME NEW s \in PageState, NEW c \in Glyph
    PROVE  AsTty(Fill(s, c)).text = ReplaceAt(AsTty(s).text, AsTty(s).at + 1, c)
<1> DEFINE p == AsTty(s).at + 1
<1>1. Fill(s, c) \in PageState /\ p = Cell(s.y, s.x) /\ s.y \in Row /\ s.x \in Col
  BY FillType, AsTtyType DEF PageState
<1>2. \A k \in 1 .. Size : k = p <=> RowOf(k) = s.y /\ ColOf(k) = s.x
  BY <1>1, CellFacts, RowColFacts
<1>3. ASSUME NEW k \in 1 .. Size
      PROVE  AsTty(Fill(s, c)).text[k] = IF k = p THEN c ELSE AsTty(s).text[k]
  <2>1. AsTty(Fill(s, c)).text[k] = Fill(s, c).cell[RowOf(k)][ColOf(k)]
        /\ AsTty(s).text[k] = s.cell[RowOf(k)][ColOf(k)]
        /\ RowOf(k) \in Row /\ ColOf(k) \in Col
    BY <1>1, AsTtyType, RowColFacts
  <2> QED
    BY <2>1, <1>2, FillType
<1>4. AsTty(Fill(s, c)).text \in [1 .. Size -> Glyph] /\ AsTty(s).text \in [1 .. Size -> Glyph]
  BY <1>1, AsTtyType DEF TtyState
<1>5. Len(AsTty(s).text) = Size /\ DOMAIN AsTty(s).text = 1 .. Size
  BY <1>4, SizeFacts
<1> HIDE DEF p
<1>6. ReplaceAt(AsTty(s).text, p, c)
        = [k \in 1 .. Size |-> IF k = p THEN c ELSE AsTty(s).text[k]]
  BY <1>5 DEF ReplaceAt
<1>7. AsTty(Fill(s, c)).text = [k \in 1 .. Size |-> IF k = p THEN c ELSE AsTty(s).text[k]]
  BY <1>3, <1>4
<1> QED
  BY <1>6, <1>7 DEF p

LEMMA TtyFields ==
    ASSUME NEW S, NEW T, NEW t \in [text : S, at : T]
    PROVE  t = [text |-> t.text, at |-> t.at]
OBVIOUS

LEMMA ScrollType ==
    ASSUME NEW s \in PageState
    PROVE  /\ scroll(s) \in PageState
           /\ \A y \in Row, x \in Col :
                scroll(s).cell[y][x] = IF y = NUM_ROWS - 1 THEN Space ELSE s.cell[y + 1][x]
<1> DEFINE f == [r \in Row |-> IF r = NUM_ROWS - 1 THEN Blank.cell[r] ELSE s.cell[r + 1]]
<1>1. s.cell \in [Row -> [Col -> Glyph]]
  BY DEF PageState, Text, Glyph
<1>2. \A r \in Row : Blank.cell[r] = [c \in Col |-> Space]
  BY DEF Blank
<1>3. \A r \in Row : r # NUM_ROWS - 1 => r + 1 \in Row
  BY TtyAssumption DEF Row
<1>4. f \in [Row -> [Col -> Glyph]]
  <2> SUFFICES ASSUME NEW r \in Row
               PROVE  (IF r = NUM_ROWS - 1 THEN Blank.cell[r] ELSE s.cell[r + 1]) \in [Col -> Glyph]
    OBVIOUS
  <2> QED
    BY <1>1, <1>2, <1>3 DEF Glyph
<1>5. scroll(s) = [s EXCEPT !.cell = f]
  BY DEF scroll
<1>6. \A y \in Row, x \in Col :
        f[y][x] = IF y = NUM_ROWS - 1 THEN Space ELSE s.cell[y + 1][x]
  BY <1>2
<1> HIDE DEF f
<1> QED
  BY <1>4, <1>5, <1>6 DEF PageState, Text, Glyph

\* What the screen shows after a scroll is what was there without its first row.
LEMMA ScrollShows ==
    ASSUME NEW s \in PageState
    PROVE  AsTty(scroll(s)).text = SubSeq(AsTty(s).text, NUM_COLS + 1, Size) \o Spaces(NUM_COLS)
<1> DEFINE a == AsTty(s).text
           b == AsTty(scroll(s)).text
<1>1. a \in [1 .. Size -> Glyph] /\ b \in [1 .. Size -> Glyph]
  BY AsTtyType, ScrollType DEF TtyState
<1>2. ASSUME NEW k \in 1 .. Size
      PROVE  b[k] = IF k <= Size - NUM_COLS THEN a[k + NUM_COLS] ELSE Space
  <2>1. b[k] = scroll(s).cell[RowOf(k)][ColOf(k)] /\ RowOf(k) \in Row /\ ColOf(k) \in Col
    BY AsTtyType, ScrollType, RowColFacts
  <2>2. b[k] = IF RowOf(k) = NUM_ROWS - 1 THEN Space ELSE s.cell[RowOf(k) + 1][ColOf(k)]
    BY <2>1, ScrollType
  <2>3. CASE k <= Size - NUM_COLS
    <3>1. k + NUM_COLS \in 1 .. Size /\ RowOf(k + NUM_COLS) = RowOf(k) + 1
          /\ ColOf(k + NUM_COLS) = ColOf(k) /\ RowOf(k) # NUM_ROWS - 1
      BY <2>3, RowBelow, SizeFacts
    <3>2. a[k + NUM_COLS] = s.cell[RowOf(k) + 1][ColOf(k)]
      BY <3>1, AsTtyType
    <3> QED
      BY <2>2, <2>3, <3>1, <3>2
  <2>4. CASE ~(k <= Size - NUM_COLS)
    <3>1. RowOf(k) = NUM_ROWS - 1
      BY <2>4, RowBelow, SizeFacts
    <3> QED
      BY <2>2, <2>4, <3>1
  <2> QED
    BY <2>3, <2>4
<1> DEFINE d == SubSeq(a, NUM_COLS + 1, Size)
           e == Spaces(NUM_COLS)
<1> HIDE DEF a, b
<1>3. a \in Seq(Glyph) /\ Len(a) = Size /\ b \in Seq(Glyph) /\ Len(b) = Size
  BY <1>1, SizeFacts
<1>4. d \in Seq(Glyph) /\ Len(d) = Size - NUM_COLS
      /\ \A k \in 1 .. Size - NUM_COLS : d[k] = a[k + NUM_COLS]
  BY <1>3, SizeFacts, SubSeqProperties
<1>5. e \in Seq(Glyph) /\ Len(e) = NUM_COLS /\ \A k \in 1 .. NUM_COLS : e[k] = Space
  BY SizeFacts DEF Spaces, Glyph
<1> HIDE DEF d, e
<1>6. d \o e \in Seq(Glyph) /\ Len(d \o e) = Size
      /\ \A k \in 1 .. Size : (d \o e)[k] = IF k <= Size - NUM_COLS THEN d[k]
                                            ELSE e[k - (Size - NUM_COLS)]
  <2>1. /\ d \o e \in Seq(Glyph) /\ Len(d \o e) = Len(d) + Len(e)
        /\ \A k \in 1 .. Len(d) + Len(e) :
             (d \o e)[k] = IF k <= Len(d) THEN d[k] ELSE e[k - Len(d)]
    BY <1>4, <1>5, ConcatProperties
  <2>2. Len(d) + Len(e) = Size
    BY <1>4, <1>5, SizeFacts
  <2> QED
    BY <2>1, <2>2, <1>4
<1>7. ASSUME NEW k \in 1 .. Size
      PROVE  b[k] = (d \o e)[k]
  <2>1. k <= Size - NUM_COLS => k \in 1 .. Size - NUM_COLS
    BY SizeFacts
  <2>2. ~(k <= Size - NUM_COLS) => k - (Size - NUM_COLS) \in 1 .. NUM_COLS
    BY SizeFacts
  <2>3. (d \o e)[k] = IF k <= Size - NUM_COLS THEN d[k] ELSE e[k - (Size - NUM_COLS)]
    BY <1>6
  <2>4. k <= Size - NUM_COLS => d[k] = a[k + NUM_COLS]
    BY <1>4, <2>1
  <2>5. ~(k <= Size - NUM_COLS) => e[k - (Size - NUM_COLS)] = Space
    BY <1>5, <2>2, Zenon
  <2>6. b[k] = IF k <= Size - NUM_COLS THEN a[k + NUM_COLS] ELSE Space
    BY <1>2
  <2> QED
    BY <2>3, <2>4, <2>5, <2>6, Zenon
<1>8. b = d \o e
  BY <1>3, <1>6, <1>7, SeqEqual
<1> QED
  BY <1>8 DEF b, d, e, a

\* The cursor at the beginning of the next line, which may have to be made.
LEMMA NextLineShows ==
    ASSUME NEW s \in PageState, NEW t \in [text : [1 .. Size -> Glyph], at : Nat],
           t.text = AsTty(s).text, t.at = NUM_COLS * (s.y + 1)
    PROVE  NextLine(s) \in PageState /\ AsTty(NextLine(s)) = MakeRoom(t)
<1>1. s.y \in Row /\ s.y \in Nat /\ s.x \in Col /\ 0 \in Col
  BY SizeFacts DEF PageState, Row
<1>2. CASE s.y < NUM_ROWS - 1
  <2> DEFINE n == [s EXCEPT !.y = s.y + 1, !.x = 0]
  <2>1. NextLine(s) = n
    BY <1>2, Zenon DEF NextLine
  <2>2. s.y + 1 \in Row
    BY <1>1, <1>2, SizeFacts DEF Row
  <2>3. n \in PageState /\ n.cell = s.cell /\ n.y = s.y + 1 /\ n.x = 0
    BY <1>1, <2>2 DEF PageState
  <2> HIDE DEF n
  <2>4. t.at < Size
    <3>1. NUM_COLS * (s.y + 1) + NUM_COLS <= NUM_COLS * NUM_ROWS
      BY <1>1, <1>2, NextRow, SizeFacts, SMTT(30)
    <3> QED
      BY <3>1, SizeFacts DEF Size
  <2>5. MakeRoom(t) = t
    BY <2>4 DEF MakeRoom
  <2>6. AsTty(n) = t
    <3>1. \A k \in 1 .. Size : t.text[k] = n.cell[RowOf(k)][ColOf(k)]
      BY <2>3, AsTtyType
    <3>2. t.at = NUM_COLS * n.y + n.x
      BY <2>3, <1>1, SizeFacts
    <3>3. t = [text |-> t.text, at |-> t.at]
      BY TtyFields
    <3> QED
      BY <2>3, <3>1, <3>2, <3>3, SameTty
  <2> QED
    BY <2>1, <2>3, <2>5, <2>6
<1>3. CASE ~(s.y < NUM_ROWS - 1)
  <2> DEFINE c == scroll(s)
             n == [c EXCEPT !.x = 0]
  <2>1. NextLine(s) = n
    BY <1>3, Zenon DEF NextLine
  <2>2. s.y = NUM_ROWS - 1
    BY <1>1, <1>3, SizeFacts DEF Row
  <2>3. c \in PageState
    BY ScrollType
  <2>4. c.y = s.y
    BY DEF scroll, PageState
  <2> HIDE DEF c
  <2>5. n \in PageState /\ n.cell = c.cell /\ n.y = s.y /\ n.x = 0
    BY <1>1, <2>3, <2>4 DEF PageState
  <2> HIDE DEF n
  <2> DEFINE u == [text |-> SubSeq(t.text, NUM_COLS + 1, Size) \o Spaces(NUM_COLS),
                   at   |-> Size - NUM_COLS]
  <2>6. t.at = Size /\ Size - NUM_COLS = NUM_COLS * s.y
    BY <2>2, SizeFacts DEF Size
  <2>7. MakeRoom(t) = u
    <3>1. ~(t.at < Size)
      BY <2>6, SizeFacts
    <3> QED
      BY <3>1, Zenon DEF MakeRoom
  <2>8. u.text = SubSeq(AsTty(s).text, NUM_COLS + 1, Size) \o Spaces(NUM_COLS)
    OBVIOUS
  <2>9. AsTty(n) = u
    <3>1. AsTty(n).text = AsTty(c).text
      BY <2>5 DEF AsTty
    <3>2. u.text = AsTty(n).text /\ u.at = NUM_COLS * n.y + n.x
      <4>1. u.text = AsTty(c).text
        BY <2>8, ScrollShows, Zenon DEF c
      <4>2. NUM_COLS * s.y + 0 = Size - NUM_COLS
        BY <2>6, SizeFacts
      <4> QED
        BY <3>1, <4>1, <4>2, <2>5
    <3>3. u = [text |-> u.text, at |-> u.at]
      OBVIOUS
    <3> HIDE DEF u
    <3>4. u.text \in [1 .. Size -> Glyph]
          /\ \A k \in 1 .. Size : u.text[k] = n.cell[RowOf(k)][ColOf(k)]
      BY <2>5, <3>2, AsTtyType DEF TtyState
    <3> QED
      BY <2>5, <3>2, <3>3, <3>4, SameTty
  <2> QED
    BY <2>1, <2>5, <2>7, <2>9
<1> QED
  BY <1>2, <1>3

LEMMA PutCharShows ==
    ASSUME NEW s \in PageState, NEW c \in Glyph
    PROVE  PutChar(s, c) \in PageState /\ AsTty(PutChar(s, c)) = Put(AsTty(s), c)
<1> DEFINE f == Fill(s, c)
           t == [text |-> ReplaceAt(AsTty(s).text, AsTty(s).at + 1, c), at |-> AsTty(s).at + 1]
<1>1. /\ f \in PageState /\ f.x = s.x /\ f.y = s.y /\ AsTty(f).text = t.text
      /\ s.x \in Col /\ s.y \in Row
  BY FillType, FillShows DEF PageState
<1>2. AsTty(s).at + 1 = NUM_COLS * s.y + s.x + 1 /\ t.at = AsTty(s).at + 1
      /\ NUM_COLS * s.y \in Nat
  BY <1>1, CellFacts DEF AsTty
<1>3. AsTty(f) \in TtyState /\ t.at \in Nat
  BY <1>1, <1>2, AsTtyType DEF Col
<1>4. t \in [text : [1 .. Size -> Glyph], at : Nat]
  <2>1. t.text \in [1 .. Size -> Glyph]
    BY <1>1, <1>3 DEF TtyState
  <2> QED
    BY <1>3, <2>1
<1>5. Put(AsTty(s), c) = MakeRoom(t)
  BY DEF Put
<1> HIDE DEF f, t
<1>6. CASE s.x + 1 = NUM_COLS
  <2>1. PutChar(s, c) = NextLine(f)
    BY <1>6 DEF PutChar, f
  <2>2. t.at = NUM_COLS * (f.y + 1)
    <3>1. NUM_COLS * (s.y + 1) = NUM_COLS * s.y + NUM_COLS /\ s.x \in Nat
      BY <1>1, SizeFacts DEF Row, Col
    <3> QED
      BY <1>1, <1>2, <1>6, <3>1, SizeFacts
  <2> QED
    BY <1>1, <1>4, <1>5, <2>1, <2>2, NextLineShows
<1>7. CASE s.x + 1 # NUM_COLS
  <2> DEFINE n == [f EXCEPT !.x = s.x + 1]
  <2>1. PutChar(s, c) = n
    BY <1>1, <1>7, Zenon DEF PutChar, f
  <2>2. s.x + 1 \in Col
    BY <1>1, <1>7, SizeFacts DEF Col
  <2>3. n \in PageState /\ n.cell = f.cell /\ n.y = s.y /\ n.x = s.x + 1
    BY <1>1, <2>2 DEF PageState
  <2> HIDE DEF n
  <2>4. t.at = NUM_COLS * n.y + n.x
    BY <1>1, <1>2, <2>3 DEF Col
  <2>5. AsTty(n).text = AsTty(f).text
    BY <2>3 DEF AsTty
  <2>6. \A k \in 1 .. Size : t.text[k] = n.cell[RowOf(k)][ColOf(k)]
    BY <1>1, <2>3, <2>5, AsTtyType
  <2>7. t = [text |-> t.text, at |-> t.at] /\ t.text \in [1 .. Size -> Glyph]
    BY <1>4, TtyFields
  <2>8. AsTty(n) = t
    BY <2>3, <2>4, <2>6, <2>7, SameTty
  <2>9. MakeRoom(t) = t
    <3>1. AsTty(n).at \in 0 .. Size - 1
      BY <2>3, AsTtyType DEF TtyState
    <3> QED
      BY <2>8, <3>1, SizeFacts DEF MakeRoom
  <2> QED
    BY <1>5, <2>1, <2>3, <2>8, <2>9
<1> QED
  BY <1>6, <1>7

LEMMA Controls == Newline # Tab
BY Zenon DEF Newline, Tab

\* Enter's cursor.
LEMMA NewlineShows ==
    ASSUME NEW s \in PageState
    PROVE  NextLine(s) \in PageState /\ AsTty(NextLine(s)) = Show(AsTty(s), Newline)
<1> DEFINE a == AsTty(s)
           t == [a EXCEPT !.at = NUM_COLS * (@ \div NUM_COLS + 1)]
<1>1. a \in TtyState /\ s.x \in Col /\ s.y \in Row /\ a.at = NUM_COLS * s.y + s.x
  BY AsTtyType DEF PageState, AsTty
<1>2. a.at \div NUM_COLS = s.y
  <2>1. a.at \in Nat /\ s.y \in Nat /\ s.x \in 0 .. NUM_COLS - 1
    BY <1>1, SizeFacts DEF TtyState, Row, Col
  <2> QED
    BY <1>1, <2>1, DivModUnique
<1>3. t.text = a.text /\ t.at = NUM_COLS * (s.y + 1)
  BY <1>1, <1>2 DEF TtyState
<1>4. t \in [text : [1 .. Size -> Glyph], at : Nat]
  <2>1. NUM_COLS * (s.y + 1) \in Nat
    BY <1>1, SizeFacts DEF Row
  <2> QED
    BY <1>1, <1>2, <2>1 DEF TtyState
<1>5. Show(a, Newline) = MakeRoom(t)
  BY Controls, Zenon DEF Show
<1> HIDE DEF a, t
<1> QED
  BY <1>3, <1>4, <1>5, NextLineShows DEF a

\* Backspace's cell.
LEMMA RmcShows ==
    ASSUME NEW s \in PageState
    PROVE  rmc(s) \in PageState /\ AsTty(rmc(s)) = TakeBack(AsTty(s))
<1>1. s.x \in Col /\ s.y \in Row /\ s.x \in Nat /\ s.y \in Nat
      /\ AsTty(s).at = NUM_COLS * s.y + s.x /\ NUM_COLS * s.y \in Nat
  BY CellFacts, SizeFacts DEF PageState, AsTty, Row, Col
<1>2. CASE s.x = 0 /\ s.y = 0
  <2>1. AsTty(s).at = 0
    BY <1>1, <1>2, SizeFacts
  <2> QED
    BY <1>2, <2>1 DEF rmc, TakeBack
<1>3. CASE ~(s.x = 0 /\ s.y = 0)
  <2> DEFINE b == IF s.x > 0 THEN [s EXCEPT !.x = @ - 1]
                  ELSE [s EXCEPT !.x = NUM_COLS - 1, !.y = @ - 1]
  <2>1. rmc(s) = Fill(b, Space)
    BY <1>3, Zenon DEF rmc
  <2>2. b \in PageState /\ b.cell = s.cell /\ NUM_COLS * b.y + b.x = NUM_COLS * s.y + s.x - 1
    <3>1. CASE s.x > 0
      <4>0. b = [s EXCEPT !.x = s.x - 1]
        BY <3>1, Zenon
      <4>1. s.x - 1 \in Col
        BY <1>1, <3>1, SizeFacts DEF Col
      <4> HIDE DEF b
      <4>2. b \in PageState /\ b.cell = s.cell /\ b.y = s.y /\ b.x = s.x - 1
        BY <4>0, <4>1 DEF PageState
      <4> QED
        BY <4>2, <1>1
    <3>2. CASE ~(s.x > 0)
      <4>0. b = [s EXCEPT !.x = NUM_COLS - 1, !.y = s.y - 1]
        BY <3>2, Zenon
      <4>1. s.y - 1 \in Row
        BY <1>1, <1>3, <3>2, SizeFacts DEF Row
      <4> HIDE DEF b
      <4>2. b \in PageState /\ b.cell = s.cell /\ b.y = s.y - 1 /\ b.x = NUM_COLS - 1
        BY <4>0, <4>1, SizeFacts DEF PageState
      <4>3. NUM_COLS * (s.y - 1) = NUM_COLS * s.y - NUM_COLS
        BY <1>1, SizeFacts
      <4> QED
        BY <4>2, <4>3, <1>1, <3>2, SizeFacts
    <3> QED
      BY <3>1, <3>2
  <2> HIDE DEF b
  <2>3. AsTty(b).text = AsTty(s).text /\ AsTty(b).at = AsTty(s).at - 1
    BY <2>2, <1>1 DEF AsTty
  <2>4. Fill(b, Space) \in PageState
        /\ AsTty(Fill(b, Space)).text = ReplaceAt(AsTty(b).text, AsTty(b).at + 1, Space)
    BY <2>2, FillType, FillShows DEF Glyph
  <2>5. AsTty(Fill(b, Space)).at = AsTty(b).at
    BY <2>2, FillType DEF AsTty, Glyph
  <2>6. AsTty(b).at + 1 = AsTty(s).at /\ AsTty(s).at # 0
    BY <2>2, <2>3, <1>1, AsTtyType, SizeFacts DEF TtyState
  <2>7. AsTty(Fill(b, Space)) = [text |-> AsTty(Fill(b, Space)).text,
                                 at   |-> AsTty(Fill(b, Space)).at]
    BY DEF AsTty
  <2>8. AsTty(Fill(b, Space)) = [text |-> ReplaceAt(AsTty(s).text, AsTty(s).at, Space),
                                 at   |-> AsTty(s).at - 1]
    BY <2>3, <2>4, <2>5, <2>6, <2>7
  <2>9. TakeBack(AsTty(s)) = [text |-> ReplaceAt(AsTty(s).text, AsTty(s).at, Space),
                              at   |-> AsTty(s).at - 1]
    BY <2>6, Zenon DEF TakeBack
  <2> QED
    BY <2>1, <2>4, <2>8, <2>9
<1> QED
  BY <1>2, <1>3

\* Any character, or a tab's four cells.
LEMMA PutcShows ==
    ASSUME NEW s \in PageState, NEW c \in Glyph \cup {Newline, Tab}
    PROVE  putc(s, c) \in PageState /\ AsTty(putc(s, c)) = Show(AsTty(s), c)
<1>1. CASE c = Newline
  BY <1>1, NewlineShows, Controls, Zenon DEF putc
<1>2. CASE c = Tab
  <2> DEFINE a == PutChar(s, Space)
             b == PutChar(a, Space)
             d == PutChar(b, Space)
  <2>1. putc(s, c) = PutChar(d, Space)
    BY <1>2, Controls, Zenon DEF putc
  <2>2. Space \in Glyph
    BY DEF Glyph
  <2>3. a \in PageState /\ AsTty(a) = Put(AsTty(s), Space)
    BY <2>2, PutCharShows
  <2> HIDE DEF a
  <2>4. b \in PageState /\ AsTty(b) = Put(AsTty(a), Space)
    BY <2>2, <2>3, PutCharShows
  <2> HIDE DEF b
  <2>5. d \in PageState /\ AsTty(d) = Put(AsTty(b), Space)
    BY <2>2, <2>4, PutCharShows
  <2> HIDE DEF d
  <2>6. PutChar(d, Space) \in PageState /\ AsTty(PutChar(d, Space)) = Put(AsTty(d), Space)
    BY <2>2, <2>5, PutCharShows
  <2>7. Show(AsTty(s), c) = Put(Put(Put(Put(AsTty(s), Space), Space), Space), Space)
    BY <1>2, Controls, Zenon DEF Show
  <2> QED
    BY <2>1, <2>3, <2>4, <2>5, <2>6, <2>7, Zenon
<1>3. CASE c # Newline /\ c # Tab
  <2>1. putc(s, c) = PutChar(s, c) /\ Show(AsTty(s), c) = Put(AsTty(s), c)
    BY <1>3, Zenon DEF putc, Show
  <2>2. c \in Glyph
    BY <1>3
  <2> QED
    BY <2>1, <2>2, PutCharShows
<1> QED
  BY <1>1, <1>2, <1>3

LEMMA RemoveShows ==
    ASSUME NEW s \in PageState, NEW tab \in BOOLEAN
    PROVE  RemoveCells(s, tab) \in PageState /\ AsTty(RemoveCells(s, tab)) = Erase(AsTty(s), tab)
<1> DEFINE a == rmc(s)
           b == rmc(a)
           c == rmc(b)
<1>1. a \in PageState /\ AsTty(a) = TakeBack(AsTty(s))
  BY RmcShows
<1>2. RemoveCells(s, tab) = IF tab THEN rmc(c) ELSE a
  BY Zenon DEF RemoveCells
<1> HIDE DEF a
<1>3. b \in PageState /\ AsTty(b) = TakeBack(AsTty(a))
  BY <1>1, RmcShows
<1> HIDE DEF b
<1>4. c \in PageState /\ AsTty(c) = TakeBack(AsTty(b))
  BY <1>3, RmcShows
<1> HIDE DEF c
<1>5. rmc(c) \in PageState /\ AsTty(rmc(c)) = TakeBack(AsTty(c))
  BY <1>4, RmcShows
<1> QED
  BY <1>1, <1>2, <1>3, <1>4, <1>5, Zenon DEF Erase

\* The blank screen of Ctrl-L.
LEMMA BlankShows ==
    /\ Blank \in PageState /\ AsTty(Blank) = EmptyTty
    /\ \A x \in Col, y \in Row :
         LET s == [Blank EXCEPT !.x = x, !.y = y]
         IN  s \in PageState /\ AsTty(s) = [EmptyTty EXCEPT !.at = NUM_COLS * y + x]
<1>1. Blank.cell \in Text /\ \A y \in Row, x \in Col : Blank.cell[y][x] = Space
  BY DEF Blank, Text
<1>2. Blank \in PageState /\ Blank.x = 0 /\ Blank.y = 0
  BY <1>1, SizeFacts DEF Blank, PageState
<1>3. EmptyTty \in [text : [1 .. Size -> Glyph], at : Nat]
      /\ EmptyTty.at = 0 /\ \A k \in 1 .. Size : EmptyTty.text[k] = Space
  BY DEF EmptyTty, Spaces, Glyph
<1>4. ASSUME NEW x \in Col, NEW y \in Row
      PROVE  [Blank EXCEPT !.x = x, !.y = y] \in PageState
             /\ AsTty([Blank EXCEPT !.x = x, !.y = y])
                  = [EmptyTty EXCEPT !.at = NUM_COLS * y + x]
  <2> DEFINE s == [Blank EXCEPT !.x = x, !.y = y]
             t == [EmptyTty EXCEPT !.at = NUM_COLS * y + x]
  <2>1. s \in PageState /\ s.cell = Blank.cell /\ s.x = x /\ s.y = y
    BY <1>2 DEF PageState
  <2>2. NUM_COLS * y + x \in Nat
    BY CellFacts DEF Col
  <2>3. t \in [text : [1 .. Size -> Glyph], at : Nat] /\ t.text = EmptyTty.text
        /\ t.at = NUM_COLS * y + x
    BY <1>3, <2>2
  <2> HIDE DEF s, t
  <2>4. \A k \in 1 .. Size : t.text[k] = s.cell[RowOf(k)][ColOf(k)]
    BY <1>1, <1>3, <2>1, <2>3, RowColFacts
  <2>5. t = [text |-> t.text, at |-> t.at] /\ t.text \in [1 .. Size -> Glyph]
    BY <2>3, TtyFields
  <2>6. AsTty(s) = t
    BY <2>1, <2>3, <2>4, <2>5, SameTty
  <2> QED
    BY <2>1, <2>6 DEF s, t
<1>5. AsTty(Blank) = EmptyTty
  <2>1. \A k \in 1 .. Size : EmptyTty.text[k] = Blank.cell[RowOf(k)][ColOf(k)]
    BY <1>1, <1>3, RowColFacts
  <2>2. EmptyTty.at = NUM_COLS * Blank.y + Blank.x
    BY <1>2, <1>3, SizeFacts
  <2>3. EmptyTty = [text |-> EmptyTty.text, at |-> EmptyTty.at]
        /\ EmptyTty.text \in [1 .. Size -> Glyph]
    BY <1>3, TtyFields
  <2> QED
    BY <1>2, <2>1, <2>2, <2>3, SameTty
<1> QED
  BY <1>2, <1>4, <1>5

\* The screen Ctrl-L leaves.
LEMMA PromptShows ==
    /\ FoldLeft(putc, Blank, Prompt) \in PageState
    /\ AsTty(FoldLeft(putc, Blank, Prompt)) = FoldLeft(Show, EmptyTty, Prompt)
<1> DEFINE n    == Len(Prompt)
           by   == [k \in 1 .. n |-> [s \in PageState |-> putc(s, Prompt[k])]]
           map  == [s \in PageState |-> AsTty(s)]
           onto == [k \in 1 .. n |-> [t \in TtyState |-> Show(t, Prompt[k])]]
<1>1. n \in Nat /\ DOMAIN Prompt = 1 .. n
      /\ \A k \in 1 .. n : Prompt[k] \in Glyph \cup {Newline, Tab}
  <2>1. Prompt \in Seq(Chars \cup {Newline})
    BY ScreenAssumption
  <2> QED
    BY <2>1 DEF Glyph
<1>2. map \in [PageState -> TtyState] /\ map[Blank] = EmptyTty /\ Blank \in PageState
  BY AsTtyType, BlankShows
<1>3. by \in [1 .. n -> [PageState -> PageState]]
      /\ \A k \in 1 .. n : \A s \in PageState : by[k][s] = putc(s, Prompt[k])
  BY <1>1, PutcShows
<1>4. \A k \in 1 .. n : \A t \in TtyState : onto[k][t] = Show(t, Prompt[k])
  OBVIOUS
<1>5. Commute(map, by, onto, n, PageState)
  <2> SUFFICES ASSUME NEW k \in 1 .. n, NEW s \in PageState
               PROVE  map[by[k][s]] = onto[k][map[s]]
    BY DEF Commute
  <2>1. putc(s, Prompt[k]) \in PageState
        /\ AsTty(putc(s, Prompt[k])) = Show(AsTty(s), Prompt[k])
    BY <1>1, PutcShows
  <2>2. by[k][s] = putc(s, Prompt[k]) /\ map[s] = AsTty(s) /\ AsTty(s) \in TtyState
    BY AsTtyType
  <2>3. map[putc(s, Prompt[k])] = AsTty(putc(s, Prompt[k]))
    BY <2>1
  <2> QED
    BY <2>1, <2>2, <2>3, <1>4
<1> HIDE DEF n, by, map, onto
<1>6. PICK f : IsFold(f, by, Blank, n, PageState)
  <2>1. n \in Nat
    BY <1>1
  <2>2. \E f \in [SUBSET (1 .. n) -> PageState] : Folds(f, by, Blank, n)
    BY <2>1, <1>2, <1>3, FoldExists
  <2> QED
    BY <2>1, <2>2, Zenon DEF IsFold
<1> DEFINE g == [s \in SUBSET (1 .. n) |-> map[f[s]]]
<1>7. IsFold(g, onto, EmptyTty, n, TtyState)
  <2>1. map \in [PageState -> TtyState] /\ map[Blank] = EmptyTty
    BY <1>2
  <2>2. g = [s \in SUBSET (1 .. n) |-> map[f[s]]]
    OBVIOUS
  <2> HIDE DEF g
  <2>3. IsFold(g, onto, map[Blank], n, TtyState)
    BY <2>1, <2>2, <1>5, <1>6, FoldMaps, SMT
  <2> QED
    BY <2>1, <2>3
<1>8. 1 .. n \in SUBSET (1 .. n) /\ \A m \in 1 .. n :
        /\ 1 .. m # {} /\ 1 .. m \in SUBSET (1 .. n)
        /\ Max(1 .. m) = m /\ (1 .. m) \ {Max(1 .. m)} = 1 .. m - 1
  <2> SUFFICES ASSUME NEW m \in 1 .. n
               PROVE  /\ 1 .. m # {} /\ 1 .. m \in SUBSET (1 .. n)
                      /\ Max(1 .. m) = m /\ (1 .. m) \ {Max(1 .. m)} = 1 .. m - 1
    OBVIOUS
  <2>1. m \in Nat \ {0} /\ m \in 1 .. m /\ \A k \in 1 .. m : k \in 1 .. n
    BY <1>1
  <2> QED
    BY <2>1, MaxOfPrefix, Zenon
<1>9. FoldLeft(putc, Blank, Prompt) = f[1 .. n]
  <2> DEFINE R(h) == h = [s \in SUBSET (1 .. n) |->
                            IF s = {} THEN Blank ELSE putc(h[s \ {Max(s)}], Prompt[Max(s)])]
  <2>1. FoldLeft(putc, Blank, Prompt) = (CHOOSE h : R(h))[1 .. n]
    BY <1>1, Zenon DEF FoldLeft, MapThenFoldSet
  <2>2. R(f)
    <3>1. ASSUME NEW s \in SUBSET (1 .. n), s # {}
          PROVE  by[Max(s)][f[s \ {Max(s)}]] = putc(f[s \ {Max(s)}], Prompt[Max(s)])
      <4>1. Max(s) \in 1 .. n /\ f[s \ {Max(s)}] \in PageState
        <5>1. PICK k \in s : TRUE
          BY <3>1
        <5>2. k \in 1 .. n
          OBVIOUS
        <5>3. n \in Nat \ {0}
          BY <5>2, <1>1
        <5>4. Max(s) \in s
          BY <3>1, <5>3, MaxOfPrefix
        <5> QED
          BY <5>4, <1>6 DEF IsFold
      <4> QED
        BY <4>1, <1>3, Zenon
    <3> QED
      BY <1>6, <3>1, Zenon DEF Folds, IsFold
  <2>3. PICK h : R(h) /\ FoldLeft(putc, Blank, Prompt) = h[1 .. n]
    BY <2>1, <2>2, Zenon
  <2>4. h[{}] = Blank
    BY <2>3
  <2>5. ASSUME NEW m \in 1 .. n, h[1 .. m - 1] \in PageState
        PROVE  h[1 .. m] = by[m][h[1 .. m - 1]]
    <3>1. h[1 .. m] = putc(h[(1 .. m) \ {Max(1 .. m)}], Prompt[Max(1 .. m)])
      BY <1>8, <2>3, Zenon
    <3> QED
      BY <3>1, <1>3, <1>8, <2>5, Zenon
  <2> HIDE DEF R
  <2>6. h[1 .. n] = f[1 .. n]
    <3>1. Climbs(h, by, Blank, n, PageState)
      BY <2>4, <2>5 DEF Climbs
    <3> QED
      BY <3>1, <1>6, FoldUnique, SMT
  <2> QED
    BY <2>3, <2>6
<1>10. FoldLeft(Show, EmptyTty, Prompt) = g[1 .. n]
  <2> HIDE DEF g
  <2> DEFINE R(h) == h = [s \in SUBSET (1 .. n) |->
                            IF s = {} THEN EmptyTty ELSE Show(h[s \ {Max(s)}], Prompt[Max(s)])]
  <2>1. FoldLeft(Show, EmptyTty, Prompt) = (CHOOSE h : R(h))[1 .. n]
    BY <1>1, Zenon DEF FoldLeft, MapThenFoldSet
  <2>2. R(g)
    <3>1. ASSUME NEW s \in SUBSET (1 .. n), s # {}
          PROVE  onto[Max(s)][g[s \ {Max(s)}]] = Show(g[s \ {Max(s)}], Prompt[Max(s)])
      <4>1. Max(s) \in 1 .. n /\ g[s \ {Max(s)}] \in TtyState
        <5>1. PICK k \in s : TRUE
          BY <3>1
        <5>2. k \in 1 .. n
          OBVIOUS
        <5>3. n \in Nat \ {0}
          BY <5>2, <1>1
        <5>4. Max(s) \in s
          BY <3>1, <5>3, MaxOfPrefix
        <5> QED
          BY <5>4, <1>7 DEF IsFold
      <4> QED
        BY <4>1, <1>4, Zenon
    <3> QED
      BY <1>7, <3>1, Zenon DEF Folds, IsFold
  <2>3. PICK h : R(h) /\ FoldLeft(Show, EmptyTty, Prompt) = h[1 .. n]
    BY <2>1, <2>2, Zenon
  <2>4. h[{}] = EmptyTty
    BY <2>3
  <2>5. ASSUME NEW m \in 1 .. n, h[1 .. m - 1] \in TtyState
        PROVE  h[1 .. m] = onto[m][h[1 .. m - 1]]
    <3>1. h[1 .. m] = Show(h[(1 .. m) \ {Max(1 .. m)}], Prompt[Max(1 .. m)])
      BY <1>8, <2>3, Zenon
    <3> QED
      BY <3>1, <1>4, <1>8, <2>5, Zenon
  <2> HIDE DEF R
  <2>6. h[1 .. n] = g[1 .. n]
    <3>1. Climbs(h, onto, EmptyTty, n, TtyState)
      BY <2>4, <2>5 DEF Climbs
    <3> QED
      BY <3>1, <1>7, FoldUnique, SMT
  <2> QED
    BY <2>3, <2>6
<1>11. f[1 .. n] \in PageState /\ g[1 .. n] = AsTty(f[1 .. n])
  BY <1>6, <1>8 DEF map, IsFold
<1> QED
  BY <1>9, <1>10, <1>11

-----------------------------------------------------------------------------
(* The inductive invariant *)

\* The page that terminal t's user is shown, now or after the next switch.
Seen     == IF target = None THEN visible_term_idx ELSE target
Where(t) == IF t = Seen THEN VIDEO ELSE t

Typed ==
    /\ memory \in [Page -> PageState] /\ tty \in [Term -> TtyState]
    /\ visible_term_idx \in Term /\ target \in Term \cup {None}
    /\ vid_map \in Page \cup {None}
    /\ drawers \subseteq Term /\ undisturbed \subseteq drawers
    /\ mixed \in BOOLEAN

\* vidmap's address leads to the page of the terminal that was there last, as
\* long as it counts as undisturbed.
MapIsOwn == \A a \in undisturbed : vid_map = Where(a)

IInv == Typed /\ MapIsOwn /\ ScreensShowOwnOutput

LEMMA WhereFacts ==
    ASSUME Typed
    PROVE  /\ Seen \in Term /\ VIDEO \notin Term /\ None \notin Page
           /\ \A t \in Term : /\ Where(t) \in Page /\ ScreenOf(t) = memory[Where(t)]
                              /\ \A u \in Term : Where(t) = Where(u) => t = u
<1>1. NTERMS \in Nat \ {0}
  BY ScreenAssumption
<1>2. VIDEO \notin Term /\ None \notin Page
  BY <1>1 DEF VIDEO, Term, None, Page
<1>3. Seen \in Term
  BY Zenon DEF Typed, Seen
<1>4. ASSUME NEW t \in Term
      PROVE  /\ Where(t) \in Page /\ ScreenOf(t) = memory[Where(t)]
             /\ \A u \in Term : Where(t) = Where(u) => t = u
  <2>1. Where(t) \in Page
    BY Zenon DEF Where, Page
  <2>2. ScreenOf(t) = memory[Where(t)]
    BY Zenon DEF ScreenOf, Where, Seen
  <2>3. ASSUME NEW u \in Term, Where(t) = Where(u)
        PROVE  t = u
    BY <1>2, <2>3 DEF Where
  <2> QED
    BY <2>1, <2>2, <2>3
<1> QED
  BY <1>2, <1>3, <1>4

Shows == \A t \in Term : AsTty(ScreenOf(t)) = tty[t]

\* What happens to a terminal's screen and to what it should show alike.
LEMMA Changes ==
    ASSUME Typed, Shows, NEW a \in Term, NEW s \in PageState,
           memory' = [memory EXCEPT ![Where(a)] = s],
           tty' = [tty EXCEPT ![a] = AsTty(s)],
           UNCHANGED <<visible_term_idx, target, vid_map, drawers, undisturbed>>,
           mixed' \in BOOLEAN
    PROVE  Typed' /\ Shows'
<1>1. memory' \in [Page -> PageState] /\ tty' \in [Term -> TtyState]
  BY AsTtyType DEF Typed
<1>2. Typed'
  BY <1>1 DEF Typed
<1>3. \A t \in Term : Where(t)' = Where(t)
  BY DEF Where, Seen
<1>4. ASSUME NEW t \in Term
      PROVE  AsTty(memory'[Where(t)]) = tty'[t]
  <2>1. Where(t) \in Page /\ Where(a) \in Page /\ (Where(t) = Where(a) => t = a)
        /\ ScreenOf(t) = memory[Where(t)]
    BY WhereFacts
  <2>2. AsTty(memory[Where(t)]) = tty[t] /\ DOMAIN memory = Page /\ DOMAIN tty = Term
    BY <2>1 DEF Typed, Shows
  <2>3. CASE t = a
    BY <2>1, <2>2, <2>3
  <2>4. CASE t # a
    BY <2>1, <2>2, <2>4
  <2> QED
    BY <2>3, <2>4
<1>5. \A t \in Term : ScreenOf(t)' = memory'[Where(t)']
  BY Zenon DEF ScreenOf, Where, Seen
<1>6. ASSUME NEW t \in Term
      PROVE  (AsTty(ScreenOf(t)) = tty[t])'
  <2>1. ScreenOf(t)' = memory'[Where(t)]
    BY <1>3, <1>5, Zenon
  <2> QED
    BY <1>4, <2>1
<1> QED
  BY <1>2, <1>6 DEF Shows

\* A character that is drawn.
LEMMA DrawShows ==
    ASSUME NEW s \in PageState, NEW row \in Row, NEW col \in Col, NEW c \in Glyph
    PROVE  LET drawn == [s EXCEPT !.cell[row][col] = c]
           IN  /\ drawn \in PageState
               /\ AsTty(drawn) = [AsTty(s) EXCEPT !.text[NUM_COLS * row + col + 1] = c]
<1> DEFINE drawn == [s EXCEPT !.cell[row][col] = c]
           t     == [AsTty(s) EXCEPT !.text[NUM_COLS * row + col + 1] = c]
<1>1. s.cell \in [Row -> [Col -> Glyph]] /\ s.x \in Col /\ s.y \in Row
  BY DEF PageState, Text, Glyph
<1>2. drawn.cell = [s.cell EXCEPT ![row] = [s.cell[row] EXCEPT ![col] = c]]
      /\ drawn.x = s.x /\ drawn.y = s.y
  BY DEF PageState
<1>3. drawn \in PageState
  <2>1. drawn.cell \in [Row -> [Col -> Glyph]]
    BY <1>1, <1>2
  <2> QED
    BY <1>1, <2>1 DEF PageState, Text, Glyph
<1>4. \A y \in Row, x \in Col :
        drawn.cell[y][x] = IF y = row /\ x = col THEN c ELSE s.cell[y][x]
  <2> HIDE DEF drawn
  <2> QED
    BY <1>1, <1>2
<1>5. AsTty(s).text \in [1 .. Size -> Glyph] /\ AsTty(s).at \in Nat
      /\ AsTty(s) \in [text : [1 .. Size -> Glyph], at : Nat]
      /\ AsTty(s).at = NUM_COLS * s.y + s.x
  <2>1. AsTty(s) \in TtyState
    BY AsTtyType
  <2>2. AsTty(s).at = NUM_COLS * s.y + s.x
    BY Zenon DEF AsTty
  <2> QED
    BY <2>1, <2>2, SizeFacts DEF TtyState
<1>6. t.text = [AsTty(s).text EXCEPT ![Cell(row, col)] = c] /\ t.at = AsTty(s).at
      /\ t \in [text : [1 .. Size -> Glyph], at : Nat]
  BY <1>5 DEF Cell
<1> HIDE DEF drawn, t
<1>7. t.at = NUM_COLS * drawn.y + drawn.x
  BY <1>2, <1>5, <1>6
<1>8. ASSUME NEW k \in 1 .. Size
      PROVE  t.text[k] = drawn.cell[RowOf(k)][ColOf(k)]
  <2>1. RowOf(k) \in Row /\ ColOf(k) \in Col /\ k = Cell(RowOf(k), ColOf(k))
        /\ AsTty(s).text[k] = s.cell[RowOf(k)][ColOf(k)]
    BY RowColFacts, AsTtyType
  <2>2. Cell(row, col) \in 1 .. Size
        /\ RowOf(Cell(row, col)) = row /\ ColOf(Cell(row, col)) = col
    BY CellFacts
  <2>3. k = Cell(row, col) <=> RowOf(k) = row /\ ColOf(k) = col
    BY <2>1, <2>2
  <2>4. t.text[k] = IF k = Cell(row, col) THEN c ELSE AsTty(s).text[k]
    BY <1>5, <1>6
  <2> QED
    BY <1>4, <2>1, <2>3, <2>4
<1>9. t = [text |-> t.text, at |-> t.at] /\ t.text \in [1 .. Size -> Glyph]
  BY <1>6, TtyFields
<1>10. AsTty(drawn) = t
  BY <1>3, <1>7, <1>8, <1>9, SameTty
<1> QED
  BY <1>3, <1>10 DEF drawn, t

-----------------------------------------------------------------------------
(* Steps *)

LEMMA ShownType == \A c \in Shown : c \in Glyph \cup {Newline, Tab}
BY DEF Shown, Glyph

\* Output outside a switch goes to the page its terminal's user is shown.
LEMMA PageIsWhere ==
    ASSUME Typed, NEW a \in Term
    PROVE  PageOf(a) \in Page /\ (~InSwitch(a) => PageOf(a) = Where(a))
BY WhereFacts DEF Typed, PageOf, InSwitch, Where, Seen, Page

LEMMA WriteKeeps ==
    ASSUME IInv, ~mixed, NEW a \in Term, NEW c \in Shown, Write(a, c)
    PROVE  IInv'
<1> DEFINE s == putc(memory[PageOf(a)], c)
<1>1. Typed /\ Shows /\ MapIsOwn
  BY DEF IInv, ScreensShowOwnOutput, Shows
<1>2. PageOf(a) \in Page /\ (~InSwitch(a) => PageOf(a) = Where(a))
  BY <1>1, PageIsWhere
<1>3. memory \in [Page -> PageState] /\ tty \in [Term -> TtyState]
  BY <1>1 DEF Typed
<1>4. s \in PageState /\ AsTty(s) = Show(AsTty(memory[PageOf(a)]), c)
  BY <1>2, <1>3, PutcShows, ShownType
<1>5. memory' = [memory EXCEPT ![PageOf(a)] = s] /\ tty' = [tty EXCEPT ![a] = Show(tty[a], c)]
      /\ UNCHANGED <<visible_term_idx, target, vid_map, drawers, undisturbed>>
      /\ mixed' = InSwitch(a) /\ mixed' \in BOOLEAN
  BY <1>3 DEF Write, InSwitch
<1>6. MapIsOwn'
  BY <1>1, <1>5 DEF MapIsOwn, Where, Seen
<1> HIDE DEF s
<1>7. CASE ~InSwitch(a)
  <2>1. tty[a] = AsTty(memory[PageOf(a)])
    BY <1>1, <1>2, <1>7, WhereFacts DEF Shows
  <2>2. Typed' /\ Shows'
    BY <1>1, <1>2, <1>4, <1>5, <1>7, <2>1, Changes
  <2> QED
    BY <1>6, <2>2 DEF IInv, ScreensShowOwnOutput, Shows
<1>8. CASE InSwitch(a)
  <2>1. tty' \in [Term -> TtyState]
    <3>1. PICK u \in PageState : AsTty(u) = tty[a]
      BY <1>1, <1>3, WhereFacts DEF Shows
    <3>2. Show(tty[a], c) = AsTty(putc(u, c)) /\ putc(u, c) \in PageState
      BY <3>1, PutcShows, ShownType
    <3>3. Show(tty[a], c) \in TtyState
      BY <3>2, AsTtyType
    <3> QED
      BY <1>3, <1>5, <3>3
  <2>2. Typed'
    BY <1>1, <1>3, <1>4, <1>5, <2>1 DEF Typed
  <2> QED
    BY <1>5, <1>6, <1>8, <2>2 DEF IInv, ScreensShowOwnOutput
<1> QED
  BY <1>7, <1>8

LEMMA VidmapKeeps ==
    ASSUME IInv, ~mixed, NEW a \in Term, Vidmap(a)
    PROVE  IInv'
<1>1. Typed /\ ScreensShowOwnOutput
  BY DEF IInv
<1>2. PageOf(a) \in Page /\ (~InSwitch(a) => PageOf(a) = Where(a))
  BY <1>1, PageIsWhere
<1>3. Typed'
  BY <1>1, <1>2 DEF Typed, Vidmap
<1>4. MapIsOwn'
  BY <1>2 DEF Vidmap, MapIsOwn, Where, Seen
<1>5. ScreensShowOwnOutput'
  BY <1>1 DEF Vidmap, ScreensShowOwnOutput, ScreenOf
<1> QED
  BY <1>3, <1>4, <1>5 DEF IInv

LEMMA DrawKeeps ==
    ASSUME IInv, ~mixed, NEW a \in Term, NEW row \in Row, NEW col \in Col, NEW c \in Chars,
           Draw(a, row, col, c)
    PROVE  IInv'
<1> DEFINE k == NUM_COLS * row + col + 1
<1>1. Typed /\ Shows /\ MapIsOwn /\ c \in Glyph
  BY DEF IInv, ScreensShowOwnOutput, Shows, Glyph
<1>2. memory \in [Page -> PageState] /\ tty \in [Term -> TtyState] /\ vid_map \in Page \cup {None}
  BY <1>1 DEF Typed
<1>3. /\ memory' = [memory EXCEPT ![vid_map].cell[row][col] = c]
      /\ tty' = [tty EXCEPT ![a].text[k] = c]
      /\ UNCHANGED <<visible_term_idx, target, vid_map, drawers, undisturbed>>
      /\ mixed' = (a \notin undisturbed) /\ mixed' \in BOOLEAN
  BY DEF Draw
<1>4. MapIsOwn'
  BY <1>1, <1>3 DEF MapIsOwn, Where, Seen
<1>5. \A s \in PageState :
        /\ [s EXCEPT !.cell[row][col] = c] \in PageState
        /\ AsTty([s EXCEPT !.cell[row][col] = c]) = [AsTty(s) EXCEPT !.text[k] = c]
  BY <1>1, DrawShows
<1> HIDE DEF k
<1>6. CASE a \in undisturbed
  <2> DEFINE s == [memory[vid_map] EXCEPT !.cell[row][col] = c]
  <2>1. vid_map = Where(a) /\ Where(a) \in Page /\ tty[a] = AsTty(memory[vid_map])
    BY <1>1, <1>6, WhereFacts DEF MapIsOwn, Shows
  <2>2. s \in PageState /\ AsTty(s) = [tty[a] EXCEPT !.text[k] = c]
    BY <1>2, <1>5, <2>1
  <2>3. memory' = [memory EXCEPT ![Where(a)] = s] /\ tty' = [tty EXCEPT ![a] = AsTty(s)]
    BY <1>3, <2>1, <2>2
  <2> HIDE DEF s
  <2>4. Typed' /\ Shows'
    BY <1>1, <1>3, <2>2, <2>3, Changes
  <2> QED
    BY <1>4, <2>4 DEF IInv, ScreensShowOwnOutput, Shows
<1>7. CASE a \notin undisturbed
  <2>1. tty' \in [Term -> TtyState]
    <3>1. PICK u \in PageState : AsTty(u) = tty[a]
      BY <1>1, <1>2, WhereFacts DEF Shows
    <3> DEFINE w == [u EXCEPT !.cell[row][col] = c]
    <3>2. [tty[a] EXCEPT !.text[k] = c] \in TtyState
      <4>1. w \in PageState /\ AsTty(w) = [tty[a] EXCEPT !.text[k] = c]
        BY <1>5, <3>1, Zenon
      <4> HIDE DEF w
      <4>2. AsTty(w) \in TtyState
        BY <4>1, AsTtyType, Zenon
      <4> QED
        BY <4>1, <4>2, Zenon
    <3>3. tty' = [tty EXCEPT ![a] = [tty[a] EXCEPT !.text[k] = c]]
      BY <1>3, Zenon
    <3> HIDE DEF TtyState
    <3> QED
      BY <1>2, <3>2, <3>3
  <2>2. memory' \in [Page -> PageState]
    BY <1>2, <1>3, <1>5
  <2>3. Typed'
    BY <1>1, <1>3, <2>1, <2>2 DEF Typed
  <2> QED
    BY <1>3, <1>4, <1>7, <2>3 DEF IInv, ScreensShowOwnOutput
<1> QED
  BY <1>6, <1>7

\* What a key does to the screen in front of the user.
LEMMA KeyKeeps ==
    ASSUME IInv, ~mixed, Key, NEW s \in PageState,
           memory' = [memory EXCEPT ![VIDEO] = s],
           tty' = [tty EXCEPT ![visible_term_idx] = AsTty(s)]
    PROVE  IInv'
<1>1. Typed /\ Shows /\ MapIsOwn
  BY DEF IInv, ScreensShowOwnOutput, Shows
<1>2. target = None
      /\ UNCHANGED <<visible_term_idx, target, vid_map, drawers, undisturbed, mixed>>
  BY DEF Key
<1>3. visible_term_idx \in Term /\ Where(visible_term_idx) = VIDEO /\ mixed' \in BOOLEAN
  BY <1>1, <1>2 DEF Typed, Where, Seen
<1>4. Typed' /\ Shows'
  BY <1>1, <1>2, <1>3, Changes
<1>5. MapIsOwn'
  BY <1>1, <1>2 DEF MapIsOwn, Where, Seen
<1> QED
  BY <1>4, <1>5 DEF IInv, ScreensShowOwnOutput, Shows

\* The page a key finds.
LEMMA KeyPage ==
    ASSUME IInv, ~mixed, Key
    PROVE  memory[VIDEO] \in PageState /\ tty[visible_term_idx] = AsTty(memory[VIDEO])
<1>1. Typed /\ Shows
  BY DEF IInv, ScreensShowOwnOutput, Shows
<1>2. visible_term_idx \in Term /\ Where(visible_term_idx) = VIDEO
  BY <1>1 DEF Typed, Where, Seen, Key
<1> QED
  BY <1>1, <1>2, WhereFacts DEF Shows, Typed

LEMMA KeysKeep ==
    ASSUME IInv, ~mixed,
           \/ \E c \in Shown : Echo(c)
           \/ \E tab \in BOOLEAN : Backspace(tab)
           \/ ClearScreen
    PROVE  IInv'
<1>1. ASSUME NEW c \in Shown, Echo(c)
      PROVE  IInv'
  <2>1. Key /\ memory' = [memory EXCEPT ![VIDEO] = putc(memory[VIDEO], c)]
        /\ tty' = [tty EXCEPT ![visible_term_idx] = Show(tty[visible_term_idx], c)]
    BY <1>1 DEF Echo
  <2>2. memory[VIDEO] \in PageState /\ tty[visible_term_idx] = AsTty(memory[VIDEO])
    BY <2>1, KeyPage
  <2>3. putc(memory[VIDEO], c) \in PageState
        /\ AsTty(putc(memory[VIDEO], c)) = Show(tty[visible_term_idx], c)
    BY <2>2, PutcShows, ShownType
  <2> QED
    BY <2>1, <2>3, KeyKeeps
<1>2. ASSUME NEW tab \in BOOLEAN, Backspace(tab)
      PROVE  IInv'
  <2>1. Key /\ memory' = [memory EXCEPT ![VIDEO] = RemoveCells(memory[VIDEO], tab)]
        /\ tty' = [tty EXCEPT ![visible_term_idx] = Erase(tty[visible_term_idx], tab)]
    BY <1>2 DEF Backspace
  <2>2. memory[VIDEO] \in PageState /\ tty[visible_term_idx] = AsTty(memory[VIDEO])
    BY <2>1, KeyPage
  <2>3. RemoveCells(memory[VIDEO], tab) \in PageState
        /\ AsTty(RemoveCells(memory[VIDEO], tab)) = Erase(tty[visible_term_idx], tab)
    BY <2>2, RemoveShows
  <2> QED
    BY <2>1, <2>3, KeyKeeps
<1>3. ASSUME ClearScreen
      PROVE  IInv'
  BY <1>3, PromptShows, KeyKeeps DEF ClearScreen
<1> QED
  BY <1>1, <1>2, <1>3

LEMMA SwitchKeeps ==
    ASSUME IInv, ~mixed, NEW to \in Term, TerminalSwitch(to)
    PROVE  IInv'
<1>1. Typed /\ Shows /\ MapIsOwn
  BY DEF IInv, ScreensShowOwnOutput, Shows
<1>2. /\ target = None /\ to # visible_term_idx
      /\ memory' = [memory EXCEPT ![visible_term_idx] = memory[VIDEO], ![VIDEO] = memory[to]]
      /\ target' = to /\ undisturbed' = undisturbed \ {visible_term_idx, to}
      /\ UNCHANGED <<visible_term_idx, vid_map, drawers, tty, mixed>>
  BY DEF TerminalSwitch
<1>3. /\ visible_term_idx \in Term /\ visible_term_idx \in Page /\ to \in Page
      /\ VIDEO \in Page /\ VIDEO \notin Term /\ None \notin Term /\ Term \subseteq Page
      /\ memory \in [Page -> PageState]
  BY <1>1, WhereFacts DEF Typed, Page
<1>4. Typed'
  <2>1. memory' \in [Page -> PageState]
    BY <1>2, <1>3
  <2> QED
    BY <1>1, <1>2, <2>1 DEF Typed
<1>5. Seen = visible_term_idx /\ Seen' = to
  BY <1>2, <1>3 DEF Seen
<1>6. MapIsOwn'
  BY <1>1, <1>2, <1>5 DEF MapIsOwn, Where
<1>7. ASSUME NEW t \in Term
      PROVE  memory'[Where(t)'] = memory[Where(t)]
  <2>1. CASE t = to
    BY <1>2, <1>3, <1>5, <2>1 DEF Where
  <2>2. CASE t = visible_term_idx
    BY <1>2, <1>3, <1>5, <2>2 DEF Where
  <2>3. CASE t # to /\ t # visible_term_idx
    BY <1>2, <1>3, <1>5, <2>3 DEF Where
  <2> QED
    BY <2>1, <2>2, <2>3
<1>8. ASSUME NEW t \in Term
      PROVE  (AsTty(ScreenOf(t)) = tty[t])'
  <2>1. ScreenOf(t)' = memory'[Where(t)'] /\ ScreenOf(t) = memory[Where(t)]
    BY Zenon DEF ScreenOf, Where, Seen
  <2>2. AsTty(ScreenOf(t)) = tty[t]
    BY <1>1 DEF Shows
  <2>3. ScreenOf(t)' = ScreenOf(t)
    BY <1>7, <2>1, Zenon
  <2> QED
    BY <1>2, <2>2, <2>3
<1> QED
  BY <1>4, <1>6, <1>8 DEF IInv, ScreensShowOwnOutput

LEMMA SwitchDoneKeeps ==
    ASSUME IInv, SwitchDone
    PROVE  IInv'
<1>1. Typed /\ ScreensShowOwnOutput /\ MapIsOwn
  BY DEF IInv
<1>2. target # None /\ visible_term_idx' = target /\ target' = None
      /\ UNCHANGED <<memory, vid_map, drawers, undisturbed, tty, mixed>>
  BY DEF SwitchDone
<1>3. Typed'
  BY <1>1, <1>2 DEF Typed
<1>4. MapIsOwn'
  BY <1>1, <1>2 DEF MapIsOwn, Where, Seen
<1>5. ScreensShowOwnOutput'
  BY <1>1, <1>2 DEF ScreensShowOwnOutput, ScreenOf
<1> QED
  BY <1>3, <1>4, <1>5 DEF IInv

-----------------------------------------------------------------------------
(* Theorems *)

LEMMA Initially ==
    ASSUME Init
    PROVE  IInv
<1> DEFINE cold == [Blank EXCEPT !.x = START_X, !.y = START_Y]
<1>1. NTERMS \in Nat \ {0} /\ START_X \in Col /\ START_Y \in Row
  BY ScreenAssumption DEF Col, Row
<1>2. 0 \in Term /\ VIDEO \notin Term
  BY <1>1 DEF Term, VIDEO
<1>3. Blank \in PageState /\ AsTty(Blank) = EmptyTty /\ cold \in PageState
      /\ AsTty(cold) = [EmptyTty EXCEPT !.at = NUM_COLS * START_Y + START_X]
  BY <1>1, BlankShows
<1>4. EmptyTty \in TtyState /\ AsTty(cold) \in TtyState
  BY <1>3, AsTtyType
<1>5. memory = [p \in Page |-> IF p = VIDEO THEN Blank ELSE cold]
      /\ tty = [t \in Term |-> IF t = 0 THEN EmptyTty ELSE AsTty(cold)]
      /\ visible_term_idx = 0 /\ target = None /\ vid_map = None
      /\ drawers = {} /\ undisturbed = {} /\ mixed = FALSE
  BY <1>3, Zenon DEF Init
<1> HIDE DEF cold
<1>6. Typed
  BY <1>2, <1>3, <1>4, <1>5 DEF Typed
<1>7. \A t \in Term : AsTty(ScreenOf(t)) = tty[t]
  <2> SUFFICES ASSUME NEW t \in Term
               PROVE  AsTty(ScreenOf(t)) = tty[t]
    OBVIOUS
  <2>1. ScreenOf(t) = IF t = 0 THEN Blank ELSE cold
    BY <1>2, <1>5 DEF ScreenOf, Page
  <2> QED
    BY <1>3, <1>5, <2>1
<1> QED
  BY <1>5, <1>6, <1>7 DEF IInv, MapIsOwn, ScreensShowOwnOutput

LEMMA StepKeeps ==
    ASSUME IInv, [Next]_vars
    PROVE  IInv'
<1>1. CASE ~mixed /\ Step
  <2>1. ASSUME NEW a \in Term, NEW c \in Shown, Write(a, c)
        PROVE  IInv'
    BY <1>1, <2>1, WriteKeeps
  <2>2. ASSUME NEW a \in Term, Vidmap(a)
        PROVE  IInv'
    BY <1>1, <2>2, VidmapKeeps
  <2>3. ASSUME NEW a \in Term, NEW row \in Row, NEW col \in Col, NEW c \in Chars,
               Draw(a, row, col, c)
        PROVE  IInv'
    BY <1>1, <2>3, DrawKeeps
  <2>4. ASSUME NEW to \in Term, TerminalSwitch(to)
        PROVE  IInv'
    BY <1>1, <2>4, SwitchKeeps
  <2> QED
    BY <1>1, <2>1, <2>2, <2>3, <2>4, KeysKeep, SwitchDoneKeeps DEF Step
<1>2. CASE UNCHANGED vars
  <2>1. UNCHANGED <<memory, visible_term_idx, target, vid_map, drawers, undisturbed, tty, mixed>>
    BY <1>2 DEF vars
  <2>2. Typed /\ MapIsOwn /\ ScreensShowOwnOutput
    BY DEF IInv
  <2>3. Typed'
    BY <2>1, <2>2 DEF Typed
  <2>4. MapIsOwn'
    BY <2>1, <2>2 DEF MapIsOwn, Where, Seen
  <2>5. ScreensShowOwnOutput'
    BY <2>1, <2>2 DEF ScreensShowOwnOutput, ScreenOf
  <2> QED
    BY <2>3, <2>4, <2>5 DEF IInv
<1> QED
  BY <1>1, <1>2 DEF Next, AtBound

\* The three facts together: pages and screens have their types, a mapping that
\* counts as its terminal's own leads to that terminal's page, and the screens
\* are right.
THEOREM Invariance == Spec => []IInv
<1>1. Init => IInv
  BY Initially
<1>2. IInv /\ [Next]_vars => IInv'
  BY StepKeeps
<1> QED
  BY <1>1, <1>2, PTL DEF Spec

\* No wrap, scroll, Backspace or tab takes the cursor off a page of any size,
\* and every page keeps NUM_ROWS lines of NUM_COLS characters.
THEOREM TypeCorrect == Spec => []TypeOK
<1>1. ASSUME Typed
      PROVE  TypeOK
  <2>1. ASSUME NEW t \in Term
        PROVE  /\ tty[t].text \in Seq(Chars \cup {Space}) /\ Len(tty[t].text) = Size
               /\ tty[t].at \in 0 .. Size - 1
    <3>1. tty[t] \in TtyState /\ Size \in Nat
      BY <1>1, SizeFacts DEF Typed
    <3>2. tty[t].text \in [1 .. Size -> Chars \cup {Space}] /\ tty[t].at \in 0 .. Size - 1
      BY <3>1 DEF TtyState, Glyph
    <3> QED
      BY <3>1, <3>2
  <2> QED
    BY <1>1, <2>1 DEF Typed, TypeOK, PageState
<1>2. IInv => TypeOK
  BY <1>1 DEF IInv
<1> QED
  BY <1>2, Invariance, PTL

\* Whatever is written, drawn, typed and switched, in whatever order, and for
\* screens of any size: every terminal shows its own output and no other's.
THEOREM ScreensShowTheirOwn == Spec => []ScreensShowOwnOutput
<1>1. IInv => ScreensShowOwnOutput
  BY DEF IInv
<1> QED
  BY <1>1, Invariance, PTL
=============================================================================
