------------------------ MODULE QuestionnaireProofs ------------------------
(***************************************************************************)
(* Theorems about the answers written into a questionnaire: for any table, *)
(* mapping and report they rest on conclusive checks of every account, and *)
(* what the customer wrote comes back.                                     *)
(***************************************************************************)
EXTENDS ScopeProofs

(* Columns. *)

LEMMA MaxIs ==
    ASSUME NEW S, S \subseteq Nat, S # {}, NEW n \in Nat, \A x \in S : x <= n
    PROVE  Max(S) \in S /\ \A x \in S : x <= Max(S)
<1> DEFINE T == {m \in Nat : \A x \in S : x <= m}
<1>1. PICK m \in T : \A k \in T : m <= k
  <2>1. T \subseteq Nat /\ T # {}
    OBVIOUS
  <2> HIDE DEF T
  <2> QED BY <2>1, LeastNat
<1>2. m \in S
  <2>1. SUFFICES ASSUME m \notin S PROVE FALSE
    OBVIOUS
  <2>2. \A x \in S : x <= m - 1
    BY <2>1
  <2>3. m - 1 \in Nat
    <3>1. PICK x \in S : TRUE
      OBVIOUS
    <3>2. x \in Nat /\ m \in Nat /\ x <= m - 1
      BY <2>2
    <3> QED BY <3>2
  <2>4. m <= m - 1
    BY <1>1, <2>2, <2>3
  <2> QED BY <2>4
<1>3. \A x \in S : m >= x
  OBVIOUS
<1>4. Max(S) \in S /\ \A x \in S : Max(S) >= x
  BY <1>2, <1>3 DEF Max
<1> QED BY <1>4

LEMMA ColumnIs ==
    ASSUME NEW kinds \in Seq(Kinds), NEW k
    PROVE  /\ Column(kinds, k) \in 0 .. Len(kinds)
           /\ Column(kinds, k) # 0 => kinds[Column(kinds, k)] = k
           /\ \A i \in 1 .. Len(kinds) : kinds[i] = k => i <= Column(kinds, k)
           /\ Column(kinds, k) # 0 <=> k \in Range(kinds)
<1> DEFINE S == {0} \cup {i \in DOMAIN kinds : kinds[i] = k}
<1>1. DOMAIN kinds = 1 .. Len(kinds) /\ Len(kinds) \in Nat
  OBVIOUS
<1>2. S \subseteq Nat /\ S # {} /\ \A x \in S : x <= Len(kinds)
  BY <1>1
<1>3. Max(S) \in S /\ \A x \in S : x <= Max(S)
  <2> HIDE DEF S
  <2> QED BY <1>1, <1>2, MaxIs
<1>4. Column(kinds, k) = Max(S)
  BY DEF Column
<1>5. /\ Column(kinds, k) \in 0 .. Len(kinds)
      /\ Column(kinds, k) # 0 => kinds[Column(kinds, k)] = k
      /\ \A i \in 1 .. Len(kinds) : kinds[i] = k => i <= Column(kinds, k)
  BY <1>1, <1>3, <1>4
<1> QED BY <1>1, <1>5 DEF Range

\* A table is extended to the right, and only by kinds that it does not have.
Extends(new, old) ==
    /\ new \in Seq(Kinds) /\ Len(old) <= Len(new)
    /\ \A i \in 1 .. Len(old) : new[i] = old[i]
    /\ \A i \in Len(old) + 1 .. Len(new) : new[i] \notin Range(old)

LEMMA AddColumnIs ==
    ASSUME NEW kinds \in Seq(Kinds), NEW k \in Kinds
    PROVE  /\ Extends(AddColumn(kinds, k), kinds)
           /\ Range(AddColumn(kinds, k)) = Range(kinds) \cup {k}
<1> DEFINE n == Len(kinds)
<1>1. n \in Nat /\ DOMAIN kinds = 1 .. n
  OBVIOUS
<1>2. CASE k \in Range(kinds)
  <2>1. AddColumn(kinds, k) = kinds
    BY <1>2 DEF AddColumn
  <2>2. Extends(kinds, kinds)
    BY <1>1 DEF Extends
  <2>3. Range(kinds) = Range(kinds) \cup {k}
    BY <1>2
  <2> QED BY <2>1, <2>2, <2>3
<1>3. CASE k \notin Range(kinds)
  <2> DEFINE new == Append(kinds, k)
  <2>1. /\ new \in Seq(Kinds) /\ Len(new) = n + 1 /\ DOMAIN new = 1 .. n + 1
        /\ new[n + 1] = k /\ \A i \in 1 .. n : new[i] = kinds[i]
    OBVIOUS
  <2>2. AddColumn(kinds, k) = new
    BY <1>3 DEF AddColumn
  <2> HIDE DEF new
  <2>3. Extends(new, kinds)
    <3>1. ASSUME NEW i \in n + 1 .. n + 1 PROVE new[i] \notin Range(kinds)
      <4>1. i = n + 1
        BY <1>1
      <4> QED BY <1>3, <2>1, <4>1
    <3> QED BY <1>1, <2>1, <3>1 DEF Extends
  <2>4. Range(new) = Range(kinds) \cup {k}
    <3>1. 1 .. n + 1 = (1 .. n) \cup {n + 1}
      BY <1>1
    <3>2. Range(new) = {new[i] : i \in 1 .. n} \cup {k}
      BY <2>1, <3>1 DEF Range
    <3>3. Range(kinds) = {new[i] : i \in 1 .. n}
      BY <1>1, <2>1 DEF Range
    <3> QED BY <3>2, <3>3
  <2> QED BY <2>2, <2>3, <2>4
<1> QED BY <1>2, <1>3

LEMMA ExtendsTwice ==
    ASSUME NEW a \in Seq(Kinds), NEW b, NEW c, Extends(b, a), Extends(c, b)
    PROVE  Extends(c, a)
<1>1. /\ Len(a) \in Nat /\ Len(b) \in Nat /\ Len(c) \in Nat /\ DOMAIN b = 1 .. Len(b)
      /\ DOMAIN a = 1 .. Len(a)
  BY DEF Extends
<1>2. Range(a) \subseteq Range(b)
  BY <1>1 DEF Extends, Range
<1>3. ASSUME NEW i \in Len(a) + 1 .. Len(c) PROVE c[i] \notin Range(a)
  <2>1. CASE i <= Len(b)
    BY <1>1, <2>1 DEF Extends
  <2>2. CASE i > Len(b)
    BY <1>1, <1>2, <2>2 DEF Extends
  <2> QED BY <1>1, <2>1, <2>2
<1> QED BY <1>1, <1>3 DEF Extends

OurKinds == {"answer", "evidence", "status", "confidence"}

LEMMA EnsureColumnsIs ==
    ASSUME NEW kinds \in Seq(Kinds)
    PROVE  /\ Extends(EnsureColumns(kinds), kinds)
           /\ Range(EnsureColumns(kinds)) = Range(kinds) \cup OurKinds
           /\ OurKinds \subseteq Range(kinds) => EnsureColumns(kinds) = kinds
<1> DEFINE a == AddColumn(kinds, "answer")
           b == AddColumn(a, "evidence")
           c == AddColumn(b, "status")
           d == AddColumn(c, "confidence")
<1>0. "answer" \in Kinds /\ "evidence" \in Kinds /\ "status" \in Kinds
      /\ "confidence" \in Kinds
  BY DEF Kinds
<1>1. Extends(a, kinds) /\ Range(a) = Range(kinds) \cup {"answer"}
  BY <1>0, AddColumnIs
<1> HIDE DEF a
<1>2. Extends(b, a) /\ Range(b) = Range(a) \cup {"evidence"}
  <2>1. a \in Seq(Kinds)
    BY <1>1 DEF Extends
  <2> QED BY <1>0, <2>1, AddColumnIs
<1> HIDE DEF b
<1>3. Extends(c, b) /\ Range(c) = Range(b) \cup {"status"}
  <2>1. b \in Seq(Kinds)
    BY <1>2 DEF Extends
  <2> QED BY <1>0, <2>1, AddColumnIs
<1> HIDE DEF c
<1>4. Extends(d, c) /\ Range(d) = Range(c) \cup {"confidence"}
  <2>1. c \in Seq(Kinds)
    BY <1>3 DEF Extends
  <2> QED BY <1>0, <2>1, AddColumnIs
<1> HIDE DEF d
<1>5. a \in Seq(Kinds) /\ b \in Seq(Kinds) /\ c \in Seq(Kinds)
  BY <1>1, <1>2, <1>3 DEF Extends
<1>6. Extends(d, kinds)
  BY <1>1, <1>2, <1>3, <1>4, <1>5, ExtendsTwice
<1>7. Range(d) = Range(kinds) \cup OurKinds
  BY <1>1, <1>2, <1>3, <1>4 DEF OurKinds
<1>8. EnsureColumns(kinds) = d
  BY DEF EnsureColumns, a, b, c, d
<1>9. OurKinds \subseteq Range(kinds) => EnsureColumns(kinds) = kinds
  BY DEF OurKinds, EnsureColumns, AddColumn
<1> QED BY <1>6, <1>7, <1>8, <1>9

\* A column that is there already stays where it is.
LEMMA ColumnStays ==
    ASSUME NEW old \in Seq(Kinds), NEW new, Extends(new, old), NEW k \in Range(old)
    PROVE  Column(new, k) = Column(old, k)
<1>1. new \in Seq(Kinds) /\ Len(old) \in Nat /\ Len(new) \in Nat /\ Len(old) <= Len(new)
  BY DEF Extends
<1> DEFINE p == Column(old, k)
           q == Column(new, k)
<1>2. p \in 1 .. Len(old) /\ old[p] = k /\ \A i \in 1 .. Len(old) : old[i] = k => i <= p
  BY ColumnIs
<1>3. q \in 0 .. Len(new) /\ (q # 0 => new[q] = k)
      /\ \A i \in 1 .. Len(new) : new[i] = k => i <= q
  BY <1>1, ColumnIs
<1> HIDE DEF p, q
<1>4. p \in 1 .. Len(new) /\ new[p] = k
  BY <1>1, <1>2 DEF Extends
<1>5. p <= q /\ q # 0 /\ new[q] = k
  BY <1>1, <1>2, <1>3, <1>4
<1>6. q <= Len(old)
  BY <1>1, <1>3, <1>5 DEF Extends
<1>7. old[q] = k
  BY <1>1, <1>3, <1>5, <1>6 DEF Extends
<1>8. q <= p
  BY <1>2, <1>3, <1>5, <1>6, <1>7
<1>9. p = q
  BY <1>1, <1>2, <1>3, <1>5, <1>8
<1> QED BY <1>9 DEF p, q
-----------------------------------------------------------------------------
(* Cells and rows. *)

Columns == Nat \ {0}

LEMMA LineIs ==
    ASSUME NEW line, IsLine(line)
    PROVE  /\ Len(line.cells) \in Nat /\ DOMAIN line.cells = 1 .. Len(line.cells)
           /\ \A j : IsCell(Cell(line, j))
<1>1. IsCell(Blank)
  BY DEF IsCell, Blank
<1> QED BY <1>1 DEF IsLine, Cell

LEMMA WidthIs ==
    ASSUME NEW a \in Nat, NEW b \in Nat
    PROVE  Max({a, b}) \in Nat /\ Max({a, b}) >= a /\ Max({a, b}) >= b
<1>1. {a, b} \subseteq Nat /\ {a, b} # {} /\ \A x \in {a, b} : x <= a + b
  OBVIOUS
<1>2. Max({a, b}) \in {a, b} /\ \A x \in {a, b} : x <= Max({a, b})
  BY <1>1, MaxIs
<1> QED BY <1>2

LEMMA PutIs ==
    ASSUME NEW line, IsLine(line), NEW col \in Columns, NEW value, IsCell(value)
    PROVE  /\ IsLine(Put(line, col, value))
           /\ Put(line, col, value).kinds = line.kinds
           /\ Put(line, col, value).question = line.question
           /\ Cell(Put(line, col, value), col) = value
           /\ \A j \in Columns \ {col} : Cell(Put(line, col, value), j) = Cell(line, j)
<1> DEFINE n == Len(line.cells)
           w == Max({col, n})
           cells == [i \in 1 .. w |-> Cell(line, i)]
           new == [cells EXCEPT ![col] = value]
           p == Put(line, col, value)
<1>1. n \in Nat /\ DOMAIN line.cells = 1 .. n /\ \A j : IsCell(Cell(line, j))
  BY LineIs
<1>2. w \in Nat /\ w >= col /\ w >= n
  BY <1>1, WidthIs DEF Columns
<1>3. p = [line EXCEPT !.cells = new]
  BY DEF Put
<1> HIDE DEF w, p
<1>4. /\ DOMAIN new = 1 .. w /\ new[col] = value
      /\ \A i \in (1 .. w) \ {col} : new[i] = Cell(line, i)
  BY <1>2 DEF Columns
<1>5. \A i \in 1 .. w : IsCell(new[i])
  BY <1>1, <1>4
<1>6. new \in Seq(Range(new))
  <2>1. new \in [1 .. w -> Range(new)]
    BY <1>4 DEF Range
  <2> HIDE DEF new
  <2> QED BY <1>2, <2>1
<1> HIDE DEF new
<1>7. /\ DOMAIN p = {"kinds", "question", "cells"} /\ p.cells = new /\ p.kinds = line.kinds
      /\ p.question = line.question
  BY <1>3 DEF IsLine
<1>8. IsLine(p)
  BY <1>4, <1>5, <1>6, <1>7 DEF IsLine
<1>9. col \in 1 .. w
  BY <1>2 DEF Columns
<1>10. Cell(p, col) = value
  BY <1>4, <1>7, <1>9 DEF Cell
<1>11. ASSUME NEW j \in Columns \ {col} PROVE Cell(p, j) = Cell(line, j)
  <2>1. CASE j <= w
    <3>1. j \in 1 .. w
      BY <1>2, <2>1 DEF Columns
    <3> QED BY <1>4, <1>7, <3>1 DEF Cell
  <2>2. CASE ~(j <= w)
    <3>1. j \notin 1 .. w /\ j \notin 1 .. n
      BY <1>1, <1>2, <2>2 DEF Columns
    <3> QED BY <1>1, <1>4, <1>7, <3>1 DEF Cell
  <2> QED BY <2>1, <2>2
<1> QED BY <1>7, <1>8, <1>10, <1>11 DEF p

LEMMA OverwriteIs ==
    ASSUME NEW line, IsLine(line), NEW col \in Columns, NEW what
    PROVE  /\ IsLine(Overwrite(line, col, what))
           /\ Overwrite(line, col, what).kinds = line.kinds
           /\ Overwrite(line, col, what).question = line.question
           /\ Cell(Overwrite(line, col, what), col) = [typed |-> FALSE, ours |-> what]
           /\ \A j \in Columns \ {col} : Cell(Overwrite(line, col, what), j) = Cell(line, j)
<1> DEFINE v == [typed |-> FALSE, ours |-> what]
           put == Put(line, col, v)
<1>1. IsCell(v)
  BY DEF IsCell
<1> HIDE DEF v
<1>2. /\ IsLine(put) /\ put.kinds = line.kinds /\ put.question = line.question
      /\ Cell(put, col) = v /\ \A j \in Columns \ {col} : Cell(put, j) = Cell(line, j)
  BY <1>1, PutIs
<1> HIDE DEF put
<1>3. Overwrite(line, col, what) = put
  BY DEF Overwrite, put, v
<1> QED BY <1>2, <1>3 DEF v

LEMMA AddUrlIs ==
    ASSUME NEW line, IsLine(line), NEW col \in Columns
    PROVE  /\ IsLine(AddUrl(line, col))
           /\ AddUrl(line, col).kinds = line.kinds
           /\ AddUrl(line, col).question = line.question
           /\ Cell(AddUrl(line, col), col).typed = Cell(line, col).typed
           /\ \A j \in Columns \ {col} : Cell(AddUrl(line, col), j) = Cell(line, j)
<1>1. IsCell(Cell(line, col))
  BY LineIs
<1>2. IsCell([typed |-> Cell(line, col).typed, ours |-> "url"])
  BY <1>1 DEF IsCell
<1> QED BY <1>2, PutIs DEF AddUrl

LEMMA OurColumns ==
    ASSUME NEW kinds \in Seq(Kinds), OurKinds \subseteq Range(kinds)
    PROVE  /\ \A k \in OurKinds : Column(kinds, k) \in Columns
           /\ \A k, m \in OurKinds : k # m => Column(kinds, k) # Column(kinds, m)
<1>1. \A k \in OurKinds : Column(kinds, k) \in Columns /\ kinds[Column(kinds, k)] = k
  BY ColumnIs DEF Columns
<1> QED BY <1>1

\* A row after processRows: where it was skipped or had an answer, and where not.
LEMMA RowIs ==
    ASSUME NEW kinds \in Seq(Kinds), OurKinds \subseteq Range(kinds), NEW line, IsLine(line)
    PROVE  LET row == ProcessRow(kinds, line)
               At(k) == Column(kinds, k)
               decision == Decide(line.question)
           IN  /\ IsLine(row) /\ row.kinds = line.kinds /\ row.question = line.question
               /\ Skipped(line.question) => row = line
               /\ \A j \in Columns \ {At(k) : k \in OurKinds} : Cell(row, j) = Cell(line, j)
               /\ Cell(row, At("evidence")).typed = Cell(line, At("evidence")).typed
               /\ ~Skipped(line.question) =>
                     Cell(row, At("status")).ours \in {"needs_human", decision.outcome}
               /\ Answered(kinds, line) => Cell(row, At("answer")) = Cell(line, At("answer"))
               /\ Cell(row, At("answer")).ours
                     \in {Cell(line, At("answer")).ours, decision.answer}
<1> DEFINE A == Column(kinds, "answer")
           E == Column(kinds, "evidence")
           S == Column(kinds, "status")
           C == Column(kinds, "confidence")
           d == Decide(line.question)
           row == ProcessRow(kinds, line)
           answered == IF d.answer = None THEN line ELSE Overwrite(line, A, d.answer)
           cited == IF d.url THEN AddUrl(answered, E) ELSE answered
           Review(ln, s, c) == Overwrite(Overwrite(ln, S, s), C, c)
<1>1. /\ A \in Columns /\ E \in Columns /\ S \in Columns /\ C \in Columns
      /\ A # E /\ A # S /\ A # C /\ E # S /\ E # C /\ S # C
      /\ {Column(kinds, k) : k \in OurKinds} = {A, E, S, C}
  BY OurColumns DEF OurKinds
<1> HIDE DEF A, E, S, C, d
<1>2. ASSUME NEW ln, IsLine(ln), NEW s, NEW c
      PROVE  /\ IsLine(Review(ln, s, c)) /\ Review(ln, s, c).kinds = ln.kinds
             /\ Review(ln, s, c).question = ln.question
             /\ Cell(Review(ln, s, c), S).ours = s
             /\ \A j \in Columns \ {S, C} : Cell(Review(ln, s, c), j) = Cell(ln, j)
  <2> DEFINE half == Overwrite(ln, S, s)
  <2>1. /\ IsLine(half) /\ half.kinds = ln.kinds /\ half.question = ln.question
        /\ Cell(half, S) = [typed |-> FALSE, ours |-> s]
        /\ \A j \in Columns \ {S} : Cell(half, j) = Cell(ln, j)
    BY <1>1, <1>2, OverwriteIs
  <2> HIDE DEF half
  <2> DEFINE whole == Overwrite(half, C, c)
  <2>2. /\ IsLine(whole) /\ whole.kinds = half.kinds /\ whole.question = half.question
        /\ \A j \in Columns \ {C} : Cell(whole, j) = Cell(half, j)
    BY <1>1, <2>1, OverwriteIs
  <2>3. Review(ln, s, c) = whole
    BY DEF half
  <2> HIDE DEF whole
  <2> QED BY <1>1, <2>1, <2>2, <2>3
<1>3. /\ IsLine(answered) /\ answered.kinds = line.kinds /\ answered.question = line.question
      /\ Cell(answered, A).ours \in {Cell(line, A).ours, d.answer}
      /\ \A j \in Columns \ {A} : Cell(answered, j) = Cell(line, j)
  <2>1. CASE d.answer = None
    BY <2>1
  <2>2. CASE d.answer # None
    BY <1>1, <2>2, OverwriteIs
  <2> QED BY <2>1, <2>2
<1> HIDE DEF answered
<1>4. /\ IsLine(cited) /\ cited.kinds = line.kinds /\ cited.question = line.question
      /\ Cell(cited, A) = Cell(answered, A)
      /\ Cell(cited, E).typed = Cell(line, E).typed
      /\ \A j \in Columns \ {A, E} : Cell(cited, j) = Cell(line, j)
  <2>1. CASE d.url
    <3> DEFINE added == AddUrl(answered, E)
    <3>1. /\ IsLine(added) /\ added.kinds = answered.kinds
          /\ added.question = answered.question
          /\ Cell(added, E).typed = Cell(answered, E).typed
          /\ \A j \in Columns \ {E} : Cell(added, j) = Cell(answered, j)
      BY <1>1, <1>3, AddUrlIs
    <3>2. cited = added
      BY <2>1
    <3> HIDE DEF added, cited
    <3> QED BY <1>1, <1>3, <3>1, <3>2
  <2>2. CASE ~d.url
    BY <1>1, <1>3, <2>2
  <2> QED BY <2>1, <2>2
<1> HIDE DEF cited, Review
<1>5. row = IF Skipped(line.question) THEN line
            ELSE IF Answered(kinds, line) THEN Review(line, "needs_human", "existing")
            ELSE Review(cited, d.outcome, d.method)
  BY DEF ProcessRow, A, E, S, C, d, answered, cited, Review
<1> HIDE DEF row
<1>6. Answered(kinds, line) <=> Cell(line, A) # Blank
  BY DEF Answered, A
<1> SUFFICES
       /\ IsLine(row) /\ row.kinds = line.kinds /\ row.question = line.question
       /\ Skipped(line.question) => row = line
       /\ \A j \in Columns \ {A, E, S, C} : Cell(row, j) = Cell(line, j)
       /\ Cell(row, E).typed = Cell(line, E).typed
       /\ ~Skipped(line.question) => Cell(row, S).ours \in {"needs_human", d.outcome}
       /\ Answered(kinds, line) => Cell(row, A) = Cell(line, A)
       /\ Cell(row, A).ours \in {Cell(line, A).ours, d.answer}
  BY <1>1 DEF row, A, E, S, C, d
<1>7. CASE Skipped(line.question)
  BY <1>5, <1>7
<1>8. CASE ~Skipped(line.question) /\ Answered(kinds, line)
  <2>1. row = Review(line, "needs_human", "existing")
    BY <1>5, <1>8
  <2> QED BY <1>1, <1>2, <1>8, <2>1
<1>9. CASE ~Skipped(line.question) /\ ~Answered(kinds, line)
  <2>1. row = Review(cited, d.outcome, d.method)
    BY <1>5, <1>9
  <2> QED BY <1>1, <1>2, <1>3, <1>4, <1>9, <2>1
<1> QED BY <1>7, <1>8, <1>9
-----------------------------------------------------------------------------
(* Tables. *)

LEMMA ScoreIs ==
    ASSUME NEW old, NEW new, Range(old) \subseteq Range(new)
    PROVE  /\ HeaderScore(old) \in Nat /\ HeaderScore(new) \in Nat
           /\ HeaderScore(old) <= HeaderScore(new)
<1> DEFINE K == {"control", "question", "answer", "evidence", "status", "confidence"}
           a == {"control"} \cup {"question"}
           b == a \cup {"answer"}
           c == b \cup {"evidence"}
           d == c \cup {"status"}
           e == d \cup {"confidence"}
<1>1. IsFiniteSet(a)
  BY FS_Singleton, FS_AddElement
<1>2. IsFiniteSet(b)
  BY <1>1, FS_AddElement
<1>3. IsFiniteSet(c)
  BY <1>2, FS_AddElement
<1>4. IsFiniteSet(d)
  BY <1>3, FS_AddElement
<1>5. IsFiniteSet(e)
  BY <1>4, FS_AddElement
<1>6. e = K
  OBVIOUS
<1> HIDE DEF K, e
<1>7. IsFiniteSet(Range(new) \cap K) /\ IsFiniteSet(Range(old) \cap K)
  BY <1>5, <1>6, FS_Subset
<1>8. Range(old) \cap K \in SUBSET (Range(new) \cap K)
  OBVIOUS
<1>9. /\ Cardinality(Range(old) \cap K) \in Nat /\ Cardinality(Range(new) \cap K) \in Nat
      /\ Cardinality(Range(old) \cap K) <= Cardinality(Range(new) \cap K)
  BY <1>7, <1>8, FS_Subset, FS_CardinalityType
<1> QED BY <1>9 DEF HeaderScore, K

LEMMA TableIs ==
    ASSUME NEW lines, IsTable(lines)
    PROVE  /\ Len(lines) \in Nat /\ DOMAIN lines = 1 .. Len(lines)
           /\ \A i \in DOMAIN lines : IsLine(lines[i]) /\ lines[i].kinds \in Seq(Kinds)
           /\ Headers(lines) \subseteq DOMAIN lines
           /\ \A g, h \in Headers(lines) : g = h
<1>1. Len(lines) \in Nat /\ DOMAIN lines = 1 .. Len(lines)
  BY DEF IsTable
<1>2. \A i \in DOMAIN lines : IsLine(lines[i]) /\ lines[i].kinds \in Seq(Kinds)
  BY DEF IsTable, IsLine
<1>3. Headers(lines) \subseteq DOMAIN lines
  BY DEF Headers
<1>4. \A g, h \in Headers(lines) : g <= h /\ h <= g
  BY DEF Headers
<1>5. \A g, h \in Headers(lines) : g = h
  BY <1>1, <1>3, <1>4
<1> QED BY <1>1, <1>2, <1>3, <1>5

\* A table as it comes back: every line is that of the upload, the header with the
\* columns that it did not have, the rows below as processRows leaves them.
LEMMA FilledIs ==
    ASSUME NEW lines, IsTable(lines), NEW h \in Headers(lines)
    PROVE  LET new == Filled(lines, h)
               kinds == EnsureColumns(lines[h].kinds)
           IN  /\ IsTable(new) /\ Len(new) = Len(lines) /\ DOMAIN new = DOMAIN lines
               /\ kinds \in Seq(Kinds) /\ OurKinds \subseteq Range(kinds)
               /\ new[h].kinds = kinds
               /\ \A j \in DOMAIN lines[h].kinds :
                     Cell(lines[h], j) \in {Blank, Cell(new[h], j)}
               /\ \A i \in DOMAIN lines : new[i].question = lines[i].question
               /\ \A i \in DOMAIN lines \ {h} : new[i].kinds = lines[i].kinds
               /\ \A i \in 1 .. h - 1 : new[i] = lines[i]
               /\ \A i \in h + 1 .. Len(lines) : new[i] = ProcessRow(kinds, lines[i])
<1> DEFINE new == Filled(lines, h)
           kinds == EnsureColumns(lines[h].kinds)
           head(j) == IF j <= Len(lines[h].cells) THEN lines[h].cells[j]
                      ELSE [typed |-> FALSE, ours |-> "header"]
           heads == [j \in DOMAIN kinds |-> head(j)]
           n == Len(lines)
<1>1. /\ n \in Nat /\ DOMAIN lines = 1 .. n /\ h \in 1 .. n
      /\ \A i \in 1 .. n : IsLine(lines[i])
      /\ lines[h].kinds \in Seq(Kinds)
  BY TableIs
<1>2. /\ kinds \in Seq(Kinds) /\ OurKinds \subseteq Range(kinds)
      /\ Len(lines[h].kinds) <= Len(kinds)
  BY <1>1, EnsureColumnsIs DEF Extends
<1>3. /\ DOMAIN new = 1 .. n
      /\ \A i \in 1 .. h - 1 : new[i] = lines[i]
      /\ \A i \in h + 1 .. n : new[i] = ProcessRow(kinds, lines[i])
      /\ new[h] = [lines[h] EXCEPT !.kinds = kinds, !.cells = heads]
  <2> HIDE DEF kinds
  <2>1. \A i \in 1 .. h - 1 : i \in 1 .. n /\ i < h
    BY <1>1
  <2>2. \A i \in h + 1 .. n : i \in 1 .. n /\ ~(i < h) /\ i # h
    BY <1>1
  <2>3. ~(h < h)
    BY <1>1
  <2> QED BY <1>1, <2>1, <2>2, <2>3 DEF Filled, kinds
<1> HIDE DEF new, kinds
<1>4. /\ DOMAIN new[h] = {"kinds", "question", "cells"} /\ new[h].kinds = kinds
      /\ new[h].question = lines[h].question /\ new[h].cells = heads
  BY <1>1, <1>3 DEF IsLine
<1>5. /\ Len(lines[h].cells) \in Nat
      /\ DOMAIN lines[h].cells = 1 .. Len(lines[h].cells)
      /\ \A j \in DOMAIN lines[h].cells : IsCell(lines[h].cells[j])
  BY <1>1, LineIs DEF IsLine
<1>6. DOMAIN kinds = 1 .. Len(kinds) /\ Len(kinds) \in Nat
  BY <1>2
<1>7. IsLine(new[h])
  <2>1. \A j \in DOMAIN heads : IsCell(heads[j])
    <3>1. ASSUME NEW j \in 1 .. Len(kinds) PROVE IsCell(head(j))
      <4>1. CASE j <= Len(lines[h].cells)
        BY <1>5, <1>6, <3>1, <4>1
      <4>2. CASE ~(j <= Len(lines[h].cells))
        BY <4>2 DEF IsCell
      <4> QED BY <4>1, <4>2
    <3> QED BY <1>6, <3>1
  <2>2. heads \in Seq(Range(heads))
    <3>1. heads \in [1 .. Len(kinds) -> Range(heads)]
      BY <1>6 DEF Range
    <3> HIDE DEF heads
    <3> QED BY <1>6, <3>1
  <2> HIDE DEF heads
  <2> QED BY <1>2, <1>4, <2>1, <2>2 DEF IsLine
<1>8. \A j \in DOMAIN lines[h].kinds : Cell(lines[h], j) \in {Blank, Cell(new[h], j)}
  <2> TAKE j \in DOMAIN lines[h].kinds
  <2>1. j \in 1 .. Len(kinds)
    BY <1>1, <1>2, <1>6
  <2>2. CASE j \in DOMAIN lines[h].cells
    <3>1. j <= Len(lines[h].cells)
      BY <1>5, <2>2
    <3> QED BY <1>4, <1>6, <2>1, <2>2, <3>1 DEF Cell
  <2>3. CASE j \notin DOMAIN lines[h].cells
    BY <2>3 DEF Cell
  <2> QED BY <2>2, <2>3
<1>9. ASSUME NEW i \in h + 1 .. n
      PROVE  /\ IsLine(new[i]) /\ new[i].kinds = lines[i].kinds
             /\ new[i].question = lines[i].question
  <2>1. IsLine(lines[i]) /\ new[i] = ProcessRow(kinds, lines[i])
    BY <1>1, <1>3
  <2> QED BY <1>2, <2>1, RowIs
<1>10. \A i \in (1 .. n) \ {h} : i \in 1 .. h - 1 \/ i \in h + 1 .. n
  BY <1>1
<1>11. \A i \in 1 .. n : IsLine(new[i]) /\ new[i].question = lines[i].question
  BY <1>1, <1>3, <1>4, <1>7, <1>9, <1>10
<1>12. \A i \in (1 .. n) \ {h} : new[i].kinds = lines[i].kinds
  BY <1>3, <1>9, <1>10
<1>13. IsTable(new) /\ Len(new) = n
  <2>1. new \in [1 .. n -> Range(new)]
    BY <1>1, <1>3 DEF Range, Filled, new
  <2>2. new \in Seq(Range(new)) /\ Len(new) = n
    BY <1>1, <2>1
  <2> QED BY <1>3, <1>11, <2>2 DEF IsTable
<1> QED BY <1>1, <1>2, <1>3, <1>4, <1>8, <1>11, <1>12, <1>13 DEF new, kinds

\* A table that came back has its header where the upload had it.
LEMMA HeaderStays ==
    ASSUME NEW lines, IsTable(lines), NEW h \in Headers(lines)
    PROVE  Headers(Filled(lines, h)) \subseteq {h}
<1> DEFINE new == Filled(lines, h)
           Asks(ls, i) == "question" \in Range(ls[i].kinds)
           Candidates(ls) == {i \in DOMAIN ls : Asks(ls, i)}
           At(ls, i) == HeaderScore(ls[i].kinds)
<1>1. /\ DOMAIN new = DOMAIN lines /\ h \in DOMAIN lines
      /\ new[h].kinds = EnsureColumns(lines[h].kinds)
      /\ \A i \in DOMAIN lines \ {h} : new[i].kinds = lines[i].kinds
      /\ Range(lines[h].kinds) \subseteq Range(new[h].kinds)
      /\ DOMAIN lines \subseteq Nat
  <2>1. /\ DOMAIN new = DOMAIN lines /\ h \in DOMAIN lines
        /\ new[h].kinds = EnsureColumns(lines[h].kinds)
        /\ \A i \in DOMAIN lines \ {h} : new[i].kinds = lines[i].kinds
        /\ lines[h].kinds \in Seq(Kinds) /\ DOMAIN lines \subseteq Nat
    BY FilledIs, TableIs
  <2> QED BY <2>1, EnsureColumnsIs
<1> HIDE DEF new
<1>2. /\ h \in Candidates(lines)
      /\ \A j \in Candidates(lines) : At(lines, j) <= At(lines, h)
      /\ \A g \in Candidates(lines) :
            (\A j \in Candidates(lines) : At(lines, j) <= At(lines, g)) => h <= g
  BY DEF Headers
<1>3. At(lines, h) <= At(new, h) /\ At(lines, h) \in Nat /\ At(new, h) \in Nat
  BY <1>1, ScoreIs
<1>4. \A j \in DOMAIN lines : At(lines, j) \in Nat
  BY ScoreIs
<1>5. h \in Candidates(new)
  BY <1>1, <1>2
<1>6. \A j \in Candidates(new) \ {h} : j \in Candidates(lines) /\ At(new, j) = At(lines, j)
  BY <1>1
<1>7. \A j \in Candidates(new) : At(new, j) <= At(new, h)
  <2> TAKE j \in Candidates(new)
  <2>1. CASE j = h
    BY <1>3, <2>1
  <2>2. CASE j # h
    <3>1. At(new, j) = At(lines, j) /\ At(lines, j) <= At(lines, h) /\ At(lines, j) \in Nat
      BY <1>1, <1>2, <1>4, <1>6, <2>2
    <3> HIDE DEF At
    <3> QED BY <1>3, <3>1
  <2> QED BY <2>1, <2>2
<1>8. ASSUME NEW g \in Headers(new) PROVE g = h
  <2>1. /\ g \in Candidates(new) /\ \A j \in Candidates(new) : At(new, j) <= At(new, g)
        /\ \A b \in Candidates(new) :
              (\A j \in Candidates(new) : At(new, j) <= At(new, b)) => g <= b
    BY DEF Headers
  <2>2. g <= h
    BY <1>5, <1>7, <2>1
  <2>3. SUFFICES ASSUME g # h PROVE FALSE
    OBVIOUS
  <2>4. g \in Candidates(lines) /\ At(new, g) = At(lines, g) /\ At(lines, g) \in Nat
    BY <1>1, <1>4, <1>6, <2>1, <2>3
  <2>5. At(new, h) <= At(new, g)
    BY <1>5, <2>1
  <2>6. At(lines, h) <= At(lines, g)
    <3> HIDE DEF At
    <3> QED BY <1>3, <2>4, <2>5
  <2>7. \A j \in Candidates(lines) : At(lines, j) <= At(lines, g)
    <3>1. \A j \in Candidates(lines) : At(lines, j) \in Nat /\ At(lines, j) <= At(lines, h)
      BY <1>2, <1>4
    <3> HIDE DEF At
    <3> QED BY <1>3, <2>4, <2>6, <3>1
  <2>8. h <= g
    BY <1>2, <2>4, <2>7
  <2> QED BY <1>1, <2>1, <2>2, <2>3, <2>8
<1> QED BY <1>8 DEF new
-----------------------------------------------------------------------------
(* Answers and outcomes. *)

LEMMA OutcomeIs ==
    ASSUME NEW q
    PROVE  Decide(q).outcome \in Outcomes
BY DEF Decide, NeedsHuman, Outcomes

\* An accepted report has at least one result under each of its checks, and its
\* summaries are the worst of them.
LEMMA AcceptedChecks ==
    ASSUME ScanInv, pc = "accepted", NEW c \in DOMAIN rep.checks
    PROVE  /\ SummaryOf(c) = Worst(Range(rep.checks[c]))
           /\ Range(rep.checks[c]) \subseteq Statuses /\ Range(rep.checks[c]) # {}
           /\ rep.orgVerified /\ c \in AwsChecks => rep.listed = DOMAIN rep.checks[c]
<1>1. /\ Visiting /\ ~Gathering /\ todo = {}
  BY DEF Visiting, Gathering, ScanInv, VisitInv
<1>2. /\ SummaryOf(c) = Worst(Range(rep.checks[c]))
      /\ Range(rep.checks[c]) \subseteq Statuses
  BY <1>1 DEF ScanInv, SummaryInv, SummaryOf
<1>3. c \in AwsChecks => DOMAIN rep.checks[c] = Boundary
  BY <1>1 DEF ScanInv, VisitInv
<1>4. DOMAIN rep.checks[c] # {}
  <2>1. CASE c \in AwsChecks
    BY <1>3, <2>1 DEF Boundary, ScanInv, OrganizationInv
  <2>2. CASE c \notin AwsChecks
    <3>1. PICK p \in Providers : c \in ChecksOf[p] /\ rep.scopes[p] # NoScope
      BY <2>2 DEF ScanInv, ProvidersInv
    <3> QED BY <3>1 DEF ScanInv, ProvidersInv
  <2> QED BY <2>1, <2>2
<1>5. Range(rep.checks[c]) # {}
  BY <1>4 DEF Range
<1> QED BY <1>2, <1>3, <1>5 DEF Boundary

\* What AnswersSupported says of one answer.
Supported(q, answer) ==
    LET found == UNION {Range(rep.checks[c]) : c \in answer.checks}
    IN  /\ answer.checks = AuditRow(q).checks
        /\ answer.checks # {} /\ answer.checks \subseteq DOMAIN rep.checks
        /\ "error" \notin found
        /\ answer.text = "no" <=> "fail" \in found
        /\ answer.text = "not applicable" <=> found = {"not_in_use"}
        /\ rep.orgVerified => \A c \in answer.checks \cap AwsChecks :
                                 rep.listed = DOMAIN rep.checks[c]
        /\ answer.partial <=> RestrictedTopic(q) = "policy"
        /\ RestrictedTopic(q) \in {"", "policy"}

LEMMA AnswerIsSupported ==
    ASSUME ScanInv, pc = "accepted", NEW q, Decide(q).answer # None
    PROVE  Supported(q, Decide(q).answer)
<1> DEFINE M == Matched(q)
           found == UNION {Range(rep.checks[c]) : c \in M}
           a == Decide(q).answer
<1>1. Method(q) \in {"exact", "keyword"}
  BY DEF Decide, NeedsHuman
<1>2. \A c \in M : ~Inconclusive(c)
  BY <1>1 DEF Decide
<1>3. /\ a.checks = M /\ a.partial = CompoundPolicy(q)
      /\ a.text = IF \E c \in M : SummaryOf(c) = "fail" THEN "no"
                  ELSE IF \A c \in M : SummaryOf(c) = "not_in_use" THEN "not applicable"
                  ELSE "yes"
  BY <1>1, <1>2 DEF Decide
<1>4. M # {} /\ ~Restricted(q) /\ AuditRow(q).checks = M
  BY <1>1 DEF Method, Matched, AuditRow
<1> HIDE DEF M, a
<1>5. M \subseteq DOMAIN rep.checks
  <2>1. \A c \in M : c \in DOMAIN rep.summary
    BY <1>2 DEF Inconclusive, SummaryOf
  <2> QED BY <2>1 DEF ScanInv, SummaryInv
<1>6. ASSUME NEW c \in M
      PROVE  /\ SummaryOf(c) = Worst(Range(rep.checks[c])) /\ SummaryOf(c) # "error"
             /\ Range(rep.checks[c]) \subseteq Statuses /\ Range(rep.checks[c]) # {}
             /\ rep.orgVerified /\ c \in AwsChecks => rep.listed = DOMAIN rep.checks[c]
  BY <1>2, <1>5, AcceptedChecks DEF Inconclusive
<1>7. ASSUME NEW c \in M
      PROVE  /\ "error" \notin Range(rep.checks[c])
             /\ SummaryOf(c) = "fail" <=> "fail" \in Range(rep.checks[c])
             /\ SummaryOf(c) = "not_in_use" <=> Range(rep.checks[c]) = {"not_in_use"}
  BY <1>6 DEF Worst, Statuses
<1>8. "error" \notin found
  BY <1>7
<1>9. a.text = "no" <=> "fail" \in found
  <2>1. a.text = "no" <=> \E c \in M : SummaryOf(c) = "fail"
    BY <1>3
  <2> QED BY <1>7, <2>1
<1>10. a.text = "not applicable" <=> found = {"not_in_use"}
  <2>1. a.text = "not applicable" <=> \A c \in M : SummaryOf(c) = "not_in_use"
    BY <1>3, <1>4
  <2>2. (\A c \in M : SummaryOf(c) = "not_in_use") => found = {"not_in_use"}
    BY <1>4, <1>7
  <2>3. ASSUME found = {"not_in_use"}, NEW c \in M PROVE SummaryOf(c) = "not_in_use"
    <3>1. Range(rep.checks[c]) \subseteq {"not_in_use"}
      BY <2>3
    <3> QED BY <1>6, <1>7, <3>1
  <2> QED BY <2>1, <2>2, <2>3
<1>11. /\ CompoundPolicy(q) <=> RestrictedTopic(q) = "policy"
       /\ RestrictedTopic(q) \in {"", "policy"}
  BY <1>4 DEF Restricted, CompoundPolicy
<1> HIDE DEF found
<1>12. UNION {Range(rep.checks[c]) : c \in a.checks} = found
  BY <1>3 DEF found
<1>13. rep.orgVerified => \A c \in a.checks \cap AwsChecks : rep.listed = DOMAIN rep.checks[c]
  BY <1>3, <1>6
<1>14. Supported(q, a)
  BY <1>3, <1>4, <1>5, <1>8, <1>9, <1>10, <1>11, <1>12, <1>13 DEF Supported
<1> QED BY <1>14 DEF a

\* The totals add up to the rows that they count apart.
CountsApart(S, rows, t) ==
    /\ \A x \in S : IsFiniteSet(rows[x]) /\ t[x] = Cardinality(rows[x])
    /\ \A x, y \in S : x # y => rows[x] \cap rows[y] = {}

\* The rows of the elements of s.
RowsOf(rows, s) == UNION {rows[x] : x \in s}

LEMMA RowsOfOneMore ==
    ASSUME NEW S, NEW rows, NEW t, CountsApart(S, rows, t), NEW s \in SUBSET S, s # {}
    PROVE  /\ First(s) \in S /\ s \ {First(s)} \in SUBSET S
           /\ IsFiniteSet(rows[First(s)]) /\ t[First(s)] = Cardinality(rows[First(s)])
           /\ RowsOf(rows, s) = rows[First(s)] \cup RowsOf(rows, s \ {First(s)})
           /\ rows[First(s)] \cap RowsOf(rows, s \ {First(s)}) = {}
<1>1. First(s) \in s
  BY DEF First
<1>2. s = {First(s)} \cup (s \ {First(s)})
  BY <1>1
<1>3. RowsOf(rows, s) = rows[First(s)] \cup RowsOf(rows, s \ {First(s)})
  BY <1>2 DEF RowsOf
<1>4. \A x \in s \ {First(s)} : rows[First(s)] \cap rows[x] = {}
  BY <1>1 DEF CountsApart
<1>5. rows[First(s)] \cap RowsOf(rows, s \ {First(s)}) = {}
  BY <1>4 DEF RowsOf
<1> QED BY <1>1, <1>3, <1>5 DEF CountsApart

LEMMA RowsAreFinite ==
    ASSUME NEW S, IsFiniteSet(S), NEW rows, NEW t, CountsApart(S, rows, t)
    PROVE  \A s \in SUBSET S : IsFiniteSet(RowsOf(rows, s))
<1>1. PICK f : f = [s \in SUBSET S |-> IF IsFiniteSet(RowsOf(rows, s)) THEN 1 ELSE 0]
  OBVIOUS
<1>2. PICK g : g = [s \in SUBSET S |-> 1]
  OBVIOUS
<1>3. RowsOf(rows, {}) = {}
  BY DEF RowsOf
<1>4. f[{}] = g[{}]
  BY <1>1, <1>2, <1>3, FS_EmptySet
<1>5. \A s \in SUBSET S : s # {} /\ f[s \ {First(s)}] = g[s \ {First(s)}] => f[s] = g[s]
  <2> SUFFICES ASSUME NEW s \in SUBSET S, s # {}, f[s \ {First(s)}] = g[s \ {First(s)}]
               PROVE  f[s] = g[s]
    OBVIOUS
  <2> DEFINE a == rows[First(s)]
             b == RowsOf(rows, s \ {First(s)})
  <2>1. s \ {First(s)} \in SUBSET S /\ IsFiniteSet(a) /\ RowsOf(rows, s) = a \cup b
    BY RowsOfOneMore, SMTT(30)
  <2>2. IsFiniteSet(b)
    BY <1>1, <1>2, <2>1
  <2> HIDE DEF a, b
  <2>3. IsFiniteSet(a \cup b)
    BY <2>1, <2>2, FS_Union
  <2> QED BY <1>1, <1>2, <2>1, <2>3
<1>6. \A s \in SUBSET S : f[s] = g[s]
  BY <1>4, <1>5, FoldIsUnique, SMTT(30)
<1> TAKE s \in SUBSET S
<1>7. f[s] = 1
  BY <1>2, <1>6
<1> QED BY <1>1, <1>7

Sum(t, S) == MapThenSumSet(LAMBDA o : t[o], S)

LEMMA SumOfDisjoint ==
    ASSUME NEW S, IsFiniteSet(S), NEW rows, NEW t, CountsApart(S, rows, t)
    PROVE  Sum(t, S) = Cardinality(RowsOf(rows, S))
<1> DEFINE step(f, s) == IF s = {} THEN 0 ELSE t[First(s)] + f[s \ {First(s)}]
           loop == CHOOSE f : f = [s \in SUBSET S |-> step(f, s)]
<1>1. Sum(t, S) = loop[S]
  BY DEF Sum, MapThenSumSet, MapThenFoldSet, First
<1>2. PICK W : W = [s \in SUBSET S |-> Cardinality(RowsOf(rows, s))]
  OBVIOUS
<1>3. ASSUME NEW s \in SUBSET S, s # {}
      PROVE  W[s] = t[First(s)] + W[s \ {First(s)}]
  <2> DEFINE a == rows[First(s)]
             b == RowsOf(rows, s \ {First(s)})
  <2>1. /\ IsFiniteSet(a) /\ a \cap b = {} /\ RowsOf(rows, s) = a \cup b
        /\ t[First(s)] = Cardinality(a) /\ s \ {First(s)} \in SUBSET S
    BY <1>3, RowsOfOneMore
  <2>2. IsFiniteSet(b)
    BY <2>1, RowsAreFinite
  <2>3. W[s] = Cardinality(a \cup b) /\ W[s \ {First(s)}] = Cardinality(b)
    BY <1>2, <2>1
  <2> HIDE DEF a, b
  <2>4. /\ Cardinality(a \cup b) = Cardinality(a) + Cardinality(b) - Cardinality(a \cap b)
        /\ Cardinality(a \cap b) = 0 /\ Cardinality(a) \in Nat /\ Cardinality(b) \in Nat
    BY <2>1, <2>2, FS_Union, FS_EmptySet, FS_CardinalityType
  <2> QED BY <2>1, <2>3, <2>4
<1>4. W[{}] = 0
  <2>1. RowsOf(rows, {}) = {}
    BY DEF RowsOf
  <2> QED BY <1>2, <2>1, FS_EmptySet
<1>5. W = [s \in SUBSET S |-> step(W, s)]
  BY <1>2, <1>3, <1>4
<1>6. loop = [s \in SUBSET S |-> step(loop, s)]
  <2> HIDE DEF step
  <2> QED BY <1>5
<1> HIDE DEF loop
<1>7. loop[{}] = W[{}]
  BY <1>4, <1>6
<1>8. \A s \in SUBSET S : s # {} /\ loop[s \ {First(s)}] = W[s \ {First(s)}] => loop[s] = W[s]
  BY <1>3, <1>6
<1>9. \A s \in SUBSET S : loop[s] = W[s]
  BY <1>7, <1>8, FoldIsUnique, SMTT(30)
<1>10. loop[S] = Cardinality(RowsOf(rows, S))
  BY <1>2, <1>9
<1> QED BY <1>1, <1>10
-----------------------------------------------------------------------------
(* The invariant of the table that came back. *)

\* In the answer column under a header stands what the customer left there or
\* what the report decides of the question.
Sourced(lines) ==
    \A h \in Headers(lines) : \A i \in h + 1 .. Len(lines) :
        Cell(lines[i], Column(EnsureColumns(lines[h].kinds), "answer")).ours
            \in {None, Decide(lines[i].question).answer}

\* What comes back of lines, whatever the report says.
Returned(lines, new, h) ==
    LET kinds == EnsureColumns(lines[h].kinds)
        At(k) == Column(kinds, k)
    IN  /\ DOMAIN new = DOMAIN lines /\ new[h].kinds = kinds
        /\ \A i \in DOMAIN lines : new[i].question = lines[i].question
        /\ \A i \in 1 .. h, j \in DOMAIN lines[h].kinds :
              Cell(lines[i], j) \in {Blank, Cell(new[i], j)}
        /\ \A i \in h + 1 .. Len(lines) :
              /\ \A j \in Columns \ {At(k) : k \in OurKinds} :
                    Cell(new[i], j) = Cell(lines[i], j)
              /\ Cell(new[i], At("evidence")).typed = Cell(lines[i], At("evidence")).typed
              /\ ~Skipped(lines[i].question) => Cell(new[i], At("status")).ours \in Outcomes
              /\ Cell(lines[i], At("answer")) \in {Blank, Cell(new[i], At("answer"))}

SheetInv ==
    /\ totals \in [Outcomes -> Nat] /\ fills \in 0 .. MaxFills
    /\ sheet # None =>
          /\ pc = "accepted" /\ IsTable(sheet) /\ Sourced(sheet) /\ IsTable(uploaded)
          /\ \A h \in Headers(sheet) : OurKinds \subseteq Range(sheet[h].kinds)
          /\ \E h \in Headers(uploaded) : /\ Returned(uploaded, sheet, h)
                                          /\ totals = Totals(sheet, h)

\* What TypeOK adds to the invariant of the scan.
StepInv ==
    /\ pc \in {"identify", "organization", "accounts", "aggregate",
               "providers", "sealed", "failed", "accepted", "rejected"}
    /\ enabled \subseteq Providers
    /\ \A c \in DOMAIN rep.summary : rep.summary[c] \in Statuses

LEMMA FilledIsReturned ==
    ASSUME NEW lines, IsTable(lines), NEW h \in Headers(lines)
    PROVE  Returned(lines, Filled(lines, h), h)
<1> DEFINE new == Filled(lines, h)
           kinds == EnsureColumns(lines[h].kinds)
           At(k) == Column(kinds, k)
<1>1. /\ DOMAIN lines = 1 .. Len(lines) /\ Len(lines) \in Nat /\ h \in 1 .. Len(lines)
      /\ \A i \in DOMAIN lines : IsLine(lines[i])
  BY TableIs
<1>2. /\ DOMAIN new = DOMAIN lines /\ new[h].kinds = kinds
      /\ kinds \in Seq(Kinds) /\ OurKinds \subseteq Range(kinds)
      /\ \A i \in DOMAIN lines : new[i].question = lines[i].question
      /\ \A j \in DOMAIN lines[h].kinds : Cell(lines[h], j) \in {Blank, Cell(new[h], j)}
      /\ \A i \in 1 .. h - 1 : new[i] = lines[i]
      /\ \A i \in h + 1 .. Len(lines) : new[i] = ProcessRow(kinds, lines[i])
  BY FilledIs
<1> HIDE DEF new, kinds
<1>3. ASSUME NEW i \in 1 .. h, NEW j \in DOMAIN lines[h].kinds
      PROVE  Cell(lines[i], j) \in {Blank, Cell(new[i], j)}
  <2>1. CASE i = h
    BY <1>2, <2>1
  <2>2. CASE i # h
    <3>1. i \in 1 .. h - 1
      BY <1>1, <2>2
    <3> QED BY <1>2, <3>1
  <2> QED BY <2>1, <2>2
<1>4. ASSUME NEW i \in h + 1 .. Len(lines)
      PROVE  /\ \A j \in Columns \ {At(k) : k \in OurKinds} :
                   Cell(new[i], j) = Cell(lines[i], j)
             /\ Cell(new[i], At("evidence")).typed = Cell(lines[i], At("evidence")).typed
             /\ ~Skipped(lines[i].question) => Cell(new[i], At("status")).ours \in Outcomes
             /\ Cell(lines[i], At("answer")) \in {Blank, Cell(new[i], At("answer"))}
  <2> DEFINE line == lines[i]
             row == ProcessRow(kinds, line)
  <2>1. i \in DOMAIN lines
    BY <1>1
  <2>2. IsLine(line) /\ new[i] = row
    BY <1>1, <1>2, <2>1
  <2>3. /\ \A j \in Columns \ {At(k) : k \in OurKinds} : Cell(row, j) = Cell(line, j)
        /\ Cell(row, At("evidence")).typed = Cell(line, At("evidence")).typed
        /\ ~Skipped(line.question) =>
              Cell(row, At("status")).ours \in {"needs_human", Decide(line.question).outcome}
        /\ Answered(kinds, line) => Cell(row, At("answer")) = Cell(line, At("answer"))
    BY <1>2, <2>2, RowIs
  <2>4. "needs_human" \in Outcomes /\ Decide(line.question).outcome \in Outcomes
    BY OutcomeIs DEF Outcomes
  <2> HIDE DEF row
  <2> QED BY <2>2, <2>3, <2>4 DEF Answered
<1> QED BY <1>2, <1>3, <1>4 DEF Returned, new, kinds

LEMMA FilledIsSourced ==
    ASSUME NEW lines, IsTable(lines), NEW h \in Headers(lines), Sourced(lines)
    PROVE  Sourced(Filled(lines, h))
<1> DEFINE new == Filled(lines, h)
           kinds == EnsureColumns(lines[h].kinds)
           A == Column(kinds, "answer")
<1>1. /\ DOMAIN lines = 1 .. Len(lines) /\ Len(lines) \in Nat /\ h \in 1 .. Len(lines)
      /\ \A i \in DOMAIN lines : IsLine(lines[i])
  BY TableIs
<1>2. /\ Len(new) = Len(lines) /\ new[h].kinds = kinds
      /\ kinds \in Seq(Kinds) /\ OurKinds \subseteq Range(kinds)
      /\ \A i \in DOMAIN lines : new[i].question = lines[i].question
      /\ \A i \in h + 1 .. Len(lines) : new[i] = ProcessRow(kinds, lines[i])
  BY FilledIs
<1>3. Headers(new) \subseteq {h}
  BY HeaderStays
<1>4. EnsureColumns(new[h].kinds) = kinds
  <2> HIDE DEF kinds, new
  <2> QED BY <1>2, EnsureColumnsIs
<1>5. ASSUME NEW i \in h + 1 .. Len(lines)
      PROVE  Cell(new[i], A).ours \in {None, Decide(new[i].question).answer}
  <2> DEFINE line == lines[i]
             row == ProcessRow(kinds, line)
  <2>1. i \in DOMAIN lines
    BY <1>1
  <2>2. IsLine(line) /\ new[i] = row /\ new[i].question = line.question
    BY <1>1, <1>2, <2>1
  <2>3. Cell(row, A).ours \in {Cell(line, A).ours, Decide(line.question).answer}
    BY <1>2, <2>2, RowIs
  <2>4. Cell(line, A).ours \in {None, Decide(line.question).answer}
    BY DEF Sourced
  <2> HIDE DEF row, new, line, A
  <2> QED BY <2>2, <2>3, <2>4
<1> HIDE DEF new, kinds
<1> QED BY <1>2, <1>3, <1>4, <1>5 DEF Sourced, new

LEMMA UploadIsSourced ==
    ASSUME NEW lines \in Sheets
    PROVE  IsTable(lines) /\ Sourced(lines)
<1>1. IsTable(lines)
  BY SheetsAssumption
<1>2. ASSUME NEW i \in DOMAIN lines, NEW col PROVE Cell(lines[i], col).ours = None
  BY SheetsAssumption DEF Cell, Blank
<1>3. ASSUME NEW h \in Headers(lines), NEW i \in h + 1 .. Len(lines) PROVE i \in DOMAIN lines
  BY <1>1, TableIs
<1> QED BY <1>1, <1>2, <1>3 DEF Sourced

\* The rows counted under one outcome.
Counted(lines, h, o) ==
    {i \in h + 1 .. Len(lines) :
        /\ ~Skipped(lines[i].question)
        /\ Cell(lines[i], Column(lines[h].kinds, "status")).ours = o}

LEMMA TotalsIs ==
    ASSUME NEW lines, IsTable(lines), NEW h \in DOMAIN lines
    PROVE  /\ Totals(lines, h) \in [Outcomes -> Nat]
           /\ \A o \in Outcomes : /\ IsFiniteSet(Counted(lines, h, o))
                                  /\ Totals(lines, h)[o] = Cardinality(Counted(lines, h, o))
<1>1. IsFiniteSet(h + 1 .. Len(lines))
  <2>1. h + 1 \in Int /\ Len(lines) \in Int
    BY TableIs
  <2> QED BY <2>1, FS_Interval
<1>2. \A o : Counted(lines, h, o) \in SUBSET (h + 1 .. Len(lines))
  BY DEF Counted
<1>3. \A o : IsFiniteSet(Counted(lines, h, o)) /\ Cardinality(Counted(lines, h, o)) \in Nat
  BY <1>1, <1>2, FS_Subset, FS_CardinalityType
<1>4. Totals(lines, h) = [o \in Outcomes |-> Cardinality(Counted(lines, h, o))]
  BY DEF Totals, Counted
<1> QED BY <1>3, <1>4
-----------------------------------------------------------------------------
(* Steps. *)

\* What is decided of a question depends on the report alone.
LEMMA ReportDecides ==
    ASSUME UNCHANGED rep
    PROVE  \A q : Decide(q)' = Decide(q)
<1>1. \A c : SummaryOf(c)' = SummaryOf(c)
  BY DEF SummaryOf
<1>2. \A c : Inconclusive(c)' <=> Inconclusive(c)
  BY DEF Inconclusive, SummaryOf
<1>3. ASSUME NEW q PROVE Decide(q)' = Decide(q)
  BY DEF Decide, Inconclusive, SummaryOf
<1> QED BY <1>3

LEMMA ReportKeepsSheet ==
    ASSUME SheetInv, UNCHANGED <<pc, rep>>, UNCHANGED sheetVars
    PROVE  SheetInv'
<1>1. UNCHANGED <<uploaded, sheet, totals, fills>>
  BY DEF sheetVars
<1>2. Sourced(sheet) => Sourced(sheet)'
  BY <1>1, ReportDecides DEF Sourced
<1> QED BY <1>1, <1>2 DEF SheetInv

LEMMA ScanKeepsSheet == SheetInv /\ Next /\ UNCHANGED sheetVars => SheetInv'
<1> SUFFICES ASSUME SheetInv, Next, UNCHANGED sheetVars PROVE SheetInv'
  OBVIOUS
<1>1. CASE sheet = None
  BY <1>1 DEF SheetInv, sheetVars
<1>2. CASE sheet # None
  <2>1. pc = "accepted"
    BY <1>2 DEF SheetInv
  <2>2. UNCHANGED vars
    BY <2>1 DEF Next, Identify, OrganizationListed, OrganizationNotInUse,
                OrganizationUnverified, ScanAccount, MemberRoleRefused, Aggregate,
                ScanProvider, ProviderFails, Attest, HandleCreateVerdict, Done
  <2> QED BY <2>2, ReportKeepsSheet DEF vars
<1> QED BY <1>1, <1>2

LEMMA AutofillKeepsSheet == SheetInv /\ Autofill => SheetInv'
<1> SUFFICES ASSUME SheetInv, Autofill PROVE SheetInv'
  OBVIOUS
<1>1. /\ pc = "accepted" /\ UNCHANGED <<pc, rep>> /\ fills' = fills - 1
      /\ fills' \in 0 .. MaxFills
  BY MappingsAssumption DEF Autofill, vars, SheetInv
<1>2. PICK lines \in IF sheet = None THEN Sheets ELSE {sheet} :
         IF Headers(lines) = {} THEN UNCHANGED <<uploaded, sheet, totals>>
         ELSE \E h \in Headers(lines) : /\ uploaded' = lines
                                        /\ sheet' = Filled(lines, h)
                                        /\ totals' = Totals(sheet', h)
  BY DEF Autofill
<1>3. IsTable(lines) /\ Sourced(lines)
  <2>1. CASE sheet = None
    BY <1>2, <2>1, UploadIsSourced
  <2>2. CASE sheet # None
    BY <1>2, <2>2 DEF SheetInv
  <2> QED BY <2>1, <2>2
<1>4. CASE UNCHANGED <<uploaded, sheet, totals>>
  <2>1. Sourced(sheet) => Sourced(sheet)'
    BY <1>1, <1>4, ReportDecides DEF Sourced
  <2> QED BY <1>1, <1>4, <2>1 DEF SheetInv
<1>5. CASE Headers(lines) # {}
  <2>1. PICK h \in Headers(lines) : /\ uploaded' = lines /\ sheet' = Filled(lines, h)
                                    /\ totals' = Totals(sheet', h)
    BY <1>2, <1>5
  <2> DEFINE new == Filled(lines, h)
  <2>2. IsTable(new) /\ DOMAIN new = DOMAIN lines
    BY <1>3, FilledIs
  <2>3. Returned(lines, new, h)
    BY <1>3, FilledIsReturned
  <2>4. Sourced(new)
    BY <1>3, FilledIsSourced
  <2>5. h \in DOMAIN new
    BY <1>3, <2>2, TableIs
  <2>6. sheet' = new /\ \A g \in Headers(new) : OurKinds \subseteq Range(new[g].kinds)
    BY <1>3, <2>1, FilledIs, HeaderStays
  <2> HIDE DEF new
  <2>7. Totals(new, h) \in [Outcomes -> Nat]
    BY <2>2, <2>5, TotalsIs
  <2>8. Sourced(sheet)'
    BY <1>1, <2>4, <2>6, ReportDecides DEF Sourced
  <2> QED BY <1>1, <1>3, <2>1, <2>2, <2>3, <2>6, <2>7, <2>8 DEF SheetInv
<1> QED BY <1>2, <1>4, <1>5

LEMMA NextStep == ScanInv /\ StepInv /\ [FillNext]_<<vars, sheetVars>> => StepInv'
<1> SUFFICES ASSUME ScanInv, StepInv, [FillNext]_<<vars, sheetVars>> PROVE StepInv'
  OBVIOUS
<1>1. CASE UNCHANGED vars
  BY <1>1 DEF vars, StepInv
<1>2. CASE Identify \/ OrganizationListed \/ OrganizationNotInUse \/ OrganizationUnverified
           \/ ScanAccount \/ MemberRoleRefused
  <2>1. /\ rep'.summary = rep.summary /\ UNCHANGED enabled
        /\ pc' \in {"organization", "accounts", "aggregate"}
    BY <1>2 DEF Identify, OrganizationListed, OrganizationNotInUse, OrganizationUnverified,
                ScanAccount, MemberRoleRefused, Visited, ScanInv, ReportInv, IsRep
  <2> QED BY <2>1 DEF StepInv
<1>3. CASE Aggregate \/ \E p \in Providers : ScanProvider(p)
  <2>1. ScanInv'
    BY <1>3, NextScan DEF Next
  <2>2. pc' = "providers" /\ enabled' \subseteq enabled
    BY <1>3 DEF Aggregate, ScanProvider
  <2>3. ~Gathering'
    BY <2>2 DEF Gathering
  <2>4. \A c \in DOMAIN rep'.summary : rep'.summary[c] = Worst(Range(rep'.checks[c]))
    BY <2>1, <2>3 DEF ScanInv, SummaryInv
  <2>5. \A c \in DOMAIN rep'.summary : rep'.summary[c] \in Statuses
    BY <2>4, WorstIsStatus
  <2> QED BY <2>2, <2>5 DEF StepInv
<1>4. CASE ProviderFails \/ Attest \/ HandleCreateVerdict
  BY <1>4 DEF ProviderFails, Attest, HandleCreateVerdict, StepInv
<1> QED BY <1>1, <1>2, <1>3, <1>4 DEF FillNext, Next, Done, Autofill, vars

LEMMA InvariantsHold == FillSpec => [](ScanInv /\ StepInv /\ SheetInv)
<1>1. FillInit => StepInv
  BY DEF FillInit, Init, StepInv, Statuses
<1>2. FillInit => SheetInv
  BY MappingsAssumption DEF FillInit, SheetInv
<1>3. SheetInv /\ [FillNext]_<<vars, sheetVars>> => SheetInv'
  <2>1. SheetInv /\ UNCHANGED <<vars, sheetVars>> => SheetInv'
    BY ReportKeepsSheet DEF vars
  <2> QED BY <2>1, ScanKeepsSheet, AutofillKeepsSheet DEF FillNext
<1>4. FillSpec => []StepInv
  BY <1>1, NextStep, ScanInvHolds, PTL DEF FillSpec
<1>5. FillSpec => []SheetInv
  BY <1>2, <1>3, PTL DEF FillSpec
<1> QED BY <1>4, <1>5, ScanInvHolds, PTL
-----------------------------------------------------------------------------
\* A scan never leaves the range of its fields, and every total is a number, for
\* any accounts, providers and tables (run in cmd/scanner/main.go, processRows).
THEOREM SheetIsTyped == FillSpec => []SheetTypeOK
<1>1. ASSUME ScanInv, StepInv PROVE TypeOK
  <2>1. rep.listed \subseteq Accounts /\ rep.account \in {Management, Unknown}
    BY <1>1 DEF ScanInv, ReportInv
  <2>2. Boundary \subseteq Accounts \cup {Unknown}
    BY <2>1, AccountsAssumption DEF Boundary
  <2>3. todo \subseteq Accounts \cup {Unknown}
    BY <1>1, <2>2 DEF ScanInv, ReportInv, VisitInv
  <2>4. ASSUME NEW p \in Providers
        PROVE  rep.scopes[p].listed \subseteq Units[p] /\ rep.scopes[p].scanned \subseteq Units[p]
    <3>1. CASE rep.scopes[p] = NoScope
      BY <3>1 DEF NoScope
    <3>2. CASE rep.scopes[p] # NoScope
      <4>1. /\ rep.scopes[p].listed \in (SUBSET Units[p]) \ {{}}
            /\ rep.scopes[p].scanned = Complete(p, rep.scopes[p].listed, rep.checks)
        BY <1>1, <3>2 DEF ScanInv, ProvidersInv
      <4>2. rep.scopes[p].scanned \subseteq rep.scopes[p].listed
        BY <4>1 DEF Complete
      <4> QED BY <4>1, <4>2
    <3> QED BY <3>1, <3>2
  <2>5. ASSUME NEW c \in DOMAIN rep.checks
        PROVE  /\ c \in AllChecks /\ DOMAIN rep.checks[c] \subseteq AllUnits
               /\ Range(rep.checks[c]) \subseteq Statuses
    <3>1. CASE c \in AwsChecks
      <4>1. CASE ~Visiting
        <5>1. DOMAIN rep.checks[c] = {}
          BY <1>1, <3>1, <4>1 DEF ScanInv, ReportInv
        <5> QED BY <3>1, <5>1 DEF AllChecks, Range
      <4>2. CASE Visiting
        <5>1. /\ DOMAIN rep.checks[c] = Boundary \ todo
              /\ \A x \in Boundary \ todo : rep.checks[c][x] \in Statuses
          BY <1>1, <3>1, <4>2 DEF ScanInv, VisitInv
        <5> QED BY <2>2, <3>1, <5>1 DEF AllChecks, AllUnits, Range
      <4> QED BY <4>1, <4>2
    <3>2. CASE c \notin AwsChecks
      <4>1. PICK p \in Providers : c \in ChecksOf[p] /\ rep.scopes[p] # NoScope
        BY <1>1, <3>2 DEF ScanInv, ProvidersInv
      <4>2. ~Gathering /\ DOMAIN rep.checks[c] \subseteq Units[p]
        BY <1>1, <4>1 DEF ScanInv, ProvidersInv
      <4>3. Range(rep.checks[c]) \subseteq Statuses
        BY <1>1, <4>2 DEF ScanInv, SummaryInv
      <4> QED BY <4>1, <4>2, <4>3 DEF AllChecks, AllUnits
    <3> QED BY <3>1, <3>2
  <2>6. DOMAIN rep.checks = DOMAIN rep.summary /\ rep.scanned \subseteq Accounts
    BY <1>1 DEF ScanInv, SummaryInv, ReportInv
  <2> QED BY <1>1, <2>1, <2>3, <2>4, <2>5, <2>6 DEF StepInv, TypeOK
<1>2. ASSUME SheetInv, TypeOK PROVE SheetTypeOK
  <2>1. ASSUME sheet # None, NEW i \in DOMAIN sheet, NEW j \in DOMAIN sheet[i].cells
        PROVE  sheet[i].cells[j].typed \in BOOLEAN
    <3>1. IsLine(sheet[i])
      BY <1>2, <2>1, TableIs DEF SheetInv
    <3> QED BY <3>1 DEF IsLine, IsCell
  <2> QED BY <1>2, <2>1 DEF SheetInv, SheetTypeOK
<1> QED BY <1>1, <1>2, InvariantsHold, PTL

\* Every answer in a table, of whatever size and for whatever mapping, rests on
\* conclusive checks of every account and says what they found (processRows,
\* decide in internal/questionnaire).
THEOREM AnswersAreSupported == FillSpec => []AnswersSupported
<1>1. ASSUME ScanInv, SheetInv PROVE AnswersSupported
  <2> SUFFICES ASSUME sheet # None, NEW h \in Headers(sheet), NEW i \in h + 1 .. Len(sheet),
                      Cell(sheet[i], Column(sheet[h].kinds, "answer")).ours # None
               PROVE  Supported(sheet[i].question,
                                Cell(sheet[i], Column(sheet[h].kinds, "answer")).ours)
    BY DEF AnswersSupported, Supported
  <2> DEFINE q == sheet[i].question
             kinds == sheet[h].kinds
  <2>1. /\ pc = "accepted" /\ IsTable(sheet) /\ OurKinds \subseteq Range(kinds)
        /\ Cell(sheet[i], Column(EnsureColumns(kinds), "answer")).ours
               \in {None, Decide(q).answer}
    BY <1>1 DEF SheetInv, Sourced
  <2>2. EnsureColumns(kinds) = kinds
    <3>1. kinds \in Seq(Kinds)
      BY <2>1, TableIs
    <3> HIDE DEF kinds
    <3> QED BY <2>1, <3>1, EnsureColumnsIs
  <2>3. /\ Decide(q).answer # None
        /\ Cell(sheet[i], Column(kinds, "answer")).ours = Decide(q).answer
    BY <2>1, <2>2
  <2>4. Supported(q, Decide(q).answer)
    BY <1>1, <2>1, <2>3, AnswerIsSupported
  <2> QED BY <2>3, <2>4
<1> QED BY <1>1, InvariantsHold, PTL

\* Nothing that the customer typed is lost, no answer is altered, and every row is
\* counted once, for tables of any size and shape (processRows, ensureCSVColumns,
\* ensureXLSXColumns in internal/questionnaire).
THEOREM CustomerCellsAreKept == FillSpec => []CustomerCellsKept
<1>1. ASSUME SheetInv PROVE CustomerCellsKept
  <2> SUFFICES ASSUME sheet # None, NEW h \in Headers(uploaded)
               PROVE  LET kinds == uploaded[h].kinds
                          rows  == h + 1 .. Len(uploaded)
                      IN  /\ \A i \in DOMAIN uploaded, j \in DOMAIN kinds :
                                LET before == Cell(uploaded[i], j)
                                    after  == Cell(sheet[i], j)
                                IN  /\ before.typed /\ kinds[j] \notin {"status", "confidence"}
                                          => after.typed
                                    /\ before # Blank /\ j = Column(kinds, "answer")
                                          => after = before
                          /\ MapThenSumSet(LAMBDA o : totals[o], Outcomes)
                               = Cardinality({i \in rows : ~Skipped(uploaded[i].question)})
    BY DEF CustomerCellsKept
  <2> DEFINE old == uploaded[h].kinds
             kinds == EnsureColumns(old)
             At(k) == Column(kinds, k)
  <2>1. IsTable(sheet) /\ IsTable(uploaded)
    BY <1>1 DEF SheetInv
  <2>2. Returned(uploaded, sheet, h) /\ totals = Totals(sheet, h)
    <3>1. PICK g \in Headers(uploaded) : /\ Returned(uploaded, sheet, g)
                                         /\ totals = Totals(sheet, g)
      BY <1>1 DEF SheetInv
    <3>2. g = h
      BY <2>1, TableIs
    <3> QED BY <3>1, <3>2
  <2>3. /\ Len(uploaded) \in Nat /\ DOMAIN uploaded = 1 .. Len(uploaded)
        /\ h \in DOMAIN uploaded /\ old \in Seq(Kinds)
    BY <2>1, TableIs
  <2>4. /\ kinds \in Seq(Kinds) /\ Len(old) <= Len(kinds) /\ OurKinds \subseteq Range(kinds)
        /\ DOMAIN old = 1 .. Len(old) /\ Len(old) \in Nat
        /\ \A j \in DOMAIN old : kinds[j] = old[j]
    <3> HIDE DEF old
    <3> QED BY <2>3, EnsureColumnsIs DEF Extends
  <2>5. /\ DOMAIN sheet = DOMAIN uploaded /\ sheet[h].kinds = kinds
        /\ \A i \in DOMAIN uploaded : sheet[i].question = uploaded[i].question
        /\ \A i \in 1 .. h, j \in DOMAIN old :
              Cell(uploaded[i], j) \in {Blank, Cell(sheet[i], j)}
        /\ \A i \in h + 1 .. Len(uploaded) :
              /\ \A j \in Columns \ {At(k) : k \in OurKinds} :
                    Cell(sheet[i], j) = Cell(uploaded[i], j)
              /\ Cell(sheet[i], At("evidence")).typed = Cell(uploaded[i], At("evidence")).typed
              /\ ~Skipped(uploaded[i].question) => Cell(sheet[i], At("status")).ours \in Outcomes
              /\ Cell(uploaded[i], At("answer")) \in {Blank, Cell(sheet[i], At("answer"))}
    BY <2>2 DEF Returned
  <2>6. \A k \in OurKinds : kinds[At(k)] = k
    <3> HIDE DEF kinds
    <3> QED BY <2>4, ColumnIs
  <2>7. \A j \in DOMAIN old : j = Column(old, "answer") => old[j] = "answer"
    <3> HIDE DEF old
    <3> QED BY <2>3, <2>4, ColumnIs
  <2> HIDE DEF old, kinds
  <2>8. ASSUME NEW i \in DOMAIN uploaded, NEW j \in DOMAIN old
        PROVE  LET before == Cell(uploaded[i], j)
                   after  == Cell(sheet[i], j)
               IN  /\ before.typed /\ old[j] \notin {"status", "confidence"} => after.typed
                   /\ before # Blank /\ j = Column(old, "answer") => after = before
    <3>1. ~Blank.typed
      BY DEF Blank
    <3>2. CASE i \in 1 .. h
      <4>1. Cell(uploaded[i], j) \in {Blank, Cell(sheet[i], j)}
        BY <2>5, <3>2
      <4> QED BY <3>1, <4>1
    <3>3. CASE i \in h + 1 .. Len(uploaded)
      <4>1. CASE j \notin {At(k) : k \in OurKinds}
        <5>1. j \in Columns
          BY <2>4 DEF Columns
        <5> QED BY <2>5, <3>3, <4>1, <5>1
      <4>2. ASSUME NEW k \in OurKinds, j = At(k)
            PROVE  LET before == Cell(uploaded[i], j)
                       after  == Cell(sheet[i], j)
                   IN  /\ before.typed /\ old[j] \notin {"status", "confidence"} => after.typed
                       /\ before # Blank /\ j = Column(old, "answer") => after = before
        <5>1. old[j] = k
          BY <2>4, <2>6, <4>2
        <5>2. CASE k = "answer"
          <6>1. Cell(uploaded[i], j) \in {Blank, Cell(sheet[i], j)}
            BY <2>5, <3>3, <4>2, <5>2
          <6> QED BY <3>1, <6>1
        <5>3. CASE k = "evidence"
          <6>1. Cell(sheet[i], j).typed = Cell(uploaded[i], j).typed
            BY <2>5, <3>3, <4>2, <5>3
          <6> QED BY <2>7, <5>1, <5>3, <6>1
        <5>4. CASE k \in {"status", "confidence"}
          BY <2>7, <5>1, <5>4
        <5> QED BY <5>2, <5>3, <5>4 DEF OurKinds
      <4> QED BY <4>1, <4>2
    <3> QED BY <2>3, <3>2, <3>3
  <2>9. MapThenSumSet(LAMBDA o : totals[o], Outcomes)
           = Cardinality({i \in h + 1 .. Len(uploaded) : ~Skipped(uploaded[i].question)})
    <3> DEFINE rows == [o \in Outcomes |-> Counted(sheet, h, o)]
    <3>1. Len(sheet) = Len(uploaded) /\ h \in DOMAIN sheet
      <4>1. DOMAIN sheet = 1 .. Len(sheet) /\ Len(sheet) \in Nat
        BY <2>1, TableIs
      <4>2. \A m, n \in Nat : 1 .. m = 1 .. n => m = n
        OBVIOUS
      <4> QED BY <2>3, <2>5, <4>1, <4>2
    <3>2. \A i \in h + 1 .. Len(uploaded) : sheet[i].question = uploaded[i].question
      BY <2>3, <2>5
    <3>3. CountsApart(Outcomes, rows, totals)
      <4>1. \A o \in Outcomes : IsFiniteSet(rows[o]) /\ totals[o] = Cardinality(rows[o])
        BY <2>1, <2>2, <3>1, TotalsIs
      <4>2. \A o, r \in Outcomes : o # r => rows[o] \cap rows[r] = {}
        BY DEF Counted
      <4> HIDE DEF rows
      <4> QED BY <4>1, <4>2 DEF CountsApart
    <3>4. RowsOf(rows, Outcomes)
             = {i \in h + 1 .. Len(uploaded) : ~Skipped(uploaded[i].question)}
      BY <2>5, <3>1, <3>2 DEF RowsOf, Counted
    <3>5. IsFiniteSet(Outcomes)
      <4> DEFINE a == {"answered"} \cup {"partial"}
                 b == a \cup {"flagged"}
      <4>1. IsFiniteSet(a)
        BY FS_Singleton, FS_AddElement
      <4>2. IsFiniteSet(b)
        BY <4>1, FS_AddElement
      <4>3. Outcomes = b \cup {"needs_human"}
        BY DEF Outcomes
      <4> HIDE DEF b
      <4> QED BY <4>2, <4>3, FS_AddElement
    <3> HIDE DEF rows
    <3>6. Sum(totals, Outcomes) = Cardinality(RowsOf(rows, Outcomes))
      BY <3>3, <3>5, SumOfDisjoint
    <3> QED BY <3>4, <3>6 DEF Sum
  <2> QED BY <2>8, <2>9 DEF old
<1> QED BY <1>1, InvariantsHold, PTL
=============================================================================
