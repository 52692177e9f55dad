------------------------------ MODULE FilesProofs ------------------------------
(***************************************************************************)
(* Theorems about Files, for every number of processes, files, descriptors  *)
(* and writes, every size of a page and of a buffer.                        *)
(***************************************************************************)
EXTENDS Files, SequenceTheorems, TLAPS

-----------------------------------------------------------------------------
(* The inductive invariant *)

Page == [1 .. PageSize -> Cell]
FileRecord == [pages : Seq(Page), position : Nat, size : Nat]
Entry == [file : File, position : Nat]
Table == UNION {[D -> Entry] : D \in SUBSET Fd}

\* The cells a file has memory for, and cell i of it.
Capacity(file) == PageSize * Len(file.pages)
CellIn(pages, i) == pages[((i - 1) \div PageSize) + 1][((i - 1) % PageSize) + 1]
CellOf(file, i) == CellIn(file.pages, i)

ShapeInv ==
    /\ files \in [File -> FileRecord]
    /\ opened \in [Process -> Table]
    /\ last_fd \in [Process -> 0 .. MaxFd + 1]
    /\ call \in [Process -> Calls]
    /\ writes \in 0 .. MaxWrites
    /\ shared \subseteq File
    /\ raced \in BOOLEAN

\* A call between its seek and its tell.
Moving(c) == c.at \in {"move", "tell"}

\* A call of read or write has its descriptor, which keeps the position the
\* call started at, while the position of the file goes on.
CallShape(p, c) ==
    /\ ~Moving(c) => c.op = "none"
    /\ c.at = "unborn" => opened[p] = << >>
    /\ Moving(c) =>
          /\ c.op \in {"read", "write"} /\ c.file \in File
          /\ c.fd \in Descriptors(p)
          /\ opened[p][c.fd] = [file |-> c.file, position |-> c.start]
          /\ files[c.file].position = c.start + c.moved
          /\ c.op = "read" => Len(c.data) = c.moved /\ c.moved + c.left \in ReadSizes
          /\ c.op = "write" =>
                /\ Len(c.data) = c.moved + c.left
                /\ \E k \in 1 .. MaxWrites, n \in WriteSizes : c.data = Block(k, n)
          /\ c.at = "move" => c.left # 0

CallsInv == \A p \in Process : CallShape(p, call[p])

\* No two calls move the position of one file.
Exclusive ==
    \A p, q \in Process :
        p # q /\ Moving(call[p]) /\ Moving(call[q]) => call[p].file # call[q].file

\* The size of the file a call works on, and how far it got.
SizeShape(c, file) ==
    /\ c.moved > 0 => c.start + c.moved <= Capacity(file)
    /\ c.op = "read" =>
          /\ file.size = Len(c.before)
          /\ c.at = "tell" \/ c.moved > 0 => c.start + c.moved <= file.size
          /\ c.at = "tell" /\ c.left > 0 => c.start + c.moved = file.size
    /\ c.op = "write" =>
          /\ c.at = "move" => file.size = Len(c.before)
          /\ c.at = "tell" =>
                /\ c.left = 0
                /\ file.size = IF c.start + c.moved > Len(c.before)
                               THEN c.start + c.moved ELSE Len(c.before)

SizesInv ==
    /\ BoundsHold
    /\ \A p \in Process : Moving(call[p]) => SizeShape(call[p], files[call[p].file])

\* What a call of write makes of cell i.
Made(c, i) ==
    IF i \in c.start + 1 .. c.start + c.moved THEN c.data[i - c.start]
    ELSE IF i \in DOMAIN c.before THEN c.before[i] ELSE Unwritten

\* The cells of the file a call works on.
CellShape(c, file) ==
    /\ c.op = "write" => \A i \in 1 .. Capacity(file) : CellOf(file, i) = Made(c, i)
    /\ c.op = "read" =>
          /\ \A i \in 1 .. file.size : CellOf(file, i) = c.before[i]
          /\ \A j \in 1 .. c.moved : c.data[j] = c.before[c.start + j]

\* Memory behind the end of a file is as it was allocated.
Clean(file) == \A i \in 1 .. Capacity(file) : i > file.size => CellOf(file, i) = Unwritten

Writing(f) == \E p \in Process : call[p].op = "write" /\ call[p].file = f

CellsInv ==
    /\ \A f \in File : Writing(f) \/ Clean(files[f])
    /\ \A p \in Process : Moving(call[p]) => CellShape(call[p], files[call[p].file])

\* Two descriptors of one file make it a shared one; a file that is not has the
\* position of its descriptor, unless a call moves it just now.
SoleInv ==
    /\ \A p, q \in Process : \A x \in Descriptors(p), y \in Descriptors(q) :
          opened[p][x].file = opened[q][y].file /\ opened[p][x].file \notin shared
             => p = q /\ x = y
    /\ \A p \in Process : \A x \in Descriptors(p) :
          LET d == opened[p][x] IN
          d.file \notin shared /\ ~(Moving(call[p]) /\ call[p].file = d.file)
             => files[d.file].position = d.position

FilesInv == ShapeInv /\ CallsInv /\ Exclusive /\ SizesInv /\ CellsInv /\ SoleInv

-----------------------------------------------------------------------------
(* Arithmetic of pages *)

LEMMA Division ==
    ASSUME NEW n \in Nat \ {0}, NEW a \in Nat
    PROVE  /\ a \div n \in Nat /\ a % n \in 0 .. n - 1
           /\ a = n * (a \div n) + (a % n)
  OBVIOUS

LEMMA Quotient ==
    ASSUME NEW n \in Nat \ {0}, NEW q \in Nat, NEW r \in 0 .. n - 1
    PROVE  (n * q + r) \div n = q /\ (n * q + r) % n = r
  OBVIOUS

LEMMA Product ==
    ASSUME NEW n \in Nat \ {0}, NEW q \in Nat
    PROVE  n * q \in Nat /\ n * (q + 1) = n * q + n
  OBVIOUS

LEMMA Monotone ==
    ASSUME NEW n \in Nat \ {0}, NEW q \in Nat, NEW r \in Nat, q < r
    PROVE  n * q + n <= n * r
  OBVIOUS

-----------------------------------------------------------------------------
(* Tables of descriptors *)

LEMMA UsesIs ==
    ASSUME ShapeInv, NEW f
    PROVE  \A p \in Process : \A x \in Descriptors(p) :
              x \in Fd /\ opened[p][x] \in Entry
              /\ (opened[p][x].file = f => <<p, x>> \in Uses(f))
  <1> TAKE p \in Process
  <1> TAKE x \in Descriptors(p)
  <1>1. x \in Fd /\ opened[p][x] \in Entry
    BY DEF ShapeInv, Table, Descriptors
  <1>2. <<p, x>> \in Opened
    BY <1>1 DEF Opened
  <1>3. opened[p][x].file = f => <<p, x>> \in Uses(f)
    BY <1>2 DEF Uses
  <1> QED BY <1>1, <1>3


\* A table after the addition or the removal of a descriptor.
LEMMA TableAdds ==
    ASSUME NEW t \in Table, NEW fd \in Fd, NEW d \in Entry
    PROVE  [x \in DOMAIN t \cup {fd} |-> IF x = fd THEN d ELSE t[x]] \in Table
  <1>1. PICK D \in SUBSET Fd : t \in [D -> Entry]
    BY DEF Table
  <1>2. [x \in D \cup {fd} |-> IF x = fd THEN d ELSE t[x]] \in [D \cup {fd} -> Entry]
    BY <1>1
  <1>3. D \cup {fd} \in SUBSET Fd
    BY <1>1
  <1> QED BY <1>1, <1>2, <1>3 DEF Table

LEMMA TableRemoves ==
    ASSUME NEW t \in Table, NEW fd
    PROVE  [x \in DOMAIN t \ {fd} |-> t[x]] \in Table
  <1>1. PICK D \in SUBSET Fd : t \in [D -> Entry]
    BY DEF Table
  <1>2. [x \in D \ {fd} |-> t[x]] \in [D \ {fd} -> Entry]
    BY <1>1
  <1>3. D \ {fd} \in SUBSET Fd
    BY <1>1
  <1> QED BY <1>1, <1>2, <1>3 DEF Table

LEMMA TableMoves ==
    ASSUME NEW t \in Table, NEW fd \in DOMAIN t, NEW position \in Nat
    PROVE  [t EXCEPT ![fd].position = position] \in Table
  <1>1. PICK D \in SUBSET Fd : t \in [D -> Entry]
    BY DEF Table
  <1>2. [t EXCEPT ![fd].position = position] \in [D -> Entry]
    BY <1>1 DEF Entry
  <1> QED BY <1>1, <1>2 DEF Table

LEMMA TableHas ==
    ASSUME NEW t \in Table, NEW fd \in DOMAIN t
    PROVE  fd \in Fd /\ t[fd] \in Entry
  BY DEF Table


-----------------------------------------------------------------------------
(* Cells of pages *)

LEMMA Within ==
    ASSUME NEW pages \in Seq(Page), NEW i \in 1 .. PageSize * Len(pages)
    PROVE  /\ ((i - 1) \div PageSize) + 1 \in 1 .. Len(pages)
           /\ ((i - 1) % PageSize) + 1 \in 1 .. PageSize
           /\ CellIn(pages, i) \in Cell
  <1> DEFINE q == (i - 1) \div PageSize
             r == (i - 1) % PageSize
  <1>1. PageSize \in Nat \ {0} /\ Len(pages) \in Nat
    BY BoundsAssumption
  <1>2. PageSize * Len(pages) \in Nat
    BY <1>1, Product
  <1>3. i - 1 \in Nat /\ i - 1 < PageSize * Len(pages)
    BY <1>2
  <1>4. q \in Nat /\ r \in 0 .. PageSize - 1 /\ i - 1 = PageSize * q + r
    BY <1>1, <1>3, Division
  <1> HIDE DEF q, r
  <1>5. PageSize * q \in Nat /\ PageSize * q <= i - 1
    BY <1>1, <1>4, Product
  <1>6. q < Len(pages)
    <2> SUFFICES ASSUME Len(pages) <= q  PROVE FALSE
      BY <1>1, <1>4
    <2>1. CASE Len(pages) = q
      BY <2>1, <1>3, <1>5
    <2>2. CASE Len(pages) < q
      <3>1. PageSize * Len(pages) + PageSize <= PageSize * q
        BY <2>2, <1>1, <1>4, Monotone
      <3> HIDE DEF CellIn
      <3> QED BY <3>1, <1>1, <1>2, <1>3, <1>5
    <2> QED BY <2>1, <2>2, <1>1, <1>4
  <1>7. q + 1 \in 1 .. Len(pages) /\ r + 1 \in 1 .. PageSize
    BY <1>1, <1>4, <1>6
  <1>8. pages[q + 1] \in Page
    BY <1>7
  <1>9. pages[q + 1][r + 1] \in Cell
    BY <1>7, <1>8 DEF Page
  <1> QED BY <1>7, <1>9 DEF CellIn, q, r

\* The pages of a file once the page of this index was looked for.
Ready(pages, index) == IF LacksPage(pages, index) THEN Append(pages, Blank) ELSE pages

LEMMA BlankIsPage == Blank \in Page
  BY BoundsAssumption DEF Blank, Page, Cell, Unwritten

LEMMA ReadyCells ==
    ASSUME NEW pages \in Seq(Page), NEW index \in Nat
    PROVE  /\ Ready(pages, index) \in Seq(Page)
           /\ PageSize * Len(pages) <= PageSize * Len(Ready(pages, index))
           /\ \A i \in 1 .. PageSize * Len(pages) :
                 CellIn(Ready(pages, index), i) = CellIn(pages, i)
           /\ \A i \in 1 .. PageSize * Len(Ready(pages, index)) :
                 i > PageSize * Len(pages) => CellIn(Ready(pages, index), i) = Unwritten
  <1>1. PageSize \in Nat \ {0} /\ Len(pages) \in Nat
    BY BoundsAssumption
  <1>2. PageSize * Len(pages) \in Nat
    BY <1>1, Product
  <1>3. CASE ~LacksPage(pages, index)
    BY <1>2, <1>3 DEF Ready
  <1>4. CASE LacksPage(pages, index)
    <2> DEFINE more == Append(pages, Blank)
    <2>1. /\ more \in Seq(Page) /\ Len(more) = Len(pages) + 1
          /\ more[Len(pages) + 1] = Blank
          /\ \A k \in 1 .. Len(pages) : more[k] = pages[k]
      BY BlankIsPage
    <2>2. Ready(pages, index) = more
      BY <1>4 DEF Ready
    <2> HIDE DEF more
    <2>3. PageSize * Len(more) = PageSize * Len(pages) + PageSize
      BY <2>1, <1>1, Product
    <2>4. ASSUME NEW i \in 1 .. PageSize * Len(pages)
          PROVE  CellIn(more, i) = CellIn(pages, i)
      <3>1. ((i - 1) \div PageSize) + 1 \in 1 .. Len(pages)
        BY Within
      <3> QED BY <3>1, <2>1 DEF CellIn
    <2>5. ASSUME NEW i \in 1 .. PageSize * Len(more), i > PageSize * Len(pages)
          PROVE  CellIn(more, i) = Unwritten
      <3> DEFINE k == Len(pages)
                 r == i - 1 - PageSize * k
      <3>1. r \in 0 .. PageSize - 1 /\ i - 1 = PageSize * k + r
        BY <1>1, <1>2, <2>3, <2>5
      <3>2. k \in Nat
        BY <1>1
      <3> HIDE DEF r, k
      <3>3. (i - 1) \div PageSize = k /\ (i - 1) % PageSize = r
        BY <3>1, <3>2, <1>1, Quotient
      <3>4. Blank[r + 1] = Unwritten
        BY <3>1, <1>1 DEF Blank
      <3>5. more[k + 1] = Blank
        BY <2>1 DEF k
      <3> QED BY <3>3, <3>4, <3>5 DEF CellIn
    <2>6. PageSize * Len(pages) <= PageSize * Len(more)
      BY <2>3, <1>1, <1>2
    <2> QED BY <2>1, <2>2, <2>4, <2>5, <2>6
  <1> QED BY <1>3, <1>4

\* A page that no other page is missing before is there or is the one more page.
LEMMA ReadyLacks ==
    ASSUME NEW pages \in Seq(Page), NEW position \in Nat,
           Len(Ready(pages, position \div PageSize)) <= position \div PageSize
    PROVE  position > PageSize * Len(pages)
  <1> DEFINE index == position \div PageSize
  <1>1. PageSize \in Nat \ {0} /\ Len(pages) \in Nat
    BY BoundsAssumption
  <1>2. index \in Nat /\ position % PageSize \in 0 .. PageSize - 1
        /\ position = PageSize * index + (position % PageSize)
    BY <1>1, Division
  <1>3. Len(pages) < index
    <2>1. CASE LacksPage(pages, index)
      <3>1. Len(Append(pages, Blank)) = Len(pages) + 1
        BY BlankIsPage
      <3>2. Len(pages) + 1 <= index
        BY <2>1, <3>1 DEF Ready
      <3> HIDE DEF index
      <3> QED BY <3>2, <1>1, <1>2
    <2>2. CASE ~LacksPage(pages, index)
      <3>1. Len(pages) <= index
        BY <2>2 DEF Ready
      <3> QED BY <2>2, <3>1 DEF LacksPage
    <2> QED BY <2>1, <2>2
  <1> HIDE DEF index
  <1>4. PageSize * Len(pages) + PageSize <= PageSize * index
    BY <1>1, <1>2, <1>3, Monotone
  <1>5. PageSize * Len(pages) \in Nat /\ PageSize * index \in Nat
    BY <1>1, <1>2, Product
  <1> QED BY <1>1, <1>2, <1>4, <1>5

\* What becomes of the cells when n of them are put on one page.
Put(pages, position, n, source, from) ==
    [pages EXCEPT ![(position \div PageSize) + 1] =
        [i \in 1 .. PageSize |->
            IF i \in InPage(position) + 1 .. InPage(position) + n
            THEN source[from + i - InPage(position)] ELSE @[i]]]

Fits(position, n, pages) ==
    position \div PageSize < Len(pages) /\ n <= PageSize - (position % PageSize)

CellsPut(after, pages, position, n, source, from) ==
    \A i \in 1 .. PageSize * Len(pages) :
        CellIn(after, i) = IF i \in position + 1 .. position + n
                           THEN source[from + i - position] ELSE CellIn(pages, i)

LEMMA PutCells ==
    ASSUME NEW pages \in Seq(Page), NEW position \in Nat, NEW n \in Nat,
           NEW source, NEW from \in Nat,
           Fits(position, n, pages)
    PROVE  CellsPut(Put(pages, position, n, source, from), pages, position, n, source, from)
  <1> DEFINE index == position \div PageSize
             offset == position % PageSize
             page == [i \in 1 .. PageSize |->
                         IF i \in offset + 1 .. offset + n
                         THEN source[from + i - offset] ELSE pages[index + 1][i]]
             after == Put(pages, position, n, source, from)
  <1> SUFFICES ASSUME NEW i \in 1 .. PageSize * Len(pages)
               PROVE  CellIn(after, i) = IF i \in position + 1 .. position + n
                                         THEN source[from + i - position] ELSE CellIn(pages, i)
    BY DEF CellsPut
  <1> HIDE DEF after
  <1> DEFINE q == (i - 1) \div PageSize
             r == (i - 1) % PageSize
  <1>1. PageSize \in Nat \ {0} /\ Len(pages) \in Nat
    BY BoundsAssumption
  <1>2. index \in Nat /\ offset \in 0 .. PageSize - 1 /\ position = PageSize * index + offset
    BY <1>1, Division
  <1>3. index < Len(pages) /\ n <= PageSize - offset
    BY DEF Fits
  <1>4. index + 1 \in 1 .. Len(pages)
    <2> HIDE DEF index
    <2> QED BY <1>1, <1>2, <1>3
  <1>5. after = [pages EXCEPT ![index + 1] = page]
    BY DEF Put, InPage, after
  <1>6. after[index + 1] = page /\ \A k \in 1 .. Len(pages) : k # index + 1 => after[k] = pages[k]
    <2> HIDE DEF index, page
    <2> QED BY <1>4, <1>5
  <1>7. PageSize * Len(pages) \in Nat
    BY <1>1, Product
  <1>8. i - 1 \in Nat /\ i \in Nat
    BY <1>7
  <1>9. q \in Nat /\ r \in 0 .. PageSize - 1 /\ i - 1 = PageSize * q + r
    BY <1>1, <1>8, Division
  <1>10. q + 1 \in 1 .. Len(pages) /\ r + 1 \in 1 .. PageSize
    BY Within
  <1>11. CellIn(after, i) = after[q + 1][r + 1] /\ CellIn(pages, i) = pages[q + 1][r + 1]
    BY DEF CellIn
  <1>12. page[r + 1] = IF r + 1 \in offset + 1 .. offset + n
                       THEN source[from + (r + 1) - offset] ELSE pages[index + 1][r + 1]
    <2> HIDE DEF index, offset, r
    <2> QED BY <1>10
  <1>13. PageSize * q \in Nat /\ PageSize * index \in Nat
    <2> HIDE DEF q, index
    <2> QED BY <1>1, <1>2, <1>9, Product
  <1> HIDE DEF index, offset, page, q, r
  <1>14. CASE q = index
    <2>1. r + 1 \in offset + 1 .. offset + n <=> i \in position + 1 .. position + n
      BY <1>2, <1>8, <1>9, <1>13, <1>14
    <2>2. from + (r + 1) - offset = from + i - position
      <3>1. (r + 1) - offset = i - position
        BY <1>1, <1>2, <1>8, <1>9, <1>13, <1>14
      <3> QED BY <3>1
    <2> QED BY <2>1, <2>2, <1>6, <1>11, <1>12, <1>14
  <1>15. CASE q # index
    <2>1. after[q + 1] = pages[q + 1]
      BY <1>6, <1>9, <1>2, <1>10, <1>15
    <2>2. i \notin position + 1 .. position + n
      <3>1. CASE q < index
        <4>1. PageSize * q + PageSize <= PageSize * index
          BY <3>1, <1>1, <1>2, <1>9, Monotone
        <4> QED BY <4>1, <1>1, <1>2, <1>8, <1>9, <1>13
      <3>2. CASE index < q
        <4>1. PageSize * index + PageSize <= PageSize * q
          BY <3>2, <1>1, <1>2, <1>9, Monotone
        <4> QED BY <4>1, <1>1, <1>2, <1>3, <1>8, <1>9, <1>13
      <3> QED BY <3>1, <3>2, <1>2, <1>9, <1>15
    <2> QED BY <2>1, <2>2, <1>11
  <1> QED BY <1>14, <1>15


-----------------------------------------------------------------------------
(* What the shape says of a file, a call and a descriptor *)

LEMMA FileFacts ==
    ASSUME ShapeInv, NEW f \in File
    PROVE  /\ files[f] \in FileRecord
           /\ files[f].pages \in Seq(Page) /\ Len(files[f].pages) \in Nat
           /\ files[f].position \in Nat /\ files[f].size \in Nat
           /\ Capacity(files[f]) \in Nat
  <1>1. files[f] \in FileRecord
    BY DEF ShapeInv
  <1>2. /\ files[f].pages \in Seq(Page)
        /\ files[f].position \in Nat /\ files[f].size \in Nat
    BY <1>1 DEF FileRecord
  <1>3. Len(files[f].pages) \in Nat
    BY <1>2
  <1>4. Capacity(files[f]) \in Nat
    BY <1>3, Product, BoundsAssumption DEF Capacity
  <1> QED BY <1>1, <1>2, <1>3, <1>4

LEMMA CallFacts ==
    ASSUME ShapeInv, NEW p \in Process
    PROVE  /\ call[p] \in Calls
           /\ call[p].left \in Nat /\ call[p].moved \in Nat /\ call[p].start \in Nat
           /\ call[p].data \in Seq(Cell) /\ call[p].before \in Seq(Cell)
           /\ Len(call[p].data) \in Nat /\ Len(call[p].before) \in Nat
  <1>1. call[p] \in Calls
    BY DEF ShapeInv
  <1>2. /\ call[p].left \in Nat /\ call[p].moved \in Nat /\ call[p].start \in Nat
        /\ call[p].data \in Seq(Cell) /\ call[p].before \in Seq(Cell)
    BY <1>1 DEF Calls
  <1>3. Len(call[p].data) \in Nat /\ Len(call[p].before) \in Nat
    BY <1>2
  <1> QED BY <1>1, <1>2, <1>3

LEMMA DescriptorFacts ==
    ASSUME ShapeInv, NEW p \in Process, NEW x \in Descriptors(p)
    PROVE  /\ opened[p] \in Table /\ x \in Fd /\ opened[p][x] \in Entry
           /\ opened[p][x].file \in File /\ opened[p][x].position \in Nat
  <1>1. opened[p] \in Table
    BY DEF ShapeInv
  <1>2. x \in Fd /\ opened[p][x] \in Entry
    BY <1>1, TableHas DEF Descriptors
  <1> QED BY <1>1, <1>2 DEF Entry

\* The content of a file is the first cells of its pages.
LEMMA ContentIs ==
    ASSUME ShapeInv, PagesCoverSize, NEW f \in File
    PROVE  /\ Content(f) \in Seq(Cell) /\ Len(Content(f)) = files[f].size
           /\ DOMAIN Content(f) = 1 .. files[f].size
           /\ \A i \in 1 .. files[f].size :
                 i \in 1 .. Capacity(files[f]) /\ Content(f)[i] = CellOf(files[f], i)
  <1>1. /\ files[f].pages \in Seq(Page) /\ files[f].size \in Nat
        /\ Capacity(files[f]) \in Nat
    BY FileFacts
  <1>2. files[f].size <= Capacity(files[f])
    BY DEF PagesCoverSize, Capacity
  <1>3. Content(f) = [i \in 1 .. files[f].size |-> CellOf(files[f], i)]
    BY DEF Content, CellOf, CellIn
  <1>4. ASSUME NEW i \in 1 .. files[f].size
        PROVE  i \in 1 .. Capacity(files[f]) /\ CellOf(files[f], i) \in Cell
    <2>1. i \in 1 .. Capacity(files[f])
      BY <1>1, <1>2
    <2>2. i \in 1 .. PageSize * Len(files[f].pages)
      BY <2>1 DEF Capacity
    <2>3. CellIn(files[f].pages, i) \in Cell
      BY <1>1, <2>2, Within
    <2> QED BY <2>1, <2>3 DEF CellOf
  <1>5. Content(f) \in [1 .. files[f].size -> Cell]
    BY <1>3, <1>4
  <1>6. Content(f) \in Seq(Cell) /\ Len(Content(f)) = files[f].size
    BY <1>1, <1>5
  <1> QED BY <1>3, <1>4, <1>6

\* The content of a file depends on its pages and its size alone.
LEMMA ContentKept ==
    ASSUME NEW f, files'[f].pages = files[f].pages, files'[f].size = files[f].size
    PROVE  Content(f)' = Content(f)
  BY DEF Content

\* What readers find in a file nobody writes to, and in one somebody does.
LEMMA StoredUnwritten ==
    ASSUME NEW f, ~Writing(f)
    PROVE  Stored(f) = Content(f)
  BY DEF Stored, Writing

LEMMA StoredWritten ==
    ASSUME CallsInv, Exclusive, NEW p \in Process, NEW f,
           call[p].op = "write", call[p].file = f
    PROVE  Stored(f) = call[p].before
  <1> DEFINE writers == {q \in Process : call[q].op = "write" /\ call[q].file = f}
  <1>1. ASSUME NEW q \in writers  PROVE  q = p
    <2>1. Moving(call[p]) /\ Moving(call[q])
      BY DEF CallsInv, CallShape
    <2> QED BY <2>1 DEF Exclusive
  <1>2. writers = {p}
    BY <1>1
  <1>3. Stored(f) = IF writers = {} THEN Content(f)
                    ELSE call[CHOOSE q \in writers : TRUE].before
    BY DEF Stored
  <1>4. (CHOOSE q \in writers : TRUE) = p
    BY <1>2
  <1> QED BY <1>2, <1>3, <1>4

LEMMA StoredIs ==
    ASSUME ShapeInv, PagesCoverSize, NEW f \in File
    PROVE  Stored(f) \in Seq(Cell)
  <1>1. Content(f) \in Seq(Cell)
    BY ContentIs
  <1> DEFINE writers == {q \in Process : call[q].op = "write" /\ call[q].file = f}
  <1>2. Stored(f) = IF writers = {} THEN Content(f)
                    ELSE call[CHOOSE q \in writers : TRUE].before
    BY DEF Stored
  <1>3. writers # {} => (CHOOSE q \in writers : TRUE) \in Process
    <2>1. writers # {} => (CHOOSE q \in writers : TRUE) \in writers
      OBVIOUS
    <2> QED BY <2>1
  <1>4. \A q \in Process : call[q].before \in Seq(Cell)
    BY CallFacts
  <1> HIDE DEF writers
  <1> QED BY <1>1, <1>2, <1>3, <1>4


-----------------------------------------------------------------------------
(* Steps that leave the calls of the other processes alone *)

\* A step of process p outside of read and write, which moves no file that a call
\* works on.
Calm(p) ==
    /\ ~Moving(call[p]) /\ ~Moving(call'[p])
    /\ call'[p].op = "none" /\ call'[p].at # "unborn"
    /\ \A q \in Process \ {p} : opened'[q] = opened[q] /\ call'[q] = call[q]
    /\ \A f \in File : files'[f].pages = files[f].pages /\ files'[f].size = files[f].size
    /\ \A q \in Process : Moving(call[q]) => files'[call[q].file] = files[call[q].file]
    /\ panic' # OutOfBounds

LEMMA CalmCalls ==
    ASSUME CallsInv, Exclusive, NEW p \in Process, Calm(p)
    PROVE  CallsInv' /\ Exclusive'
  <1>1. ASSUME NEW q \in Process  PROVE  CallShape(q, call[q])'
    <2>1. CASE q = p
      BY <2>1 DEF Calm, CallShape
    <2>2. CASE q # p
      <3>1. /\ opened'[q] = opened[q] /\ call'[q] = call[q]
            /\ Moving(call[q]) => files'[call[q].file] = files[call[q].file]
        BY <2>2 DEF Calm
      <3>2. CallShape(q, call[q])
        BY DEF CallsInv
      <3> QED BY <3>1, <3>2 DEF CallShape, Descriptors
    <2> QED BY <2>1, <2>2
  <1>2. Exclusive'
    BY DEF Calm, Exclusive
  <1> QED BY <1>1, <1>2 DEF CallsInv

LEMMA CalmSizes ==
    ASSUME SizesInv, NEW p \in Process, Calm(p)
    PROVE  SizesInv'
  <1>1. BoundsHold'
    BY DEF Calm, SizesInv, BoundsHold, PagesCoverSize
  <1>2. ASSUME NEW q \in Process, Moving(call'[q])
        PROVE  SizeShape(call'[q], files'[call'[q].file])
    <2>1. q # p /\ call'[q] = call[q]
      BY <1>2 DEF Calm
    <2>2. Moving(call[q]) /\ files'[call[q].file] = files[call[q].file]
      BY <1>2, <2>1 DEF Calm
    <2>3. SizeShape(call[q], files[call[q].file])
      BY <2>2 DEF SizesInv
    <2> QED BY <2>1, <2>2, <2>3
  <1> QED BY <1>1, <1>2 DEF SizesInv

LEMMA CalmCells ==
    ASSUME CallsInv, CellsInv, NEW p \in Process, Calm(p)
    PROVE  CellsInv'
  <1>1. call[p].op # "write"
    BY DEF CallsInv, CallShape, Calm
  <1>2. ASSUME NEW f \in File  PROVE  Writing(f)' \/ Clean(files'[f])
    <2>1. CASE Writing(f)
      <3>1. Writing(f)'
        BY <1>1, <2>1 DEF Calm, Writing
      <3> QED BY <3>1
    <2>2. CASE Clean(files[f])
      <3>1. files'[f].pages = files[f].pages /\ files'[f].size = files[f].size
        BY DEF Calm
      <3> QED BY <2>2, <3>1 DEF Clean, Capacity, CellOf
    <2> QED BY <2>1, <2>2 DEF CellsInv
  <1>3. ASSUME NEW q \in Process, Moving(call'[q])
        PROVE  CellShape(call'[q], files'[call'[q].file])
    <2>1. q # p /\ call'[q] = call[q]
      BY <1>3 DEF Calm
    <2>2. Moving(call[q]) /\ files'[call[q].file] = files[call[q].file]
      BY <1>3, <2>1 DEF Calm
    <2>3. CellShape(call[q], files[call[q].file])
      BY <2>2 DEF CellsInv
    <2> QED BY <2>1, <2>2, <2>3
  <1> QED BY <1>2, <1>3 DEF CellsInv

\* A stop of the kernel: it changes nothing, but if it is for a page that is not
\* there, a call stands behind the end of its file.
LEMMA StopKeeps ==
    ASSUME FilesInv, UNCHANGED <<files, descriptors, call, writes, raced>>,
           panic' = OutOfBounds =>
              \E p \in Process : call[p].at = "move" /\ call[p].start > Len(call[p].before)
    PROVE  FilesInv'
  <1> USE DEF FilesInv, descriptors
  <1>1. ShapeInv'
    BY DEF ShapeInv
  <1>2. CallsInv'
    BY DEF CallsInv, CallShape, Descriptors
  <1>3. Exclusive'
    BY DEF Exclusive
  <1>4. SizesInv'
    BY DEF SizesInv, BoundsHold, PagesCoverSize
  <1>5. CellsInv'
    BY DEF CellsInv, Writing
  <1>6. SoleInv'
    BY DEF SoleInv, Descriptors
  <1> QED BY <1>1, <1>2, <1>3, <1>4, <1>5, <1>6

LEMMA SameKeeps ==
    ASSUME FilesInv, UNCHANGED <<files, descriptors, call, writes, panic>>, raced' \in BOOLEAN
    PROVE  FilesInv'
  <1> USE DEF FilesInv, descriptors
  <1>1. ShapeInv'
    BY DEF ShapeInv
  <1>2. CallsInv'
    BY DEF CallsInv, CallShape, Descriptors
  <1>3. Exclusive'
    BY DEF Exclusive
  <1>4. SizesInv'
    BY DEF SizesInv, BoundsHold, PagesCoverSize
  <1>5. CellsInv'
    BY DEF CellsInv, Writing
  <1>6. SoleInv'
    BY DEF SoleInv, Descriptors
  <1> QED BY <1>1, <1>2, <1>3, <1>4, <1>5, <1>6

-----------------------------------------------------------------------------
(* A new descriptor *)

LEMMA RegistersTable ==
    ASSUME ShapeInv, NEW p \in Process, NEW fd \in Fd, NEW f \in File, NEW position \in Nat,
           Registers(p, fd, f, position)
    PROVE  /\ opened' \in [Process -> Table]
           /\ shared' \subseteq File /\ shared \subseteq shared'
           /\ \A q \in Process \ {p} : opened'[q] = opened[q]
           /\ Descriptors(p)' = Descriptors(p) \cup {fd}
           /\ opened'[p][fd] = [file |-> f, position |-> position]
           /\ \A x \in Descriptors(p) \ {fd} : opened'[p][x] = opened[p][x]
  <1> DEFINE d == [file |-> f, position |-> position]
             t == [x \in DOMAIN opened[p] \cup {fd} |-> IF x = fd THEN d ELSE opened[p][x]]
  <1>1. opened \in [Process -> Table] /\ opened[p] \in Table /\ shared \subseteq File
    BY DEF ShapeInv
  <1>2. d \in Entry
    BY DEF Entry
  <1>3. opened' = [opened EXCEPT ![p] = t]
    BY DEF Registers
  <1>4. shared' \subseteq File /\ shared \subseteq shared'
    BY <1>1 DEF Registers
  <1> HIDE DEF d
  <1>5. t \in Table
    BY <1>1, <1>2, TableAdds
  <1>6. /\ DOMAIN t = DOMAIN opened[p] \cup {fd} /\ t[fd] = d
        /\ \A x \in DOMAIN opened[p] \ {fd} : t[x] = opened[p][x]
    OBVIOUS
  <1> HIDE DEF t
  <1>7. opened' \in [Process -> Table] /\ opened'[p] = t
        /\ \A q \in Process \ {p} : opened'[q] = opened[q]
    BY <1>1, <1>3, <1>5
  <1> QED BY <1>4, <1>6, <1>7 DEF Descriptors, d

\* A descriptor in addition to another of the same file makes the file a shared
\* one.
LEMMA RegistersShares ==
    ASSUME ShapeInv, NEW p \in Process, NEW fd \in Fd, NEW f \in File, NEW position \in Nat,
           Registers(p, fd, f, position), f \notin shared',
           NEW q \in Process, NEW x \in Descriptors(q), opened[q][x].file = f
    PROVE  q = p /\ x = fd
  <1>1. Uses(f) \ {<<p, fd>>} = {}
    BY DEF Registers
  <1>2. <<q, x>> \in Uses(f)
    BY UsesIs
  <1> QED BY <1>1, <1>2

LEMMA RegistersSole ==
    ASSUME ShapeInv, SoleInv,
           NEW p \in Process, NEW fd \in Fd, NEW f \in File, NEW position \in Nat,
           Registers(p, fd, f, position), call' = call,
           \A g \in File : g # f => files'[g].position = files[g].position,
           f \in shared' \/ files'[f].position = position
    PROVE  SoleInv'
  <1> DEFINE Old(q, x) == x \in Descriptors(q) /\ ~(q = p /\ x = fd)
  <1>1. /\ shared \subseteq shared'
        /\ \A q \in Process : \A x \in Descriptors(q)' :
              \/ q = p /\ x = fd
              \/ Old(q, x) /\ opened'[q][x] = opened[q][x]
        /\ opened'[p][fd] = [file |-> f, position |-> position]
    BY RegistersTable DEF Descriptors
  <1>2. \A q \in Process : \A x : Old(q, x) /\ f \notin shared' => opened[q][x].file # f
    BY RegistersShares
  <1>3. \A q \in Process : \A x : Old(q, x) => opened[q][x].file \in File
    BY DescriptorFacts
  <1>4. ASSUME NEW q \in Process, NEW r \in Process,
               NEW x \in Descriptors(q)', NEW y \in Descriptors(r)',
               opened'[q][x].file = opened'[r][y].file, opened'[q][x].file \notin shared'
        PROVE  q = r /\ x = y
    <2>1. CASE Old(q, x) /\ Old(r, y)
      <3>1. opened[q][x].file = opened[r][y].file /\ opened[q][x].file \notin shared
        BY <1>1, <1>4, <2>1
      <3> QED BY <3>1, <2>1 DEF SoleInv
    <2>2. CASE q = p /\ x = fd
      BY <1>1, <1>2, <1>4, <2>2
    <2>3. CASE r = p /\ y = fd
      BY <1>1, <1>2, <1>4, <2>3
    <2> QED BY <1>1, <2>1, <2>2, <2>3
  <1>5. ASSUME NEW q \in Process, NEW x \in Descriptors(q)',
               opened'[q][x].file \notin shared',
               ~(Moving(call'[q]) /\ call'[q].file = opened'[q][x].file)
        PROVE  files'[opened'[q][x].file].position = opened'[q][x].position
    <2>1. CASE q = p /\ x = fd
      BY <1>1, <1>5, <2>1
    <2>2. CASE Old(q, x) /\ opened'[q][x] = opened[q][x]
      <3>1. opened[q][x].file # f /\ opened[q][x].file \in File
        BY <1>2, <1>3, <1>5, <2>2
      <3>2. files[opened[q][x].file].position = opened[q][x].position
        BY <1>1, <1>5, <2>2 DEF SoleInv
      <3> QED BY <2>2, <3>1, <3>2
    <2> QED BY <1>1, <2>1, <2>2
  <1> QED BY <1>4, <1>5 DEF SoleInv


-----------------------------------------------------------------------------
(* The calls on descriptors *)

\* No call works on a file that is not used, and a process that may start a call
\* is in none.
LEMMA NotUsed ==
    ASSUME CallsInv, NEW p \in Process, User(p), NEW f, ~Used(p, f)
    PROVE  /\ Running /\ panic = NoPanic
           /\ call[p].at = "user" /\ ~Moving(call[p]) /\ call[p].op = "none"
           /\ \A q \in Process : Moving(call[q]) => call[q].file # f
  <1>1. Running /\ panic = NoPanic /\ call[p].at = "user"
    BY DEF User, At, Running
  <1>2. ~Moving(call[p]) /\ call[p].op = "none"
    BY <1>1 DEF Moving, CallsInv, CallShape
  <1>3. \A q \in Process : Moving(call[q]) => call[q].file # f
    BY <1>2 DEF Used, Moving
  <1> QED BY <1>1, <1>2, <1>3

LEMMA InUser ==
    ASSUME CallsInv, NEW p \in Process, User(p)
    PROVE  /\ Running /\ panic = NoPanic /\ panic # OutOfBounds
           /\ call[p].at = "user" /\ ~Moving(call[p]) /\ call[p].op = "none"
  BY DEF User, At, Running, Moving, CallsInv, CallShape, NoPanic, OutOfBounds

LEMMA AllocatedFd ==
    ASSUME ShapeInv, NEW p \in Process, NEW fd \in Fd, Allocated(p, fd)
    PROVE  fd \notin Descriptors(p) /\ last_fd' \in [Process -> 0 .. MaxFd + 1]
  BY BoundsAssumption DEF Allocated, ShapeInv, Fd

\* A file at another position.
LEMMA PositionSet ==
    ASSUME ShapeInv, NEW f \in File, NEW position \in Nat,
           files' = [files EXCEPT ![f].position = position]
    PROVE  /\ files' \in [File -> FileRecord]
           /\ files'[f].position = position
           /\ \A g \in File : g # f => files'[g] = files[g]
           /\ \A g \in File : files'[g].pages = files[g].pages /\ files'[g].size = files[g].size
  <1>1. files \in [File -> FileRecord]
    BY DEF ShapeInv
  <1> QED BY <1>1 DEF FileRecord

LEMMA CalmStep ==
    ASSUME FilesInv, ShapeInv', SoleInv', NEW p \in Process, Calm(p)
    PROVE  FilesInv'
  <1>1. CallsInv' /\ Exclusive'
    BY CalmCalls DEF FilesInv
  <1>2. SizesInv'
    BY CalmSizes DEF FilesInv
  <1>3. CellsInv'
    BY CalmCells DEF FilesInv
  <1> QED BY <1>1, <1>2, <1>3 DEF FilesInv

LEMMA OpenKeeps ==
    ASSUME FilesInv, NEW p \in Process, NEW f \in File, Open(p, f)
    PROVE  FilesInv'
  <1> USE DEF FilesInv
  <1>1. User(p) /\ ~Used(p, f) /\ UNCHANGED <<call, writes, raced, panic>>
    BY DEF Open
  <1>2. PICK fd \in Fd : Allocated(p, fd) /\ Registers(p, fd, f, 0)
    BY DEF Open
  <1>3. files' = [files EXCEPT ![f].position = 0]
    BY DEF Open, PositionOpened
  <1>4. /\ files' \in [File -> FileRecord] /\ files'[f].position = 0
        /\ \A g \in File : g # f => files'[g] = files[g]
        /\ \A g \in File : files'[g].pages = files[g].pages /\ files'[g].size = files[g].size
    BY <1>3, PositionSet
  <1>5. /\ opened' \in [Process -> Table] /\ shared' \subseteq File
        /\ \A q \in Process \ {p} : opened'[q] = opened[q]
    BY <1>2, RegistersTable
  <1>6. last_fd' \in [Process -> 0 .. MaxFd + 1]
    BY <1>2, AllocatedFd
  <1>7. ShapeInv'
    BY <1>1, <1>4, <1>5, <1>6 DEF ShapeInv
  <1>8. SoleInv'
    BY <1>1, <1>2, <1>4, RegistersSole
  <1>9. Calm(p)
    <2>1. /\ panic' # OutOfBounds /\ call[p].at = "user" /\ ~Moving(call[p])
          /\ call[p].op = "none"
          /\ \A q \in Process : Moving(call[q]) => call[q].file # f
      BY <1>1, NotUsed, InUser
    <2>2. \A q \in Process : Moving(call[q]) => call[q].file \in File
      BY DEF CallsInv, CallShape
    <2> QED BY <1>1, <1>4, <1>5, <2>1, <2>2 DEF Calm
  <1> HIDE DEF FilesInv
  <1> QED BY <1>7, <1>8, <1>9, CalmStep

LEMMA CloseKeeps ==
    ASSUME FilesInv, NEW p \in Process, NEW fd \in Fd, Close(p, fd)
    PROVE  FilesInv'
  <1> USE DEF FilesInv
  <1>1. /\ User(p) /\ fd \in Descriptors(p)
        /\ UNCHANGED <<files, last_fd, shared, call, writes, raced, panic>>
    BY DEF Close
  <1> DEFINE t == [x \in DOMAIN opened[p] \ {fd} |-> opened[p][x]]
  <1>2. opened' = [opened EXCEPT ![p] = t]
    BY DEF Close
  <1>3. opened \in [Process -> Table] /\ opened[p] \in Table
    BY DEF ShapeInv
  <1>4. t \in Table
    BY <1>3, TableRemoves
  <1>5. DOMAIN t = Descriptors(p) \ {fd} /\ \A x \in DOMAIN t : t[x] = opened[p][x]
    BY DEF Descriptors
  <1> HIDE DEF t
  <1>6. /\ opened' \in [Process -> Table] /\ opened'[p] = t
        /\ \A q \in Process \ {p} : opened'[q] = opened[q]
    BY <1>2, <1>3, <1>4
  <1>7. ShapeInv'
    BY <1>1, <1>6 DEF ShapeInv
  <1>8. \A q \in Process : \A x \in Descriptors(q)' :
           x \in Descriptors(q) /\ opened'[q][x] = opened[q][x]
    BY <1>5, <1>6 DEF Descriptors
  <1>9. SoleInv'
    BY <1>1, <1>8 DEF SoleInv
  <1>10. Calm(p)
    BY <1>1, <1>6, InUser DEF Calm
  <1> HIDE DEF FilesInv
  <1> QED BY <1>7, <1>9, <1>10, CalmStep

LEMMA DupKeeps ==
    ASSUME FilesInv, NEW p \in Process, NEW fd \in Fd, Dup(p, fd)
    PROVE  FilesInv'
  <1> USE DEF FilesInv
  <1>1. User(p) /\ fd \in Descriptors(p) /\ UNCHANGED <<files, call, writes, raced, panic>>
    BY DEF Dup
  <1> DEFINE f == opened[p][fd].file
  <1>2. PICK new \in Fd : Allocated(p, new) /\ Registers(p, new, f, 0)
    BY DEF Dup
  <1>3. f \in File
    BY <1>1, DescriptorFacts
  <1>4. f \in shared'
    <2>1. new # fd
      BY <1>1, <1>2, AllocatedFd
    <2> SUFFICES ASSUME f \notin shared'  PROVE FALSE
      OBVIOUS
    <2>2. opened[p][fd].file = f
      OBVIOUS
    <2> HIDE DEF f
    <2> QED BY <1>1, <1>2, <1>3, <2>1, <2>2, RegistersShares
  <1> HIDE DEF f
  <1>5. /\ opened' \in [Process -> Table] /\ shared' \subseteq File
        /\ \A q \in Process \ {p} : opened'[q] = opened[q]
    BY <1>2, <1>3, RegistersTable
  <1>6. last_fd' \in [Process -> 0 .. MaxFd + 1]
    BY <1>2, AllocatedFd
  <1>7. ShapeInv'
    BY <1>1, <1>5, <1>6 DEF ShapeInv
  <1>8. SoleInv'
    BY <1>1, <1>2, <1>3, <1>4, RegistersSole
  <1>9. Calm(p)
    BY <1>1, <1>5, InUser DEF Calm
  <1> HIDE DEF FilesInv
  <1> QED BY <1>7, <1>8, <1>9, CalmStep

LEMMA Dup2Keeps ==
    ASSUME FilesInv, NEW p \in Process, NEW fd \in Fd, NEW new \in Fd, Dup2(p, fd, new)
    PROVE  FilesInv'
  <1>1. User(p) /\ fd \in Descriptors(p)
    BY DEF Dup2
  <1>2. CASE Stop(UseAfterErase)
    <2>1. /\ UNCHANGED <<files, descriptors, call, writes, raced>>
          /\ panic' # OutOfBounds
      BY <1>2 DEF Stop, UseAfterErase, OutOfBounds
    <2> QED BY <2>1, StopKeeps
  <1> DEFINE f == opened[p][fd].file
             position == opened[p][fd].position
  <1>3. CASE /\ new # fd /\ Registers(p, new, f, position)
             /\ UNCHANGED <<files, last_fd, call, writes, raced, panic>>
    <2> USE DEF FilesInv
    <2>1. f \in File /\ position \in Nat
      BY <1>1, DescriptorFacts
    <2>2. f \in shared'
      <3> SUFFICES ASSUME f \notin shared'  PROVE FALSE
        OBVIOUS
      <3>1. opened[p][fd].file = f
        OBVIOUS
      <3> HIDE DEF f, position
      <3> QED BY <1>1, <1>3, <2>1, <3>1, RegistersShares
    <2> HIDE DEF f, position
    <2>3. /\ opened' \in [Process -> Table] /\ shared' \subseteq File
          /\ \A q \in Process \ {p} : opened'[q] = opened[q]
      BY <1>3, <2>1, RegistersTable
    <2>4. ShapeInv'
      BY <1>3, <2>3 DEF ShapeInv
    <2>5. SoleInv'
      BY <1>3, <2>1, <2>2, RegistersSole
    <2>6. Calm(p)
      BY <1>1, <1>3, <2>3, InUser DEF Calm
    <2> HIDE DEF FilesInv
    <2> QED BY <2>4, <2>5, <2>6, CalmStep
  <1> QED BY <1>2, <1>3 DEF Dup2


LEMMA ForkKeeps ==
    ASSUME FilesInv, NEW p \in Process, NEW child \in Process, Fork(p, child)
    PROVE  FilesInv'
  <1> USE DEF FilesInv
  <1>1. /\ User(p) /\ call[child].at = "unborn"
        /\ shared' = shared \cup {opened[p][fd].file : fd \in Descriptors(p)}
        /\ UNCHANGED <<files, writes, raced, panic>>
    BY DEF Fork, At
  <1>2. opened' = [opened EXCEPT ![child] = opened[p]]
    BY DEF Fork
  <1>3. call' = [call EXCEPT ![child] = Idle]
    BY DEF Fork
  <1>4. last_fd' \in [Process -> 0 .. MaxFd + 1]
    BY DEF Fork, ShapeInv
  <1>5. opened \in [Process -> Table] /\ call \in [Process -> Calls]
    BY DEF ShapeInv
  <1>6. /\ opened' \in [Process -> Table] /\ opened'[child] = opened[p]
        /\ \A q \in Process \ {child} : opened'[q] = opened[q]
    BY <1>2, <1>5
  <1>7. Idle \in Calls /\ Idle.at = "user" /\ Idle.op = "none" /\ ~Moving(Idle)
    <2>1. 0 \in Fd /\ NoFile \in File \cup {NoFile}
      BY BoundsAssumption DEF Fd
    <2>2. << >> \in Seq(Cell)
      OBVIOUS
    <2> QED BY <2>1, <2>2 DEF Idle, Calls, Moving
  <1>8. /\ call' \in [Process -> Calls] /\ call'[child] = Idle
        /\ \A q \in Process \ {child} : call'[q] = call[q]
    BY <1>3, <1>5, <1>7
  <1>9. shared \subseteq shared' /\ shared' \subseteq File
    <2>1. \A fd \in Descriptors(p) : opened[p][fd].file \in File
      BY DescriptorFacts
    <2> QED BY <1>1, <2>1 DEF ShapeInv
  <1>10. ShapeInv'
    BY <1>1, <1>4, <1>6, <1>8, <1>9 DEF ShapeInv
  <1>11. call[child].op = "none" /\ ~Moving(call[child])
    BY <1>1 DEF CallsInv, CallShape, Moving
  <1>12. Calm(child)
    BY <1>1, <1>6, <1>7, <1>8, <1>11, InUser DEF Calm
  <1>13. \A x \in Descriptors(p) : opened[p][x].file \in shared'
    BY <1>1
  <1>14. \A q \in Process : \A x \in Descriptors(q)' :
            opened'[q][x].file \notin shared' =>
               q # child /\ x \in Descriptors(q) /\ opened'[q][x] = opened[q][x]
    BY <1>6, <1>13 DEF Descriptors
  <1>15. SoleInv'
    BY SMTT(60), <1>1, <1>8, <1>9, <1>14 DEF SoleInv
  <1> HIDE DEF FilesInv
  <1> QED BY <1>10, <1>12, <1>15, CalmStep

LEMMA LseekKeeps ==
    ASSUME FilesInv, NEW p \in Process, NEW fd \in Fd,
           NEW offset \in Offsets, NEW whence \in Whence, Lseek(p, fd, offset, whence)
    PROVE  FilesInv'
  <1> USE DEF FilesInv
  <1> DEFINE f == opened[p][fd].file
  <1>1. /\ User(p) /\ fd \in Descriptors(p) /\ ~Used(p, f)
        /\ UNCHANGED <<last_fd, shared, call, writes, raced, panic>>
    BY DEF Lseek
  <1>2. PICK sought \in 0 .. MaxPosition :
           /\ files' = [files EXCEPT ![f].position = sought]
           /\ opened' = [opened EXCEPT ![p][fd].position = sought]
    BY DEF Lseek
  <1>3. sought \in Nat
    BY OffsetsAssumption
  <1>4. f \in File
    BY <1>1, DescriptorFacts
  <1>5. /\ \A q \in Process : Moving(call[q]) => call[q].file # f
        /\ ~Moving(call[p]) /\ call[p].op = "none" /\ call[p].at = "user"
        /\ panic' # OutOfBounds
    BY <1>1, NotUsed, InUser
  <1> DEFINE t == [opened[p] EXCEPT ![fd].position = sought]
  <1>6. opened \in [Process -> Table] /\ opened[p] \in Table
    BY DEF ShapeInv
  <1>7. t \in Table
    BY <1>1, <1>3, <1>6, TableMoves DEF Descriptors
  <1>8. opened[p][fd] \in Entry
    BY <1>1, DescriptorFacts
  <1>9. /\ DOMAIN t = DOMAIN opened[p]
        /\ t[fd].file = opened[p][fd].file /\ t[fd].position = sought
        /\ \A x \in DOMAIN t \ {fd} : t[x] = opened[p][x]
    BY <1>1, <1>8 DEF Descriptors, Entry
  <1>10. opened' = [opened EXCEPT ![p] = t]
    BY <1>2
  <1>11. f = opened[p][fd].file
    OBVIOUS
  <1> HIDE DEF t, f
  <1>12. /\ opened' \in [Process -> Table] /\ opened'[p] = t
         /\ \A q \in Process \ {p} : opened'[q] = opened[q]
    BY <1>6, <1>7, <1>10
  <1>13. /\ files' \in [File -> FileRecord] /\ files'[f].position = sought
         /\ \A g \in File : g # f => files'[g] = files[g]
         /\ \A g \in File : files'[g].pages = files[g].pages /\ files'[g].size = files[g].size
    BY <1>2, <1>3, <1>4, PositionSet
  <1>14. ShapeInv'
    BY <1>1, <1>12, <1>13 DEF ShapeInv
  <1>15. Calm(p)
    <2>1. \A q \in Process : Moving(call[q]) => call[q].file \in File
      BY DEF CallsInv, CallShape
    <2> QED BY <1>1, <1>5, <1>12, <1>13, <2>1 DEF Calm
  <1>16. \A q \in Process : \A x \in Descriptors(q)' :
            /\ x \in Descriptors(q) /\ opened'[q][x].file = opened[q][x].file
            /\ opened[q][x].file \in File
            /\ ~(q = p /\ x = fd) => opened'[q][x] = opened[q][x]
            /\ q = p /\ x = fd => opened'[q][x].position = sought
    <2>1. \A q \in Process : \A x \in Descriptors(q) : opened[q][x].file \in File
      BY DescriptorFacts
    <2> QED BY <1>9, <1>12, <2>1 DEF Descriptors
  <1>17. SoleInv'
    <2>1. ASSUME NEW q \in Process, NEW r \in Process,
                 NEW x \in Descriptors(q)', NEW y \in Descriptors(r)',
                 opened'[q][x].file = opened'[r][y].file, opened'[q][x].file \notin shared'
          PROVE  q = r /\ x = y
      BY <1>1, <1>16, <2>1 DEF SoleInv
    <2>2. ASSUME NEW q \in Process, NEW x \in Descriptors(q)',
                 opened'[q][x].file \notin shared',
                 ~(Moving(call'[q]) /\ call'[q].file = opened'[q][x].file)
          PROVE  files'[opened'[q][x].file].position = opened'[q][x].position
      <3>1. CASE q = p /\ x = fd
        BY <1>11, <1>13, <1>16, <3>1
      <3>2. CASE ~(q = p /\ x = fd)
        <4>1. /\ opened'[q][x] = opened[q][x] /\ x \in Descriptors(q)
              /\ opened[q][x].file \notin shared /\ opened[q][x].file \in File
          BY <1>1, <1>16, <2>2, <3>2
        <4>2. opened[q][x].file # f
          BY <1>1, <1>11, <3>2, <4>1 DEF SoleInv
        <4>3. files[opened[q][x].file].position = opened[q][x].position
          BY <1>1, <2>2, <4>1 DEF SoleInv
        <4> QED BY <1>13, <4>1, <4>2, <4>3
      <3> QED BY <3>1, <3>2
    <2> QED BY <2>1, <2>2 DEF SoleInv
  <1> HIDE DEF FilesInv
  <1> QED BY <1>14, <1>15, <1>17, CalmStep


-----------------------------------------------------------------------------
(* The start of read and write *)

LEMMA StartsKeeps ==
    ASSUME FilesInv, NEW p \in Process, NEW fd \in Fd, NEW op \in {"read", "write"},
           NEW n \in Nat \ {0}, NEW data \in Seq(Cell),
           Starts(p, fd, op, n, data), writes' \in 0 .. MaxWrites,
           op = "read" => data = << >> /\ n \in ReadSizes,
           op = "write" => /\ Len(data) = n
                           /\ \E k \in 1 .. MaxWrites, m \in WriteSizes : data = Block(k, m)
    PROVE  FilesInv'
  <1> USE DEF FilesInv
  <1> DEFINE f == opened[p][fd].file
             start == opened[p][fd].position
             before == Stored(f)
             c == [Idle EXCEPT !.op = op, !.at = "move", !.file = f, !.fd = fd, !.left = n,
                               !.data = data, !.start = start, !.before = before]
  <1>1. /\ User(p) /\ fd \in Descriptors(p) /\ ~Used(p, f)
        /\ UNCHANGED <<descriptors, raced, panic>>
    BY DEF Starts
  <1>2. /\ f \in File /\ start \in Nat /\ opened[p][fd] \in Entry
    BY <1>1, DescriptorFacts
  <1>3. /\ \A q \in Process : Moving(call[q]) => call[q].file # f
        /\ ~Moving(call[p]) /\ call[p].op = "none" /\ call[p].at = "user"
        /\ panic' # OutOfBounds
    BY <1>1, NotUsed, InUser
  <1>4. PagesCoverSize
    BY DEF SizesInv, BoundsHold
  <1>5. files' = [files EXCEPT ![f].position = start]
    BY DEF Starts, Sought
  <1>6. call' = [call EXCEPT ![p] = c]
    BY DEF Starts
  <1>7. ~Writing(f)
    <2>1. \A q \in Process : call[q].op = "write" => Moving(call[q])
      BY DEF CallsInv, CallShape
    <2> QED BY <1>3, <2>1 DEF Writing
  <1>8. /\ before = Content(f) /\ before \in Seq(Cell) /\ Len(before) = files[f].size
        /\ DOMAIN before = 1 .. files[f].size
        /\ \A i \in 1 .. files[f].size :
              i \in 1 .. Capacity(files[f]) /\ before[i] = CellOf(files[f], i)
    BY <1>2, <1>4, <1>7, StoredUnwritten, ContentIs
  <1>9. opened[p][fd] = [file |-> f, position |-> start]
    BY <1>2 DEF Entry
  <1>10. op \in {"read", "write"} /\ n \in Nat /\ n # 0
    OBVIOUS
  <1> HIDE DEF f, start, before
  <1>11. c \in Calls
    <2>1. 0 \in Nat
      OBVIOUS
    <2> QED BY <1>2, <1>8, <1>10, <2>1 DEF Calls, Idle
  <1>12. /\ c.op = op /\ c.at = "move" /\ c.file = f /\ c.fd = fd /\ c.left = n
         /\ c.data = data /\ c.start = start /\ c.before = before /\ c.moved = 0
         /\ Moving(c)
    BY DEF Idle, Moving
  <1> HIDE DEF c
  <1>13. /\ files' \in [File -> FileRecord] /\ files'[f].position = start
         /\ \A g \in File : g # f => files'[g] = files[g]
         /\ \A g \in File : files'[g].pages = files[g].pages /\ files'[g].size = files[g].size
    BY <1>2, <1>5, PositionSet
  <1>14. /\ call' \in [Process -> Calls] /\ call'[p] = c
         /\ \A q \in Process \ {p} : call'[q] = call[q]
    BY <1>6, <1>11 DEF ShapeInv
  <1>15. opened' = opened /\ last_fd' = last_fd /\ shared' = shared
    BY <1>1 DEF descriptors
  <1>16. ShapeInv'
    BY <1>1, <1>13, <1>14, <1>15 DEF ShapeInv
  <1>17. \A q \in Process : Moving(call[q]) => call[q].file \in File
    BY DEF CallsInv, CallShape
  <1>18. CallsInv'
    <2>1. ASSUME NEW q \in Process  PROVE  CallShape(q, call[q])'
      <3>1. CASE q = p
        <4>1. c.op = "read" => Len(c.data) = c.moved /\ c.moved + c.left \in ReadSizes
          BY <1>12
        <4>2. c.op = "write" =>
                /\ Len(c.data) = c.moved + c.left
                /\ \E k \in 1 .. MaxWrites, m \in WriteSizes : c.data = Block(k, m)
          BY <1>12
        <4>3. opened'[p][c.fd] = [file |-> c.file, position |-> c.start]
              /\ c.fd \in Descriptors(p)'
          BY <1>1, <1>9, <1>12, <1>15 DEF Descriptors
        <4>4. files'[c.file].position = c.start + c.moved
          BY <1>2, <1>12, <1>13
        <4> QED BY <3>1, <4>1, <4>2, <4>3, <4>4, <1>2, <1>12, <1>14 DEF CallShape, Descriptors
      <3>2. CASE q # p
        <4>1. CallShape(q, call[q])
          BY DEF CallsInv
        <4>2. Moving(call[q]) => files'[call[q].file] = files[call[q].file]
          BY <1>3, <1>13, <1>17
        <4> QED BY <3>2, <4>1, <4>2, <1>14, <1>15 DEF CallShape, Descriptors
      <3> QED BY <3>1, <3>2
    <2> QED BY <2>1 DEF CallsInv
  <1>19. Exclusive'
    BY <1>3, <1>12, <1>14 DEF Exclusive
  <1>20. SizesInv'
    <2>1. BoundsHold'
      BY <1>3, <1>13 DEF SizesInv, BoundsHold, PagesCoverSize
    <2>2. ASSUME NEW q \in Process, Moving(call'[q])
          PROVE  SizeShape(call'[q], files'[call'[q].file])
      <3>1. CASE q = p
        <4>1. files'[f].size = Len(c.before)
          BY <1>2, <1>8, <1>12, <1>13
        <4> QED BY <3>1, <4>1, <1>12, <1>14 DEF SizeShape
      <3>2. CASE q # p
        <4>1. Moving(call[q]) /\ call'[q] = call[q]
          BY <1>14, <2>2, <3>2
        <4>2. files'[call[q].file] = files[call[q].file]
          BY <4>1, <1>3, <1>13, <1>17
        <4> QED BY <4>1, <4>2 DEF SizesInv
      <3> QED BY <3>1, <3>2
    <2> QED BY <2>1, <2>2 DEF SizesInv
  <1>21. CellsInv'
    <2>1. ASSUME NEW g \in File  PROVE  Writing(g)' \/ Clean(files'[g])
      <3>1. CASE Writing(g)
        <4>1. PICK q \in Process : call[q].op = "write" /\ call[q].file = g
          BY <3>1 DEF Writing
        <4>2. call'[q] = call[q]
          BY <4>1, <1>3, <1>14
        <4> QED BY <4>1, <4>2 DEF Writing
      <3>2. CASE Clean(files[g])
        <4>1. files'[g].pages = files[g].pages /\ files'[g].size = files[g].size
          BY <1>13
        <4> QED BY <3>2, <4>1 DEF Clean, Capacity, CellOf
      <3> QED BY <3>1, <3>2 DEF CellsInv
    <2>2. ASSUME NEW q \in Process, Moving(call'[q])
          PROVE  CellShape(call'[q], files'[call'[q].file])
      <3>1. CASE q = p
        <4>1. /\ Capacity(files'[f]) = Capacity(files[f]) /\ files'[f].size = files[f].size
              /\ \A i : CellOf(files'[f], i) = CellOf(files[f], i)
          BY <1>2, <1>13 DEF Capacity, CellOf
        <4>2. ASSUME NEW i \in 1 .. Capacity(files[f])
              PROVE  CellOf(files[f], i) = Made(c, i)
          <5>1. i \notin c.start + 1 .. c.start + c.moved
            BY <1>2, <1>12
          <5>2. CASE i \in DOMAIN before
            BY <5>1, <5>2, <1>8, <1>12 DEF Made
          <5>3. CASE i \notin DOMAIN before
            <6>1. Clean(files[f])
              BY <1>2, <1>7 DEF CellsInv
            <6>2. Capacity(files[f]) \in Nat /\ files[f].size \in Nat
              BY <1>2, FileFacts
            <6>3. i > files[f].size
              BY <5>3, <6>2, <1>8
            <6>4. CellOf(files[f], i) = Unwritten
              BY <6>1, <6>3 DEF Clean
            <6> QED BY <5>1, <5>3, <6>4, <1>12 DEF Made
          <5> QED BY <5>2, <5>3
        <4>3. \A i \in 1 .. files[f].size : CellOf(files[f], i) = c.before[i]
          BY <1>8, <1>12
        <4>4. \A j \in 1 .. c.moved : c.data[j] = c.before[c.start + j]
          BY <1>12
        <4> HIDE DEF CellOf, Capacity
        <4> QED BY <3>1, <4>1, <4>2, <4>3, <4>4, <1>12, <1>14 DEF CellShape
      <3>2. CASE q # p
        <4>1. Moving(call[q]) /\ call'[q] = call[q]
          BY <1>14, <2>2, <3>2
        <4>2. files'[call[q].file] = files[call[q].file]
          BY <4>1, <1>3, <1>13, <1>17
        <4> QED BY <4>1, <4>2 DEF CellsInv
      <3> QED BY <3>1, <3>2
    <2> QED BY <2>1, <2>2 DEF CellsInv
  <1>22. SoleInv'
    <2>1. \A q, r \in Process : \A x \in Descriptors(q)', y \in Descriptors(r)' :
            opened'[q][x].file = opened'[r][y].file /\ opened'[q][x].file \notin shared'
               => q = r /\ x = y
      BY <1>15 DEF SoleInv, Descriptors
    <2>2. ASSUME NEW q \in Process, NEW x \in Descriptors(q)',
                 opened'[q][x].file \notin shared',
                 ~(Moving(call'[q]) /\ call'[q].file = opened'[q][x].file)
          PROVE  files'[opened'[q][x].file].position = opened'[q][x].position
      <3>1. /\ opened'[q][x] = opened[q][x] /\ x \in Descriptors(q)
            /\ opened[q][x].file \notin shared /\ opened[q][x].file \in File
        BY <1>15, <2>2, DescriptorFacts DEF Descriptors
      <3>2. opened[q][x].file # f
        <4> SUFFICES ASSUME opened[q][x].file = f  PROVE FALSE
          OBVIOUS
        <4>1. opened[p][fd].file = f
          BY <1>9
        <4>2. q = p
          BY <3>1, <4>1, <1>1 DEF SoleInv
        <4> QED BY <4>2, <1>12, <1>14, <2>2, <3>1
      <3>3. ~(Moving(call[q]) /\ call[q].file = opened[q][x].file)
        BY <1>3, <1>14, <2>2, <3>1
      <3>4. files[opened[q][x].file].position = opened[q][x].position
        BY <3>1, <3>3 DEF SoleInv
      <3> QED BY <1>13, <3>1, <3>2, <3>4
    <2> QED BY <2>1, <2>2 DEF SoleInv
  <1> QED BY <1>16, <1>18, <1>19, <1>20, <1>21, <1>22

LEMMA ReadKeeps ==
    ASSUME FilesInv, NEW p \in Process, NEW fd \in Fd, NEW n \in ReadSizes, Read(p, fd, n)
    PROVE  FilesInv'
  <1>1. Starts(p, fd, "read", n, << >>) /\ writes' = writes
    BY DEF Read
  <1>2. << >> \in Seq(Cell) /\ n \in Nat \ {0}
    BY SizesAssumption
  <1>3. writes' \in 0 .. MaxWrites
    BY <1>1 DEF FilesInv, ShapeInv
  <1>4. "read" \in {"read", "write"} /\ "read" # "write"
    OBVIOUS
  <1> QED BY <1>1, <1>2, <1>3, <1>4, StartsKeeps

LEMMA WriteKeeps ==
    ASSUME FilesInv, NEW p \in Process, NEW fd \in Fd, NEW n \in WriteSizes, Write(p, fd, n)
    PROVE  FilesInv'
  <1> DEFINE data == Block(writes + 1, n)
  <1>1. Starts(p, fd, "write", n, data) /\ writes' = writes + 1 /\ writes < MaxWrites
    BY DEF Write
  <1>2. writes \in 0 .. MaxWrites /\ n \in Nat \ {0} /\ MaxWrites \in Nat
    BY SizesAssumption, BoundsAssumption DEF FilesInv, ShapeInv
  <1>3. writes' \in 0 .. MaxWrites /\ writes + 1 \in 1 .. MaxWrites
    BY <1>1, <1>2
  <1>4. data \in Seq(Cell) /\ Len(data) = n
    BY <1>2, <1>3 DEF Block, Cell
  <1>5. \E k \in 1 .. MaxWrites, m \in WriteSizes : data = Block(k, m)
    BY <1>3
  <1>6. "write" \in {"read", "write"} /\ "read" # "write"
    OBVIOUS
  <1> HIDE DEF data
  <1> QED BY <1>1, <1>2, <1>3, <1>4, <1>5, <1>6, StartsKeeps


-----------------------------------------------------------------------------
(* Reading and writing *)

\* A step of the call process p is in, on the file it works on.
Moves(p) ==
    /\ Moving(call[p]) /\ Moving(call'[p])
    /\ call'[p].op = call[p].op /\ call'[p].file = call[p].file
    /\ call'[p].fd = call[p].fd /\ call'[p].start = call[p].start
    /\ call'[p].before = call[p].before
    /\ \A q \in Process \ {p} : call'[q] = call[q]
    /\ \A g \in File : g # call[p].file => files'[g] = files[g]
    /\ panic' # OutOfBounds
    /\ UNCHANGED <<descriptors, writes, raced>>

LEMMA MovesOthers ==
    ASSUME FilesInv, NEW p \in Process, Moves(p)
    PROVE  /\ opened' = opened /\ last_fd' = last_fd /\ shared' = shared
           /\ call[p].file \in File
           /\ \A q \in Process : q # p /\ Moving(call'[q]) =>
                 /\ call'[q] = call[q] /\ Moving(call[q])
                 /\ call[q].file \in File /\ call[q].file # call[p].file
                 /\ files'[call[q].file] = files[call[q].file]
  <1>1. \A q \in Process : Moving(call[q]) => call[q].file \in File
    BY DEF FilesInv, CallsInv, CallShape
  <1>2. \A q \in Process : q # p /\ Moving(call[q]) => call[q].file # call[p].file
    BY DEF FilesInv, Exclusive, Moves
  <1> QED BY <1>1, <1>2 DEF Moves, descriptors

LEMMA MovesCalls ==
    ASSUME FilesInv, NEW p \in Process, Moves(p), CallShape(p, call[p])'
    PROVE  CallsInv' /\ Exclusive'
  <1>1. ASSUME NEW q \in Process  PROVE  CallShape(q, call[q])'
    <2>1. CASE q = p
      BY <2>1
    <2>2. CASE q # p
      <3>1. CallShape(q, call[q]) /\ call'[q] = call[q] /\ opened' = opened
        BY <2>2, MovesOthers DEF FilesInv, CallsInv, Moves
      <3>2. Moving(call[q]) => files'[call[q].file] = files[call[q].file]
        BY <2>2, <3>1, MovesOthers
      <3> QED BY <3>1, <3>2 DEF CallShape, Descriptors
    <2> QED BY <2>1, <2>2
  <1>2. Exclusive'
    BY DEF FilesInv, Exclusive, Moves
  <1> QED BY <1>1, <1>2 DEF CallsInv

LEMMA MovesSole ==
    ASSUME FilesInv, NEW p \in Process, Moves(p)
    PROVE  SoleInv'
  <1> DEFINE f == call[p].file
  <1>1. SoleInv /\ opened' = opened /\ shared' = shared
    BY MovesOthers DEF FilesInv
  <1>2. call[p].fd \in Descriptors(p) /\ opened[p][call[p].fd].file = f
    <2>1. CallShape(p, call[p]) /\ Moving(call[p])
      BY DEF FilesInv, CallsInv, Moves
    <2>2. opened[p][call[p].fd] = [file |-> f, position |-> call[p].start]
          /\ call[p].fd \in Descriptors(p)
      BY <2>1 DEF CallShape
    <2> QED BY <2>2
  <1>3. ASSUME NEW q \in Process, NEW x \in Descriptors(q), opened[q][x].file \notin shared,
               ~(Moving(call'[q]) /\ call'[q].file = opened[q][x].file)
        PROVE  files'[opened[q][x].file].position = opened[q][x].position
    <2>1. opened[q][x].file \in File
      BY DescriptorFacts DEF FilesInv
    <2>2. opened[q][x].file # f
      <3> SUFFICES ASSUME opened[q][x].file = f  PROVE FALSE
        OBVIOUS
      <3>1. q = p
        BY <1>1, <1>2, <1>3 DEF SoleInv
      <3> QED BY <3>1, <1>3 DEF Moves
    <2>3. ~(Moving(call[q]) /\ call[q].file = opened[q][x].file)
      BY <1>3 DEF Moves
    <2>4. files[opened[q][x].file].position = opened[q][x].position
      BY <1>1, <1>3, <2>3 DEF SoleInv
    <2> QED BY <2>1, <2>2, <2>4 DEF Moves
  <1>4. Descriptors(p)' = Descriptors(p) /\ \A q \in Process : Descriptors(q)' = Descriptors(q)
    BY <1>1 DEF Descriptors
  <1> QED BY <1>1, <1>3, <1>4 DEF SoleInv

LEMMA MovesKeep ==
    ASSUME FilesInv, NEW p \in Process, Moves(p),
           call' \in [Process -> Calls], files' \in [File -> FileRecord],
           CallShape(p, call[p])',
           SizeShape(call'[p], files'[call[p].file]),
           CellShape(call'[p], files'[call[p].file]),
           files'[call[p].file].size <= Capacity(files'[call[p].file]),
           call[p].op = "write" \/ Clean(files'[call[p].file])
    PROVE  FilesInv'
  <1> DEFINE f == call[p].file
  <1>1. /\ opened' = opened /\ last_fd' = last_fd /\ shared' = shared /\ f \in File
        /\ writes' = writes /\ raced' = raced
    BY MovesOthers DEF Moves
  <1>2. ShapeInv'
    BY <1>1 DEF FilesInv, ShapeInv
  <1>3. CallsInv' /\ Exclusive'
    BY MovesCalls
  <1>4. SoleInv'
    BY MovesSole
  <1>5. SizesInv'
    <2>1. ASSUME NEW g \in File  PROVE  files'[g].size <= PageSize * Len(files'[g].pages)
      <3>1. CASE g = f
        BY <3>1 DEF Capacity
      <3>2. CASE g # f
        <4>1. files'[g] = files[g]
          BY <3>2 DEF Moves
        <4>2. files[g].size <= PageSize * Len(files[g].pages)
          BY DEF FilesInv, SizesInv, BoundsHold, PagesCoverSize
        <4> QED BY <4>1, <4>2
      <3> QED BY <3>1, <3>2
    <2>2. BoundsHold'
      BY <2>1 DEF BoundsHold, PagesCoverSize, Moves
    <2>3. ASSUME NEW q \in Process, Moving(call'[q])
          PROVE  SizeShape(call'[q], files'[call'[q].file])
      <3>1. CASE q = p
        BY <3>1 DEF Moves
      <3>2. CASE q # p
        <4>1. /\ call'[q] = call[q] /\ Moving(call[q])
              /\ files'[call[q].file] = files[call[q].file]
          BY <2>3, <3>2, MovesOthers
        <4> QED BY <4>1 DEF FilesInv, SizesInv
      <3> QED BY <3>1, <3>2
    <2> QED BY <2>2, <2>3 DEF SizesInv
  <1>6. CellsInv'
    <2>1. ASSUME NEW g \in File  PROVE  Writing(g)' \/ Clean(files'[g])
      <3>1. CASE Writing(g)
        <4>1. PICK q \in Process : call[q].op = "write" /\ call[q].file = g
          BY <3>1 DEF Writing
        <4>2. call'[q].op = "write" /\ call'[q].file = g
          BY <4>1 DEF Moves
        <4> QED BY <4>2 DEF Writing
      <3>2. CASE g = f /\ ~Writing(g)
        BY <3>2 DEF Writing
      <3>3. CASE g # f /\ ~Writing(g)
        <4>1. files'[g] = files[g] /\ Clean(files[g])
          BY <3>3 DEF Moves, FilesInv, CellsInv
        <4> QED BY <4>1
      <3> QED BY <3>1, <3>2, <3>3
    <2>2. ASSUME NEW q \in Process, Moving(call'[q])
          PROVE  CellShape(call'[q], files'[call'[q].file])
      <3>1. CASE q = p
        BY <3>1 DEF Moves
      <3>2. CASE q # p
        <4>1. /\ call'[q] = call[q] /\ Moving(call[q])
              /\ files'[call[q].file] = files[call[q].file]
          BY <2>2, <3>2, MovesOthers
        <4> QED BY <4>1 DEF FilesInv, CellsInv
      <3> QED BY <3>1, <3>2
    <2> QED BY <2>1, <2>2 DEF CellsInv
  <1> QED BY <1>2, <1>3, <1>4, <1>5, <1>6 DEF FilesInv


\* The call process p is in, before it works on one more page.
LEMMA InMove ==
    ASSUME FilesInv, NEW p \in Process, At(p, "move")
    PROVE  LET c == call[p]
               file == files[c.file] IN
           /\ panic = NoPanic /\ Moving(c)
           /\ c \in Calls /\ c.file \in File /\ c.left \in Nat \ {0}
           /\ c.moved \in Nat /\ c.start \in Nat
           /\ c.fd \in Descriptors(p)
           /\ opened[p][c.fd] = [file |-> c.file, position |-> c.start]
           /\ file \in FileRecord /\ file.pages \in Seq(Page) /\ file.size \in Nat
           /\ file.position \in Nat /\ file.position = c.start + c.moved
           /\ file.size = Len(c.before)
           /\ file.size <= Capacity(file)
           /\ CallShape(p, c) /\ SizeShape(c, file) /\ CellShape(c, file)
  <1> DEFINE c == call[p]
             file == files[c.file]
  <1>1. panic = NoPanic /\ c.at = "move" /\ Moving(c)
    BY DEF At, Running, Moving
  <1>2. CallShape(p, c) /\ SizeShape(c, file) /\ CellShape(c, file)
    BY <1>1 DEF FilesInv, CallsInv, SizesInv, CellsInv
  <1>3. c \in Calls /\ c.left \in Nat /\ c.moved \in Nat /\ c.start \in Nat
    BY CallFacts DEF FilesInv
  <1>4. /\ c.op \in {"read", "write"} /\ c.file \in File /\ c.left # 0
        /\ c.fd \in Descriptors(p)
        /\ opened[p][c.fd] = [file |-> c.file, position |-> c.start]
        /\ file.position = c.start + c.moved
    BY <1>1, <1>2 DEF CallShape
  <1>5. /\ file \in FileRecord /\ file.pages \in Seq(Page) /\ file.size \in Nat
        /\ file.position \in Nat
    BY <1>4, FileFacts DEF FilesInv
  <1>6. file.size = Len(c.before)
    BY <1>1, <1>2, <1>4 DEF SizeShape
  <1>7. file.size <= Capacity(file)
    BY <1>4 DEF FilesInv, SizesInv, BoundsHold, PagesCoverSize, Capacity
  <1> QED BY <1>1, <1>2, <1>3, <1>4, <1>5, <1>6, <1>7

\* Only a call that started behind the end of its file misses a page.
LEMMA InMovePage ==
    ASSUME FilesInv, NEW p \in Process, At(p, "move"),
           NEW position, position = files[call[p].file].position,
           NEW pages, pages = Ready(files[call[p].file].pages, position \div PageSize)
    PROVE  /\ Len(pages) <= position \div PageSize => call[p].start > Len(call[p].before)
           /\ position > files[call[p].file].size => call[p].start > Len(call[p].before)
                 \/ call[p].op = "write"
           /\ position \in Nat /\ position % PageSize \in 0 .. PageSize - 1
           /\ pages \in Seq(Page) /\ Len(pages) \in Nat
           /\ PageSize * Len(pages) \in Nat
           /\ Capacity(files[call[p].file]) <= PageSize * Len(pages)
           /\ position \div PageSize < Len(pages) =>
                 position - (position % PageSize) + PageSize <= PageSize * Len(pages)
  <1> DEFINE c == call[p]
             file == files[c.file]
             index == position \div PageSize
             offset == position % PageSize
  <1>1. /\ c.moved \in Nat /\ c.start \in Nat
        /\ file.pages \in Seq(Page) /\ file.size \in Nat
        /\ file.position \in Nat /\ file.position = c.start + c.moved
        /\ file.size = Len(c.before) /\ file.size <= Capacity(file)
        /\ SizeShape(c, file) /\ CallShape(p, c) /\ Moving(c)
    BY InMove
  <1>2. PageSize \in Nat \ {0}
    BY BoundsAssumption
  <1>3. position \in Nat
    BY <1>1
  <1>4. index \in Nat /\ offset \in 0 .. PageSize - 1 /\ position = PageSize * index + offset
    BY <1>2, <1>3, Division
  <1>5. pages \in Seq(Page) /\ PageSize * Len(file.pages) <= PageSize * Len(pages)
    <2> HIDE DEF file, index
    <2>1. pages = Ready(file.pages, index)
      BY DEF file, index
    <2> QED BY <1>1, <1>4, <2>1, ReadyCells
  <1>6. Len(pages) \in Nat
    BY <1>5
  <1>7. PageSize * Len(pages) \in Nat
    BY <1>2, <1>6, Product
  <1>8. position = c.start + c.moved /\ Capacity(file) = PageSize * Len(file.pages)
    BY <1>1 DEF Capacity
  <1>9. c.moved > 0 => position <= Capacity(file)
    BY <1>1, <1>8 DEF SizeShape
  <1>10. Capacity(file) \in Nat
    <2>1. Len(file.pages) \in Nat
      BY <1>1
    <2> QED BY <1>2, <1>8, <2>1, Product
  <1>11. Len(pages) <= index => c.start > Len(c.before)
    <2> SUFFICES ASSUME Len(pages) <= index  PROVE c.start > Len(c.before)
      OBVIOUS
    <2>1. position > PageSize * Len(file.pages)
      <3> HIDE DEF file
      <3>1. Len(Ready(file.pages, position \div PageSize)) <= position \div PageSize
        BY DEF file
      <3> QED BY <1>1, <1>3, <3>1, ReadyLacks
    <2>2. c.moved = 0
      BY <1>1, <1>3, <1>8, <1>9, <1>10, <2>1
    <2> HIDE DEF c, file
    <2> QED BY <1>1, <1>3, <1>8, <1>10, <2>1, <2>2
  <1>12. position > file.size => c.start > Len(c.before) \/ c.op = "write"
    <2>1. c.op = "read" /\ c.moved > 0 => position <= file.size
      BY <1>1, <1>8 DEF SizeShape
    <2>2. c.op \in {"read", "write"}
      BY <1>1 DEF CallShape
    <2> HIDE DEF c, file
    <2> QED BY <1>1, <1>3, <1>8, <2>1, <2>2
  <1>13. index < Len(pages) => position - offset + PageSize <= PageSize * Len(pages)
    <2> HIDE DEF index, offset
    <2> SUFFICES ASSUME index < Len(pages)
                 PROVE  position - offset + PageSize <= PageSize * Len(pages)
      OBVIOUS
    <2>1. PageSize * index + PageSize <= PageSize * Len(pages)
      BY <1>2, <1>4, <1>6, Monotone
    <2>2. PageSize * index \in Nat
      BY <1>2, <1>4, Product
    <2> QED BY <1>2, <1>4, <1>7, <2>1, <2>2
  <1> QED BY <1>3, <1>4, <1>5, <1>6, <1>7, <1>8, <1>11, <1>12, <1>13


\* The file and the call after n cells were written to a page.
FileWritten(c, position, pages, n, size) ==
    [pages |-> Put(pages, position, n, c.data, c.moved),
     position |-> position + n, size |-> size]
CallWritten(c, n) ==
    [c EXCEPT !.left = c.left - n, !.moved = c.moved + n,
              !.at = IF n = c.left THEN "tell" ELSE "move"]

\* One more page of a write.
WritesPage(p) ==
    LET c == call[p]
        file == files[c.file]
        position == file.position
        pages == Ready(file.pages, position \div PageSize)
        n == Least(c.left, PageSize - InPage(position))
        size == IF n = c.left /\ position + n > file.size THEN position + n ELSE file.size IN
    /\ position \div PageSize < Len(pages)
    /\ files' = [files EXCEPT ![c.file] = FileWritten(c, position, pages, n, size)]
    /\ call' = [call EXCEPT ![p] = CallWritten(c, n)]
    /\ UNCHANGED <<descriptors, writes, raced, panic>>

LEMMA WritePageMoves ==
    ASSUME FilesInv, NEW p \in Process, At(p, "move"), call[p].op = "write", WritesPage(p)
    PROVE  FilesInv'
  <1> DEFINE c == call[p]
             f == c.file
             file == files[f]
             position == file.position
             index == position \div PageSize
             offset == position % PageSize
             pages == Ready(file.pages, index)
             n == Least(c.left, PageSize - InPage(position))
             size == IF n = c.left /\ position + n > file.size THEN position + n ELSE file.size
             after == Put(pages, position, n, c.data, c.moved)
             file2 == FileWritten(c, position, pages, n, size)
             c2 == CallWritten(c, n)
  <1> HIDE DEF c, f, file, position, index, offset, pages, n, size, after, file2, c2
  <1>0. /\ c = call[p] /\ f = call[p].file /\ file = files[f] /\ position = file.position
        /\ index = position \div PageSize /\ offset = position % PageSize
        /\ pages = Ready(file.pages, index)
    BY DEF c, f, file, position, index, offset, pages
  <1>1. /\ panic # OutOfBounds /\ Moving(c)
        /\ c \in Calls /\ f \in File /\ c.left \in Nat \ {0}
        /\ c.moved \in Nat /\ c.start \in Nat /\ c.fd \in Descriptors(p)
        /\ opened[p][c.fd] = [file |-> f, position |-> c.start]
        /\ file \in FileRecord /\ file.pages \in Seq(Page) /\ file.size \in Nat
        /\ position = c.start + c.moved
        /\ file.size = Len(c.before)
        /\ file.size <= Capacity(file)
        /\ CallShape(p, c) /\ CellShape(c, file)
        /\ c.moved > 0 => c.start + c.moved <= Capacity(file)
    BY InMove DEF NoPanic, OutOfBounds, SizeShape, c, f, file, position
  <1>2. /\ position \in Nat /\ offset \in 0 .. PageSize - 1
        /\ pages \in Seq(Page) /\ Len(pages) \in Nat
        /\ PageSize * Len(pages) \in Nat
        /\ Capacity(file) <= PageSize * Len(pages)
        /\ index < Len(pages) => position - offset + PageSize <= PageSize * Len(pages)
    BY InMovePage DEF c, f, file, position, index, offset, pages
  <1>3. PageSize \in Nat \ {0}
    BY BoundsAssumption
  <1>4. /\ index < Len(pages) /\ files' = [files EXCEPT ![f] = file2]
        /\ call' = [call EXCEPT ![p] = c2]
        /\ UNCHANGED <<descriptors, writes, raced, panic>>
    BY DEF WritesPage, c, f, file, position, index, pages, n, size, file2, c2
  <1>5. c.op = "write"
    BY DEF c
  <1>6. Capacity(file) \in Nat /\ index \in Nat
    <2>1. Capacity(file) \in Nat
      BY <1>1, FileFacts DEF FilesInv, file
    <2>2. index \in Nat
      BY <1>2, <1>3, Division DEF index
    <2> QED BY <2>1, <2>2
  <1>7. n \in Nat /\ n <= c.left /\ n <= PageSize - offset
    <2>1. n = IF c.left < PageSize - offset THEN c.left ELSE PageSize - offset
      BY DEF n, Least, InPage, offset
    <2> QED BY <1>1, <1>2, <1>3, <2>1
  <1>8. /\ size \in Nat
        /\ n = c.left => size = (IF position + n > file.size THEN position + n ELSE file.size)
        /\ n # c.left => size = file.size
    BY <1>1, <1>2, <1>7 DEF size
  <1>9. /\ file2 = [pages |-> after, position |-> position + n, size |-> size]
        /\ file2.pages = after /\ file2.position = position + n /\ file2.size = size
    BY DEF FileWritten, file2, after
  <1>10. /\ \A i \in 1 .. Capacity(file) : CellOf(file, i) = Made(c, i)
         /\ Len(c.data) = c.moved + c.left /\ c.data \in Seq(Cell) /\ c.before \in Seq(Cell)
         /\ \E k \in 1 .. MaxWrites, m \in WriteSizes : c.data = Block(k, m)
    BY <1>1, <1>5 DEF CellShape, CallShape, Calls
  <1>11. /\ \A i \in 1 .. Capacity(file) : CellIn(pages, i) = CellOf(file, i)
         /\ \A i \in 1 .. PageSize * Len(pages) :
               i > Capacity(file) => CellIn(pages, i) = Unwritten
    BY <1>1, <1>6, ReadyCells DEF pages, CellOf, Capacity
  <1>12. \A i \in 1 .. PageSize * Len(pages) :
            CellIn(after, i) = IF i \in position + 1 .. position + n
                               THEN c.data[c.moved + i - position] ELSE CellIn(pages, i)
    <2>1. Fits(position, n, pages)
      BY <1>4, <1>7 DEF Fits, index, offset
    <2>2. pages \in Seq(Page) /\ position \in Nat /\ n \in Nat /\ c.moved \in Nat
      BY <1>1, <1>2, <1>7
    <2> DEFINE data == c.data
               moved == c.moved
    <2> HIDE DEF data, moved
    <2>3. CellsPut(Put(pages, position, n, data, moved), pages, position, n, data, moved)
      BY <2>1, <2>2, PutCells DEF moved
    <2> QED BY <2>3 DEF CellsPut, after, data, moved
  <1>13. after \in Seq(Page) /\ Len(after) = Len(pages)
    <2> DEFINE page == [i \in 1 .. PageSize |->
                            IF i \in offset + 1 .. offset + n
                            THEN c.data[c.moved + i - offset] ELSE pages[index + 1][i]]
    <2>1. after = [pages EXCEPT ![index + 1] = page]
      BY DEF Put, InPage, after, index, offset
    <2>2. pages[index + 1] \in Page
      BY <1>2, <1>4, <1>6
    <2>3. page \in Page
      <3>1. ASSUME NEW i \in 1 .. PageSize, i \in offset + 1 .. offset + n
            PROVE  c.data[c.moved + i - offset] \in Cell
        <4>1. c.moved + i - offset \in 1 .. Len(c.data)
          <5>1. Len(c.data) = c.moved + c.left
            BY <1>10
          <5>2. c.moved \in Nat /\ c.left \in Nat /\ offset \in Nat /\ i \in Nat
            BY <1>1, <1>2, <1>3
          <5>3. offset + 1 <= i /\ i <= offset + n
            BY <5>2, <1>7, <3>1
          <5> QED BY <5>1, <5>2, <5>3, <1>7
        <4> QED BY <1>10, <4>1
      <3>2. \A i \in 1 .. PageSize : pages[index + 1][i] \in Cell
        BY <2>2 DEF Page
      <3> QED BY <3>1, <3>2 DEF Page
    <2> HIDE DEF page
    <2> QED BY <1>2, <1>4, <1>6, <2>1, <2>3
  <1>14. file2 \in FileRecord
    <2>1. position + n \in Nat
      BY <1>2, <1>7
    <2> QED BY <1>8, <1>9, <1>13, <2>1 DEF FileRecord
  <1>15. Capacity(file2) = PageSize * Len(pages)
    BY <1>9, <1>13 DEF Capacity
  <1>16. /\ c2.op = c.op /\ c2.file = f /\ c2.fd = c.fd /\ c2.start = c.start
         /\ c2.before = c.before /\ c2.data = c.data
         /\ c2.left = c.left - n /\ c2.moved = c.moved + n
         /\ c2.at = IF n = c.left THEN "tell" ELSE "move"
    BY <1>1 DEF Calls, CallWritten, c2, f, c
  <1>17. c2 \in Calls /\ Moving(c2)
    <2>1. c.left - n \in Nat /\ c.moved + n \in Nat
      BY <1>1, <1>7
    <2>2. (IF n = c.left THEN "tell" ELSE "move") \in {"move", "tell"}
      OBVIOUS
    <2>3. c2 \in Calls
      BY <1>1, <2>1, <2>2 DEF Calls, CallWritten, c2
    <2> QED BY <1>16, <2>2, <2>3 DEF Moving
  <1>18. call' \in [Process -> Calls] /\ call'[p] = c2
         /\ \A q \in Process \ {p} : call'[q] = call[q]
    BY <1>4, <1>17 DEF FilesInv, ShapeInv
  <1>19. files' \in [File -> FileRecord] /\ files'[f] = file2
         /\ \A g \in File : g # f => files'[g] = files[g]
    BY <1>1, <1>4, <1>14 DEF FilesInv, ShapeInv
  <1>20. Moves(p)
    BY <1>0, <1>1, <1>4, <1>16, <1>17, <1>18, <1>19 DEF Moves
  <1>21. CallShape(p, call[p])'
    <2>1. Descriptors(p)' = Descriptors(p) /\ opened' = opened
      BY <1>4 DEF descriptors, Descriptors
    <2>2. files'[c2.file].position = c2.start + c2.moved
      <3>1. c2.start + c2.moved = position + n
        BY <1>1, <1>7, <1>16
      <3> QED BY <3>1, <1>9, <1>16, <1>19
    <2>3. Len(c2.data) = c2.moved + c2.left
      <3>1. c2.moved + c2.left = c.moved + c.left
        BY <1>1, <1>7, <1>16
      <3>2. c2.data = c.data /\ Len(c.data) = c.moved + c.left
        BY <1>10, <1>16
      <3> QED BY <3>1, <3>2
    <2>4. c2.at = "move" => c2.left # 0
      BY <1>1, <1>7, <1>16
    <2>5. c2.op = "write" /\ c2.at # "unborn"
      BY <1>5, <1>16
    <2>6. c2.fd \in Descriptors(p)' /\ c2.file \in File
          /\ opened'[p][c2.fd] = [file |-> c2.file, position |-> c2.start]
      BY <1>1, <1>16, <2>1
    <2>7. \E k \in 1 .. MaxWrites, m \in WriteSizes : c2.data = Block(k, m)
      BY <1>10, <1>16
    <2> QED BY <1>17, <1>18, <2>2, <2>3, <2>4, <2>5, <2>6, <2>7 DEF CallShape, Descriptors
  <1>22. position + n <= Capacity(file2)
    BY <1>2, <1>3, <1>4, <1>7, <1>15
  <1>23. c2.start + c2.moved = position + n
    BY <1>1, <1>7, <1>16
  <1>24. SizeShape(c2, file2)
    <2>1. c2.at = "move" => size = Len(c2.before)
      BY <1>1, <1>8, <1>16
    <2>2. c2.at = "tell" =>
            /\ c2.left = 0
            /\ size = IF c2.start + c2.moved > Len(c2.before)
                      THEN c2.start + c2.moved ELSE Len(c2.before)
      BY <1>1, <1>7, <1>8, <1>16, <1>23
    <2>3. c2.op # "read"
      BY <1>5, <1>16
    <2> QED BY <1>9, <1>22, <1>23, <2>1, <2>2, <2>3 DEF SizeShape
  <1>25. CellShape(c2, file2)
    <2>1. ASSUME NEW i \in 1 .. PageSize * Len(pages)
          PROVE  CellIn(after, i) = Made(c2, i)
      <3>1. i \in Nat /\ i >= 1
        BY <1>2
      <3>2. CellIn(pages, i) = Made(c, i)
        <4>1. CASE i \in 1 .. Capacity(file)
          BY <4>1, <1>10, <1>11
        <4>2. CASE i > Capacity(file)
          <5>1. i > Len(c.before)
            BY <1>1, <1>6, <3>1, <4>2
          <5>2. i \notin DOMAIN c.before
            BY <1>10, <3>1, <5>1
          <5>3. i \notin c.start + 1 .. c.start + c.moved
            BY <1>1, <1>6, <3>1, <4>2
          <5> QED BY <4>2, <5>2, <5>3, <1>11 DEF Made
        <4> QED BY <4>1, <4>2, <1>6, <3>1
      <3>3. CASE i \in position + 1 .. position + n
        <4>1. c.moved + i - position = i - c.start
          BY <1>1, <3>1
        <4>2. i \in c2.start + 1 .. c2.start + c2.moved
          <5>1. c2.start = c.start /\ c.start \in Nat /\ c.moved \in Nat
            BY <1>1, <1>16
          <5>2. position + 1 <= i /\ i <= position + n /\ position = c.start + c.moved
            BY <1>1, <1>2, <1>7, <3>1, <3>3
          <5> QED BY <5>1, <5>2, <1>7, <1>23, <3>1
        <4>3. CellIn(after, i) = c.data[i - c.start]
          BY <1>12, <3>3, <4>1
        <4> QED BY <4>2, <4>3, <1>16 DEF Made
      <3>4. CASE i \notin position + 1 .. position + n
        <4>1. i \in c.start + 1 .. c.start + c.moved
                <=> i \in c2.start + 1 .. c2.start + c2.moved
          BY SMTT(60), <1>1, <1>2, <1>7, <1>16, <1>23, <3>1, <3>4
        <4>2. Made(c, i) = Made(c2, i)
          BY <4>1, <1>16 DEF Made
        <4>3. CellIn(after, i) = CellIn(pages, i)
          BY <1>12, <3>4
        <4> QED BY <3>2, <4>2, <4>3
      <3> QED BY <3>3, <3>4
    <2>2. c2.op # "read"
      BY <1>5, <1>16
    <2> QED BY <2>1, <2>2, <1>9, <1>15 DEF CellShape, CellOf
  <1>26. file2.size <= Capacity(file2)
    BY <1>1, <1>2, <1>6, <1>7, <1>8, <1>9, <1>15, <1>22
  <1> QED BY <1>0, <1>5, <1>18, <1>19, <1>20, <1>21, <1>24, <1>25, <1>26, MovesKeep

LEMMA WritePageIs ==
    ASSUME FilesInv, NEW p \in Process, WritePage(p)
    PROVE  LET position == files[call[p].file].position
               pages == Ready(files[call[p].file].pages, position \div PageSize) IN
           \/ position \div PageSize >= Len(pages) /\ Stop(OutOfBounds)
           \/ WritesPage(p)
  <1>1. call \in [Process -> Calls]
    BY DEF FilesInv, ShapeInv
  <1> QED BY <1>1 DEF WritePage, WritesPage, Ready, Put, SizeReached, FileWritten, CallWritten

LEMMA WritePageKeeps ==
    ASSUME FilesInv, NEW p \in Process, WritePage(p)
    PROVE  FilesInv'
  <1> DEFINE position == files[call[p].file].position
             pages == Ready(files[call[p].file].pages, position \div PageSize)
  <1>1. At(p, "move") /\ call[p].op = "write"
    BY DEF WritePage
  <1>2. \/ position \div PageSize >= Len(pages) /\ Stop(OutOfBounds)
        \/ WritesPage(p)
    BY WritePageIs
  <1>3. CASE position \div PageSize >= Len(pages) /\ Stop(OutOfBounds)
    <2>1. UNCHANGED <<files, descriptors, call, writes, raced>>
      BY <1>3 DEF Stop
    <2> HIDE DEF pages, position
    <2>2. position \in Nat /\ Len(pages) \in Nat
      BY <1>1, InMovePage DEF pages, position
    <2>3. position \div PageSize \in Nat
      BY <2>2, Division, BoundsAssumption
    <2>4. Len(pages) <= position \div PageSize
      BY <1>3, <2>2, <2>3
    <2>5. call[p].start > Len(call[p].before)
      BY <1>1, <2>4, InMovePage DEF position, pages
    <2>6. call[p].at = "move"
      BY <1>1 DEF At
    <2> QED BY <2>1, <2>5, <2>6, StopKeeps
  <1>4. CASE WritesPage(p)
    BY <1>1, <1>4, WritePageMoves
  <1> HIDE DEF pages, position
  <1> QED BY <1>2, <1>3, <1>4


\* The cells that are read from a page.
Taken(pages, position, n) ==
    SubSeq(pages[(position \div PageSize) + 1], InPage(position) + 1, InPage(position) + n)

CellsTaken(cells, pages, position, n) ==
    /\ cells \in Seq(Cell) /\ Len(cells) = n
    /\ \A j \in 1 .. n : cells[j] = CellIn(pages, position + j)

LEMMA TakenCells ==
    ASSUME NEW pages \in Seq(Page), NEW position \in Nat, NEW n \in Nat, Fits(position, n, pages)
    PROVE  CellsTaken(Taken(pages, position, n), pages, position, n)
  <1> DEFINE index == position \div PageSize
             offset == position % PageSize
             page == pages[index + 1]
             cells == Taken(pages, position, n)
  <1>1. cells = SubSeq(page, offset + 1, offset + n)
    BY DEF Taken, InPage
  <1>2. PageSize \in Nat \ {0} /\ Len(pages) \in Nat
    BY BoundsAssumption
  <1>3. index \in Nat /\ offset \in 0 .. PageSize - 1 /\ position = PageSize * index + offset
    BY <1>2, Division
  <1>4. index < Len(pages) /\ n <= PageSize - offset
    BY DEF Fits
  <1>5. \A i : CellIn(pages, i) = pages[((i - 1) \div PageSize) + 1][((i - 1) % PageSize) + 1]
    BY DEF CellIn
  <1> HIDE DEF index, offset
  <1>6. page \in Page
    BY <1>2, <1>3, <1>4
  <1> DEFINE taken == SubSeq(page, offset + 1, offset + n)
  <1>7. page = pages[index + 1]
    OBVIOUS
  <1> HIDE DEF page
  <1>8. page \in Seq(Cell) /\ Len(page) = PageSize
    BY <1>2, <1>6 DEF Page
  <1>9. /\ taken \in Seq(Cell) /\ Len(taken) = n
        /\ \A j \in 1 .. n : taken[j] = page[offset + j]
    <2> DEFINE from == offset + 1
               to == offset + n
    <2>1. from \in Int /\ to \in Int /\ to - from + 1 = n
      BY <1>2, <1>3
    <2>2. \A i \in from .. to : page[i] \in Cell
      BY <1>2, <1>3, <1>4, <1>8
    <2>3. ASSUME NEW j \in 1 .. n  PROVE  from + j - 1 = offset + j
      BY <1>3
    <2> HIDE DEF from, to
    <2>4. /\ SubSeq(page, from, to) \in Seq(Cell)
          /\ Len(SubSeq(page, from, to)) = IF from <= to THEN to - from + 1 ELSE 0
          /\ \A j \in 1 .. to - from + 1 : SubSeq(page, from, to)[j] = page[from + j - 1]
      BY <2>1, <2>2, SubSeqProperties
    <2>5. Len(SubSeq(page, from, to)) = n
      BY <2>1, <2>4
    <2> QED BY <2>1, <2>3, <2>4, <2>5 DEF from, to
  <1>10. ASSUME NEW j \in 1 .. n  PROVE  page[offset + j] = CellIn(pages, position + j)
    <2> DEFINE r == offset + j - 1
    <2>1. r \in 0 .. PageSize - 1 /\ (position + j) - 1 = PageSize * index + r
      <3>1. PageSize * index \in Nat
        BY <1>2, <1>3, Product
      <3> QED BY <1>2, <1>3, <1>4, <3>1
    <2>2. r + 1 = offset + j
      BY <1>2, <1>3
    <2> HIDE DEF r
    <2>3. ((position + j) - 1) \div PageSize = index /\ ((position + j) - 1) % PageSize = r
      BY <1>2, <1>3, <2>1, Quotient
    <2> QED BY <1>5, <1>7, <2>2, <2>3
  <1>11. cells = taken
    BY <1>1
  <1> HIDE DEF taken, cells
  <1>12. CellsTaken(cells, pages, position, n)
    BY <1>9, <1>10, <1>11 DEF CellsTaken
  <1> QED BY <1>12 DEF cells

LEMMA Joined ==
    ASSUME NEW S, NEW s \in Seq(S), NEW t \in Seq(S)
    PROVE  /\ s \o t \in Seq(S) /\ Len(s \o t) = Len(s) + Len(t)
           /\ \A j \in 1 .. Len(s) : (s \o t)[j] = s[j]
           /\ \A j \in 1 .. Len(t) : (s \o t)[Len(s) + j] = t[j]
  OBVIOUS


\* The file and the call after n cells were read from a page.
FileRead(file, pages, n) == [file EXCEPT !.pages = pages, !.position = @ + n]
CallRead(c, size, position, page, n) ==
    [c EXCEPT !.data = c.data \o SubSeq(page, InPage(position) + 1, InPage(position) + n),
              !.left = c.left - n, !.moved = c.moved + n,
              !.at = IF n = c.left \/ position + n = size THEN "tell" ELSE "move"]

\* One more page of a read.
ReadsPage(p) ==
    LET c == call[p]
        file == files[c.file]
        position == file.position
        index == position \div PageSize
        pages == Ready(file.pages, index)
        n == Least(Least(c.left, PageSize - InPage(position)), file.size - position) IN
    /\ index < Len(pages) /\ position <= file.size
    /\ files' = [files EXCEPT ![c.file] = FileRead(file, pages, n)]
    /\ call' = [call EXCEPT ![p] = CallRead(c, file.size, position, pages[index + 1], n)]
    /\ UNCHANGED <<descriptors, writes, raced, panic>>

LEMMA ReadPageMoves ==
    ASSUME FilesInv, NEW p \in Process, At(p, "move"), call[p].op = "read", ReadsPage(p)
    PROVE  FilesInv'
  <1> DEFINE c == call[p]
             f == c.file
             file == files[f]
             position == file.position
             index == position \div PageSize
             offset == position % PageSize
             pages == Ready(file.pages, index)
             n == Least(Least(c.left, PageSize - InPage(position)), file.size - position)
             cells == Taken(pages, position, n)
             file2 == FileRead(file, pages, n)
             c2 == CallRead(c, file.size, position, pages[index + 1], n)
  <1> HIDE DEF c, f, file, position, index, offset, pages, n, cells, file2, c2
  <1>0. /\ c = call[p] /\ f = call[p].file /\ file = files[f] /\ position = file.position
        /\ index = position \div PageSize /\ offset = position % PageSize
        /\ pages = Ready(file.pages, index)
    BY DEF c, f, file, position, index, offset, pages
  <1>1. /\ panic # OutOfBounds /\ Moving(c)
        /\ c \in Calls /\ f \in File /\ c.left \in Nat \ {0}
        /\ c.moved \in Nat /\ c.start \in Nat /\ c.fd \in Descriptors(p)
        /\ opened[p][c.fd] = [file |-> f, position |-> c.start]
        /\ file \in FileRecord /\ file.pages \in Seq(Page) /\ file.size \in Nat
        /\ position = c.start + c.moved
        /\ file.size = Len(c.before)
        /\ file.size <= Capacity(file)
        /\ CallShape(p, c) /\ CellShape(c, file)
    BY InMove DEF NoPanic, OutOfBounds, c, f, file, position
  <1>2. /\ position \in Nat /\ offset \in 0 .. PageSize - 1
        /\ pages \in Seq(Page) /\ Len(pages) \in Nat
        /\ PageSize * Len(pages) \in Nat
        /\ Capacity(file) <= PageSize * Len(pages)
    BY InMovePage DEF c, f, file, position, index, offset, pages
  <1>3. PageSize \in Nat \ {0}
    BY BoundsAssumption
  <1>4. /\ index < Len(pages) /\ position <= file.size /\ files' = [files EXCEPT ![f] = file2]
        /\ call' = [call EXCEPT ![p] = c2]
        /\ UNCHANGED <<descriptors, writes, raced, panic>>
    BY DEF ReadsPage, c, f, file, position, index, pages, n, file2, c2
  <1>5. c.op = "read"
    BY DEF c
  <1>6. Capacity(file) \in Nat /\ index \in Nat
    <2>1. Capacity(file) \in Nat
      BY <1>1, FileFacts DEF FilesInv, file
    <2>2. index \in Nat
      BY <1>2, <1>3, Division DEF index
    <2> QED BY <2>1, <2>2
  <1>7. /\ n \in Nat /\ n <= c.left /\ n <= PageSize - offset /\ position + n <= file.size
    <2> DEFINE m == IF c.left < PageSize - offset THEN c.left ELSE PageSize - offset
    <2>1. n = IF m < file.size - position THEN m ELSE file.size - position
      BY DEF n, Least, InPage, offset
    <2>2. m \in Nat /\ m <= c.left /\ m <= PageSize - offset
      BY <1>1, <1>2, <1>3
    <2>3. file.size - position \in Nat
      BY <1>1, <1>2, <1>4
    <2>4. offset \in Nat /\ c.left \in Nat /\ PageSize \in Nat
      BY <1>1, <1>2, <1>3
    <2> HIDE DEF m
    <2>5. n \in Nat /\ n <= m /\ n <= file.size - position
      BY <2>1, <2>2, <2>3
    <2>6. position + n <= file.size
      BY <2>5, <1>1, <1>2
    <2> QED BY <2>2, <2>4, <2>5, <2>6
  <1>8. file2 = [pages |-> pages, position |-> position + n, size |-> file.size]
        /\ file2.pages = pages /\ file2.position = position + n /\ file2.size = file.size
    <2>1. file = [pages |-> file.pages, position |-> position, size |-> file.size]
      BY <1>1 DEF FileRecord, position
    <2>2. file2 = [file EXCEPT !.pages = pages, !.position = @ + n]
      BY DEF FileRead, file2
    <2> QED BY <2>1, <2>2, <1>0
  <1>9. /\ \A i \in 1 .. file.size : CellOf(file, i) = c.before[i]
        /\ \A j \in 1 .. c.moved : c.data[j] = c.before[c.start + j]
    BY <1>1, <1>5 DEF CellShape
  <1>10. /\ Len(c.data) = c.moved /\ c.moved + c.left \in ReadSizes
         /\ c.data \in Seq(Cell) /\ c.before \in Seq(Cell)
    BY <1>1, <1>5 DEF CallShape, Calls
  <1>11. /\ \A i \in 1 .. Capacity(file) : CellIn(pages, i) = CellOf(file, i)
         /\ \A i \in 1 .. PageSize * Len(pages) :
               i > Capacity(file) => CellIn(pages, i) = Unwritten
    BY <1>1, <1>6, ReadyCells DEF pages, CellOf, Capacity
  <1>12. /\ cells \in Seq(Cell) /\ Len(cells) = n
         /\ \A j \in 1 .. n : cells[j] = CellIn(pages, position + j)
    <2>1. Fits(position, n, pages)
      BY <1>4, <1>7 DEF Fits, index, offset
    <2>2. CellsTaken(Taken(pages, position, n), pages, position, n)
      BY <1>2, <1>7, <2>1, TakenCells
    <2> QED BY <2>2 DEF CellsTaken, cells
  <1>13. file2 \in FileRecord
    <2>1. position + n \in Nat
      BY <1>2, <1>7
    <2> QED BY <1>1, <1>2, <1>8, <2>1 DEF FileRecord
  <1>14. Capacity(file2) = PageSize * Len(pages)
    BY <1>8 DEF Capacity
  <1> DEFINE data == c.data \o cells
  <1>15. /\ data \in Seq(Cell) /\ Len(data) = c.moved + n
         /\ \A j \in 1 .. c.moved : data[j] = c.data[j]
         /\ \A j \in 1 .. n : data[c.moved + j] = cells[j]
    <2>1. c.data \in Seq(Cell) /\ cells \in Seq(Cell)
      BY <1>10, <1>12
    <2>2. /\ data \in Seq(Cell) /\ Len(data) = Len(c.data) + Len(cells)
          /\ \A j \in 1 .. Len(c.data) : data[j] = c.data[j]
          /\ \A j \in 1 .. Len(cells) : data[Len(c.data) + j] = cells[j]
      BY <2>1, Joined
    <2> HIDE DEF data
    <2>3. Len(c.data) = c.moved /\ Len(cells) = n
      BY <1>10, <1>12
    <2> QED BY <2>2, <2>3
  <1> HIDE DEF data
  <1>16. /\ c2.op = c.op /\ c2.file = f /\ c2.fd = c.fd /\ c2.start = c.start
         /\ c2.before = c.before /\ c2.data = data
         /\ c2.left = c.left - n /\ c2.moved = c.moved + n
         /\ c2.at = IF n = c.left \/ position + n = file.size THEN "tell" ELSE "move"
    BY <1>1 DEF Calls, CallRead, InPage, c2, f, c, data, cells, Taken, index
  <1>17. c2 \in Calls /\ Moving(c2)
    <2>1. c.left - n \in Nat /\ c.moved + n \in Nat
      BY <1>1, <1>7
    <2> DEFINE at == IF n = c.left \/ position + n = file.size THEN "tell" ELSE "move"
    <2>2. at \in {"move", "tell"}
      OBVIOUS
    <2>3. c2 = [c EXCEPT !.data = data, !.left = c.left - n, !.moved = c.moved + n, !.at = at]
      BY DEF CallRead, c2, data, cells, Taken, index
    <2> HIDE DEF at
    <2>4. c2 \in Calls /\ c2.at = at
      BY <1>1, <1>15, <2>1, <2>2, <2>3 DEF Calls
    <2> QED BY <2>2, <2>4 DEF Moving
  <1>18. call' \in [Process -> Calls] /\ call'[p] = c2
         /\ \A q \in Process \ {p} : call'[q] = call[q]
    BY <1>4, <1>17 DEF FilesInv, ShapeInv
  <1>19. files' \in [File -> FileRecord] /\ files'[f] = file2
         /\ \A g \in File : g # f => files'[g] = files[g]
    BY <1>1, <1>4, <1>13 DEF FilesInv, ShapeInv
  <1>20. Moves(p)
    BY <1>0, <1>1, <1>4, <1>16, <1>17, <1>18, <1>19 DEF Moves
  <1>21. c2.start + c2.moved = position + n
    BY <1>1, <1>7, <1>16
  <1>22. CallShape(p, call[p])'
    <2>1. Descriptors(p)' = Descriptors(p) /\ opened' = opened
      BY <1>4 DEF descriptors, Descriptors
    <2>2. files'[c2.file].position = c2.start + c2.moved
      BY <1>8, <1>16, <1>19, <1>21
    <2>3. Len(c2.data) = c2.moved
      BY <1>15, <1>16
    <2>4. c2.moved + c2.left \in ReadSizes
      <3>1. c2.moved + c2.left = c.moved + c.left
        BY <1>1, <1>7, <1>16
      <3> QED BY <3>1, <1>10
    <2>5. c2.at = "move" => c2.left # 0
      BY <1>1, <1>7, <1>16
    <2>6. c2.op = "read" /\ c2.at # "unborn"
      BY <1>5, <1>16
    <2>7. c2.fd \in Descriptors(p)' /\ c2.file \in File
          /\ opened'[p][c2.fd] = [file |-> c2.file, position |-> c2.start]
      BY <1>1, <1>16, <2>1
    <2> QED BY <1>17, <1>18, <2>2, <2>3, <2>4, <2>5, <2>6, <2>7 DEF CallShape, Descriptors
  <1>23. SizeShape(c2, file2)
    <2>1. position + n <= Capacity(file2)
      BY <1>1, <1>2, <1>6, <1>7, <1>14
    <2>2. c2.at = "tell" /\ c2.left > 0 => position + n = file.size
      BY <1>1, <1>7, <1>16
    <2>3. c2.op # "write"
      BY <1>5, <1>16
    <2>4. file2.size = Len(c2.before)
      BY <1>1, <1>8, <1>16
    <2> QED BY <1>7, <1>8, <1>21, <2>1, <2>2, <2>3, <2>4 DEF SizeShape
  <1>24. \A i \in 1 .. file.size : CellIn(pages, i) = c.before[i]
    <2> TAKE i \in 1 .. file.size
    <2>1. i \in 1 .. Capacity(file)
      BY <1>1, <1>6
    <2> QED BY <2>1, <1>9, <1>11
  <1>25. CellShape(c2, file2)
    <2>1. \A i \in 1 .. file2.size : CellOf(file2, i) = c2.before[i]
      BY <1>8, <1>16, <1>24 DEF CellOf
    <2>2. ASSUME NEW j \in 1 .. c2.moved  PROVE  c2.data[j] = c2.before[c2.start + j]
      <3>1. CASE j \in 1 .. c.moved
        BY <3>1, <1>9, <1>15, <1>16
      <3>2. CASE j \notin 1 .. c.moved
        <4> DEFINE k == j - c.moved
        <4>1. k \in 1 .. n /\ c.moved + k = j /\ c.start + j = position + k
          <5>1. c2.moved = c.moved + n /\ c.moved \in Nat /\ c.start \in Nat
            BY <1>1, <1>16
          <5>2. j \in Nat /\ c.moved < j /\ j <= c.moved + n
            BY <5>1, <1>7, <2>2, <3>2
          <5>3. position = c.start + c.moved
            BY <1>1
          <5> QED BY <5>1, <5>2, <5>3, <1>7
        <4> HIDE DEF k
        <4>2. data[j] = CellIn(pages, position + k)
          BY <4>1, <1>12, <1>15
        <4>3. position + k \in 1 .. file.size
          <5>1. position + n <= file.size /\ n \in Nat /\ position \in Nat /\ file.size \in Nat
            BY <1>1, <1>2, <1>7
          <5> QED BY <4>1, <5>1
        <4>4. CellIn(pages, position + k) = c.before[position + k]
          BY <4>3, <1>24
        <4> QED BY <4>1, <4>2, <4>4, <1>16
      <3> QED BY <3>1, <3>2
    <2>3. c2.op # "write"
      BY <1>5, <1>16
    <2> QED BY <2>1, <2>2, <2>3 DEF CellShape
  <1>26. file2.size <= Capacity(file2)
    BY <1>1, <1>2, <1>6, <1>8, <1>14
  <1>27. Clean(file2)
    <2>1. ~Writing(f)
      <3> SUFFICES ASSUME NEW q \in Process, call[q].op = "write", call[q].file = f
                   PROVE  FALSE
        BY DEF Writing
      <3>1. Moving(call[q])
        BY DEF FilesInv, CallsInv, CallShape
      <3>2. q # p
        BY <1>5 DEF c
      <3> QED BY <3>1, <3>2, <1>0, <1>1 DEF FilesInv, Exclusive
    <2>2. Clean(file)
      BY <1>0, <1>1, <2>1 DEF FilesInv, CellsInv
    <2> SUFFICES ASSUME NEW i \in 1 .. PageSize * Len(pages), i > file.size
                 PROVE  CellIn(pages, i) = Unwritten
      BY <1>8, <1>14 DEF Clean, CellOf
    <2>3. CASE i \in 1 .. Capacity(file)
      BY <2>2, <2>3, <1>11 DEF Clean
    <2>4. CASE i > Capacity(file)
      BY <2>4, <1>11
    <2>5. i \in Nat /\ i >= 1
      BY <1>2
    <2> QED BY <2>3, <2>4, <2>5, <1>6
  <1> QED BY <1>0, <1>18, <1>19, <1>20, <1>22, <1>23, <1>25, <1>26, <1>27, MovesKeep

LEMMA ReadPageIs ==
    ASSUME FilesInv, NEW p \in Process, ReadPage(p)
    PROVE  LET file == files[call[p].file]
               position == file.position
               pages == Ready(file.pages, position \div PageSize) IN
           \/ /\ position \div PageSize >= Len(pages) \/ position > file.size
              /\ Stop(OutOfBounds)
           \/ ReadsPage(p)
  <1> DEFINE file == files[call[p].file]
             position == file.position
             pages == Ready(file.pages, position \div PageSize)
             goal == \/ /\ position \div PageSize >= Len(pages) \/ position > file.size
                        /\ Stop(OutOfBounds)
                     \/ ReadsPage(p)
  <1> SUFFICES goal
    OBVIOUS
  <1>1. call \in [Process -> Calls] /\ files \in [File -> FileRecord]
    BY DEF FilesInv, ShapeInv
  <1>2. file \in FileRecord /\ call[p].file \in File
    BY InMove DEF ReadPage
  <1> DEFINE n == Least(Least(call[p].left, PageSize - InPage(position)), file.size - position)
             index == position \div PageSize
             cells == SubSeq(pages[index + 1], InPage(position) + 1, InPage(position) + n)
             at == IF n = call[p].left \/ position + n = file.size THEN "tell" ELSE "move"
  <1>3. \/ /\ index >= Len(pages) \/ position > file.size
           /\ Stop(OutOfBounds)
        \/ /\ index < Len(pages) /\ position <= file.size
           /\ files' = [files EXCEPT ![call[p].file].pages = pages,
                                     ![call[p].file].position = @ + n]
           /\ call' = [call EXCEPT ![p].data = call[p].data \o cells,
                                   ![p].left = call[p].left - n,
                                   ![p].moved = call[p].moved + n, ![p].at = at]
           /\ UNCHANGED <<descriptors, writes, raced, panic>>
    BY DEF ReadPage, Ready
  <1>4. FileRead(file, pages, n) = [file EXCEPT !.pages = pages, !.position = @ + n]
    BY DEF FileRead
  <1>5. CallRead(call[p], file.size, position, pages[index + 1], n)
           = [call[p] EXCEPT !.data = call[p].data \o cells, !.left = call[p].left - n,
                             !.moved = call[p].moved + n, !.at = at]
    BY DEF CallRead
  <1>6. ReadsPage(p) <=>
           /\ index < Len(pages) /\ position <= file.size
           /\ files' = [files EXCEPT ![call[p].file] = FileRead(file, pages, n)]
           /\ call' = [call EXCEPT ![p] = CallRead(call[p], file.size, position,
                                                  pages[index + 1], n)]
           /\ UNCHANGED <<descriptors, writes, raced, panic>>
    BY DEF ReadsPage
  <1>7. file = files[call[p].file]
    OBVIOUS
  <1> HIDE DEF n, index, cells, at, pages, position, file, goal
  <1>8. [files EXCEPT ![call[p].file].pages = pages, ![call[p].file].position = @ + n]
           = [files EXCEPT ![call[p].file] = [file EXCEPT !.pages = pages, !.position = @ + n]]
    BY <1>1, <1>2, <1>7
  <1>9. [call EXCEPT ![p].data = call[p].data \o cells, ![p].left = call[p].left - n,
                     ![p].moved = call[p].moved + n, ![p].at = at]
           = [call EXCEPT ![p] = [call[p] EXCEPT !.data = call[p].data \o cells,
                                     !.left = call[p].left - n,
                                     !.moved = call[p].moved + n, !.at = at]]
    BY <1>1
  <1> QED BY <1>3, <1>4, <1>5, <1>6, <1>8, <1>9 DEF index, goal

LEMMA ReadPageKeeps ==
    ASSUME FilesInv, NEW p \in Process, ReadPage(p)
    PROVE  FilesInv'
  <1> DEFINE file == files[call[p].file]
             position == file.position
             pages == Ready(file.pages, position \div PageSize)
  <1>1. At(p, "move") /\ call[p].op = "read"
    BY DEF ReadPage
  <1>2. \/ /\ position \div PageSize >= Len(pages) \/ position > file.size
           /\ Stop(OutOfBounds)
        \/ ReadsPage(p)
    BY ReadPageIs
  <1>3. CASE /\ position \div PageSize >= Len(pages) \/ position > file.size
             /\ Stop(OutOfBounds)
    <2>1. UNCHANGED <<files, descriptors, call, writes, raced>>
      BY <1>3 DEF Stop
    <2> HIDE DEF pages, position, file
    <2>2. position \in Nat /\ Len(pages) \in Nat
      BY <1>1, InMovePage DEF pages, position, file
    <2>3. position \div PageSize \in Nat
      BY <2>2, Division, BoundsAssumption
    <2>4. Len(pages) <= position \div PageSize \/ position > file.size
      BY <1>3, <2>2, <2>3
    <2>5. call[p].start > Len(call[p].before)
      <3>1. Len(pages) <= position \div PageSize => call[p].start > Len(call[p].before)
        BY <1>1, InMovePage DEF position, pages, file
      <3>2. position > file.size => call[p].start > Len(call[p].before) \/ call[p].op = "write"
        BY <1>1, InMovePage DEF position, pages, file
      <3> QED BY <2>4, <3>1, <3>2, <1>1
    <2>6. call[p].at = "move"
      BY <1>1 DEF At
    <2> QED BY <2>1, <2>5, <2>6, StopKeeps
  <1>4. CASE ReadsPage(p)
    BY <1>1, <1>4, ReadPageMoves
  <1> HIDE DEF pages, position, file
  <1> QED BY <1>2, <1>3, <1>4


\* The end of a call: the descriptor gets the position of the file.
LEMMA TellKeeps ==
    ASSUME FilesInv, NEW p \in Process, Tell(p)
    PROVE  FilesInv'
  <1> USE DEF FilesInv
  <1> DEFINE c == call[p]
             f == c.file
             position == files[f].position
             t == [opened[p] EXCEPT ![c.fd].position = position]
  <1>1. /\ panic = NoPanic /\ c.at = "tell" /\ Moving(c)
        /\ UNCHANGED <<files, last_fd, shared, writes, raced, panic>>
    BY DEF Tell, At, Running, Moving
  <1>2. opened' = [opened EXCEPT ![p] = t]
    BY DEF Tell
  <1>3. call' = [call EXCEPT ![p] = Idle]
    BY DEF Tell, Return
  <1>4. /\ CallShape(p, c) /\ SizeShape(c, files[f]) /\ CellShape(c, files[f])
    BY <1>1 DEF CallsInv, SizesInv, CellsInv
  <1>5. /\ c.op \in {"read", "write"} /\ f \in File
        /\ c.fd \in Descriptors(p) /\ opened[p][c.fd].file = f
    BY <1>1, <1>4 DEF CallShape
  <1>6. position \in Nat /\ opened[p] \in Table /\ opened \in [Process -> Table]
        /\ call \in [Process -> Calls]
    BY <1>5, FileFacts DEF ShapeInv
  <1>7. t \in Table
    <2> HIDE DEF position
    <2> QED BY <1>5, <1>6, TableMoves DEF Descriptors
  <1>8. /\ DOMAIN t = DOMAIN opened[p]
        /\ t[c.fd].file = f /\ t[c.fd].position = position
        /\ \A x \in DOMAIN t \ {c.fd} : t[x] = opened[p][x]
    <2>1. opened[p][c.fd] \in Entry
      BY <1>5, DescriptorFacts
    <2> HIDE DEF position
    <2> QED BY <2>1, <1>5 DEF Descriptors, Entry
  <1>9. c = call[p] /\ position = files[f].position
    OBVIOUS
  <1> HIDE DEF t, position
  <1>10. /\ opened' \in [Process -> Table] /\ opened'[p] = t
         /\ \A q \in Process \ {p} : opened'[q] = opened[q]
    BY <1>2, <1>6, <1>7
  <1>11. Idle \in Calls /\ Idle.at = "user" /\ Idle.op = "none" /\ ~Moving(Idle)
    <2>1. 0 \in Fd /\ NoFile \in File \cup {NoFile}
      BY BoundsAssumption DEF Fd
    <2>2. << >> \in Seq(Cell)
      OBVIOUS
    <2> QED BY <2>1, <2>2 DEF Idle, Calls, Moving
  <1>12. /\ call' \in [Process -> Calls] /\ call'[p] = Idle
         /\ \A q \in Process \ {p} : call'[q] = call[q]
    BY <1>3, <1>6, <1>11
  <1>13. ShapeInv'
    BY <1>1, <1>10, <1>12 DEF ShapeInv
  <1>14. CallsInv'
    <2>1. ASSUME NEW q \in Process  PROVE  CallShape(q, call[q])'
      <3>1. CASE q = p
        BY <3>1, <1>11, <1>12 DEF CallShape
      <3>2. CASE q # p
        <4>1. CallShape(q, call[q])
          BY DEF CallsInv
        <4> QED BY <3>2, <4>1, <1>1, <1>10, <1>12 DEF CallShape, Descriptors
      <3> QED BY <3>1, <3>2
    <2> QED BY <2>1 DEF CallsInv
  <1>15. Exclusive'
    BY <1>11, <1>12 DEF Exclusive
  <1>16. SizesInv'
    <2>1. BoundsHold'
      BY <1>1 DEF SizesInv, BoundsHold, PagesCoverSize, NoPanic, OutOfBounds
    <2>2. \A q \in Process : Moving(call'[q]) => SizeShape(call'[q], files'[call'[q].file])
      BY <1>1, <1>11, <1>12 DEF SizesInv
    <2> QED BY <2>1, <2>2 DEF SizesInv
  <1>17. CellsInv'
    <2>1. ASSUME NEW g \in File  PROVE  Writing(g)' \/ Clean(files'[g])
      <3>1. CASE \E q \in Process \ {p} : call[q].op = "write" /\ call[q].file = g
        BY <3>1, <1>12 DEF Writing
      <3>2. CASE Clean(files[g])
        BY <3>2, <1>1
      <3>3. CASE c.op = "write" /\ f = g
        <4> SUFFICES ASSUME NEW i \in 1 .. Capacity(files[f]), i > files[f].size
                     PROVE  CellOf(files[f], i) = Unwritten
          BY <3>3, <1>1 DEF Clean
        <4>1. CellOf(files[f], i) = Made(c, i)
          BY <3>3, <1>4 DEF CellShape
        <4>2. files[f].size = IF c.start + c.moved > Len(c.before)
                              THEN c.start + c.moved ELSE Len(c.before)
          BY <3>3, <1>1, <1>4 DEF SizeShape
        <4>3. /\ c.start \in Nat /\ c.moved \in Nat /\ Len(c.before) \in Nat
              /\ c.before \in Seq(Cell) /\ files[f].size \in Nat
              /\ Capacity(files[f]) \in Nat
          BY <1>5, CallFacts, FileFacts
        <4> DEFINE size == files[f].size
                   capacity == Capacity(files[f])
                   before == c.before
                   start == c.start
                   moved == c.moved
        <4> HIDE DEF size, capacity, before, start, moved
        <4>4. i \in 1 .. capacity /\ i > size
          BY DEF capacity, size
        <4>5. i > Len(before) /\ i > start + moved
          BY <4>2, <4>3, <4>4 DEF size, capacity, before, start, moved
        <4>6. i \notin DOMAIN before /\ i \notin start + 1 .. start + moved
          BY <4>3, <4>5 DEF before, start, moved
        <4> QED BY <4>1, <4>6 DEF Made, before, start, moved
      <3> QED BY <3>1, <3>2, <3>3 DEF CellsInv, Writing
    <2>2. \A q \in Process : Moving(call'[q]) => CellShape(call'[q], files'[call'[q].file])
      BY <1>1, <1>11, <1>12 DEF CellsInv
    <2> QED BY <2>1, <2>2 DEF CellsInv
  <1>18. \A q \in Process : \A x \in Descriptors(q)' :
            /\ x \in Descriptors(q) /\ opened'[q][x].file = opened[q][x].file
            /\ ~(q = p /\ x = c.fd) => opened'[q][x] = opened[q][x]
            /\ q = p /\ x = c.fd => opened'[q][x].position = position
    BY <1>5, <1>8, <1>10 DEF Descriptors
  <1>19. SoleInv'
    <2>1. ASSUME NEW q \in Process, NEW r \in Process,
                 NEW x \in Descriptors(q)', NEW y \in Descriptors(r)',
                 opened'[q][x].file = opened'[r][y].file, opened'[q][x].file \notin shared'
          PROVE  q = r /\ x = y
      BY <1>1, <1>18, <2>1 DEF SoleInv
    <2>2. ASSUME NEW q \in Process, NEW x \in Descriptors(q)',
                 opened'[q][x].file \notin shared',
                 ~(Moving(call'[q]) /\ call'[q].file = opened'[q][x].file)
          PROVE  files'[opened'[q][x].file].position = opened'[q][x].position
      <3>1. CASE q = p /\ x = c.fd
        BY <1>1, <1>5, <1>9, <1>18, <3>1
      <3>2. CASE ~(q = p /\ x = c.fd)
        <4>1. opened'[q][x] = opened[q][x] /\ x \in Descriptors(q)
              /\ opened[q][x].file \notin shared
          BY <1>1, <1>18, <2>2, <3>2
        <4>2. opened[q][x].file # f
          BY <1>5, <3>2, <4>1 DEF SoleInv
        <4>3. ~(Moving(call[q]) /\ call[q].file = opened[q][x].file)
          <5>1. CASE q = p
            BY <5>1, <4>2
          <5>2. CASE q # p
            BY <5>2, <1>12, <2>2, <4>1
          <5> QED BY <5>1, <5>2
        <4>4. files[opened[q][x].file].position = opened[q][x].position
          BY <4>1, <4>3 DEF SoleInv
        <4> QED BY <1>1, <4>1, <4>4
      <3> QED BY <3>1, <3>2
    <2> QED BY <2>1, <2>2 DEF SoleInv
  <1> QED BY <1>13, <1>14, <1>15, <1>16, <1>17, <1>19

-----------------------------------------------------------------------------
(* The invariant *)

LEMMA FilesInvStarts == Init => FilesInv
  <1> SUFFICES ASSUME Init  PROVE  FilesInv
    OBVIOUS
  <1>1. \A f \in File : files[f] = [pages |-> << >>, position |-> 0, size |-> 0]
    BY DEF Init
  <1>2. Idle \in Calls /\ [Idle EXCEPT !.at = "unborn"] \in Calls
        /\ ~Moving(Idle) /\ ~Moving([Idle EXCEPT !.at = "unborn"])
        /\ Idle.op = "none" /\ [Idle EXCEPT !.at = "unborn"].op = "none"
    <2>1. 0 \in Fd /\ NoFile \in File \cup {NoFile}
      BY BoundsAssumption DEF Fd
    <2>2. << >> \in Seq(Cell)
      OBVIOUS
    <2> QED BY <2>1, <2>2 DEF Idle, Calls, Moving
  <1>3. call \in [Process -> Calls] /\ \A p \in Process : ~Moving(call[p]) /\ call[p].op = "none"
    BY <1>2 DEF Init
  <1>4. \A p \in Process : opened[p] = << >> /\ Descriptors(p) = {}
    BY DEF Init, Descriptors
  <1>5. ShapeInv
    <2>1. files \in [File -> FileRecord]
      BY DEF Init, FileRecord
    <2>2. << >> \in Table
      BY DEF Table
    <2>3. opened \in [Process -> Table]
      BY <2>2 DEF Init
    <2>4. last_fd \in [Process -> 0 .. MaxFd + 1]
      BY BoundsAssumption DEF Init
    <2>5. writes \in 0 .. MaxWrites /\ shared \subseteq File
      BY BoundsAssumption DEF Init
    <2>6. raced \in BOOLEAN
      BY DEF Init
    <2> QED BY <1>3, <2>1, <2>3, <2>4, <2>5, <2>6 DEF ShapeInv
  <1>6. CallsInv
    BY <1>3, <1>4 DEF CallsInv, CallShape
  <1>7. Exclusive
    BY <1>3 DEF Exclusive
  <1>8. Len(<< >>) = 0 /\ PageSize * 0 = 0
    BY BoundsAssumption
  <1>9. SizesInv
    BY <1>1, <1>3, <1>8 DEF Init, SizesInv, BoundsHold, PagesCoverSize, NoPanic, OutOfBounds
  <1>10. CellsInv
    BY <1>1, <1>3, <1>8 DEF CellsInv, Clean, Capacity
  <1>11. SoleInv
    BY <1>4 DEF SoleInv
  <1> QED BY <1>5, <1>6, <1>7, <1>9, <1>10, <1>11 DEF FilesInv

LEMMA FilesInvStep == FilesInv /\ [Next]_vars => FilesInv'
  <1> SUFFICES ASSUME FilesInv, [Next]_vars  PROVE  FilesInv'
    OBVIOUS
  <1>1. CASE UNCHANGED vars
    <2>1. UNCHANGED <<files, descriptors, call, writes, panic>> /\ raced' \in BOOLEAN
      BY <1>1 DEF vars, FilesInv, ShapeInv
    <2> QED BY <2>1, SameKeeps
  <1>2. CASE Halted
    <2>1. UNCHANGED <<files, descriptors, call, writes, panic>> /\ raced' \in BOOLEAN
      BY <1>2 DEF Halted, vars, FilesInv, ShapeInv
    <2> QED BY <2>1, SameKeeps
  <1>3. ASSUME NEW p \in Process, Meet(p)  PROVE FilesInv'
    <2>1. UNCHANGED <<files, descriptors, call, writes, panic>> /\ raced' \in BOOLEAN
      BY <1>3 DEF Meet
    <2> QED BY <2>1, SameKeeps
  <1>4. ASSUME NEW p \in Process, NEW f \in File, Open(p, f)  PROVE FilesInv'
    BY <1>4, OpenKeeps
  <1>5. ASSUME NEW p \in Process, NEW fd \in Fd, Close(p, fd)  PROVE FilesInv'
    BY <1>5, CloseKeeps
  <1>6. ASSUME NEW p \in Process, NEW fd \in Fd, Dup(p, fd)  PROVE FilesInv'
    BY <1>6, DupKeeps
  <1>7. ASSUME NEW p \in Process, NEW fd \in Fd, NEW new \in Fd, Dup2(p, fd, new)
        PROVE  FilesInv'
    BY <1>7, Dup2Keeps
  <1>8. ASSUME NEW p \in Process, NEW fd \in Fd, NEW offset \in Offsets, NEW whence \in Whence,
               Lseek(p, fd, offset, whence)
        PROVE  FilesInv'
    BY <1>8, LseekKeeps
  <1>9. ASSUME NEW p \in Process, NEW fd \in Fd, NEW n \in ReadSizes, Read(p, fd, n)
        PROVE  FilesInv'
    BY <1>9, ReadKeeps
  <1>10. ASSUME NEW p \in Process, NEW fd \in Fd, NEW n \in WriteSizes, Write(p, fd, n)
         PROVE  FilesInv'
    BY <1>10, WriteKeeps
  <1>11. ASSUME NEW p \in Process, ReadPage(p)  PROVE FilesInv'
    BY <1>11, ReadPageKeeps
  <1>12. ASSUME NEW p \in Process, WritePage(p)  PROVE FilesInv'
    BY <1>12, WritePageKeeps
  <1>13. ASSUME NEW p \in Process, Tell(p)  PROVE FilesInv'
    BY <1>13, TellKeeps
  <1>14. ASSUME NEW p \in Process, NEW child \in Process, Fork(p, child)  PROVE FilesInv'
    BY <1>14, ForkKeeps
  <1> QED BY <1>1, <1>2, <1>3, <1>4, <1>5, <1>6, <1>7, <1>8, <1>9, <1>10, <1>11, <1>12,
             <1>13, <1>14 DEF Next

LEMMA FilesInvHolds == Spec => []FilesInv
  BY FilesInvStarts, FilesInvStep, PTL DEF Spec


-----------------------------------------------------------------------------
(* The theorems about states *)

\* The data has its types: a descriptor is of a file and stands at a place in or
\* behind it, and a call has what it needs.
THEOREM TypesHold == Spec => []TypeOK
  <1>1. FilesInv => TypeOK
    <2> SUFFICES ASSUME FilesInv  PROVE TypeOK
      OBVIOUS
    <2>1. ShapeInv
      BY DEF FilesInv
    <2>2. ASSUME NEW f \in File
          PROVE  /\ files[f].pages \in Seq([1 .. PageSize -> Cell])
                 /\ files[f].position \in Nat /\ files[f].size \in Nat
      BY <2>1, FileFacts DEF Page
    <2>3. ASSUME NEW p \in Process, NEW fd \in Descriptors(p)
          PROVE  fd \in Fd /\ opened[p][fd] \in [file : File, position : Nat]
      BY <2>1, DescriptorFacts DEF Entry
    <2> QED BY <2>1, <2>2, <2>3 DEF TypeOK, ShapeInv
  <1> QED BY <1>1, FilesInvHolds, PTL

\* ram_file::read and write touch no memory outside the pages of the file, but
\* for a call on a descriptor that lseek put behind the end; and the pages of a
\* file always reach to its end.
THEOREM PagesAreThere == Spec => []BoundsHold
  <1>1. FilesInv => BoundsHold
    BY DEF FilesInv, SizesInv
  <1> QED BY <1>1, FilesInvHolds, PTL

\* read returns what the file held from the position on, up to its end, and write
\* puts all of its data there and changes nothing else, over any number of pages.
THEOREM DataIsMoved == Spec => []DataMoved
  <1>1. FilesInv => DataMoved
    <2> SUFFICES ASSUME FilesInv, NEW p \in Process, call[p].at = "tell"
                 PROVE  LET c == call[p] IN
                        IF c.op = "read"
                        THEN /\ c.data = SubSeq(c.before, c.start + 1, c.start + Len(c.data))
                             /\ c.left > 0 => c.start + Len(c.data) = Len(c.before)
                        ELSE \A i \in 1 .. files[c.file].size :
                                Content(c.file)[i] =
                                    IF i \in c.start + 1 .. c.start + Len(c.data)
                                    THEN c.data[i - c.start]
                                    ELSE IF i \in DOMAIN c.before THEN c.before[i]
                                    ELSE Unwritten
      BY DEF DataMoved
    <2> DEFINE c == call[p]
               f == c.file
    <2>1. Moving(c)
      BY DEF Moving
    <2>2. /\ CallShape(p, c) /\ SizeShape(c, files[f]) /\ CellShape(c, files[f])
          /\ ShapeInv /\ PagesCoverSize /\ c.op \in {"read", "write"} /\ f \in File
      BY <2>1 DEF FilesInv, CallsInv, SizesInv, CellsInv, BoundsHold, CallShape
    <2>3. /\ c.start \in Nat /\ c.moved \in Nat /\ c.left \in Nat
          /\ c.before \in Seq(Cell) /\ c.data \in Seq(Cell)
          /\ Len(c.before) \in Nat /\ Len(c.data) \in Nat
      BY <2>2, CallFacts
    <2>4. ASSUME c.op = "read"
          PROVE  /\ c.data = SubSeq(c.before, c.start + 1, c.start + Len(c.data))
                 /\ c.left > 0 => c.start + Len(c.data) = Len(c.before)
      <3>1. /\ Len(c.data) = c.moved /\ files[f].size = Len(c.before)
            /\ c.start + c.moved <= files[f].size
            /\ c.left > 0 => c.start + c.moved = files[f].size
        BY <2>1, <2>2, <2>4 DEF CallShape, SizeShape
      <3>2. \A j \in 1 .. c.moved : c.data[j] = c.before[c.start + j]
        BY <2>2, <2>4 DEF CellShape
      <3> DEFINE data == c.data
                 before == c.before
                 start == c.start
                 moved == c.moved
      <3>3. /\ data \in Seq(Cell) /\ before \in Seq(Cell) /\ start \in Nat /\ moved \in Nat
            /\ Len(data) = moved /\ start + moved <= Len(before) /\ Len(before) \in Nat
            /\ \A j \in 1 .. moved : data[j] = before[start + j]
        BY <2>3, <3>1, <3>2
      <3> HIDE DEF data, before, start, moved
      <3> DEFINE from == start + 1
                 to == start + moved
      <3>4. /\ from \in Int /\ to \in Int /\ to - from + 1 = moved
            /\ (IF from <= to THEN to - from + 1 ELSE 0) = moved
            /\ \A j \in 1 .. moved : from + j - 1 = start + j
            /\ \A i \in from .. to : before[i] \in Cell
        BY <3>3
      <3> HIDE DEF from, to
      <3>5. /\ SubSeq(before, from, to) \in Seq(Cell)
            /\ Len(SubSeq(before, from, to)) = moved
            /\ \A j \in 1 .. moved : SubSeq(before, from, to)[j] = before[from + j - 1]
        BY <3>4, SubSeqProperties
      <3> DEFINE part == SubSeq(before, from, to)
      <3> HIDE DEF part
      <3>6. /\ part \in Seq(Cell) /\ Len(part) = Len(data)
            /\ \A j \in 1 .. Len(data) : part[j] = data[j]
        BY <3>3, <3>4, <3>5 DEF part
      <3>7. part = data
        BY <3>3, <3>6
      <3> QED BY <3>1, <3>7 DEF part, from, to, data, before, start, moved
    <2>5. ASSUME c.op = "write", NEW i \in 1 .. files[f].size
          PROVE  Content(f)[i] = IF i \in c.start + 1 .. c.start + Len(c.data)
                                 THEN c.data[i - c.start]
                                 ELSE IF i \in DOMAIN c.before THEN c.before[i] ELSE Unwritten
      <3>1. Content(f)[i] = CellOf(files[f], i) /\ i \in 1 .. Capacity(files[f])
        BY <2>2, ContentIs
      <3>2. CellOf(files[f], i) = Made(c, i)
        BY <2>2, <2>5, <3>1 DEF CellShape
      <3>3. Len(c.data) = c.moved
        BY <2>1, <2>2, <2>3, <2>5 DEF CallShape, SizeShape
      <3> QED BY <3>1, <3>2, <3>3 DEF Made
    <2> QED BY <2>2, <2>4, <2>5
  <1> QED BY <1>1, FilesInvHolds, PTL

\* A file with one descriptor at most has its position between calls.
THEOREM SoleDescriptorKnows == Spec => []SoleDescriptor
  <1>1. FilesInv => SoleDescriptor
    BY DEF FilesInv, SoleInv, SoleDescriptor, Moving
  <1> QED BY <1>1, FilesInvHolds, PTL


-----------------------------------------------------------------------------
(* Each descriptor has a position of its own *)

Contents == [f \in File |-> Stored(f)]

\* A step that changes nothing readers find in the file: it leaves its content alone,
\* or a call of write goes on with it.
Same(f) ==
    /\ Writing(f) \/ Content(f)' = Content(f)
    /\ \A q \in Process :
          /\ call'[q].op = "write" /\ call'[q].file = f
                <=> call[q].op = "write" /\ call[q].file = f
          /\ call[q].op = "write" /\ call[q].file = f => call'[q].before = call[q].before

LEMMA StoredKept ==
    ASSUME NEW f, Same(f)
    PROVE  Stored(f)' = Stored(f)
  <1> DEFINE writers == {q \in Process : call[q].op = "write" /\ call[q].file = f}
  <1>1. writers' = writers
    BY DEF Same
  <1>2. \A q \in writers : call'[q].before = call[q].before
    BY DEF Same
  <1>3. writers # {} \/ Content(f)' = Content(f)
    BY DEF Same, Writing
  <1>4. Stored(f) = IF writers = {} THEN Content(f)
                    ELSE call[CHOOSE q \in writers : TRUE].before
    BY DEF Stored
  <1>5. Stored(f)' = IF writers' = {} THEN Content(f)'
                     ELSE call'[CHOOSE q \in writers' : TRUE].before
    BY DEF Stored
  <1>6. writers # {} => (CHOOSE q \in writers : TRUE) \in writers
    OBVIOUS
  <1> HIDE DEF writers
  <1> QED BY <1>1, <1>2, <1>3, <1>4, <1>5, <1>6

LEMMA ContentsKept ==
    ASSUME \A f \in File : Same(f)
    PROVE  Contents' = Contents
  <1>1. \A f \in File : Stored(f)' = Stored(f)
    BY StoredKept
  <1> QED BY <1>1 DEF Contents

LEMMA ContentsCalm ==
    ASSUME FilesInv, call' = call,
           files' = files
             \/ \E f \in File, position \in Nat : files' = [files EXCEPT ![f].position = position]
    PROVE  Contents' = Contents
  <1>1. \A g \in File : files'[g].pages = files[g].pages /\ files'[g].size = files[g].size
    BY PositionSet DEF FilesInv
  <1>2. \A g \in File : Content(g)' = Content(g)
    BY <1>1, ContentKept
  <1> QED BY <1>2, ContentsKept DEF Same

LEMMA StartMaps ==
    ASSUME Init
    PROVE  OF!Init
  <1>1. ShapeInv /\ PagesCoverSize /\ CallsInv
    BY FilesInvStarts DEF FilesInv, SizesInv, BoundsHold
  <1>2. \A p \in Process : call[p].op = "none"
    BY DEF Init, Idle
  <1>3. ASSUME NEW f \in File  PROVE Stored(f) = << >>
    <2>1. Content(f) \in Seq(Cell) /\ Len(Content(f)) = 0
      BY <1>1, ContentIs DEF Init
    <2>2. ~Writing(f)
      BY <1>2 DEF Writing
    <2> QED BY <2>1, <2>2, StoredUnwritten
  <1> QED BY <1>3 DEF Init, OF!Init

LEMMA OpenMaps ==
    ASSUME FilesInv, NEW p \in Process, NEW f \in File, Open(p, f)
    PROVE  OF!Next
  <1>1. PICK fd \in Fd : Allocated(p, fd) /\ Registers(p, fd, f, 0)
    BY DEF Open
  <1>2. Contents' = Contents
    <2>1. call' = call /\ files' = [files EXCEPT ![f].position = 0] /\ 0 \in Nat
      BY DEF Open, PositionOpened
    <2> QED BY <2>1, ContentsCalm
  <1>3. fd \notin Descriptors(p)
    BY <1>1, AllocatedFd DEF FilesInv
  <1>4. OF!Open(p, fd, f)
    BY <1>1, <1>2, <1>3
       DEF OF!Open, OF!Set, OF!Descriptors, Registers, Descriptors, Contents
  <1> QED BY <1>4 DEF OF!Next

LEMMA CloseMaps ==
    ASSUME FilesInv, NEW p \in Process, NEW fd \in Fd, Close(p, fd)
    PROVE  OF!Next
  <1>1. Contents' = Contents
    BY ContentsCalm DEF Close
  <1>2. fd \in OF!Descriptors(p) /\ OF!Close(p, fd)
    BY <1>1 DEF Close, OF!Close, OF!Descriptors, Descriptors, Contents
  <1> QED BY <1>2 DEF OF!Next

LEMMA DupMaps ==
    ASSUME FilesInv, NEW p \in Process, NEW fd \in Fd, Dup(p, fd)
    PROVE  OF!Next
  <1> DEFINE f == opened[p][fd].file
  <1>1. PICK new \in Fd : Allocated(p, new) /\ Registers(p, new, f, 0)
    BY DEF Dup
  <1>2. Contents' = Contents
    BY ContentsCalm DEF Dup
  <1>3. new \notin Descriptors(p)
    BY <1>1, AllocatedFd DEF FilesInv
  <1>4. f \in File
    BY DescriptorFacts DEF FilesInv, Dup
  <1> HIDE DEF f
  <1>5. OF!Open(p, new, f)
    BY <1>1, <1>2, <1>3
       DEF OF!Open, OF!Set, OF!Descriptors, Registers, Descriptors, Contents
  <1> QED BY <1>4, <1>5 DEF OF!Next

LEMMA Dup2Maps ==
    ASSUME FilesInv, NEW p \in Process, NEW fd \in Fd, NEW new \in Fd, Dup2(p, fd, new)
    PROVE  OF!Next \/ UNCHANGED <<Contents, opened>>
  <1>1. fd \in Descriptors(p)
    BY DEF Dup2
  <1>2. CASE Stop(UseAfterErase)
    <2>1. call' = call /\ files' = files /\ opened' = opened
      BY <1>2 DEF Stop, descriptors
    <2> QED BY <2>1, ContentsCalm
  <1>3. CASE /\ Registers(p, new, opened[p][fd].file, opened[p][fd].position)
             /\ UNCHANGED <<files, last_fd, call, writes, raced, panic>>
    <2>1. Contents' = Contents
      BY <1>3, ContentsCalm
    <2>2. opened[p][fd] = [file |-> opened[p][fd].file, position |-> opened[p][fd].position]
      BY <1>1, DescriptorFacts DEF FilesInv, Entry
    <2>3. fd \in OF!Descriptors(p) /\ OF!Copy(p, fd, new)
      BY <1>1, <1>3, <2>1, <2>2
         DEF OF!Copy, OF!Set, OF!Descriptors, Registers, Descriptors, Contents
    <2> QED BY <2>3 DEF OF!Next
  <1> QED BY <1>2, <1>3 DEF Dup2

LEMMA LseekMaps ==
    ASSUME FilesInv, NEW p \in Process, NEW fd \in Fd,
           NEW offset \in Offsets, NEW whence \in Whence, Lseek(p, fd, offset, whence)
    PROVE  OF!Next
  <1> DEFINE f == opened[p][fd].file
  <1>1. fd \in Descriptors(p) /\ call' = call
    BY DEF Lseek
  <1>2. PICK sought \in 0 .. MaxPosition :
           /\ files' = [files EXCEPT ![f].position = sought]
           /\ opened' = [opened EXCEPT ![p][fd].position = sought]
    BY DEF Lseek
  <1>3. f \in File /\ sought \in Nat
    BY <1>1, DescriptorFacts, OffsetsAssumption DEF FilesInv
  <1> HIDE DEF f
  <1>4. Contents' = Contents
    BY <1>1, <1>2, <1>3, ContentsCalm
  <1>5. fd \in OF!Descriptors(p) /\ OF!Move(p, fd, sought)
    BY <1>1, <1>2, <1>4 DEF OF!Move, OF!Descriptors, Descriptors, Contents
  <1> QED BY <1>5 DEF OF!Next

LEMMA ForkMaps ==
    ASSUME FilesInv, NEW p \in Process, NEW child \in Process, Fork(p, child)
    PROVE  OF!Next
  <1>1. call[child].at = "unborn" /\ files' = files
        /\ opened' = [opened EXCEPT ![child] = opened[p]]
        /\ call' = [call EXCEPT ![child] = Idle]
    BY DEF Fork, At
  <1>2. opened[child] = << >> /\ call[child].op = "none"
    BY <1>1 DEF FilesInv, CallsInv, CallShape, Moving
  <1>3. call'[child].op = "none" /\ \A q \in Process \ {child} : call'[q] = call[q]
    BY <1>1 DEF FilesInv, ShapeInv, Idle
  <1>4. Contents' = Contents
    <2>1. \A g \in File : Content(g)' = Content(g)
      BY <1>1, ContentKept
    <2> QED BY <2>1, <1>2, <1>3, ContentsKept DEF Same
  <1>5. OF!Fork(p, child)
    BY <1>1, <1>2, <1>4 DEF OF!Fork, Contents
  <1> QED BY <1>5 DEF OF!Next


LEMMA StartsMaps ==
    ASSUME FilesInv, NEW p \in Process, NEW fd \in Fd, NEW op \in {"read", "write"},
           NEW n \in Nat, NEW data, Starts(p, fd, op, n, data)
    PROVE  UNCHANGED <<Contents, opened>>
  <1> DEFINE f == opened[p][fd].file
             start == opened[p][fd].position
             before == Stored(f)
             c == [Idle EXCEPT !.op = op, !.at = "move", !.file = f, !.fd = fd, !.left = n,
                               !.data = data, !.start = start, !.before = before]
  <1>1. /\ User(p) /\ fd \in Descriptors(p) /\ ~Used(p, f) /\ opened' = opened
    BY DEF Starts, descriptors
  <1>2. f \in File /\ start \in Nat
    BY <1>1, DescriptorFacts DEF FilesInv
  <1>3. /\ \A q \in Process : Moving(call[q]) => call[q].file # f
        /\ ~Moving(call[p]) /\ call[p].op = "none"
    BY <1>1, NotUsed DEF FilesInv
  <1>4. files' = [files EXCEPT ![f].position = start]
    BY DEF Starts, Sought
  <1>5. call' = [call EXCEPT ![p] = c]
    BY DEF Starts
  <1>6. c.op = op /\ c.file = f /\ c.before = before
    BY DEF Idle
  <1> HIDE DEF f, start, before, c
  <1>7. call'[p] = c /\ \A q \in Process \ {p} : call'[q] = call[q]
    BY <1>5 DEF FilesInv, ShapeInv
  <1>8. \A g \in File : Content(g)' = Content(g)
    <2>1. \A g \in File : files'[g].pages = files[g].pages /\ files'[g].size = files[g].size
      BY <1>2, <1>4, PositionSet DEF FilesInv
    <2> QED BY <2>1, ContentKept
  <1>9. \A q \in Process : call[q].op = "write" => Moving(call[q])
    BY DEF FilesInv, CallsInv, CallShape
  <1>10. ASSUME NEW g \in File  PROVE  Stored(g)' = Stored(g)
    <2>1. CASE g = f /\ op = "write"
      <3> DEFINE writers == {q \in Process : call'[q].op = "write" /\ call'[q].file = g}
      <3>1. \A q \in Process \ {p} : ~(call'[q].op = "write" /\ call'[q].file = g)
        BY <2>1, <1>3, <1>7, <1>9
      <3>2. writers = {p}
        BY <2>1, <3>1, <1>6, <1>7
      <3>3. Stored(g)' = IF writers = {} THEN Content(g)'
                         ELSE call'[CHOOSE q \in writers : TRUE].before
        BY DEF Stored
      <3>4. (CHOOSE q \in writers : TRUE) = p
        BY <3>2
      <3> HIDE DEF writers
      <3>5. Stored(g)' = before
        BY <3>2, <3>3, <3>4, <1>6, <1>7
      <3> QED BY <2>1, <3>5 DEF before
    <2>2. CASE ~(g = f /\ op = "write")
      <3>1. Same(g)
        BY <2>2, <1>3, <1>6, <1>7, <1>8 DEF Same
      <3> QED BY <3>1, StoredKept
    <2> QED BY <2>1, <2>2
  <1> QED BY <1>1, <1>10 DEF Contents

LEMMA WritePageMaps ==
    ASSUME FilesInv, NEW p \in Process, WritePage(p)
    PROVE  UNCHANGED <<Contents, opened>>
  <1>1. CASE Stop(OutOfBounds)
    <2>1. call' = call /\ files' = files /\ opened' = opened
      BY <1>1 DEF Stop, descriptors
    <2> QED BY <2>1, ContentsCalm
  <1>2. CASE WritesPage(p)
    <2> DEFINE c == call[p]
               f == c.file
    <2>1. At(p, "move") /\ c.op = "write"
      BY DEF WritePage
    <2>2. f \in File /\ c \in Calls
      BY <2>1, InMove
    <2>3. \E file2 : files' = [files EXCEPT ![f] = file2]
      BY <1>2 DEF WritesPage
    <2>4. \E n : call' = [call EXCEPT ![p] = CallWritten(c, n)]
      BY <1>2 DEF WritesPage
    <2>5. \A n : /\ CallWritten(c, n).op = c.op /\ CallWritten(c, n).file = f
                 /\ CallWritten(c, n).before = c.before
      BY <2>2 DEF CallWritten, Calls
    <2>6. opened' = opened
      BY <1>2 DEF WritesPage, descriptors
    <2> HIDE DEF c, f
    <2>7. /\ call'[p].op = c.op /\ call'[p].file = f /\ call'[p].before = c.before
          /\ \A q \in Process \ {p} : call'[q] = call[q]
      BY <2>4, <2>5 DEF FilesInv, ShapeInv
    <2>8. \A g \in File : g # f => files'[g] = files[g]
      BY <2>3 DEF FilesInv, ShapeInv
    <2>9. \A g \in File : Writing(g) \/ Content(g)' = Content(g)
      <3>1. Writing(f)
        BY <2>1 DEF Writing, c, f
      <3>2. \A g \in File : g # f => Content(g)' = Content(g)
        BY <2>8, ContentKept
      <3> QED BY <3>1, <3>2
    <2>10. \A g \in File : Same(g)
      BY <2>7, <2>9 DEF Same, c, f
    <2> QED BY <2>6, <2>10, ContentsKept
  <1> QED BY <1>1, <1>2, WritePageIs

LEMMA ReadPageMaps ==
    ASSUME FilesInv, NEW p \in Process, ReadPage(p)
    PROVE  UNCHANGED <<Contents, opened>>
  <1>1. CASE Stop(OutOfBounds)
    <2>1. call' = call /\ files' = files /\ opened' = opened
      BY <1>1 DEF Stop, descriptors
    <2> QED BY <2>1, ContentsCalm
  <1>2. CASE ReadsPage(p)
    <2> DEFINE c == call[p]
               f == c.file
               file == files[f]
               index == file.position \div PageSize
               pages == Ready(file.pages, index)
    <2>1. At(p, "move") /\ c.op = "read"
      BY DEF ReadPage
    <2>2. /\ f \in File /\ c \in Calls /\ file \in FileRecord /\ file.pages \in Seq(Page)
          /\ file.position \in Nat /\ file.size \in Nat /\ file.size <= Capacity(file)
      BY <2>1, InMove
    <2>3. PICK n : files' = [files EXCEPT ![f] = FileRead(file, pages, n)]
      BY <1>2 DEF ReadsPage
    <2>4. \E page, k : call' = [call EXCEPT ![p] =
                                   CallRead(c, file.size, file.position, page, k)]
      BY <1>2 DEF ReadsPage
    <2>5. \A size, position, page, k :
             /\ CallRead(c, size, position, page, k).op = c.op
             /\ CallRead(c, size, position, page, k).file = f
             /\ CallRead(c, size, position, page, k).before = c.before
      BY <2>2 DEF CallRead, Calls
    <2>6. opened' = opened
      BY <1>2 DEF ReadsPage, descriptors
    <2>7. FileRead(file, pages, n).pages = pages /\ FileRead(file, pages, n).size = file.size
      BY <2>2 DEF FileRead, FileRecord
    <2>8. c = call[p] /\ f = call[p].file /\ file = files[f]
      OBVIOUS
    <2>9. \A i \in 1 .. file.size : CellIn(pages, i) = CellIn(file.pages, i)
      <3>1. PageSize \in Nat \ {0} /\ index \in Nat
        BY <2>2, Division, BoundsAssumption
      <3>2. Capacity(file) \in Nat
        BY <2>2, FileFacts DEF FilesInv
      <3> DEFINE old == file.pages
                 size == file.size
      <3> HIDE DEF index, file, old
      <3>3. \A i \in 1 .. PageSize * Len(old) : CellIn(Ready(old, index), i) = CellIn(old, i)
        BY <2>2, <3>1, ReadyCells DEF old
      <3>4. size <= PageSize * Len(old) /\ PageSize * Len(old) \in Nat /\ size \in Nat
        BY <2>2, <3>2 DEF Capacity, old
      <3> HIDE DEF size
      <3>5. \A i \in 1 .. size : CellIn(Ready(old, index), i) = CellIn(old, i)
        BY <3>3, <3>4
      <3> QED BY <3>5 DEF old, size
    <2> HIDE DEF c, f, file, pages
    <2>10. /\ call'[p].op = c.op /\ call'[p].file = f /\ call'[p].before = c.before
           /\ \A q \in Process \ {p} : call'[q] = call[q]
      BY <2>4, <2>5 DEF FilesInv, ShapeInv
    <2>11. /\ \A g \in File : g # f => files'[g] = files[g]
           /\ files'[f].pages = pages /\ files'[f].size = file.size
      BY <2>2, <2>3, <2>7 DEF FilesInv, ShapeInv
    <2>12. ASSUME NEW g \in File  PROVE Content(g)' = Content(g)
      <3>1. CASE g # f
        BY <3>1, <2>11, ContentKept
      <3>2. CASE g = f
        <4>1. Content(g) = [i \in 1 .. file.size |-> CellIn(file.pages, i)]
          BY <2>8, <3>2 DEF Content, CellIn
        <4>2. Content(g)' = [i \in 1 .. files'[g].size |-> CellIn(files'[g].pages, i)]
          BY DEF Content, CellIn
        <4>3. Content(g)' = [i \in 1 .. file.size |-> CellIn(pages, i)]
          BY <3>2, <4>2, <2>11
        <4> QED BY <4>1, <4>3, <2>9
      <3> QED BY <3>1, <3>2
    <2>13. \A g \in File : Same(g)
      BY <2>10, <2>12, <2>8 DEF Same
    <2> QED BY <2>6, <2>13, ContentsKept
  <1> QED BY <1>1, <1>2, ReadPageIs


LEMMA TellMaps ==
    ASSUME FilesInv, NEW p \in Process, Tell(p)
    PROVE  OF!Next
  <1> DEFINE c == call[p]
             f == c.file
             data == Stored(f)
             position == files[f].position
  <1>1. /\ c.at = "tell" /\ Moving(c) /\ files' = files
        /\ opened' = [opened EXCEPT ![p][c.fd].position = position]
        /\ call' = [call EXCEPT ![p] = Idle]
    BY DEF Tell, At, Moving, Return
  <1>2. /\ CallShape(p, c) /\ SizeShape(c, files[f]) /\ CellShape(c, files[f])
        /\ ShapeInv /\ PagesCoverSize /\ c.op \in {"read", "write"} /\ f \in File
    BY <1>1 DEF FilesInv, CallsInv, SizesInv, CellsInv, BoundsHold, CallShape
  <1>3. /\ c.start \in Nat /\ c.moved \in Nat /\ c.left \in Nat
        /\ c.before \in Seq(Cell) /\ c.data \in Seq(Cell)
        /\ Len(c.before) \in Nat /\ Len(c.data) \in Nat
    BY <1>2, CallFacts
  <1>4. /\ c.fd \in Descriptors(p) /\ opened[p][c.fd] = [file |-> f, position |-> c.start]
        /\ position = c.start + c.moved
    BY <1>1, <1>2 DEF CallShape
  <1>5. c.fd \in OF!Descriptors(p)
    BY <1>4 DEF OF!Descriptors, Descriptors
  <1>6. call'[p].op = "none" /\ \A q \in Process \ {p} : call'[q] = call[q]
    BY <1>1 DEF FilesInv, ShapeInv, Idle
  <1>7. Contents[f] = data
    BY <1>2 DEF Contents
  <1>8. \A g : Content(g)' = Content(g)
    BY <1>1 DEF Content
  <1>9. CASE c.op = "read"
    <2> DEFINE n == c.moved + c.left
    <2>1. n \in ReadSizes
      BY <1>1, <1>2, <1>9 DEF CallShape
    <2>2. ~Writing(f)
      <3> SUFFICES ASSUME NEW q \in Process, call[q].op = "write", call[q].file = f
                   PROVE  FALSE
        BY DEF Writing
      <3>1. Moving(call[q])
        BY DEF FilesInv, CallsInv, CallShape
      <3> QED BY <3>1, <1>1, <1>9 DEF FilesInv, Exclusive
    <2>3. Len(data) = files[f].size
      BY <1>2, <2>2, StoredUnwritten, ContentIs
    <2>4. /\ files[f].size = Len(c.before) /\ c.start + c.moved <= files[f].size
          /\ c.left > 0 => c.start + c.moved = files[f].size
      BY <1>1, <1>2, <1>9 DEF SizeShape
    <2>5. c.start <= Len(data)
          /\ c.start + (IF c.start + n > Len(data) THEN Len(data) - c.start ELSE n) = position
      <3> DEFINE start == c.start
                 moved == c.moved
                 left == c.left
                 size == Len(data)
      <3>1. /\ start \in Nat /\ moved \in Nat /\ left \in Nat /\ size \in Nat
            /\ start + moved <= size
            /\ left > 0 => start + moved = size
        BY <1>3, <2>3, <2>4
      <3>2. position = start + moved /\ n = moved + left
        BY <1>4
      <3> HIDE DEF start, moved, left, size, position, n
      <3>3. start <= size /\ start + (IF start + n > size THEN size - start ELSE n) = position
        <4>1. CASE left > 0
          BY <3>1, <3>2, <4>1
        <4>2. CASE left = 0
          BY <3>1, <3>2, <4>2
        <4> QED BY <3>1, <4>1, <4>2
      <3> QED BY <3>3 DEF start, size
    <2>6. Contents' = Contents
      <3>1. \A g \in File : Same(g)
        BY <1>6, <1>8, <1>9, <1>2 DEF Same
      <3> QED BY <3>1, ContentsKept
    <2> HIDE DEF n, data, position, c, f
    <2>7. OF!Read(p, c.fd, n)
      <3>1. OF!Move(p, c.fd, position)
        BY <1>1, <2>6 DEF OF!Move, Contents
      <3>2. OF!Available(data, c.start, n)
              = IF c.start + n > Len(data) THEN Len(data) - c.start ELSE n
        BY DEF OF!Available
      <3>3. /\ opened[p][c.fd].position = c.start /\ opened[p][c.fd].file = f
        BY <1>4
      <3> QED BY <3>1, <3>2, <3>3, <1>7, <2>5 DEF OF!Read, Contents
    <2> QED BY <1>5, <2>1, <2>7 DEF OF!Next
  <1>10. CASE c.op = "write"
    <2>1. /\ c.left = 0 /\ Len(c.data) = c.moved
          /\ files[f].size = IF c.start + c.moved > Len(c.before)
                             THEN c.start + c.moved ELSE Len(c.before)
      BY <1>1, <1>2, <1>3, <1>10 DEF SizeShape, CallShape
    <2>2. \A i \in 1 .. Capacity(files[f]) : CellOf(files[f], i) = Made(c, i)
      BY <1>2, <1>10 DEF CellShape
    <2>3. \E k \in 1 .. MaxWrites, n \in WriteSizes : c.data = Block(k, n)
      BY <1>1, <1>2, <1>10 DEF CallShape
    <2>4. data = c.before
      BY <1>10, StoredWritten DEF FilesInv
    <2>5. Content(f) = OF!Written(c.before, c.start, c.data)
      <3>1. Content(f) = [i \in 1 .. files[f].size |-> Content(f)[i]]
        BY <1>2 DEF Content
      <3>2. \A i \in 1 .. files[f].size : Content(f)[i] = Made(c, i)
        BY <1>2, <2>2, ContentIs
      <3>3. OF!Written(c.before, c.start, c.data) =
              [i \in 1 .. files[f].size |->
                  IF i \in c.start + 1 .. c.start + c.moved THEN c.data[i - c.start]
                  ELSE IF i \in DOMAIN c.before THEN c.before[i] ELSE Unwritten]
        BY <2>1 DEF OF!Written
      <3> QED BY <3>1, <3>2, <3>3 DEF Made
    <2>6. \A q \in Process \ {p} : ~(call[q].op = "write" /\ call[q].file = f)
      <3> SUFFICES ASSUME NEW q \in Process \ {p}, call[q].op = "write", call[q].file = f
                   PROVE  FALSE
        OBVIOUS
      <3>1. Moving(call[q])
        BY DEF FilesInv, CallsInv, CallShape
      <3> QED BY <3>1, <1>1 DEF FilesInv, Exclusive
    <2>7. ASSUME NEW g \in File
          PROVE  Stored(g)' = IF g = f THEN Content(f) ELSE Stored(g)
      <3>1. CASE g = f
        <4>1. \A q \in Process : ~(call'[q].op = "write" /\ call'[q].file = g)
          BY <3>1, <1>6, <2>6
        <4> DEFINE writers == {q \in Process : call[q].op = "write" /\ call[q].file = g}
        <4>2. writers' = {}
          BY <4>1
        <4>3. Stored(g)' = IF writers' = {} THEN Content(g)'
                           ELSE call'[CHOOSE q \in writers' : TRUE].before
          BY DEF Stored
        <4> HIDE DEF writers
        <4>4. Stored(g)' = Content(g)'
          BY <4>2, <4>3
        <4> QED BY <3>1, <4>4, <1>8
      <3>2. CASE g # f
        <4>1. Same(g)
          BY <3>2, <1>6, <1>8, <1>10 DEF Same
        <4> QED BY <3>2, <4>1, StoredKept
      <3> QED BY <3>1, <3>2
    <2>8. Contents' = [Contents EXCEPT ![f] = Content(f)]
      <3>1. Contents' = [g \in File |-> Stored(g)']
        BY DEF Contents
      <3>2. [g \in File |-> Stored(g)'] = [g \in File |-> IF g = f THEN Content(f) ELSE Stored(g)]
        BY <2>7
      <3>3. [g \in File |-> IF g = f THEN Content(f) ELSE Stored(g)]
              = [Contents EXCEPT ![f] = Content(f)]
        BY <1>2 DEF Contents
      <3> QED BY <3>1, <3>2, <3>3
    <2>9. opened' = [opened EXCEPT ![p][c.fd].position = c.start + Len(c.data)]
      BY <1>1, <1>4, <2>1
    <2> DEFINE written == OF!Written(c.before, c.start, c.data)
    <2>10. Contents' = [Contents EXCEPT ![f] = OF!Written(Contents[f], c.start, c.data)]
      <3>1. Contents[f] = c.before
        BY <1>7, <2>4
      <3> HIDE DEF c, f
      <3> QED BY <3>1, <2>5, <2>8
    <2> HIDE DEF written, data, position, c, f
    <2>11. OF!Write(p, c.fd, c.data)
      <3>1. /\ opened[p][c.fd].position = c.start /\ opened[p][c.fd].file = f
        BY <1>4
      <3>2. opened' = [opened EXCEPT ![p][c.fd].position = @ + Len(c.data)]
        BY <3>1, <2>9
      <3> QED BY <3>1, <3>2, <2>10 DEF OF!Write, Contents
    <2>12. c.data \in {Block(k, n) : k \in 1 .. MaxWrites, n \in WriteSizes}
      BY <2>3
    <2> QED BY <1>5, <2>11, <2>12 DEF OF!Next
  <1> HIDE DEF c, f
  <1> QED BY <1>2, <1>9, <1>10

LEMMA StepMaps ==
    ASSUME FilesInv, [Next]_vars
    PROVE  OF!Next \/ UNCHANGED <<Contents, opened>>
  <1>1. CASE UNCHANGED vars
    <2>1. call' = call /\ files' = files /\ opened' = opened
      BY <1>1 DEF vars, descriptors
    <2> QED BY <2>1, ContentsCalm
  <1>2. CASE Halted
    <2>1. call' = call /\ files' = files /\ opened' = opened
      BY <1>2 DEF Halted, vars, descriptors
    <2> QED BY <2>1, ContentsCalm
  <1>3. ASSUME NEW p \in Process, Meet(p)  PROVE UNCHANGED <<Contents, opened>>
    <2>1. call' = call /\ files' = files /\ opened' = opened
      BY <1>3 DEF Meet, descriptors
    <2> QED BY <2>1, ContentsCalm
  <1>4. ASSUME NEW p \in Process, NEW f \in File, Open(p, f)  PROVE OF!Next
    BY <1>4, OpenMaps
  <1>5. ASSUME NEW p \in Process, NEW fd \in Fd, Close(p, fd)  PROVE OF!Next
    BY <1>5, CloseMaps
  <1>6. ASSUME NEW p \in Process, NEW fd \in Fd, Dup(p, fd)  PROVE OF!Next
    BY <1>6, DupMaps
  <1>7. ASSUME NEW p \in Process, NEW fd \in Fd, NEW new \in Fd, Dup2(p, fd, new)
        PROVE  OF!Next \/ UNCHANGED <<Contents, opened>>
    BY <1>7, Dup2Maps
  <1>8. ASSUME NEW p \in Process, NEW fd \in Fd, NEW offset \in Offsets, NEW whence \in Whence,
               Lseek(p, fd, offset, whence)
        PROVE  OF!Next
    BY <1>8, LseekMaps
  <1>9. ASSUME NEW p \in Process, NEW fd \in Fd, NEW n \in ReadSizes, Read(p, fd, n)
        PROVE  UNCHANGED <<Contents, opened>>
    <2>1. Starts(p, fd, "read", n, << >>) /\ n \in Nat /\ "read" \in {"read", "write"}
      BY <1>9, SizesAssumption DEF Read
    <2> QED BY <2>1, StartsMaps
  <1>10. ASSUME NEW p \in Process, NEW fd \in Fd, NEW n \in WriteSizes, Write(p, fd, n)
         PROVE  UNCHANGED <<Contents, opened>>
    <2> DEFINE data == Block(writes + 1, n)
    <2>1. Starts(p, fd, "write", n, data) /\ n \in Nat /\ "write" \in {"read", "write"}
      BY <1>10, SizesAssumption DEF Write
    <2> HIDE DEF data
    <2> QED BY <2>1, StartsMaps
  <1>11. ASSUME NEW p \in Process, ReadPage(p)  PROVE UNCHANGED <<Contents, opened>>
    BY <1>11, ReadPageMaps
  <1>12. ASSUME NEW p \in Process, WritePage(p)  PROVE UNCHANGED <<Contents, opened>>
    BY <1>12, WritePageMaps
  <1>13. ASSUME NEW p \in Process, Tell(p)  PROVE OF!Next
    BY <1>13, TellMaps
  <1>14. ASSUME NEW p \in Process, NEW child \in Process, Fork(p, child)  PROVE OF!Next
    BY <1>14, ForkMaps
  <1> QED BY <1>1, <1>2, <1>3, <1>4, <1>5, <1>6, <1>7, <1>8, <1>9, <1>10, <1>11, <1>12,
             <1>13, <1>14 DEF Next

\* While no two calls on a file overlap, descriptors that share the one position of
\* the file are as good as descriptors with a position each: every call of open,
\* close, dup, dup2, lseek, read, write and fork is the step of OpenFiles it should
\* be, a read or a write at the moment it saves the position.
THEOREM DescriptorsAreApart == Spec => PositionsApart
  <1>1. Init => OF!Init
    BY StartMaps
  <1>2. FilesInv /\ [Next]_vars => [OF!Next]_<<[f \in File |-> Stored(f)], opened>>
    BY StepMaps DEF Contents
  <1> QED BY <1>1, <1>2, FilesInvHolds, PTL DEF Spec, PositionsApart, OF!Spec
=============================================================================
