-------------------------------- MODULE Files --------------------------------
(***************************************************************************)
(* Files and descriptors of the Knee kernel (posix.cpp, filesystem.cpp,    *)
(* ram_fs.cpp).  A file in memory has pages, a size and one position, which *)
(* all its descriptors share: read and write set it to the position of the *)
(* descriptor, move it with every page they copy, and save it again.       *)
(*                                                                         *)
(* These calls are preemptible.  When another process moves the position   *)
(* of a file in between, "raced" is set and the model ends.  How open finds *)
(* the file of a path is in Directories.                                   *)
(***************************************************************************)
EXTENDS Integers, Sequences, FiniteSets

CONSTANTS
    Process, First,  \* the processes, and the one that forks the others
    MaxFiles,        \* how many files there are
    MaxFd,           \* bound on the numbers of descriptors
    MaxOpen,         \* bound on how many are open
    PageSize,        \* the cells of a page
    MaxWrites,       \* bound on the calls of write
    WriteSizes, ReadSizes,  \* the sizes of the buffers programs pass
    Offsets,         \* the offsets they pass to lseek
    MaxPosition      \* bound on where lseek leaves a descriptor

ASSUME FirstAssumption == First \in Process
ASSUME BoundsAssumption ==
    /\ MaxFiles \in Nat /\ MaxFd \in Nat /\ MaxOpen \in Nat
    /\ MaxWrites \in Nat /\ PageSize \in Nat \ {0}
ASSUME SizesAssumption ==
    WriteSizes \subseteq Nat \ {0} /\ ReadSizes \subseteq Nat \ {0}
ASSUME OffsetsAssumption == Offsets \subseteq Nat /\ MaxPosition \in Nat

File == 1 .. MaxFiles
Fd == 0 .. MaxFd
NoFile == 0
Unwritten == <<0, 0>>     \* a cell of memory that nobody has written

VARIABLES
    files,     \* ram_file: _pages, _position, _size
    opened,    \* descriptor_to_open of each process
    last_fd,   \* process::last_fd
    call,      \* the call each process is in: see Idle
    writes,    \* the calls of write so far
    shared,    \* the files that ever had two descriptors at a time
    raced,     \* two calls have met
    panic      \* what stopped the kernel

descriptors == <<opened, last_fd, shared>>
vars == <<files, descriptors, call, writes, raced, panic>>

NoPanic == "none"
OutOfBounds == "out of bounds"
UseAfterErase == "use of an erased descriptor"

\* The locals of read and write: the operation and where it is; the descriptor
\* and its file, the data that was read or is to be written, how many cells are
\* to go and were moved, where they started and, for the properties, what the
\* file held.
Idle == [op |-> "none", at |-> "user", file |-> NoFile,
         fd |-> 0, data |-> << >>, left |-> 0, moved |-> 0,
         start |-> 0, before |-> << >>]

\* Before the first program opens a file.
Init ==
    /\ files = [f \in File |-> [pages |-> << >>, position |-> 0, size |-> 0]]
    /\ opened = [p \in Process |-> << >>]
    /\ last_fd = [p \in Process |-> 0]
    /\ call = [p \in Process |-> IF p = First THEN Idle ELSE [Idle EXCEPT !.at = "unborn"]]
    /\ writes = 0
    /\ shared = {}
    /\ raced = FALSE
    /\ panic = NoPanic

Running == panic = NoPanic /\ ~raced
At(p, place) == Running /\ call[p].at = place
User(p) == At(p, "user")
Return(p) == call' = [call EXCEPT ![p] = Idle]

Stop(message) ==
    /\ panic' = message
    /\ UNCHANGED <<files, descriptors, call, writes, raced>>

Least(a, b) == IF a < b THEN a ELSE b
Descriptors(p) == DOMAIN opened[p]

\* Some other process than p is between the seek and the tell of a call on f.
Used(p, f) ==
    \E q \in Process \ {p} : call[q].at \in {"move", "tell"} /\ call[q].file = f

-----------------------------------------------------------------------------
(* Descriptors *)

Opened == {use \in Process \X Fd : use[2] \in Descriptors(use[1])}
Uses(f) == {use \in Opened : opened[use[1]][use[2]].file = f}

\* Process p gets descriptor fd, a descriptor of the file at the position.
Registers(p, fd, f, position) ==
    /\ Cardinality(Opened \cup {<<p, fd>>}) <= MaxOpen
    /\ opened' = [opened EXCEPT ![p] =
                    [x \in DOMAIN @ \cup {fd} |->
                        IF x = fd THEN [file |-> f, position |-> position] ELSE @[x]]]
    /\ shared' = shared \cup {g \in {f} : Uses(g) \ {<<p, fd>>} # {}}

\* allocate_fd: descriptors are not used again until the numbers run out.
Allocated(p, fd) ==
    /\ fd >= last_fd[p] /\ fd \notin Descriptors(p)
    /\ \A x \in last_fd[p] .. fd - 1 : x \in Descriptors(p)
    /\ last_fd' = [last_fd EXCEPT ![p] = fd + 1]

\* Mutant: a file that is opened again goes on where it was left.
PositionKept(f) == files[f].position

\* ram_file::open
PositionOpened(f) == 0

\* open of a file, and a descriptor for it.
Open(p, f) ==
    /\ User(p)
    /\ ~Used(p, f)
    /\ files' = [files EXCEPT ![f].position = PositionOpened(f)]
    /\ \E fd \in Fd : Allocated(p, fd) /\ Registers(p, fd, f, 0)
    /\ UNCHANGED <<call, writes, raced, panic>>

Close(p, fd) ==
    /\ User(p)
    /\ fd \in Descriptors(p)
    /\ opened' = [opened EXCEPT ![p] = [x \in DOMAIN @ \ {fd} |-> @[x]]]
    /\ UNCHANGED <<files, last_fd, shared, call, writes, raced, panic>>

\* dup: a descriptor of the same entry, at its start: what another open does.
Dup(p, fd) ==
    /\ User(p)
    /\ fd \in Descriptors(p)
    /\ \E new \in Fd : Allocated(p, new) /\ Registers(p, new, opened[p][fd].file, 0)
    /\ UNCHANGED <<files, call, writes, raced, panic>>

\* dup2 closes the new descriptor first; if it is the old one, what it is about
\* to copy is gone.
Dup2(p, fd, new) ==
    /\ User(p)
    /\ fd \in Descriptors(p)
    /\ \/ /\ new = fd
          /\ Stop(UseAfterErase)
       \/ /\ new # fd
          /\ Registers(p, new, opened[p][fd].file, opened[p][fd].position)
          /\ UNCHANGED <<files, last_fd, call, writes, raced, panic>>

\* copy_current_process copies the descriptors.
Fork(p, child) ==
    /\ User(p)
    /\ At(child, "unborn")
    /\ 2 * Cardinality(Descriptors(p)) <= MaxOpen
    /\ opened' = [opened EXCEPT ![child] = opened[p]]
    /\ last_fd' = [last_fd EXCEPT ![child] = last_fd[p]]
    /\ shared' = shared \cup {opened[p][fd].file : fd \in Descriptors(p)}
    /\ call' = [call EXCEPT ![child] = Idle]
    /\ UNCHANGED <<files, writes, raced, panic>>

\* lseek moves the position of the file and saves it to the descriptor.  From
\* the end it counts backwards.  No program asks for a place before the start.
Lseek(p, fd, offset, whence) ==
    LET f == opened[p][fd].file
        sought == CASE whence = "begin" -> offset
                    [] whence = "current" -> files[f].position + offset
                    [] whence = "end" -> files[f].size - offset IN
    /\ User(p)
    /\ fd \in Descriptors(p)
    /\ ~Used(p, f)
    /\ sought \in 0 .. MaxPosition
    /\ files' = [files EXCEPT ![f].position = sought]
    /\ opened' = [opened EXCEPT ![p][fd].position = sought]
    /\ UNCHANGED <<last_fd, shared, call, writes, raced, panic>>

\* Process p opens, seeks, reads or writes a file in the middle of a call of
\* another process on it.
Meet(p) ==
    /\ User(p)
    /\ \E f \in File : Used(p, f)
    /\ raced' = TRUE
    /\ UNCHANGED <<files, descriptors, call, writes, panic>>

-----------------------------------------------------------------------------
(* Reading and writing *)

\* The data of a file: the first cells of its pages.
Content(f) ==
    [i \in 1 .. files[f].size |->
        files[f].pages[((i - 1) \div PageSize) + 1][((i - 1) % PageSize) + 1]]

\* What the file holds for its readers: until a call of write returns, what it
\* held before.
Stored(f) ==
    LET writers == {p \in Process : call[p].op = "write" /\ call[p].file = f}
    IN IF writers = {} THEN Content(f) ELSE call[CHOOSE p \in writers : TRUE].before

\* Mutant: the file goes on where the last call on it ended.
NotSought(d) == files[d.file].position

\* entry->seek of read and write
Sought(d) == d.position

Starts(p, fd, op, n, data) ==
    LET d == opened[p][fd] IN
    /\ User(p)
    /\ fd \in Descriptors(p)
    /\ ~Used(p, d.file)
    /\ files' = [files EXCEPT ![d.file].position = Sought(d)]
    /\ call' = [call EXCEPT ![p] = [Idle EXCEPT
                    !.op = op, !.at = "move", !.file = d.file, !.fd = fd, !.left = n,
                    !.data = data, !.start = d.position, !.before = Stored(d.file)]]
    /\ UNCHANGED <<descriptors, raced, panic>>

Read(p, fd, n) ==
    /\ Starts(p, fd, "read", n, << >>)
    /\ UNCHANGED writes

Block(k, n) == [i \in 1 .. n |-> <<k, i>>]

Write(p, fd, n) ==
    /\ writes < MaxWrites
    /\ Starts(p, fd, "write", n, Block(writes + 1, n))
    /\ writes' = writes + 1

\* Mutant: a file that ends with a page needs no other.
LacksPageLate(pages, index) == index > Len(pages)

\* A file without the page of this index gets one more page.
LacksPage(pages, index) == index >= Len(pages)

\* Mutant: every page is read and written from its start.
StartOfPage(position) == 0

InPage(position) == position % PageSize

\* Mutant: a new page is one cell short.
BlankShort == [i \in 1 .. PageSize - 1 |-> Unwritten]

Blank == [i \in 1 .. PageSize |-> Unwritten]

SizeReached(position, left) == position

\* One page of ram_file::write.  One more page may not be enough for a position
\* far behind the end.
WritePage(p) ==
    LET c == call[p]
        file == files[c.file]
        index == file.position \div PageSize
        offset == InPage(file.position)
        pages == IF LacksPage(file.pages, index) THEN Append(file.pages, Blank)
                 ELSE file.pages
        n == Least(c.left, PageSize - offset)
        position == file.position + n IN
    /\ At(p, "move") /\ c.op = "write"
    /\ \/ /\ index >= Len(pages)
          /\ Stop(OutOfBounds)
       \/ /\ index < Len(pages)
          /\ files' = [files EXCEPT ![c.file] =
                [pages |-> [pages EXCEPT ![index + 1] =
                    [i \in 1 .. PageSize |->
                        IF i \in offset + 1 .. offset + n
                        THEN c.data[c.moved + i - offset] ELSE @[i]]],
                 position |-> position,
                 size |-> IF n = c.left /\ SizeReached(position, c.left) > file.size
                          THEN SizeReached(position, c.left) ELSE file.size]]
          /\ call' = [call EXCEPT ![p].left = c.left - n, ![p].moved = c.moved + n,
                                  ![p].at = IF n = c.left THEN "tell" ELSE "move"]
          /\ UNCHANGED <<descriptors, writes, raced, panic>>

\* One page of ram_file::read.  Behind the end of the file the number of cells
\* it has left is negative, and the type is unsigned.  Only the first page may
\* be a new one; after it there is a page wherever the file goes on
\* (PagesCoverSize).
ReadPage(p) ==
    LET c == call[p]
        file == files[c.file]
        index == file.position \div PageSize
        offset == InPage(file.position)
        pages == IF LacksPage(file.pages, index) THEN Append(file.pages, Blank)
                 ELSE file.pages
        n == Least(Least(c.left, PageSize - offset), file.size - file.position) IN
    /\ At(p, "move") /\ c.op = "read"
    /\ \/ /\ index >= Len(pages) \/ file.position > file.size
          /\ Stop(OutOfBounds)
       \/ /\ index < Len(pages) /\ file.position <= file.size
          /\ files' = [files EXCEPT ![c.file].pages = pages,
                                    ![c.file].position = @ + n]
          /\ call' = [call EXCEPT
                ![p].data = c.data \o SubSeq(pages[index + 1], offset + 1, offset + n),
                ![p].left = c.left - n, ![p].moved = c.moved + n,
                ![p].at = IF n = c.left \/ file.position + n = file.size
                          THEN "tell" ELSE "move"]
          /\ UNCHANGED <<descriptors, writes, raced, panic>>

\* entry->tell saves the position of the file to the descriptor.
Tell(p) ==
    LET c == call[p] IN
    /\ At(p, "tell")
    /\ opened' = [opened EXCEPT ![p][c.fd].position = files[c.file].position]
    /\ Return(p)
    /\ UNCHANGED <<files, last_fd, shared, writes, raced, panic>>

-----------------------------------------------------------------------------

\* panic() clears interrupts and halts.
Halted == ~Running /\ UNCHANGED vars

Whence == {"begin", "current", "end"}

Next ==
    \/ Halted
    \/ \E p \in Process :
          \/ \E f \in File : Open(p, f)
          \/ \E fd \in Fd :
                \/ Close(p, fd)
                \/ Dup(p, fd)
                \/ \E new \in Fd : Dup2(p, fd, new)
                \/ \E offset \in Offsets, whence \in Whence : Lseek(p, fd, offset, whence)
                \/ \E n \in ReadSizes : Read(p, fd, n)
                \/ \E n \in WriteSizes : Write(p, fd, n)
          \/ ReadPage(p) \/ WritePage(p) \/ Tell(p) \/ Meet(p)
          \/ \E child \in Process : Fork(p, child)

Spec == Init /\ [][Next]_vars

-----------------------------------------------------------------------------
(* Safety *)

Cell == (0 .. MaxWrites) \X Nat
Calls == [op : {"none", "read", "write"}, at : {"unborn", "user", "move", "tell"},
          file : File \cup {NoFile}, fd : Fd, data : Seq(Cell),
          left : Nat, moved : Nat, start : Nat, before : Seq(Cell)]

\* Type correctness.
TypeOK ==
    /\ \A f \in File :
          /\ files[f].pages \in Seq([1 .. PageSize -> Cell])
          /\ files[f].position \in Nat
          /\ files[f].size \in Nat
    /\ \A p \in Process : \A fd \in Descriptors(p) :
          fd \in Fd /\ opened[p][fd] \in [file : File, position : Nat]
    /\ last_fd \in [Process -> 0 .. MaxFd + 1]
    /\ call \in [Process -> Calls]
    /\ writes \in 0 .. MaxWrites
    /\ shared \subseteq File
    /\ raced \in BOOLEAN

\* Every cell of a file is on one of its pages, after any sequence of writes,
\* seeks and reads.
PagesCoverSize ==
    \A f \in File : files[f].size <= PageSize * Len(files[f].pages)

\* The pages of a file cover its size, and memory outside them is touched only by
\* a call on a descriptor that stands behind the end of the file: at the end and
\* before it, read and write find or make every page they need.
BoundsHold ==
    /\ PagesCoverSize
    /\ panic = OutOfBounds =>
        \E p \in Process : call[p].at = "move" /\ call[p].start > Len(call[p].before)

\* A call of read that has ended returns what the file holds from the position
\* of the descriptor on, across pages and up to the end of the file; and one of
\* write has put all of its data there and changed nothing else.
DataMoved ==
    ~raced =>
        \A p \in Process :
            LET c == call[p] IN
            c.at = "tell" =>
                IF c.op = "read"
                THEN /\ c.data = SubSeq(c.before, c.start + 1, c.start + Len(c.data))
                     /\ c.left > 0 => c.start + Len(c.data) = Len(c.before)
                ELSE \A i \in 1 .. files[c.file].size :
                        Content(c.file)[i] =
                            IF i \in c.start + 1 .. c.start + Len(c.data)
                            THEN c.data[i - c.start]
                            ELSE IF i \in DOMAIN c.before THEN c.before[i] ELSE Unwritten

\* A file that never had two descriptors at a time has the position of the one
\* it has, between calls: there lseek from the current position is right.
SoleDescriptor ==
    \A p \in Process : \A fd \in Descriptors(p) :
        LET d == opened[p][fd] IN
        d.file \notin shared /\ call[p].at \notin {"move", "tell"}
            => files[d.file].position = d.position

\* While no two calls on a file overlap, its descriptors behave as if each had
\* a position of its own.
OF == INSTANCE OpenFiles WITH
    Blocks <- {Block(k, n) : k \in 1 .. MaxWrites, n \in WriteSizes},
    Positions <- 0 .. MaxPosition,
    content <- [f \in File |-> Stored(f)]

PositionsApart == OF!Spec
=============================================================================
