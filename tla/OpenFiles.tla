------------------------------ MODULE OpenFiles ------------------------------
(***************************************************************************)
(* What descriptors promise to a program: each has a position of its own   *)
(* in a file, at which it reads what was last written there and writes     *)
(* what the others will read.                                              *)
(***************************************************************************)
EXTENDS Naturals, Sequences

CONSTANTS
    Process, File, Fd,
    Blocks,      \* what a program may write in one call
    ReadSizes,   \* the sizes of the buffers it reads to
    Positions,   \* where lseek may leave a descriptor
    Unwritten    \* the data of a page that nobody wrote

VARIABLES
    content,  \* the data of each file
    opened    \* for each process, its descriptors: a file and a position

Descriptors(p) == DOMAIN opened[p]

Init ==
    /\ content = [f \in File |-> << >>]
    /\ opened = [p \in Process |-> << >>]

\* Descriptor fd of process p is d from now on, in addition to the others.
Set(p, fd, d) ==
    opened' = [opened EXCEPT ![p] =
                 [x \in DOMAIN @ \cup {fd} |-> IF x = fd THEN d ELSE @[x]]]

Open(p, fd, f) ==
    /\ fd \notin Descriptors(p)
    /\ Set(p, fd, [file |-> f, position |-> 0])
    /\ UNCHANGED content

Close(p, fd) ==
    /\ opened' = [opened EXCEPT ![p] = [x \in DOMAIN @ \ {fd} |-> @[x]]]
    /\ UNCHANGED content

Copy(p, fd, new) ==
    /\ Set(p, new, opened[p][fd])
    /\ UNCHANGED content

Move(p, fd, position) ==
    /\ opened' = [opened EXCEPT ![p][fd].position = position]
    /\ UNCHANGED content

\* How many of n cells there are at a position.
Available(data, position, n) ==
    IF position + n > Len(data) THEN Len(data) - position ELSE n

Read(p, fd, n) ==
    LET d == opened[p][fd] IN
    /\ d.position <= Len(content[d.file])
    /\ Move(p, fd, d.position + Available(content[d.file], d.position, n))

Written(data, position, block) ==
    LET end == position + Len(block)
        length == IF end > Len(data) THEN end ELSE Len(data) IN
    [i \in 1 .. length |->
        IF i \in position + 1 .. end THEN block[i - position]
        ELSE IF i \in DOMAIN data THEN data[i] ELSE Unwritten]

Write(p, fd, block) ==
    LET d == opened[p][fd] IN
    /\ opened' = [opened EXCEPT ![p][fd].position = @ + Len(block)]
    /\ content' = [content EXCEPT ![d.file] = Written(@, d.position, block)]

\* A new process has the descriptors of its parent, with their positions.
Fork(p, child) ==
    /\ opened[child] = << >>
    /\ opened' = [opened EXCEPT ![child] = opened[p]]
    /\ UNCHANGED content

Next ==
    \E p \in Process :
        \/ \E fd \in Fd, f \in File : Open(p, fd, f)
        \/ \E fd \in Descriptors(p) :
              \/ Close(p, fd)
              \/ \E new \in Fd : Copy(p, fd, new)
              \/ \E position \in Positions : Move(p, fd, position)
              \/ \E n \in ReadSizes : Read(p, fd, n)
              \/ \E block \in Blocks : Write(p, fd, block)
        \/ \E child \in Process : Fork(p, child)

Spec == Init /\ [][Next]_<<content, opened>>
=============================================================================
