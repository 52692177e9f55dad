------------------------------- MODULE Liballoc -------------------------------
(***************************************************************************)
(* liballoc.c, the allocator behind malloc in the kernel and, compiled a    *)
(* second time, in programs: what malloc and free do to its lists.         *)
(*                                                                         *)
(* A heap has majors, runs of whole pages, and each major has minors, the  *)
(* blocks in use, in the order of their addresses.  best is l_bestBet.     *)
(* Sizes and addresses are in bytes.                                       *)
(***************************************************************************)
EXTENDS Integers, Sequences, FiniteSets

LOCAL INSTANCE SequencesExt

CONSTANTS
    PageSize,   \* l_pageSize
    PageCount,  \* l_pageCount
    MajorSize,  \* sizeof(struct liballoc_major)
    MinorSize,  \* sizeof(struct liballoc_minor)
    Alignment, AlignInfo

ASSUME SizesOfHeap ==
    /\ PageSize \in Nat \ {0} /\ PageCount \in Nat \ {0}
    /\ MajorSize \in Nat \ {0} /\ MinorSize \in Nat \ {0}
    /\ Alignment \in Nat \ {0, 1} /\ AlignInfo \in Nat \ {0}

Null == 0
EmptyHeap == [majors |-> << >>, best |-> Null, allocated |-> 0, inuse |-> 0]

\* What malloc adds to a request, so that what it returns can be aligned.
Padded(req) == req + Alignment + AlignInfo

\* What a block takes: its header and its bytes.
Need(size) == MinorSize + size

\* ALIGN: the next aligned address that leaves room for the distance before it.
Aligned(at) ==
    LET from == at + AlignInfo
    IN from + ((Alignment - (from % Alignment)) % Alignment)

\* The address the caller of malloc gets, for the block at an address.
Pointer(at) == Aligned(at + MinorSize)

Bytes(major) == major.pages * PageSize
Room(major) == Bytes(major) - major.usage
Index(h, at) == CHOOSE i \in DOMAIN h.majors : h.majors[i].at = at

-----------------------------------------------------------------------------
(* malloc *)

\* allocate_new_page: how many pages it asks for.
PagesFor(size) ==
    LET all == size + MajorSize + MinorSize
        count == IF all % PageSize = 0 THEN all \div PageSize ELSE all \div PageSize + 1
    IN IF count < PageCount THEN PageCount ELSE count

NewMajor(at, size) ==
    [at |-> at, pages |-> PagesFor(size), usage |-> MajorSize, minors |-> << >>]

\* Where the free space before a block, and behind the last one, starts and ends.
GapStart(major, i) ==
    IF i = 1 THEN major.at + MajorSize
    ELSE major.minors[i - 1].at + Need(major.minors[i - 1].size)

GapEnd(major, i) ==
    IF i \in DOMAIN major.minors THEN major.minors[i].at ELSE major.at + Bytes(major)

\* Mutant: the space behind the last block is taken to reach one header further.
FitsNearly(major, i, size) ==
    GapEnd(major, i) - GapStart(major, i) + MinorSize >= Need(size)

\* Cases 3, 4.1 and 4.2: the space is large enough.
FitsAt(major, i, size) == GapEnd(major, i) - GapStart(major, i) >= Need(size)

Gaps(major, size) == {i \in 1 .. Len(major.minors) + 1 : FitsAt(major, i, size)}

\* Case 1 passes a major by its room; case 5 when no space of it is enough.
Fits(major, size) == Room(major) >= Need(size) /\ Gaps(major, size) # {}

\* Cases 2 to 4: a block in the first space that is large enough.
Placed(major, size, req) ==
    LET i == CHOOSE g \in Gaps(major, size) : \A k \in Gaps(major, size) : g <= k
    IN [major EXCEPT
          !.usage = @ + Need(size),
          !.minors = InsertAt(@, i, [at |-> GapStart(major, i), size |-> size, req |-> req])]

BestRoom(h) == IF h.best = Null THEN 0 ELSE Room(h.majors[Index(h, h.best)])

\* The majors in the order in which malloc looks at them: from the best bet to
\* the last, and then from the first; or at once from the first.
Order(h, size) ==
    LET all == [i \in DOMAIN h.majors |-> i] IN
    IF BestRoom(h) > Need(size)
    THEN SubSeq(all, Index(h, h.best), Len(all)) \o all ELSE all

\* The best bet after malloc has looked at these majors: the first of those with
\* most room, if that is more than the best bet had.
BestOf(h, seen) ==
    LET most == {k \in DOMAIN seen :
                    \A j \in DOMAIN seen : Room(h.majors[seen[j]]) <= Room(h.majors[seen[k]])}
        first == CHOOSE k \in most : \A j \in most : k <= j
    IN IF seen # << >> /\ Room(h.majors[seen[first]]) > BestRoom(h)
       THEN h.majors[seen[first]].at ELSE h.best

\* Whether malloc must ask for pages.
Grows(h, req) == \A i \in DOMAIN h.majors : ~Fits(h.majors[i], Padded(req))

\* malloc without new pages.  How many majors it looked at before the one with
\* the block tells which the best bet is.
MallocWithin(h, req) ==
    LET size == Padded(req)
        order == Order(h, size)
        hits == {k \in DOMAIN order : Fits(h.majors[order[k]], size)}
        hit == CHOOSE k \in hits : \A j \in hits : k <= j
        i == order[hit]
    IN [h EXCEPT !.majors[i] = Placed(@, size, req),
                 !.best = BestOf(h, SubSeq(order, 1, hit)),
                 !.inuse = @ + size]

\* malloc with a new major at an address.  A major added for lack of space and
\* not of room (case 5), and the very first, are looked at as the others are.
MallocGrown(h, req, at) ==
    LET size == Padded(req)
        new == NewMajor(at, size)
        n == Len(h.majors)
        seen == [h EXCEPT !.best = BestOf(h, Order(h, size))]
        looked == n = 0 \/ Room(h.majors[n]) >= Need(size)
    IN [majors |-> Append(h.majors, Placed(new, size, req)),
        best |-> IF looked /\ Room(new) > BestRoom(seen) THEN at ELSE seen.best,
        allocated |-> h.allocated + Bytes(new),
        inuse |-> h.inuse + size]

-----------------------------------------------------------------------------
(* free and realloc *)

MajorOf(h, ptr) ==
    CHOOSE i \in DOMAIN h.majors :
        \E k \in DOMAIN h.majors[i].minors : Pointer(h.majors[i].minors[k].at) = ptr

MinorOf(h, ptr) ==
    LET minors == h.majors[MajorOf(h, ptr)].minors
    IN CHOOSE k \in DOMAIN minors : Pointer(minors[k].at) = ptr

Requested(h, ptr) == h.majors[MajorOf(h, ptr)].minors[MinorOf(h, ptr)].req

\* Mutant: the best bet stays what it was.
BetKept(h, major) == h.best

\* A major that is given back is no longer the best bet.
BetWithout(h, major) == IF h.best = major.at THEN Null ELSE h.best

\* free.  A major without blocks leaves the list; the caller gives its pages
\* back.
Free(h, ptr) ==
    LET i == MajorOf(h, ptr)
        k == MinorOf(h, ptr)
        major == h.majors[i]
        less == [major EXCEPT !.minors = RemoveAt(@, k),
                              !.usage = @ - Need(major.minors[k].size)]
        kept == [h EXCEPT !.majors[i] = less, !.inuse = @ - major.minors[k].size]
    IN IF less.minors = << >>
       THEN [kept EXCEPT !.majors = RemoveAt(@, i), !.best = BetWithout(h, major),
                         !.allocated = @ - Bytes(major)]
       ELSE [kept EXCEPT !.best = IF @ # Null /\ Room(less) > BestRoom(kept)
                                  THEN major.at ELSE @]

\* The major that free gives back, if any.
Returned(h, ptr) ==
    {h.majors[i] : i \in {j \in {MajorOf(h, ptr)} : Len(h.majors[j].minors) = 1}}

\* realloc to no more than was asked for: the block stays as it is.
Shrunk(h, ptr, req) ==
    [h EXCEPT !.majors[MajorOf(h, ptr)].minors[MinorOf(h, ptr)].req = req]

-----------------------------------------------------------------------------
(* What the lists of a heap must be *)

Pointers(h) ==
    UNION {{Pointer(h.majors[i].minors[k].at) : k \in DOMAIN h.majors[i].minors} :
              i \in DOMAIN h.majors}

\* The blocks of a major are in the order of their addresses, one behind the
\* other and behind the header, and all of it.
InOrder(major) ==
    /\ \A i \in 1 .. Len(major.minors) + 1 : GapStart(major, i) <= GapEnd(major, i)
    /\ \A i \in DOMAIN major.minors :
          LET minor == major.minors[i] IN
          /\ Pointer(minor.at) % Alignment = 0
          /\ Pointer(minor.at) - AlignInfo >= minor.at + MinorSize
          /\ Pointer(minor.at) + minor.req <= minor.at + Need(minor.size)

Sum(s) ==
    LET sum[n \in 0 .. Len(s)] == IF n = 0 THEN 0 ELSE sum[n - 1] + s[n]
    IN sum[Len(s)]

InUse(major) == Sum([i \in DOMAIN major.minors |-> major.minors[i].size])

\* The counts of the majors and of the heap agree with the lists.
Counted(h) ==
    /\ \A i \in DOMAIN h.majors :
          LET major == h.majors[i] IN
          major.usage = MajorSize + InUse(major) + MinorSize * Len(major.minors)
    /\ h.allocated = Sum([i \in DOMAIN h.majors |-> Bytes(h.majors[i])])
    /\ h.inuse = Sum([i \in DOMAIN h.majors |-> InUse(h.majors[i])])

\* Every major has blocks, and the best bet is one of them.
Linked(h) ==
    /\ \A i \in DOMAIN h.majors : h.majors[i].minors # << >>
    /\ h.best # Null => \E i \in DOMAIN h.majors : h.majors[i].at = h.best
    /\ \A i, j \in DOMAIN h.majors :
          i # j => h.majors[i].at + Bytes(h.majors[i]) <= h.majors[j].at
                   \/ h.majors[j].at + Bytes(h.majors[j]) <= h.majors[i].at
=============================================================================
