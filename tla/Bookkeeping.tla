----------------------------- MODULE Bookkeeping -----------------------------
(***************************************************************************)
(* How the page allocator of the Knee kernel keeps its own books            *)
(* (allocator.cpp): the map of allocations and the map of free virtual      *)
(* space, whose nodes are on pages of the allocator itself                  *)
(* (linked_page_allocator.h), and the boot that takes pages before there    *)
(* are any books.  Frames and the pages of programs are in AddressSpaces.   *)
(*                                                                         *)
(* A call is a stack of things still to do; each is a step, and another     *)
(* process can come between two.  Nothing in allocator.cpp keeps processes  *)
(* apart: when one comes to a map or a missing page table while another is  *)
(* in the middle of a step on the same, "raced" may be set, and must be     *)
(* while the other makes a node for the books; there the model ends.        *)
(***************************************************************************)
EXTENDS Integers, Sequences, FiniteSets

CONSTANTS
    Process,
    First,        \* the process that boots
    Ranges,       \* the kernel's virtual space: [begin, size]
    TableSize,    \* pages of a page table
    Capacity,     \* entries of a node
    VectorPages,  \* pages of the bit set of frames
    KernelEnds,   \* where the image of the kernel may end
    BlockSizes    \* what is allocated

ASSUME FirstAssumption == First \in Process
ASSUME RangesAssumption ==
    /\ Ranges \subseteq [begin : Nat, size : Nat \ {0}]
    /\ \E r \in Ranges : r.begin = 0 /\ \A k \in KernelEnds : k <= r.size
ASSUME SizesAssumption ==
    /\ TableSize \in Nat \ {0, 1} /\ Capacity \in Nat \ {0, 1}
    /\ VectorPages \in Nat \ {0}
    /\ KernelEnds \subseteq Nat \ {0} /\ BlockSizes \subseteq Nat \ {0}

VARIABLES
    tables,         \* the page tables that are present
    mapped,         \* the pages that are present
    boot_tables,    \* the tables made before the books were open
    lower_border,   \* the first page that boot has not taken
    virtual_space,  \* the ranges to allocate from
    allocations,    \* the entries of the map: pages and page tables
    nodes,          \* of each map, how many nodes its allocator has
    saved,          \* the entry kept for later, if save_flag
    lock,           \* _lock of the allocator of allocations: who holds it
    allocator_initialized,
    work,           \* the stack of each process
    blocks,         \* what is allocated, for the heap to give back
    opened,         \* a node was put on the first page of a new table
    raced,          \* two processes have met on one structure
    panic           \* what stopped the kernel

paging == <<tables, mapped, boot_tables>>
early == <<lower_border, allocator_initialized>>
books == <<virtual_space, allocations, nodes, saved, lock>>
vars == <<paging, early, books, work, blocks, opened, raced, panic>>

None == "none"
NoPanic == "none"
NoSpace == "Can't alllocate enough space"
NotFlushed == "Not flushed"
FailedToSave == "Failed to save"
AlreadyMapped == "Page already mapped"
UnknownPage == "Unknown page"
UnallocatedPage == "Unallocated page"
Unconstructed == "free_pages is used before it is constructed"

PageEntry(v) == <<"page", v>>
TableEntry(t) == <<"table", t>>
TableOf(v) == v \div TableSize

\* What a stack is made of.
Item(do, page) == [do |-> do, page |-> page, entry |-> PageEntry(page), count |-> 0, done |-> 0]
Add(entry) == [Item("add", 0) EXCEPT !.entry = entry]
Rest(entry) == [Item("rest", 0) EXCEPT !.entry = entry]
Emplace(entry) == [Item("emplace", 0) EXCEPT !.entry = entry]
Early(count) == [Item("early", 0) EXCEPT !.count = count]
Range(begin, size) == [Item("range", begin) EXCEPT !.count = size]
Space(n) == [Item("space", 0) EXCEPT !.count = n]
Node == [Item("grow", 0) EXCEPT !.count = 1]
Block(origin, n) == [Item("block", origin) EXCEPT !.count = n]

\* allocator_init: the bit set, the ranges and the marks of what is in use.
BootWork ==
    LET order == CHOOSE s \in [1 .. Cardinality(Ranges) -> Ranges] : \A i, j \in DOMAIN s : i # j => s[i] # s[j] IN
    <<Early(VectorPages)>> \o [i \in DOMAIN order |-> Range(order[i].begin, order[i].size)]
    \o <<Item("mark", 0)>>

Init ==
    /\ \E k \in KernelEnds :
          /\ mapped = 0 .. k - 1
          /\ tables = {TableOf(v) : v \in 0 .. k - 1}
          /\ lower_border = k
    /\ boot_tables = tables
    /\ virtual_space = {}
    /\ allocations = {}
    /\ nodes = [space |-> 0, allocations |-> 0]
    /\ saved = {}
    /\ lock = None
    /\ allocator_initialized = FALSE
    /\ work = [p \in Process |-> IF p = First THEN BootWork ELSE << >>]
    /\ blocks = {}
    /\ opened = FALSE
    /\ raced = FALSE
    /\ panic = NoPanic

Running == panic = NoPanic /\ ~raced

\* Process p is about to do an item of a kind; and what it does next.
Doing(p, do) == Running /\ work[p] # << >> /\ Head(work[p]).do = do
Then(p, items) == work' = [work EXCEPT ![p] = items \o Tail(@)]

-----------------------------------------------------------------------------
(* Before the books are open *)

\* allocate_single_page: the next page, or the one after it when the next becomes
\* the page table for it.
SinglePage == IF TableOf(lower_border) \in tables THEN lower_border ELSE lower_border + 1

Follows(item, v) == item.done = 0 \/ item.page + item.done = v

\* allocate_pages before allocator_init takes single pages until enough of them
\* are in a row.  It would give back those that are not, but the set of pages to
\* give out again is constructed after the only request for more than one: what
\* its zeroes do then is undefined, and the model stops.
EarlyPage(p) ==
    LET item == Head(work[p])
        v == SinglePage
        more == [item EXCEPT !.page = IF item.done = 0 THEN v ELSE @, !.done = @ + 1] IN
    /\ Doing(p, "early")
    /\ \/ /\ item.done = item.count
          /\ Then(p, << >>)
          /\ UNCHANGED <<paging, early, panic>>
       \/ /\ item.done < item.count
          /\ lower_border' = v + 1
          /\ mapped' = mapped \cup {v}
          /\ tables' = tables \cup {TableOf(lower_border)}
          /\ boot_tables' = tables'
          /\ Then(p, <<more>>)
          /\ panic' = IF Follows(item, v) THEN panic ELSE Unconstructed
          /\ UNCHANGED allocator_initialized
    /\ UNCHANGED <<books, blocks, opened, raced>>

\* virtual_space.emplace, with a new node where there is no room.
EmplaceRange(p) ==
    LET item == Head(work[p])
        full == Cardinality(virtual_space) = nodes.space * Capacity IN
    /\ Doing(p, "range")
    /\ IF full
       THEN /\ Then(p, <<Early(1), item>>)
            /\ nodes' = [nodes EXCEPT !.space = @ + 1]
            /\ UNCHANGED virtual_space
       ELSE /\ virtual_space' = virtual_space \cup {[begin |-> item.page, size |-> item.count]}
            /\ Then(p, << >>)
            /\ UNCHANGED nodes
    /\ UNCHANGED <<paging, early, allocations, saved, lock, blocks, opened, raced, panic>>

\* The loops of allocator_init, the second of which goes on while marking takes
\* new pages.
Mark(p) ==
    LET v == Head(work[p]).page IN
    /\ Doing(p, "mark")
    /\ IF v = lower_border
       THEN /\ allocator_initialized' = TRUE
            /\ Then(p, << >>)
       ELSE /\ Then(p, <<Add(PageEntry(v)), Item("carve", v), Item("mark", v + 1)>>)
            /\ UNCHANGED allocator_initialized
    /\ UNCHANGED <<paging, lower_border, books, blocks, opened, raced, panic>>

\* The rest of a range behind a page, which may be empty.
Right(r, v) == Range(v + 1, r.begin + r.size - v - 1)

\* deallocate_virtual_space.  A page at the end of a range is one of the middle
\* here, since the end is compared as the last byte.
Carve(p) ==
    LET v == Head(work[p]).page IN
    /\ Doing(p, "carve")
    /\ \E r \in virtual_space :
          /\ v \in r.begin .. r.begin + r.size - 1
          /\ virtual_space' = virtual_space \ {r}
          /\ Then(p, IF r.begin = v THEN <<Right(r, v)>>
                     ELSE <<Range(r.begin, v - r.begin), Right(r, v)>>)
          /\ UNCHANGED <<paging, early, allocations, nodes, saved, lock, blocks, opened, raced, panic>>

-----------------------------------------------------------------------------
(* Virtual space and page tables *)

Fitting(n) == {r \in virtual_space : r.size >= n}
BestFit(n) == {r \in Fitting(n) : \A s \in Fitting(n) : r.size <= s.size}

\* Mutant: what is left of a range starts where the range did.
LeftFromBegin(r, n) == {[begin |-> r.begin, size |-> r.size - n]}

Left(r, n) ==
    IF r.size > n THEN {[begin |-> r.begin + n, size |-> r.size - n]} ELSE {}

\* allocate_virtual_space takes the start of the range that fits best.
Taken(n, r) == (virtual_space \ {r}) \cup Left(r, n)

\* A call of allocate_pages.
AllocatePages(p, n) ==
    /\ Running
    /\ allocator_initialized /\ work[p] = << >>
    /\ work' = [work EXCEPT ![p] = <<Space(n)>>]
    /\ UNCHANGED <<paging, early, books, blocks, opened, raced, panic>>

\* allocate_pages takes the addresses, and then maps each page of them.
TakeSpace(p) ==
    LET item == Head(work[p])
        n == item.count IN
    /\ \E do \in {"space", "grow"} : Doing(p, do)
    /\ allocator_initialized
    /\ \E r \in BestFit(n) :
          /\ virtual_space' = Taken(n, r)
          /\ Then(p, [i \in 1 .. n |-> Item("map", r.begin + i - 1)] \o
                     (IF item.do = "space" THEN <<Block(r.begin, n)>> ELSE << >>))
    /\ UNCHANGED <<paging, early, allocations, nodes, saved, lock, blocks, opened, raced, panic>>

\* The block belongs to the caller.
Allocated(p) ==
    LET item == Head(work[p]) IN
    /\ Doing(p, "block")
    /\ blocks' = blocks \cup {[begin |-> item.page, size |-> item.count]}
    /\ Then(p, << >>)
    /\ UNCHANGED <<paging, early, books, opened, raced, panic>>

\* memory_map: a page table first, when it is missing, which is an allocation
\* of its own.
Map(p) ==
    LET v == Head(work[p]).page
        t == TableOf(v) IN
    /\ Doing(p, "map")
    /\ \/ /\ t \in tables /\ v \notin mapped
          /\ mapped' = mapped \cup {v}
          /\ Then(p, <<Add(PageEntry(v))>>)
          /\ UNCHANGED <<tables, boot_tables, early, books, blocks, opened, raced, panic>>
       \/ /\ t \notin tables
          /\ tables' = tables \cup {t}
          /\ Then(p, <<Add(TableEntry(t)), Item("map", v)>>)
          /\ opened' = (opened \/ lock = p)
          /\ UNCHANGED <<mapped, boot_tables, early, books, blocks, raced, panic>>

-----------------------------------------------------------------------------
(* The map of allocations *)

\* Another process is in add_allocation with more to do, or makes a node.
Amidst(p) ==
    \E q \in Process \ {p} :
        \E i \in DOMAIN work[q] : work[q][i].do \in {"rest", "grow", "grown", "emplace"}

Books == {"add", "rest", "unmap", "grown", "emplace"}

\* Two items are accesses to one structure, which takes several statements each:
\* a search of virtual_space and the changes after it, a look at save_flag and the
\* lock and a change of the books, the making of a page table that is missing.
Overlap(one, other) ==
    \/ {one.do, other.do} \subseteq {"space", "grow"}
    \/ {one.do, other.do} \subseteq Books
    \/ /\ {one.do, other.do} = {"map"}
       /\ TableOf(one.page) = TableOf(other.page)
       /\ TableOf(one.page) \notin tables

\* Process p comes to the map of allocations while its books are being made, or to
\* anything that another process was preempted in the middle of.
Meet(p) ==
    /\ Running /\ work[p] # << >>
    /\ \/ Amidst(p) /\ \E do \in {"add", "rest", "unmap"} : Doing(p, do)
       \/ \E q \in Process \ {p} : work[q] # << >> /\ Overlap(Head(work[p]), Head(work[q]))
    /\ raced' = TRUE
    /\ UNCHANGED <<paging, early, books, work, blocks, opened, panic>>

\* add_allocation adds what was kept for later first.
Flush(p) ==
    LET entry == Head(work[p]).entry IN
    /\ Doing(p, "add") /\ ~Amidst(p)
    /\ saved # {}
    /\ Then(p, <<Rest(CHOOSE e \in saved : TRUE), Rest(entry)>>)
    /\ saved' = {}
    /\ UNCHANGED <<paging, early, virtual_space, allocations, nodes, lock, blocks, opened, raced, panic>>

Locked == lock # None

\* Mutant: a node is full with its first entry.
FullAtOnce == Cardinality(allocations) = nodes.allocations

Full == Cardinality(allocations) = nodes.allocations * Capacity

\* The rest of add_allocation: the entry is kept while the allocator of the map
\* is locked, and goes into the map otherwise; linked_paged_allocator::allocate
\* locks itself to get a page for a new node.
AddEntry(p) ==
    LET item == Head(work[p]) IN
    /\ ~Amidst(p)
    /\ \E do \in {"add", "rest"} : Doing(p, do)
    /\ saved = {}
    /\ \/ /\ Locked
          /\ saved' = {item.entry}
          /\ Then(p, << >>)
          /\ UNCHANGED <<paging, early, virtual_space, allocations, nodes, lock, blocks, opened, raced, panic>>
       \/ /\ ~Locked /\ ~Full
          /\ allocations' = allocations \cup {item.entry}
          /\ Then(p, << >>)
          /\ UNCHANGED <<paging, early, virtual_space, nodes, saved, lock, blocks, opened, raced, panic>>
       \/ /\ ~Locked /\ Full
          /\ lock' = p
          /\ Then(p, <<Node, Item("grown", 0), Emplace(item.entry)>>)
          /\ UNCHANGED <<paging, early, virtual_space, allocations, nodes, saved, blocks, opened, raced, panic>>

\* The node of the map, before the books are open.
GrowEarly(p) ==
    /\ Doing(p, "grow")
    /\ ~allocator_initialized
    /\ Then(p, <<Early(1)>>)
    /\ UNCHANGED <<paging, early, books, blocks, opened, raced, panic>>

Grown(p) ==
    /\ Doing(p, "grown")
    /\ lock' = None
    /\ nodes' = [nodes EXCEPT !.allocations = @ + 1]
    /\ Then(p, << >>)
    /\ UNCHANGED <<paging, early, virtual_space, allocations, saved, blocks, opened, raced, panic>>

\* The entry takes the first place of the new node.
EmplaceEntry(p) ==
    /\ Doing(p, "emplace")
    /\ allocations' = allocations \cup {Head(work[p]).entry}
    /\ Then(p, << >>)
    /\ UNCHANGED <<paging, early, virtual_space, nodes, saved, lock, blocks, opened, raced, panic>>

\* A call of deallocate_pages.  The addresses are not given back.
DeallocatePages(p, block) ==
    /\ Running
    /\ allocator_initialized /\ work[p] = << >>
    /\ blocks' = blocks \ {block}
    /\ work' = [work EXCEPT ![p] = [i \in 1 .. block.size |-> Item("unmap", block.begin + i - 1)]]
    /\ UNCHANGED <<paging, early, books, opened, raced, panic>>

\* deallocate_single_page.
Unmap(p) ==
    LET v == Head(work[p]).page IN
    /\ Doing(p, "unmap") /\ ~Amidst(p)
    /\ PageEntry(v) \in allocations
    /\ allocations' = allocations \ {PageEntry(v)}
    /\ mapped' = mapped \ {v}
    /\ Then(p, << >>)
    /\ UNCHANGED <<tables, boot_tables, early, virtual_space, nodes, saved, lock,
                   blocks, opened, raced, panic>>

-----------------------------------------------------------------------------
(* What stops the kernel *)

\* The assertion that an item fails.
Fault(item) ==
    CASE item.do = "carve" /\ (\A r \in virtual_space : item.page \notin r.begin .. r.begin + r.size - 1)
            -> UnknownPage
      [] item.do \in {"space", "grow"} /\ allocator_initialized /\ Fitting(item.count) = {} -> NoSpace
      [] item.do = "map" /\ item.page \in mapped -> AlreadyMapped
      [] item.do = "unmap" /\ PageEntry(item.page) \notin allocations -> UnallocatedPage
      [] item.do = "rest" /\ saved # {} -> IF Locked THEN FailedToSave ELSE NotFlushed
      [] OTHER -> NoPanic

Fail(p) ==
    /\ Running /\ ~Amidst(p)
    /\ work[p] # << >>
    /\ Fault(Head(work[p])) # NoPanic
    /\ panic' = Fault(Head(work[p]))
    /\ UNCHANGED <<paging, early, books, work, blocks, opened, raced>>

-----------------------------------------------------------------------------

\* panic() clears interrupts and halts.
Halted == ~Running /\ UNCHANGED vars

Step(p) ==
    \/ EarlyPage(p) \/ EmplaceRange(p) \/ Mark(p) \/ Carve(p)
    \/ TakeSpace(p) \/ Map(p) \/ Allocated(p) \/ Unmap(p)
    \/ Meet(p) \/ Flush(p) \/ AddEntry(p) \/ GrowEarly(p) \/ Grown(p) \/ EmplaceEntry(p)
    \/ Fail(p)

Next ==
    \/ Halted
    \/ \E p \in Process :
          \/ Step(p)
          \/ \E n \in BlockSizes : AllocatePages(p, n)
          \/ \E block \in blocks : DeallocatePages(p, block)

\* Boot runs alone.
Spec == Init /\ [][Next]_vars /\ WF_vars(Step(First))

-----------------------------------------------------------------------------
(* Safety *)

\* The entries that some process is about to add.
Underway ==
    {item.entry : item \in UNION {{work[p][i] : i \in DOMAIN work[p]} : p \in Process}}

Known == allocations \cup saved \cup Underway

\* Once the kernel has booted, every page and page table is in the books, kept
\* for later or about to be added, and no address is both in use and to be
\* allocated, or in two ranges, however often the books themselves grow and the
\* calls of processes alternate, until two of them meet on one structure.  None
\* of the allocator's assertions fails, but for "Failed to save" when the node
\* of the books needs a page table first, which would keep two entries at once.
BooksComplete ==
    /\ allocator_initialized =>
          /\ \A v \in mapped : PageEntry(v) \in Known
          /\ \A t \in tables \ boot_tables : TableEntry(t) \in Known
          /\ \A r \in virtual_space : \A v \in r.begin .. r.begin + r.size - 1 :
                /\ v \notin mapped /\ PageEntry(v) \notin Known
                /\ \A s \in virtual_space \ {r} : v \notin s.begin .. s.begin + s.size - 1
    /\ panic \notin {NotFlushed, AlreadyMapped, UnknownPage, UnallocatedPage}
    /\ panic = FailedToSave => opened

-----------------------------------------------------------------------------
(* Liveness *)

\* Boot comes to its end, though marking takes pages that have to be marked,
\* unless a page table comes between the pages of the bit set.
BootEnds == <>(allocator_initialized \/ panic = Unconstructed)
=============================================================================
