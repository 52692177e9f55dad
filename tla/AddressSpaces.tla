---------------------------- MODULE AddressSpaces ----------------------------
(***************************************************************************)
(* The user pages of the processes of the Knee kernel (allocator.cpp, and  *)
(* its callers in process.cpp, elf.cpp, posix.cpp and                      *)
(* interrupt_routines.cpp).  One page table serves all processes: at a     *)
(* switch the pages of one process are unmapped and those of the next are  *)
(* mapped.  fork and exec run with interrupts disabled, so each is a step; *)
(* the call that grows the heap is preemptible, so each access it makes to *)
(* shared memory is.                                                       *)
(***************************************************************************)
EXTENDS Integers, FiniteSets, Functions

CONSTANTS
    MaxProcs,    \* bound on the processes ever created
    Frames,      \* the number of page frames
    Pages,       \* the number of user pages
    TableSize,   \* how many pages share a page table
    CodePages, StackPages,  \* the pages of a program, and of its stack
    DevicePages, \* the pages programs map memory at by its number
    MaxGrowth,   \* the most pages a program asks for in one call
    Device,      \* frames of devices
    Asked,       \* frames programs ask for by number, of devices and others
    PastRace     \* whether the model goes on after a race

ImagePages == CodePages \cup StackPages
Proc == 0 .. MaxProcs - 1
Frame == 0 .. Frames - 1
Page == 0 .. Pages - 1
Table == {page \div TableSize : page \in Page}
Root == 0
None == -1

ASSUME ProcsAssumption == MaxProcs \in Nat /\ MaxProcs >= 2
\* There is memory for the first program.
ASSUME FramesAssumption ==
    /\ Frames \in Nat
    /\ Frames > Cardinality(Device) + 2 * Cardinality(ImagePages)
ASSUME TableSizeAssumption == TableSize \in Nat \ {0}
ASSUME PagesAssumption ==
    /\ Pages \in Nat
    /\ CodePages \cup StackPages \cup DevicePages \subseteq Page
    /\ DevicePages \cap (CodePages \cup StackPages) = {}
    /\ \E page \in Page : page - 1 \in CodePages
                          /\ \A other \in CodePages : other < page
    /\ MaxGrowth \in Nat
ASSUME DeviceAssumption == Device \subseteq Frame /\ Asked \subseteq Frame

VARIABLES
    frames,       \* the frames marked as allocated
    kernel,       \* those of the kernel: its heap, stacks and page tables
    tables,       \* the page tables that exist
    mapped,       \* the user half of the page table: page to frame
    allocations,  \* process::allocations
    heap_end,     \* process::heap_end
    created,      \* how many processes exist
    current,      \* current_process
    task,         \* where in allocate_pages each process is: see Idle
    raced,        \* two processes took one frame or made one table, or one
                  \* lost the CPU with a page mapped but not yet recorded
    foreign,      \* a program has asked for a frame that is no device's
    panic         \* the message of the panic that stopped the kernel

pagetable == <<tables, mapped>>
owners == <<allocations, heap_end, created, current>>
vars == <<frames, kernel, pagetable, owners, task, raced, foreign, panic>>

Nothing == [page \in Page |-> None]
NoPanic == "none"
NoFrame == "Can't allocate new frame"
AlreadyMapped == "Page already mapped"
NotPresent == "Not present page"
UnallocatedFrame == "Unallocated frame"

\* The locals of allocate_pages and memory_map: what the pages are for, the
\* next page and how many are left, the frame for it, and the frame the scan
\* of allocate_frame has found, for that page or for a page table.
Idle == [at |-> "user", use |-> "none", page |-> 0, left |-> 0,
         frame |-> None, found |-> None, table |-> FALSE]

\* The kernel, which owns the device memory, before the first program.
Init ==
    /\ frames = Device
    /\ kernel = Device
    /\ tables = {}
    /\ mapped = Nothing
    /\ allocations = [p \in Proc |-> Nothing]
    /\ heap_end = [p \in Proc |-> 0]
    /\ created = 1
    /\ current = Root
    /\ task = [p \in Proc |-> Idle]
    /\ raced = FALSE
    /\ foreign = FALSE
    /\ panic = NoPanic

Held(p) == {page \in Page : allocations[p][page] # None}

\* A program has memory of the kernel, its page tables among it, in its own
\* pages, or is about to: what it writes there can make anything follow.
Exposed ==
    \E p \in Proc :
        \/ task[p].frame \in kernel \ Device
        \/ \E page \in Held(p) : allocations[p][page] \in kernel \ Device

Running == panic = NoPanic /\ (PastRace \/ ~raced) /\ ~Exposed
At(p, place) == Running /\ current = p /\ task[p].at = place
User(p) == p # Root /\ At(p, "user")

Stop(message) ==
    /\ panic' = message
    /\ UNCHANGED <<frames, kernel, pagetable, owners, task, raced, foreign>>

Free == Frame \ frames
TableOf(page) == page \div TableSize

-----------------------------------------------------------------------------
(* The scheduler *)

\* userspace_disable(p): what is left of the page table.
Disabled(p) ==
    [page \in Page |-> IF page \in Held(p) THEN None ELSE mapped[page]]

\* Mutant: the pages of the next process are not mapped.
EnabledNone(p, left) == left

\* userspace_enable(p): the pages of p over those that are left.
Enabled(p, left) ==
    [page \in Page |-> IF page \in Held(p) THEN allocations[p][page]
                       ELSE left[page]]

\* Where the assertions of memory_unmap or memory_map stop a change from the
\* pages of p to those of a process that has the given pages.
ChangeFault(p, pages) ==
    IF \E page \in Held(p) : mapped[page] = None THEN NotPresent
    ELSE IF \E page \in pages : Disabled(p)[page] # None THEN AlreadyMapped
    ELSE NoPanic

\* A switch to process q, by the timer or by schedule().  Which process is next
\* is the matter of module Processes.
Switch(q) ==
    /\ Running
    /\ q < created
    /\ q # current
    /\ raced' = (raced \/ task[current].at = "record")
    /\ panic' = ChangeFault(current, Held(q))
    /\ \/ /\ panic' # NoPanic
          /\ UNCHANGED <<mapped, current>>
       \/ /\ panic' = NoPanic
          /\ mapped' = Enabled(q, Disabled(current))
          /\ current' = q
    /\ UNCHANGED <<frames, kernel, tables, allocations, heap_end, created, task,
                   foreign>>

-----------------------------------------------------------------------------
(* Growing the heap, of a program or of the kernel, and mapping a device *)

Starts(p, t) ==
    /\ User(p)
    /\ task' = [task EXCEPT ![p] = t]
    /\ UNCHANGED <<frames, kernel, pagetable, owners, raced, panic>>

\* SYSCALL_ALLOC_PAGES: allocate_pages(heap_end, n, true).  Memory is short
\* long before a heap meets the stack or what the program has mapped.
AllocPages(p, n) ==
    /\ heap_end[p] .. heap_end[p] + n - 1 \subseteq Page \ (StackPages \cup DevicePages)
    /\ Starts(p, [Idle EXCEPT !.at = "find", !.use = "heap",
                              !.page = heap_end[p], !.left = n])
    /\ UNCHANGED foreign

\* The page malloc asks for, on the way of any system call.
KernelGrows(p) ==
    /\ Starts(p, [Idle EXCEPT !.at = "find", !.use = "kernel"])
    /\ UNCHANGED foreign

\* mmap of /dev/mem, or of /dev/zero, which clears what it has mapped:
\* memory_map(page, offset, true), at a page not in use.  Nothing looks at the
\* offset, so it can be that of any frame.
MapDevice(p, page, f) ==
    /\ allocations[p][page] = None
    /\ Starts(p, [Idle EXCEPT !.at = "map", !.use = "device", !.page = page,
                              !.left = 1, !.frame = f])
    /\ foreign' = (foreign \/ f \notin Device)

\* allocate_frame finds the first frame that is free ...
FindFrame(p) ==
    /\ At(p, "find")
    /\ \/ Free = {} /\ Stop(NoFrame)
       \/ \E f \in Free :
             /\ \A g \in Free : f <= g
             /\ task' = [task EXCEPT ![p].at = "take", ![p].found = f]
             /\ UNCHANGED <<frames, kernel, pagetable, owners, raced, foreign, panic>>

\* ... and marks it.  The frame is for the kernel's heap, for a page table or
\* for a page.
TakeFrame(p) ==
    LET t == task[p] IN
    /\ At(p, "take")
    /\ frames' = frames \cup {t.found}
    /\ \/ /\ t.use = "kernel"
          /\ kernel' = kernel \cup {t.found}
          /\ raced' = (raced \/ t.found \in frames)
          /\ task' = [task EXCEPT ![p] = Idle]
          /\ UNCHANGED tables
       \/ /\ t.use # "kernel" /\ t.table
          /\ kernel' = kernel \cup {t.found}
          /\ tables' = tables \cup {TableOf(t.page)}
          /\ raced' = (raced \/ t.found \in frames \/ TableOf(t.page) \in tables)
          /\ task' = [task EXCEPT ![p].at = "map", ![p].table = FALSE,
                                  ![p].found = None]
       \/ /\ t.use # "kernel" /\ ~t.table
          /\ raced' = (raced \/ t.found \in frames)
          /\ task' = [task EXCEPT ![p].at = "map", ![p].frame = t.found,
                                  ![p].found = None]
          /\ UNCHANGED <<kernel, tables>>
    /\ UNCHANGED <<mapped, owners, foreign, panic>>

\* memory_map up to the entry of the page table.
MapPage(p) ==
    LET t == task[p] IN
    /\ At(p, "map")
    /\ \/ /\ TableOf(t.page) \notin tables
          /\ task' = [task EXCEPT ![p].at = "find", ![p].table = TRUE]
          /\ UNCHANGED <<mapped, panic>>
       \/ /\ TableOf(t.page) \in tables
          /\ mapped[t.page] # None
          /\ panic' = AlreadyMapped
          /\ UNCHANGED <<mapped, task>>
       \/ /\ TableOf(t.page) \in tables
          /\ mapped[t.page] = None
          /\ mapped' = [mapped EXCEPT ![t.page] = t.frame]
          /\ task' = [task EXCEPT ![p].at = "record"]
          /\ UNCHANGED panic
    /\ UNCHANGED <<frames, kernel, tables, owners, raced, foreign>>

\* Mutant: the end of the heap grows by itself and not by what was asked for.
HeapDoubled(page) == 2 * (page + 1)

\* The end of a heap that has this page as its last.
HeapEnd(page) == page + 1

\* add_allocation, and with the last page the new end of the heap.
RecordPage(p) ==
    LET t == task[p] IN
    /\ At(p, "record")
    /\ allocations' = [allocations EXCEPT ![p][t.page] =
                                        IF @ = None THEN t.frame ELSE @]
    /\ \/ /\ t.left > 1
          /\ task' = [task EXCEPT ![p].at = "find", ![p].page = t.page + 1,
                                  ![p].left = t.left - 1, ![p].frame = None]
          /\ UNCHANGED heap_end
       \/ /\ t.left = 1
          /\ task' = [task EXCEPT ![p] = Idle]
          /\ heap_end' = IF t.use = "heap"
                         THEN [heap_end EXCEPT ![p] = HeapEnd(t.page)] ELSE heap_end
    /\ UNCHANGED <<frames, kernel, pagetable, created, current, raced, foreign, panic>>

-----------------------------------------------------------------------------
(* Creation and replacement, with interrupts disabled *)

\* A frame for each of what is needed, of the frames that are free: the lowest
\* ones; which of them goes where is the same to everyone.
Placement(needs, free) ==
    LET lowest == {f \in free : Cardinality({g \in free : g < f})
                                    < Cardinality(needs)}
    IN CHOOSE g \in Bijection(needs, lowest) : TRUE

\* What else needs a frame: the kernel stack of a process, a page table.
Stack == Pages
TableNeed(table) == Pages + 1 + table

\* Mutant: the heap starts at the last page of the program.
LastCodePage ==
    CHOOSE page \in CodePages : \A other \in CodePages : other <= page

\* The page after the program.
HeapStart ==
    CHOOSE page \in Page :
        page - 1 \in CodePages /\ \A other \in CodePages : other < page

Image(g) == [page \in Page |-> IF page \in ImagePages THEN g[page] ELSE None]

\* execute_elf unmaps the pages it has mapped to fill them.
BootUnmapped(g) == mapped

\* execute_elf for a new process, which takes over the pages that the root
\* process has allocated for it.
Boot ==
    LET image == {TableOf(page) : page \in ImagePages}
        needs == ImagePages \cup {Stack} \cup {TableNeed(t) : t \in image}
        g == Placement(needs, Free) IN
    /\ Running
    /\ created = 1
    /\ created' = created + 1
    /\ frames' = frames \cup {g[x] : x \in needs}
    /\ kernel' = kernel \cup {g[x] : x \in needs \ ImagePages}
    /\ tables' = image
    /\ allocations' = [allocations EXCEPT ![created] = Image(g)]
    /\ mapped' = BootUnmapped(g)
    /\ heap_end' = [heap_end EXCEPT ![created] = HeapStart]
    /\ UNCHANGED <<current, task, raced, foreign, panic>>

\* Mutant: the child gets the frames of its parent.
SharedPages(p, g) == allocations[p]

\* Every page of p in a frame of its own.
CopiedPages(p, g) ==
    [page \in Page |-> IF page \in Held(p) THEN g[page] ELSE None]

\* copy_current_process.  (The entries it leaves in the kernel's own map name
\* pages of the kernel that nobody uses again; they are left out.)
Fork(p) ==
    LET needs == Held(p) \cup {Stack} IN
    /\ User(p)
    /\ created < MaxProcs
    /\ \/ /\ Cardinality(Free) < Cardinality(needs)
          /\ Stop(NoFrame)
       \/ /\ Cardinality(Free) >= Cardinality(needs)
          /\ LET g == Placement(needs, Free) IN
                /\ frames' = frames \cup {g[x] : x \in needs}
                /\ kernel' = kernel \cup {g[Stack]}
                /\ allocations' = [allocations EXCEPT ![created] = CopiedPages(p, g)]
          /\ heap_end' = [heap_end EXCEPT ![created] = heap_end[p]]
          /\ created' = created + 1
          /\ UNCHANGED <<pagetable, current, task, raced, foreign, panic>>

\* Mutant: the pages are unmapped, and their frames stay allocated.
FreedNone(p) == {}

\* The frames deallocate_pages frees, one page after the other.
Freed(p) == {allocations[p][page] : page \in Held(p)}

\* A frame that is not allocated, or is freed for one page and then for another.
FreedTwice(p) ==
    \/ ~(Freed(p) \subseteq frames)
    \/ \E x, y \in Held(p) : x # y /\ allocations[p][x] = allocations[p][y]

\* Which assertion stops execute_elf, the frames being those it leaves free.
ExecFault(p, free) ==
    IF ChangeFault(p, {}) # NoPanic THEN NotPresent
    ELSE IF FreedTwice(p) THEN UnallocatedFrame
    ELSE IF Cardinality(free) < Cardinality(ImagePages) THEN NoFrame
    ELSE ChangeFault(p, ImagePages)

\* execute_elf for the current process.
Exec(p) ==
    LET free == Frame \ (frames \ Freed(p)) IN
    /\ User(p)
    /\ \/ /\ ExecFault(p, free) # NoPanic
          /\ Stop(ExecFault(p, free))
       \/ /\ ExecFault(p, free) = NoPanic
          /\ LET g == Placement(ImagePages, free) IN
                /\ frames' = (frames \ Freed(p)) \cup {g[x] : x \in ImagePages}
                /\ allocations' = [allocations EXCEPT ![p] = Image(g)]
                /\ mapped' = [page \in Page |->
                      IF page \in ImagePages THEN g[page] ELSE Disabled(p)[page]]
          /\ heap_end' = [heap_end EXCEPT ![p] = HeapStart]
          /\ UNCHANGED <<kernel, tables, created, current, task, raced, foreign, panic>>

-----------------------------------------------------------------------------

\* panic() clears interrupts and halts.
Halted == ~Running /\ UNCHANGED vars

Next ==
    \/ Boot
    \/ Halted
    \/ \E p \in Proc :
          \/ Switch(p)
          \/ \E n \in 1 .. MaxGrowth : AllocPages(p, n)
          \/ KernelGrows(p)
          \/ \E page \in DevicePages, f \in Asked : MapDevice(p, page, f)
          \/ FindFrame(p) \/ TakeFrame(p) \/ MapPage(p) \/ RecordPage(p)
          \/ Fork(p)
          \/ Exec(p)

Spec == Init /\ [][Next]_vars

-----------------------------------------------------------------------------
(* Safety *)

FrameOrNone == Frame \cup {None}
Uses == {"none", "heap", "kernel", "device"}
Places == {"user", "find", "take", "map", "record"}
Tasks == [at : Places, use : Uses, page : Page, left : Nat,
          frame : FrameOrNone, found : FrameOrNone, table : BOOLEAN]

\* Type correctness.
TypeOK ==
    /\ frames \subseteq Frame
    /\ kernel \subseteq Frame
    /\ tables \subseteq Table
    /\ mapped \in [Page -> FrameOrNone]
    /\ allocations \in [Proc -> [Page -> FrameOrNone]]
    /\ heap_end \in [Proc -> 0 .. Pages]
    /\ created \in 1 .. MaxProcs
    /\ current \in 0 .. created - 1
    /\ task \in [Proc -> Tasks]
    /\ raced \in BOOLEAN
    /\ foreign \in BOOLEAN
    /\ panic \in {NoPanic, NoFrame, AlreadyMapped, NotPresent, UnallocatedFrame}

\* The memory of one process is out of reach of all others: a frame that is not
\* a device's belongs to one page of one process or to the kernel, and as long
\* as it does it is not given to anyone else.  So it is until two processes race
\* for a frame, or until a program asks for one by number that is no device's,
\* and gets it, whosever it is.
FramesApart ==
    ~raced /\ ~foreign =>
        /\ kernel \ Device \subseteq frames
        /\ \A p \in Proc : \A x \in Held(p) :
              LET f == allocations[p][x] IN
              f \notin Device =>
                  /\ f \in frames \ kernel
                  /\ \A q \in Proc : \A y \in Held(q) :
                        allocations[q][y] = f => q = p /\ y = x

\* The page table holds the pages of the current process and no others, with
\* the exception of one that is mapped and not recorded yet; also where two
\* processes have one frame because one of them has asked for it by number.
ActiveSpace ==
    ~raced =>
        \A page \in Page :
            \/ mapped[page] = allocations[current][page]
            \/ /\ task[current].at = "record"
               /\ task[current].page = page
               /\ mapped[page] = task[current].frame

\* The assertions of memory_map and memory_unmap (allocator.cpp 234 and 267)
\* fail only where a process lost the CPU within the call that grows its heap:
\* otherwise switches, fork, exec and growth never map a page twice or unmap
\* one that is not mapped, whatever frames programs ask for.
MapFaultsByRace == panic \in {AlreadyMapped, NotPresent} => raced

\* No frame is lost: one that is marked is the kernel's, a process has it, or
\* it is on the way to its page.  A frame that exec frees although another process
\* has it too is lost to that one, but not to the kernel.
NoneLeaks ==
    ~raced =>
        \A f \in frames :
            \/ f \in kernel
            \/ \E p \in Proc : \E page \in Held(p) : allocations[p][page] = f
            \/ \E p \in Proc : task[p].frame = f

\* The assertion of deallocate_frame (allocator.cpp 151).
FreedAreAllocated == panic # UnallocatedFrame
=============================================================================
