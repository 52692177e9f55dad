-------------------------- MODULE AddressSpacesProofs --------------------------
(***************************************************************************)
(* Theorems about AddressSpaces, for every number of processes, frames and *)
(* pages, every layout of a program and every set of device frames.        *)
(***************************************************************************)
EXTENDS AddressSpaces, FiniteSetTheorems, TLAPS

-----------------------------------------------------------------------------
(* Placement *)

LEMMA FrameFinite ==
    ASSUME NEW free \in SUBSET Frame
    PROVE  IsFiniteSet(free) /\ Cardinality(free) \in Nat
  <1>1. IsFiniteSet(Frame)
    BY FS_Interval, FramesAssumption DEF Frame
  <1> QED BY <1>1, FS_Subset, FS_CardinalityType

\* There are n frames among some that have fewer than n of them below: the ranks
\* of the frames are the numbers below their count.
LEMMA LowestFrames ==
    ASSUME NEW free \in SUBSET Frame, NEW n \in Nat, n <= Cardinality(free)
    PROVE  LET lowest == {f \in free : Cardinality({g \in free : g < f}) < n}
           IN  IsFiniteSet(lowest) /\ Cardinality(lowest) = n
  <1> DEFINE Below(f) == {g \in free : g < f}
             lowest == {f \in free : Cardinality(Below(f)) < n}
             rank == [f \in free |-> Cardinality(Below(f))]
             low == [f \in lowest |-> rank[f]]
             count == Cardinality(free)
  <1>1. free \subseteq Int
    BY FramesAssumption DEF Frame
  <1>2. /\ count \in Nat /\ IsFiniteSet(free)
        /\ \A f \in free : Cardinality(Below(f)) \in Nat /\ IsFiniteSet(Below(f))
    BY FrameFinite
  <1>3. ASSUME NEW f \in free, NEW T \in SUBSET free,
               Below(f) \subseteq T, f \in T
        PROVE  Cardinality(Below(f)) < Cardinality(T)
    <2>1. f \notin Below(f)
      BY <1>1
    <2>2. /\ IsFiniteSet(Below(f) \cup {f})
          /\ Cardinality(Below(f) \cup {f}) = Cardinality(Below(f)) + 1
      BY <1>2, <2>1, FS_AddElement
    <2>3. IsFiniteSet(T) /\ Cardinality(T) \in Nat
      BY FrameFinite
    <2>4. Cardinality(Below(f) \cup {f}) <= Cardinality(T)
      BY <1>3, <2>3, FS_Subset
    <2> QED BY <1>2, <2>2, <2>3, <2>4
  <1>4. \A f \in free : rank[f] \in 0 .. count - 1
    <2> SUFFICES ASSUME NEW f \in free PROVE rank[f] \in 0 .. count - 1
      OBVIOUS
    <2>1. Cardinality(Below(f)) < count
      BY <1>3
    <2> QED BY <1>2, <2>1
  <1>5. ASSUME NEW f \in free, NEW h \in free, f < h
        PROVE  rank[f] < rank[h]
    <2>1. Below(f) \subseteq Below(h) /\ f \in Below(h)
      <3>1. ASSUME NEW g \in Below(f) PROVE g \in Below(h)
        <4>1. g \in Int /\ f \in Int /\ h \in Int
          BY <1>1
        <4> QED BY <1>5, <4>1
      <3> QED BY <1>5, <3>1
    <2>2. Cardinality(Below(f)) < Cardinality(Below(h))
      BY <1>3, <2>1
    <2> QED BY <2>2
  <1>6. rank \in Injection(free, 0 .. count - 1)
    <2>1. ASSUME NEW f \in free, NEW h \in free, rank[f] = rank[h]
          PROVE  f = h
      <3>1. ~(f < h) /\ ~(h < f)
        BY <1>2, <1>5, <2>1
      <3> QED BY <1>1, <3>1
    <2>2. rank \in [free -> 0 .. count - 1]
      BY <1>4
    <2>3. DOMAIN rank = free
      OBVIOUS
    <2> HIDE DEF rank
    <2> QED BY <2>1, <2>2, <2>3 DEF Injection, IsInjective
  <1>7. rank \in Surjection(free, 0 .. count - 1)
    <2>1. IsFiniteSet(0 .. count - 1) /\ Cardinality(0 .. count - 1) = count
      <3>1. count \in Nat
        BY <1>2
      <3> HIDE DEF count
      <3> QED BY <3>1, FS_Interval
    <2>2. Cardinality(free) = Cardinality(0 .. count - 1)
      BY <2>1
    <2> HIDE DEF rank, count
    <2> QED BY <1>6, <2>1, <2>2, FS_Injection
  <1>8. lowest \subseteq free /\ low \in [lowest -> 0 .. n - 1]
    <2>1. ASSUME NEW f \in lowest PROVE low[f] \in 0 .. n - 1
      BY <1>2
    <2> QED BY <2>1
  <1>9. low \in Injection(lowest, 0 .. n - 1)
    <2>1. \A f, h \in lowest : low[f] = low[h] => f = h
      <3> HIDE DEF rank
      <3> QED BY <1>6, <1>8 DEF Injection, IsInjective
    <2> HIDE DEF low
    <2> QED BY <1>8, <2>1 DEF Injection, IsInjective
  <1>10. low \in Surjection(lowest, 0 .. n - 1)
    <2>1. ASSUME NEW k \in 0 .. n - 1
          PROVE  \E f \in lowest : low[f] = k
      <3>1. k \in 0 .. count - 1
        BY <1>2
      <3>2. PICK f \in free : rank[f] = k
        BY <1>7, <3>1 DEF Surjection
      <3>3. f \in lowest
        BY <3>2
      <3> QED BY <3>2, <3>3
    <2> HIDE DEF low
    <2> QED BY <1>8, <2>1 DEF Surjection
  <1>11. IsFiniteSet(0 .. n - 1) /\ Cardinality(0 .. n - 1) = n
    BY FS_Interval
  <1>12. IsFiniteSet(lowest) /\ Cardinality(lowest) = n
    <2> HIDE DEF low, lowest
    <2> QED BY <1>9, <1>10, <1>11, FS_Injection
  <1> QED BY <1>12

\* Where there are enough frames, everything that needs one gets one of its own.
LEMMA PlacementFits ==
    ASSUME NEW needs, IsFiniteSet(needs), NEW free \in SUBSET Frame,
           Cardinality(needs) <= Cardinality(free)
    PROVE  /\ Placement(needs, free) \in [needs -> free]
           /\ \A x, y \in needs :
                 Placement(needs, free)[x] = Placement(needs, free)[y] => x = y
  <1> DEFINE lowest == {f \in free : Cardinality({g \in free : g < f}) < Cardinality(needs)}
             g == Placement(needs, free)
  <1>1. Cardinality(needs) \in Nat
    BY FS_CardinalityType
  <1>2. IsFiniteSet(lowest) /\ Cardinality(lowest) = Cardinality(needs)
    BY <1>1, LowestFrames
  <1>3. lowest \subseteq free
    OBVIOUS
  <1>4. g = CHOOSE h \in Bijection(needs, lowest) : TRUE
    BY DEF Placement
  <1> HIDE DEF lowest, g
  <1>5. Bijection(needs, lowest) # {}
    BY <1>2, FS_SameCardinalityBij DEF ExistsBijection
  <1>6. g \in Bijection(needs, lowest)
    BY <1>4, <1>5
  <1>7. g \in [needs -> lowest] /\ \A x, y \in needs : g[x] = g[y] => x = y
    BY <1>6 DEF Bijection, Injection, IsInjective
  <1> QED BY <1>3, <1>7 DEF g

-----------------------------------------------------------------------------
(* The inductive invariant *)

\* Whether a task has a frame that is not in the page table of its process yet.
Carries(t) == t.at \in {"map", "record"} \/ (t.at \in {"find", "take"} /\ t.table)

\* The locals of allocate_pages and memory_map, at every place of the call.
TaskShape(t) ==
    /\ t.at = "user" => t = Idle
    /\ t.use = "none" => t.at = "user"
    /\ t.table => t.at \in {"find", "take"}
    /\ t.at = "take" => t.found \in Frame
    /\ t.use = "kernel" => t.at \in {"find", "take"} /\ t.frame = None /\ ~t.table
    /\ t.use \in {"heap", "device"} => (t.frame # None <=> Carries(t))
    /\ t.use = "heap" =>
          /\ t.left >= 1
          /\ t.page .. t.page + t.left - 1 \subseteq Page \ (StackPages \cup DevicePages)
    /\ t.use = "device" => t.left = 1 /\ t.page \in DevicePages /\ t.frame \in Asked

\* The page a call works on is not one its process has.
TaskInv ==
    \A p \in Proc :
        /\ TaskShape(task[p])
        /\ task[p].use \in {"heap", "device"} => allocations[p][task[p].page] = None

\* Where the heap of p ends, the pages included that a call has recorded.
HeapTop(p) == IF task[p].use = "heap" THEN task[p].page ELSE heap_end[p]

\* A process has no page above the top of its heap but its stack and devices.
HeapInv ==
    \A p \in Proc : \A page \in Held(p) \ (StackPages \cup DevicePages) :
        page < HeapTop(p)

\* What has not run has nothing, and before the first program nobody has.
UnusedInv ==
    /\ \A p \in Proc : p = Root \/ p >= created =>
          task[p] = Idle /\ allocations[p] = Nothing
    /\ created = 1 => frames = Device /\ kernel = Device /\ mapped = Nothing

\* A frame on its way to a page is marked and nobody else's.
CarriedInv ==
    ~raced /\ ~foreign =>
        \A p \in Proc :
            LET f == task[p].frame IN
            f # None /\ f \notin Device =>
                /\ f \in frames \ kernel
                /\ \A q \in Proc : \A y \in Held(q) : allocations[q][y] # f
                /\ \A q \in Proc : task[q].frame = f => q = p

\* Only the process that runs is between the page table and its records.
RecordInv ==
    ~raced =>
        \A p \in Proc : task[p].at = "record" =>
            p = current /\ mapped[task[p].page] = task[p].frame

\* The types, the locals of the calls and the tops of the heaps: what holds
\* after a race, too.
ShapeInv == TypeOK /\ TaskInv /\ HeapInv /\ UnusedInv

\* Who has which frame and which page: what holds until a race.
OwnersInv ==
    /\ CarriedInv /\ RecordInv
    /\ FramesApart /\ ActiveSpace /\ MapFaultsByRace /\ NoneLeaks

-----------------------------------------------------------------------------
(* Facts about the constants *)

LEMMA ConstantFacts ==
    /\ Root \in Proc /\ 1 \in Proc
    /\ 0 \in Page /\ Pages \in Nat \ {0} /\ Frames \in Nat
    /\ None \notin Frame
    /\ ImagePages \subseteq Page /\ DevicePages \subseteq Page
    /\ ImagePages \cap DevicePages = {}
    /\ ImagePages = CodePages \cup StackPages
    /\ Device \subseteq Frame /\ Asked \subseteq Frame
    /\ Stack \notin Page
  BY ProcsAssumption, FramesAssumption, PagesAssumption, DeviceAssumption
  DEF Proc, Page, Frame, Root, None, ImagePages, Stack

LEMMA HeapStartFacts ==
    HeapStart \in Page /\ \A page \in CodePages : page < HeapStart
  BY PagesAssumption DEF HeapStart

LEMMA ImageFinite ==
    /\ IsFiniteSet(Page) /\ IsFiniteSet(ImagePages)
    /\ Cardinality(ImagePages) \in Nat
  <1>1. IsFiniteSet(Page)
    BY ConstantFacts, FS_Interval DEF Page
  <1> QED BY <1>1, ConstantFacts, FS_Subset, FS_CardinalityType

\* There are enough frames for the first program, its stack in the kernel and
\* its page tables: at most one table for each of its pages.
LEMMA BootFits ==
    LET image == {TableOf(page) : page \in ImagePages}
        needs == ImagePages \cup {Stack} \cup {TableNeed(t) : t \in image}
    IN /\ IsFiniteSet(needs)
       /\ Cardinality(needs) <= Cardinality(Frame \ Device)
  <1> DEFINE Need(page) == TableNeed(TableOf(page))
             tableNeeds == {Need(page) : page \in ImagePages}
             needs == ImagePages \cup {Stack} \cup tableNeeds
  <1>1. /\ IsFiniteSet(tableNeeds)
        /\ Cardinality(tableNeeds) \in Nat
        /\ Cardinality(tableNeeds) <= Cardinality(ImagePages)
    <2> DEFINE f == [page \in ImagePages |-> Need(page)]
    <2>1. f \in Surjection(ImagePages, tableNeeds)
      BY DEF Surjection
    <2> HIDE DEF f, tableNeeds
    <2> QED BY <2>1, ImageFinite, FS_Surjection, FS_CardinalityType
  <1> HIDE DEF tableNeeds
  <1>2. /\ IsFiniteSet(ImagePages \cup {Stack})
        /\ Cardinality(ImagePages \cup {Stack}) \in Nat
        /\ Cardinality(ImagePages \cup {Stack}) <= Cardinality(ImagePages) + 1
    BY ImageFinite, FS_AddElement, FS_CardinalityType
  <1>3. /\ IsFiniteSet(needs) /\ Cardinality(needs) \in Nat
        /\ Cardinality(needs) <= 2 * Cardinality(ImagePages) + 1
    <2> DEFINE base == ImagePages \cup {Stack}
               both == base \cap tableNeeds
    <2>1. IsFiniteSet(both) /\ Cardinality(both) \in Nat
      BY <1>2, FS_Intersection, FS_CardinalityType
    <2>2. /\ IsFiniteSet(needs)
          /\ Cardinality(needs) = Cardinality(base) + Cardinality(tableNeeds)
                                     - Cardinality(both)
      BY <1>1, <1>2, FS_Union
    <2>3. Cardinality(needs) \in Nat
      BY <2>2, FS_CardinalityType
    <2>4. Cardinality(base) \in Nat /\ Cardinality(base) <= Cardinality(ImagePages) + 1
      BY <1>2
    <2> HIDE DEF needs, base, both
    <2> QED BY <1>1, <2>1, <2>2, <2>3, <2>4, ImageFinite
  <1>4. Cardinality(Frame \ Device) = Frames - Cardinality(Device)
    <2>1. IsFiniteSet(Frame) /\ Cardinality(Frame) = Frames
      <3>1. Frames - 1 \in Int /\ (0 > Frames - 1 <=> Frames = 0) /\ Frames \in Nat
        BY ConstantFacts
      <3> QED BY <3>1, FS_Interval DEF Frame
    <2>2. Frame \cap Device = Device
      BY ConstantFacts
    <2> QED BY <2>1, <2>2, FS_Difference
  <1>5. Cardinality(Device) \in Nat
    BY ConstantFacts, FrameFinite
  <1>6. Cardinality(needs) <= Cardinality(Frame \ Device)
    BY <1>3, <1>4, <1>5, FramesAssumption, ImageFinite
  <1>7. {TableNeed(t) : t \in {TableOf(page) : page \in ImagePages}} = tableNeeds
    BY DEF tableNeeds
  <1> QED BY <1>3, <1>6, <1>7

-----------------------------------------------------------------------------
(* Types, locals and heaps *)

LEMMA ShapeInit == Init => ShapeInv
  <1> SUFFICES ASSUME Init PROVE ShapeInv
    OBVIOUS
  <1> USE ConstantFacts
  <1>1. Idle \in Tasks
    BY DEF Idle, Tasks, Places, Uses, FrameOrNone
  <1>2. Nothing \in [Page -> FrameOrNone] /\ \A page \in Page : Nothing[page] = None
    BY DEF Nothing, FrameOrNone
  <1>3. TypeOK
    <2>1. heap_end \in [Proc -> 0 .. Pages] /\ task \in [Proc -> Tasks]
      BY <1>1 DEF Init
    <2>2. mapped \in [Page -> FrameOrNone] /\ allocations \in [Proc -> [Page -> FrameOrNone]]
      BY <1>2 DEF Init
    <2>3. created \in 1 .. MaxProcs /\ current \in 0 .. created - 1
      BY ProcsAssumption DEF Init, Root
    <2> QED BY <2>1, <2>2, <2>3 DEF Init, TypeOK
  <1>4. TaskShape(Idle)
    BY DEF TaskShape, Idle
  <1>5. TaskInv
    BY <1>4 DEF Init, TaskInv, Idle
  <1>6. HeapInv
    BY <1>2 DEF Init, HeapInv, Held
  <1>7. UnusedInv
    BY DEF Init, UnusedInv
  <1> QED BY <1>3, <1>5, <1>6, <1>7 DEF ShapeInv

\* A step of a call of the process that runs: it changes the locals of the call,
\* and neither what anyone has nor where a heap ends.
LEMMA CallMoves ==
    ASSUME ShapeInv, NEW p \in Proc, p = current, p # Root, NEW t \in Tasks,
           task' = [task EXCEPT ![p] = t], UNCHANGED owners,
           TaskShape(t),
           t.use \in {"heap", "device"} => allocations[p][t.page] = None,
           (IF t.use = "heap" THEN t.page ELSE heap_end[p]) = HeapTop(p)
    PROVE  task' \in [Proc -> Tasks] /\ TaskInv' /\ HeapInv' /\ UnusedInv'
  <1>1. /\ task \in [Proc -> Tasks]
        /\ task'[p] = t /\ \A q \in Proc \ {p} : task'[q] = task[q]
    BY DEF ShapeInv, TypeOK
  <1>2. /\ allocations' = allocations /\ heap_end' = heap_end
        /\ created' = created /\ current' = current
    BY DEF owners
  <1>3. task' \in [Proc -> Tasks]
    BY <1>1
  <1>4. TaskInv'
    BY <1>1, <1>2 DEF ShapeInv, TaskInv
  <1>5. HeapInv'
    <2>1. \A q \in Proc : HeapTop(q)' = HeapTop(q)
      BY <1>1, <1>2 DEF HeapTop
    <2> QED BY <1>2, <2>1 DEF ShapeInv, HeapInv, Held
  <1>6. UnusedInv'
    <2>1. p < created /\ created # 1
      <3>1. created \in Nat /\ p \in 0 .. created - 1 /\ p # 0
        BY DEF ShapeInv, TypeOK, Root
      <3> QED BY <3>1
    <2>2. \A q \in Proc : q = Root \/ q >= created => q # p
      <3>1. created \in Nat /\ p \in Int
        BY DEF ShapeInv, TypeOK, Proc
      <3> QED BY <2>1, <3>1
    <2> QED BY <1>1, <1>2, <2>1, <2>2 DEF ShapeInv, UnusedInv
  <1> QED BY <1>3, <1>4, <1>5, <1>6

\* The start of a call.
LEMMA ShapeStarts ==
    ASSUME ShapeInv, NEW p \in Proc, NEW t \in Tasks, Starts(p, t),
           TaskShape(t), foreign' \in BOOLEAN,
           t.use \in {"heap", "device"} => allocations[p][t.page] = None,
           t.use = "heap" => t.page = heap_end[p]
    PROVE  ShapeInv'
  <1>1. /\ p = current /\ p # Root /\ task[p].at = "user"
        /\ task' = [task EXCEPT ![p] = t] /\ UNCHANGED owners
        /\ UNCHANGED <<frames, kernel, pagetable, raced, panic>>
    BY DEF Starts, User, At
  <1>2. HeapTop(p) = heap_end[p]
    <2>1. task[p] = Idle
      BY <1>1 DEF ShapeInv, TaskInv, TaskShape
    <2> QED BY <2>1 DEF HeapTop, Idle
  <1>3. task' \in [Proc -> Tasks] /\ TaskInv' /\ HeapInv' /\ UnusedInv'
    BY <1>1, <1>2, CallMoves
  <1>4. TypeOK'
    BY <1>1, <1>3 DEF ShapeInv, TypeOK, owners, pagetable
  <1> QED BY <1>3, <1>4 DEF ShapeInv

LEMMA ShapeAllocPages ==
    ASSUME ShapeInv, NEW p \in Proc, NEW n \in 1 .. MaxGrowth, AllocPages(p, n)
    PROVE  ShapeInv'
  <1> DEFINE t == [Idle EXCEPT !.at = "find", !.use = "heap",
                               !.page = heap_end[p], !.left = n]
  <1>1. /\ t.at = "find" /\ t.use = "heap" /\ t.page = heap_end[p] /\ t.left = n
        /\ t.frame = None /\ t.found = None /\ t.table = FALSE
    BY DEF Idle
  <1>2. /\ heap_end[p] .. heap_end[p] + n - 1 \subseteq Page \ (StackPages \cup DevicePages)
        /\ Starts(p, t)
    BY DEF AllocPages
  <1>3. n \in Nat /\ n >= 1 /\ heap_end[p] \in Nat
    BY PagesAssumption, ConstantFacts DEF ShapeInv, TypeOK
  <1>4. heap_end[p] \in Page \ (StackPages \cup DevicePages)
    BY <1>2, <1>3
  <1>5. t \in Tasks
    BY <1>3, <1>4 DEF Idle, Tasks, Places, Uses, FrameOrNone
  <1>6. TaskShape(t)
    <2> HIDE DEF t
    <2> QED BY <1>1, <1>2, <1>3 DEF TaskShape, Carries
  <1>7. p = current /\ task[p] = Idle
    BY <1>2 DEF Starts, User, At, ShapeInv, TaskInv, TaskShape
  <1>8. allocations[p][heap_end[p]] = None
    <2>1. HeapTop(p) = heap_end[p]
      BY <1>7 DEF HeapTop, Idle
    <2>2. heap_end[p] \notin Held(p)
      BY <1>3, <1>4, <2>1 DEF ShapeInv, HeapInv
    <2> QED BY <1>4, <2>2 DEF Held
  <1>9. foreign' \in BOOLEAN
    BY DEF AllocPages, ShapeInv, TypeOK
  <1> HIDE DEF t
  <1> QED BY <1>1, <1>2, <1>5, <1>6, <1>8, <1>9, ShapeStarts

LEMMA ShapeKernelGrows ==
    ASSUME ShapeInv, NEW p \in Proc, KernelGrows(p)
    PROVE  ShapeInv'
  <1> DEFINE t == [Idle EXCEPT !.at = "find", !.use = "kernel"]
  <1>1. /\ t.at = "find" /\ t.use = "kernel" /\ t.frame = None /\ t.table = FALSE
        /\ Starts(p, t)
    BY DEF Idle, KernelGrows
  <1>2. t \in Tasks
    BY ConstantFacts DEF Idle, Tasks, Places, Uses, FrameOrNone
  <1> HIDE DEF t
  <1>3. TaskShape(t)
    BY <1>1 DEF TaskShape
  <1>4. foreign' \in BOOLEAN
    BY DEF KernelGrows, ShapeInv, TypeOK
  <1> QED BY <1>1, <1>2, <1>3, <1>4, ShapeStarts

LEMMA ShapeMapDevice ==
    ASSUME ShapeInv, NEW p \in Proc, NEW page \in DevicePages, NEW f \in Asked,
           MapDevice(p, page, f)
    PROVE  ShapeInv'
  <1> DEFINE t == [Idle EXCEPT !.at = "map", !.use = "device", !.page = page,
                               !.left = 1, !.frame = f]
  <1>1. /\ t.at = "map" /\ t.use = "device" /\ t.page = page /\ t.left = 1
        /\ t.frame = f /\ t.found = None /\ t.table = FALSE
    BY DEF Idle
  <1>2. allocations[p][page] = None /\ Starts(p, t)
    BY DEF MapDevice
  <1>3. page \in Page /\ f \in Frame /\ f # None
    BY ConstantFacts
  <1>4. t \in Tasks
    BY <1>3 DEF Idle, Tasks, Places, Uses, FrameOrNone
  <1> HIDE DEF t
  <1>5. TaskShape(t)
    BY <1>1, <1>3 DEF TaskShape, Carries
  <1>6. foreign' \in BOOLEAN
    BY DEF MapDevice, ShapeInv, TypeOK
  <1> QED BY <1>1, <1>2, <1>4, <1>5, <1>6, ShapeStarts

LEMMA ShapeFindFrame ==
    ASSUME ShapeInv, NEW p \in Proc, FindFrame(p)
    PROVE  ShapeInv'
  <1>1. CASE Stop(NoFrame)
    BY <1>1 DEF Stop, ShapeInv, TypeOK, TaskInv, HeapInv, UnusedInv, HeapTop, Held,
               pagetable, owners
  <1>2. CASE ~Stop(NoFrame)
    <2>1. PICK f \in Free :
             task' = [task EXCEPT ![p].at = "take", ![p].found = f]
      BY <1>2 DEF FindFrame
    <2>2. /\ task[p].at = "find" /\ p = current
          /\ UNCHANGED <<frames, kernel, pagetable, owners, raced, foreign, panic>>
      BY <1>2 DEF FindFrame, At
    <2> DEFINE t == [task[p] EXCEPT !.at = "take", !.found = f]
    <2>3. task[p] \in Tasks /\ task' = [task EXCEPT ![p] = t]
      BY <2>1 DEF ShapeInv, TypeOK
    <2>4. f \in Frame
      BY DEF Free
    <2>5. /\ t \in Tasks
          /\ t.at = "take" /\ t.found = f /\ t.use = task[p].use /\ t.page = task[p].page
          /\ t.left = task[p].left /\ t.frame = task[p].frame /\ t.table = task[p].table
      BY <2>3, <2>4 DEF Tasks, Places, FrameOrNone
    <2> HIDE DEF t
    <2>6. TaskShape(task[p]) /\ p # Root
      BY <2>2 DEF ShapeInv, TaskInv, UnusedInv, Idle
    <2>7. TaskShape(t)
      BY <2>2, <2>4, <2>5, <2>6 DEF TaskShape, Carries
    <2>8. task' \in [Proc -> Tasks] /\ TaskInv' /\ HeapInv' /\ UnusedInv'
      BY <2>2, <2>3, <2>5, <2>6, <2>7, CallMoves DEF ShapeInv, TaskInv, HeapTop
    <2>9. TypeOK'
      BY <2>2, <2>8 DEF ShapeInv, TypeOK, owners, pagetable
    <2> QED BY <2>8, <2>9 DEF ShapeInv
  <1> QED BY <1>1, <1>2

\* What taking a frame does to the locals of the call.
LEMMA TakenTask ==
    ASSUME ShapeInv, NEW p \in Proc, TakeFrame(p)
    PROVE  \E t \in Tasks :
              /\ task' = [task EXCEPT ![p] = t]
              /\ \/ task[p].use = "kernel" /\ t = Idle
                 \/ /\ task[p].use \in {"heap", "device"} /\ t.at = "map"
                    /\ t.use = task[p].use /\ t.page = task[p].page
                    /\ t.left = task[p].left /\ ~t.table /\ t.found = None
                    /\ t.frame = IF task[p].table THEN task[p].frame ELSE task[p].found
  <1>1. /\ task[p] \in Tasks /\ TaskShape(task[p]) /\ task[p].at = "take"
        /\ task[p].found \in Frame /\ task[p].use # "none"
    BY DEF TakeFrame, At, ShapeInv, TypeOK, TaskInv, TaskShape
  <1>2. task[p].use \in {"heap", "device", "kernel"}
    BY <1>1 DEF Tasks, Uses
  <1>3. CASE task[p].use = "kernel"
    <2>1. task' = [task EXCEPT ![p] = Idle]
      BY <1>3 DEF TakeFrame
    <2>2. Idle \in Tasks
      BY ConstantFacts DEF Idle, Tasks, Places, Uses, FrameOrNone
    <2> QED BY <1>3, <2>1, <2>2
  <1>4. CASE task[p].use # "kernel" /\ task[p].table
    <2> DEFINE t == [task[p] EXCEPT !.at = "map", !.table = FALSE, !.found = None]
    <2>1. task' = [task EXCEPT ![p] = t]
      BY <1>4 DEF TakeFrame, ShapeInv, TypeOK
    <2>2. /\ t \in Tasks
          /\ t.at = "map" /\ t.found = None /\ t.use = task[p].use /\ t.page = task[p].page
          /\ t.left = task[p].left /\ t.frame = task[p].frame /\ t.table = FALSE
      BY <1>1 DEF Tasks, Places, FrameOrNone
    <2> HIDE DEF t
    <2> QED BY <1>2, <1>4, <2>1, <2>2
  <1>5. CASE task[p].use # "kernel" /\ ~task[p].table
    <2> DEFINE t == [task[p] EXCEPT !.at = "map", !.frame = task[p].found, !.found = None]
    <2>1. task' = [task EXCEPT ![p] = t]
      BY <1>5 DEF TakeFrame, ShapeInv, TypeOK
    <2>2. /\ t \in Tasks
          /\ t.at = "map" /\ t.found = None /\ t.use = task[p].use /\ t.page = task[p].page
          /\ t.left = task[p].left /\ t.frame = task[p].found /\ t.table = task[p].table
      BY <1>1 DEF Tasks, Places, FrameOrNone
    <2> HIDE DEF t
    <2> QED BY <1>2, <1>5, <2>1, <2>2
  <1> QED BY <1>3, <1>4, <1>5

LEMMA ShapeTakeFrame ==
    ASSUME ShapeInv, NEW p \in Proc, TakeFrame(p)
    PROVE  ShapeInv'
  <1>1. PICK t \in Tasks :
           /\ task' = [task EXCEPT ![p] = t]
           /\ \/ task[p].use = "kernel" /\ t = Idle
              \/ /\ task[p].use \in {"heap", "device"} /\ t.at = "map"
                 /\ t.use = task[p].use /\ t.page = task[p].page
                 /\ t.left = task[p].left /\ ~t.table /\ t.found = None
                 /\ t.frame = IF task[p].table THEN task[p].frame ELSE task[p].found
    BY TakenTask
  <1>2. /\ task[p].at = "take" /\ p = current
        /\ UNCHANGED owners
    BY DEF TakeFrame, At
  <1>3. /\ task[p] \in Tasks /\ TaskShape(task[p]) /\ p # Root
        /\ task[p].found \in Frame
    BY <1>2 DEF ShapeInv, TypeOK, TaskInv, UnusedInv, Idle, TaskShape
  <1>4. TaskShape(t)
    <2>1. CASE t = Idle
      BY <2>1 DEF TaskShape, Idle
    <2>2. CASE t # Idle
      <3>1. /\ task[p].use \in {"heap", "device"} /\ t.at = "map"
            /\ t.use = task[p].use /\ t.page = task[p].page
            /\ t.left = task[p].left /\ ~t.table
            /\ t.frame = IF task[p].table THEN task[p].frame ELSE task[p].found
        BY <1>1, <2>2
      <3>2. t.use = "device" => task[p].table
        BY <1>2, <1>3, <3>1, ConstantFacts DEF TaskShape, Carries
      <3>3. t.frame # None
        BY <1>2, <1>3, <3>1, ConstantFacts DEF TaskShape, Carries
      <3> QED BY <1>3, <3>1, <3>2, <3>3 DEF TaskShape, Carries
    <2> QED BY <2>1, <2>2
  <1>5. /\ t.use \in {"heap", "device"} => allocations[p][t.page] = None
        /\ (IF t.use = "heap" THEN t.page ELSE heap_end[p]) = HeapTop(p)
    <2>1. CASE t = Idle
      BY <1>1, <2>1 DEF Idle, HeapTop
    <2>2. CASE t # Idle
      BY <1>1, <2>2 DEF HeapTop, ShapeInv, TaskInv
    <2> QED BY <2>1, <2>2
  <1>6. task' \in [Proc -> Tasks] /\ TaskInv' /\ HeapInv' /\ UnusedInv'
    BY <1>1, <1>2, <1>3, <1>4, <1>5, CallMoves
  <1>7. /\ frames' \subseteq Frame /\ kernel' \subseteq Frame
        /\ tables' \subseteq Table /\ mapped' = mapped
        /\ raced' \in BOOLEAN /\ foreign' = foreign /\ panic' = panic
    <2>1. TableOf(task[p].page) \in Table
      BY <1>3 DEF TableOf, Table, Tasks
    <2> QED BY <1>3, <2>1 DEF TakeFrame, ShapeInv, TypeOK
  <1>8. TypeOK'
    BY <1>2, <1>6, <1>7 DEF ShapeInv, TypeOK, owners
  <1> QED BY <1>6, <1>8 DEF ShapeInv

LEMMA ShapeMapPage ==
    ASSUME ShapeInv, NEW p \in Proc, MapPage(p)
    PROVE  ShapeInv'
  <1>1. /\ task[p].at = "map" /\ p = current
        /\ UNCHANGED <<frames, kernel, tables, owners, raced, foreign>>
    BY DEF MapPage, At
  <1>2. task[p] \in Tasks /\ TaskShape(task[p]) /\ p # Root
    BY <1>1 DEF ShapeInv, TypeOK, TaskInv, UnusedInv, Idle
  <1>3. CASE TableOf(task[p].page) \notin tables
    <2> DEFINE t == [task[p] EXCEPT !.at = "find", !.table = TRUE]
    <2>1. task' = [task EXCEPT ![p] = t] /\ UNCHANGED <<mapped, panic>>
      BY <1>3 DEF MapPage, ShapeInv, TypeOK
    <2>2. /\ t \in Tasks
          /\ t.at = "find" /\ t.found = task[p].found /\ t.use = task[p].use
          /\ t.page = task[p].page /\ t.left = task[p].left
          /\ t.frame = task[p].frame /\ t.table = TRUE
      BY <1>2 DEF Tasks, Places
    <2> HIDE DEF t
    <2>3. TaskShape(t)
      BY <1>1, <1>2, <2>2 DEF TaskShape, Carries
    <2>4. task' \in [Proc -> Tasks] /\ TaskInv' /\ HeapInv' /\ UnusedInv'
      BY ZenonT(60), <1>1, <1>2, <2>1, <2>2, <2>3, CallMoves DEF ShapeInv, TaskInv, HeapTop
    <2> QED BY <1>1, <2>1, <2>4 DEF ShapeInv, TypeOK, owners
  <1>4. CASE /\ TableOf(task[p].page) \in tables
             /\ mapped[task[p].page] # None
    <2>1. panic' = AlreadyMapped /\ UNCHANGED <<mapped, task>>
      BY <1>4 DEF MapPage
    <2> QED BY <1>1, <2>1 DEF ShapeInv, TypeOK, TaskInv, HeapInv, UnusedInv,
                             HeapTop, Held, owners
  <1>5. CASE /\ TableOf(task[p].page) \in tables
             /\ mapped[task[p].page] = None
    <2> DEFINE t == [task[p] EXCEPT !.at = "record"]
    <2>1. /\ task' = [task EXCEPT ![p] = t]
          /\ mapped' = [mapped EXCEPT ![task[p].page] = task[p].frame]
          /\ UNCHANGED panic
      BY <1>5 DEF MapPage, ShapeInv, TypeOK
    <2>2. /\ t \in Tasks
          /\ t.at = "record" /\ t.found = task[p].found /\ t.use = task[p].use
          /\ t.page = task[p].page /\ t.left = task[p].left
          /\ t.frame = task[p].frame /\ t.table = task[p].table
      BY <1>2 DEF Tasks, Places
    <2> HIDE DEF t
    <2>3. TaskShape(t)
      BY <1>1, <1>2, <2>2 DEF TaskShape, Carries
    <2>4. task' \in [Proc -> Tasks] /\ TaskInv' /\ HeapInv' /\ UnusedInv'
      BY <1>1, <1>2, <2>1, <2>2, <2>3, CallMoves DEF ShapeInv, TaskInv, HeapTop
    <2>5. mapped' \in [Page -> FrameOrNone]
      BY <1>2, <2>1 DEF ShapeInv, TypeOK, Tasks
    <2> QED BY <1>1, <2>1, <2>4, <2>5 DEF ShapeInv, TypeOK, owners
  <1> QED BY <1>3, <1>4, <1>5

\* The page a call has mapped is the process's from here on.
LEMMA RecordedPage ==
    ASSUME ShapeInv, NEW p \in Proc, RecordPage(p)
    PROVE  /\ p = current /\ p # Root /\ task[p].at = "record"
           /\ task[p] \in Tasks /\ TaskShape(task[p])
           /\ task[p].use \in {"heap", "device"}
           /\ task[p].frame \in Frame
           /\ allocations' = [allocations EXCEPT ![p][task[p].page] = task[p].frame]
           /\ UNCHANGED <<frames, kernel, tables, mapped, created, current, raced, foreign, panic>>
  <1>1. p = current /\ task[p].at = "record"
    BY DEF RecordPage, At
  <1>2. task[p] \in Tasks /\ TaskShape(task[p]) /\ p # Root
    BY <1>1 DEF ShapeInv, TypeOK, TaskInv, UnusedInv, Idle
  <1>3. task[p].use \in {"heap", "device"} /\ task[p].frame \in Frame
    <2>1. task[p].use \in {"heap", "device"}
      BY <1>1, <1>2 DEF TaskShape, Tasks, Uses
    <2>2. task[p].frame # None
      BY <1>1, <1>2, <2>1 DEF TaskShape, Carries
    <2> QED BY <1>2, <2>1, <2>2 DEF Tasks, FrameOrNone
  <1>4. allocations[p][task[p].page] = None /\ task[p].page \in Page
    BY <1>2, <1>3 DEF ShapeInv, TaskInv, Tasks
  <1>5. allocations' = [allocations EXCEPT ![p][task[p].page] = task[p].frame]
    BY <1>4 DEF RecordPage, ShapeInv, TypeOK
  <1> QED BY <1>1, <1>2, <1>3, <1>5 DEF RecordPage, pagetable

LEMMA ShapeRecordPage ==
    ASSUME ShapeInv, NEW p \in Proc, RecordPage(p)
    PROVE  ShapeInv'
  <1> DEFINE x == task[p].page
  <1>1. /\ p = current /\ p # Root /\ task[p].at = "record"
        /\ task[p] \in Tasks /\ TaskShape(task[p])
        /\ task[p].use \in {"heap", "device"}
        /\ task[p].frame \in Frame
        /\ allocations' = [allocations EXCEPT ![p][x] = task[p].frame]
        /\ UNCHANGED <<frames, kernel, tables, mapped, created, current, raced, foreign, panic>>
    BY RecordedPage
  <1>2. x \in Page /\ x \in Int /\ task[p].left \in Nat
    BY <1>1 DEF Tasks, Page
  <1>3. /\ allocations' \in [Proc -> [Page -> FrameOrNone]]
        /\ \A q \in Proc \ {p} : allocations'[q] = allocations[q]
        /\ \A y \in Page \ {x} : allocations'[p][y] = allocations[p][y]
        /\ allocations'[p][x] = task[p].frame
    BY <1>1, <1>2 DEF ShapeInv, TypeOK, FrameOrNone
  <1>4. \A q \in Proc \ {p} : Held(q)' = Held(q)
    BY <1>3 DEF Held
  <1>5. Held(p)' = Held(p) \cup {x}
    <2>1. allocations'[p][x] # None
      BY <1>1, <1>3, ConstantFacts
    <2>2. \A y \in Page : y \in Held(p)' <=> y \in Held(p) \cup {x}
      BY <1>3, <2>1 DEF Held
    <2>3. Held(p)' \subseteq Page /\ Held(p) \cup {x} \subseteq Page
      BY <1>2 DEF Held
    <2> QED BY <2>2, <2>3
  <1>6. p < created /\ created # 1
    <2>1. created \in Nat /\ p \in 0 .. created - 1 /\ p # 0
      BY <1>1 DEF ShapeInv, TypeOK, Root
    <2> QED BY <2>1
  <1>7. \A q \in Proc : q = Root \/ q >= created => q # p
    <2>1. created \in Nat /\ p \in Int
      BY DEF ShapeInv, TypeOK, Proc
    <2> QED BY <1>1, <1>6, <2>1
  <1>8. CASE task[p].left > 1
    <2> DEFINE t == [task[p] EXCEPT !.at = "find", !.page = x + 1,
                                    !.left = task[p].left - 1, !.frame = None]
    <2>1. task' = [task EXCEPT ![p] = t] /\ heap_end' = heap_end
      <3>1. task[p].left # 1
        BY <1>8
      <3> QED BY <3>1, <1>1, <1>2 DEF RecordPage, ShapeInv, TypeOK
    <2>2. task[p].use = "heap"
      BY <1>1, <1>8 DEF TaskShape
    <2>3. /\ task[p].left - 1 \in Nat /\ task[p].left - 1 >= 1
          /\ x + 1 .. (x + 1) + (task[p].left - 1) - 1
                \subseteq Page \ (StackPages \cup DevicePages)
      <3>1. x .. x + task[p].left - 1 \subseteq Page \ (StackPages \cup DevicePages)
        BY <1>1, <2>2 DEF TaskShape
      <3>2. x + 1 .. (x + 1) + (task[p].left - 1) - 1 \subseteq x .. x + task[p].left - 1
        BY <1>2, <1>8
      <3> QED BY <1>2, <1>8, <3>1, <3>2
    <2>4. x + 1 \in Page \ (StackPages \cup DevicePages)
      BY <1>2, <2>3
    <2>5. /\ t \in Tasks
          /\ t.at = "find" /\ t.page = x + 1 /\ t.left = task[p].left - 1
          /\ t.frame = None /\ t.use = "heap" /\ t.table = task[p].table
      BY <1>1, <2>2, <2>3, <2>4 DEF Tasks, Places, FrameOrNone
    <2>6. ~t.table
      BY <1>1, <2>5 DEF TaskShape
    <2> HIDE DEF t, x
    <2>7. TaskShape(t)
      BY <2>3, <2>5, <2>6 DEF TaskShape, Carries
    <2>8. /\ task' \in [Proc -> Tasks] /\ task'[p] = t
          /\ \A q \in Proc \ {p} : task'[q] = task[q]
      BY <2>1, <2>5 DEF ShapeInv, TypeOK
    <2>9. x + 1 \notin Held(p)' /\ \A y \in Held(p)' \ (StackPages \cup DevicePages) : y < x + 1
      <3>1. HeapTop(p) = x
        BY <2>2 DEF HeapTop, x
      <3>2. \A y \in Held(p) \ (StackPages \cup DevicePages) : y < x
        BY <3>1 DEF ShapeInv, HeapInv
      <3>3. Held(p) \subseteq Int
        BY DEF Held, Page
      <3> QED BY <1>2, <1>5, <2>4, <3>2, <3>3
    <2>10. TaskInv'
      <3>1. allocations'[p][x + 1] = None
        BY <2>4, <2>9 DEF Held
      <3> QED BY <1>3, <2>5, <2>7, <2>8, <3>1 DEF ShapeInv, TaskInv
    <2>11. HeapInv'
      <3>1. HeapTop(p)' = x + 1 /\ \A q \in Proc \ {p} : HeapTop(q)' = HeapTop(q)
        BY <2>1, <2>5, <2>8 DEF HeapTop
      <3> QED BY <1>4, <2>9, <3>1 DEF ShapeInv, HeapInv
    <2>12. UnusedInv'
      BY <1>1, <1>3, <1>6, <1>7, <2>8 DEF ShapeInv, UnusedInv
    <2>13. TypeOK'
      BY <1>1, <1>3, <2>1, <2>8 DEF ShapeInv, TypeOK
    <2> QED BY <2>10, <2>11, <2>12, <2>13 DEF ShapeInv
  <1>9. CASE ~(task[p].left > 1)
    <2>1. task[p].left = 1 /\ task' = [task EXCEPT ![p] = Idle]
      BY <1>1, <1>2, <1>9 DEF RecordPage, TaskShape
    <2>2. heap_end' = IF task[p].use = "heap" THEN [heap_end EXCEPT ![p] = x + 1] ELSE heap_end
      BY <2>1 DEF RecordPage, HeapEnd
    <2>3. /\ task'[p] = Idle /\ task' \in [Proc -> Tasks]
          /\ \A q \in Proc \ {p} : task'[q] = task[q]
      <3>1. Idle \in Tasks
        BY ConstantFacts DEF Idle, Tasks, Places, Uses, FrameOrNone
      <3> QED BY <2>1, <3>1 DEF ShapeInv, TypeOK
    <2>4. /\ heap_end' \in [Proc -> 0 .. Pages]
          /\ heap_end'[p] = IF task[p].use = "heap" THEN x + 1 ELSE heap_end[p]
          /\ \A q \in Proc \ {p} : heap_end'[q] = heap_end[q]
      <3>1. x + 1 \in 0 .. Pages
        BY <1>2, ConstantFacts DEF Page
      <3> QED BY <2>2, <3>1 DEF ShapeInv, TypeOK
    <2> HIDE DEF x
    <2>5. TaskInv'
      <3>1. TaskShape(Idle) /\ Idle.use = "none"
        BY DEF TaskShape, Idle
      <3> QED BY <1>3, <2>3, <3>1 DEF ShapeInv, TaskInv
    <2>6. HeapInv'
      <3>1. HeapTop(p)' = heap_end'[p] /\ \A q \in Proc \ {p} : HeapTop(q)' = HeapTop(q)
        BY <2>3, <2>4 DEF HeapTop, Idle
      <3>2. \A y \in Held(p)' \ (StackPages \cup DevicePages) : y < heap_end'[p]
        <4>1. \A y \in Held(p) \ (StackPages \cup DevicePages) : y < HeapTop(p)
          BY DEF ShapeInv, HeapInv
        <4>2. CASE task[p].use = "heap"
          <5>1. HeapTop(p) = x /\ heap_end'[p] = x + 1
            BY <2>4, <4>2 DEF HeapTop, x
          <5>2. Held(p) \subseteq Int
            BY DEF Held, Page
          <5> QED BY <1>2, <1>5, <4>1, <5>1, <5>2
        <4>3. CASE task[p].use # "heap"
          <5>1. HeapTop(p) = heap_end'[p] /\ x \in DevicePages
            BY <1>1, <2>4, <4>3 DEF HeapTop, TaskShape, x
          <5> QED BY <1>5, <4>1, <5>1
        <4> QED BY <4>2, <4>3
      <3> QED BY <1>4, <3>1, <3>2 DEF ShapeInv, HeapInv
    <2>7. UnusedInv'
      BY <1>1, <1>3, <1>6, <1>7, <2>3 DEF ShapeInv, UnusedInv
    <2>8. TypeOK'
      BY <1>1, <1>3, <2>3, <2>4 DEF ShapeInv, TypeOK
    <2> QED BY <2>5, <2>6, <2>7, <2>8 DEF ShapeInv
  <1> QED BY <1>8, <1>9

LEMMA ShapeSwitch ==
    ASSUME ShapeInv, NEW q \in Proc, Switch(q)
    PROVE  ShapeInv'
  <1>1. /\ UNCHANGED <<frames, kernel, tables, allocations, heap_end, created, task, foreign>>
        /\ q < created /\ q # current /\ raced' \in BOOLEAN
        /\ panic' \in {NoPanic, AlreadyMapped, NotPresent}
    BY DEF Switch, ShapeInv, TypeOK, ChangeFault
  <1>2. /\ current' \in 0 .. created - 1
        /\ mapped' \in [Page -> FrameOrNone]
    <2>1. q \in 0 .. created - 1
      BY <1>1 DEF Proc, ShapeInv, TypeOK
    <2>2. Disabled(current) \in [Page -> FrameOrNone]
      BY DEF Disabled, ShapeInv, TypeOK, FrameOrNone
    <2>3. Enabled(q, Disabled(current)) \in [Page -> FrameOrNone]
      <3> HIDE DEF Disabled
      <3> QED BY <2>2 DEF Enabled, ShapeInv, TypeOK
    <2> QED BY <2>1, <2>3 DEF Switch, ShapeInv, TypeOK
  <1>3. created # 1
    BY <1>1 DEF ShapeInv, TypeOK, Proc
  <1> QED BY <1>1, <1>2, <1>3 DEF ShapeInv, TypeOK, TaskInv, HeapInv, HeapTop, Held, UnusedInv

\* The pages of a new program: those of its image, each in its frame.
LEMMA ImageFacts ==
    ASSUME NEW needs, ImagePages \subseteq needs, NEW g \in [needs -> Frame]
    PROVE  /\ Image(g) \in [Page -> FrameOrNone]
           /\ \A page \in ImagePages : Image(g)[page] = g[page]
           /\ \A page \in Page : Image(g)[page] # None <=> page \in ImagePages
  BY ConstantFacts DEF Image, FrameOrNone

\* A program that has just been loaded has no page above the start of its heap.
LEMMA ImageBelowHeap ==
    \A page \in ImagePages \ (StackPages \cup DevicePages) : page < HeapStart
  BY ConstantFacts, HeapStartFacts

\* What Boot gives out.
LEMMA Booted ==
    ASSUME ShapeInv, Boot
    PROVE  \E g, needs :
              /\ needs = ImagePages \cup {Stack}
                         \cup {TableNeed(t) : t \in {TableOf(page) : page \in ImagePages}}
              /\ g \in [needs -> Frame \ Device]
              /\ \A x, y \in needs : g[x] = g[y] => x = y
              /\ created = 1 /\ created' = 2 /\ current = Root
              /\ frames = Device /\ kernel = Device
              /\ frames' = Device \cup {g[x] : x \in needs}
              /\ kernel' = Device \cup {g[x] : x \in needs \ ImagePages}
              /\ tables' = {TableOf(page) : page \in ImagePages}
              /\ allocations' = [allocations EXCEPT ![1] = Image(g)]
              /\ mapped' = mapped
              /\ heap_end' = [heap_end EXCEPT ![1] = HeapStart]
              /\ UNCHANGED <<current, task, raced, foreign, panic>>
  <1> DEFINE image == {TableOf(page) : page \in ImagePages}
             needs == ImagePages \cup {Stack} \cup {TableNeed(t) : t \in image}
             g == Placement(needs, Free)
  <1>1. created = 1 /\ current = Root /\ frames = Device /\ kernel = Device
    BY DEF Boot, ShapeInv, UnusedInv, TypeOK, Root
  <1>2. Free = Frame \ Device
    BY <1>1 DEF Free
  <1>3. g \in [needs -> Frame \ Device] /\ \A x, y \in needs : g[x] = g[y] => x = y
    <2>1. IsFiniteSet(needs) /\ Cardinality(needs) <= Cardinality(Frame \ Device)
      BY BootFits
    <2> HIDE DEF needs
    <2> QED BY <1>2, <2>1, PlacementFits
  <1>4. /\ created' = 2
        /\ frames' = Device \cup {g[x] : x \in needs}
        /\ kernel' = Device \cup {g[x] : x \in needs \ ImagePages}
        /\ tables' = image
        /\ allocations' = [allocations EXCEPT ![1] = Image(g)]
        /\ mapped' = mapped
        /\ heap_end' = [heap_end EXCEPT ![1] = HeapStart]
        /\ UNCHANGED <<current, task, raced, foreign, panic>>
    BY <1>1 DEF Boot, BootUnmapped
  <1> HIDE DEF g
  <1> QED BY <1>1, <1>3, <1>4

LEMMA ShapeBoot ==
    ASSUME ShapeInv, Boot
    PROVE  ShapeInv'
  <1>1. PICK g, needs :
              /\ needs = ImagePages \cup {Stack}
                         \cup {TableNeed(t) : t \in {TableOf(page) : page \in ImagePages}}
              /\ g \in [needs -> Frame \ Device]
              /\ \A x, y \in needs : g[x] = g[y] => x = y
              /\ created = 1 /\ created' = 2 /\ current = Root
              /\ frames = Device /\ kernel = Device
              /\ frames' = Device \cup {g[x] : x \in needs}
              /\ kernel' = Device \cup {g[x] : x \in needs \ ImagePages}
              /\ tables' = {TableOf(page) : page \in ImagePages}
              /\ allocations' = [allocations EXCEPT ![1] = Image(g)]
              /\ mapped' = mapped
              /\ heap_end' = [heap_end EXCEPT ![1] = HeapStart]
              /\ UNCHANGED <<current, task, raced, foreign, panic>>
    BY Booted
  <1>2. /\ Image(g) \in [Page -> FrameOrNone]
        /\ \A page \in Page : Image(g)[page] # None <=> page \in ImagePages
    BY <1>1, ImageFacts
  <1> HIDE DEF Image
  <1>3. /\ allocations' \in [Proc -> [Page -> FrameOrNone]]
        /\ allocations'[1] = Image(g)
        /\ \A q \in Proc \ {1} : allocations'[q] = allocations[q]
    BY <1>1, <1>2, ConstantFacts DEF ShapeInv, TypeOK
  <1>4. /\ heap_end' \in [Proc -> 0 .. Pages]
        /\ heap_end'[1] = HeapStart
        /\ \A q \in Proc \ {1} : heap_end'[q] = heap_end[q]
    <2>1. HeapStart \in 0 .. Pages
      BY HeapStartFacts, ConstantFacts DEF Page
    <2> QED BY <1>1, <2>1, ConstantFacts DEF ShapeInv, TypeOK
  <1>5. task[1] = Idle
    BY <1>1, ConstantFacts DEF ShapeInv, UnusedInv
  <1>6. TypeOK'
    <2>1. frames' \subseteq Frame /\ kernel' \subseteq Frame /\ tables' \subseteq Table
      <3>1. \A x \in needs : g[x] \in Frame
        BY <1>1
      <3>2. \A page \in ImagePages : TableOf(page) \in Table
        BY ConstantFacts DEF TableOf, Table
      <3> QED BY <1>1, <3>1, <3>2, ConstantFacts
    <2>2. created' \in 1 .. MaxProcs /\ current' \in 0 .. created' - 1
      BY <1>1, ProcsAssumption DEF Root
    <2> QED BY <1>1, <1>3, <1>4, <2>1, <2>2 DEF ShapeInv, TypeOK
  <1>7. TaskInv'
    <2>1. task[1].use = "none"
      BY <1>5 DEF Idle
    <2> QED BY <1>1, <1>3, <2>1 DEF ShapeInv, TaskInv
  <1>8. HeapInv'
    <2>1. Held(1)' = ImagePages /\ \A q \in Proc \ {1} : Held(q)' = Held(q)
      BY <1>2, <1>3, ConstantFacts DEF Held
    <2>2. HeapTop(1)' = HeapStart /\ \A q \in Proc \ {1} : HeapTop(q)' = HeapTop(q)
      BY <1>1, <1>4, <1>5 DEF HeapTop, Idle
    <2> QED BY <2>1, <2>2, ImageBelowHeap DEF ShapeInv, HeapInv
  <1>9. UnusedInv'
    <2>1. \A q \in Proc : q = Root \/ q >= 2 => q # 1 /\ (q = Root \/ q >= 1)
      BY DEF Root, Proc
    <2> QED BY <1>1, <1>3, <2>1 DEF ShapeInv, UnusedInv
  <1> QED BY <1>6, <1>7, <1>8, <1>9 DEF ShapeInv

\* What Fork gives out: the child has the pages of its parent, each in a frame
\* of its own, and its stack in the kernel another one.
LEMMA Forked ==
    ASSUME ShapeInv, NEW p \in Proc, Fork(p), ~Stop(NoFrame)
    PROVE  \E g :
              /\ g \in [Held(p) \cup {Stack} -> Free]
              /\ \A x, y \in Held(p) \cup {Stack} : g[x] = g[y] => x = y
              /\ p = current /\ p # Root /\ task[p] = Idle
              /\ created < MaxProcs /\ created \in Proc
              /\ created' = created + 1
              /\ frames' = frames \cup {g[x] : x \in Held(p) \cup {Stack}}
              /\ kernel' = kernel \cup {g[Stack]}
              /\ allocations' = [allocations EXCEPT ![created] = CopiedPages(p, g)]
              /\ heap_end' = [heap_end EXCEPT ![created] = heap_end[p]]
              /\ UNCHANGED <<tables, mapped, current, task, raced, foreign, panic>>
  <1> DEFINE needs == Held(p) \cup {Stack}
             g == Placement(needs, Free)
  <1>1. p = current /\ p # Root /\ task[p] = Idle
    BY DEF Fork, User, At, ShapeInv, TaskInv, TaskShape
  <1>2. created < MaxProcs /\ created \in Proc
    BY ProcsAssumption DEF Fork, ShapeInv, TypeOK, Proc
  <1>3. IsFiniteSet(needs)
    <2>1. IsFiniteSet(Held(p))
      BY ImageFinite, FS_Subset DEF Held
    <2> QED BY <2>1, FS_AddElement
  <1>4. Cardinality(needs) <= Cardinality(Free)
    <2>1. Cardinality(needs) \in Nat /\ Cardinality(Free) \in Nat
      <3>1. Free \subseteq Frame
        BY DEF Free
      <3> HIDE DEF needs
      <3> QED BY <1>3, <3>1, FS_CardinalityType, FrameFinite
    <2> QED BY <2>1 DEF Fork
  <1>5. g \in [needs -> Free] /\ \A x, y \in needs : g[x] = g[y] => x = y
    <2>1. Free \subseteq Frame
      BY DEF Free
    <2> HIDE DEF needs
    <2> QED BY <1>3, <1>4, <2>1, PlacementFits
  <1>6. /\ frames' = frames \cup {g[x] : x \in needs}
        /\ kernel' = kernel \cup {g[Stack]}
        /\ allocations' = [allocations EXCEPT ![created] = CopiedPages(p, g)]
        /\ heap_end' = [heap_end EXCEPT ![created] = heap_end[p]]
        /\ created' = created + 1
        /\ UNCHANGED <<tables, mapped, current, task, raced, foreign, panic>>
    BY DEF Fork, pagetable
  <1> HIDE DEF g
  <1> QED BY <1>1, <1>2, <1>5, <1>6

LEMMA CopiedFacts ==
    ASSUME ShapeInv, NEW p \in Proc, NEW g \in [Held(p) \cup {Stack} -> Frame]
    PROVE  /\ CopiedPages(p, g) \in [Page -> FrameOrNone]
           /\ \A page \in Held(p) : CopiedPages(p, g)[page] = g[page]
           /\ \A page \in Page : CopiedPages(p, g)[page] # None <=> page \in Held(p)
  <1>1. Held(p) \subseteq Page
    BY DEF Held
  <1> HIDE DEF Held
  <1> QED BY <1>1, ConstantFacts DEF CopiedPages, FrameOrNone

LEMMA ShapeFork ==
    ASSUME ShapeInv, NEW p \in Proc, Fork(p)
    PROVE  ShapeInv'
  <1>1. CASE Stop(NoFrame)
    BY <1>1 DEF Stop, ShapeInv, TypeOK, TaskInv, HeapInv, UnusedInv, HeapTop, Held,
               pagetable, owners
  <1>2. CASE ~Stop(NoFrame)
    <2>1. PICK g :
              /\ g \in [Held(p) \cup {Stack} -> Free]
              /\ \A x, y \in Held(p) \cup {Stack} : g[x] = g[y] => x = y
              /\ p = current /\ p # Root /\ task[p] = Idle
              /\ created < MaxProcs /\ created \in Proc
              /\ created' = created + 1
              /\ frames' = frames \cup {g[x] : x \in Held(p) \cup {Stack}}
              /\ kernel' = kernel \cup {g[Stack]}
              /\ allocations' = [allocations EXCEPT ![created] = CopiedPages(p, g)]
              /\ heap_end' = [heap_end EXCEPT ![created] = heap_end[p]]
              /\ UNCHANGED <<tables, mapped, current, task, raced, foreign, panic>>
      BY <1>2, Forked
    <2>2. \A x \in Held(p) \cup {Stack} : g[x] \in Frame
      BY <2>1 DEF Free
    <2>3. /\ CopiedPages(p, g) \in [Page -> FrameOrNone]
          /\ \A page \in Page : CopiedPages(p, g)[page] # None <=> page \in Held(p)
      BY <2>1, <2>2, CopiedFacts
    <2>4. /\ created \in 1 .. MaxProcs /\ created \in Proc /\ created \in Nat /\ p < created
          /\ p \in Int /\ current \in 0 .. created - 1 /\ MaxProcs \in Nat
      BY <2>1, ProcsAssumption DEF ShapeInv, TypeOK, Proc
    <2>5. /\ allocations' \in [Proc -> [Page -> FrameOrNone]]
          /\ allocations'[created] = CopiedPages(p, g)
          /\ \A q \in Proc \ {created} : allocations'[q] = allocations[q]
      BY <2>1, <2>3 DEF ShapeInv, TypeOK
    <2>6. /\ heap_end' \in [Proc -> 0 .. Pages]
          /\ heap_end'[created] = heap_end[p]
          /\ \A q \in Proc \ {created} : heap_end'[q] = heap_end[q]
      BY <2>1 DEF ShapeInv, TypeOK
    <2>7. task[created] = Idle
      BY <2>4 DEF ShapeInv, UnusedInv
    <2>8. TypeOK'
      <3>1. frames' \subseteq Frame /\ kernel' \subseteq Frame
        BY <2>1, <2>2 DEF ShapeInv, TypeOK
      <3>2. created' \in 1 .. MaxProcs /\ current' \in 0 .. created' - 1
        BY <2>1, <2>4
      <3> QED BY <2>1, <2>5, <2>6, <3>1, <3>2 DEF ShapeInv, TypeOK
    <2>9. TaskInv'
      <3>1. task[created].use = "none"
        BY <2>7 DEF Idle
      <3> QED BY <2>1, <2>5, <3>1 DEF ShapeInv, TaskInv
    <2>10. HeapInv'
      <3> PICK child \in Proc : child = created
        BY <2>4
      <3>1. Held(child)' = Held(p) /\ \A q \in Proc \ {child} : Held(q)' = Held(q)
        BY <2>3, <2>4, <2>5 DEF Held
      <3>2. HeapTop(child)' = HeapTop(p) /\ \A q \in Proc \ {child} : HeapTop(q)' = HeapTop(q)
        BY <2>1, <2>6, <2>7 DEF HeapTop, Idle
      <3> QED BY <3>1, <3>2 DEF ShapeInv, HeapInv
    <2>11. UnusedInv'
      <3>1. \A q \in Proc : q = Root \/ q >= created + 1 => q # created /\ (q = Root \/ q >= created)
        BY <2>4 DEF Root, Proc
      <3> QED BY <2>1, <2>4, <2>5, <3>1 DEF ShapeInv, UnusedInv
    <2> QED BY <2>8, <2>9, <2>10, <2>11 DEF ShapeInv
  <1> QED BY <1>1, <1>2

\* What Exec gives out: a frame for each page of the new image, among those that
\* were free or have just been freed.
LEMMA Replaced ==
    ASSUME ShapeInv, NEW p \in Proc, Exec(p),
           ExecFault(p, Frame \ (frames \ Freed(p))) = NoPanic
    PROVE  \E g :
              /\ g \in [ImagePages -> Frame \ (frames \ Freed(p))]
              /\ \A x, y \in ImagePages : g[x] = g[y] => x = y
              /\ p = current /\ p # Root /\ task[p] = Idle
              /\ frames' = (frames \ Freed(p)) \cup {g[x] : x \in ImagePages}
              /\ allocations' = [allocations EXCEPT ![p] = Image(g)]
              /\ mapped' = [page \in Page |->
                    IF page \in ImagePages THEN g[page] ELSE Disabled(p)[page]]
              /\ heap_end' = [heap_end EXCEPT ![p] = HeapStart]
              /\ UNCHANGED <<kernel, tables, created, current, task, raced, foreign, panic>>
  <1> DEFINE free == Frame \ (frames \ Freed(p))
             g == Placement(ImagePages, free)
  <1>1. p = current /\ p # Root /\ task[p] = Idle
    BY DEF Exec, User, At, ShapeInv, TaskInv, TaskShape
  <1>2. Cardinality(ImagePages) <= Cardinality(free)
    <2>1. Cardinality(ImagePages) \in Nat /\ Cardinality(free) \in Nat
      BY ImageFinite, FrameFinite
    <2>2. ~(Cardinality(free) < Cardinality(ImagePages))
      BY DEF ExecFault, NoFrame, NoPanic, NotPresent, UnallocatedFrame
    <2> QED BY <2>1, <2>2
  <1>3. g \in [ImagePages -> free] /\ \A x, y \in ImagePages : g[x] = g[y] => x = y
    BY <1>2, ImageFinite, PlacementFits
  <1>4. /\ frames' = (frames \ Freed(p)) \cup {g[x] : x \in ImagePages}
        /\ allocations' = [allocations EXCEPT ![p] = Image(g)]
        /\ mapped' = [page \in Page |->
              IF page \in ImagePages THEN g[page] ELSE Disabled(p)[page]]
        /\ heap_end' = [heap_end EXCEPT ![p] = HeapStart]
        /\ UNCHANGED <<kernel, tables, created, current, task, raced, foreign, panic>>
    BY DEF Exec
  <1> HIDE DEF g
  <1> QED BY <1>1, <1>3, <1>4

LEMMA ShapeExec ==
    ASSUME ShapeInv, NEW p \in Proc, Exec(p)
    PROVE  ShapeInv'
  <1> DEFINE fault == ExecFault(p, Frame \ (frames \ Freed(p)))
  <1>1. CASE fault # NoPanic
    <2>1. Stop(fault)
      BY <1>1 DEF Exec
    <2>2. fault \in {NoFrame, AlreadyMapped, NotPresent, UnallocatedFrame}
      BY <1>1 DEF ExecFault, ChangeFault
    <2> HIDE DEF fault
    <2> QED BY <2>1, <2>2 DEF Stop, ShapeInv, TypeOK, TaskInv, HeapInv, UnusedInv, HeapTop,
                             Held, pagetable, owners
  <1>2. CASE fault = NoPanic
    <2>1. PICK g :
              /\ g \in [ImagePages -> Frame \ (frames \ Freed(p))]
              /\ \A x, y \in ImagePages : g[x] = g[y] => x = y
              /\ p = current /\ p # Root /\ task[p] = Idle
              /\ frames' = (frames \ Freed(p)) \cup {g[x] : x \in ImagePages}
              /\ allocations' = [allocations EXCEPT ![p] = Image(g)]
              /\ mapped' = [page \in Page |->
                    IF page \in ImagePages THEN g[page] ELSE Disabled(p)[page]]
              /\ heap_end' = [heap_end EXCEPT ![p] = HeapStart]
              /\ UNCHANGED <<kernel, tables, created, current, task, raced, foreign, panic>>
      BY <1>2, Replaced
    <2>2. \A x \in ImagePages : g[x] \in Frame
      BY <2>1
    <2>3. /\ Image(g) \in [Page -> FrameOrNone]
          /\ \A page \in Page : Image(g)[page] # None <=> page \in ImagePages
      BY <2>1, <2>2, ImageFacts
    <2>4. p < created /\ p \in Int /\ created \in Nat /\ created # 1
      BY <2>1 DEF ShapeInv, TypeOK, Root
    <2>5. /\ allocations' \in [Proc -> [Page -> FrameOrNone]]
          /\ allocations'[p] = Image(g)
          /\ \A q \in Proc \ {p} : allocations'[q] = allocations[q]
      BY <2>1, <2>3 DEF ShapeInv, TypeOK
    <2>6. /\ heap_end' \in [Proc -> 0 .. Pages]
          /\ heap_end'[p] = HeapStart
          /\ \A q \in Proc \ {p} : heap_end'[q] = heap_end[q]
      <3>1. HeapStart \in 0 .. Pages
        BY HeapStartFacts, ConstantFacts DEF Page
      <3> QED BY <2>1, <3>1 DEF ShapeInv, TypeOK
    <2>7. TypeOK'
      <3>1. frames' \subseteq Frame
        BY <2>1, <2>2 DEF ShapeInv, TypeOK
      <3>2. Disabled(p) \in [Page -> FrameOrNone]
        BY DEF Disabled, ShapeInv, TypeOK, FrameOrNone
      <3>3. mapped' \in [Page -> FrameOrNone]
        <4> HIDE DEF Disabled
        <4> QED BY <2>1, <2>2, <3>2 DEF FrameOrNone
      <3> QED BY <2>1, <2>5, <2>6, <3>1, <3>3 DEF ShapeInv, TypeOK
    <2>8. TaskInv'
      <3>1. task[p].use = "none"
        BY <2>1 DEF Idle
      <3> QED BY <2>1, <2>5, <3>1 DEF ShapeInv, TaskInv
    <2>9. HeapInv'
      <3>1. Held(p)' = ImagePages /\ \A q \in Proc \ {p} : Held(q)' = Held(q)
        BY <2>3, <2>5, ConstantFacts DEF Held
      <3>2. HeapTop(p)' = HeapStart /\ \A q \in Proc \ {p} : HeapTop(q)' = HeapTop(q)
        BY <2>1, <2>6 DEF HeapTop, Idle
      <3> QED BY <3>1, <3>2, ImageBelowHeap DEF ShapeInv, HeapInv
    <2>10. UnusedInv'
      <3>1. \A q \in Proc : q = Root \/ q >= created => q # p
        BY <2>1, <2>4
      <3> QED BY <2>1, <2>4, <2>5, <3>1 DEF ShapeInv, UnusedInv
    <2> QED BY <2>7, <2>8, <2>9, <2>10 DEF ShapeInv
  <1> QED BY <1>1, <1>2

LEMMA ShapeStep == ShapeInv /\ [Next]_vars => ShapeInv'
  <1> SUFFICES ASSUME ShapeInv, [Next]_vars PROVE ShapeInv'
    OBVIOUS
  <1>1. CASE UNCHANGED vars
    BY <1>1 DEF vars, ShapeInv, TypeOK, TaskInv, HeapInv, UnusedInv, HeapTop, Held,
               pagetable, owners
  <1>2. CASE Next
    BY <1>1, <1>2, ShapeBoot, ShapeSwitch, ShapeAllocPages, ShapeKernelGrows,
       ShapeMapDevice, ShapeFindFrame, ShapeTakeFrame, ShapeMapPage, ShapeRecordPage,
       ShapeFork, ShapeExec DEF Next, Halted
  <1> QED BY <1>1, <1>2

\* Type correctness.
THEOREM TypesHold == Spec => []TypeOK
  <1>1. ShapeInv => TypeOK
    BY DEF ShapeInv
  <1> QED BY <1>1, ShapeInit, ShapeStep, PTL DEF Spec

-----------------------------------------------------------------------------
(* Owners *)

LEMMA OwnersInit == Init => OwnersInv
  <1> SUFFICES ASSUME Init PROVE OwnersInv
    OBVIOUS
  <1>1. \A p \in Proc : task[p] = Idle /\ allocations[p] = Nothing /\ Held(p) = {}
    BY DEF Init, Held, Nothing
  <1>2. Idle.frame = None /\ Idle.at = "user"
    BY DEF Idle
  <1>3. frames = Device /\ kernel = Device /\ mapped = Nothing /\ current \in Proc
    BY ConstantFacts DEF Init
  <1>4. CarriedInv /\ RecordInv
    BY <1>1, <1>2 DEF CarriedInv, RecordInv
  <1>5. FramesApart /\ ActiveSpace /\ NoneLeaks
    BY <1>1, <1>3 DEF FramesApart, ActiveSpace, NoneLeaks
  <1>6. MapFaultsByRace
    BY DEF Init, MapFaultsByRace, NoPanic, AlreadyMapped, NotPresent
  <1> QED BY <1>4, <1>5, <1>6 DEF OwnersInv

\* A step that gives nothing out, maps nothing, and leaves the frame and the page
\* of every call alone: a call may begin with the frame of a device, or
\* with one that is no device's, and foreign says so.
LEMMA OwnersQuiet ==
    ASSUME ShapeInv, OwnersInv,
           UNCHANGED <<frames, kernel, mapped, allocations, current, raced>>,
           foreign => foreign',
           panic' \in {AlreadyMapped, NotPresent} => raced,
           \A q \in Proc :
              /\ \/ task'[q].frame = task[q].frame
                 \/ task[q].frame = None /\ (foreign' \/ task'[q].frame \in Device)
              /\ task'[q].at = "record" <=> task[q].at = "record"
              /\ task[q].at = "record" => task'[q] = task[q]
    PROVE  OwnersInv'
  <1>1. \A q \in Proc : Held(q)' = Held(q)
    BY DEF Held
  <1>2. current \in Proc /\ current' = current
    BY ProcsAssumption DEF ShapeInv, TypeOK, Proc
  <1>3. CarriedInv'
    BY <1>1 DEF OwnersInv, CarriedInv
  <1>4. RecordInv'
    BY DEF OwnersInv, RecordInv
  <1>5. FramesApart'
    BY <1>1 DEF OwnersInv, FramesApart
  <1>6. ActiveSpace'
    BY <1>2 DEF OwnersInv, ActiveSpace
  <1>7. NoneLeaks'
    <2>1. None \notin frames
      BY ConstantFacts DEF ShapeInv, TypeOK
    <2> QED BY <1>1, <2>1 DEF OwnersInv, NoneLeaks
  <1>8. MapFaultsByRace'
    BY DEF MapFaultsByRace
  <1> QED BY <1>3, <1>4, <1>5, <1>6, <1>7, <1>8 DEF OwnersInv

\* The panics for want of a frame, and for one that is freed twice.
LEMMA OwnersStop ==
    ASSUME ShapeInv, OwnersInv, NEW m, Stop(m), m \notin {AlreadyMapped, NotPresent}
    PROVE  OwnersInv'
  BY OwnersQuiet DEF Stop, pagetable, owners

LEMMA OwnersStarts ==
    ASSUME ShapeInv, OwnersInv, NEW p \in Proc, NEW t, Starts(p, t),
           foreign => foreign',
           foreign' \/ t.frame \in {None} \cup Device, t.at # "record"
    PROVE  OwnersInv'
  <1>1. task[p] = Idle /\ task' = [task EXCEPT ![p] = t]
    BY DEF Starts, User, At, ShapeInv, TaskInv, TaskShape
  <1>2. /\ task'[p] = t /\ \A q \in Proc \ {p} : task'[q] = task[q]
        /\ task[p].frame = None /\ task[p].at = "user"
    BY <1>1 DEF ShapeInv, TypeOK, Idle
  <1>3. panic' \in {AlreadyMapped, NotPresent} => raced
    BY DEF Starts, OwnersInv, MapFaultsByRace
  <1> QED BY <1>2, <1>3, OwnersQuiet DEF Starts, pagetable, owners

LEMMA OwnersFindFrame ==
    ASSUME ShapeInv, OwnersInv, NEW p \in Proc, FindFrame(p)
    PROVE  OwnersInv'
  <1>1. CASE Stop(NoFrame)
    BY <1>1, OwnersStop DEF NoFrame, AlreadyMapped, NotPresent
  <1>2. CASE ~Stop(NoFrame)
    <2>1. PICK f \in Free :
             /\ task' = [task EXCEPT ![p].at = "take", ![p].found = f]
             /\ UNCHANGED <<frames, kernel, pagetable, owners, raced, foreign, panic>>
      BY <1>2 DEF FindFrame
    <2>2. task[p].at = "find" /\ task[p] \in Tasks
      BY DEF FindFrame, At, ShapeInv, TypeOK
    <2>3. /\ task'[p].frame = task[p].frame /\ task'[p].at = "take"
          /\ \A q \in Proc \ {p} : task'[q] = task[q]
      BY <2>1, <2>2 DEF ShapeInv, TypeOK, Tasks
    <2>4. panic' \in {AlreadyMapped, NotPresent} => raced
      BY <2>1 DEF OwnersInv, MapFaultsByRace
    <2> QED BY <2>1, <2>2, <2>3, <2>4, OwnersQuiet DEF pagetable, owners
  <1> QED BY <1>1, <1>2

\* A frame that is free when it is marked is nobody's.
LEMMA OwnersTakeFrame ==
    ASSUME ShapeInv, OwnersInv, NEW p \in Proc, TakeFrame(p)
    PROVE  OwnersInv'
  <1> DEFINE f == task[p].found
  <1>1. PICK t \in Tasks :
           /\ task' = [task EXCEPT ![p] = t]
           /\ \/ task[p].use = "kernel" /\ t = Idle
              \/ /\ task[p].use \in {"heap", "device"} /\ t.at = "map"
                 /\ t.use = task[p].use /\ t.page = task[p].page
                 /\ t.left = task[p].left /\ ~t.table /\ t.found = None
                 /\ t.frame = IF task[p].table THEN task[p].frame ELSE task[p].found
    BY TakenTask
  <1>2. /\ task[p].at = "take" /\ p = current
        /\ frames' = frames \cup {f}
        /\ UNCHANGED <<mapped, allocations, current, foreign, panic>>
    BY DEF TakeFrame, At, owners
  <1>3. raced => raced'
    BY DEF TakeFrame
  <1>4. MapFaultsByRace'
    BY <1>2, <1>3 DEF OwnersInv, MapFaultsByRace
  <1>5. CASE raced'
    BY <1>4, <1>5 DEF OwnersInv, CarriedInv, RecordInv, FramesApart, ActiveSpace, NoneLeaks
  <1>6. CASE ~raced'
    <2>1. ~raced /\ f \notin frames /\ f \in Frame /\ f # None
      BY <1>2, <1>6, ConstantFacts DEF TakeFrame, ShapeInv, TaskInv, TaskShape
    <2>2. \A q \in Proc : Held(q)' = Held(q)
      BY <1>2 DEF Held
    <2>3. /\ task'[p] = t /\ \A q \in Proc \ {p} : task'[q] = task[q]
      BY <1>1 DEF ShapeInv, TypeOK
    <2>4. t.at # "record" /\ task[p].at # "record"
      BY <1>1, <1>2 DEF Idle
    <2>5. RecordInv' /\ ActiveSpace'
      BY <1>2, <2>1, <2>3, <2>4 DEF OwnersInv, RecordInv, ActiveSpace
    <2>6. ~foreign /\ f \notin Device =>
            /\ f \notin kernel
            /\ \A q \in Proc : \A y \in Held(q) : allocations[q][y] # f
            /\ \A q \in Proc : task[q].frame # f
      BY <2>1 DEF OwnersInv, FramesApart, CarriedInv
    <2>7. CASE task[p].use = "kernel" \/ task[p].table
      <3>1. kernel' = kernel \cup {f}
        BY <1>2, <2>7 DEF TakeFrame, ShapeInv, TaskInv, TaskShape
      <3>2. t.frame = task[p].frame
        BY <1>1, <2>7 DEF ShapeInv, TaskInv, TaskShape, Idle
      <3>3. CarriedInv'
        BY <1>2, <2>1, <2>2, <2>3, <2>6, <3>1, <3>2 DEF OwnersInv, CarriedInv
      <3>4. FramesApart'
        BY <1>2, <2>1, <2>2, <2>6, <3>1 DEF OwnersInv, FramesApart
      <3>5. NoneLeaks'
        BY <1>2, <2>1, <2>2, <2>3, <3>1, <3>2 DEF OwnersInv, NoneLeaks
      <3> QED BY <1>4, <2>5, <3>3, <3>4, <3>5 DEF OwnersInv
    <2>8. CASE task[p].use # "kernel" /\ ~task[p].table
      <3>1. kernel' = kernel
        BY <2>8 DEF TakeFrame
      <3>2. t.frame = f /\ task[p].use \in {"heap", "device"}
        BY <1>1, <2>8
      <3>3. task[p].frame = None
        BY <1>2, <2>8, <3>2 DEF ShapeInv, TaskInv, TaskShape, Carries
      <3> HIDE DEF f
      <3>4. CarriedInv'
        BY <1>2, <2>1, <2>2, <2>3, <2>6, <3>1, <3>2, <3>3 DEF OwnersInv, CarriedInv
      <3>5. FramesApart'
        BY <1>2, <2>1, <2>2, <2>6, <3>1 DEF OwnersInv, FramesApart
      <3>6. NoneLeaks'
        <4>1. None \notin frames
          BY ConstantFacts DEF ShapeInv, TypeOK
        <4> QED BY <1>2, <2>1, <2>2, <2>3, <3>1, <3>2, <3>3, <4>1 DEF OwnersInv, NoneLeaks
      <3> QED BY <1>4, <2>5, <3>4, <3>5, <3>6 DEF OwnersInv
    <2> QED BY <2>7, <2>8
  <1> QED BY <1>5, <1>6

\* What is mapped where no process is between the page table and its records.
LEMMA MappedPages ==
    ASSUME ShapeInv, OwnersInv, ~raced, task[current].at # "record",
           NEW page \in Page
    PROVE  mapped[page] = allocations[current][page]
  BY DEF OwnersInv, ActiveSpace

LEMMA OwnersMapPage ==
    ASSUME ShapeInv, OwnersInv, NEW p \in Proc, MapPage(p)
    PROVE  OwnersInv'
  <1> DEFINE x == task[p].page
  <1>1. /\ task[p].at = "map" /\ p = current
        /\ UNCHANGED <<frames, kernel, allocations, current, raced, foreign>>
    BY DEF MapPage, At, owners
  <1>2. /\ task[p] \in Tasks /\ TaskShape(task[p]) /\ x \in Page
        /\ task[p].use \in {"heap", "device"}
    BY <1>1 DEF ShapeInv, TypeOK, TaskInv, TaskShape, Tasks, Uses
  <1>3. allocations[p][x] = None /\ task[p].frame # None
    BY <1>1, <1>2 DEF ShapeInv, TaskInv, TaskShape, Carries
  <1>4. CASE TableOf(x) \notin tables
    <2>1. task' = [task EXCEPT ![p].at = "find", ![p].table = TRUE] /\ UNCHANGED <<mapped, panic>>
      BY <1>4 DEF MapPage
    <2>2. /\ task'[p].frame = task[p].frame /\ task'[p].at = "find"
          /\ \A q \in Proc \ {p} : task'[q] = task[q]
      BY <1>2, <2>1 DEF ShapeInv, TypeOK, Tasks
    <2>3. panic' \in {AlreadyMapped, NotPresent} => raced
      BY <2>1 DEF OwnersInv, MapFaultsByRace
    <2> QED BY <1>1, <2>1, <2>2, <2>3, OwnersQuiet
  <1>5. CASE TableOf(x) \in tables /\ mapped[x] # None
    <2>1. UNCHANGED <<mapped, task>>
      BY <1>5 DEF MapPage
    <2>2. raced
      BY <1>1, <1>2, <1>3, <1>5, MappedPages
    <2> QED BY <1>1, <2>1, <2>2, OwnersQuiet
  <1>6. CASE TableOf(x) \in tables /\ mapped[x] = None
    <2>1. /\ task' = [task EXCEPT ![p].at = "record"]
          /\ mapped' = [mapped EXCEPT ![x] = task[p].frame]
          /\ UNCHANGED panic
      BY <1>6 DEF MapPage
    <2>2. /\ task'[p].frame = task[p].frame /\ task'[p].at = "record" /\ task'[p].page = x
          /\ \A q \in Proc \ {p} : task'[q] = task[q]
      BY <1>2, <2>1 DEF ShapeInv, TypeOK, Tasks
    <2>3. /\ mapped'[x] = task[p].frame
          /\ \A y \in Page \ {x} : mapped'[y] = mapped[y]
      BY <1>2, <2>1 DEF ShapeInv, TypeOK
    <2>4. \A q \in Proc : Held(q)' = Held(q) /\ task'[q].frame = task[q].frame
      BY <1>1, <2>2 DEF Held
    <2> HIDE DEF x
    <2>5. RecordInv'
      BY <1>1, <2>2, <2>3 DEF OwnersInv, RecordInv
    <2>6. ActiveSpace'
      BY <1>1, <2>2, <2>3, MappedPages DEF ActiveSpace
    <2>7. CarriedInv' /\ FramesApart' /\ NoneLeaks'
      BY <1>1, <2>4 DEF OwnersInv, CarriedInv, FramesApart, NoneLeaks
    <2>8. MapFaultsByRace'
      BY <1>1, <2>1 DEF OwnersInv, MapFaultsByRace
    <2> QED BY <2>5, <2>6, <2>7, <2>8 DEF OwnersInv
  <1> QED BY <1>4, <1>5, <1>6

LEMMA OwnersRecordPage ==
    ASSUME ShapeInv, OwnersInv, NEW p \in Proc, RecordPage(p)
    PROVE  OwnersInv'
  <1> DEFINE x == task[p].page
             f == task[p].frame
  <1>1. /\ p = current /\ p # Root /\ task[p].at = "record"
        /\ task[p] \in Tasks /\ TaskShape(task[p])
        /\ task[p].use \in {"heap", "device"}
        /\ f \in Frame
        /\ allocations' = [allocations EXCEPT ![p][x] = f]
        /\ UNCHANGED <<frames, kernel, tables, mapped, created, current, raced, foreign, panic>>
    BY RecordedPage
  <1>2. x \in Page /\ f # None
    BY <1>1, ConstantFacts DEF Tasks
  <1>3. /\ \A q \in Proc \ {p} : allocations'[q] = allocations[q]
        /\ \A y \in Page \ {x} : allocations'[p][y] = allocations[p][y]
        /\ allocations'[p][x] = f
    BY <1>1, <1>2 DEF ShapeInv, TypeOK, FrameOrNone
  <1>4. /\ task'[p].frame = None /\ task'[p].at # "record"
        /\ \A q \in Proc \ {p} : task'[q] = task[q]
    <2>1. CASE task[p].left > 1
      <3>1. /\ task[p].left # 1
            /\ task' = [task EXCEPT ![p].at = "find", ![p].page = x + 1,
                                    ![p].left = task[p].left - 1, ![p].frame = None]
        BY <2>1 DEF RecordPage
      <3> QED BY <1>1, <3>1 DEF ShapeInv, TypeOK, Tasks
    <2>2. CASE ~(task[p].left > 1)
      <3>1. task' = [task EXCEPT ![p] = Idle]
        BY <2>2 DEF RecordPage
      <3> QED BY <3>1 DEF ShapeInv, TypeOK, Idle
    <2> QED BY <2>1, <2>2
  <1>5. \A q \in Proc \ {p} : Held(q)' = Held(q)
    BY <1>3 DEF Held
  <1>6. \A y \in Page : y \in Held(p)' <=> y = x \/ y \in Held(p)
    BY <1>2, <1>3 DEF Held
  <1>7. \A q \in Proc : Held(q)' \subseteq Page
    BY DEF Held
  <1> HIDE DEF x, f
  <1>8. MapFaultsByRace'
    BY <1>1 DEF OwnersInv, MapFaultsByRace
  <1>9. CASE raced
    BY <1>1, <1>8, <1>9 DEF OwnersInv, CarriedInv, RecordInv, FramesApart, ActiveSpace, NoneLeaks
  <1>10. CASE ~raced
    <2>1. mapped[x] = f
      BY <1>1, <1>10 DEF OwnersInv, RecordInv, x, f
    <2>2. ~foreign /\ f \notin Device =>
            /\ f \in frames \ kernel
            /\ \A q \in Proc : \A y \in Held(q) : allocations[q][y] # f
            /\ \A q \in Proc : task[q].frame = f => q = p
      BY <1>2, <1>10 DEF OwnersInv, CarriedInv, f
    <2>3. \A q \in Proc : \A y \in Held(q)' :
             \/ q = p /\ y = x /\ allocations'[q][y] = f
             \/ y \in Held(q) /\ allocations'[q][y] = allocations[q][y]
      BY <1>3, <1>5, <1>6, <1>7
    <2>4. CarriedInv'
      BY <1>1, <1>4, <1>10, <2>2, <2>3 DEF OwnersInv, CarriedInv
    <2>5. RecordInv'
      BY <1>1, <1>4, <1>10 DEF OwnersInv, RecordInv
    <2>6. FramesApart'
      BY <1>1, <1>10, <2>2, <2>3 DEF OwnersInv, FramesApart
    <2>7. ActiveSpace'
      <3>1. \A y \in Page \ {x} : mapped[y] = allocations[p][y]
        BY <1>1, <1>10 DEF OwnersInv, ActiveSpace, x
      <3> QED BY <1>1, <1>3, <2>1, <3>1 DEF ActiveSpace
    <2>8. NoneLeaks'
      <3> SUFFICES ASSUME NEW g \in frames, g \notin kernel
                   PROVE  \/ \E q \in Proc : \E y \in Held(q)' : allocations'[q][y] = g
                          \/ \E q \in Proc : task'[q].frame = g
        BY <1>1 DEF NoneLeaks
      <3>1. CASE \E q \in Proc : \E y \in Held(q) : allocations[q][y] = g
        <4>1. PICK q \in Proc : \E y \in Held(q) : allocations[q][y] = g
          BY <3>1
        <4>2. PICK y \in Held(q) : allocations[q][y] = g
          BY <4>1
        <4>3. y \in Page /\ allocations[q][y] # None
          BY DEF Held
        <4>4. ~(q = p /\ y = x)
          <5>1. allocations[p][x] = None
            BY <1>1 DEF ShapeInv, TaskInv, x
          <5> QED BY <4>3, <5>1
        <4>5. y \in Held(q)' /\ allocations'[q][y] = g
          BY <1>3, <1>5, <1>6, <4>2, <4>3, <4>4
        <4> QED BY <4>5
      <3>2. CASE \E q \in Proc : task[q].frame = g
        BY <1>2, <1>3, <1>4, <1>6, <3>2 DEF f
      <3> QED BY <1>10, <3>1, <3>2 DEF OwnersInv, NoneLeaks
    <2> QED BY <1>8, <2>4, <2>5, <2>6, <2>7, <2>8 DEF OwnersInv
  <1> QED BY <1>9, <1>10

\* A switch outside of the call that maps a page unmaps all that is mapped and
\* maps the pages of the next process: no assertion fails.
LEMMA OwnersSwitch ==
    ASSUME ShapeInv, OwnersInv, NEW q \in Proc, Switch(q)
    PROVE  OwnersInv'
  <1>1. /\ UNCHANGED <<frames, kernel, tables, allocations, heap_end, created, task, foreign>>
        /\ raced' = (raced \/ task[current].at = "record")
        /\ panic' = ChangeFault(current, Held(q))
        /\ panic' = NoPanic => mapped' = Enabled(q, Disabled(current)) /\ current' = q
        /\ panic' # NoPanic => UNCHANGED <<mapped, current>>
    BY DEF Switch
  <1>2. CarriedInv' /\ FramesApart' /\ NoneLeaks'
    <2>1. (raced => raced') /\ \A p \in Proc : Held(p)' = Held(p)
      BY <1>1 DEF Held
    <2>2. CarriedInv'
      BY <1>1, <2>1 DEF OwnersInv, CarriedInv
    <2>3. FramesApart' /\ NoneLeaks'
      BY <1>1, <2>1 DEF OwnersInv, FramesApart, NoneLeaks
    <2> QED BY <2>2, <2>3
  <1>3. CASE raced'
    BY <1>2, <1>3 DEF OwnersInv, RecordInv, ActiveSpace, MapFaultsByRace
  <1>4. CASE ~raced'
    <2>1. ~raced /\ task[current].at # "record"
      BY <1>1, <1>4
    <2>2. \A page \in Page : mapped[page] = allocations[current][page]
      BY <2>1, MappedPages
    <2>3. \A page \in Page : Disabled(current)[page] = None
      BY <2>2 DEF Disabled, Held
    <2>4. panic' = NoPanic
      <3>1. \A page \in Held(current) : mapped[page] # None
        BY <2>2 DEF Held
      <3>2. \A page \in Held(q) : Disabled(current)[page] = None
        BY <2>3 DEF Held
      <3> QED BY <1>1, <3>1, <3>2 DEF ChangeFault
    <2>5. \A page \in Page : mapped'[page] = allocations[q][page]
      <3> HIDE DEF Disabled
      <3> QED BY <1>1, <2>3, <2>4 DEF Enabled, Held
    <2>6. ActiveSpace'
      BY <1>1, <2>4, <2>5 DEF ActiveSpace
    <2>7. RecordInv'
      BY <1>1, <2>1 DEF OwnersInv, RecordInv
    <2>8. MapFaultsByRace'
      BY <2>4 DEF MapFaultsByRace, NoPanic, AlreadyMapped, NotPresent
    <2> QED BY <1>2, <2>6, <2>7, <2>8 DEF OwnersInv
  <1> QED BY <1>3, <1>4

LEMMA OwnersBoot ==
    ASSUME ShapeInv, OwnersInv, Boot
    PROVE  OwnersInv'
  <1>1. PICK g, needs :
              /\ needs = ImagePages \cup {Stack}
                         \cup {TableNeed(t) : t \in {TableOf(page) : page \in ImagePages}}
              /\ g \in [needs -> Frame \ Device]
              /\ \A x, y \in needs : g[x] = g[y] => x = y
              /\ created = 1 /\ created' = 2 /\ current = Root
              /\ frames = Device /\ kernel = Device
              /\ frames' = Device \cup {g[x] : x \in needs}
              /\ kernel' = Device \cup {g[x] : x \in needs \ ImagePages}
              /\ tables' = {TableOf(page) : page \in ImagePages}
              /\ allocations' = [allocations EXCEPT ![1] = Image(g)]
              /\ mapped' = mapped
              /\ heap_end' = [heap_end EXCEPT ![1] = HeapStart]
              /\ UNCHANGED <<current, task, raced, foreign, panic>>
    BY Booted
  <1>2. \A x \in needs : g[x] \in Frame \ Device
    BY <1>1
  <1>3. /\ \A page \in ImagePages : Image(g)[page] = g[page]
        /\ \A page \in Page : Image(g)[page] # None <=> page \in ImagePages
    BY <1>1, <1>2, ImageFacts
  <1>4. ImagePages \subseteq needs /\ ImagePages \subseteq Page
    BY <1>1, ConstantFacts
  <1>5. /\ \A q \in Proc : task[q].frame = None /\ task[q].at = "user"
        /\ \A q \in Proc : allocations[q] = Nothing
        /\ mapped = Nothing
    <2>1. \A q \in Proc : q = Root \/ q >= created
      BY <1>1 DEF Proc, Root
    <2> QED BY <1>1, <2>1 DEF ShapeInv, UnusedInv, Idle
  <1>6. /\ allocations'[1] = Image(g) /\ \A q \in Proc \ {1} : allocations'[q] = Nothing
        /\ Held(1)' = ImagePages /\ \A q \in Proc \ {1} : Held(q)' = {}
    <2>1. allocations'[1] = Image(g) /\ \A q \in Proc \ {1} : allocations'[q] = Nothing
      BY <1>1, <1>5, ConstantFacts DEF ShapeInv, TypeOK
    <2>2. \A page \in Page : Nothing[page] = None
      BY DEF Nothing
    <2> HIDE DEF Nothing, Image
    <2> QED BY <1>3, <1>4, <2>1, <2>2 DEF Held
  <1> HIDE DEF Image
  <1>7. CarriedInv' /\ RecordInv' /\ MapFaultsByRace'
    BY <1>1, <1>5 DEF CarriedInv, RecordInv, OwnersInv, MapFaultsByRace
  <1>8. FramesApart'
    <2>1. \A page \in ImagePages : g[page] \in frames' \ kernel'
      BY <1>1, <1>2, <1>4
    <2>2. kernel' \ Device \subseteq frames'
      BY <1>1
    <2> QED BY <1>1, <1>3, <1>4, <1>6, <2>1, <2>2 DEF FramesApart
  <1>9. ActiveSpace'
    BY <1>1, <1>5, <1>6, ConstantFacts DEF ActiveSpace, Root
  <1>10. NoneLeaks'
    <2>1. ASSUME NEW f \in frames', f \notin kernel'
          PROVE  f \in {g[x] : x \in ImagePages}
      BY <1>1, <2>1
    <2> QED BY <1>3, <1>6, <2>1, ConstantFacts DEF NoneLeaks
  <1> QED BY <1>7, <1>8, <1>9, <1>10 DEF OwnersInv

LEMMA OwnersFork ==
    ASSUME ShapeInv, OwnersInv, NEW p \in Proc, Fork(p)
    PROVE  OwnersInv'
  <1>1. CASE Stop(NoFrame)
    BY <1>1, OwnersStop DEF NoFrame, AlreadyMapped, NotPresent
  <1>2. CASE ~Stop(NoFrame)
    <2>1. PICK g :
              /\ g \in [Held(p) \cup {Stack} -> Free]
              /\ \A x, y \in Held(p) \cup {Stack} : g[x] = g[y] => x = y
              /\ p = current /\ p # Root /\ task[p] = Idle
              /\ created < MaxProcs /\ created \in Proc
              /\ created' = created + 1
              /\ frames' = frames \cup {g[x] : x \in Held(p) \cup {Stack}}
              /\ kernel' = kernel \cup {g[Stack]}
              /\ allocations' = [allocations EXCEPT ![created] = CopiedPages(p, g)]
              /\ heap_end' = [heap_end EXCEPT ![created] = heap_end[p]]
              /\ UNCHANGED <<tables, mapped, current, task, raced, foreign, panic>>
      BY <1>2, Forked
    <2>2. PICK child \in Proc : child = created
      BY <2>1
    <2>3. /\ \A x \in Held(p) \cup {Stack} : g[x] \in Frame /\ g[x] \notin frames
          /\ Held(p) \subseteq Page /\ Stack \notin Held(p)
      BY <2>1, ConstantFacts DEF Free, Held
    <2>4. /\ \A page \in Held(p) : CopiedPages(p, g)[page] = g[page]
          /\ \A page \in Page : CopiedPages(p, g)[page] # None <=> page \in Held(p)
      BY SMTT(60), <2>1, <2>3, CopiedFacts
    <2>5. /\ allocations'[child] = CopiedPages(p, g)
          /\ \A q \in Proc \ {child} : allocations'[q] = allocations[q]
      BY <2>1, <2>2 DEF ShapeInv, TypeOK
    <2>6. /\ Held(child)' = Held(p)
          /\ \A q \in Proc \ {child} : Held(q)' = Held(q)
      <3>1. Held(child)' = {page \in Page : CopiedPages(p, g)[page] # None}
        BY <2>5 DEF Held
      <3> QED BY <2>3, <2>4, <2>5, <3>1 DEF Held
    <2>7. child # current /\ Held(child) = {}
      <3>1. created \in Nat /\ current \in 0 .. created - 1
        BY DEF ShapeInv, TypeOK
      <3>2. child >= created
        BY <2>2, <3>1
      <3>3. allocations[child] = Nothing
        BY <3>2 DEF ShapeInv, UnusedInv
      <3> QED BY <2>2, <3>1, <3>3 DEF Held, Nothing
    <2> HIDE DEF CopiedPages
    <2>8. \A q \in Proc : \A y \in Held(q)' :
             \/ q = child /\ y \in Held(p) /\ allocations'[q][y] = g[y]
             \/ q # child /\ y \in Held(q) /\ allocations'[q][y] = allocations[q][y]
      BY <2>4, <2>5, <2>6
    <2>9. CASE raced
      BY <2>1, <2>9 DEF OwnersInv, CarriedInv, RecordInv, FramesApart, ActiveSpace,
                       NoneLeaks, MapFaultsByRace
    <2>10. CASE ~raced
      <3>1. MapFaultsByRace' /\ RecordInv'
        BY <2>1 DEF OwnersInv, MapFaultsByRace, RecordInv
      <3>2. ActiveSpace'
        BY <2>1, <2>5, <2>7, <2>10 DEF OwnersInv, ActiveSpace, ShapeInv, TypeOK, Proc
      <3>3. CarriedInv'
        BY <2>1, <2>3, <2>8, <2>10 DEF OwnersInv, CarriedInv
      <3>4. ~foreign => kernel' \ Device \subseteq frames'
        BY <2>1, <2>10 DEF OwnersInv, FramesApart
      <3>5. ASSUME ~foreign, NEW q \in Proc, NEW y \in Held(q)', allocations'[q][y] \notin Device
            PROVE  /\ allocations'[q][y] \in frames' \ kernel'
                   /\ \A r \in Proc : \A z \in Held(r)' :
                         allocations'[r][z] = allocations'[q][y] => r = q /\ z = y
        <4>1. CASE q = child
          <5>1. y \in Held(p) /\ allocations'[q][y] = g[y]
            BY <2>8, <4>1
          <5>2. g[y] \notin frames /\ g[y] \in frames' /\ g[y] # g[Stack]
            BY <2>1, <2>3, <5>1
          <5>3. g[y] \notin kernel'
            BY <2>1, <2>10, <3>5, <5>1, <5>2 DEF OwnersInv, FramesApart
          <5>4. \A r \in Proc : \A z \in Held(r) : allocations[r][z] # g[y]
            BY <2>10, <3>5, <5>1, <5>2 DEF OwnersInv, FramesApart
          <5> QED BY <2>1, <2>8, <4>1, <5>1, <5>2, <5>3, <5>4
        <4>2. CASE q # child
          <5>1. y \in Held(q) /\ allocations'[q][y] = allocations[q][y]
            BY <2>8, <4>2
          <5>2. /\ allocations[q][y] \in frames \ kernel
                /\ \A r \in Proc : \A z \in Held(r) :
                      allocations[r][z] = allocations[q][y] => r = q /\ z = y
            BY <2>10, <3>5, <5>1 DEF OwnersInv, FramesApart
          <5>3. g[Stack] \notin frames
            BY <2>3
          <5> QED BY <2>1, <2>3, <2>8, <5>1, <5>2, <5>3
        <4> QED BY <4>1, <4>2
      <3>6. FramesApart'
        BY <2>1, <2>10, <3>4, <3>5 DEF FramesApart
      <3>7. NoneLeaks'
        <4> SUFFICES ASSUME NEW f \in frames', f \notin kernel'
                     PROVE  \/ \E q \in Proc : \E y \in Held(q)' : allocations'[q][y] = f
                            \/ \E q \in Proc : task'[q].frame = f
          BY <2>1 DEF NoneLeaks
        <4>1. CASE f \in frames
          BY <2>1, <2>5, <2>6, <2>7, <2>10, <4>1 DEF OwnersInv, NoneLeaks
        <4>2. CASE f \notin frames
          <5>1. PICK x \in Held(p) : f = g[x]
            BY <2>1, <4>2
          <5> QED BY <2>4, <2>5, <2>6, <5>1
        <4> QED BY <4>1, <4>2
      <3> QED BY <3>1, <3>2, <3>3, <3>6, <3>7 DEF OwnersInv
    <2> QED BY <2>9, <2>10
  <1> QED BY <1>1, <1>2

\* The assertions of memory_unmap and memory_map hold for an exec before a race.
LEMMA ExecMapsApart ==
    ASSUME ShapeInv, OwnersInv, NEW p \in Proc, Exec(p), ~raced
    PROVE  /\ \A page \in Page : Disabled(p)[page] = None
           /\ ExecFault(p, Frame \ (frames \ Freed(p))) \in {UnallocatedFrame, NoFrame, NoPanic}
  <1>1. p = current /\ task[p].at # "record"
    BY DEF Exec, User, At
  <1>2. \A page \in Page : mapped[page] = allocations[p][page]
    BY <1>1, MappedPages
  <1>3. \A page \in Page : Disabled(p)[page] = None
    BY <1>2 DEF Disabled, Held
  <1>4. \A page \in Held(p) : mapped[page] # None
    BY <1>2 DEF Held
  <1>5. ASSUME NEW pages, pages \subseteq Page
        PROVE  ChangeFault(p, pages) = NoPanic
    <2>1. \A page \in pages : Disabled(p)[page] = None
      BY <1>3, <1>5
    <2> QED BY <1>4, <2>1 DEF ChangeFault
  <1>6. ChangeFault(p, {}) = NoPanic /\ ChangeFault(p, ImagePages) = NoPanic
    BY <1>5, ConstantFacts
  <1> QED BY <1>3, <1>6 DEF ExecFault

LEMMA OwnersExec ==
    ASSUME ShapeInv, OwnersInv, NEW p \in Proc, Exec(p)
    PROVE  OwnersInv'
  <1> DEFINE fault == ExecFault(p, Frame \ (frames \ Freed(p)))
  <1>1. CASE fault # NoPanic
    <2>1. Stop(fault)
      BY <1>1 DEF Exec
    <2>2. ~raced => fault \notin {AlreadyMapped, NotPresent}
      BY ExecMapsApart DEF UnallocatedFrame, NoFrame, NoPanic, AlreadyMapped, NotPresent
    <2> HIDE DEF fault
    <2>3. panic' \in {AlreadyMapped, NotPresent} => raced
      BY <2>1, <2>2 DEF Stop
    <2> QED BY <2>1, <2>3, OwnersQuiet DEF Stop, pagetable, owners
  <1>2. CASE fault = NoPanic
    <2>1. PICK g :
              /\ g \in [ImagePages -> Frame \ (frames \ Freed(p))]
              /\ \A x, y \in ImagePages : g[x] = g[y] => x = y
              /\ p = current /\ p # Root /\ task[p] = Idle
              /\ frames' = (frames \ Freed(p)) \cup {g[x] : x \in ImagePages}
              /\ allocations' = [allocations EXCEPT ![p] = Image(g)]
              /\ mapped' = [page \in Page |->
                    IF page \in ImagePages THEN g[page] ELSE Disabled(p)[page]]
              /\ heap_end' = [heap_end EXCEPT ![p] = HeapStart]
              /\ UNCHANGED <<kernel, tables, created, current, task, raced, foreign, panic>>
      BY <1>2, Replaced
    <2>2. \A x \in ImagePages : g[x] \in Frame /\ g[x] \notin frames \ Freed(p)
      BY <2>1
    <2>3. /\ \A page \in ImagePages : Image(g)[page] = g[page]
          /\ \A page \in Page : Image(g)[page] # None <=> page \in ImagePages
      BY <2>1, <2>2, ImageFacts
    <2> HIDE DEF Image, fault
    <2>4. /\ allocations'[p] = Image(g)
          /\ \A q \in Proc \ {p} : allocations'[q] = allocations[q]
      BY <2>1 DEF ShapeInv, TypeOK
    <2>5. Held(p)' = ImagePages /\ \A q \in Proc \ {p} : Held(q)' = Held(q)
      BY <2>3, <2>4, ConstantFacts DEF Held
    <2>6. \A q \in Proc : \A y \in Held(q)' :
             \/ q = p /\ y \in ImagePages /\ allocations'[q][y] = g[y]
             \/ q # p /\ y \in Held(q) /\ allocations'[q][y] = allocations[q][y]
      BY <2>3, <2>4, <2>5
    <2>7. CASE raced
      BY <2>1, <2>7 DEF OwnersInv, CarriedInv, RecordInv, FramesApart, ActiveSpace,
                       NoneLeaks, MapFaultsByRace
    <2>8. CASE ~raced
      <3>1. MapFaultsByRace' /\ RecordInv'
        <4>1. \A q \in Proc : task[q].at # "record"
          BY <2>1, <2>8 DEF OwnersInv, RecordInv, Idle
        <4> QED BY <2>1, <4>1 DEF OwnersInv, MapFaultsByRace, RecordInv
      <3>2. ActiveSpace'
        <4>1. \A page \in Page : Disabled(p)[page] = None
          BY <2>8, ExecMapsApart
        <4>2. \A page \in Page : mapped'[page] = allocations'[p][page]
          <5> HIDE DEF Disabled
          <5> QED BY <2>1, <2>3, <2>4, <4>1
        <4> QED BY <2>1, <4>2 DEF ActiveSpace
      <3>3. ~foreign => \A f \in Freed(p) \ Device : f \notin kernel
        BY <2>8 DEF Freed, OwnersInv, FramesApart
      <3>4. ASSUME ~foreign, NEW q \in Proc, q # p, NEW y \in Held(q), allocations[q][y] \notin Device
            PROVE  /\ allocations[q][y] \in (frames \ Freed(p)) \ kernel
                   /\ \A r \in Proc : \A z \in Held(r) :
                         allocations[r][z] = allocations[q][y] => r = q /\ z = y
        BY <2>8, <3>4 DEF Freed, OwnersInv, FramesApart
      <3>5. ASSUME ~foreign, NEW q \in Proc, task[q].frame # None, task[q].frame \notin Device
            PROVE  task[q].frame \in (frames \ Freed(p)) \ kernel
        BY <2>8, <3>5 DEF Freed, OwnersInv, CarriedInv
      <3>6. CarriedInv'
        <4> SUFFICES ASSUME ~foreign, NEW q \in Proc, task[q].frame # None, task[q].frame \notin Device
                     PROVE  /\ task[q].frame \in frames' \ kernel'
                            /\ \A r \in Proc : \A y \in Held(r)' : allocations'[r][y] # task[q].frame
                            /\ \A r \in Proc : task[r].frame = task[q].frame => r = q
          BY <2>1 DEF CarriedInv
        <4>1. /\ \A r \in Proc : \A y \in Held(r) : allocations[r][y] # task[q].frame
              /\ \A r \in Proc : task[r].frame = task[q].frame => r = q
          BY <2>8 DEF OwnersInv, CarriedInv
        <4>2. \A x \in ImagePages : g[x] # task[q].frame
          BY <2>2, <3>5
        <4> QED BY <2>1, <2>6, <3>5, <4>1, <4>2
      <3>7. ~foreign => kernel' \ Device \subseteq frames'
        BY <2>1, <2>8, <3>3 DEF OwnersInv, FramesApart
      <3>8. ASSUME ~foreign, NEW q \in Proc, NEW y \in Held(q)', allocations'[q][y] \notin Device
            PROVE  /\ allocations'[q][y] \in frames' \ kernel'
                   /\ \A r \in Proc : \A z \in Held(r)' :
                         allocations'[r][z] = allocations'[q][y] => r = q /\ z = y
        <4>1. CASE q = p
          <5>1. y \in ImagePages /\ allocations'[q][y] = g[y]
            BY <2>6, <4>1
          <5>2. g[y] \in frames' /\ g[y] \notin kernel
            BY <2>1, <2>2, <2>8, <3>3, <3>8, <5>1 DEF OwnersInv, FramesApart
          <5>3. \A r \in Proc \ {p} : \A z \in Held(r) : allocations[r][z] # g[y]
            BY <2>2, <3>4, <3>8, <5>1
          <5> QED BY <2>1, <2>6, <4>1, <5>1, <5>2, <5>3
        <4>2. CASE q # p
          <5>1. y \in Held(q) /\ allocations'[q][y] = allocations[q][y]
            BY <2>6, <4>2
          <5>2. /\ allocations[q][y] \in (frames \ Freed(p)) \ kernel
                /\ \A r \in Proc : \A z \in Held(r) :
                      allocations[r][z] = allocations[q][y] => r = q /\ z = y
            BY <3>4, <3>8, <4>2, <5>1
          <5>3. \A x \in ImagePages : g[x] # allocations[q][y]
            BY <2>2, <5>2
          <5> QED BY <2>1, <2>6, <5>1, <5>2, <5>3
        <4> QED BY <4>1, <4>2
      <3>9. FramesApart'
        BY <2>1, <2>8, <3>7, <3>8 DEF FramesApart
      <3>10. NoneLeaks'
        <4> SUFFICES ASSUME NEW f \in frames', f \notin kernel'
                     PROVE  \/ \E q \in Proc : \E y \in Held(q)' : allocations'[q][y] = f
                            \/ \E q \in Proc : task'[q].frame = f
          BY <2>1 DEF NoneLeaks
        <4>1. CASE f \in frames \ Freed(p)
          BY <2>1, <2>4, <2>5, <2>8, <4>1 DEF OwnersInv, NoneLeaks, Freed
        <4>2. CASE f \notin frames \ Freed(p)
          <5>1. PICK x \in ImagePages : f = g[x]
            BY <2>1, <4>2
          <5> QED BY <2>3, <2>4, <2>5, <5>1
        <4> QED BY <4>1, <4>2
      <3> QED BY <3>1, <3>2, <3>6, <3>9, <3>10 DEF OwnersInv
    <2> QED BY <2>7, <2>8
  <1> QED BY <1>1, <1>2

LEMMA OwnersStep == ShapeInv /\ OwnersInv /\ [Next]_vars => OwnersInv'
  <1> SUFFICES ASSUME ShapeInv, OwnersInv, [Next]_vars PROVE OwnersInv'
    OBVIOUS
  <1>1. CASE UNCHANGED vars
    BY <1>1, OwnersQuiet DEF vars, pagetable, owners, OwnersInv, MapFaultsByRace
  <1>2. ASSUME NEW p \in Proc,
               \/ \E n \in 1 .. MaxGrowth : AllocPages(p, n)
               \/ KernelGrows(p)
               \/ \E page \in DevicePages, f \in Asked : MapDevice(p, page, f)
        PROVE  OwnersInv'
    <2>1. ASSUME NEW n \in 1 .. MaxGrowth, AllocPages(p, n) PROVE OwnersInv'
      BY <2>1, OwnersStarts DEF AllocPages, Idle
    <2>2. CASE KernelGrows(p)
      BY <2>2, OwnersStarts DEF KernelGrows, Idle
    <2>3. ASSUME NEW page \in DevicePages, NEW f \in Asked, MapDevice(p, page, f)
          PROVE  OwnersInv'
      BY <2>3, OwnersStarts DEF MapDevice, Idle
    <2> QED BY <1>2, <2>1, <2>2, <2>3
  <1>3. CASE Next
    BY <1>1, <1>2, <1>3, OwnersBoot, OwnersSwitch, OwnersFindFrame, OwnersTakeFrame,
       OwnersMapPage, OwnersRecordPage, OwnersFork, OwnersExec DEF Next, Halted
  <1> QED BY <1>1, <1>3

\* Both parts of the invariant, of every behaviour of the kernel.
LEMMA Invariant == Spec => [](ShapeInv /\ OwnersInv)
  BY ShapeInit, ShapeStep, OwnersInit, OwnersStep, PTL DEF Spec

\* Until two processes race for a frame, and until a program asks by number for
\* one that is no device's, a frame that is in use is in use by one page of one
\* process or by the kernel alone: no process reaches the memory of another,
\* whatever growth, fork and exec do and whenever the timer switches.
THEOREM MemoryIsApart == Spec => []FramesApart
  <1>1. OwnersInv => FramesApart
    BY DEF OwnersInv
  <1> QED BY <1>1, Invariant, PTL

\* Until a race the page table holds the pages of the process that runs,
\* whatever frames programs have asked for.
THEOREM TheActiveSpaceIsMapped == Spec => []ActiveSpace
  <1>1. OwnersInv => ActiveSpace
    BY DEF OwnersInv
  <1> QED BY <1>1, Invariant, PTL

\* Until a race every frame that is marked has an owner, or is about to have one.
THEOREM NoFrameLeaks == Spec => []NoneLeaks
  <1>1. OwnersInv => NoneLeaks
    BY DEF OwnersInv
  <1> QED BY <1>1, Invariant, PTL

\* The assertions of memory_map and memory_unmap fail only after a race.
THEOREM MapFaultsNeedARace == Spec => []MapFaultsByRace
  <1>1. OwnersInv => MapFaultsByRace
    BY DEF OwnersInv
  <1> QED BY <1>1, Invariant, PTL

=============================================================================
