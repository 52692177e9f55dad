--------------------------- MODULE KernelHeapProofs ---------------------------
(***************************************************************************)
(* Theorems about KernelHeap, for every set of processes and of requests,  *)
(* every size of the heap and every outcome of the racy wait loop.         *)
(***************************************************************************)
EXTENDS KernelHeap, Lemmas

LOCAL INSTANCE SequencesExt

Fields == {"op", "at", "req", "ptr", "old", "off"}

\* Every call has its locals.
CallsInv ==
    /\ DOMAIN call = Process
    /\ \A p \in Process : DOMAIN call[p] = Fields /\ call[p].off \in BOOLEAN

\* LockHeld, with the types of what it compares.
LockInv ==
    /\ CallsInv
    /\ lock \in BOOLEAN /\ raced \in BOOLEAN
    /\ LockHeld

LEMMA LockInit == Init => LockInv
  <1> SUFFICES ASSUME Init PROVE LockInv
    OBVIOUS
  <1>1. \A p \in Process : call[p] = Idle
    BY DEF Init
  <1>2. DOMAIN Idle = Fields /\ Idle.off = FALSE /\ Idle.at = "user"
    BY DEF Idle, Fields
  <1>3. CallsInv /\ \A p \in Process : ~InCritical(p)
    BY <1>1, <1>2 DEF Init, CallsInv, InCritical
  <1>4. panic # UnlockFault
    BY DEF Init, NoPanic, UnlockFault
  <1> QED BY <1>1, <1>2, <1>3, <1>4 DEF Init, LockInv, LockHeld

\* One process changes its own call, and neither the lock nor who holds it: it
\* is not made to wait by a lock that is taken.
LEMMA LockKept ==
    ASSUME LockInv, NEW p \in Process, Running(p),
           lock' = lock, raced' = raced, panic' # UnlockFault,
           CallsInv', \A q \in Process \ {p} : call'[q] = call[q],
           InCritical(p)' <=> InCritical(p),
           call'[p].off /\ call[p].at \notin {"test", "loop"}
              /\ call'[p].at \in {"test", "loop"} => ~InCritical(p),
           call'[p].at \in {"test", "loop"} /\ call[p].at \in {"test", "loop"}
              => call'[p].off = call[p].off
    PROVE  LockInv'
  BY DEF LockInv, CallsInv, LockHeld, InCritical, Running

LEMMA LockStep == LockInv /\ [Next]_vars => LockInv'
  <1> SUFFICES ASSUME LockInv, [Next]_vars PROVE LockInv'
    OBVIOUS
  <1> USE DEF CallsInv, Fields
  <1>1. ASSUME NEW p \in Process, NEW req \in Requests, NEW off \in BOOLEAN,
               CallMalloc(p, req, off)
        PROVE  LockInv'
    BY <1>1, LockKept DEF CallMalloc, At, Running, Idle, InCritical, LockInv, NoPanic, UnlockFault
  <1>2. ASSUME NEW p \in Process, NEW block \in live, NEW off \in BOOLEAN,
               CallFree(p, block, off)
        PROVE  LockInv'
    BY <1>2, LockKept DEF CallFree, At, Running, Idle, InCritical, LockInv, NoPanic, UnlockFault
  <1>3. ASSUME NEW p \in Process, NEW block \in live, NEW req \in Requests,
               CallRealloc(p, block, req)
        PROVE  LockInv'
    BY <1>3, LockKept DEF CallRealloc, At, Running, Idle, InCritical, LockInv, NoPanic, UnlockFault
  <1>4. ASSUME NEW p \in Process, TestLock(p)
        PROVE  LockInv'
    BY <1>4, LockKept DEF TestLock, At, Running, InCritical, LockInv, NoPanic, UnlockFault
  <1>5. ASSUME NEW p \in Process, SetLock(p)
        PROVE  LockInv'
    BY <1>5 DEF SetLock, At, Running, InCritical, LockInv, LockHeld, NoPanic, UnlockFault
  <1>6. ASSUME NEW p \in Process, MallocInside(p)
        PROVE  LockInv'
    <2>1. /\ Running(p) /\ call[p].at = "inside"
          /\ UNCHANGED <<lock, raced>>
          /\ panic' # UnlockFault
      BY <1>6 DEF MallocInside, At, Running, NoPanic, NoSpace, UnlockFault
    <2>2. \/ call' = call
          \/ \E ptr : call' = [call EXCEPT ![p].at = "unlock", ![p].ptr = ptr]
      BY <1>6 DEF MallocInside
    <2> QED BY <2>1, <2>2, LockKept DEF InCritical, LockInv
  <1>7. ASSUME NEW p \in Process, FreeInside(p)
        PROVE  LockInv'
    BY <1>7, LockKept DEF FreeInside, At, Running, InCritical, LockInv, NoPanic, UnlockFault
  <1>8. ASSUME NEW p \in Process, ReallocInside(p)
        PROVE  LockInv'
    BY <1>8, LockKept DEF ReallocInside, At, Running, InCritical, LockInv, NoPanic, UnlockFault
  <1>9. ASSUME NEW p \in Process, Unlock(p)
        PROVE  LockInv'
    <2>1. lock /\ ~raced
      BY <1>9 DEF Unlock, At, Running, LockInv, LockHeld, InCritical
    <2>2. /\ lock' = FALSE
          /\ call' = [call EXCEPT ![p] = After(call[p])]
          /\ UNCHANGED <<panic, raced>>
      BY <1>9, <2>1 DEF Unlock, Unlocked
    <2>3. /\ DOMAIN After(call[p]) = Fields
          /\ After(call[p]).off \in BOOLEAN
          /\ After(call[p]).at \notin {"inside", "unlock"}
      BY DEF After, Idle, LockInv
    <2>4. /\ CallsInv' /\ \A q \in Process \ {p} : call'[q] = call[q]
          /\ call'[p] = After(call[p])
      BY <2>2, <2>3 DEF LockInv
    <2>5. InCritical(p) /\ \A q \in Process : ~InCritical(q)'
      BY <1>9, <2>1, <2>3, <2>4 DEF Unlock, At, InCritical, LockInv, LockHeld
    <2> QED BY <2>1, <2>2, <2>4, <2>5 DEF LockInv, LockHeld
  <1>10. CASE UNCHANGED vars
    BY <1>10 DEF vars, LockInv, LockHeld, InCritical
  <1> QED
    BY <1>1, <1>2, <1>3, <1>4, <1>5, <1>6, <1>7, <1>8, <1>9, <1>10
    DEF Next, Step, Halted, Loop

\* Until two processes meet at the test, the lock of liballoc_hooks.cpp is held
\* exactly while one process is inside malloc, free or realloc, liballoc_unlock
\* never finds it free, and who waits for it with interrupts disabled waits for a
\* process that was preempted with it.
THEOREM TheLockIsHeld == Spec => []LockHeld
  <1>1. LockInv => LockHeld
    BY DEF LockInv
  <1> QED BY <1>1, LockInit, LockStep, PTL DEF Spec
-----------------------------------------------------------------------------
(* Addresses *)

LEMMA Division ==
    ASSUME NEW n \in Nat \ {0}, NEW a \in Nat
    PROVE  /\ a \div n \in Nat /\ a % n \in 0 .. n - 1
           /\ a = n * (a \div n) + (a % n)
  OBVIOUS

LEMMA Multiple ==
    ASSUME NEW n \in Nat \ {0}, NEW q \in Nat
    PROVE  n * q \in Nat /\ n * (q + 1) = n * q + n /\ (n * q) % n = 0
  OBVIOUS

LEMMA SizesAre ==
    /\ PageSize \in Nat \ {0} /\ PageCount \in Nat \ {0}
    /\ MajorSize \in Nat \ {0} /\ MinorSize \in Nat \ {0}
    /\ Alignment \in Nat \ {0, 1} /\ AlignInfo \in Nat \ {0}
  BY SizesOfHeap

\* The pointer of a block is aligned, behind its header with the room for the
\* distance, and no further than the padding allows.
LEMMA PointerIs ==
    ASSUME NEW at \in Nat
    PROVE  /\ Pointer(at) \in Nat
           /\ Pointer(at) % Alignment = 0
           /\ at + MinorSize + AlignInfo <= Pointer(at)
           /\ Pointer(at) < at + MinorSize + AlignInfo + Alignment
  <1> DEFINE from == at + MinorSize + AlignInfo
             q == from \div Alignment
             r == from % Alignment
             step == (Alignment - r) % Alignment
  <1>1. from \in Nat
    BY SizesAre
  <1>2. Pointer(at) = from + step
    BY DEF Pointer, Aligned
  <1> HIDE DEF from
  <1>3. q \in Nat /\ r \in 0 .. Alignment - 1 /\ from = Alignment * q + r
    BY <1>1, SizesAre, Division
  <1> HIDE DEF q, r
  <1>4. CASE r = 0
    <2>1. step = 0
      BY <1>4, SizesAre
    <2>2. Pointer(at) = Alignment * q
      BY <2>1, <1>1, <1>2, <1>3, <1>4, SizesAre
    <2>3. (Alignment * q) % Alignment = 0
      BY <1>3, SizesAre, Multiple
    <2> QED BY <2>1, <2>2, <2>3, <1>1, <1>2, SizesAre DEF from
  <1>5. CASE r # 0
    <2>1. Alignment - r \in 1 .. Alignment - 1
      BY <1>3, <1>5, SizesAre
    <2>2. step = Alignment - r
      BY <2>1, SizesAre
    <2>3. Alignment * q \in Nat /\ Alignment * (q + 1) = Alignment * q + Alignment
      BY <1>3, SizesAre, Multiple
    <2>4. Pointer(at) = Alignment * (q + 1)
      BY <2>2, <2>3, <1>1, <1>2, <1>3, SizesAre
    <2>5. (Alignment * (q + 1)) % Alignment = 0
      BY <1>3, SizesAre, Multiple
    <2>6. Pointer(at) % Alignment = 0
      BY <2>4, <2>5
    <2> QED BY <2>1, <2>2, <2>6, <1>1, <1>2, SizesAre DEF from
  <1> QED BY <1>4, <1>5

\* allocate_new_page asks for enough pages for the block and both headers.
LEMMA PagesAreEnough ==
    ASSUME NEW size \in Nat
    PROVE  /\ PagesFor(size) \in Nat
           /\ PagesFor(size) * PageSize \in Nat
           /\ size + MajorSize + MinorSize <= PagesFor(size) * PageSize
  <1> DEFINE all == size + MajorSize + MinorSize
             count == IF all % PageSize = 0 THEN all \div PageSize ELSE all \div PageSize + 1
  <1>1. all \in Nat
    BY SizesAre
  <1>2. PagesFor(size) = IF count < PageCount THEN PageCount ELSE count
    BY DEF PagesFor
  <1> HIDE DEF all
  <1>3. /\ all \div PageSize \in Nat /\ all % PageSize \in 0 .. PageSize - 1
        /\ all = PageSize * (all \div PageSize) + (all % PageSize)
    BY <1>1, SizesAre, Division
  <1>4. /\ PageSize * (all \div PageSize) \in Nat
        /\ PageSize * (all \div PageSize + 1) = PageSize * (all \div PageSize) + PageSize
    BY <1>3, SizesAre, Multiple
  <1>5. count \in Nat /\ all <= PageSize * count
    BY <1>1, <1>3, <1>4, SizesAre
  <1> HIDE DEF count
  <1>6. \A n \in Nat : count <= n => PageSize * count <= PageSize * n
    BY <1>5, SizesAre
  <1>7. PagesFor(size) \in Nat /\ count <= PagesFor(size)
    BY <1>2, <1>5, SizesAre
  <1>8. PagesFor(size) * PageSize = PageSize * PagesFor(size) /\ PageSize * PagesFor(size) \in Nat
    BY <1>7, SizesAre
  <1>9. PageSize * count <= PageSize * PagesFor(size) /\ PageSize * count \in Nat
    BY <1>5, <1>6, <1>7, SizesAre
  <1>10. all <= PagesFor(size) * PageSize
    BY <1>1, <1>5, <1>8, <1>9
  <1> QED BY <1>7, <1>8, <1>10 DEF all

-----------------------------------------------------------------------------
(* Blocks and majors *)

LEMMA InsertIs ==
    ASSUME NEW S, NEW s \in Seq(S), NEW i \in 1 .. Len(s) + 1, NEW e \in S
    PROVE  /\ InsertAt(s, i, e) \in Seq(S)
           /\ InsertAt(s, i, e)[i] = e
           /\ Inserted(s, InsertAt(s, i, e), i)
  BY ZenonT(60), OneMore DEF InsertAt

LEMMA RemoveIs ==
    ASSUME NEW S, NEW s \in Seq(S), NEW i \in 1 .. Len(s)
    PROVE  /\ RemoveAt(s, i) \in Seq(S)
           /\ Inserted(RemoveAt(s, i), s, i)
  BY OneLess DEF RemoveAt

Minor == [at : Nat, size : Nat, req : Nat]
Major == [at : Nat, pages : Nat, usage : Int, minors : Seq(Minor)]
Heaps == [majors : Seq(Major), best : Nat, allocated : Int, inuse : Int]

\* Where a block ends, and where a major does.
End(minor) == minor.at + Need(minor.size)
Limit(major) == major.at + Bytes(major)

\* The blocks are inside the major and large enough, and every one is behind
\* every one before it.
Tidy(major) ==
    /\ \A k \in 1 .. Len(major.minors) :
          /\ major.at + MajorSize <= major.minors[k].at
          /\ End(major.minors[k]) <= Limit(major)
          /\ Padded(major.minors[k].req) <= major.minors[k].size
    /\ \A k, l \in 1 .. Len(major.minors) :
          k < l => End(major.minors[k]) <= major.minors[l].at

LEMMA MajorIs ==
    ASSUME NEW major \in Major
    PROVE  /\ major.at \in Nat /\ major.pages \in Nat /\ major.usage \in Int
           /\ major.minors \in Seq(Minor) /\ Len(major.minors) \in Nat
           /\ DOMAIN major.minors = 1 .. Len(major.minors)
           /\ Bytes(major) \in Nat /\ Limit(major) \in Nat
  <1>1. /\ major.at \in Nat /\ major.pages \in Nat /\ major.usage \in Int
        /\ major.minors \in Seq(Minor)
    BY DEF Major
  <1>2. Bytes(major) \in Nat
    <2>1. \A a, b \in Nat : a * b \in Nat
      OBVIOUS
    <2> QED BY <2>1, <1>1, SizesAre DEF Bytes
  <1> QED BY <1>1, <1>2 DEF Limit

LEMMA MinorIs ==
    ASSUME NEW major \in Major, NEW k \in 1 .. Len(major.minors)
    PROVE  /\ major.minors[k] \in Minor
           /\ major.minors[k].at \in Nat /\ major.minors[k].size \in Nat
           /\ major.minors[k].req \in Nat
           /\ Need(major.minors[k].size) \in Nat /\ End(major.minors[k]) \in Nat
  <1>1. major.minors[k] \in Minor
    BY MajorIs
  <1> QED BY SMTT(60), <1>1, SizesAre DEF Minor, Need, End

\* The pointer of a block that is large enough is inside it, with what its owner
\* has asked for.
LEMMA PointerInside ==
    ASSUME NEW minor \in Minor, Padded(minor.req) <= minor.size
    PROVE  /\ Pointer(minor.at) \in Nat
           /\ minor.at < Pointer(minor.at) /\ Pointer(minor.at) < End(minor)
           /\ Pointer(minor.at) + minor.req <= End(minor)
  <1>1. minor.at \in Nat /\ minor.size \in Nat /\ minor.req \in Nat
    BY DEF Minor
  <1>2. /\ Pointer(minor.at) \in Nat
        /\ minor.at + MinorSize + AlignInfo <= Pointer(minor.at)
        /\ Pointer(minor.at) < minor.at + MinorSize + AlignInfo + Alignment
    BY <1>1, PointerIs
  <1> QED BY <1>1, <1>2, SizesAre DEF Padded, End, Need

LEMMA TidyInOrder ==
    ASSUME NEW major \in Major, Tidy(major), major.minors # << >>
    PROVE  InOrder(major)
  <1> DEFINE n == Len(major.minors)
  <1>1. n \in Nat /\ DOMAIN major.minors = 1 .. n /\ Limit(major) \in Nat /\ n # 0
    BY MajorIs
  <1> HIDE DEF n
  <1>2. ASSUME NEW i \in 1 .. n + 1
        PROVE  GapStart(major, i) <= GapEnd(major, i)
    <2>1. CASE i \in 1 .. n /\ i = 1
      BY <2>1, <1>1 DEF GapStart, GapEnd, Tidy, n
    <2>2. CASE i \in 1 .. n /\ i # 1
      <3>1. i - 1 \in 1 .. n /\ i - 1 < i
        BY <2>2, <1>1
      <3>2. End(major.minors[i - 1]) <= major.minors[i].at
        BY <3>1, <2>2 DEF Tidy, n
      <3> QED BY <3>2, <2>2, <1>1 DEF GapStart, GapEnd, End
    <2>3. CASE i = n + 1
      <3>1. i - 1 \in 1 .. n /\ i # 1 /\ i \notin 1 .. n /\ i - 1 = n
        BY <2>3, <1>1
      <3>2. End(major.minors[i - 1]) <= Limit(major)
        BY <3>1 DEF Tidy, n
      <3> QED BY <3>1, <3>2, <1>1 DEF GapStart, GapEnd, End, Limit
    <2> QED BY <2>1, <2>2, <2>3, <1>1
  <1>3. ASSUME NEW i \in 1 .. n
        PROVE  /\ Pointer(major.minors[i].at) % Alignment = 0
               /\ Pointer(major.minors[i].at) - AlignInfo >= major.minors[i].at + MinorSize
               /\ Pointer(major.minors[i].at) + major.minors[i].req
                     <= major.minors[i].at + Need(major.minors[i].size)
    <2>1. /\ major.minors[i] \in Minor /\ major.minors[i].at \in Nat
          /\ Padded(major.minors[i].req) <= major.minors[i].size
      BY MinorIs DEF Tidy, n
    <2> DEFINE minor == major.minors[i]
               ptr == Pointer(minor.at)
    <2>2. ptr + minor.req <= minor.at + Need(minor.size)
      BY <2>1, PointerInside DEF End
    <2>3. ptr % Alignment = 0 /\ minor.at + MinorSize + AlignInfo <= ptr /\ ptr \in Nat
      BY <2>1, PointerIs
    <2>4. minor.at \in Nat
      BY <2>1
    <2>5. ptr - AlignInfo >= minor.at + MinorSize
      <3> HIDE DEF ptr, minor
      <3> QED BY <2>3, <2>4, SizesAre
    <2> QED BY <2>2, <2>3, <2>5
  <1> QED BY <1>1, <1>2, <1>3 DEF InOrder, n

-----------------------------------------------------------------------------
(* The lists of a heap *)

\* The majors are tidy, have blocks and are apart; the best bet is one of them.
TidyHeap(h) ==
    /\ h \in Heaps
    /\ \A i \in 1 .. Len(h.majors) : Tidy(h.majors[i]) /\ h.majors[i].minors # << >>
    /\ \A i, j \in 1 .. Len(h.majors) :
          i # j => Limit(h.majors[i]) <= h.majors[j].at \/ Limit(h.majors[j]) <= h.majors[i].at
    /\ h.best # Null => \E i \in 1 .. Len(h.majors) : h.majors[i].at = h.best


LEMMA HeapIs ==
    ASSUME NEW h, TidyHeap(h)
    PROVE  /\ h.majors \in Seq(Major) /\ Len(h.majors) \in Nat
           /\ DOMAIN h.majors = 1 .. Len(h.majors)
           /\ h.best \in Nat /\ h.allocated \in Int /\ h.inuse \in Int
           /\ \A i \in 1 .. Len(h.majors) : h.majors[i] \in Major
  BY DEF TidyHeap, Heaps

LEMMA PlaceIs ==
    ASSUME NEW h, TidyHeap(h), NEW i \in 1 .. Len(h.majors), NEW k \in 1 .. Len(h.majors[i].minors)
    PROVE  LET minor == h.majors[i].minors[k] IN
           /\ minor \in Minor /\ Padded(minor.req) <= minor.size
           /\ h.majors[i].at < Pointer(minor.at) /\ Pointer(minor.at) < Limit(h.majors[i])
           /\ minor.at < Pointer(minor.at) /\ Pointer(minor.at) < End(minor)
           /\ Pointer(minor.at) \in Nat /\ Pointer(minor.at) # Null
  <1> DEFINE minor == h.majors[i].minors[k]
             major == h.majors[i]
  <1>1. major \in Major /\ Tidy(major)
    BY HeapIs DEF TidyHeap
  <1>2. minor \in Minor /\ minor.at \in Nat /\ End(minor) \in Nat
    BY <1>1, MinorIs
  <1>3. /\ major.at + MajorSize <= minor.at /\ End(minor) <= Limit(major)
        /\ Padded(minor.req) <= minor.size
    BY <1>1 DEF Tidy
  <1>4. /\ Pointer(minor.at) \in Nat
        /\ minor.at < Pointer(minor.at) /\ Pointer(minor.at) < End(minor)
    BY <1>2, <1>3, PointerInside
  <1>5. major.at \in Nat /\ Limit(major) \in Nat
    BY <1>1, MajorIs
  <1>6. major.at < Pointer(minor.at) /\ Pointer(minor.at) < Limit(major)
    <2> HIDE DEF minor, major
    <2> QED BY <1>2, <1>3, <1>4, <1>5, SizesAre
  <1>7. Pointer(minor.at) # Null
    <2> HIDE DEF minor, major
    <2> QED BY <1>2, <1>4 DEF Null
  <1> QED BY <1>2, <1>3, <1>4, <1>6, <1>7

LEMMA InOnePlace ==
    ASSUME NEW a \in Nat, NEW e \in Nat, NEW b \in Nat, NEW f \in Nat, NEW x \in Nat,
           a < x, x < e, b < x, x < f
    PROVE  ~(e <= b) /\ ~(f <= a)
  OBVIOUS

\* A pointer belongs to one block.
LEMMA OneBlock ==
    ASSUME NEW h, TidyHeap(h),
           NEW i \in 1 .. Len(h.majors), NEW k \in 1 .. Len(h.majors[i].minors),
           NEW j \in 1 .. Len(h.majors), NEW l \in 1 .. Len(h.majors[j].minors),
           Pointer(h.majors[i].minors[k].at) = Pointer(h.majors[j].minors[l].at)
    PROVE  i = j /\ k = l
  <1> DEFINE a == h.majors[i]
             b == h.majors[j]
             x == Pointer(a.minors[k].at)
             y == Pointer(b.minors[l].at)
  <1>1. /\ a.at < x /\ x < Limit(a) /\ a.minors[k].at < x /\ x < End(a.minors[k])
        /\ b.at < y /\ y < Limit(b) /\ b.minors[l].at < y /\ y < End(b.minors[l])
        /\ x \in Nat /\ x = y
    BY PlaceIs
  <1>2. a \in Major /\ b \in Major
    BY HeapIs
  <1>3. a.at \in Nat /\ Limit(a) \in Nat /\ b.at \in Nat /\ Limit(b) \in Nat
    BY <1>2, MajorIs
  <1>4. /\ a.minors[k].at \in Nat /\ End(a.minors[k]) \in Nat
        /\ b.minors[l].at \in Nat /\ End(b.minors[l]) \in Nat
    BY <1>2, MinorIs
  <1>5. i = j
    <2>1. i # j => Limit(a) <= b.at \/ Limit(b) <= a.at
      BY DEF TidyHeap
    <2>2. a.at < x /\ x < Limit(a) /\ b.at < x /\ x < Limit(b)
      BY <1>1
    <2>3. ~(Limit(a) <= b.at) /\ ~(Limit(b) <= a.at)
      BY <2>2, <1>1, <1>3, InOnePlace
    <2> QED BY <2>1, <2>3
  <1>6. k = l
    <2>1. Tidy(a) /\ a = b
      BY <1>5 DEF TidyHeap
    <2>2. /\ k < l => End(a.minors[k]) <= b.minors[l].at
          /\ l < k => End(b.minors[l]) <= a.minors[k].at
      BY <2>1 DEF Tidy
    <2>3. k \in Nat /\ l \in Nat
      BY <1>2, MajorIs
    <2>4. /\ a.minors[k].at < x /\ x < End(a.minors[k])
          /\ b.minors[l].at < x /\ x < End(b.minors[l])
      BY <1>1
    <2>5. ~(End(a.minors[k]) <= b.minors[l].at) /\ ~(End(b.minors[l]) <= a.minors[k].at)
      BY <2>4, <1>1, <1>4, InOnePlace
    <2>6. ~(k < l) /\ ~(l < k)
      BY <2>2, <2>5
    <2> HIDE DEF a, b, x, y
    <2> QED BY <2>3, <2>6
  <1> QED BY <1>5, <1>6

LEMMA PointerFound ==
    ASSUME NEW h, TidyHeap(h),
           NEW i \in 1 .. Len(h.majors), NEW k \in 1 .. Len(h.majors[i].minors),
           NEW ptr, ptr = Pointer(h.majors[i].minors[k].at)
    PROVE  /\ MajorOf(h, ptr) = i /\ MinorOf(h, ptr) = k
           /\ Requested(h, ptr) = h.majors[i].minors[k].req
  <1>1. /\ DOMAIN h.majors = 1 .. Len(h.majors)
        /\ \A j \in 1 .. Len(h.majors) : DOMAIN h.majors[j].minors = 1 .. Len(h.majors[j].minors)
    BY HeapIs, MajorIs
  <1>2. \A j \in DOMAIN h.majors :
           (\E l \in DOMAIN h.majors[j].minors : Pointer(h.majors[j].minors[l].at) = ptr) <=> j = i
    <2>1. ASSUME NEW j \in DOMAIN h.majors, NEW l \in DOMAIN h.majors[j].minors,
                 Pointer(h.majors[j].minors[l].at) = ptr
          PROVE  j = i
      <3>1. j \in 1 .. Len(h.majors)
        BY <1>1
      <3>2. l \in 1 .. Len(h.majors[j].minors)
        BY <1>1, <3>1
      <3>3. Pointer(h.majors[i].minors[k].at) = Pointer(h.majors[j].minors[l].at)
        BY <2>1
      <3>4. i = j /\ k = l
        BY <3>1, <3>2, <3>3, OneBlock
      <3> QED BY <3>4
    <2>2. \E l \in DOMAIN h.majors[i].minors : Pointer(h.majors[i].minors[l].at) = ptr
      BY <1>1
    <2> QED BY <2>1, <2>2
  <1>3. MajorOf(h, ptr) = i
    BY <1>1, <1>2 DEF MajorOf
  <1>4. \A l \in DOMAIN h.majors[i].minors : Pointer(h.majors[i].minors[l].at) = ptr <=> l = k
    BY <1>1, OneBlock
  <1>5. MinorOf(h, ptr) = k
    BY <1>1, <1>3, <1>4 DEF MinorOf
  <1> QED BY <1>3, <1>5 DEF Requested

\* The heap has a block with this pointer, for which so much was asked.
Has(h, ptr, req) ==
    \E i \in 1 .. Len(h.majors) : \E k \in 1 .. Len(h.majors[i].minors) :
        Pointer(h.majors[i].minors[k].at) = ptr /\ h.majors[i].minors[k].req = req

LEMMA HasIs ==
    ASSUME NEW h, TidyHeap(h), NEW ptr
    PROVE  /\ ptr \in Pointers(h) <=> \E req : Has(h, ptr, req)
           /\ \A req : Has(h, ptr, req) <=> ptr \in Pointers(h) /\ Requested(h, ptr) = req
           /\ ptr \in Pointers(h) => ptr \in Nat /\ ptr # Null
  <1>1. /\ DOMAIN h.majors = 1 .. Len(h.majors)
        /\ \A j \in 1 .. Len(h.majors) : DOMAIN h.majors[j].minors = 1 .. Len(h.majors[j].minors)
    BY HeapIs, MajorIs
  <1>2. ptr \in Pointers(h) <=>
           \E i \in 1 .. Len(h.majors) : \E k \in 1 .. Len(h.majors[i].minors) :
               Pointer(h.majors[i].minors[k].at) = ptr
    BY <1>1 DEF Pointers
  <1>3. ptr \in Pointers(h) <=> \E req : Has(h, ptr, req)
    BY <1>2 DEF Has
  <1>4. ASSUME NEW req
        PROVE  Has(h, ptr, req) <=> ptr \in Pointers(h) /\ Requested(h, ptr) = req
    <2>1. ASSUME Has(h, ptr, req)
          PROVE  ptr \in Pointers(h) /\ Requested(h, ptr) = req
      <3>1. PICK i \in 1 .. Len(h.majors) : \E k \in 1 .. Len(h.majors[i].minors) :
                Pointer(h.majors[i].minors[k].at) = ptr /\ h.majors[i].minors[k].req = req
        BY <2>1 DEF Has
      <3>2. PICK k \in 1 .. Len(h.majors[i].minors) :
                Pointer(h.majors[i].minors[k].at) = ptr /\ h.majors[i].minors[k].req = req
        BY <3>1
      <3>3. ptr = Pointer(h.majors[i].minors[k].at)
        BY <3>2
      <3>4. Requested(h, ptr) = h.majors[i].minors[k].req
        BY <3>3, PointerFound
      <3> QED BY <1>2, <3>2, <3>4
    <2>2. ASSUME ptr \in Pointers(h), Requested(h, ptr) = req
          PROVE  Has(h, ptr, req)
      <3>1. PICK i \in 1 .. Len(h.majors) : \E k \in 1 .. Len(h.majors[i].minors) :
                Pointer(h.majors[i].minors[k].at) = ptr
        BY <2>2, <1>2
      <3>2. PICK k \in 1 .. Len(h.majors[i].minors) : Pointer(h.majors[i].minors[k].at) = ptr
        BY <3>1
      <3>3. ptr = Pointer(h.majors[i].minors[k].at)
        BY <3>2
      <3>4. Requested(h, ptr) = h.majors[i].minors[k].req
        BY <3>3, PointerFound
      <3> QED BY <2>2, <3>2, <3>4 DEF Has
    <2> QED BY <2>1, <2>2
  <1>5. ptr \in Pointers(h) => ptr \in Nat /\ ptr # Null
    BY <1>2, PlaceIs
  <1> QED BY <1>3, <1>4, <1>5

-----------------------------------------------------------------------------
(* A block in a gap *)

\* A gap starts behind every block before it and ends before every block behind.
LEMMA GapIs ==
    ASSUME NEW major \in Major, Tidy(major), NEW i \in 1 .. Len(major.minors) + 1
    PROVE  /\ GapStart(major, i) \in Nat /\ GapEnd(major, i) \in Nat
           /\ major.at + MajorSize <= GapStart(major, i)
           /\ GapEnd(major, i) <= Limit(major)
           /\ \A k \in 1 .. i - 1 : End(major.minors[k]) <= GapStart(major, i)
           /\ \A k \in i .. Len(major.minors) : GapEnd(major, i) <= major.minors[k].at
  <1> DEFINE n == Len(major.minors)
  <1>1. n \in Nat /\ DOMAIN major.minors = 1 .. n /\ major.at \in Nat /\ Limit(major) \in Nat
    BY MajorIs
  <1>2. \A k \in 1 .. n :
           /\ major.minors[k].at \in Nat /\ End(major.minors[k]) \in Nat
           /\ Need(major.minors[k].size) \in Nat
           /\ major.at + MajorSize <= major.minors[k].at
           /\ End(major.minors[k]) <= Limit(major)
           /\ major.minors[k].at <= End(major.minors[k])
    BY MinorIs DEF Tidy, End
  <1>3. \A k, l \in 1 .. n : k < l => End(major.minors[k]) <= major.minors[l].at
    BY DEF Tidy
  <1> HIDE DEF n
  <1>4. i \in 1 .. n + 1
    BY DEF n
  <1>5. /\ GapStart(major, i) \in Nat /\ major.at + MajorSize <= GapStart(major, i)
        /\ \A k \in 1 .. i - 1 : End(major.minors[k]) <= GapStart(major, i)
    <2>1. CASE i = 1
      <3>1. GapStart(major, i) = major.at + MajorSize
        BY <2>1 DEF GapStart
      <3>2. 1 .. i - 1 = {}
        BY <2>1
      <3> QED BY <3>1, <3>2, <1>1, SizesAre
    <2>2. CASE i # 1
      <3>1. i - 1 \in 1 .. n
        BY <2>2, <1>1, <1>4
      <3>2. GapStart(major, i) = End(major.minors[i - 1])
        BY <2>2 DEF GapStart, End
      <3>3. /\ End(major.minors[i - 1]) \in Nat
            /\ major.at + MajorSize <= End(major.minors[i - 1])
        <4>1. /\ major.minors[i - 1].at \in Nat /\ End(major.minors[i - 1]) \in Nat
              /\ major.at + MajorSize <= major.minors[i - 1].at
              /\ major.minors[i - 1].at <= End(major.minors[i - 1])
          BY <3>1, <1>2
        <4> QED BY <4>1, <1>1, SizesAre
      <3>4. ASSUME NEW k \in 1 .. i - 1
            PROVE  End(major.minors[k]) <= End(major.minors[i - 1])
        <4>1. CASE k = i - 1
          BY <4>1, <3>3
        <4>2. CASE k < i - 1
          <5>1. k \in 1 .. n
            BY <3>1, <1>1
          <5>2. End(major.minors[k]) <= major.minors[i - 1].at
            BY <4>2, <5>1, <3>1, <1>3
          <5>3. major.minors[i - 1].at <= End(major.minors[i - 1])
            BY <3>1, <1>2
          <5>4. End(major.minors[k]) \in Nat /\ major.minors[i - 1].at \in Nat
            BY <5>1, <3>1, <1>2
          <5> QED BY <5>2, <5>3, <5>4, <3>3
        <4> QED BY <4>1, <4>2, <3>1, <1>1
      <3> QED BY <3>2, <3>3, <3>4
    <2> QED BY <2>1, <2>2
  <1>6. /\ GapEnd(major, i) \in Nat /\ GapEnd(major, i) <= Limit(major)
        /\ \A k \in i .. n : GapEnd(major, i) <= major.minors[k].at
    <2>1. CASE i = n + 1
      <3>1. GapEnd(major, i) = Limit(major)
        BY <2>1, <1>1 DEF GapEnd, Limit
      <3>2. i .. n = {}
        BY <2>1, <1>1
      <3> QED BY <3>1, <3>2, <1>1
    <2>2. CASE i # n + 1
      <3>1. i \in 1 .. n
        BY <2>2, <1>1, <1>4
      <3>2. GapEnd(major, i) = major.minors[i].at
        BY <3>1, <1>1 DEF GapEnd
      <3>3. /\ major.minors[i].at \in Nat /\ End(major.minors[i]) \in Nat
            /\ major.minors[i].at <= End(major.minors[i])
            /\ End(major.minors[i]) <= Limit(major)
        BY <3>1, <1>2
      <3>4. ASSUME NEW k \in i .. n
            PROVE  major.minors[i].at <= major.minors[k].at
        <4>1. CASE k = i
          BY <4>1, <3>3
        <4>2. CASE i < k
          <5>1. k \in 1 .. n
            BY <3>1, <1>1
          <5>2. End(major.minors[i]) <= major.minors[k].at
            BY <4>2, <5>1, <3>1, <1>3
          <5>3. major.minors[k].at \in Nat
            BY <5>1, <1>2
          <5> QED BY <5>2, <5>3, <3>3
        <4> QED BY <4>1, <4>2, <3>1, <1>1
      <3>5. major.minors[i].at <= Limit(major)
        BY <3>3, <1>1
      <3> QED BY <3>2, <3>3, <3>4, <3>5
    <2> QED BY <2>1, <2>2
  <1> QED BY <1>5, <1>6 DEF n

LEMMA PlacedIs ==
    ASSUME NEW major \in Major, Tidy(major),
           NEW size \in Nat, NEW req \in Nat, Padded(req) <= size, Gaps(major, size) # {},
           NEW new, new = Placed(major, size, req)
    PROVE  /\ new \in Major /\ Tidy(new)
           /\ new.at = major.at /\ new.pages = major.pages
           /\ new.usage = major.usage + Need(size)
           /\ \E i : /\ Inserted(major.minors, new.minors, i)
                     /\ new.minors[i].size = size /\ new.minors[i].req = req
  <1> DEFINE n == Len(major.minors)
             i == CHOOSE g \in Gaps(major, size) : \A k \in Gaps(major, size) : g <= k
             start == GapStart(major, i)
             minor == [at |-> start, size |-> size, req |-> req]
             t == InsertAt(major.minors, i, minor)
  <1>1. n \in Nat /\ major.minors \in Seq(Minor) /\ Gaps(major, size) \subseteq Nat
    BY MajorIs DEF Gaps
  <1>2. i \in Gaps(major, size)
    BY <1>1, LeastNumber
  <1>3. new = [major EXCEPT !.usage = @ + Need(size), !.minors = t]
    BY DEF Placed
  <1> HIDE DEF i
  <1>4. i \in 1 .. n + 1 /\ GapEnd(major, i) - start >= Need(size)
    BY <1>2 DEF Gaps, FitsAt
  <1>5. /\ start \in Nat /\ GapEnd(major, i) \in Nat
        /\ major.at + MajorSize <= start /\ GapEnd(major, i) <= Limit(major)
        /\ \A k \in 1 .. i - 1 : End(major.minors[k]) <= start
        /\ \A k \in i .. n : GapEnd(major, i) <= major.minors[k].at
    BY <1>4, GapIs
  <1> HIDE DEF start
  <1>6. minor \in Minor /\ minor.at = start /\ minor.size = size /\ minor.req = req
    BY <1>5 DEF Minor
  <1>7. Need(size) \in Nat /\ End(minor) = start + Need(size)
    BY <1>6, SizesAre DEF End, Need
  <1> HIDE DEF minor
  <1>8. t \in Seq(Minor) /\ t[i] = minor /\ Inserted(major.minors, t, i)
    BY <1>1, <1>4, <1>6, InsertIs DEF n
  <1> HIDE DEF t
  <1>9. major \in [at : Nat, pages : Nat, usage : Int, minors : Seq(Minor)]
    BY DEF Major
  <1>10. /\ new \in Major /\ new.at = major.at /\ new.pages = major.pages
         /\ new.usage = major.usage + Need(size) /\ new.minors = t
    <2>1. new = [at |-> major.at, pages |-> major.pages,
                 usage |-> major.usage + Need(size), minors |-> t]
      BY <1>3, <1>9
    <2>2. /\ major.at \in Nat /\ major.pages \in Nat
          /\ major.usage + Need(size) \in Int
      BY <1>7, <1>9
    <2> QED BY <2>1, <2>2, <1>8 DEF Major
  <1>11. Limit(new) = Limit(major)
    BY <1>10 DEF Limit, Bytes
  <1>12. Limit(major) \in Nat /\ major.at \in Nat
    BY MajorIs
  <1>13. Len(t) = n + 1
    BY <1>8 DEF Inserted, n
  <1>14. start + Need(size) <= GapEnd(major, i)
    BY <1>4, <1>5, <1>7
  <1>15. \A k \in 1 .. n + 1 : k # i =>
            Down(k, i) \in 1 .. n /\ t[k] = major.minors[Down(k, i)]
    BY <1>8, <1>13, InsertedPlaces DEF n
  <1>16. ASSUME NEW k \in 1 .. n + 1
         PROVE  /\ major.at + MajorSize <= t[k].at /\ End(t[k]) <= Limit(major)
                /\ Padded(t[k].req) <= t[k].size
    <2>1. CASE k = i
      <3>1. End(minor) <= Limit(major)
        BY <1>5, <1>7, <1>12, <1>14
      <3>2. major.at + MajorSize <= minor.at /\ Padded(minor.req) <= minor.size
        BY <1>5, <1>6
      <3>3. t[k] = minor
        BY <2>1, <1>8
      <3> QED BY <3>1, <3>2, <3>3
    <2>2. CASE k # i
      <3>1. Down(k, i) \in 1 .. n /\ t[k] = major.minors[Down(k, i)]
        BY <2>2, <1>15
      <3> QED BY <3>1 DEF Tidy, n
    <2> QED BY <2>1, <2>2
  <1>17. ASSUME NEW k \in 1 .. n + 1, NEW l \in 1 .. n + 1, k < l
         PROVE  End(t[k]) <= t[l].at
    <2>1. CASE k # i /\ l # i
      <3>1. /\ Down(k, i) \in 1 .. n /\ t[k] = major.minors[Down(k, i)]
            /\ Down(l, i) \in 1 .. n /\ t[l] = major.minors[Down(l, i)]
        BY <2>1, <1>15
      <3>2. Down(k, i) < Down(l, i)
        BY <2>1, <1>1, <1>4, <1>17 DEF Down
      <3>3. End(major.minors[Down(k, i)]) <= major.minors[Down(l, i)].at
        BY <3>1, <3>2 DEF Tidy, n
      <3> QED BY <3>1, <3>3
    <2>2. CASE l = i
      <3>1. k \in 1 .. i - 1 /\ k # i /\ Down(k, i) = k
        BY <2>2, <1>1, <1>4, <1>17 DEF Down
      <3>2. End(major.minors[k]) <= start
        BY <3>1, <1>5
      <3>3. t[k] = major.minors[k] /\ t[l] = minor
        BY <2>2, <3>1, <1>8, <1>15
      <3> QED BY <3>2, <3>3, <1>6
    <2>3. CASE k = i
      <3>1. l - 1 \in i .. n /\ l # i /\ Down(l, i) = l - 1
        BY <2>3, <1>1, <1>4, <1>17 DEF Down
      <3>2. GapEnd(major, i) <= major.minors[l - 1].at
        BY <3>1, <1>5
      <3>3. t[l] = major.minors[l - 1] /\ t[k] = minor /\ l - 1 \in 1 .. n
        BY <2>3, <3>1, <1>8, <1>15
      <3>4. major.minors[l - 1].at \in Nat
        BY <3>3, MinorIs DEF n
      <3>5. End(minor) <= major.minors[l - 1].at
        BY SMTT(60), <3>2, <3>4, <1>5, <1>7, <1>14
      <3> QED BY <3>3, <3>5
    <2> QED BY <2>1, <2>2, <2>3
  <1>18. Tidy(new)
    BY <1>10, <1>11, <1>13, <1>16, <1>17 DEF Tidy
  <1> QED BY <1>6, <1>8, <1>10, <1>18

-----------------------------------------------------------------------------
(* The majors that malloc looks at *)

LEMMA RoomIs ==
    ASSUME NEW major \in Major
    PROVE  Room(major) \in Int
  BY MajorIs DEF Room

IsBest(h, best) == best \in Nat /\ (best # Null => \E i \in 1 .. Len(h.majors) : h.majors[i].at = best)

LEMMA BestIs ==
    ASSUME NEW h, TidyHeap(h), NEW seen \in Seq(1 .. Len(h.majors))
    PROVE  IsBest(h, BestOf(h, seen))
  <1> DEFINE most == {k \in DOMAIN seen : \A j \in DOMAIN seen :
                         Room(h.majors[seen[j]]) <= Room(h.majors[seen[k]])}
             first == CHOOSE k \in most : \A j \in most : k <= j
             f == [k \in 1 .. Len(seen) |-> Room(h.majors[seen[k]])]
  <1>1. CASE seen # << >>
    <2>1. Len(seen) \in Nat \ {0} /\ DOMAIN seen = 1 .. Len(seen)
      BY <1>1
    <2>2. \A k \in 1 .. Len(seen) : seen[k] \in 1 .. Len(h.majors)
      OBVIOUS
    <2>3. \A k \in 1 .. Len(seen) : f[k] \in Int
      BY <2>2, HeapIs, RoomIs
    <2>4. PICK k \in 1 .. Len(seen) : \A j \in 1 .. Len(seen) : f[j] <= f[k]
      <3> HIDE DEF f
      <3> QED BY <2>1, <2>3, LargestNumber
    <2>5. k \in most
      BY <2>1, <2>4
    <2>6. most \subseteq Nat
      BY <2>1
    <2> HIDE DEF f
    <2>7. first \in most
      <3> HIDE DEF most
      <3> QED BY <2>5, <2>6, LeastNumber
    <2>8. first \in 1 .. Len(seen)
      BY <2>1, <2>7
    <2> HIDE DEF first, most
    <2>9. seen[first] \in 1 .. Len(h.majors)
      BY <2>2, <2>8
    <2>10. h.majors[seen[first]].at \in Nat
      BY <2>9, HeapIs, MajorIs
    <2>11. BestOf(h, seen) \in {h.majors[seen[first]].at, h.best}
      BY DEF BestOf, first, most
    <2> QED BY <2>9, <2>10, <2>11, HeapIs DEF TidyHeap, IsBest
  <1>2. CASE seen = << >>
    <2>1. BestOf(h, seen) = h.best
      BY <1>2 DEF BestOf
    <2> QED BY <2>1, HeapIs DEF TidyHeap, IsBest
  <1> QED BY <1>1, <1>2

LEMMA OrderIs ==
    ASSUME NEW h, TidyHeap(h), NEW size \in Nat
    PROVE  /\ Order(h, size) \in Seq(1 .. Len(h.majors))
           /\ \A i \in 1 .. Len(h.majors) : \E k \in 1 .. Len(Order(h, size)) : Order(h, size)[k] = i
  <1> DEFINE n == Len(h.majors)
             all == [i \in DOMAIN h.majors |-> i]
             best == Index(h, h.best)
             part == SubSeq(all, best, Len(all))
  <1>1. n \in Nat /\ DOMAIN h.majors = 1 .. n
    BY HeapIs
  <1>2. all \in Seq(1 .. n) /\ Len(all) = n /\ \A i \in 1 .. n : all[i] = i
    BY <1>1
  <1> HIDE DEF all
  <1>3. CASE BestRoom(h) > Need(size)
    <2>1. h.best # Null
      BY <1>3, SizesAre DEF BestRoom, Need
    <2>2. \E i \in DOMAIN h.majors : h.majors[i].at = h.best
      BY <2>1, <1>1 DEF TidyHeap
    <2>3. best \in 1 .. n
      BY <2>2, <1>1 DEF Index
    <2> HIDE DEF best, n
    <2>4. part \in Seq(1 .. n)
      BY <1>1, <1>2, <2>3
    <2> HIDE DEF part
    <2>5. Order(h, size) = part \o all
      BY <1>3 DEF Order, part, all, best
    <2> DEFINE m == Len(part)
    <2>6. m \in Nat /\ m + n \in Nat /\ n = (m + n) - m
      BY <2>4, <1>1
    <2>7. /\ part \o all \in Seq(1 .. n) /\ Len(part \o all) = m + n
          /\ \A k \in 1 .. m + n : (part \o all)[k] = IF k <= m THEN part[k] ELSE all[k - m]
      BY <1>2, <2>4, <2>6, Concatenation
    <2> HIDE DEF m
    <2>8. ASSUME NEW i \in 1 .. n
          PROVE  m + i \in 1 .. m + n /\ (part \o all)[m + i] = i
      <3>1. m + i \in 1 .. m + n /\ ~(m + i <= m) /\ (m + i) - m = i
        BY <1>1, <2>6
      <3>2. (part \o all)[m + i] = all[(m + i) - m]
        BY <3>1, <2>7
      <3> QED BY <3>1, <3>2, <1>2
    <2> QED BY <2>5, <2>7, <2>8 DEF n
  <1>4. CASE ~(BestRoom(h) > Need(size))
    <2>1. Order(h, size) = all
      BY <1>4 DEF Order, all
    <2> QED BY <2>1, <1>2
  <1> QED BY <1>3, <1>4

-----------------------------------------------------------------------------
(* What a change of the lists does to the blocks *)

\* Major i of h is new in g.
Replaced(h, g, i, new) ==
    /\ g \in Heaps /\ Len(g.majors) = Len(h.majors)
    /\ i \in 1 .. Len(h.majors)
    /\ g.majors[i] = new
    /\ \A j \in 1 .. Len(h.majors) : j # i => g.majors[j] = h.majors[j]

LEMMA ReplacedTidy ==
    ASSUME NEW h, TidyHeap(h), NEW g, NEW i, NEW new, Replaced(h, g, i, new),
           Tidy(new), new.minors # << >>,
           new.at = h.majors[i].at, new.pages = h.majors[i].pages,
           IsBest(h, g.best)
    PROVE  /\ TidyHeap(g)
           /\ \A j \in 1 .. Len(h.majors) : Limit(g.majors[j]) = Limit(h.majors[j])
  <1>1. \A j \in 1 .. Len(h.majors) :
           /\ g.majors[j].at = h.majors[j].at
           /\ Limit(g.majors[j]) = Limit(h.majors[j])
           /\ Tidy(g.majors[j]) /\ g.majors[j].minors # << >>
    BY DEF Replaced, TidyHeap, Limit, Bytes
  <1>2. Len(g.majors) = Len(h.majors) /\ g \in Heaps
    BY DEF Replaced
  <1>3. g.best # Null => \E j \in 1 .. Len(g.majors) : g.majors[j].at = g.best
    BY <1>1, <1>2 DEF IsBest
  <1>4. \A j, k \in 1 .. Len(h.majors) :
           j # k => Limit(h.majors[j]) <= h.majors[k].at \/ Limit(h.majors[k]) <= h.majors[j].at
    BY DEF TidyHeap
  <1>5. \A j, k \in 1 .. Len(g.majors) :
           j # k => Limit(g.majors[j]) <= g.majors[k].at \/ Limit(g.majors[k]) <= g.majors[j].at
    BY <1>1, <1>2, <1>4
  <1> QED BY <1>1, <1>2, <1>3, <1>5 DEF TidyHeap

\* A heap has the blocks of another, and one more.
Gains(h, g, ptr, req) ==
    /\ \A x, r : Has(g, x, r) <=> Has(h, x, r) \/ (x = ptr /\ r = req)
    /\ \A r : ~Has(h, ptr, r)

LEMMA BlockGained ==
    ASSUME NEW h, TidyHeap(h), NEW g, TidyHeap(g), NEW i, NEW new, Replaced(h, g, i, new),
           NEW at, Inserted(h.majors[i].minors, new.minors, at)
    PROVE  Gains(h, g, Pointer(new.minors[at].at), new.minors[at].req)
  <1> DEFINE n == Len(h.majors)
             s == h.majors[i].minors
             t == new.minors
  <1>1. Len(g.majors) = n /\ i \in 1 .. n /\ g.majors[i].minors = t
    BY DEF Replaced
  <1>2. \A j \in 1 .. n : j # i => g.majors[j] = h.majors[j]
    BY DEF Replaced
  <1>3. /\ \A k \in 1 .. Len(s) : Up(k, at) \in 1 .. Len(t) /\ Up(k, at) # at /\ t[Up(k, at)] = s[k]
        /\ \A k \in 1 .. Len(t) : k # at => Down(k, at) \in 1 .. Len(s) /\ t[k] = s[Down(k, at)]
    BY SMTT(60), InsertedPlaces
  <1>4. at \in 1 .. Len(t)
    BY DEF Inserted
  <1> HIDE DEF n, s, t
  <1>5. ASSUME NEW x, NEW r, Has(h, x, r)
        PROVE  Has(g, x, r) /\ x # Pointer(t[at].at)
    <2>1. PICK j \in 1 .. n : \E k \in 1 .. Len(h.majors[j].minors) :
             Pointer(h.majors[j].minors[k].at) = x /\ h.majors[j].minors[k].req = r
      BY <1>5 DEF Has, n
    <2>2. PICK k \in 1 .. Len(h.majors[j].minors) :
             Pointer(h.majors[j].minors[k].at) = x /\ h.majors[j].minors[k].req = r
      BY <2>1
    <2>3. \E l \in 1 .. Len(g.majors[j].minors) :
             /\ g.majors[j].minors[l] = h.majors[j].minors[k]
             /\ j # i \/ l # at
      <3>1. CASE j = i
        <4>1. k \in 1 .. Len(s) /\ h.majors[j].minors[k] = s[k]
          BY <3>1 DEF s
        <4>2. g.majors[j].minors = t
          BY <1>1, <3>1
        <4> QED BY <1>3, <4>1, <4>2
      <3>2. CASE j # i
        BY <1>2, <3>2
      <3> QED BY <3>1, <3>2
    <2>4. PICK l \in 1 .. Len(g.majors[j].minors) :
             g.majors[j].minors[l] = h.majors[j].minors[k] /\ (j # i \/ l # at)
      BY <2>3
    <2>5. Has(g, x, r)
      BY <2>2, <2>4, <1>1 DEF Has
    <2>6. Pointer(g.majors[j].minors[l].at) # Pointer(g.majors[i].minors[at].at)
      <3>1. at \in 1 .. Len(g.majors[i].minors) /\ i \in 1 .. Len(g.majors)
            /\ j \in 1 .. Len(g.majors) /\ l \in 1 .. Len(g.majors[j].minors)
        BY <1>1, <1>4, <2>4
      <3> QED BY <2>4, <3>1, OneBlock
    <2> QED BY <2>2, <2>4, <2>5, <2>6, <1>1
  <1>6. ASSUME NEW x, NEW r, Has(g, x, r)
        PROVE  Has(h, x, r) \/ (x = Pointer(t[at].at) /\ r = t[at].req)
    <2>1. PICK j \in 1 .. n : \E k \in 1 .. Len(g.majors[j].minors) :
             Pointer(g.majors[j].minors[k].at) = x /\ g.majors[j].minors[k].req = r
      BY <1>1, <1>6 DEF Has
    <2>2. PICK k \in 1 .. Len(g.majors[j].minors) :
             Pointer(g.majors[j].minors[k].at) = x /\ g.majors[j].minors[k].req = r
      BY <2>1
    <2>3. CASE j # i
      BY <2>2, <2>3, <1>2 DEF Has, n
    <2>4. CASE j = i /\ k = at
      BY <2>2, <2>4, <1>1
    <2>5. CASE j = i /\ k # at
      <3>1. k \in 1 .. Len(t) /\ g.majors[j].minors[k] = t[k]
        BY <2>5, <1>1
      <3>2. Down(k, at) \in 1 .. Len(s) /\ g.majors[j].minors[k] = s[Down(k, at)]
        BY <3>1, <2>5, <1>3
      <3> QED BY <2>2, <2>5, <3>2, <1>1 DEF Has, n, s
    <2> QED BY <2>3, <2>4, <2>5
  <1>7. Has(g, Pointer(t[at].at), t[at].req)
    BY <1>1, <1>4 DEF Has
  <1>8. /\ \A x, r : Has(g, x, r) <=> Has(h, x, r) \/ (x = Pointer(t[at].at) /\ r = t[at].req)
        /\ \A r : ~Has(h, Pointer(t[at].at), r)
    BY <1>5, <1>6, <1>7
  <1> QED BY <1>8 DEF Gains, t

\* The same for a major with its only block.
LEMMA MajorGained ==
    ASSUME NEW h, TidyHeap(h), NEW g, TidyHeap(g), NEW at, Inserted(h.majors, g.majors, at),
           Len(g.majors[at].minors) = 1
    PROVE  Gains(h, g, Pointer(g.majors[at].minors[1].at), g.majors[at].minors[1].req)
  <1> DEFINE minor == g.majors[at].minors[1]
  <1>1. /\ \A j \in 1 .. Len(h.majors) :
              /\ Up(j, at) \in 1 .. Len(g.majors) /\ Up(j, at) # at
              /\ g.majors[Up(j, at)] = h.majors[j]
        /\ \A j \in 1 .. Len(g.majors) : j # at =>
              Down(j, at) \in 1 .. Len(h.majors) /\ g.majors[j] = h.majors[Down(j, at)]
    BY InsertedPlaces
  <1>2. at \in 1 .. Len(g.majors) /\ 1 .. Len(g.majors[at].minors) = {1}
    BY DEF Inserted
  <1>3. ASSUME NEW x, NEW r, Has(h, x, r)
        PROVE  Has(g, x, r) /\ x # Pointer(minor.at)
    <2>1. PICK j \in 1 .. Len(h.majors) : \E k \in 1 .. Len(h.majors[j].minors) :
             Pointer(h.majors[j].minors[k].at) = x /\ h.majors[j].minors[k].req = r
      BY <1>3 DEF Has
    <2>2. PICK k \in 1 .. Len(h.majors[j].minors) :
             Pointer(h.majors[j].minors[k].at) = x /\ h.majors[j].minors[k].req = r
      BY <2>1
    <2>3. /\ Up(j, at) \in 1 .. Len(g.majors) /\ Up(j, at) # at
          /\ g.majors[Up(j, at)] = h.majors[j]
      BY <1>1
    <2>4. Has(g, x, r)
      BY <2>2, <2>3 DEF Has
    <2>5. /\ k \in 1 .. Len(g.majors[Up(j, at)].minors) /\ 1 \in 1 .. Len(g.majors[at].minors)
      BY <2>3, <1>2
    <2>6. Pointer(g.majors[Up(j, at)].minors[k].at) # Pointer(g.majors[at].minors[1].at)
      BY <2>3, <2>5, <1>2, OneBlock
    <2> QED BY <2>2, <2>3, <2>4, <2>6
  <1>4. ASSUME NEW x, NEW r, Has(g, x, r)
        PROVE  Has(h, x, r) \/ (x = Pointer(minor.at) /\ r = minor.req)
    <2>1. PICK j \in 1 .. Len(g.majors) : \E k \in 1 .. Len(g.majors[j].minors) :
             Pointer(g.majors[j].minors[k].at) = x /\ g.majors[j].minors[k].req = r
      BY <1>4 DEF Has
    <2>2. PICK k \in 1 .. Len(g.majors[j].minors) :
             Pointer(g.majors[j].minors[k].at) = x /\ g.majors[j].minors[k].req = r
      BY <2>1
    <2>3. CASE j = at
      <3>1. k = 1
        BY <1>2, <2>3
      <3> QED BY <2>2, <2>3, <3>1
    <2>4. CASE j # at
      BY <1>1, <2>2, <2>4 DEF Has
    <2> QED BY <2>3, <2>4
  <1>5. Has(g, Pointer(minor.at), minor.req)
    BY <1>2 DEF Has
  <1>6. /\ \A x, r : Has(g, x, r) <=> Has(h, x, r) \/ (x = Pointer(minor.at) /\ r = minor.req)
        /\ \A r : ~Has(h, Pointer(minor.at), r)
    BY <1>3, <1>4, <1>5
  <1> QED BY <1>6 DEF Gains

\* A heap without one of its majors is tidy.
LEMMA FewerTidy ==
    ASSUME NEW h, TidyHeap(h), NEW g, g \in Heaps, NEW at, Inserted(g.majors, h.majors, at),
           IsBest(g, g.best)
    PROVE  TidyHeap(g)
  <1>1. \A j \in 1 .. Len(g.majors) :
           Up(j, at) \in 1 .. Len(h.majors) /\ h.majors[Up(j, at)] = g.majors[j]
    BY InsertedPlaces
  <1>2. Len(g.majors) \in Nat
    BY DEF Inserted
  <1>3. \A j, k \in 1 .. Len(g.majors) : j # k => Up(j, at) # Up(k, at)
    BY <1>2 DEF Up, Inserted
  <1>4. \A j \in 1 .. Len(g.majors) : Tidy(g.majors[j]) /\ g.majors[j].minors # << >>
    BY <1>1 DEF TidyHeap
  <1>5. \A j, k \in 1 .. Len(g.majors) :
           j # k => Limit(g.majors[j]) <= g.majors[k].at \/ Limit(g.majors[k]) <= g.majors[j].at
    BY <1>1, <1>3 DEF TidyHeap
  <1> QED BY <1>4, <1>5 DEF TidyHeap, IsBest

\* A heap with a new major behind the others, and with blocks, is tidy.
LEMMA MoreTidy ==
    ASSUME NEW h, TidyHeap(h), NEW new \in Major, Tidy(new), new.minors # << >>,
           \A j \in 1 .. Len(h.majors) : Limit(h.majors[j]) <= new.at,
           NEW g, g \in Heaps, g.majors = Append(h.majors, new), IsBest(g, g.best)
    PROVE  /\ TidyHeap(g)
           /\ Inserted(h.majors, g.majors, Len(h.majors) + 1)
           /\ g.majors[Len(h.majors) + 1] = new
  <1> DEFINE n == Len(h.majors)
  <1>1. n \in Nat /\ h.majors \in Seq(Major) /\ DOMAIN h.majors = 1 .. n
    BY HeapIs
  <1>2. /\ Len(g.majors) = n + 1 /\ DOMAIN g.majors = 1 .. n + 1
        /\ \A j \in 1 .. n : g.majors[j] = h.majors[j]
        /\ g.majors[n + 1] = new
    BY <1>1
  <1>3. Inserted(h.majors, g.majors, n + 1)
    BY <1>1, <1>2 DEF Inserted
  <1>4. \A j \in 1 .. n + 1 : Tidy(g.majors[j]) /\ g.majors[j].minors # << >>
    BY <1>1, <1>2 DEF TidyHeap
  <1>5. \A j, k \in 1 .. n : j # k =>
           Limit(g.majors[j]) <= g.majors[k].at \/ Limit(g.majors[k]) <= g.majors[j].at
    BY <1>2 DEF TidyHeap
  <1>6. \A j \in 1 .. n : Limit(g.majors[j]) <= g.majors[n + 1].at
    BY <1>2
  <1>7. \A j, k \in 1 .. n + 1 : j # k =>
           Limit(g.majors[j]) <= g.majors[k].at \/ Limit(g.majors[k]) <= g.majors[j].at
    <2> TAKE j, k \in 1 .. n + 1
    <2> HAVE j # k
    <2>1. CASE j \in 1 .. n /\ k \in 1 .. n
      BY <2>1, <1>5
    <2>2. CASE j = n + 1
      <3>1. k \in 1 .. n
        BY <2>2, <1>1
      <3> QED BY <3>1, <2>2, <1>6
    <2>3. CASE k = n + 1
      <3>1. j \in 1 .. n
        BY <2>3, <1>1
      <3> QED BY <3>1, <2>3, <1>6
    <2> QED BY <2>1, <2>2, <2>3, <1>1
  <1> QED BY <1>2, <1>3, <1>4, <1>7 DEF TidyHeap, IsBest

-----------------------------------------------------------------------------
(* malloc *)

LEMMA PaddedIs ==
    ASSUME NEW req \in Nat
    PROVE  Padded(req) \in Nat /\ Need(Padded(req)) \in Nat
  BY SizesAre DEF Padded, Need

\* g is h with one more block, at the place at of major i.
BlockMore(h, g, i, at, size) ==
    /\ Replaced(h, g, i, g.majors[i])
    /\ g.majors[i].at = h.majors[i].at /\ g.majors[i].pages = h.majors[i].pages
    /\ Inserted(h.majors[i].minors, g.majors[i].minors, at)
    /\ g.majors[i].minors[at].size = size
    /\ g.majors[i].usage = h.majors[i].usage + Need(size)
    /\ g.allocated = h.allocated /\ g.inuse = h.inuse + size

\* g is h with one more major, and its only block.
MajorMore(h, g, at, size) ==
    /\ Inserted(h.majors, g.majors, at)
    /\ Len(g.majors[at].minors) = 1 /\ g.majors[at].minors[1].size = size
    /\ g.allocated = h.allocated + Bytes(g.majors[at]) /\ g.inuse = h.inuse + size

LEMMA WithinIs ==
    ASSUME NEW h, TidyHeap(h), NEW req \in Nat, ~Grows(h, req),
           NEW g, g = MallocWithin(h, req)
    PROVE  /\ TidyHeap(g)
           /\ \A j \in 1 .. Len(h.majors) : Limit(g.majors[j]) = Limit(h.majors[j])
           /\ Len(g.majors) = Len(h.majors)
           /\ \E ptr : Gains(h, g, ptr, req)
           /\ \E i, at : BlockMore(h, g, i, at, Padded(req))
  <1> DEFINE n == Len(h.majors)
             size == Padded(req)
             order == Order(h, size)
             hits == {k \in DOMAIN order : Fits(h.majors[order[k]], size)}
             hit == CHOOSE k \in hits : \A j \in hits : k <= j
             i == order[hit]
             new == Placed(h.majors[i], size, req)
             best == BestOf(h, SubSeq(order, 1, hit))
  <1>1. /\ h.majors \in Seq(Major) /\ n \in Nat /\ DOMAIN h.majors = 1 .. n
        /\ h.best \in Nat /\ h.allocated \in Int /\ h.inuse \in Int
        /\ \A j \in 1 .. n : h.majors[j] \in Major
    BY HeapIs
  <1>2. h \in Heaps /\ \A j \in 1 .. n : Tidy(h.majors[j])
    BY DEF TidyHeap
  <1>3. size \in Nat /\ Need(size) \in Nat
    BY PaddedIs
  <1>4. g = [h EXCEPT !.majors[i] = new, !.best = best, !.inuse = @ + size]
    BY DEF MallocWithin
  <1>5. \E j \in 1 .. n : Fits(h.majors[j], size)
    BY <1>1 DEF Grows
  <1> HIDE DEF size
  <1>6. /\ order \in Seq(1 .. n)
        /\ \A j \in 1 .. n : \E k \in 1 .. Len(order) : order[k] = j
    BY <1>3, OrderIs
  <1> HIDE DEF order
  <1>7. Len(order) \in Nat /\ DOMAIN order = 1 .. Len(order)
    BY <1>6
  <1>8. hits # {} /\ hits \subseteq Nat
    <2>1. PICK j \in 1 .. n : Fits(h.majors[j], size)
      BY <1>5
    <2>2. PICK k \in 1 .. Len(order) : order[k] = j
      BY <1>6
    <2>3. k \in hits
      BY <1>7, <2>1, <2>2
    <2> QED BY <1>7, <2>3
  <1>9. hit \in hits
    <2> HIDE DEF hits
    <2> QED BY <1>8, LeastNumber
  <1>10. hit \in 1 .. Len(order) /\ Fits(h.majors[i], size)
    BY <1>7, <1>9
  <1> HIDE DEF hit, hits
  <1>11. i \in 1 .. n
    BY <1>6, <1>10
  <1>12. IsBest(h, best)
    <2>1. SubSeq(order, 1, hit) \in Seq(1 .. n)
      BY <1>6, <1>7, <1>10
    <2> QED BY <2>1, BestIs
  <1> HIDE DEF i, best
  <1>13. /\ h.majors[i] \in Major /\ Tidy(h.majors[i]) /\ Gaps(h.majors[i], size) # {}
         /\ Padded(req) <= size
    BY <1>1, <1>2, <1>3, <1>10, <1>11 DEF Fits, size
  <1>14. /\ new \in Major /\ Tidy(new)
         /\ new.at = h.majors[i].at /\ new.pages = h.majors[i].pages
         /\ new.usage = h.majors[i].usage + Need(size)
         /\ \E at : /\ Inserted(h.majors[i].minors, new.minors, at)
                    /\ new.minors[at].size = size /\ new.minors[at].req = req
    BY <1>3, <1>13, PlacedIs
  <1> HIDE DEF new
  <1>15. PICK at : /\ Inserted(h.majors[i].minors, new.minors, at)
                   /\ new.minors[at].size = size /\ new.minors[at].req = req
    BY <1>14
  <1>16. /\ g.majors = [h.majors EXCEPT ![i] = new] /\ g.best = best
         /\ g.inuse = h.inuse + size /\ g.allocated = h.allocated /\ g \in Heaps
    <2>1. best \in Nat
      BY <1>12 DEF IsBest
    <2>2. h = [majors |-> h.majors, best |-> h.best, allocated |-> h.allocated, inuse |-> h.inuse]
      BY <1>2 DEF Heaps
    <2>3. g = [majors |-> [h.majors EXCEPT ![i] = new], best |-> best,
               allocated |-> h.allocated, inuse |-> h.inuse + size]
      BY <1>4, <2>2
    <2>4. [h.majors EXCEPT ![i] = new] \in Seq(Major)
      BY <1>1, <1>11, <1>14, OneElement
    <2>5. h.inuse + size \in Int
      BY <1>1, <1>3
    <2> QED BY <2>1, <2>3, <2>4, <2>5, <1>1 DEF Heaps
  <1>17. Replaced(h, g, i, new)
    <2>1. Len(g.majors) = n
      BY <1>1, <1>16
    <2> QED BY <2>1, <1>1, <1>11, <1>16 DEF Replaced
  <1>18. new.minors # << >>
    BY <1>15 DEF Inserted
  <1>19. /\ TidyHeap(g)
         /\ \A j \in 1 .. n : Limit(g.majors[j]) = Limit(h.majors[j])
    BY <1>12, <1>14, <1>16, <1>17, <1>18, ReplacedTidy
  <1>20. Gains(h, g, Pointer(new.minors[at].at), req)
    BY <1>15, <1>17, <1>19, BlockGained
  <1>21. BlockMore(h, g, i, at, size)
    <2>1. g.majors[i] = new
      BY <1>17 DEF Replaced
    <2> QED BY <2>1, <1>14, <1>15, <1>16, <1>17 DEF BlockMore
  <1> QED BY <1>17, <1>19, <1>20, <1>21 DEF Replaced, size

LEMMA GrownIs ==
    ASSUME NEW h, TidyHeap(h), NEW req \in Nat, NEW at \in Nat,
           \A j \in 1 .. Len(h.majors) : Limit(h.majors[j]) <= at,
           NEW g, g = MallocGrown(h, req, at)
    PROVE  /\ TidyHeap(g)
           /\ \A j \in 1 .. Len(g.majors) :
                 Limit(g.majors[j]) <= at + PagesFor(Padded(req)) * PageSize
           /\ \E ptr : Gains(h, g, ptr, req)
           /\ LET last == Len(h.majors) + 1 IN
              /\ MajorMore(h, g, last, Padded(req))
              /\ g.majors[last].usage = MajorSize + Need(Padded(req))
  <1> DEFINE n == Len(h.majors)
             size == Padded(req)
             fresh == NewMajor(at, size)
             new == Placed(fresh, size, req)
             seen == [h EXCEPT !.best = BestOf(h, Order(h, size))]
  <1>1. /\ h.majors \in Seq(Major) /\ n \in Nat /\ DOMAIN h.majors = 1 .. n
        /\ h.allocated \in Int /\ h.inuse \in Int /\ h \in Heaps
        /\ \A j \in 1 .. n : h.majors[j] \in Major
    BY HeapIs DEF TidyHeap
  <1>2. size \in Nat /\ Need(size) \in Nat
    BY PaddedIs
  <1> HIDE DEF size
  <1>3. /\ PagesFor(size) \in Nat /\ PagesFor(size) * PageSize \in Nat
        /\ size + MajorSize + MinorSize <= PagesFor(size) * PageSize
    BY <1>2, PagesAreEnough
  <1>4. /\ fresh \in Major /\ fresh.at = at /\ fresh.pages = PagesFor(size)
        /\ fresh.usage = MajorSize /\ fresh.minors = << >>
    BY <1>3, SizesAre DEF NewMajor, Major
  <1> HIDE DEF fresh
  <1>5. Bytes(fresh) = PagesFor(size) * PageSize /\ Len(fresh.minors) = 0
    BY <1>4 DEF Bytes
  <1>6. Tidy(fresh)
    BY <1>5 DEF Tidy
  <1>7. 1 \in Gaps(fresh, size)
    <2>1. GapStart(fresh, 1) = at + MajorSize
      BY <1>4 DEF GapStart
    <2>2. GapEnd(fresh, 1) = at + PagesFor(size) * PageSize
      BY <1>4, <1>5 DEF GapEnd
    <2> DEFINE bytes == PagesFor(size) * PageSize
    <2>3. GapEnd(fresh, 1) - GapStart(fresh, 1) >= Need(size)
      <3>1. bytes \in Nat /\ size + MajorSize + MinorSize <= bytes /\ GapEnd(fresh, 1) = at + bytes
        BY <1>3, <2>2
      <3> HIDE DEF bytes
      <3> QED BY <3>1, <2>1, <1>2, SizesAre DEF Need
    <2> QED BY <2>3, <1>5 DEF Gaps, FitsAt
  <1>8. /\ new \in Major /\ Tidy(new)
        /\ new.at = at /\ new.pages = PagesFor(size)
        /\ new.usage = MajorSize + Need(size)
        /\ \E k : /\ Inserted(fresh.minors, new.minors, k)
                  /\ new.minors[k].size = size /\ new.minors[k].req = req
    <2>1. Gaps(fresh, size) # {} /\ Padded(req) <= size
      BY <1>2, <1>7 DEF size
    <2> QED BY <2>1, <1>2, <1>4, <1>6, PlacedIs
  <1> HIDE DEF new
  <1>9. PICK k : /\ Inserted(fresh.minors, new.minors, k)
                 /\ new.minors[k].size = size /\ new.minors[k].req = req
    BY <1>8
  <1>10. Len(new.minors) = 1 /\ k = 1
    BY <1>5, <1>9 DEF Inserted
  <1>11. new.minors[1].size = size /\ new.minors[1].req = req /\ new.minors # << >>
    BY <1>9, <1>10
  <1>12. IsBest(h, seen.best)
    <2>1. seen.best = BestOf(h, Order(h, size))
      BY <1>1 DEF Heaps
    <2> QED BY <2>1, <1>2, OrderIs, BestIs
  <1> HIDE DEF seen
  <1>13. PICK best \in {at, seen.best} :
           g = [majors |-> Append(h.majors, new), best |-> best,
                allocated |-> h.allocated + Bytes(fresh), inuse |-> h.inuse + size]
    BY DEF MallocGrown, seen, fresh, new, size
  <1>14. /\ g.majors = Append(h.majors, new) /\ g.best = best
         /\ g.allocated = h.allocated + Bytes(fresh) /\ g.inuse = h.inuse + size
    BY <1>13
  <1>15. g \in Heaps
    <2>1. Append(h.majors, new) \in Seq(Major)
      BY <1>1, <1>8
    <2>2. Bytes(fresh) \in Nat /\ best \in Nat
      BY <1>4, <1>12, MajorIs DEF IsBest
    <2>3. h.allocated + Bytes(fresh) \in Int /\ h.inuse + size \in Int
      BY <1>1, <1>2, <2>2
    <2> QED BY <2>1, <2>2, <2>3, <1>13 DEF Heaps
  <1>16. IsBest(g, g.best)
    <2>1. /\ Len(g.majors) = n + 1 /\ g.majors[n + 1] = new
          /\ \A j \in 1 .. n : g.majors[j] = h.majors[j]
      BY <1>1, <1>14
    <2>2. 1 .. n \subseteq 1 .. n + 1 /\ n + 1 \in 1 .. n + 1
      BY <1>1
    <2>3. CASE best = at
      BY <2>1, <2>2, <2>3, <1>8, <1>14 DEF IsBest
    <2>4. CASE best = seen.best
      BY <2>1, <2>2, <2>4, <1>12, <1>14 DEF IsBest
    <2> QED BY <2>3, <2>4, <1>13
  <1>17. /\ TidyHeap(g)
         /\ Inserted(h.majors, g.majors, n + 1)
         /\ g.majors[n + 1] = new
    BY <1>8, <1>11, <1>14, <1>15, <1>16, MoreTidy
  <1>18. Gains(h, g, Pointer(new.minors[1].at), req)
    BY <1>10, <1>11, <1>17, MajorGained
  <1>19. Bytes(new) = Bytes(fresh)
    BY <1>4, <1>8 DEF Bytes
  <1>20. MajorMore(h, g, n + 1, size)
    BY <1>10, <1>11, <1>14, <1>17, <1>19 DEF MajorMore
  <1>21. ASSUME NEW j \in 1 .. Len(g.majors)
         PROVE  Limit(g.majors[j]) <= at + PagesFor(size) * PageSize
    <2>1. CASE j = n + 1
      BY <2>1, <1>3, <1>5, <1>8, <1>17, <1>19 DEF Limit
    <2>2. CASE j # n + 1
      <3>1. j \in 1 .. n /\ g.majors[j] = h.majors[j]
        BY <2>2, <1>1, <1>14
      <3>2. Limit(h.majors[j]) <= at /\ Limit(h.majors[j]) \in Nat
        BY <3>1, <1>1, MajorIs
      <3>3. at <= at + PagesFor(size) * PageSize /\ at + PagesFor(size) * PageSize \in Nat
        BY <1>3
      <3> QED BY <3>1, <3>2, <3>3
    <2> QED BY <2>1, <2>2
  <1> QED BY <1>8, <1>17, <1>18, <1>20, <1>21 DEF size

-----------------------------------------------------------------------------
(* free and realloc *)

LEMMA FewerBlocksTidy ==
    ASSUME NEW major \in Major, Tidy(major), NEW less \in Major,
           less.at = major.at, less.pages = major.pages,
           NEW k, Inserted(less.minors, major.minors, k)
    PROVE  Tidy(less)
  <1>1. \A j \in 1 .. Len(less.minors) :
           Up(j, k) \in 1 .. Len(major.minors) /\ major.minors[Up(j, k)] = less.minors[j]
    BY InsertedPlaces
  <1>2. Limit(less) = Limit(major)
    BY DEF Limit, Bytes
  <1>3. \A j, l \in 1 .. Len(less.minors) : j < l => Up(j, k) < Up(l, k)
    BY DEF Up, Inserted
  <1> QED BY <1>1, <1>2, <1>3 DEF Tidy

LEMMA BlockFound ==
    ASSUME NEW h, TidyHeap(h), NEW ptr, ptr \in Pointers(h)
    PROVE  /\ MajorOf(h, ptr) \in 1 .. Len(h.majors)
           /\ MinorOf(h, ptr) \in 1 .. Len(h.majors[MajorOf(h, ptr)].minors)
           /\ ptr = Pointer(h.majors[MajorOf(h, ptr)].minors[MinorOf(h, ptr)].at)
           /\ Requested(h, ptr) = h.majors[MajorOf(h, ptr)].minors[MinorOf(h, ptr)].req
  <1>1. PICK j \in 1 .. Len(h.majors) : \E l \in 1 .. Len(h.majors[j].minors) :
           Pointer(h.majors[j].minors[l].at) = ptr
    BY HeapIs, MajorIs DEF Pointers
  <1>2. PICK l \in 1 .. Len(h.majors[j].minors) : ptr = Pointer(h.majors[j].minors[l].at)
    BY <1>1
  <1>3. /\ MajorOf(h, ptr) = j /\ MinorOf(h, ptr) = l
        /\ Requested(h, ptr) = h.majors[j].minors[l].req
    BY <1>2, PointerFound
  <1> QED BY <1>2, <1>3

LEMMA OnlyThere ==
    ASSUME NEW h, TidyHeap(h), NEW ptr, ptr \in Pointers(h),
           NEW j \in 1 .. Len(h.majors), NEW l \in 1 .. Len(h.majors[j].minors),
           Pointer(h.majors[j].minors[l].at) = ptr
    PROVE  j = MajorOf(h, ptr) /\ l = MinorOf(h, ptr)
  <1> DEFINE i == MajorOf(h, ptr)
             k == MinorOf(h, ptr)
  <1>1. /\ i \in 1 .. Len(h.majors) /\ k \in 1 .. Len(h.majors[i].minors)
        /\ ptr = Pointer(h.majors[i].minors[k].at)
    BY BlockFound
  <1> HIDE DEF i, k
  <1>2. j = i /\ l = k
    BY SMTT(60), <1>1, OneBlock
  <1> QED BY <1>2 DEF i, k

LEMMA MajorFields ==
    ASSUME NEW major \in Major, NEW m \in Seq(Minor), NEW u \in Int,
           NEW new, new = [major EXCEPT !.minors = m, !.usage = u]
    PROVE  new = [at |-> major.at, pages |-> major.pages, usage |-> u, minors |-> m]
  <1>1. major \in [at : Nat, pages : Nat, usage : Int, minors : Seq(Minor)]
    BY DEF Major
  <1> QED BY <1>1

LEMMA HeapFields ==
    ASSUME NEW h \in Heaps, NEW m \in Seq(Major), NEW u \in Int,
           NEW new, new = [h EXCEPT !.majors = m, !.inuse = u]
    PROVE  new = [majors |-> m, best |-> h.best, allocated |-> h.allocated, inuse |-> u]
  <1>1. h \in [majors : Seq(Major), best : Nat, allocated : Int, inuse : Int]
    BY DEF Heaps
  <1> QED BY <1>1

LEMMA PutBack ==
    ASSUME NEW a \in Int, NEW b \in Int, NEW c, c = a - b
    PROVE  a = c + b
  OBVIOUS

LEMMA FreeIs ==
    ASSUME NEW h, TidyHeap(h), NEW ptr, ptr \in Pointers(h),
           NEW g, g = Free(h, ptr)
    PROVE  /\ TidyHeap(g)
           /\ \A j \in 1 .. Len(g.majors) : \E k \in 1 .. Len(h.majors) :
                 Limit(g.majors[j]) = Limit(h.majors[k])
           /\ \E req : Gains(g, h, ptr, req)
           /\ \E i, at, size : /\ size \in Nat
                               /\ BlockMore(g, h, i, at, size) \/ MajorMore(g, h, i, size)
  <1> DEFINE n == Len(h.majors)
             i == MajorOf(h, ptr)
             k == MinorOf(h, ptr)
             major == h.majors[i]
             size == major.minors[k].size
             less == [major EXCEPT !.minors = RemoveAt(@, k), !.usage = @ - Need(size)]
             kept == [h EXCEPT !.majors[i] = less, !.inuse = @ - size]
  <1>1. /\ h.majors \in Seq(Major) /\ n \in Nat /\ DOMAIN h.majors = 1 .. n
        /\ h.allocated \in Int /\ h.inuse \in Int /\ h \in Heaps /\ h.best \in Nat
        /\ \A j \in 1 .. n : h.majors[j] \in Major
    BY HeapIs DEF TidyHeap
  <1>2. i \in 1 .. n /\ k \in 1 .. Len(major.minors) /\ ptr = Pointer(major.minors[k].at)
    BY BlockFound
  <1>3. g = IF less.minors = << >>
            THEN [kept EXCEPT !.majors = RemoveAt(@, i), !.best = BetWithout(h, major),
                              !.allocated = @ - Bytes(major)]
            ELSE [kept EXCEPT !.best = IF @ # Null /\ Room(less) > BestRoom(kept)
                                       THEN major.at ELSE @]
    BY DEF Free
  <1> HIDE DEF i, k
  <1>4. /\ major \in Major /\ Tidy(major) /\ size \in Nat /\ Need(size) \in Nat
        /\ major.minors \in Seq(Minor) /\ major.at \in Nat /\ major.pages \in Nat
        /\ major.usage \in Int /\ Bytes(major) \in Nat
    BY <1>1, <1>2, MajorIs, MinorIs DEF TidyHeap
  <1>5. /\ RemoveAt(major.minors, k) \in Seq(Minor)
        /\ Inserted(RemoveAt(major.minors, k), major.minors, k)
    BY <1>2, <1>4, RemoveIs
  <1>6. less = [at |-> major.at, pages |-> major.pages, usage |-> major.usage - Need(size),
                minors |-> RemoveAt(major.minors, k)]
    <2> DEFINE r == RemoveAt(major.minors, k)
               u == major.usage - Need(size)
    <2>1. less = [major EXCEPT !.minors = r, !.usage = u]
      OBVIOUS
    <2> HIDE DEF r, u, less
    <2>2. [major EXCEPT !.minors = r, !.usage = u] =
             [at |-> major.at, pages |-> major.pages, usage |-> u, minors |-> r]
      <3>1. r \in Seq(Minor) /\ u \in Int
        BY <1>4, <1>5 DEF r, u
      <3> QED BY <3>1, <1>4, MajorFields
    <2> QED BY <2>1, <2>2 DEF r, u
  <1> HIDE DEF less
  <1>7. /\ less \in Major /\ less.at = major.at /\ less.pages = major.pages
        /\ less.usage = major.usage - Need(size)
        /\ Inserted(less.minors, major.minors, k)
        /\ less.minors = RemoveAt(major.minors, k)
    <2>1. major.usage - Need(size) \in Int
      BY <1>4
    <2> QED BY <2>1, <1>4, <1>5, <1>6 DEF Major
  <1>8. Tidy(less)
    BY <1>4, <1>7, FewerBlocksTidy
  <1>9. kept = [majors |-> [h.majors EXCEPT ![i] = less], best |-> h.best,
                allocated |-> h.allocated, inuse |-> h.inuse - size]
    <2> DEFINE u == h.inuse - size
    <2>1. kept = [h EXCEPT !.majors = [h.majors EXCEPT ![i] = less], !.inuse = u]
      OBVIOUS
    <2> HIDE DEF u, kept
    <2>2. u \in Int /\ [h.majors EXCEPT ![i] = less] \in Seq(Major)
      BY SMTT(60), <1>1, <1>2, <1>4, <1>7, OneElement DEF u
    <2>3. [h EXCEPT !.majors = [h.majors EXCEPT ![i] = less], !.inuse = u] =
             [majors |-> [h.majors EXCEPT ![i] = less], best |-> h.best,
              allocated |-> h.allocated, inuse |-> u]
      BY <2>2, <1>1, HeapFields
    <2> QED BY <2>1, <2>3 DEF u
  <1> HIDE DEF kept
  <1>10. /\ [h.majors EXCEPT ![i] = less] \in Seq(Major)
         /\ Len([h.majors EXCEPT ![i] = less]) = n
    BY <1>1, <1>2, <1>7, OneElement
  <1>11. h.inuse - size \in Int
    BY SMTT(60), <1>1, <1>4
  <1>12. IsBest(h, h.best) /\ IsBest(h, major.at)
    BY <1>1, <1>2, <1>4 DEF TidyHeap, IsBest
  <1>13. CASE less.minors # << >>
    <2>1. PICK best \in {major.at, h.best} :
             g = [majors |-> [h.majors EXCEPT ![i] = less], best |-> best,
                  allocated |-> h.allocated, inuse |-> h.inuse - size]
      BY <1>3, <1>9, <1>13
    <2>2. /\ g.majors = [h.majors EXCEPT ![i] = less] /\ g.best = best
          /\ g.allocated = h.allocated /\ g.inuse = h.inuse - size
      BY <2>1
    <2>3. g \in Heaps
      BY SMTT(60), <2>1, <1>1, <1>4, <1>10, <1>11 DEF Heaps
    <2>4. Len(g.majors) = n /\ g.majors[i] = less
          /\ \A j \in 1 .. n : j # i => g.majors[j] = h.majors[j]
      BY <2>2, <1>1, <1>2, <1>10
    <2>5. Replaced(h, g, i, less) /\ Replaced(g, h, i, major)
      BY <2>3, <2>4, <1>1, <1>2 DEF Replaced
    <2>6. IsBest(h, g.best)
      BY <2>2, <1>12
    <2>7. /\ TidyHeap(g)
          /\ \A j \in 1 .. n : Limit(g.majors[j]) = Limit(h.majors[j])
      BY <2>5, <2>6, <1>7, <1>8, <1>13, ReplacedTidy
    <2>8. Inserted(g.majors[i].minors, major.minors, k)
      BY <2>4, <1>7
    <2>9. Gains(g, h, ptr, major.minors[k].req)
      BY <2>5, <2>7, <2>8, <1>2, BlockGained
    <2>10. BlockMore(g, h, i, k, size)
      <3>1. /\ h.majors[i].usage = g.majors[i].usage + Need(size)
            /\ h.inuse = g.inuse + size
        <4>1. /\ g.majors[i].usage = major.usage - Need(size)
              /\ g.inuse = h.inuse - size
          BY <2>2, <2>4, <1>7
        <4>2. /\ major.usage \in Int /\ Need(size) \in Int
              /\ h.inuse \in Int /\ size \in Int
          BY SMTT(60), <1>1, <1>4
        <4> HIDE DEF size
        <4> QED BY <4>1, <4>2, PutBack
      <3> QED BY <3>1, <2>2, <2>4, <2>5, <2>8, <1>7 DEF BlockMore
    <2> QED BY <2>4, <2>7, <2>9, <2>10, <1>4
  <1>14. CASE less.minors = << >>
    <2> DEFINE s == RemoveAt([h.majors EXCEPT ![i] = less], i)
    <2>1. g = [majors |-> s, best |-> BetWithout(h, major),
               allocated |-> h.allocated - Bytes(major), inuse |-> h.inuse - size]
      BY <1>3, <1>9, <1>14
    <2>2. s \in Seq(Major) /\ Inserted(s, [h.majors EXCEPT ![i] = less], i)
      BY <1>2, <1>10, RemoveIs
    <2> HIDE DEF s
    <2>3. Inserted(s, h.majors, i)
      <3>1. \A j \in 1 .. n : j # i => [h.majors EXCEPT ![i] = less][j] = h.majors[j]
        BY <1>1
      <3>2. /\ Len(s) \in Nat /\ n = Len(s) + 1 /\ DOMAIN s = 1 .. Len(s)
            /\ \A j \in 1 .. i - 1 : [h.majors EXCEPT ![i] = less][j] = s[j]
            /\ \A j \in i .. Len(s) : [h.majors EXCEPT ![i] = less][j + 1] = s[j]
        BY <2>2, <1>10 DEF Inserted
      <3>3. \A j \in 1 .. i - 1 : h.majors[j] = s[j]
        BY <3>1, <3>2, <1>2
      <3>4. \A j \in i .. Len(s) : h.majors[j + 1] = s[j]
        BY <3>1, <3>2, <1>2
      <3> QED BY <3>2, <3>3, <3>4, <1>1, <1>2 DEF Inserted
    <2>4. /\ g.majors = s /\ g.best = BetWithout(h, major)
          /\ g.allocated = h.allocated - Bytes(major) /\ g.inuse = h.inuse - size
      BY <2>1
    <2>5. g \in Heaps
      <3>1. h.allocated - Bytes(major) \in Int /\ BetWithout(h, major) \in Nat
        BY <1>1, <1>4 DEF BetWithout, Null
      <3> QED BY <3>1, <2>1, <2>2, <1>11 DEF Heaps
    <2>6. \A j \in 1 .. n : j # i =>
             Down(j, i) \in 1 .. Len(s) /\ h.majors[j] = s[Down(j, i)]
      BY <2>3, InsertedPlaces
    <2>7. IsBest(g, g.best)
      <3>1. g.best \in Nat
        BY <2>5 DEF Heaps
      <3>2. ASSUME g.best # Null
            PROVE  \E j \in 1 .. Len(g.majors) : g.majors[j].at = g.best
        <4>1. g.best = h.best /\ h.best # major.at
          BY <3>2, <2>4 DEF BetWithout
        <4>2. PICK j \in 1 .. n : h.majors[j].at = h.best
          BY <4>1, <3>2, <1>12 DEF IsBest
        <4>3. j # i
          BY <4>1, <4>2
        <4> QED BY <4>1, <4>2, <4>3, <2>4, <2>6
      <3> QED BY <3>1, <3>2 DEF IsBest
    <2>8. TidyHeap(g)
      BY <2>3, <2>4, <2>5, <2>7, FewerTidy
    <2>9. Len(major.minors) = 1 /\ k = 1
      <3>1. Len(less.minors) = 0
        BY <1>14
      <3> QED BY <3>1, <1>7, <1>2 DEF Inserted
    <2>10. Gains(g, h, ptr, major.minors[1].req)
      <3>1. Inserted(g.majors, h.majors, i) /\ Len(h.majors[i].minors) = 1
        BY <2>3, <2>4, <2>9
      <3>2. ptr = Pointer(h.majors[i].minors[1].at)
        BY <1>2, <2>9
      <3> QED BY <3>1, <3>2, <2>8, MajorGained
    <2>11. MajorMore(g, h, i, size)
      <3>1. h.allocated = g.allocated + Bytes(h.majors[i]) /\ h.inuse = g.inuse + size
        <4>1. /\ g.allocated = h.allocated - Bytes(major)
              /\ g.inuse = h.inuse - size
          BY <2>4
        <4>2. /\ h.allocated \in Int /\ Bytes(major) \in Int
              /\ h.inuse \in Int /\ size \in Int
          BY SMTT(60), <1>1, <1>4
        <4> HIDE DEF size
        <4> QED BY ZenonT(60), <4>1, <4>2, PutBack
      <3> QED BY <3>1, <2>3, <2>4, <2>9 DEF MajorMore
    <2>12. \A j \in 1 .. Len(s) : Up(j, i) \in 1 .. n /\ h.majors[Up(j, i)] = s[j]
      BY <2>3, InsertedPlaces
    <2> QED BY <2>4, <2>8, <2>10, <2>11, <2>12, <1>4
  <1> QED BY <1>13, <1>14

\* What realloc does to the block that is large enough.
Smaller(h, g, ptr, req) ==
    \A x, r : Has(g, x, r) <=> (x # ptr /\ Has(h, x, r)) \/ (x = ptr /\ r = req)

\* The sizes, and all the counts, are the same.
SameSizes(h, g) ==
    /\ Len(g.majors) = Len(h.majors)
    /\ \A i \in 1 .. Len(h.majors) :
          /\ g.majors[i].at = h.majors[i].at /\ g.majors[i].pages = h.majors[i].pages
          /\ g.majors[i].usage = h.majors[i].usage
          /\ Len(g.majors[i].minors) = Len(h.majors[i].minors)
          /\ \A k \in 1 .. Len(h.majors[i].minors) :
                g.majors[i].minors[k].size = h.majors[i].minors[k].size
    /\ g.allocated = h.allocated /\ g.inuse = h.inuse

LEMMA ShrunkIs ==
    ASSUME NEW h, TidyHeap(h), NEW ptr, ptr \in Pointers(h),
           NEW req \in Nat, req <= Requested(h, ptr),
           NEW g, g = Shrunk(h, ptr, req)
    PROVE  /\ TidyHeap(g)
           /\ \A j \in 1 .. Len(h.majors) : Limit(g.majors[j]) = Limit(h.majors[j])
           /\ Smaller(h, g, ptr, req)
           /\ SameSizes(h, g)
  <1> DEFINE n == Len(h.majors)
             i == MajorOf(h, ptr)
             k == MinorOf(h, ptr)
             major == h.majors[i]
             minor == major.minors[k]
             less == [minor EXCEPT !.req = req]
             t == [major.minors EXCEPT ![k] = less]
             new == [major EXCEPT !.minors = t]
  <1>1. /\ h.majors \in Seq(Major) /\ n \in Nat /\ DOMAIN h.majors = 1 .. n
        /\ h.allocated \in Int /\ h.inuse \in Int /\ h \in Heaps /\ h.best \in Nat
        /\ \A j \in 1 .. n : h.majors[j] \in Major
    BY HeapIs DEF TidyHeap
  <1>2. /\ i \in 1 .. n /\ k \in 1 .. Len(major.minors) /\ ptr = Pointer(minor.at)
        /\ req <= minor.req
    BY BlockFound
  <1>3. g = [h EXCEPT !.majors = [h.majors EXCEPT ![i] = new]]
    BY <1>1, <1>2 DEF Shrunk
  <1> HIDE DEF i, k
  <1>4. /\ major \in Major /\ Tidy(major) /\ minor \in Minor
        /\ major.minors \in Seq(Minor) /\ Len(major.minors) \in Nat
        /\ DOMAIN major.minors = 1 .. Len(major.minors)
    BY <1>1, <1>2, MajorIs, MinorIs DEF TidyHeap
  <1>5. /\ less \in Minor /\ less.at = minor.at /\ less.size = minor.size /\ less.req = req
    <2> HIDE DEF minor
    <2> QED BY <1>4 DEF Minor
  <1> HIDE DEF less
  <1>6. /\ t \in Seq(Minor) /\ Len(t) = Len(major.minors) /\ t[k] = less
        /\ \A l \in 1 .. Len(major.minors) : l # k => t[l] = major.minors[l]
    <2>1. k \in 1 .. Len(major.minors) /\ less \in Minor
      BY <1>2, <1>5
    <2> DEFINE minors == major.minors
    <2>2. minors \in Seq(Minor) /\ k \in 1 .. Len(minors) /\ t = [minors EXCEPT ![k] = less]
      BY <1>4, <2>1
    <2> HIDE DEF t
    <2> HIDE DEF minors
    <2>3. t \in Seq(Minor) /\ Len(t) = Len(minors)
      BY ONLY <2>1, <2>2, OneElement
    <2>4. t[k] = less /\ \A l \in 1 .. Len(minors) : l # k => t[l] = minors[l]
      BY ONLY <2>2
    <2> QED BY ONLY <2>3, <2>4 DEF minors
  <1> HIDE DEF t
  <1>7. /\ new \in Major /\ new.at = major.at /\ new.pages = major.pages
        /\ new.usage = major.usage /\ new.minors = t
    <2>1. major \in [at : Nat, pages : Nat, usage : Int, minors : Seq(Minor)]
      BY <1>4 DEF Major
    <2> HIDE DEF major
    <2> QED BY <1>6, <2>1 DEF Major
  <1> HIDE DEF new
  <1>8. /\ g.majors = [h.majors EXCEPT ![i] = new] /\ g.best = h.best
        /\ g.allocated = h.allocated /\ g.inuse = h.inuse /\ g \in Heaps
    <2> DEFINE s == [h.majors EXCEPT ![i] = new]
    <2>1. s \in Seq(Major)
      BY <1>1, <1>2, <1>7, OneElement
    <2>2. h \in [majors : Seq(Major), best : Nat, allocated : Int, inuse : Int]
      BY <1>1 DEF Heaps
    <2> HIDE DEF s
    <2>3. g = [h EXCEPT !.majors = s]
      BY <1>3 DEF s
    <2> QED BY <2>1, <2>2, <2>3 DEF Heaps, s
  <1>9. Replaced(h, g, i, new)
    <2>1. Len(g.majors) = n
      BY <1>1, <1>8
    <2> QED BY <2>1, <1>1, <1>2, <1>8 DEF Replaced
  <1>10. \A l \in 1 .. Len(major.minors) :
            /\ t[l].at = major.minors[l].at /\ t[l].size = major.minors[l].size
            /\ End(t[l]) = End(major.minors[l])
    BY <1>5, <1>6 DEF End
  <1>11. Limit(new) = Limit(major)
    BY <1>7 DEF Limit, Bytes
  <1>12. ASSUME NEW l \in 1 .. Len(major.minors)
         PROVE  Padded(t[l].req) <= t[l].size
    <2>1. CASE l # k
      BY <2>1, <1>4, <1>6 DEF Tidy
    <2>2. CASE l = k
      <3>1. Padded(minor.req) <= minor.size
        BY <1>2, <1>4 DEF Tidy
      <3>2. minor.req \in Nat /\ minor.size \in Nat
        <4> HIDE DEF minor
        <4> QED BY <1>4 DEF Minor
      <3>3. Padded(req) <= minor.size
        <4> HIDE DEF minor
        <4> QED BY <3>1, <3>2, <1>2, SizesAre DEF Padded
      <3> QED BY <3>3, <2>2, <1>5, <1>6
    <2> QED BY <2>1, <2>2
  <1>13. Tidy(new)
    BY <1>4, <1>6, <1>7, <1>10, <1>11, <1>12 DEF Tidy
  <1>14. new.minors # << >> /\ IsBest(h, g.best)
    <2>1. Len(t) # 0
      BY <1>2, <1>4, <1>6
    <2> QED BY <2>1, <1>1, <1>7, <1>8 DEF TidyHeap, IsBest
  <1>15. /\ TidyHeap(g)
         /\ \A j \in 1 .. n : Limit(g.majors[j]) = Limit(h.majors[j])
    BY <1>7, <1>9, <1>13, <1>14, ReplacedTidy
  <1>16. SameSizes(h, g)
    BY SMTT(60), <1>6, <1>7, <1>8, <1>9, <1>10 DEF SameSizes, Replaced
  <1>17. ASSUME NEW x, NEW r
         PROVE  Has(g, x, r) <=> (x # ptr /\ Has(h, x, r)) \/ (x = ptr /\ r = req)
    <2>1. /\ Len(g.majors) = n /\ g.majors[i].minors = t
          /\ \A j \in 1 .. n : Len(g.majors[j].minors) = Len(h.majors[j].minors)
          /\ \A j \in 1 .. n : \A l \in 1 .. Len(h.majors[j].minors) :
                j # i \/ l # k => g.majors[j].minors[l] = h.majors[j].minors[l]
      BY <1>6, <1>7, <1>9 DEF Replaced
    <2>2. \A j \in 1 .. n : \A l \in 1 .. Len(h.majors[j].minors) :
             Pointer(h.majors[j].minors[l].at) = ptr => j = i /\ l = k
      BY OnlyThere DEF i, k
    <2>3. ASSUME Has(g, x, r)
          PROVE  (x # ptr /\ Has(h, x, r)) \/ (x = ptr /\ r = req)
      <3>1. PICK j \in 1 .. n : \E l \in 1 .. Len(h.majors[j].minors) :
               Pointer(g.majors[j].minors[l].at) = x /\ g.majors[j].minors[l].req = r
        BY SMTT(60), <2>1, <2>3 DEF Has
      <3>2. PICK l \in 1 .. Len(h.majors[j].minors) :
               Pointer(g.majors[j].minors[l].at) = x /\ g.majors[j].minors[l].req = r
        BY <3>1
      <3>3. CASE j = i /\ l = k
        BY <3>2, <3>3, <2>1, <1>2, <1>5, <1>6
      <3>4. CASE ~(j = i /\ l = k)
        <4>1. g.majors[j].minors[l] = h.majors[j].minors[l]
          BY <3>4, <2>1
        <4>2. Has(h, x, r)
          BY <3>2, <4>1 DEF Has
        <4>3. x # ptr
          BY <3>2, <3>4, <4>1, <2>2
        <4> QED BY <4>2, <4>3
      <3> QED BY <3>3, <3>4
    <2>4. ASSUME x # ptr, Has(h, x, r)
          PROVE  Has(g, x, r)
      <3>1. PICK j \in 1 .. n : \E l \in 1 .. Len(h.majors[j].minors) :
               Pointer(h.majors[j].minors[l].at) = x /\ h.majors[j].minors[l].req = r
        BY <2>4 DEF Has
      <3>2. PICK l \in 1 .. Len(h.majors[j].minors) :
               Pointer(h.majors[j].minors[l].at) = x /\ h.majors[j].minors[l].req = r
        BY <3>1
      <3>3. j # i \/ l # k
        BY <3>2, <2>4, <1>2
      <3> QED BY <3>2, <3>3, <2>1 DEF Has
    <2>5. Has(g, ptr, req)
      <3>1. g.majors[i].minors[k].req = req /\ Pointer(g.majors[i].minors[k].at) = ptr
        BY <2>1, <1>2, <1>5, <1>6
      <3> QED BY ZenonT(60), <3>1, <2>1, <1>2 DEF Has
    <2> QED BY <2>3, <2>4, <2>5
  <1> QED BY <1>15, <1>16, <1>17 DEF Smaller

-----------------------------------------------------------------------------
(* Who has which block *)

Blocks == [ptr : Nat, req : Nat]
Calls == [op : {"none", "malloc", "free", "realloc"},
          at : {"user", "test", "loop", "set", "inside", "unlock"},
          req : Nat, ptr : Nat, old : Nat, off : BOOLEAN]

\* A call that has a block: one to free or to replace, or a new one.
HasBlock(c) ==
    \/ c.op = "realloc"
    \/ c.op = "free" /\ c.at # "unlock"
    \/ c.op = "malloc" /\ c.at = "unlock"

Held(c) == {x \in {c.ptr} : HasBlock(c)} \cup ({c.old} \ {Null})

\* A call that is about to give a block to its caller.
Gives(c) == c.at = "unlock" /\ (c.op = "malloc" \/ (c.op = "realloc" /\ c.old = Null))

CallShape(c) ==
    /\ c \in Calls
    /\ c.op = "none" <=> c.at = "user"
    /\ c.op \in {"none", "free"} => c.old = Null
    /\ c.op = "realloc" => c.old \in {Null, c.ptr} /\ (c.at # "unlock" => c.old = Null)
    /\ c.op = "malloc" /\ c.at = "unlock" => c.ptr # c.old

\* The blocks in use are in the lists, and each of them has one owner: a caller,
\* or a call that frees, replaces or returns it.
OwnersOK(h, l, c) ==
    /\ DOMAIN c = Process
    /\ l \subseteq Blocks
    /\ \A b \in l : Has(h, b.ptr, b.req)
    /\ \A p \in Process :
          /\ CallShape(c[p])
          /\ Held(c[p]) \subseteq Pointers(h)
          /\ Gives(c[p]) => Has(h, c[p].ptr, c[p].req)
          /\ \A b \in l : b.ptr \notin Held(c[p])
          /\ \A q \in Process \ {p} : Held(c[p]) \cap Held(c[q]) = {}

\* Where process p can have a block from: it has held it, it has just left the
\* blocks of the callers, or it is new.
Mine(h, l, m, c, x) ==
    x \in Held(c) \/ x \notin Pointers(h) \/ \E b \in l \ m : b.ptr = x

LEMMA OwnersMove ==
    ASSUME NEW h, TidyHeap(h), NEW g, TidyHeap(g),
           NEW l, NEW m, NEW c, NEW d, NEW p \in Process,
           OwnersOK(h, l, c),
           DOMAIN d = Process, \A q \in Process \ {p} : d[q] = c[q],
           CallShape(d[p]), Gives(d[p]) => Has(g, d[p].ptr, d[p].req),
           \A x, r : Has(h, x, r) /\ x \notin Held(c[p]) => Has(g, x, r),
           \A x \in Held(d[p]) : x \in Pointers(g) /\ Mine(h, l, m, c[p], x),
           \A b \in m \ l : /\ b \in Blocks /\ Has(g, b.ptr, b.req)
                            /\ Mine(h, l, m, c[p], b.ptr)
                            /\ b.ptr \notin Held(d[p])
    PROVE  OwnersOK(g, m, d)
  <1>1. /\ l \subseteq Blocks
        /\ \A b \in l : Has(h, b.ptr, b.req)
        /\ \A q \in Process :
              /\ CallShape(c[q])
              /\ Held(c[q]) \subseteq Pointers(h)
              /\ Gives(c[q]) => Has(h, c[q].ptr, c[q].req)
              /\ \A b \in l : b.ptr \notin Held(c[q])
              /\ \A r \in Process \ {q} : Held(c[q]) \cap Held(c[r]) = {}
    BY DEF OwnersOK
  <1>2. ASSUME NEW x, Mine(h, l, m, c[p], x)
        PROVE  /\ \A q \in Process \ {p} : x \notin Held(c[q])
               /\ \A b \in l \cap m : b.ptr # x
    <2>1. CASE x \in Held(c[p])
      BY <2>1, <1>1
    <2>2. CASE x \notin Pointers(h)
      BY <2>2, <1>1, HasIs
    <2>3. ASSUME NEW b \in l \ m, b.ptr = x
          PROVE  /\ \A q \in Process \ {p} : x \notin Held(c[q])
                 /\ \A k \in l \cap m : k.ptr # x
      <3>1. ASSUME NEW k \in l \cap m, k.ptr = x
            PROVE  FALSE
        <4>1. k.req = Requested(h, x) /\ b.req = Requested(h, x)
          BY <2>3, <3>1, <1>1, HasIs
        <4>2. k \in Blocks /\ b \in Blocks
          BY <1>1
        <4>3. k = b
          BY <4>1, <4>2, <2>3, <3>1 DEF Blocks
        <4> QED BY <4>3
      <3> QED BY <3>1, <2>3, <1>1
    <2> QED BY <1>2, <2>1, <2>2, <2>3 DEF Mine
  <1>3. \A x \in Pointers(h) : x \notin Held(c[p]) => x \in Pointers(g)
    BY HasIs
  <1>4. ASSUME NEW b \in m
        PROVE  b \in Blocks /\ Has(g, b.ptr, b.req)
    <2>1. CASE b \in l
      BY <2>1, <1>1
    <2> QED BY <2>1
  <1>5. ASSUME NEW q \in Process, q # p
        PROVE  /\ CallShape(d[q]) /\ Held(d[q]) \subseteq Pointers(g)
               /\ Gives(d[q]) => Has(g, d[q].ptr, d[q].req)
    <2>1. d[q] = c[q] /\ Held(c[q]) \cap Held(c[p]) = {}
      BY <1>1, <1>5
    <2>2. CallShape(c[q]) /\ Held(c[q]) \subseteq Pointers(g)
      BY <2>1, <1>1, <1>3
    <2>3. Gives(c[q]) => c[q].ptr \in Held(c[q])
      BY DEF Gives, Held, HasBlock
    <2>4. Gives(c[q]) => Has(g, c[q].ptr, c[q].req)
      BY <2>1, <2>3, <1>1
    <2> QED BY <2>1, <2>2, <2>4
  <1>6. ASSUME NEW q \in Process, NEW b \in m
        PROVE  b.ptr \notin Held(d[q])
    <2>1. CASE q # p /\ b \in l
      BY <2>1, <1>1
    <2>2. CASE q # p /\ b \notin l
      BY <2>2, <1>2
    <2>3. CASE q = p /\ b \in l
      BY <2>3, <1>2
    <2>4. CASE q = p /\ b \notin l
      BY <2>4
    <2> QED BY <2>1, <2>2, <2>3, <2>4
  <1>7. ASSUME NEW q \in Process, NEW r \in Process \ {q}
        PROVE  Held(d[q]) \cap Held(d[r]) = {}
    <2>1. CASE q # p /\ r # p
      BY <2>1, <1>1
    <2>2. CASE q = p
      BY <2>2, <1>2
    <2>3. CASE r = p
      BY <2>3, <1>2
    <2> QED BY <2>1, <2>2, <2>3
  <1>8. Held(d[p]) \subseteq Pointers(g)
    OBVIOUS
  <1>9. m \subseteq Blocks /\ \A b \in m : Has(g, b.ptr, b.req)
    BY <1>4
  <1>10. ASSUME NEW q \in Process
         PROVE  /\ CallShape(d[q]) /\ Held(d[q]) \subseteq Pointers(g)
                /\ Gives(d[q]) => Has(g, d[q].ptr, d[q].req)
    BY <1>5, <1>8
  <1> QED BY <1>6, <1>7, <1>9, <1>10 DEF OwnersOK

\* All the majors are below a border.
Below(h, border) == \A j \in 1 .. Len(h.majors) : Limit(h.majors[j]) <= border

BlocksInv ==
    /\ next \in Nat
    /\ ~raced => /\ TidyHeap(heap)
                 /\ Below(heap, next)
                 /\ OwnersOK(heap, live, call)

LEMMA BlocksInit == Init => BlocksInv
  <1> SUFFICES ASSUME Init PROVE BlocksInv
    OBVIOUS
  <1>1. heap = [majors |-> << >>, best |-> 0, allocated |-> 0, inuse |-> 0]
    BY DEF Init, EmptyHeap, Null
  <1>2. heap \in Heaps /\ heap.best = Null /\ Len(heap.majors) = 0
    BY <1>1 DEF Heaps, Null
  <1>3. TidyHeap(heap) /\ Below(heap, next)
    BY <1>2 DEF TidyHeap, Below
  <1>4. CallShape(Idle) /\ Held(Idle) = {} /\ ~Gives(Idle)
    BY DEF Idle, CallShape, Calls, Held, HasBlock, Gives, Null
  <1>5. OwnersOK(heap, live, call)
    BY <1>4 DEF Init, OwnersOK
  <1> QED BY <1>3, <1>5, AddressesAssumption DEF Init, BlocksInv

LEMMA NewBlockIs ==
    ASSUME NEW h, TidyHeap(h), NEW g, TidyHeap(g), NEW ptr, NEW req, Gains(h, g, ptr, req)
    PROVE  NewBlock(h, g) = ptr /\ ptr \notin Pointers(h) /\ ptr \in Nat /\ ptr # Null
  <1>1. \A x : x \in Pointers(g) /\ x \notin Pointers(h) <=> x = ptr
    BY HasIs DEF Gains
  <1>2. NewBlock(h, g) = ptr
    BY <1>1 DEF NewBlock
  <1> QED BY <1>1, <1>2, HasIs

\* A step of one call that leaves the lists alone.
LEMMA CallKept ==
    ASSUME BlocksInv, ~raced, NEW p \in Process,
           UNCHANGED <<heap, next>>, live' \subseteq live,
           DOMAIN call' = Process, \A q \in Process \ {p} : call'[q] = call[q],
           CallShape(call'[p]), ~Gives(call'[p]),
           \A x \in Held(call'[p]) : x \in Held(call[p]) \/ \E b \in live \ live' : b.ptr = x
    PROVE  BlocksInv'
  <1>1. next \in Nat /\ TidyHeap(heap) /\ Below(heap, next) /\ OwnersOK(heap, live, call)
    BY DEF BlocksInv
  <1>2. \A x \in Held(call'[p]) : x \in Pointers(heap) /\ Mine(heap, live, live', call[p], x)
    BY <1>1, HasIs DEF OwnersOK, Mine
  <1>3. OwnersOK(heap, live', call')
    BY <1>1, <1>2, OwnersMove
  <1> QED BY <1>1, <1>3 DEF BlocksInv

LEMMA CallMallocBlocks ==
    ASSUME BlocksInv, NEW p \in Process, NEW req \in Requests, NEW off \in BOOLEAN,
           CallMalloc(p, req, off)
    PROVE  BlocksInv'
  <1> DEFINE c == [Idle EXCEPT !.op = "malloc", !.at = "test", !.req = req, !.off = off]
  <1>1. ~raced /\ UNCHANGED <<heap, next, live>> /\ call' = [call EXCEPT ![p] = c]
    BY DEF CallMalloc, At, Running
  <1>2. CallShape(c) /\ ~Gives(c) /\ Held(c) = {}
    BY RequestsAssumption DEF Idle, CallShape, Calls, Held, HasBlock, Gives, Null
  <1> HIDE DEF c
  <1>3. DOMAIN call = Process
    BY <1>1 DEF BlocksInv, OwnersOK
  <1> QED BY <1>1, <1>2, <1>3, CallKept

LEMMA CallFreeBlocks ==
    ASSUME BlocksInv, NEW p \in Process, NEW block \in live, NEW off \in BOOLEAN,
           CallFree(p, block, off)
    PROVE  BlocksInv'
  <1> DEFINE c == [Idle EXCEPT !.op = "free", !.at = "test", !.ptr = block.ptr, !.off = off]
  <1>1. /\ ~raced /\ UNCHANGED <<heap, next>> /\ live' = live \ {block}
        /\ call' = [call EXCEPT ![p] = c]
    BY DEF CallFree, At, Running
  <1>2. block.ptr \in Nat
    BY <1>1 DEF BlocksInv, OwnersOK, Blocks
  <1>3. CallShape(c) /\ ~Gives(c) /\ Held(c) = {block.ptr}
    BY <1>2 DEF Idle, CallShape, Calls, Held, HasBlock, Gives, Null
  <1> HIDE DEF c
  <1>4. DOMAIN call = Process
    BY <1>1 DEF BlocksInv, OwnersOK
  <1> QED BY <1>1, <1>3, <1>4, CallKept

LEMMA CallReallocBlocks ==
    ASSUME BlocksInv, NEW p \in Process, NEW block \in live, NEW req \in Requests,
           CallRealloc(p, block, req)
    PROVE  BlocksInv'
  <1> DEFINE c == [Idle EXCEPT !.op = "realloc", !.at = "test", !.req = req, !.ptr = block.ptr]
  <1>1. /\ ~raced /\ UNCHANGED <<heap, next>> /\ live' = live \ {block}
        /\ call' = [call EXCEPT ![p] = c]
    BY DEF CallRealloc, At, Running
  <1>2. block.ptr \in Nat
    BY <1>1 DEF BlocksInv, OwnersOK, Blocks
  <1>3. CallShape(c) /\ ~Gives(c) /\ Held(c) = {block.ptr}
    BY <1>2, RequestsAssumption DEF Idle, CallShape, Calls, Held, HasBlock, Gives, Null
  <1> HIDE DEF c
  <1>4. DOMAIN call = Process
    BY <1>1 DEF BlocksInv, OwnersOK
  <1> QED BY <1>1, <1>3, <1>4, CallKept

LEMMA CallFields ==
    ASSUME NEW c \in Calls, NEW place \in {"set", "loop", "inside"}, NEW d,
           d = [c EXCEPT !.at = place],
           CallShape(c), c.at \in {"test", "set"}
    PROVE  CallShape(d) /\ ~Gives(d) /\ Held(d) = Held(c)
  <1>1. /\ d \in Calls /\ d.at = place /\ d.op = c.op /\ d.ptr = c.ptr /\ d.old = c.old
        /\ d.req = c.req /\ d.off = c.off
    BY DEF Calls
  <1>2. place \notin {"user", "unlock"} /\ c.at \notin {"user", "unlock"}
    OBVIOUS
  <1>3. CallShape(d)
    BY <1>1, <1>2 DEF CallShape
  <1>4. ~Gives(d) /\ (HasBlock(d) <=> HasBlock(c))
    BY <1>1, <1>2 DEF Gives, HasBlock
  <1> QED BY <1>1, <1>3, <1>4 DEF Held

LEMMA LockBlocks ==
    ASSUME BlocksInv, NEW p \in Process, TestLock(p) \/ SetLock(p)
    PROVE  BlocksInv'
  <1>1. /\ ~raced /\ UNCHANGED <<heap, next, live>> /\ call[p].at \in {"test", "set"}
    BY DEF TestLock, SetLock, At, Running
  <1>2. /\ DOMAIN call = Process /\ CallShape(call[p]) /\ call[p] \in Calls
    BY <1>1 DEF BlocksInv, OwnersOK, CallShape
  <1>3. CASE call' = call
    BY <1>1, <1>3 DEF BlocksInv, TestLock, SetLock
  <1>4. ASSUME NEW place \in {"set", "loop", "inside"},
               call' = [call EXCEPT ![p].at = place]
        PROVE  BlocksInv'
    <2>1. call' = [call EXCEPT ![p] = [call[p] EXCEPT !.at = place]]
      BY <1>4, <1>2
    <2>2. /\ call'[p] = [call[p] EXCEPT !.at = place] /\ DOMAIN call' = Process
          /\ \A q \in Process \ {p} : call'[q] = call[q]
      BY <2>1, <1>2
    <2>3. CallShape(call'[p]) /\ ~Gives(call'[p]) /\ Held(call'[p]) = Held(call[p])
      BY <2>2, <1>1, <1>2, CallFields
    <2> QED BY <2>2, <2>3, <1>1, CallKept
  <1> QED BY <1>3, <1>4 DEF TestLock, SetLock

LEMMA MallocBlocks ==
    ASSUME BlocksInv, NEW p \in Process, MallocInside(p)
    PROVE  BlocksInv'
  <1> DEFINE req == call[p].req
             pages == PagesFor(Padded(req)) * PageSize
             result == IF Grows(heap, req) THEN MallocGrown(heap, req, next)
                       ELSE MallocWithin(heap, req)
             c == [call[p] EXCEPT !.at = "unlock", !.ptr = NewBlock(heap, result)]
  <1>1. /\ ~raced /\ raced' = raced /\ live' = live
        /\ call[p].at = "inside" /\ call[p].op = "malloc"
    BY DEF MallocInside, At, Running
  <1>2. next \in Nat /\ TidyHeap(heap) /\ Below(heap, next) /\ OwnersOK(heap, live, call)
    BY <1>1 DEF BlocksInv
  <1>3. /\ DOMAIN call = Process /\ CallShape(call[p]) /\ call[p] \in Calls /\ req \in Nat
    BY <1>2 DEF OwnersOK, CallShape, Calls
  <1>4. CASE UNCHANGED <<heap, next, call>>
    BY <1>1, <1>2, <1>4 DEF BlocksInv
  <1>5. ASSUME heap' = result, next' = IF Grows(heap, req) THEN next + pages ELSE next,
               call' = [call EXCEPT ![p].at = "unlock", ![p].ptr = NewBlock(heap, result)]
        PROVE  BlocksInv'
    <2>1. pages \in Nat
      BY <1>3, PaddedIs, PagesAreEnough
    <2>2. /\ TidyHeap(result) /\ Below(result, next')
          /\ \E ptr : Gains(heap, result, ptr, req)
      <3>1. CASE Grows(heap, req)
        <4>1. result = MallocGrown(heap, req, next) /\ next' = next + pages
          BY <3>1, <1>5
        <4>2. \A j \in 1 .. Len(heap.majors) : Limit(heap.majors[j]) <= next
          BY <1>2 DEF Below
        <4> HIDE DEF result, req
        <4> QED BY <4>1, <4>2, <1>2, <1>3, GrownIs DEF Below
      <3>2. CASE ~Grows(heap, req)
        <4>1. result = MallocWithin(heap, req) /\ next' = next
          BY <3>2, <1>5
        <4>2. \A j \in 1 .. Len(heap.majors) : Limit(heap.majors[j]) <= next
          BY <1>2 DEF Below
        <4> HIDE DEF result, req
        <4> QED BY <4>1, <4>2, <3>2, <1>2, <1>3, WithinIs DEF Below
      <3> QED BY <3>1, <3>2
    <2> HIDE DEF result
    <2>3. PICK ptr : Gains(heap, result, ptr, req)
      BY <2>2
    <2>4. NewBlock(heap, result) = ptr /\ ptr \notin Pointers(heap) /\ ptr \in Nat /\ ptr # Null
      BY <2>2, <2>3, <1>2, NewBlockIs
    <2>5. call' = [call EXCEPT ![p] = c]
      BY <1>3, <1>5
    <2>6. /\ c \in Calls /\ c.at = "unlock" /\ c.op = "malloc" /\ c.ptr = ptr
          /\ c.old = call[p].old /\ c.req = req
      BY <1>1, <1>3, <2>4 DEF Calls
    <2> HIDE DEF c
    <2>7. Held(call[p]) = {call[p].old} \ {Null} /\ Held(c) = {ptr} \cup Held(call[p])
      BY <1>1, <2>6 DEF Held, HasBlock
    <2>8. Held(call[p]) \subseteq Pointers(heap)
      BY <1>2 DEF OwnersOK
    <2>9. CallShape(c)
      BY <2>4, <2>6, <2>7, <2>8 DEF CallShape
    <2>10. \A x, r : Has(result, x, r) <=> Has(heap, x, r) \/ (x = ptr /\ r = req)
      BY <2>3 DEF Gains
    <2>11. Has(result, c.ptr, c.req) /\ \A x \in Held(c) : x \in Pointers(result)
      BY <2>2, <2>6, <2>7, <2>8, <2>10, <1>2, HasIs
    <2>12. /\ call'[p] = c /\ DOMAIN call' = Process
           /\ \A q \in Process \ {p} : call'[q] = call[q]
      BY <2>5, <1>3
    <2>13. \A x \in Held(c) : Mine(heap, live, live, call[p], x)
      BY <2>4, <2>7 DEF Mine
    <2>14. OwnersOK(result, live, call')
      BY <2>2, <2>9, <2>10, <2>11, <2>12, <2>13, <1>2, OwnersMove
    <2>15. next' \in Nat
      BY <1>2, <1>5, <2>1
    <2> QED BY <2>2, <2>14, <2>15, <1>1, <1>5 DEF BlocksInv
  <1> QED BY <1>4, <1>5 DEF MallocInside

LEMMA FreeBlocks ==
    ASSUME BlocksInv, NEW p \in Process, FreeInside(p)
    PROVE  BlocksInv'
  <1> DEFINE ptr == call[p].ptr
             c == [call[p] EXCEPT !.at = "unlock"]
  <1>1. /\ ~raced /\ UNCHANGED <<raced, next, live>>
        /\ call[p].at = "inside" /\ call[p].op = "free"
        /\ heap' = Free(heap, ptr)
        /\ call' = [call EXCEPT ![p].at = "unlock"]
    BY DEF FreeInside, At, Running
  <1>2. next \in Nat /\ TidyHeap(heap) /\ Below(heap, next) /\ OwnersOK(heap, live, call)
    BY <1>1 DEF BlocksInv
  <1>3. DOMAIN call = Process /\ CallShape(call[p]) /\ call[p] \in Calls
    BY <1>2 DEF OwnersOK, CallShape
  <1>4. call[p].old = Null /\ Held(call[p]) = {ptr} /\ ptr \in Pointers(heap)
    <2>1. call[p].old = Null /\ Held(call[p]) = {ptr}
      BY <1>1, <1>3 DEF CallShape, Held, HasBlock
    <2> QED BY <2>1, <1>2 DEF OwnersOK
  <1>5. call' = [call EXCEPT ![p] = c]
    BY <1>1, <1>3
  <1>6. /\ c \in Calls /\ c.at = "unlock" /\ c.op = "free" /\ c.old = Null
    BY <1>1, <1>3, <1>4 DEF Calls
  <1> HIDE DEF c, ptr
  <1>7. CallShape(c) /\ Held(c) = {} /\ ~Gives(c)
    BY <1>6 DEF CallShape, Held, HasBlock, Gives
  <1>8. /\ TidyHeap(heap')
        /\ \A j \in 1 .. Len(heap'.majors) : \E k \in 1 .. Len(heap.majors) :
              Limit(heap'.majors[j]) = Limit(heap.majors[k])
        /\ \E req : Gains(heap', heap, ptr, req)
    BY <1>1, <1>2, <1>4, FreeIs
  <1>9. Below(heap', next')
    BY <1>1, <1>2, <1>8 DEF Below
  <1>10. \A x, r : Has(heap, x, r) /\ x # ptr => Has(heap', x, r)
    BY <1>8 DEF Gains
  <1>11. /\ call'[p] = c /\ DOMAIN call' = Process
         /\ \A q \in Process \ {p} : call'[q] = call[q]
    BY <1>3, <1>5
  <1>12. OwnersOK(heap', live', call')
    <2>1. CallShape(call'[p]) /\ ~Gives(call'[p]) /\ Held(call'[p]) = {}
      BY <1>7, <1>11
    <2>2. \A x, r : Has(heap, x, r) /\ x \notin Held(call[p]) => Has(heap', x, r)
      BY <1>4, <1>10
    <2>3. live' \ live = {}
      BY <1>1
    <2>4. TidyHeap(heap) /\ TidyHeap(heap') /\ OwnersOK(heap, live, call)
      BY <1>2, <1>8
    <2> QED BY <2>1, <2>2, <2>3, <2>4, <1>11, OwnersMove
  <1> QED BY <1>1, <1>2, <1>8, <1>9, <1>12 DEF BlocksInv

LEMMA ReallocBlocks ==
    ASSUME BlocksInv, NEW p \in Process, ReallocInside(p)
    PROVE  BlocksInv'
  <1> DEFINE ptr == call[p].ptr
             req == call[p].req
             fits == Requested(heap, ptr) >= req
             old == IF fits THEN Null ELSE ptr
             c == [call[p] EXCEPT !.at = "unlock", !.old = old]
  <1>1. /\ ~raced /\ UNCHANGED <<raced, next, live>>
        /\ call[p].at = "inside" /\ call[p].op = "realloc"
        /\ heap' = IF fits THEN Shrunk(heap, ptr, req) ELSE heap
        /\ call' = [call EXCEPT ![p].at = "unlock", ![p].old = old]
    BY DEF ReallocInside, At, Running
  <1>2. next \in Nat /\ TidyHeap(heap) /\ Below(heap, next) /\ OwnersOK(heap, live, call)
    BY <1>1 DEF BlocksInv
  <1>3. DOMAIN call = Process /\ CallShape(call[p]) /\ call[p] \in Calls
    BY <1>2 DEF OwnersOK, CallShape
  <1>4. Held(call[p]) = {ptr} /\ ptr \in Pointers(heap) /\ ptr # Null /\ ptr \in Nat /\ req \in Nat
    <2>1. Held(call[p]) = {ptr}
      BY <1>1, <1>3 DEF CallShape, Held, HasBlock
    <2>2. ptr \in Pointers(heap)
      BY <2>1, <1>2 DEF OwnersOK
    <2> QED BY <2>1, <2>2, <1>2, <1>3, HasIs DEF Calls
  <1>5. call' = [call EXCEPT ![p] = c]
    BY <1>1, <1>3
  <1>6. c \in Calls /\ c.at = "unlock" /\ c.op = "realloc" /\ c.ptr = ptr /\ c.old = old /\ c.req = req
    <2>1. old \in Nat
      BY <1>4 DEF Null
    <2> HIDE DEF old
    <2> QED BY <2>1, <1>1, <1>3 DEF Calls
  <1>7. CallShape(c) /\ Held(c) = {ptr} /\ (Gives(c) => fits)
    BY <1>4, <1>6 DEF CallShape, Held, HasBlock, Gives
  <1>8. /\ call'[p] = c /\ DOMAIN call' = Process
        /\ \A q \in Process \ {p} : call'[q] = call[q]
    BY <1>3, <1>5
  <1> HIDE DEF c, old
  <1>9. \A x \in Held(c) : Mine(heap, live, live', call[p], x)
    BY <1>4, <1>7 DEF Mine
  <1>10. live' \ live = {}
    BY <1>1
  <1>11. CASE fits
    <2>1. Requested(heap, ptr) \in Nat
      <3>1. PICK i \in 1 .. Len(heap.majors) :
               \E k \in 1 .. Len(heap.majors[i].minors) : Requested(heap, ptr) = heap.majors[i].minors[k].req
        BY ZenonT(60), <1>2, <1>4, BlockFound
      <3>2. PICK k \in 1 .. Len(heap.majors[i].minors) : Requested(heap, ptr) = heap.majors[i].minors[k].req
        BY <3>1
      <3>3. heap.majors[i] \in Major
        BY <1>2, HeapIs
      <3> QED BY <3>2, <3>3, MinorIs
    <2>2. req <= Requested(heap, ptr) /\ heap' = Shrunk(heap, ptr, req)
      BY <2>1, <1>1, <1>4, <1>11
    <2> HIDE DEF ptr, req
    <2>3. /\ TidyHeap(heap')
          /\ \A j \in 1 .. Len(heap.majors) : Limit(heap'.majors[j]) = Limit(heap.majors[j])
          /\ Smaller(heap, heap', ptr, req)
          /\ SameSizes(heap, heap')
      BY <2>2, <1>2, <1>4, ShrunkIs
    <2>4. Below(heap', next')
      BY <2>3, <1>1, <1>2 DEF Below, SameSizes
    <2>5. /\ \A x, r : Has(heap, x, r) /\ x \notin Held(call[p]) => Has(heap', x, r)
          /\ Has(heap', ptr, req)
      BY <2>3, <1>4 DEF Smaller
    <2>6. \A x \in Held(c) : x \in Pointers(heap')
      BY <2>3, <2>5, <1>7, HasIs
    <2>7. Gives(c) => Has(heap', c.ptr, c.req)
      BY <2>5, <1>6
    <2>8. OwnersOK(heap', live', call')
      <3>1. /\ CallShape(call'[p]) /\ (Gives(call'[p]) => Has(heap', call'[p].ptr, call'[p].req))
            /\ \A x \in Held(call'[p]) : x \in Pointers(heap') /\ Mine(heap, live, live', call[p], x)
        BY <2>6, <2>7, <1>7, <1>8, <1>9
      <3> QED BY <3>1, <2>3, <2>5, <1>2, <1>8, <1>10, OwnersMove
    <2> QED BY <2>3, <2>4, <2>8, <1>1, <1>2 DEF BlocksInv
  <1>12. CASE ~fits
    <2>1. heap' = heap
      BY <1>1, <1>12
    <2>2. /\ CallShape(call'[p]) /\ ~Gives(call'[p])
          /\ \A x \in Held(call'[p]) : x \in Held(call[p])
      BY <1>4, <1>7, <1>8, <1>12
    <2> QED BY <2>1, <2>2, <1>1, <1>8, CallKept
  <1> QED BY <1>11, <1>12

\* What realloc goes on with: malloc, and then free.
LEMMA MallocNext ==
    ASSUME NEW c \in Calls, NEW d, d = [c EXCEPT !.op = "malloc", !.at = "test", !.ptr = Null]
    PROVE  d \in Calls /\ d.op = "malloc" /\ d.at = "test" /\ d.old = c.old
  BY DEF Calls, Null

LEMMA FreeNext ==
    ASSUME NEW old \in Nat, NEW d, d = [Idle EXCEPT !.op = "free", !.at = "test", !.ptr = old]
    PROVE  d \in Calls /\ d.op = "free" /\ d.at = "test" /\ d.ptr = old /\ d.old = Null
  BY DEF Calls, Idle, Null

LEMMA UnlockBlocks ==
    ASSUME BlocksInv, NEW p \in Process, Unlock(p)
    PROVE  BlocksInv'
  <1> DEFINE c == call[p]
             d == After(c)
             block == [ptr |-> c.ptr, req |-> c.req]
  <1>1. /\ ~raced /\ UNCHANGED <<raced, heap, next>> /\ c.at = "unlock"
    BY DEF Unlock, At, Running
  <1>2. next \in Nat /\ TidyHeap(heap) /\ Below(heap, next) /\ OwnersOK(heap, live, call)
    BY <1>1 DEF BlocksInv
  <1>3. DOMAIN call = Process /\ CallShape(c) /\ c \in Calls /\ Held(c) \subseteq Pointers(heap)
    BY <1>2 DEF OwnersOK, CallShape
  <1>4. CASE UNCHANGED <<live, call>>
    BY <1>1, <1>2, <1>4 DEF BlocksInv
  <1>5. ASSUME live' = live \cup Obtained(c), call' = [call EXCEPT ![p] = d]
        PROVE  BlocksInv'
    <2>1. /\ call'[p] = d /\ DOMAIN call' = Process
          /\ \A q \in Process \ {p} : call'[q] = call[q]
      BY <1>3, <1>5
    <2>2. Obtained(c) = IF Gives(c) THEN {block} ELSE {}
      <3>1. c.op = "malloc" \/ (c.op = "realloc" /\ c.old = Null) <=> Gives(c)
        BY <1>1 DEF Gives
      <3>2. CASE Gives(c)
        BY <3>1, <3>2 DEF Obtained
      <3>3. CASE ~Gives(c)
        BY <3>1, <3>3 DEF Obtained
      <3> QED BY <3>2, <3>3
    <2>3. Gives(c) => c.ptr \in Held(c) /\ block \in Blocks /\ Has(heap, block.ptr, block.req)
      <3>1. Gives(c) => c.ptr \in Held(c)
        BY DEF Gives, Held, HasBlock
      <3>2. Gives(c) => Has(heap, c.ptr, c.req)
        BY <1>2 DEF OwnersOK
      <3>3. block \in Blocks
        BY <1>3 DEF Calls, Blocks
      <3> QED BY <3>1, <3>2, <3>3
    <2>4. /\ CallShape(d) /\ ~Gives(d) /\ Held(d) = {c.old} \ {Null}
      <3>1. CASE c.op = "realloc" /\ c.old # Null
        <4>1. d = [c EXCEPT !.op = "malloc", !.at = "test", !.ptr = Null]
          BY <3>1 DEF After
        <4>2. /\ d \in Calls /\ d.op = "malloc" /\ d.at = "test" /\ d.old = c.old
          BY <4>1, <1>3, MallocNext
        <4> HIDE DEF d
        <4> QED BY <4>2 DEF CallShape, Gives, Held, HasBlock
      <3>2. CASE c.op = "malloc" /\ c.old # Null
        <4>1. d = [Idle EXCEPT !.op = "free", !.at = "test", !.ptr = c.old]
          BY <3>2 DEF After
        <4>2. /\ d \in Calls /\ d.op = "free" /\ d.at = "test" /\ d.ptr = c.old /\ d.old = Null
          <5>1. c.old \in Nat
            BY <1>3 DEF Calls
          <5> HIDE DEF d
          <5> QED BY <4>1, <5>1, FreeNext
        <4> HIDE DEF d
        <4> QED BY <4>2, <3>2 DEF CallShape, Gives, Held, HasBlock
      <3>3. CASE c.old = Null
        <4>1. d = Idle
          BY <3>3 DEF After
        <4> QED BY <4>1, <3>3 DEF Idle, Calls, Null, CallShape, Gives, Held, HasBlock
      <3>4. c.old # Null => c.op \in {"realloc", "malloc"}
        BY <1>3 DEF CallShape, Calls
      <3> QED BY <3>1, <3>2, <3>3, <3>4
    <2>5. Held(d) \subseteq Held(c) /\ (Gives(c) => c.ptr \notin Held(d))
      <3>1. Held(d) \subseteq Held(c)
        BY <2>4 DEF Held
      <3>2. Gives(c) => c.ptr \notin Held(d)
        BY <2>4, <1>1, <1>3 DEF Gives, CallShape
      <3> QED BY <3>1, <3>2
    <2> HIDE DEF c, d
    <2>6. \A x \in Held(d) : x \in Pointers(heap) /\ Mine(heap, live, live', c, x)
      BY <2>5, <1>3 DEF Mine
    <2>7. \A b \in live' \ live : b = block /\ Gives(c)
      BY <2>2, <1>5
    <2>8. block.ptr = c.ptr
      OBVIOUS
    <2>9. \A b \in live' \ live :
             /\ b \in Blocks /\ Has(heap, b.ptr, b.req)
             /\ Mine(heap, live, live', c, b.ptr) /\ b.ptr \notin Held(d)
      BY <2>3, <2>5, <2>7, <2>8 DEF Mine
    <2>10. OwnersOK(heap, live', call')
      <3>1. c = call[p]
        BY DEF c
      <3> QED BY <3>1, <2>1, <2>4, <2>6, <2>9, <1>2, OwnersMove
    <2> QED BY <2>10, <1>1, <1>2 DEF BlocksInv
  <1> QED BY <1>4, <1>5 DEF Unlock

LEMMA BlocksStep == BlocksInv /\ [Next]_vars => BlocksInv'
  <1> SUFFICES ASSUME BlocksInv, [Next]_vars PROVE BlocksInv'
    OBVIOUS
  <1>1. CASE UNCHANGED vars
    BY <1>1 DEF vars, BlocksInv
  <1> QED
    BY <1>1, CallMallocBlocks, CallFreeBlocks, CallReallocBlocks, LockBlocks, MallocBlocks,
       FreeBlocks, ReallocBlocks, UnlockBlocks
    DEF Next, Step, Halted, Loop

LEMMA BlocksInvHolds == Spec => []BlocksInv
  BY BlocksInit, BlocksStep, PTL DEF Spec

\* For every sequence of calls of every number of processes: a block of liballoc
\* is inside its major, aligned, as large as was asked for and apart from every
\* other, and it stays in the lists, with the size that its owner knows, until it
\* is freed.
THEOREM BlocksAreApart == Spec => []BlocksApart
  <1>1. BlocksInv => BlocksApart
    <2> SUFFICES ASSUME BlocksInv, ~raced
                 PROVE  /\ \A i \in DOMAIN heap.majors : InOrder(heap.majors[i])
                        /\ Owned \subseteq Pointers(heap)
                        /\ \A block \in live : Requested(heap, block.ptr) = block.req
      BY DEF BlocksApart
    <2>1. TidyHeap(heap) /\ OwnersOK(heap, live, call)
      BY DEF BlocksInv
    <2>2. \A i \in DOMAIN heap.majors : InOrder(heap.majors[i])
      BY <2>1, HeapIs, TidyInOrder DEF TidyHeap
    <2>3. \A block \in live : block.ptr \in Pointers(heap) /\ Requested(heap, block.ptr) = block.req
      BY <2>1, HasIs DEF OwnersOK
    <2>4. \A p \in Process : call[p].old # Null => call[p].old \in Pointers(heap)
      BY <2>1 DEF OwnersOK, Held
    <2> QED BY <2>2, <2>3, <2>4 DEF Owned
  <1> QED BY <1>1, BlocksInvHolds, PTL

-----------------------------------------------------------------------------
(* Sums *)

\* f is what Sum computes, step by step.
Adds(f, s) ==
    /\ f \in [0 .. Len(s) -> Int]
    /\ f[0] = 0
    /\ \A n \in 1 .. Len(s) : f[n] = f[n - 1] + s[n]

LEMMA SumIs ==
    ASSUME NEW s \in Seq(Int)
    PROVE  \E f : Adds(f, s) /\ Sum(s) = f[Len(s)]
  <1> DEFINE N == Len(s)
             step == [a \in (1 .. N) \X Int |-> a[2] + s[a[1]]]
             Def(f) == f = [n \in 0 .. N |-> IF n = 0 THEN 0 ELSE f[n - 1] + s[n]]
             F == CHOOSE f : Def(f)
  <1>1. N \in Nat /\ \A n \in 1 .. N : s[n] \in Int
    OBVIOUS
  <1>2. Sum(s) = F[N]
    BY DEF Sum
  <1> HIDE DEF N
  <1>3. step \in [(1 .. N) \X Int -> Int]
    BY <1>1
  <1>4. \A n \in 1 .. N : \A b \in Int : step[<<n, b>>] = b + s[n]
    OBVIOUS
  <1> HIDE DEF step, Def, F
  <1>5. PICK f \in [0 .. N -> Int] :
            f[0] = 0 /\ \A n \in 1 .. N : f[n] = step[<<n, f[n - 1]>>]
    <2>1. 0 \in Int
      OBVIOUS
    <2>2. PICK f : Computes(f, N, Int, 0, step)
      BY <2>1, <1>1, <1>3, Recursion
    <2> QED BY <2>2 DEF Computes
  <1>6. \A n \in 1 .. N : f[n] = f[n - 1] + s[n]
    <2>1. \A n \in 1 .. N : n - 1 \in 0 .. N /\ f[n - 1] \in Int
      BY <1>1
    <2> QED BY <2>1, <1>4, <1>5
  <1>7. \A n \in 0 .. N : f[n] = IF n = 0 THEN 0 ELSE f[n - 1] + s[n]
    BY <1>1, <1>5, <1>6
  <1>8. Def(f)
    BY <1>5, <1>7 DEF Def
  <1>9. Def(F)
    BY <1>8 DEF F
  <1>10. \A n \in 0 .. N : F[n] = IF n = 0 THEN 0 ELSE F[n - 1] + s[n]
    BY <1>9 DEF Def
  <1>11. DOMAIN F = 0 .. N
    BY <1>9 DEF Def
  <1>12. F[0] = 0 /\ \A n \in 1 .. N : F[n] = F[n - 1] + s[n]
    BY <1>1, <1>10
  <1>13. \A n \in 0 .. N : F[n] \in Int
    <2> DEFINE T == {n \in 0 .. N : F[n] \in Int}
    <2>1. 0 \in T
      BY <1>1, <1>12
    <2>2. ASSUME NEW n \in 0 .. N - 1, n \in T PROVE n + 1 \in T
      <3>1. n + 1 \in 0 .. N /\ n + 1 \in 1 .. N /\ (n + 1) - 1 = n /\ F[n] \in Int
        BY <1>1, <2>2
      <3>2. F[n + 1] = F[n] + s[n + 1] /\ s[n + 1] \in Int
        BY <1>1, <1>12, <3>1
      <3> QED BY <3>1, <3>2
    <2> HIDE DEF T
    <2>3. 0 .. N \subseteq T
      BY <1>1, <2>1, <2>2, IntervalInduction
    <2> QED BY <2>3 DEF T
  <1>14. F = [n \in 0 .. N |-> F[n]]
    BY <1>9 DEF Def
  <1>15. F \in [0 .. N -> Int]
    BY <1>13, <1>14
  <1> QED BY <1>2, <1>12, <1>15 DEF N, Adds

LEMMA SumType ==
    ASSUME NEW s \in Seq(Int)
    PROVE  Sum(s) \in Int
  <1>1. PICK f : Adds(f, s) /\ Sum(s) = f[Len(s)]
    BY SumIs
  <1>2. Len(s) \in 0 .. Len(s)
    OBVIOUS
  <1> QED BY <1>1, <1>2 DEF Adds

LEMMA SumOne ==
    ASSUME NEW s \in Seq(Int), Len(s) = 1
    PROVE  Sum(s) = s[1]
  <1>1. PICK f : Adds(f, s) /\ Sum(s) = f[1]
    BY SumIs
  <1>2. s[1] \in Int /\ 1 \in 1 .. Len(s) /\ 1 - 1 = 0
    OBVIOUS
  <1>3. f[1] = f[1 - 1] + s[1] /\ f[0] = 0
    BY <1>1, <1>2 DEF Adds
  <1> QED BY <1>1, <1>2, <1>3

LEMMA SumInserted ==
    ASSUME NEW s \in Seq(Int), NEW t \in Seq(Int), NEW i, Inserted(s, t, i)
    PROVE  Sum(t) = Sum(s) + t[i]
  <1> DEFINE N == Len(s)
  <1>1. PICK f : Adds(f, s) /\ Sum(s) = f[N]
    BY SumIs
  <1>2. PICK g : Adds(g, t) /\ Sum(t) = g[Len(t)]
    BY SumIs
  <1>3. N \in Nat /\ Len(t) = N + 1 /\ i \in 1 .. N + 1 /\ t[i] \in Int
    BY DEF Inserted
  <1>4. /\ \A k \in 1 .. i - 1 : t[k] = s[k]
        /\ \A k \in i .. N : t[k + 1] = s[k]
        /\ \A k \in 1 .. N : s[k] \in Int
    BY DEF Inserted
  <1> HIDE DEF N
  <1>5. /\ f[0] = 0 /\ \A n \in 0 .. N : f[n] \in Int
        /\ \A n \in 1 .. N : f[n] = f[n - 1] + s[n]
    BY <1>1 DEF Adds, N
  <1>6. g[0] = 0 /\ \A n \in 1 .. N + 1 : g[n] = g[n - 1] + t[n]
    BY <1>2, <1>3 DEF Adds
  <1> DEFINE T == {n \in 0 .. N + 1 : g[n] = IF n < i THEN f[n] ELSE f[n - 1] + t[i]}
  <1>7. 0 \in T
    BY <1>3, <1>5, <1>6
  <1>8. ASSUME NEW n \in 0 .. (N + 1) - 1, n \in T PROVE n + 1 \in T
    <2>1. /\ n \in Nat /\ n + 1 \in 1 .. N + 1 /\ (n + 1) - 1 = n
          /\ n \in 0 .. N
      BY <1>3
    <2>2. g[n + 1] = g[n] + t[n + 1]
      BY <1>6, <2>1
    <2>3. g[n] = IF n < i THEN f[n] ELSE f[n - 1] + t[i]
      BY <1>8
    <2>4. CASE n + 1 < i
      <3>1. n < i /\ n + 1 \in 1 .. i - 1 /\ n + 1 \in 1 .. N
        BY <2>4, <2>1, <1>3
      <3>2. t[n + 1] = s[n + 1] /\ f[n + 1] = f[n] + s[n + 1]
        BY <3>1, <2>1, <1>4, <1>5
      <3>3. g[n + 1] = f[n + 1]
        BY <3>1, <3>2, <2>2, <2>3
      <3> QED BY <3>3, <2>1, <2>4
    <2>5. CASE n + 1 = i
      <3>1. n < i /\ ~(n + 1 < i)
        BY <2>5, <2>1, <1>3
      <3>2. g[n + 1] = f[n] + t[i]
        BY <3>1, <2>2, <2>3, <2>5
      <3> QED BY <3>1, <3>2, <2>1
    <2>6. CASE i < n + 1
      <3>1. ~(n < i) /\ ~(n + 1 < i) /\ n \in i .. N /\ n \in 1 .. N /\ n - 1 \in 0 .. N
        BY <2>6, <2>1, <1>3
      <3>2. t[n + 1] = s[n] /\ f[n] = f[n - 1] + s[n] /\ s[n] \in Int /\ f[n - 1] \in Int
        BY <3>1, <1>4, <1>5
      <3>3. g[n + 1] = f[n] + t[i]
        BY <3>1, <3>2, <2>2, <2>3, <1>3
      <3> QED BY <3>1, <3>3, <2>1
    <2> QED BY <2>1, <2>4, <2>5, <2>6, <1>3
  <1> HIDE DEF T
  <1>9. 0 .. N + 1 \subseteq T
    <2>1. N + 1 \in Nat
      BY <1>3
    <2> QED BY <2>1, <1>7, <1>8, IntervalInduction
  <1>10. N + 1 \in T
    BY <1>3, <1>9
  <1>11. g[N + 1] = f[(N + 1) - 1] + t[i]
    BY <1>3, <1>10 DEF T
  <1>12. (N + 1) - 1 = N
    BY <1>3
  <1> QED BY <1>1, <1>2, <1>3, <1>11, <1>12

LEMMA SumChanged ==
    ASSUME NEW s \in Seq(Int), NEW t \in Seq(Int), Len(t) = Len(s), NEW i \in 1 .. Len(s),
           \A k \in 1 .. Len(s) : k # i => t[k] = s[k]
    PROVE  Sum(t) - t[i] = Sum(s) - s[i]
  <1> DEFINE r == RemoveAt(s, i)
  <1>1. r \in Seq(Int) /\ Inserted(r, s, i)
    BY RemoveIs
  <1> HIDE DEF r
  <1>2. Inserted(r, t, i)
    <2>1. /\ Len(r) \in Nat /\ Len(s) = Len(r) + 1 /\ DOMAIN r = 1 .. Len(r)
          /\ i \in 1 .. Len(r) + 1
          /\ \A k \in 1 .. i - 1 : s[k] = r[k]
          /\ \A k \in i .. Len(r) : s[k + 1] = r[k]
      BY <1>1 DEF Inserted
    <2>2. DOMAIN t = 1 .. Len(t)
      OBVIOUS
    <2>3. \A k \in 1 .. i - 1 : k \in 1 .. Len(s) /\ k # i
      BY <2>1
    <2>4. \A k \in i .. Len(r) : k + 1 \in 1 .. Len(s) /\ k + 1 # i
      BY <2>1
    <2>5. /\ \A k \in 1 .. i - 1 : t[k] = r[k]
          /\ \A k \in i .. Len(r) : t[k + 1] = r[k]
      BY SMTT(60), <2>1, <2>3, <2>4
    <2> QED BY <2>1, <2>2, <2>5 DEF Inserted
  <1>3. Sum(s) = Sum(r) + s[i] /\ Sum(t) = Sum(r) + t[i]
    BY <1>1, <1>2, SumInserted
  <1>4. Sum(r) \in Int /\ s[i] \in Int /\ t[i] \in Int
    BY <1>1, SumType
  <1> QED BY <1>3, <1>4

-----------------------------------------------------------------------------
(* The counts *)

Sizes(major) == [k \in DOMAIN major.minors |-> major.minors[k].size]
UsedIn(h) == [i \in DOMAIN h.majors |-> InUse(h.majors[i])]
BytesIn(h) == [i \in DOMAIN h.majors |-> Bytes(h.majors[i])]

LEMMA SizesIs ==
    ASSUME NEW major \in Major
    PROVE  /\ Sizes(major) \in Seq(Int) /\ Len(Sizes(major)) = Len(major.minors)
           /\ DOMAIN Sizes(major) = 1 .. Len(major.minors)
           /\ \A k \in 1 .. Len(major.minors) : Sizes(major)[k] = major.minors[k].size
           /\ InUse(major) = Sum(Sizes(major)) /\ InUse(major) \in Int
  <1>1. DOMAIN major.minors = 1 .. Len(major.minors) /\ Len(major.minors) \in Nat
    BY MajorIs
  <1>2. \A k \in 1 .. Len(major.minors) : major.minors[k].size \in Int
    BY MinorIs
  <1>3. Sizes(major) \in [1 .. Len(major.minors) -> Int]
    BY <1>1, <1>2 DEF Sizes
  <1>4. Sizes(major) \in Seq(Int) /\ Len(Sizes(major)) = Len(major.minors)
    BY <1>1, <1>3
  <1>5. InUse(major) = Sum(Sizes(major))
    BY DEF InUse, Sizes
  <1> QED BY <1>1, <1>3, <1>4, <1>5, SumType DEF Sizes

LEMMA ListsAre ==
    ASSUME NEW h, TidyHeap(h)
    PROVE  /\ UsedIn(h) \in Seq(Int) /\ Len(UsedIn(h)) = Len(h.majors)
           /\ DOMAIN UsedIn(h) = 1 .. Len(h.majors)
           /\ \A i \in 1 .. Len(h.majors) : UsedIn(h)[i] = InUse(h.majors[i])
           /\ BytesIn(h) \in Seq(Int) /\ Len(BytesIn(h)) = Len(h.majors)
           /\ DOMAIN BytesIn(h) = 1 .. Len(h.majors)
           /\ \A i \in 1 .. Len(h.majors) : BytesIn(h)[i] = Bytes(h.majors[i])
  <1>1. DOMAIN h.majors = 1 .. Len(h.majors) /\ Len(h.majors) \in Nat
    BY HeapIs
  <1>2. \A i \in 1 .. Len(h.majors) : InUse(h.majors[i]) \in Int /\ Bytes(h.majors[i]) \in Int
    <2> TAKE i \in 1 .. Len(h.majors)
    <2>1. h.majors[i] \in Major
      BY HeapIs
    <2>2. Bytes(h.majors[i]) \in Nat
      BY <2>1, MajorIs
    <2> QED BY <2>1, <2>2, SizesIs
  <1>3. UsedIn(h) \in [1 .. Len(h.majors) -> Int] /\ BytesIn(h) \in [1 .. Len(h.majors) -> Int]
    BY <1>1, <1>2 DEF UsedIn, BytesIn
  <1>4. UsedIn(h) \in Seq(Int) /\ Len(UsedIn(h)) = Len(h.majors)
    BY <1>1, <1>3
  <1>5. BytesIn(h) \in Seq(Int) /\ Len(BytesIn(h)) = Len(h.majors)
    BY <1>1, <1>3
  <1> QED BY <1>1, <1>3, <1>4, <1>5 DEF UsedIn, BytesIn

CountedMajor(major) ==
    major.usage = MajorSize + InUse(major) + MinorSize * Len(major.minors)

LEMMA CountedIs ==
    ASSUME NEW h, TidyHeap(h)
    PROVE  Counted(h) <=>
              /\ \A i \in 1 .. Len(h.majors) : CountedMajor(h.majors[i])
              /\ h.allocated = Sum(BytesIn(h)) /\ h.inuse = Sum(UsedIn(h))
  BY HeapIs DEF Counted, CountedMajor, BytesIn, UsedIn

\* A list whose elements are the same, but for one, has the counts of the other.
LEMMA InsertedCounts ==
    ASSUME NEW a \in Major, NEW b \in Major, NEW at, NEW size \in Nat,
           Inserted(a.minors, b.minors, at), b.minors[at].size = size,
           b.usage = a.usage + Need(size)
    PROVE  /\ InUse(b) = InUse(a) + size
           /\ CountedMajor(a) <=> CountedMajor(b)
  <1>1. Inserted(Sizes(a), Sizes(b), at) /\ Sizes(b)[at] = size
    <2>1. /\ DOMAIN Sizes(a) = 1 .. Len(a.minors) /\ Len(Sizes(a)) = Len(a.minors)
          /\ DOMAIN Sizes(b) = 1 .. Len(b.minors) /\ Len(Sizes(b)) = Len(b.minors)
          /\ \A k \in 1 .. Len(a.minors) : Sizes(a)[k] = a.minors[k].size
          /\ \A k \in 1 .. Len(b.minors) : Sizes(b)[k] = b.minors[k].size
      BY SizesIs
    <2>2. /\ Len(a.minors) \in Nat /\ Len(b.minors) = Len(a.minors) + 1
          /\ at \in 1 .. Len(b.minors)
          /\ \A k \in 1 .. at - 1 : b.minors[k] = a.minors[k]
          /\ \A k \in at .. Len(a.minors) : b.minors[k + 1] = a.minors[k]
      BY DEF Inserted
    <2>3. \A k \in 1 .. at - 1 : Sizes(b)[k] = Sizes(a)[k]
      BY SMTT(60), <2>1, <2>2
    <2>4. \A k \in at .. Len(a.minors) : Sizes(b)[k + 1] = Sizes(a)[k]
      <3> TAKE k \in at .. Len(a.minors)
      <3>1. k \in 1 .. Len(a.minors) /\ k + 1 \in 1 .. Len(b.minors)
        BY <2>2
      <3> QED BY <3>1, <2>1, <2>2
    <2> QED BY <2>1, <2>2, <2>3, <2>4 DEF Inserted
  <1>2. /\ Sizes(a) \in Seq(Int) /\ InUse(a) = Sum(Sizes(a)) /\ InUse(a) \in Int
        /\ Sizes(b) \in Seq(Int) /\ InUse(b) = Sum(Sizes(b)) /\ InUse(b) \in Int
    BY SizesIs
  <1>3. InUse(b) = InUse(a) + size
    BY <1>1, <1>2, SumInserted
  <1>4. Len(b.minors) = Len(a.minors) + 1 /\ Len(a.minors) \in Nat
    BY DEF Inserted
  <1>5. /\ MinorSize * Len(b.minors) = MinorSize * Len(a.minors) + MinorSize
        /\ MinorSize * Len(a.minors) \in Nat
    BY <1>4, SizesAre, Multiple
  <1>6. a.usage \in Int /\ b.usage \in Int
    BY MajorIs
  <1> DEFINE x == MinorSize * Len(a.minors)
             y == MinorSize * Len(b.minors)
  <1>7. x \in Int /\ y = x + MinorSize
    BY <1>5
  <1>8. /\ CountedMajor(a) <=> a.usage = MajorSize + InUse(a) + x
        /\ CountedMajor(b) <=> b.usage = MajorSize + InUse(b) + y
    BY DEF CountedMajor
  <1> HIDE DEF x, y
  <1>9. b.usage = MajorSize + InUse(b) + y <=> a.usage = MajorSize + InUse(a) + x
    <2>1. b.usage = a.usage + MinorSize + size
      BY <1>6, SizesAre DEF Need
    <2>2. \A u, i, z, l, n, e \in Int :
             u + n + e = l + (i + e) + (z + n) <=> u = l + i + z
      OBVIOUS
    <2>3. a.usage \in Int /\ InUse(a) \in Int /\ MajorSize \in Int /\ MinorSize \in Int /\ size \in Int
      BY <1>2, <1>6, SizesAre
    <2>4. a.usage + MinorSize + size = MajorSize + (InUse(a) + size) + (x + MinorSize)
             <=> a.usage = MajorSize + InUse(a) + x
      BY <2>2, <2>3, <1>7
    <2> QED BY <2>1, <2>4, <1>3, <1>7
  <1> QED BY <1>3, <1>8, <1>9

LEMMA BlockMoreCounted ==
    ASSUME NEW h, TidyHeap(h), NEW g, TidyHeap(g), NEW i, NEW at, NEW size \in Nat,
           BlockMore(h, g, i, at, size)
    PROVE  Counted(h) <=> Counted(g)
  <1> DEFINE n == Len(h.majors)
             a == h.majors[i]
             b == g.majors[i]
  <1>1. /\ i \in 1 .. n /\ Len(g.majors) = n
        /\ \A j \in 1 .. n : j # i => g.majors[j] = h.majors[j]
        /\ b.pages = a.pages /\ Inserted(a.minors, b.minors, at)
        /\ b.minors[at].size = size /\ b.usage = a.usage + Need(size)
        /\ g.allocated = h.allocated /\ g.inuse = h.inuse + size
    BY DEF BlockMore, Replaced
  <1>2. a \in Major /\ b \in Major /\ h.inuse \in Int /\ g.inuse \in Int
    BY <1>1, HeapIs
  <1>3. InUse(b) = InUse(a) + size /\ (CountedMajor(a) <=> CountedMajor(b))
    <2>1. Inserted(a.minors, b.minors, at)
      BY <1>1
    <2>2. b.minors[at].size = size
      BY <1>1
    <2>3. b.usage = a.usage + Need(size)
      BY <1>1
    <2> HIDE DEF a, b
    <2> QED BY <2>1, <2>2, <2>3, <1>2, InsertedCounts
  <1>4. (\A j \in 1 .. n : CountedMajor(h.majors[j]))
           <=> (\A j \in 1 .. Len(g.majors) : CountedMajor(g.majors[j]))
    BY <1>1, <1>3
  <1>5. BytesIn(g) = BytesIn(h)
    <2>1. \A j \in 1 .. n : Bytes(g.majors[j]) = Bytes(h.majors[j])
      BY <1>1 DEF Bytes
    <2>2. DOMAIN g.majors = 1 .. n /\ DOMAIN h.majors = 1 .. n
      BY <1>1, HeapIs
    <2> QED BY <2>1, <2>2 DEF BytesIn
  <1>6. Sum(UsedIn(g)) = Sum(UsedIn(h)) + size /\ Sum(UsedIn(h)) \in Int
    <2>1. /\ UsedIn(h) \in Seq(Int) /\ Len(UsedIn(h)) = n
          /\ UsedIn(g) \in Seq(Int) /\ Len(UsedIn(g)) = n
          /\ \A j \in 1 .. n : UsedIn(h)[j] = InUse(h.majors[j])
          /\ \A j \in 1 .. n : UsedIn(g)[j] = InUse(g.majors[j])
      BY <1>1, ListsAre
    <2>2. \A j \in 1 .. n : j # i => UsedIn(g)[j] = UsedIn(h)[j]
      BY <1>1, <2>1
    <2>3. Sum(UsedIn(g)) - UsedIn(g)[i] = Sum(UsedIn(h)) - UsedIn(h)[i]
      BY <1>1, <2>1, <2>2, SumChanged
    <2>4. /\ Sum(UsedIn(g)) \in Int /\ Sum(UsedIn(h)) \in Int
          /\ InUse(a) \in Int /\ InUse(b) \in Int
      BY <2>1, <1>2, SumType, SizesIs
    <2>5. UsedIn(g)[i] = InUse(b) /\ UsedIn(h)[i] = InUse(a)
      BY <1>1, <2>1
    <2> HIDE DEF a, b
    <2> QED BY <2>3, <2>4, <2>5, <1>3
  <1>7. g.inuse = Sum(UsedIn(g)) <=> h.inuse = Sum(UsedIn(h))
    BY <1>1, <1>2, <1>6
  <1> QED BY <1>1, <1>4, <1>5, <1>7, CountedIs

LEMMA MajorMoreCounted ==
    ASSUME NEW h, TidyHeap(h), NEW g, TidyHeap(g), NEW at, NEW size \in Nat,
           MajorMore(h, g, at, size)
    PROVE  /\ Counted(g) => Counted(h)
           /\ Counted(h) /\ g.majors[at].usage = MajorSize + Need(size) => Counted(g)
  <1> DEFINE n == Len(h.majors)
             m == Len(g.majors)
             new == g.majors[at]
  <1>1. /\ Inserted(h.majors, g.majors, at) /\ at \in 1 .. m /\ m = n + 1 /\ n \in Nat
        /\ Len(new.minors) = 1 /\ new.minors[1].size = size
        /\ g.allocated = h.allocated + Bytes(new) /\ g.inuse = h.inuse + size
    BY DEF MajorMore, Inserted
  <1>2. /\ new \in Major /\ h.inuse \in Int /\ g.inuse \in Int
        /\ h.allocated \in Int /\ g.allocated \in Int
    BY <1>1, HeapIs
  <1>3. /\ \A k \in 1 .. n : Up(k, at) \in 1 .. m /\ g.majors[Up(k, at)] = h.majors[k]
        /\ \A k \in 1 .. m : k # at =>
              Down(k, at) \in 1 .. n /\ g.majors[k] = h.majors[Down(k, at)]
    BY SMTT(60), <1>1, InsertedPlaces
  <1>4. InUse(new) = size
    <2>1. /\ Sizes(new) \in Seq(Int) /\ Len(Sizes(new)) = 1 /\ Sizes(new)[1] = size
          /\ InUse(new) = Sum(Sizes(new))
      <3>1. /\ Sizes(new) \in Seq(Int) /\ Len(Sizes(new)) = Len(new.minors)
            /\ \A k \in 1 .. Len(new.minors) : Sizes(new)[k] = new.minors[k].size
            /\ InUse(new) = Sum(Sizes(new))
        BY <1>2, SizesIs
      <3> HIDE DEF new
      <3>2. 1 \in 1 .. Len(new.minors)
        BY <1>1
      <3> QED BY <3>1, <3>2, <1>1
    <2> QED BY <2>1, SumOne
  <1>5. /\ UsedIn(h) \in Seq(Int) /\ Len(UsedIn(h)) = n /\ DOMAIN UsedIn(h) = 1 .. n
        /\ UsedIn(g) \in Seq(Int) /\ Len(UsedIn(g)) = m /\ DOMAIN UsedIn(g) = 1 .. m
        /\ \A j \in 1 .. n : UsedIn(h)[j] = InUse(h.majors[j])
        /\ \A j \in 1 .. m : UsedIn(g)[j] = InUse(g.majors[j])
    BY ListsAre
  <1>6. /\ BytesIn(h) \in Seq(Int) /\ Len(BytesIn(h)) = n /\ DOMAIN BytesIn(h) = 1 .. n
        /\ BytesIn(g) \in Seq(Int) /\ Len(BytesIn(g)) = m /\ DOMAIN BytesIn(g) = 1 .. m
        /\ \A j \in 1 .. n : BytesIn(h)[j] = Bytes(h.majors[j])
        /\ \A j \in 1 .. m : BytesIn(g)[j] = Bytes(g.majors[j])
    BY ListsAre
  <1>7. /\ \A k \in 1 .. at - 1 : k \in 1 .. n /\ k \in 1 .. m /\ g.majors[k] = h.majors[k]
        /\ \A k \in at .. n : k \in 1 .. n /\ k + 1 \in 1 .. m /\ g.majors[k + 1] = h.majors[k]
    BY <1>1 DEF Inserted
  <1> HIDE DEF n, m, new
  <1>8. Inserted(UsedIn(h), UsedIn(g), at)
    BY <1>1, <1>5, <1>7 DEF Inserted
  <1>9. Inserted(BytesIn(h), BytesIn(g), at)
    BY <1>1, <1>6, <1>7 DEF Inserted
  <1>10. Sum(UsedIn(g)) = Sum(UsedIn(h)) + size /\ Sum(UsedIn(h)) \in Int
    <2>1. UsedIn(g)[at] = size
      BY <1>1, <1>4, <1>5 DEF new
    <2> QED BY <2>1, <1>5, <1>8, SumInserted, SumType
  <1>11. Sum(BytesIn(g)) = Sum(BytesIn(h)) + Bytes(new) /\ Sum(BytesIn(h)) \in Int
    <2>1. BytesIn(g)[at] = Bytes(new)
      BY <1>1, <1>6 DEF new
    <2> QED BY <2>1, <1>6, <1>9, SumInserted, SumType
  <1>12. Bytes(new) \in Nat
    BY <1>2, MajorIs
  <1>13. g.inuse = Sum(UsedIn(g)) <=> h.inuse = Sum(UsedIn(h))
    <2>1. g.inuse = h.inuse + size /\ h.inuse \in Int
      BY <1>1, <1>2
    <2> QED BY <2>1, <1>10
  <1>14. g.allocated = Sum(BytesIn(g)) <=> h.allocated = Sum(BytesIn(h))
    BY <1>1, <1>2, <1>11, <1>12
  <1>15. (\A j \in 1 .. m : CountedMajor(g.majors[j])) => \A j \in 1 .. n : CountedMajor(h.majors[j])
    BY <1>3
  <1>16. /\ \A j \in 1 .. n : CountedMajor(h.majors[j])
         /\ new.usage = MajorSize + Need(size)
         => \A j \in 1 .. m : CountedMajor(g.majors[j])
    <2> SUFFICES ASSUME \A j \in 1 .. n : CountedMajor(h.majors[j]),
                        new.usage = MajorSize + Need(size)
                 PROVE  \A j \in 1 .. m : CountedMajor(g.majors[j])
      OBVIOUS
    <2>1. CountedMajor(new)
      <3>1. MinorSize * 1 = MinorSize
        BY SizesAre
      <3>2. MajorSize + Need(size) = MajorSize + size + MinorSize
        BY SizesAre DEF Need
      <3> QED BY <3>1, <3>2, <1>1, <1>4 DEF CountedMajor
    <2>2. \A j \in 1 .. m : j # at => CountedMajor(g.majors[j])
      BY <1>3
    <2> QED BY <2>1, <2>2 DEF new
  <1> QED BY <1>13, <1>14, <1>15, <1>16, CountedIs DEF m, n, new

LEMMA SameSizesCounted ==
    ASSUME NEW h, TidyHeap(h), NEW g, TidyHeap(g), SameSizes(h, g), Counted(h)
    PROVE  Counted(g)
  <1> DEFINE n == Len(h.majors)
  <1>1. /\ DOMAIN h.majors = 1 .. n /\ DOMAIN g.majors = 1 .. n /\ Len(g.majors) = n
        /\ g.allocated = h.allocated /\ g.inuse = h.inuse
    BY HeapIs DEF SameSizes
  <1>2. ASSUME NEW i \in 1 .. n
        PROVE  /\ InUse(g.majors[i]) = InUse(h.majors[i])
               /\ Bytes(g.majors[i]) = Bytes(h.majors[i])
               /\ CountedMajor(h.majors[i]) => CountedMajor(g.majors[i])
    <2> DEFINE a == h.majors[i]
               b == g.majors[i]
    <2>1. /\ b.pages = a.pages /\ b.usage = a.usage /\ Len(b.minors) = Len(a.minors)
          /\ \A k \in 1 .. Len(a.minors) : b.minors[k].size = a.minors[k].size
      BY DEF SameSizes
    <2>2. a \in Major /\ b \in Major
      BY <1>1, HeapIs
    <2>3. DOMAIN a.minors = 1 .. Len(a.minors) /\ DOMAIN b.minors = 1 .. Len(a.minors)
      BY <2>1, <2>2, MajorIs
    <2> HIDE DEF a, b
    <2>4. Sizes(b) = Sizes(a)
      BY <2>1, <2>3 DEF Sizes
    <2>5. InUse(b) = InUse(a)
      BY <2>2, <2>4, SizesIs
    <2>6. Bytes(b) = Bytes(a)
      BY <2>1 DEF Bytes
    <2>7. CountedMajor(a) => CountedMajor(b)
      BY <2>1, <2>5 DEF CountedMajor
    <2> QED BY <2>5, <2>6, <2>7 DEF a, b
  <1>3. UsedIn(g) = UsedIn(h)
    BY <1>1, <1>2 DEF UsedIn
  <1>4. BytesIn(g) = BytesIn(h)
    BY <1>1, <1>2 DEF BytesIn
  <1> QED BY <1>1, <1>2, <1>3, <1>4, CountedIs

CountsInv ==
    /\ BlocksInv
    /\ ~raced => Counted(heap)

LEMMA CountsInit == Init => CountsInv
  <1> SUFFICES ASSUME Init PROVE Counted(heap)
    BY BlocksInit DEF CountsInv
  <1>1. heap = [majors |-> << >>, best |-> 0, allocated |-> 0, inuse |-> 0]
    BY DEF Init, EmptyHeap, Null
  <1> DEFINE empty == << >>
  <1>2. Sum(empty) = 0
    <2>1. empty \in Seq(Int) /\ Len(empty) = 0
      OBVIOUS
    <2> HIDE DEF empty
    <2>2. PICK f : Adds(f, empty) /\ Sum(empty) = f[0]
      BY <2>1, SumIs
    <2> QED BY <2>2 DEF Adds
  <1>3. /\ \A i \in DOMAIN heap.majors : FALSE
        /\ [i \in DOMAIN heap.majors |-> Bytes(heap.majors[i])] = empty
        /\ [i \in DOMAIN heap.majors |-> InUse(heap.majors[i])] = empty
    BY <1>1
  <1> HIDE DEF empty
  <1> QED BY <1>1, <1>2, <1>3 DEF Counted

LEMMA MallocCounts ==
    ASSUME BlocksInv, Counted(heap), NEW p \in Process, MallocInside(p)
    PROVE  Counted(heap')
  <1> DEFINE req == call[p].req
             size == Padded(req)
  <1>1. ~raced
    BY DEF MallocInside, At, Running
  <1>2. next \in Nat /\ TidyHeap(heap) /\ Below(heap, next) /\ OwnersOK(heap, live, call)
    BY <1>1 DEF BlocksInv
  <1>3. req \in Nat /\ size \in Nat
    <2>1. req \in Nat
      BY <1>2 DEF OwnersOK, CallShape, Calls
    <2> QED BY <2>1, PaddedIs
  <1>4. \/ heap' = heap
        \/ Grows(heap, req) /\ heap' = MallocGrown(heap, req, next)
        \/ ~Grows(heap, req) /\ heap' = MallocWithin(heap, req)
    BY DEF MallocInside
  <1> HIDE DEF req, size
  <1>5. CASE heap' = MallocGrown(heap, req, next)
    <2>1. \A j \in 1 .. Len(heap.majors) : Limit(heap.majors[j]) <= next
      BY <1>2 DEF Below
    <2>2. /\ TidyHeap(heap')
          /\ MajorMore(heap, heap', Len(heap.majors) + 1, size)
          /\ heap'.majors[Len(heap.majors) + 1].usage = MajorSize + Need(size)
      BY <2>1, <1>2, <1>3, <1>5, GrownIs DEF size
    <2> QED BY <2>2, <1>2, <1>3, MajorMoreCounted
  <1>6. CASE ~Grows(heap, req) /\ heap' = MallocWithin(heap, req)
    <2>1. TidyHeap(heap') /\ \E i, at : BlockMore(heap, heap', i, at, size)
      BY <1>2, <1>3, <1>6, WithinIs DEF size
    <2> QED BY <2>1, <1>2, <1>3, BlockMoreCounted
  <1> QED BY <1>4, <1>5, <1>6

LEMMA FreeCounts ==
    ASSUME BlocksInv, Counted(heap), NEW p \in Process, FreeInside(p)
    PROVE  Counted(heap')
  <1> DEFINE ptr == call[p].ptr
  <1>1. /\ ~raced /\ call[p].at = "inside" /\ call[p].op = "free"
        /\ heap' = Free(heap, ptr)
    BY DEF FreeInside, At, Running
  <1>2. TidyHeap(heap) /\ OwnersOK(heap, live, call)
    BY <1>1 DEF BlocksInv
  <1>3. ptr \in Pointers(heap)
    BY <1>1, <1>2 DEF OwnersOK, Held, HasBlock
  <1> HIDE DEF ptr
  <1>4. /\ TidyHeap(heap')
        /\ \E i, at, size : /\ size \in Nat
                            /\ BlockMore(heap', heap, i, at, size) \/ MajorMore(heap', heap, i, size)
    BY <1>1, <1>2, <1>3, FreeIs
  <1>5. PICK i, at, size : /\ size \in Nat
                           /\ BlockMore(heap', heap, i, at, size) \/ MajorMore(heap', heap, i, size)
    BY <1>4
  <1>6. CASE BlockMore(heap', heap, i, at, size)
    BY <1>2, <1>4, <1>5, <1>6, BlockMoreCounted
  <1>7. CASE MajorMore(heap', heap, i, size)
    BY <1>2, <1>4, <1>5, <1>7, MajorMoreCounted
  <1> QED BY <1>5, <1>6, <1>7

LEMMA ReallocCounts ==
    ASSUME BlocksInv, Counted(heap), NEW p \in Process, ReallocInside(p)
    PROVE  Counted(heap')
  <1> DEFINE ptr == call[p].ptr
             req == call[p].req
  <1>1. /\ ~raced /\ call[p].at = "inside" /\ call[p].op = "realloc"
        /\ heap' = IF Requested(heap, ptr) >= req THEN Shrunk(heap, ptr, req) ELSE heap
    BY DEF ReallocInside, At, Running
  <1>2. TidyHeap(heap) /\ OwnersOK(heap, live, call)
    BY <1>1 DEF BlocksInv
  <1>3. ptr \in Pointers(heap) /\ req \in Nat
    BY <1>1, <1>2 DEF OwnersOK, Held, HasBlock, CallShape, Calls
  <1> HIDE DEF ptr, req
  <1>4. Requested(heap, ptr) \in Nat
    <2>1. PICK i \in 1 .. Len(heap.majors) :
             \E k \in 1 .. Len(heap.majors[i].minors) : Requested(heap, ptr) = heap.majors[i].minors[k].req
      BY <1>2, <1>3, BlockFound
    <2>2. PICK k \in 1 .. Len(heap.majors[i].minors) : Requested(heap, ptr) = heap.majors[i].minors[k].req
      BY <2>1
    <2>3. heap.majors[i] \in Major
      BY <1>2, HeapIs
    <2> QED BY <2>2, <2>3, MinorIs
  <1>5. CASE Requested(heap, ptr) >= req
    <2>1. req <= Requested(heap, ptr) /\ heap' = Shrunk(heap, ptr, req)
      BY <1>1, <1>3, <1>4, <1>5
    <2>2. TidyHeap(heap') /\ SameSizes(heap, heap')
      BY <2>1, <1>2, <1>3, ShrunkIs
    <2> QED BY <2>2, <1>2, SameSizesCounted
  <1>6. CASE ~(Requested(heap, ptr) >= req)
    BY <1>1, <1>6
  <1> QED BY <1>5, <1>6

LEMMA CountsStep == CountsInv /\ [Next]_vars => CountsInv'
  <1> SUFFICES ASSUME CountsInv, [Next]_vars, ~raced' PROVE Counted(heap)'
    BY BlocksStep DEF CountsInv
  <1>1. CASE UNCHANGED heap /\ (raced => raced')
    BY <1>1 DEF CountsInv, Counted
  <1>2. ASSUME NEW p \in Process, MallocInside(p) \/ FreeInside(p) \/ ReallocInside(p)
        PROVE  Counted(heap')
    <2>1. ~raced
      BY <1>2 DEF MallocInside, FreeInside, ReallocInside, At, Running
    <2>2. Counted(heap) /\ BlocksInv
      BY <2>1 DEF CountsInv
    <2> QED BY <1>2, <2>2, MallocCounts, FreeCounts, ReallocCounts
  <1>3. \/ UNCHANGED heap /\ (raced => raced')
        \/ \E p \in Process : MallocInside(p) \/ FreeInside(p) \/ ReallocInside(p)
    BY DEF Next, Step, Halted, Loop, vars, CallMalloc, CallFree, CallRealloc,
           TestLock, SetLock, Unlock, At, Running
  <1> QED BY <1>1, <1>2, <1>3 DEF Counted

\* For every sequence of calls of every number of processes: the counts that malloc
\* trusts agree with the lists, no major stays that is empty, and the best bet is
\* one of them.
THEOREM CountsAreTrue == Spec => []Consistent
  <1>1. CountsInv => Consistent
    <2> SUFFICES ASSUME CountsInv, ~raced PROVE Counted(heap) /\ Linked(heap)
      BY DEF Consistent
    <2>1. TidyHeap(heap) /\ Counted(heap)
      BY DEF CountsInv, BlocksInv
    <2>2. Linked(heap)
      BY <2>1, HeapIs DEF TidyHeap, Linked, Limit
    <2> QED BY <2>1, <2>2
  <1> QED BY <1>1, CountsInit, CountsStep, PTL DEF Spec
=============================================================================
