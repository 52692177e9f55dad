------------------------------ MODULE KernelHeap ------------------------------
(***************************************************************************)
(* The heap of the kernel: liballoc behind the lock of liballoc_hooks.cpp,  *)
(* used by system calls, which are preemptible, and by fork and exec, which *)
(* run with interrupts disabled and take the same lock.                    *)
(*                                                                         *)
(* "raced" is set when a process takes a lock that is taken: from there two *)
(* processes change one list, and the model ends.                          *)
(***************************************************************************)
EXTENDS Liballoc

CONSTANTS
    Process,
    Requests,      \* the sizes they ask malloc for
    MaxLive,       \* bound on the blocks in use
    MaxTogether,   \* and on those while calls of two processes overlap
    FirstPage,     \* where the kernel's free addresses start
    LastPage,      \* and where they end
    WaitOutcomes   \* what a build makes of the empty loop of liballoc_lock

ASSUME RequestsAssumption == Requests \subseteq Nat
ASSUME AddressesAssumption ==
    /\ FirstPage \in Nat \ {0} /\ LastPage \in Nat
    /\ FirstPage % PageSize = 0 /\ MaxLive \in Nat /\ MaxTogether \in Nat
ASSUME WaitAssumption == WaitOutcomes \subseteq {"reload", "hoist"}

VARIABLES
    lock,    \* the lock of liballoc_hooks.cpp
    heap,    \* the lists of liballoc
    next,    \* the first address that allocate_pages has never given out
    live,    \* the blocks the kernel uses: pointer and size
    call,    \* the call each process is in: see Idle
    outcome, \* what this build makes of the loop
    raced,   \* two processes hold the lock
    panic    \* what stopped the kernel

vars == <<lock, heap, next, live, call, outcome, raced, panic>>

NoPanic == "none"
UnlockFault == "Unlock fault"
NoSpace == "Can't allocate enough space"

\* The locals of a call: the operation it is at and where in it, the size, the
\* block, the block that realloc replaces, and whether the caller has disabled
\* interrupts.
Idle == [op |-> "none", at |-> "user", req |-> 0, ptr |-> Null, old |-> Null, off |-> FALSE]

Init ==
    /\ lock = FALSE
    /\ heap = EmptyHeap
    /\ next = FirstPage
    /\ live = {}
    /\ call = [p \in Process |-> Idle]
    /\ outcome \in WaitOutcomes
    /\ raced = FALSE
    /\ panic = NoPanic

\* Whether process p can have the CPU: no other process has disabled interrupts.
Running(p) ==
    /\ panic = NoPanic /\ ~raced
    /\ \A q \in Process \ {p} : ~call[q].off

At(p, place) == Running(p) /\ call[p].at = place

-----------------------------------------------------------------------------

Calling == {p \in Process : call[p].op # "none"}

\* The bounds leave room for another call, and for a block if it takes one.
Bounded(new) ==
    LET blocks == Cardinality(live) + Cardinality(Calling) + new
    IN blocks <= MaxLive /\ (Calling # {} => blocks <= MaxTogether)

\* A call of malloc or calloc; fork and exec disable interrupts before theirs.
CallMalloc(p, req, off) ==
    /\ At(p, "user")
    /\ Bounded(1)
    /\ call' = [call EXCEPT ![p] = [Idle EXCEPT !.op = "malloc", !.at = "test",
                                               !.req = req, !.off = off]]
    /\ UNCHANGED <<lock, heap, next, live, outcome, raced, panic>>

\* A block is freed once, and not used any more from the call of free on.
CallFree(p, block, off) ==
    /\ At(p, "user")
    /\ Bounded(0)
    /\ live' = live \ {block}
    /\ call' = [call EXCEPT ![p] = [Idle EXCEPT !.op = "free", !.at = "test",
                                               !.ptr = block.ptr, !.off = off]]
    /\ UNCHANGED <<lock, heap, next, outcome, raced, panic>>

CallRealloc(p, block, req) ==
    /\ At(p, "user")
    /\ Bounded(1)
    /\ live' = live \ {block}
    /\ call' = [call EXCEPT ![p] = [Idle EXCEPT !.op = "realloc", !.at = "test",
                                               !.req = req, !.ptr = block.ptr]]
    /\ UNCHANGED <<lock, heap, next, outcome, raced, panic>>

\* The test of the loop of liballoc_lock.  A build that reads the lock once
\* never leaves the loop.
TestLock(p) ==
    /\ At(p, "test")
    /\ \/ ~lock /\ call' = [call EXCEPT ![p].at = "set"]
       \/ lock /\ outcome = "reload" /\ UNCHANGED call
       \/ lock /\ outcome = "hoist" /\ call' = [call EXCEPT ![p].at = "loop"]
    /\ UNCHANGED <<lock, heap, next, live, outcome, raced, panic>>

Loop(p) == At(p, "loop") /\ UNCHANGED vars

SetLock(p) ==
    /\ At(p, "set")
    /\ lock' = TRUE
    /\ raced' = lock
    /\ call' = [call EXCEPT ![p].at = "inside"]
    /\ UNCHANGED <<heap, next, live, outcome, panic>>

\* The address of the block that is in one heap and not in the other.
NewBlock(old, new) == CHOOSE ptr \in Pointers(new) : ptr \notin Pointers(old)

\* malloc, with new pages at an address that was never used before, or without.
MallocInside(p) ==
    LET req == call[p].req
        end == next + PagesFor(Padded(req)) * PageSize
        result == IF Grows(heap, req) THEN MallocGrown(heap, req, next)
                  ELSE MallocWithin(heap, req) IN
    /\ At(p, "inside") /\ call[p].op = "malloc"
    /\ \/ /\ Grows(heap, req) /\ end > LastPage
          /\ panic' = NoSpace
          /\ UNCHANGED <<heap, next, call>>
       \/ /\ Grows(heap, req) => end <= LastPage
          /\ heap' = result
          /\ next' = IF Grows(heap, req) THEN end ELSE next
          /\ call' = [call EXCEPT ![p].at = "unlock", ![p].ptr = NewBlock(heap, result)]
          /\ UNCHANGED panic
    /\ UNCHANGED <<lock, live, outcome, raced>>

FreeInside(p) ==
    /\ At(p, "inside") /\ call[p].op = "free"
    /\ heap' = Free(heap, call[p].ptr)
    /\ call' = [call EXCEPT ![p].at = "unlock"]
    /\ UNCHANGED <<lock, next, live, outcome, raced, panic>>

\* The first part of realloc: is the block large enough?
ReallocInside(p) ==
    LET c == call[p] IN
    /\ At(p, "inside") /\ c.op = "realloc"
    /\ heap' = IF Requested(heap, c.ptr) >= c.req THEN Shrunk(heap, c.ptr, c.req) ELSE heap
    /\ call' = [call EXCEPT ![p].at = "unlock",
                  ![p].old = IF Requested(heap, c.ptr) >= c.req THEN Null ELSE c.ptr]
    /\ UNCHANGED <<lock, next, live, outcome, raced, panic>>

\* What a call does after it has released the lock: realloc that needs a larger
\* block calls malloc, copies, and calls free.
After(c) ==
    IF c.op = "realloc" /\ c.old # Null
    THEN [c EXCEPT !.op = "malloc", !.at = "test", !.ptr = Null]
    ELSE IF c.op = "malloc" /\ c.old # Null
    THEN [Idle EXCEPT !.op = "free", !.at = "test", !.ptr = c.old]
    ELSE Idle

\* The block the caller has from here on.
Obtained(c) ==
    {[ptr |-> ptr, req |-> c.req] :
        ptr \in {x \in {c.ptr} : c.op = "malloc" \/ (c.op = "realloc" /\ c.old = Null)}}

\* Mutant: realloc of a block that is large enough returns without the unlock.
UnlockedOften(c) == c.op = "realloc" /\ c.old = Null

\* Every path of the three calls ends with liballoc_unlock.
Unlocked(c) == FALSE

Unlock(p) ==
    LET c == call[p] IN
    /\ At(p, "unlock")
    /\ \/ /\ ~lock
          /\ panic' = UnlockFault
          /\ UNCHANGED <<lock, live, call>>
       \/ /\ lock
          /\ lock' = Unlocked(c)
          /\ live' = live \cup Obtained(c)
          /\ call' = [call EXCEPT ![p] = After(c)]
          /\ UNCHANGED panic
    /\ UNCHANGED <<heap, next, outcome, raced>>

-----------------------------------------------------------------------------

\* panic() clears interrupts and halts.
Halted == (panic # NoPanic \/ raced) /\ UNCHANGED vars

Step(p) ==
    \/ TestLock(p) \/ Loop(p) \/ SetLock(p)
    \/ MallocInside(p) \/ FreeInside(p) \/ ReallocInside(p)
    \/ Unlock(p)

Next ==
    \/ Halted
    \/ \E p \in Process :
          \/ Step(p)
          \/ \E req \in Requests, off \in BOOLEAN : CallMalloc(p, req, off)
          \/ \E block \in live :
                \/ \E off \in BOOLEAN : CallFree(p, block, off)
                \/ \E req \in Requests : CallRealloc(p, block, req)

Spec == Init /\ [][Next]_vars

-----------------------------------------------------------------------------
(* Safety *)

InCritical(p) == call[p].at \in {"inside", "unlock"}

\* The lock is held exactly while one process is between the test and the end of
\* liballoc_unlock, until two of them meet at the test: on every path of malloc,
\* free and realloc, which takes it three times.  So the "Unlock fault" of
\* liballoc_unlock needs a race, and a caller that waits with interrupts disabled,
\* for ever, waits for one that was preempted in the heap: neither for itself nor
\* for a lock that someone has left behind.
LockHeld ==
    ~raced =>
        /\ panic # UnlockFault
        /\ lock = \E p \in Process : InCritical(p)
        /\ \A p, q \in Process : InCritical(p) /\ InCritical(q) => p = q
        /\ \A p \in Process :
              call[p].off /\ call[p].at \in {"test", "loop"} /\ lock
                  => \E q \in Process \ {p} : InCritical(q) /\ ~call[q].off

\* The blocks that callers have, and those that realloc is still to free.
Owned == {block.ptr : block \in live} \cup ({call[p].old : p \in Process} \ {Null})

\* No sequence of calls makes two blocks overlap, puts one outside its major,
\* leaves it less than was asked for or not aligned, or loses one that is in use:
\* each stays in the lists, with the size its owner knows, until it is freed.
BlocksApart ==
    ~raced =>
        /\ \A i \in DOMAIN heap.majors : InOrder(heap.majors[i])
        /\ Owned \subseteq Pointers(heap)
        /\ \A block \in live : Requested(heap, block.ptr) = block.req

\* The counts by which malloc skips a major without looking into it, and the best
\* bet at which it starts, agree with the lists: usage is what the blocks take, an
\* empty major has been given back, and the best bet is a major that has not.
Consistent == ~raced => Counted(heap) /\ Linked(heap)
=============================================================================
