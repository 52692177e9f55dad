------------------------------ MODULE Processes ------------------------------
(***************************************************************************)
(* The life of a process in the Knee kernel: boot, fork, exec, exit and    *)
(* waitpid, and the round-robin scheduler that multiplexes the one CPU     *)
(* between processes (process.cpp, timer.cpp, interrupts.cpp, cstdlib.cpp, *)
(* and waitpid of posix.cpp).                                              *)
(*                                                                         *)
(* A system call runs with interrupts enabled (interrupt_routines.cpp      *)
(* 62-73), so the kernel is preemptible between any two steps below.  One  *)
(* action is one stretch of code that reads or writes memory shared with   *)
(* another process, or one stretch that runs with interrupts disabled.     *)
(***************************************************************************)
EXTENDS Naturals, Sequences

CONSTANTS
    MaxProcs,     \* bound on the processes ever created (the code has none)
    Quantum,      \* the constant quantum of timer.h
    ExitCodes,    \* the codes a program may pass to _exit
    WaitOutcomes  \* what the build makes of the empty loop of waitpid

(***************************************************************************)
(* The blocking wait of waitpid is a loop with an empty body that reads a  *)
(* plain field another process writes: a data race, and a loop C++ lets    *)
(* the compiler assume to end.  A build may re-read the field ("reload")   *)
(* or delete the loop ("elide").                                           *)
(***************************************************************************)
ASSUME MaxProcsAssumption == MaxProcs \in Nat /\ MaxProcs >= 2
ASSUME QuantumAssumption == Quantum \in Nat
ASSUME ExitCodesAssumption == ExitCodes \subseteq Nat
ASSUME WaitOutcomesAssumption == WaitOutcomes \subseteq {"reload", "elide"}

Pid == 0 .. MaxProcs - 1
Root == 0          \* the process kernel_main itself runs as
NoStatus == 1      \* no status is written: those written are multiples of 256
NoPanic == "none"
OrderFault == "Order fault"
PreemptionFault == "Try of preemption after interrupt flag clear"
NoSuchChild == "No such child"
CannotOpen == "Can't open file"

VARIABLES
    process_list,        \* the std::list<process>, as the pids in list order
    last_process_id,     \* the next pid
    current_process,     \* the pid current_process points to
    status,              \* process::status; "none" before it is created
    exit_code,           \* process::exit_code
    flags,               \* eb_int_enable of process::flags, the saved EFLAGS
    childs,              \* process::childs, as pids
    at,                  \* where in its code each process is
    target,              \* the argument of the waitpid a process is in
    interrupts,          \* the interrupt flag of the CPU
    preemption_enabled, need_reschedule, timer_value,
    reaped,              \* what waitpid has answered: who, whom, which status,
                         \* and whether it had looked at the status before
    panic                \* the message of the panic that stopped the kernel

cpu == <<interrupts, preemption_enabled, need_reschedule, timer_value>>
vars == <<process_list, last_process_id, current_process, status, exit_code,
          flags, childs, at, target, cpu, reaped, panic>>

Created == 0 .. last_process_id - 1

Places == {"boot", "root", "user", "waiting", "scanning", "exiting", "zombie"}

\* The locals of waitpid: the pid asked for, the next child to look at, WNOHANG.
NoTarget == [pid |-> 0, next |-> 1, nohang |-> FALSE]

\* init_processes makes the root process.
Init ==
    /\ process_list = <<Root>>
    /\ last_process_id = 1
    /\ current_process = Root
    /\ status = [p \in Pid |-> IF p = Root THEN "normal" ELSE "none"]
    /\ exit_code = [p \in Pid |-> 0]
    /\ flags = [p \in Pid |-> TRUE]
    /\ childs = [p \in Pid |-> << >>]
    /\ at = [p \in Pid |-> IF p = Root THEN "boot" ELSE "user"]
    /\ target = [p \in Pid |-> NoTarget]
    /\ interrupts = FALSE
    /\ preemption_enabled = FALSE
    /\ need_reschedule = FALSE
    /\ timer_value = 0
    /\ reaped = {}
    /\ panic = NoPanic

-----------------------------------------------------------------------------
(* Context switch *)

Panic(message) == panic' = message

\* Mutant: preemption is not enabled again.
ExitUnpreemptible(p, saved) ==
    /\ UNCHANGED preemption_enabled
    /\ interrupts' = saved[p]

\* exit_to_current_process: iret loads the flags saved for process p.
ExitToProcess(p, saved) ==
    /\ preemption_enabled' = TRUE
    /\ interrupts' = saved[p]

\* Mutants: splice the last process to the front; swap the first two.
RotatedBackwards ==
    <<process_list[Len(process_list)]>>
        \o SubSeq(process_list, 1, Len(process_list) - 1)
RotatedFirstTwo ==
    IF Len(process_list) < 2 THEN process_list
    ELSE <<process_list[2], process_list[1]>>
             \o SubSeq(process_list, 3, Len(process_list))

\* process_list.splice: the first process moves to the end.
Rotated == Append(Tail(process_list), Head(process_list))

\* schedule(frame, ...): f is the interrupt flag in the frame it saves.  The
\* clear_interrupts and preemption_enabled = false at its start last until the
\* panic or the iret.
Schedule(f) ==
    IF current_process # Head(process_list)
    THEN /\ Panic(OrderFault)
         /\ preemption_enabled' = FALSE
         /\ interrupts' = FALSE
         /\ UNCHANGED <<flags, process_list, current_process>>
    ELSE /\ flags' = [flags EXCEPT ![current_process] = f]
         /\ process_list' = Rotated
         /\ current_process' = Head(Rotated)
         /\ ExitToProcess(Head(Rotated), flags')
         /\ UNCHANGED panic

\* Mutant: the comparison is late by one tick.
ExpiredLate == timer_value > Quantum

\* timer_value++ == quantum
Expired == timer_value = Quantum

\* The timer interrupt: timer_interrupt, then the tail of
\* interrupt_routine_body.  The frame holds the flags of the interrupted code,
\* whose interrupt flag is set or there would have been no interrupt.
Tick ==
    LET wanted == need_reschedule \/ Expired IN
    /\ panic = NoPanic
    /\ interrupts
    /\ timer_value' = IF Expired THEN 0 ELSE timer_value + 1
    /\ \/ /\ ~wanted
          /\ UNCHANGED <<process_list, current_process, flags, interrupts,
                         preemption_enabled, need_reschedule, panic>>
       \/ /\ wanted
          /\ ~preemption_enabled
          /\ Panic(PreemptionFault)
          /\ need_reschedule' = TRUE
          /\ interrupts' = FALSE
          /\ UNCHANGED <<process_list, current_process, flags,
                         preemption_enabled>>
       \/ /\ wanted
          /\ preemption_enabled
          /\ need_reschedule' = FALSE
          /\ Schedule(TRUE)
    /\ UNCHANGED <<last_process_id, status, exit_code, childs, at, target,
                   reaped>>

\* A process can take a step of its own when the CPU executes it.
Running(p, place) ==
    /\ panic = NoPanic
    /\ current_process = p
    /\ at[p] = place

\* Mutant: _exit yields once instead of in a loop.
YieldOnce(p) ==
    /\ \E place \in {"root", "zombie"} : Running(p, place)
    /\ Schedule(interrupts)
    /\ at' = [at EXCEPT ![p] = IF p = Root THEN "root" ELSE "user"]
    /\ UNCHANGED <<last_process_id, status, exit_code, childs, target,
                   need_reschedule, timer_value, reaped>>

\* schedule() of the two loops that only yield: that of kernel_main, which runs
\* with interrupts disabled, and that of _exit, which runs with them enabled.
Yield(p) ==
    /\ \E place \in {"root", "zombie"} : Running(p, place)
    /\ Schedule(interrupts)
    /\ UNCHANGED <<last_process_id, status, exit_code, childs, at, target,
                   need_reschedule, timer_value, reaped>>

-----------------------------------------------------------------------------
(* Creation and replacement *)

\* The call of execute_elf in kernel_main: create_process for the first program.
Boot ==
    /\ Running(Root, "boot")
    /\ process_list' = Append(process_list, last_process_id)
    /\ last_process_id' = last_process_id + 1
    /\ status' = [status EXCEPT ![last_process_id] = "normal"]
    /\ flags' = [flags EXCEPT ![last_process_id] = TRUE]
    /\ at' = [at EXCEPT ![Root] = "root"]
    /\ UNCHANGED <<current_process, exit_code, childs, target, cpu, reaped,
                   panic>>

\* Mutant: the flags are read after clear_interrupts.
EflagsAfterClear == FALSE

\* The interrupt flag of iframe.eflags, the flags of the caller of fork.
CallerEflags == interrupts

\* Mutant: the parent's list gets the new process before it is copied.
ChildsWithItself(p, new) == Append(childs[p], new)

\* The children of the copy of p.
CopiedChilds(p, new) == childs[p]

\* SYSCALL_FORK: copy_current_process clears interrupts, copies the process
\* with the list of its children, and sets them again.  The list of the parent
\* gets the new process only after the copy is made.
Fork(p) ==
    LET new == last_process_id IN
    /\ Running(p, "user")
    /\ new < MaxProcs
    /\ process_list' = Append(process_list, new)
    /\ last_process_id' = new + 1
    /\ status' = [status EXCEPT ![new] = status[p]]
    /\ exit_code' = [exit_code EXCEPT ![new] = exit_code[p]]
    /\ flags' = [flags EXCEPT ![new] = CallerEflags]
    /\ childs' = [childs EXCEPT ![new] = CopiedChilds(p, new),
                                ![p] = Append(childs[p], new)]
    /\ interrupts' = TRUE
    /\ UNCHANGED <<current_process, at, target, preemption_enabled,
                   need_reschedule, timer_value, reaped, panic>>

\* SYSCALL_EXEC: execute_elf replaces the program of the process, whose
\* children and saved flags it leaves alone, and leaves the kernel through
\* exit_to_current_process.  It runs with interrupts disabled from its start.
Exec(p) ==
    /\ Running(p, "user")
    /\ \/ /\ ExitToProcess(p, flags)
          /\ UNCHANGED panic
       \/ /\ Panic(CannotOpen)
          /\ interrupts' = FALSE
          /\ UNCHANGED preemption_enabled
    /\ UNCHANGED <<process_list, last_process_id, current_process, status,
                   exit_code, flags, childs, at, target, need_reschedule,
                   timer_value, reaped>>

-----------------------------------------------------------------------------
(* Exit and wait *)

\* _exit stores the code, then the status, and then yields for ever: the
\* process stays on process_list.
ExitStoreCode(p, code) ==
    /\ Running(p, "user")
    /\ exit_code' = [exit_code EXCEPT ![p] = code]
    /\ at' = [at EXCEPT ![p] = "exiting"]
    /\ UNCHANGED <<process_list, last_process_id, current_process, status,
                   flags, childs, target, cpu, reaped, panic>>

ExitStoreStatus(p) ==
    /\ Running(p, "exiting")
    /\ status' = [status EXCEPT ![p] = "exited"]
    /\ at' = [at EXCEPT ![p] = "zombie"]
    /\ UNCHANGED <<process_list, last_process_id, current_process, exit_code,
                   flags, childs, target, cpu, reaped, panic>>

Wstatus(code) == (code % 256) * 256

\* Mutant: everything from the element on is erased.
WithoutRest(list, i) == SubSeq(list, 1, i - 1)

\* childs.erase(iter)
Without(list, i) == SubSeq(list, 1, i - 1) \o SubSeq(list, i + 1, Len(list))

Answer(p, c, wstatus, looked) ==
    reaped' = reaped \cup {[by |-> p, pid |-> c, wstatus |-> wstatus,
                            looked |-> looked]}

\* Mutant: any process that exists is taken for an exited one.
HasStarted(c) == status[c] # "none"

HasExited(c) == status[c] = "exited"

\* Write *wstatus, erase the i-th child and return its pid.
Reap(p, i, looked) ==
    LET c == childs[p][i] IN
    /\ Answer(p, c, Wstatus(exit_code[c]), looked)
    /\ childs' = [childs EXCEPT ![p] = Without(childs[p], i)]
    /\ at' = [at EXCEPT ![p] = "user"]
    /\ target' = [target EXCEPT ![p] = NoTarget]

Waits == UNCHANGED <<process_list, last_process_id, current_process, status,
                     exit_code, flags, cpu>>

IndexOf(p, c) == CHOOSE i \in DOMAIN childs[p] : childs[p][i] = c

IsChild(p, c) == \E i \in DOMAIN childs[p] : childs[p][i] = c

\* waitpid(c, wstatus, options) for one pid.  With WNOHANG it leaves an exited
\* child on the list and *wstatus untouched, and answers ECHILD for a child
\* that runs; a pid that is no child stops the kernel.
WaitPid(p, c, nohang) ==
    /\ Running(p, "user")
    /\ \/ /\ IsChild(p, c) /\ nohang
          /\ \/ HasExited(c) /\ Answer(p, c, NoStatus, TRUE)
             \/ ~HasExited(c) /\ UNCHANGED reaped
          /\ UNCHANGED <<at, target, panic>>
       \/ /\ IsChild(p, c) /\ ~nohang
          /\ at' = [at EXCEPT ![p] = "waiting"]
          /\ target' = [target EXCEPT ![p].pid = c]
          /\ UNCHANGED <<reaped, panic>>
       \/ /\ ~IsChild(p, c)
          /\ Panic(NoSuchChild)
          /\ UNCHANGED <<at, target, reaped>>
    /\ UNCHANGED childs
    /\ Waits

\* Mutant: the waiter looks at its own status.
LoopEndsOnOwnStatus(p, looked) ==
    looked /\ "reload" \in WaitOutcomes /\ HasExited(p)

\* while (proc->status != status_exited);  A deleted loop ends without a look.
LoopEnds(p, looked) ==
    \/ looked /\ "reload" \in WaitOutcomes /\ HasExited(target[p].pid)
    \/ ~looked /\ "elide" \in WaitOutcomes

\* The end of that loop and what follows it.
WaitEnds(p) ==
    /\ Running(p, "waiting")
    /\ \E looked \in BOOLEAN :
          /\ LoopEnds(p, looked)
          /\ Reap(p, IndexOf(p, target[p].pid), looked)
    /\ UNCHANGED panic
    /\ Waits

\* childs.begin()
FirstChild == 1

\* waitpid(-1, wstatus, options): scan the children from the first, again and
\* again unless WNOHANG.
WaitAny(p, nohang) ==
    /\ Running(p, "user")
    /\ at' = [at EXCEPT ![p] = "scanning"]
    /\ target' = [target EXCEPT ![p].next = FirstChild, ![p].nohang = nohang]
    /\ UNCHANGED <<childs, reaped, panic>>
    /\ Waits

ScanChild(p) ==
    LET i == target[p].next IN
    /\ Running(p, "scanning")
    /\ i \in DOMAIN childs[p]
    /\ \/ /\ HasExited(childs[p][i])
          /\ Reap(p, i, TRUE)
       \/ /\ ~HasExited(childs[p][i])
          /\ target' = [target EXCEPT ![p].next = i + 1]
          /\ UNCHANGED <<childs, reaped, at>>
    /\ UNCHANGED panic
    /\ Waits

\* The end of a scan: WNOHANG answers 0, or ECHILD if there was no child.
ScanEnds(p) ==
    /\ Running(p, "scanning")
    /\ target[p].next \notin DOMAIN childs[p]
    /\ \/ /\ target[p].nohang
          /\ at' = [at EXCEPT ![p] = "user"]
          /\ target' = [target EXCEPT ![p] = NoTarget]
       \/ /\ ~target[p].nohang
          /\ target' = [target EXCEPT ![p].next = FirstChild]
          /\ UNCHANGED at
    /\ UNCHANGED <<childs, reaped, panic>>
    /\ Waits

\* panic() clears interrupts and halts.
Halted == panic # NoPanic /\ UNCHANGED vars

-----------------------------------------------------------------------------

\* What a program asks for is its own choice; the rest is the kernel's code.
Request(p) ==
    \/ Fork(p)
    \/ Exec(p)
    \/ \E code \in ExitCodes : ExitStoreCode(p, code)
    \/ \E c \in Pid, nohang \in BOOLEAN : WaitPid(p, c, nohang)
    \/ \E nohang \in BOOLEAN : WaitAny(p, nohang)

Proceed(p) ==
    \/ Yield(p)
    \/ ExitStoreStatus(p)
    \/ WaitEnds(p)
    \/ ScanChild(p)
    \/ ScanEnds(p)

Next ==
    \/ Boot
    \/ Tick
    \/ \E p \in Pid : Request(p) \/ Proceed(p)
    \/ Halted

Spec == Init /\ [][Next]_vars

\* The timer interrupts, and a process that is given the CPU again and again
\* executes its kernel code: a turn is a quantum of 20 ms.  Nothing is assumed
\* of what a program asks for.
Fairness ==
    /\ WF_vars(Boot)
    /\ WF_vars(Tick)
    /\ \A p \in Pid : SF_vars(Proceed(p))

FairSpec == Spec /\ Fairness

-----------------------------------------------------------------------------
(* Safety *)

Targets == [pid : Pid, next : Nat \ {0}, nohang : BOOLEAN]
Answers == [by : Pid, pid : Pid, wstatus : Nat, looked : BOOLEAN]

\* Type correctness.
TypeOK ==
    /\ process_list \in Seq(Pid)
    /\ last_process_id \in 1 .. MaxProcs
    /\ current_process \in Pid
    /\ status \in [Pid -> {"none", "normal", "exited"}]
    /\ exit_code \in [Pid -> Nat]
    /\ flags \in [Pid -> BOOLEAN]
    /\ childs \in [Pid -> Seq(Pid)]
    /\ at \in [Pid -> Places]
    /\ target \in [Pid -> Targets]
    /\ interrupts \in BOOLEAN
    /\ preemption_enabled \in BOOLEAN
    /\ need_reschedule \in BOOLEAN
    /\ timer_value \in 0 .. Quantum
    /\ reaped \in SUBSET Answers
    /\ panic \in {NoPanic, OrderFault, PreemptionFault, NoSuchChild, CannotOpen}

\* The two assertions of the scheduler never stop the kernel: the current
\* process is the first of the list whenever it is switched away from
\* (process.cpp 168), and no interrupt asks for a switch while one is under way
\* or before the first (interrupts.cpp 43).
KernelAsserts == panic \notin {OrderFault, PreemptionFault}

\* Interrupts are off exactly while the root process runs, and every other
\* process will find them on when it is resumed: neither the yield of an exited
\* process, nor exec, which reuses the flags saved at an earlier switch, nor a
\* fork lets a process run that the timer cannot take the CPU from.
InterruptDiscipline ==
    panic = NoPanic =>
        /\ interrupts <=> current_process # Root
        /\ \A p \in Created \ {Root} : flags[p]
        /\ current_process # Root => ~flags[Root]

\* Processes can be ranked so that each waits only for processes of a lower
\* rank.  A fork copies the list of children, so a process can wait for its
\* elder siblings and those of its ancestors as well as for its children; a
\* chain of waitpid calls still never closes to a cycle.
WaitsAreOrdered ==
    \E rank \in [Pid -> Pid] :
        \A p \in Pid : \A i \in DOMAIN childs[p] :
            rank[childs[p][i]] < rank[p]

ReapedOnce ==
    \A r \in reaped : r.wstatus # NoStatus => ~IsChild(r.by, r.pid)

NoneLost ==
    \A c \in Created \ {Root, Root + 1} :
        \/ \E p \in Pid : IsChild(p, c)
        \/ \E r \in reaped : r.pid = c /\ r.wstatus # NoStatus

\* A process whose status was written to a waiter is off that waiter's list, so
\* that waitpid gives it once; and no process is lost: one that was forked is on
\* a list of children until some waiter has been given its status.
StatusesReachWaiters == ReapedOnce /\ NoneLost

\* What an answer given after a look at the status says: the process has exited,
\* and the status is made of the code it passed to _exit.
TrueStatus(r) ==
    /\ status[r.pid] = "exited"
    /\ r.wstatus # NoStatus => r.wstatus = Wstatus(exit_code[r.pid])

\* What an answer of the deleted loop says: perhaps too early, that the process
\* exited with code 0; or its own code.
EarlyStatus(r) == r.wstatus \in {Wstatus(0), Wstatus(exit_code[r.pid])}

\* Whoever looks at the status of a child before it answers tells the truth, and
\* keeps telling it: the child stored its code before its status, and nothing
\* changes either afterwards.  A build without the loop can answer too early, but
\* hands out no code that the process will not exit with except 0.
StatusOfExited ==
    \A r \in reaped : IF r.looked THEN TrueStatus(r) ELSE EarlyStatus(r)

\* Exit is final: a process that has exited keeps its status, its code and its
\* place in the loop of _exit, whatever the others fork, execute or reap.
ExitIsFinal ==
    [][\A p \in Pid : status[p] = "exited" =>
          /\ status'[p] = "exited"
          /\ exit_code'[p] = exit_code[p]
          /\ at'[p] = "zombie"]_vars

\* The scheduler keeps the promise of RoundRobin.
RR == INSTANCE RoundRobin
          WITH Task <- Pid, queue <- process_list, running <- current_process
TakesTurns == RR!Spec

-----------------------------------------------------------------------------
(* Liveness *)

Stopped == panic # NoPanic

\* No process starves: each one that exists runs again and again, the exited
\* ones included.
EveryoneRuns ==
    \A p \in Pid : []<>(status[p] = "none" \/ current_process = p \/ Stopped)

\* A waitpid for one process returns once that process has exited, and one for
\* any process once one of its list has exited, wherever in its scan of the list
\* it was at that time.
WaitpidReturns ==
    \A p \in Pid :
        /\ (at[p] = "waiting" /\ status[target[p].pid] = "exited")
               ~> (at[p] # "waiting" \/ Stopped)
        /\ (at[p] = "scanning"
               /\ \E i \in DOMAIN childs[p] : status[childs[p][i]] = "exited")
               ~> (at[p] # "scanning" \/ Stopped)
=============================================================================
