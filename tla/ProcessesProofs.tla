--------------------------- MODULE ProcessesProofs ---------------------------
(***************************************************************************)
(* Theorems about Processes, for every number of processes, every quantum, *)
(* every set of exit codes and every outcome of the racy wait loop.        *)
(***************************************************************************)
EXTENDS Processes, TLAPS

-----------------------------------------------------------------------------
(* Sequences *)

\* Moving the first element of a nonempty list to its end gives a nonempty list
\* of the same elements.
LEMMA RotatedList ==
    ASSUME NEW S, NEW list \in Seq(S), list # << >>
    PROVE  /\ Head(list) \in S
           /\ Append(Tail(list), Head(list)) \in Seq(S)
           /\ Append(Tail(list), Head(list)) # << >>
           /\ Head(Append(Tail(list), Head(list))) \in S
           /\ \A i \in DOMAIN Append(Tail(list), Head(list)) :
                 \E j \in DOMAIN list :
                     Append(Tail(list), Head(list))[i] = list[j]
  <1> DEFINE new == Append(Tail(list), Head(list))
  <1>1. /\ Len(list) \in Nat \ {0}
        /\ Head(list) = list[1]
        /\ Tail(list) \in Seq(S)
        /\ Len(Tail(list)) = Len(list) - 1
        /\ \A i \in 1 .. Len(list) - 1 : Tail(list)[i] = list[i + 1]
    OBVIOUS
  <1>2. Head(list) \in S
    BY <1>1
  <1>3. new \in Seq(S) /\ Len(new) = Len(list)
    BY <1>1, <1>2
  <1>4. new # << >> /\ Head(new) \in S
    BY <1>1, <1>3
  <1>5. ASSUME NEW i \in DOMAIN new
        PROVE  \E j \in DOMAIN list : new[i] = list[j]
    <2>1. i \in 1 .. Len(list)
      BY <1>3, <1>1
    <2>2. CASE i = Len(list)
      <3>1. new[i] = list[1] /\ 1 \in DOMAIN list
        BY <1>1, <2>2
      <3> QED BY <3>1
    <2>3. CASE i # Len(list)
      <3>1. new[i] = list[i + 1] /\ i + 1 \in DOMAIN list
        BY <1>1, <2>1, <2>3
      <3> QED BY <3>1
    <2> QED BY <2>2, <2>3
  <1> QED BY <1>2, <1>3, <1>4, <1>5

\* Appending to a list keeps its elements in place, the first one too.
LEMMA AppendedList ==
    ASSUME NEW S, NEW list \in Seq(S), NEW x \in S
    PROVE  /\ Append(list, x) \in Seq(S)
           /\ Append(list, x) # << >>
           /\ list # << >> => Head(Append(list, x)) = Head(list)
           /\ \A i \in DOMAIN list : /\ i \in DOMAIN Append(list, x)
                                     /\ Append(list, x)[i] = list[i]
           /\ \A i \in DOMAIN Append(list, x) :
                 \/ Append(list, x)[i] = x
                 \/ i \in DOMAIN list /\ Append(list, x)[i] = list[i]
           /\ \E i \in DOMAIN Append(list, x) : Append(list, x)[i] = x
  <1>1. /\ Append(list, x) \in Seq(S)
        /\ Len(Append(list, x)) = Len(list) + 1
        /\ Append(list, x)[Len(list) + 1] = x
        /\ \A i \in 1 .. Len(list) : Append(list, x)[i] = list[i]
        /\ Len(list) \in Nat
    OBVIOUS
  <1>2. DOMAIN list = 1 .. Len(list)
    OBVIOUS
  <1>3. DOMAIN Append(list, x) = 1 .. Len(list) + 1
    BY <1>1
  <1>4. Append(list, x) # << >>
    BY <1>1
  <1>5. list # << >> => Head(Append(list, x)) = Head(list)
    BY <1>1
  <1>6. Len(list) + 1 \in DOMAIN Append(list, x)
    BY <1>1, <1>3
  <1>7. \A i \in DOMAIN list : i \in DOMAIN Append(list, x)
    BY <1>1, <1>2, <1>3
  <1>8. \A i \in DOMAIN Append(list, x) : i \in DOMAIN list \/ i = Len(list) + 1
    BY <1>1, <1>2, <1>3
  <1> QED BY <1>1, <1>2, <1>4, <1>5, <1>6, <1>7, <1>8

\* Erasing one element of a list leaves a list of its other elements.
LEMMA WithoutList ==
    ASSUME NEW S, NEW list \in Seq(S), NEW i \in DOMAIN list
    PROVE  /\ Without(list, i) \in Seq(S)
           /\ \A k \in DOMAIN Without(list, i) :
                 \E j \in DOMAIN list : Without(list, i)[k] = list[j]
  <1> DEFINE front == SubSeq(list, 1, i - 1)
             back == SubSeq(list, i + 1, Len(list))
  <1>1. i \in 1 .. Len(list) /\ Len(list) \in Nat
    OBVIOUS
  <1>2. /\ front \in Seq(S) /\ Len(front) = i - 1
        /\ \A k \in 1 .. i - 1 : front[k] = list[k]
    BY <1>1
  <1>3. /\ back \in Seq(S) /\ Len(back) = Len(list) - i
        /\ \A k \in 1 .. Len(list) - i : back[k] = list[i + k]
    BY <1>1
  <1>4. Without(list, i) = front \o back
    BY DEF Without
  <1> HIDE DEF front, back
  <1>5. Without(list, i) \in Seq(S) /\ Len(Without(list, i)) = Len(list) - 1
    BY <1>1, <1>2, <1>3, <1>4
  <1>6. ASSUME NEW k \in DOMAIN Without(list, i)
        PROVE  \E j \in DOMAIN list : Without(list, i)[k] = list[j]
    <2>1. k \in 1 .. Len(list) - 1
      BY <1>5, <1>1
    <2>2. CASE k <= i - 1
      <3>1. Without(list, i)[k] = list[k] /\ k \in DOMAIN list
        BY <1>1, <1>2, <1>3, <1>4, <2>1, <2>2
      <3> QED BY <3>1
    <2>3. CASE k > i - 1
      <3>1. k - (i - 1) \in 1 .. Len(list) - i
        BY <1>1, <2>1, <2>3
      <3>2. Without(list, i)[k] = back[k - (i - 1)]
        BY <1>1, <1>2, <1>3, <1>4, <2>1, <2>3
      <3>3. back[k - (i - 1)] = list[i + (k - (i - 1))]
        BY <1>3, <3>1
      <3>4. i + (k - (i - 1)) \in DOMAIN list
        BY <1>1, <3>1
      <3> QED BY <3>2, <3>3, <3>4
    <2> QED BY <1>1, <2>1, <2>2, <2>3
  <1> QED BY <1>5, <1>6

-----------------------------------------------------------------------------
(* The inductive invariant *)

\* The list holds created processes only and its first one is running.
ListInv ==
    /\ process_list # << >>
    /\ \A i \in DOMAIN process_list : process_list[i] \in Created
    /\ current_process = Head(process_list)

\* Root runs the code of kernel_main and nothing else does; until it has made
\* the first program it is alone.
RootInv ==
    /\ \A p \in Pid : at[p] \in {"boot", "root"} <=> p = Root
    /\ at[Root] = "boot" => last_process_id = 1
    /\ current_process # Root => at[Root] = "root"

\* A process is in the loop of _exit exactly when it has exited; one that is
\* not created has not.
ExitInv ==
    /\ \A p \in Pid : at[p] = "zombie" <=> status[p] = "exited"
    /\ \A p \in Pid \ Created :
          status[p] = "none" /\ at[p] = "user" /\ childs[p] = << >>

\* Every process a list of children names is created.
ChildsInv ==
    \A p \in Pid : \A i \in DOMAIN childs[p] : childs[p][i] \in Created

\* An interrupt finds preemption enabled and leaves no request behind.
PreemptionInv ==
    panic = NoPanic => ~need_reschedule /\ (interrupts => preemption_enabled)

\* A process that waits for one pid waits for one of its list.
TargetInv ==
    \A p \in Pid : at[p] = "waiting" => IsChild(p, target[p].pid)

Inv ==
    /\ TypeOK
    /\ KernelAsserts
    /\ InterruptDiscipline
    /\ ListInv
    /\ RootInv
    /\ ExitInv
    /\ ChildsInv
    /\ PreemptionInv
    /\ TargetInv

-----------------------------------------------------------------------------
(* Every step preserves the invariant *)

\* What Root, the pids and the outcomes are made of.
LEMMA PidFacts == /\ Root \in Pid
                  /\ 1 \in Pid
                  /\ \A p \in Pid : p \in Nat
  BY MaxProcsAssumption DEF Pid, Root

LEMMA InitInv == Init => Inv
  <1> SUFFICES ASSUME Init PROVE Inv
    OBVIOUS
  <1> USE PidFacts DEF Init
  <1>1. TypeOK
    <2>1. process_list \in Seq(Pid)
      OBVIOUS
    <2>2. childs \in [Pid -> Seq(Pid)]
      OBVIOUS
    <2>3. at \in [Pid -> Places]
      BY DEF Places
    <2>4. target \in [Pid -> Targets]
      BY DEF NoTarget, Root, Targets
    <2>5. last_process_id \in 1 .. MaxProcs /\ timer_value \in 0 .. Quantum
      BY MaxProcsAssumption, QuantumAssumption
    <2> QED BY <2>1, <2>2, <2>3, <2>4, <2>5 DEF TypeOK
  <1>2. KernelAsserts
    BY DEF KernelAsserts, NoPanic, OrderFault, PreemptionFault
  <1>3. InterruptDiscipline
    BY DEF InterruptDiscipline, Created, Root
  <1>4. ListInv
    BY DEF ListInv, Created, Root
  <1>5. RootInv
    BY DEF RootInv
  <1>6. ExitInv
    BY DEF ExitInv, Created, Root
  <1>7. ChildsInv
    BY DEF ChildsInv
  <1>8. PreemptionInv
    BY DEF PreemptionInv
  <1>9. TargetInv
    BY DEF TargetInv
  <1> QED BY <1>1, <1>2, <1>3, <1>4, <1>5, <1>6, <1>7, <1>8, <1>9 DEF Inv

\* A context switch, by the timer or by a yield.
LEMMA SwitchStep ==
    ASSUME Inv, panic = NoPanic, Schedule(interrupts),
           need_reschedule' = FALSE, timer_value' \in 0 .. Quantum,
           UNCHANGED <<last_process_id, status, exit_code, childs, at, target,
                       reaped>>,
           at[Root] = "root"
    PROVE  Inv'
  <1> USE DEF Inv
  <1>1. /\ process_list \in Seq(Pid) /\ process_list # << >>
        /\ current_process = Head(process_list)
    BY DEF TypeOK, ListInv
  <1>2. /\ flags' = [flags EXCEPT ![current_process] = interrupts]
        /\ process_list' = Rotated
        /\ current_process' = Head(Rotated)
        /\ preemption_enabled' = TRUE
        /\ interrupts' = flags'[current_process']
        /\ panic' = panic
    BY <1>1 DEF Schedule, ExitToProcess
  <1>3. /\ process_list' \in Seq(Pid) /\ process_list' # << >>
        /\ current_process' \in Pid
        /\ \A i \in DOMAIN process_list' :
              \E j \in DOMAIN process_list : process_list'[i] = process_list[j]
    BY <1>1, <1>2, RotatedList DEF Rotated
  <1>4. /\ flags' \in [Pid -> BOOLEAN]
        /\ flags'[current_process] = interrupts
        /\ \A p \in Pid \ {current_process} : flags'[p] = flags[p]
    BY <1>2 DEF TypeOK
  <1>5. TypeOK'
    BY <1>2, <1>3, <1>4 DEF TypeOK
  <1>6. KernelAsserts'
    BY <1>2 DEF KernelAsserts
  <1>7. ListInv'
    BY <1>2, <1>3 DEF ListInv, Created
  <1>8. current_process' \in Created
    <2>1. 1 \in DOMAIN process_list' /\ Head(process_list') = process_list'[1]
      BY <1>3
    <2> QED BY <2>1, <1>7, <1>2 DEF ListInv, Created
  <1>9. InterruptDiscipline'
    <2>1. /\ interrupts <=> current_process # Root
          /\ \A p \in Created \ {Root} : flags[p]
          /\ current_process # Root => ~flags[Root]
      BY DEF InterruptDiscipline
    <2>2. \A p \in Created \ {Root} : p \in Pid
      BY MaxProcsAssumption DEF TypeOK, Created, Pid
    <2>3. \A p \in Created \ {Root} : flags'[p]
      BY <2>1, <2>2, <1>4 DEF TypeOK
    <2>4. ~flags'[Root]
      BY <2>1, <1>4, PidFacts DEF TypeOK
    <2>5. interrupts' <=> current_process' # Root
      BY <2>3, <2>4, <1>2, <1>8
    <2>6. Created' = Created
      BY DEF Created
    <2> QED BY <2>3, <2>4, <2>5, <2>6 DEF InterruptDiscipline
  <1>10. RootInv'
    BY DEF RootInv
  <1>11. ExitInv' /\ ChildsInv' /\ TargetInv'
    BY DEF ExitInv, ChildsInv, TargetInv, Created, IsChild
  <1>12. PreemptionInv'
    BY <1>2 DEF PreemptionInv
  <1> QED BY <1>5, <1>6, <1>7, <1>9, <1>10, <1>11, <1>12

LEMMA TickStep == Inv /\ Tick => Inv'
  <1> SUFFICES ASSUME Inv, Tick PROVE Inv'
    OBVIOUS
  <1> USE DEF Inv
  <1>1. /\ panic = NoPanic /\ interrupts = TRUE
        /\ ~need_reschedule /\ preemption_enabled
        /\ UNCHANGED <<last_process_id, status, exit_code, childs, at, target,
                       reaped>>
    BY DEF Tick, PreemptionInv, TypeOK
  <1>2. timer_value' \in 0 .. Quantum
    BY QuantumAssumption DEF Tick, TypeOK, Expired
  <1>3. CASE ~Expired
    <2>1. UNCHANGED <<process_list, current_process, flags, interrupts,
                      preemption_enabled, need_reschedule, panic>>
      BY <1>1, <1>3 DEF Tick
    <2>2. TypeOK'
      BY <2>1, <1>1, <1>2 DEF TypeOK
    <2>3. KernelAsserts' /\ InterruptDiscipline' /\ ListInv' /\ RootInv'
      BY <2>1, <1>1 DEF KernelAsserts, InterruptDiscipline, ListInv, RootInv,
                        Created
    <2>4. ExitInv' /\ ChildsInv' /\ PreemptionInv' /\ TargetInv'
      BY <2>1, <1>1 DEF ExitInv, ChildsInv, PreemptionInv, TargetInv, Created,
                        IsChild
    <2> QED BY <2>2, <2>3, <2>4
  <1>4. CASE Expired
    <2>1. Schedule(interrupts) /\ need_reschedule' = FALSE
      BY <1>1, <1>4 DEF Tick
    <2>2. at[Root] = "root"
      BY <1>1 DEF InterruptDiscipline, RootInv
    <2> QED BY <2>1, <2>2, <1>1, <1>2, SwitchStep
  <1> QED BY <1>3, <1>4

LEMMA YieldStep == ASSUME Inv, NEW p \in Pid, Yield(p) PROVE Inv'
  <1> USE DEF Inv
  <1>1. /\ panic = NoPanic /\ current_process = p /\ at[p] \in {"root", "zombie"}
        /\ Schedule(interrupts)
        /\ UNCHANGED <<last_process_id, status, exit_code, childs, at, target,
                       need_reschedule, timer_value, reaped>>
    BY DEF Yield, Running
  <1>2. need_reschedule' = FALSE /\ timer_value' \in 0 .. Quantum
    BY <1>1 DEF PreemptionInv, TypeOK
  <1>3. at[Root] = "root"
    BY <1>1, PidFacts DEF RootInv
  <1> QED BY <1>1, <1>2, <1>3, SwitchStep

\* What a creation does to the set of created processes.
LEMMA NewProcess ==
    ASSUME TypeOK, last_process_id < MaxProcs,
           last_process_id' = last_process_id + 1
    PROVE  /\ last_process_id \in Pid
           /\ last_process_id # Root
           /\ last_process_id \notin Created
           /\ Created' = Created \cup {last_process_id}
           /\ last_process_id' \in 1 .. MaxProcs
           /\ Created \subseteq Pid
  <1>1. last_process_id \in 1 .. MaxProcs
    BY DEF TypeOK
  <1>2. last_process_id \in Pid /\ last_process_id # Root
    BY <1>1, MaxProcsAssumption DEF Pid, Root
  <1>3. last_process_id' \in 1 .. MaxProcs
    BY <1>1, MaxProcsAssumption
  <1>4. last_process_id \notin Created /\ Created \subseteq Pid
    BY <1>1, MaxProcsAssumption DEF Created, Pid
  <1>5. Created' = Created \cup {last_process_id}
    BY <1>1, MaxProcsAssumption DEF Created
  <1> QED BY <1>2, <1>3, <1>4, <1>5

LEMMA BootStep == Inv /\ Boot => Inv'
  <1> SUFFICES ASSUME Inv, Boot PROVE Inv'
    OBVIOUS
  <1> DEFINE new == last_process_id
  <1>1. /\ panic = NoPanic /\ current_process = Root /\ at[Root] = "boot"
        /\ process_list' = Append(process_list, new)
        /\ last_process_id' = new + 1
        /\ status' = [status EXCEPT ![new] = "normal"]
        /\ flags' = [flags EXCEPT ![new] = TRUE]
        /\ at' = [at EXCEPT ![Root] = "root"]
        /\ UNCHANGED <<current_process, exit_code, childs, target, interrupts,
                       preemption_enabled, need_reschedule, timer_value,
                       reaped, panic>>
    BY DEF Boot, Running, cpu
  <1>2. /\ process_list \in Seq(Pid) /\ process_list # << >>
        /\ status \in [Pid -> {"none", "normal", "exited"}]
        /\ flags \in [Pid -> BOOLEAN] /\ at \in [Pid -> Places]
    BY DEF Inv, TypeOK, ListInv
  <1>3. new = 1
    BY <1>1 DEF Inv, RootInv
  <1>4. /\ new \in Pid /\ new # Root /\ new \notin Created
        /\ Created' = Created \cup {new}
        /\ last_process_id' \in 1 .. MaxProcs
    BY <1>1, <1>3, NewProcess, MaxProcsAssumption DEF Inv
  <1> HIDE DEF new
  <1>5. /\ process_list' \in Seq(Pid) /\ process_list' # << >>
        /\ Head(process_list') = Head(process_list)
        /\ \A i \in DOMAIN process_list' :
              \/ process_list'[i] = new
              \/ i \in DOMAIN process_list /\ process_list'[i] = process_list[i]
    BY <1>1, <1>2, <1>4, AppendedList
  <1>6. at' \in [Pid -> Places]
    BY <1>1, <1>2 DEF Places
  <1>7. TypeOK'
    BY <1>1, <1>2, <1>4, <1>5, <1>6 DEF Inv, TypeOK
  <1>8. KernelAsserts' /\ PreemptionInv'
    BY <1>1 DEF Inv, KernelAsserts, PreemptionInv
  <1>9. InterruptDiscipline'
    BY <1>1, <1>2, <1>4 DEF Inv, InterruptDiscipline
  <1>10. ListInv'
    BY <1>1, <1>4, <1>5 DEF Inv, ListInv
  <1>11. RootInv'
    BY <1>1, <1>2, PidFacts DEF Inv, RootInv
  <1>12. ExitInv'
    BY <1>1, <1>2, <1>4 DEF Inv, ExitInv
  <1>13. ChildsInv' /\ TargetInv'
    BY <1>1, <1>2, <1>4 DEF Inv, ChildsInv, TargetInv, IsChild
  <1> QED BY <1>7, <1>8, <1>9, <1>10, <1>11, <1>12, <1>13 DEF Inv

\* The running process is created, and is Root if interrupts are disabled.
LEMMA CurrentCreated ==
    ASSUME Inv, panic = NoPanic
    PROVE  /\ current_process \in Created
           /\ interrupts = (current_process # Root)
  <1>1. process_list \in Seq(Pid) /\ process_list # << >>
    BY DEF Inv, TypeOK, ListInv
  <1>2. 1 \in DOMAIN process_list /\ Head(process_list) = process_list[1]
    BY <1>1
  <1> QED BY <1>2 DEF Inv, TypeOK, ListInv, InterruptDiscipline

LEMMA ForkStep == ASSUME Inv, NEW p \in Pid, Fork(p) PROVE Inv'
  <1> DEFINE new == last_process_id
  <1>1. /\ panic = NoPanic /\ current_process = p /\ at[p] = "user"
        /\ new < MaxProcs
        /\ process_list' = Append(process_list, new)
        /\ last_process_id' = new + 1
        /\ status' = [status EXCEPT ![new] = status[p]]
        /\ exit_code' = [exit_code EXCEPT ![new] = exit_code[p]]
        /\ flags' = [flags EXCEPT ![new] = interrupts]
        /\ childs' = [childs EXCEPT ![new] = childs[p],
                                    ![p] = Append(childs[p], new)]
        /\ interrupts' = TRUE
        /\ UNCHANGED <<current_process, at, target, preemption_enabled,
                       need_reschedule, timer_value, reaped, panic>>
    BY DEF Fork, Running, CallerEflags, CopiedChilds
  <1>2. /\ process_list \in Seq(Pid) /\ process_list # << >>
        /\ status \in [Pid -> {"none", "normal", "exited"}]
        /\ exit_code \in [Pid -> Nat]
        /\ flags \in [Pid -> BOOLEAN] /\ at \in [Pid -> Places]
        /\ childs \in [Pid -> Seq(Pid)]
    BY DEF Inv, TypeOK, ListInv
  <1>3. /\ new \in Pid /\ new # Root /\ new \notin Created
        /\ Created' = Created \cup {new}
        /\ last_process_id' \in 1 .. MaxProcs
    BY <1>1, NewProcess DEF Inv
  <1> HIDE DEF new
  <1>4. p # Root /\ p \in Created /\ p # new /\ interrupts = TRUE
    <2>1. p # Root
      BY <1>1 DEF Inv, RootInv
    <2> QED BY <2>1, <1>1, <1>3, CurrentCreated
  <1>5. /\ process_list' \in Seq(Pid) /\ process_list' # << >>
        /\ Head(process_list') = Head(process_list)
        /\ \A i \in DOMAIN process_list' :
              \/ process_list'[i] = new
              \/ i \in DOMAIN process_list /\ process_list'[i] = process_list[i]
    <2>1. process_list' = Append(process_list, new)
      BY <1>1
    <2>2. process_list \in Seq(Pid) /\ process_list # << >> /\ new \in Pid
      BY <1>2, <1>3
    <2> QED BY <2>1, <2>2, AppendedList
  <1>6. /\ childs'[p] = Append(childs[p], new) /\ childs'[new] = childs[p]
        /\ \A q \in Pid \ {p, new} : childs'[q] = childs[q]
    BY <1>1, <1>2, <1>3, <1>4
  <1>7. /\ childs'[p] \in Seq(Pid)
        /\ \A i \in DOMAIN childs[p] : /\ i \in DOMAIN childs'[p]
                                       /\ childs'[p][i] = childs[p][i]
        /\ \A i \in DOMAIN childs'[p] :
              \/ childs'[p][i] = new
              \/ i \in DOMAIN childs[p] /\ childs'[p][i] = childs[p][i]
    <2>1. childs'[p] = Append(childs[p], new)
      BY <1>6
    <2>2. childs[p] \in Seq(Pid) /\ new \in Pid
      BY <1>2, <1>3
    <2> QED BY <2>1, <2>2, AppendedList
  <1>8. childs' \in [Pid -> Seq(Pid)]
    BY <1>1, <1>2, <1>6, <1>7
  <1>9. TypeOK'
    <2>1. status' \in [Pid -> {"none", "normal", "exited"}]
      BY <1>1, <1>2
    <2>2. exit_code' \in [Pid -> Nat] /\ flags' \in [Pid -> BOOLEAN]
      BY <1>1, <1>2, <1>4
    <2> QED BY <2>1, <2>2, <1>1, <1>3, <1>5, <1>8 DEF Inv, TypeOK
  <1>10. KernelAsserts' /\ PreemptionInv'
    BY <1>1, <1>4 DEF Inv, KernelAsserts, PreemptionInv
  <1>11. InterruptDiscipline'
    <2>1. flags'[new] = TRUE /\ \A q \in Pid \ {new} : flags'[q] = flags[q]
      BY <1>1, <1>2, <1>3, <1>4
    <2>2. /\ \A q \in Created \ {Root} : flags[q]
          /\ ~flags[Root]
      BY <1>1, <1>4 DEF Inv, InterruptDiscipline
    <2>3. Created \subseteq Pid
      BY <1>1, NewProcess DEF Inv, new
    <2>4. \A q \in Created' \ {Root} : flags'[q]
      BY <2>1, <2>2, <2>3, <1>3
    <2>5. ~flags'[Root]
      BY <2>1, <2>2, <1>3, PidFacts
    <2> QED BY <2>4, <2>5, <1>1, <1>4 DEF InterruptDiscipline
  <1>12. ListInv'
    BY <1>1, <1>3, <1>5 DEF Inv, ListInv
  <1>13. RootInv'
    BY <1>1, <1>4 DEF Inv, RootInv
  <1>14. ExitInv'
    BY <1>1, <1>2, <1>3, <1>4, <1>6 DEF Inv, ExitInv
  <1>15. ChildsInv'
    BY <1>3, <1>4, <1>6, <1>7 DEF Inv, ChildsInv
  <1>16. TargetInv'
    <2> SUFFICES ASSUME NEW q \in Pid, at[q] = "waiting"
                 PROVE  IsChild(q, target[q].pid)'
      BY <1>1 DEF TargetInv
    <2>1. q # p /\ q # new
      BY <1>1, <1>3 DEF Inv, ExitInv
    <2>2. childs'[q] = childs[q] /\ target' = target
      BY <2>1, <1>1, <1>6
    <2>3. IsChild(q, target[q].pid)
      BY DEF Inv, TargetInv
    <2> QED BY <2>2, <2>3 DEF IsChild
  <1> QED BY <1>9, <1>10, <1>11, <1>12, <1>13, <1>14, <1>15, <1>16 DEF Inv

LEMMA ExecStep == ASSUME Inv, NEW p \in Pid, Exec(p) PROVE Inv'
  <1>1. /\ panic = NoPanic /\ current_process = p /\ at[p] = "user"
        /\ UNCHANGED <<process_list, last_process_id, current_process, status,
                       exit_code, flags, childs, at, target, need_reschedule,
                       timer_value, reaped>>
    BY DEF Exec, Running
  <1>2. \/ interrupts' = flags[p] /\ preemption_enabled' = TRUE /\ panic' = panic
        \/ /\ panic' = CannotOpen /\ interrupts' = FALSE
           /\ preemption_enabled' = preemption_enabled
    BY DEF Exec, ExitToProcess, Panic
  <1>3. p # Root /\ p \in Created /\ interrupts = TRUE
    <2>1. p # Root
      BY <1>1 DEF Inv, RootInv
    <2> QED BY <2>1, <1>1, CurrentCreated
  <1>4. flags[p] = TRUE
    BY <1>1, <1>3 DEF Inv, InterruptDiscipline, TypeOK
  <1>5. Created' = Created
    BY <1>1 DEF Created
  <1>6. TypeOK'
    BY <1>1, <1>2, <1>4 DEF Inv, TypeOK
  <1>7. KernelAsserts' /\ PreemptionInv'
    BY <1>1, <1>2 DEF Inv, KernelAsserts, PreemptionInv, CannotOpen, NoPanic,
                      OrderFault, PreemptionFault
  <1>8. InterruptDiscipline'
    BY <1>1, <1>2, <1>3, <1>4, <1>5
       DEF Inv, InterruptDiscipline, CannotOpen, NoPanic
  <1>9. ListInv' /\ RootInv'
    BY <1>1, <1>5 DEF Inv, ListInv, RootInv
  <1>10. ExitInv' /\ ChildsInv' /\ TargetInv'
    BY <1>1, <1>5 DEF Inv, ExitInv, ChildsInv, TargetInv, IsChild
  <1> QED BY <1>6, <1>7, <1>8, <1>9, <1>10 DEF Inv

\* A step of exit or waitpid changes the fields of the running process only,
\* and its list of children only by erasing.
LEMMA LocalStep ==
    ASSUME Inv, NEW p \in Pid, panic = NoPanic, current_process = p,
           at[p] \in {"user", "waiting", "scanning", "exiting"},
           UNCHANGED <<process_list, last_process_id, current_process, flags,
                       interrupts, preemption_enabled, need_reschedule>>,
           TypeOK',
           panic' \in {NoPanic, NoSuchChild},
           \A q \in Pid \ {p} : /\ at'[q] = at[q] /\ status'[q] = status[q]
                                /\ childs'[q] = childs[q]
                                /\ target'[q] = target[q],
           at'[p] \notin {"boot", "root"},
           at'[p] = "zombie" <=> status'[p] = "exited",
           \A i \in DOMAIN childs'[p] :
               \E j \in DOMAIN childs[p] : childs'[p][i] = childs[p][j],
           at'[p] = "waiting" => IsChild(p, target[p].pid)'
    PROVE  Inv'
  <1>1. p # Root /\ p \in Created /\ interrupts = TRUE
    <2>1. p # Root
      BY DEF Inv, RootInv
    <2> QED BY <2>1, CurrentCreated
  <1>2. Created' = Created
    BY DEF Created
  <1>3. KernelAsserts' /\ PreemptionInv'
    BY DEF Inv, KernelAsserts, PreemptionInv, NoPanic, NoSuchChild, OrderFault,
           PreemptionFault
  <1>4. InterruptDiscipline'
    BY <1>2 DEF Inv, InterruptDiscipline
  <1>5. ListInv'
    BY <1>2 DEF Inv, ListInv
  <1>6. RootInv'
    BY <1>1, PidFacts DEF Inv, RootInv
  <1>7. ExitInv'
    BY <1>1, <1>2 DEF Inv, ExitInv
  <1>8. ChildsInv'
    BY <1>2 DEF Inv, ChildsInv
  <1>9. TargetInv'
    <2> SUFFICES ASSUME NEW q \in Pid, at'[q] = "waiting"
                 PROVE  IsChild(q, target[q].pid)'
      BY DEF TargetInv
    <2>1. CASE q = p
      BY <2>1
    <2>2. CASE q # p
      <3>1. IsChild(q, target[q].pid)
        BY <2>2 DEF Inv, TargetInv
      <3> QED BY <3>1, <2>2 DEF IsChild
    <2> QED BY <2>1, <2>2
  <1> QED BY <1>3, <1>4, <1>5, <1>6, <1>7, <1>8, <1>9 DEF Inv

\* The parts of TypeOK the steps of exit and waitpid can disturb.
LEMMA LocalTypes ==
    ASSUME Inv
    PROVE  /\ status \in [Pid -> {"none", "normal", "exited"}]
           /\ exit_code \in [Pid -> Nat]
           /\ childs \in [Pid -> Seq(Pid)]
           /\ at \in [Pid -> Places]
           /\ target \in [Pid -> Targets]
           /\ reaped \in SUBSET Answers
  BY DEF Inv, TypeOK

\* Assignments to the locals of waitpid.
LEMMA TargetFields ==
    ASSUME NEW t \in Targets, NEW n \in Nat \ {0}, NEW b \in BOOLEAN
    PROVE  /\ [t EXCEPT !.next = n] \in Targets
           /\ [t EXCEPT !.next = n, !.nohang = b] \in Targets
  BY DEF Targets

LEMMA NoTargetTyped == NoTarget \in Targets
  BY PidFacts DEF Targets, NoTarget, Root

LEMMA AssignTarget ==
    ASSUME Inv, NEW p \in Pid, NEW t \in Targets, target' = [target EXCEPT ![p] = t]
    PROVE  /\ target' \in [Pid -> Targets]
           /\ target'[p] = t
           /\ \A q \in Pid \ {p} : target'[q] = target[q]
  BY LocalTypes

LEMMA ExitCodeStep ==
    ASSUME Inv, NEW p \in Pid, NEW code \in ExitCodes, ExitStoreCode(p, code)
    PROVE  Inv'
  <1>1. /\ panic = NoPanic /\ current_process = p /\ at[p] = "user"
        /\ exit_code' = [exit_code EXCEPT ![p] = code]
        /\ at' = [at EXCEPT ![p] = "exiting"]
        /\ UNCHANGED <<process_list, last_process_id, current_process, status,
                       flags, childs, target, interrupts, preemption_enabled,
                       need_reschedule, timer_value, reaped, panic>>
    BY DEF ExitStoreCode, Running, cpu
  <1>2. at' \in [Pid -> Places] /\ at'[p] = "exiting"
    BY <1>1, LocalTypes DEF Places
  <1>3. exit_code' \in [Pid -> Nat]
    BY <1>1, LocalTypes, ExitCodesAssumption
  <1>4. TypeOK'
    BY <1>1, <1>2, <1>3 DEF Inv, TypeOK
  <1>5. status[p] # "exited"
    BY <1>1 DEF Inv, ExitInv
  <1> QED BY <1>1, <1>2, <1>4, <1>5, LocalStep, LocalTypes

LEMMA ExitStatusStep == ASSUME Inv, NEW p \in Pid, ExitStoreStatus(p) PROVE Inv'
  <1>1. /\ panic = NoPanic /\ current_process = p /\ at[p] = "exiting"
        /\ status' = [status EXCEPT ![p] = "exited"]
        /\ at' = [at EXCEPT ![p] = "zombie"]
        /\ UNCHANGED <<process_list, last_process_id, current_process,
                       exit_code, flags, childs, target, interrupts,
                       preemption_enabled, need_reschedule, timer_value,
                       reaped, panic>>
    BY DEF ExitStoreStatus, Running, cpu
  <1>2. at' \in [Pid -> Places] /\ at'[p] = "zombie"
    BY <1>1, LocalTypes DEF Places
  <1>3. /\ status' \in [Pid -> {"none", "normal", "exited"}]
        /\ status'[p] = "exited"
    BY <1>1, LocalTypes
  <1>4. TypeOK'
    BY <1>1, <1>2, <1>3 DEF Inv, TypeOK
  <1> QED BY <1>1, <1>2, <1>3, <1>4, LocalStep, LocalTypes

\* Reap(p, i), the end of both forms of waitpid.
LEMMA ReapStep ==
    ASSUME Inv, NEW p \in Pid, panic = NoPanic, current_process = p,
           at[p] \in {"waiting", "scanning"},
           NEW i \in DOMAIN childs[p], NEW looked \in BOOLEAN,
           Reap(p, i, looked), UNCHANGED panic, Waits
    PROVE  Inv'
  <1> DEFINE c == childs[p][i]
             answer == [by |-> p, pid |-> c, wstatus |-> Wstatus(exit_code[c]),
                        looked |-> looked]
  <1>1. /\ reaped' = reaped \cup {answer}
        /\ childs' = [childs EXCEPT ![p] = Without(childs[p], i)]
        /\ at' = [at EXCEPT ![p] = "user"]
        /\ target' = [target EXCEPT ![p] = NoTarget]
        /\ UNCHANGED <<process_list, last_process_id, current_process, status,
                       exit_code, flags, interrupts, preemption_enabled,
                       need_reschedule, timer_value, panic>>
    BY DEF Reap, Answer, Waits, cpu
  <1>2. childs[p] \in Seq(Pid) /\ c \in Pid
    BY LocalTypes
  <1>3. answer \in Answers
    <2>1. exit_code[c] \in Nat
      BY <1>2, LocalTypes
    <2>2. Wstatus(exit_code[c]) \in Nat
      BY <2>1 DEF Wstatus
    <2> QED BY <2>2, <1>2 DEF Answers
  <1>4. /\ Without(childs[p], i) \in Seq(Pid)
        /\ \A k \in DOMAIN Without(childs[p], i) :
              \E j \in DOMAIN childs[p] : Without(childs[p], i)[k] = childs[p][j]
    BY <1>2, WithoutList
  <1>5. childs' \in [Pid -> Seq(Pid)] /\ childs'[p] = Without(childs[p], i)
    BY <1>1, <1>4, LocalTypes
  <1>6. at' \in [Pid -> Places] /\ at'[p] = "user"
    BY <1>1, LocalTypes DEF Places
  <1>7. target' \in [Pid -> Targets]
    BY <1>1, AssignTarget, NoTargetTyped
  <1>8. TypeOK'
    <2>1. reaped' \in SUBSET Answers
      BY <1>1, <1>3, LocalTypes
    <2> HIDE DEF answer
    <2> QED BY <2>1, <1>1, <1>5, <1>6, <1>7 DEF Inv, TypeOK
  <1>9. status[p] # "exited"
    BY DEF Inv, ExitInv
  <1> QED BY <1>1, <1>4, <1>5, <1>6, <1>8, <1>9, LocalStep, LocalTypes

LEMMA WaitPidStep ==
    ASSUME Inv, NEW p \in Pid, NEW c \in Pid, NEW nohang \in BOOLEAN,
           WaitPid(p, c, nohang)
    PROVE  Inv'
  <1>1. /\ panic = NoPanic /\ current_process = p /\ at[p] = "user"
        /\ UNCHANGED <<process_list, last_process_id, current_process, status,
                       exit_code, flags, childs, interrupts,
                       preemption_enabled, need_reschedule, timer_value>>
    BY DEF WaitPid, Running, Waits, cpu
  <1>2. status[p] # "exited"
    BY <1>1 DEF Inv, ExitInv
  <1>3. CASE IsChild(p, c) /\ ~nohang
    <2>1. /\ at' = [at EXCEPT ![p] = "waiting"]
          /\ target' = [target EXCEPT ![p].pid = c]
          /\ reaped' = reaped /\ panic' = panic
      BY <1>3 DEF WaitPid
    <2>2. at' \in [Pid -> Places] /\ at'[p] = "waiting"
      BY <2>1, LocalTypes DEF Places
    <2>3. /\ target' \in [Pid -> Targets]
          /\ target'[p].pid = c
          /\ \A q \in Pid \ {p} : target'[q] = target[q]
      <3>1. target' = [target EXCEPT ![p] = [target[p] EXCEPT !.pid = c]]
        BY <2>1
      <3>2. target[p] \in Targets
        BY LocalTypes
      <3>3. /\ [target[p] EXCEPT !.pid = c] \in Targets
            /\ [target[p] EXCEPT !.pid = c].pid = c
        BY <3>2 DEF Targets
      <3> QED BY <3>1, <3>3, AssignTarget
    <2>4. TypeOK'
      BY <1>1, <2>1, <2>2, <2>3 DEF Inv, TypeOK
    <2>5. IsChild(p, target[p].pid)'
      BY <1>1, <1>3, <2>3 DEF IsChild
    <2> QED BY <1>1, <1>2, <2>1, <2>2, <2>3, <2>4, <2>5, LocalStep, LocalTypes
  <1>4. CASE ~(IsChild(p, c) /\ ~nohang)
    <2>1. at' = at /\ target' = target
      BY <1>4 DEF WaitPid
    <2>2. /\ reaped' \in {reaped,
                          reaped \cup {[by |-> p, pid |-> c,
                                        wstatus |-> NoStatus, looked |-> TRUE]}}
          /\ panic' \in {panic, NoSuchChild}
      BY <1>4 DEF WaitPid, Answer, Panic
    <2>3. [by |-> p, pid |-> c, wstatus |-> NoStatus, looked |-> TRUE] \in Answers
      BY DEF Answers, NoStatus
    <2>4. reaped' \in SUBSET Answers
      BY <2>2, <2>3, LocalTypes
    <2>5. TypeOK'
      BY <1>1, <2>1, <2>2, <2>4 DEF Inv, TypeOK
    <2> QED BY <1>1, <1>2, <2>1, <2>2, <2>5, LocalStep, LocalTypes
  <1> QED BY <1>3, <1>4

LEMMA WaitEndsStep == ASSUME Inv, NEW p \in Pid, WaitEnds(p) PROVE Inv'
  <1>1. PICK looked \in BOOLEAN :
           /\ panic = NoPanic /\ current_process = p /\ at[p] = "waiting"
           /\ Reap(p, IndexOf(p, target[p].pid), looked)
           /\ UNCHANGED panic /\ Waits
    BY DEF WaitEnds, Running
  <1>2. IsChild(p, target[p].pid)
    BY <1>1 DEF Inv, TargetInv
  <1>3. IndexOf(p, target[p].pid) \in DOMAIN childs[p]
    BY <1>2 DEF IsChild, IndexOf
  <1> QED BY <1>1, <1>3, ReapStep

LEMMA WaitAnyStep ==
    ASSUME Inv, NEW p \in Pid, NEW nohang \in BOOLEAN, WaitAny(p, nohang)
    PROVE  Inv'
  <1>1. /\ panic = NoPanic /\ current_process = p /\ at[p] = "user"
        /\ at' = [at EXCEPT ![p] = "scanning"]
        /\ target' = [target EXCEPT ![p].next = FirstChild, ![p].nohang = nohang]
        /\ UNCHANGED <<process_list, last_process_id, current_process, status,
                       exit_code, flags, childs, interrupts,
                       preemption_enabled, need_reschedule, timer_value,
                       reaped, panic>>
    BY DEF WaitAny, Running, Waits, cpu
  <1>2. at' \in [Pid -> Places] /\ at'[p] = "scanning"
    BY <1>1, LocalTypes DEF Places
  <1>3. /\ target' \in [Pid -> Targets]
        /\ \A q \in Pid \ {p} : target'[q] = target[q]
    <2>1. target' = [target EXCEPT ![p] =
                        [target[p] EXCEPT !.next = FirstChild, !.nohang = nohang]]
      BY <1>1
    <2>2. target[p] \in Targets /\ FirstChild \in Nat \ {0}
      BY LocalTypes DEF FirstChild
    <2>3. [target[p] EXCEPT !.next = FirstChild, !.nohang = nohang] \in Targets
      BY <2>2, TargetFields
    <2> QED BY <2>1, <2>3, AssignTarget
  <1>4. TypeOK'
    BY <1>1, <1>2, <1>3 DEF Inv, TypeOK
  <1>5. status[p] # "exited"
    BY <1>1 DEF Inv, ExitInv
  <1> QED BY <1>1, <1>2, <1>3, <1>4, <1>5, LocalStep, LocalTypes

\* The steps of a scan that do not reap.
LEMMA ScanOnStep ==
    ASSUME Inv, NEW p \in Pid, panic = NoPanic, current_process = p,
           at[p] = "scanning",
           NEW place \in {"scanning", "user"}, at' = [at EXCEPT ![p] = place],
           target' \in [Pid -> Targets],
           \A q \in Pid \ {p} : target'[q] = target[q],
           UNCHANGED <<childs, reaped, panic>>, Waits
    PROVE  Inv'
  <1>1. UNCHANGED <<process_list, last_process_id, current_process, status,
                    exit_code, flags, interrupts, preemption_enabled,
                    need_reschedule, timer_value>>
    BY DEF Waits, cpu
  <1>2. at' \in [Pid -> Places] /\ at'[p] = place
    BY LocalTypes DEF Places
  <1>3. TypeOK'
    BY <1>1, <1>2 DEF Inv, TypeOK
  <1>4. status[p] # "exited"
    BY DEF Inv, ExitInv
  <1> QED BY <1>1, <1>2, <1>3, <1>4, LocalStep, LocalTypes

LEMMA ScanChildStep == ASSUME Inv, NEW p \in Pid, ScanChild(p) PROVE Inv'
  <1> DEFINE i == target[p].next
  <1>1. /\ panic = NoPanic /\ current_process = p /\ at[p] = "scanning"
        /\ i \in DOMAIN childs[p] /\ UNCHANGED panic /\ Waits
    BY DEF ScanChild, Running
  <1>2. CASE HasExited(childs[p][i])
    <2>1. Reap(p, i, TRUE)
      BY <1>2 DEF ScanChild
    <2> QED BY <2>1, <1>1, ReapStep
  <1>3. CASE ~HasExited(childs[p][i])
    <2>1. /\ target' = [target EXCEPT ![p].next = i + 1]
          /\ UNCHANGED <<childs, reaped, at>>
      BY <1>3 DEF ScanChild
    <2>2. /\ target' \in [Pid -> Targets]
          /\ \A q \in Pid \ {p} : target'[q] = target[q]
      <3>1. target' = [target EXCEPT ![p] = [target[p] EXCEPT !.next = i + 1]]
        BY <2>1
      <3>2. target[p] \in Targets
        BY LocalTypes
      <3>3. i + 1 \in Nat \ {0}
        BY <3>2 DEF Targets
      <3>4. [target[p] EXCEPT !.next = i + 1] \in Targets
        BY <3>2, <3>3, TargetFields
      <3> QED BY <3>1, <3>4, AssignTarget
    <2>3. at' = [at EXCEPT ![p] = "scanning"]
      BY <1>1, <2>1, LocalTypes
    <2> QED BY <1>1, <2>1, <2>2, <2>3, ScanOnStep
  <1> QED BY <1>2, <1>3

LEMMA ScanEndsStep == ASSUME Inv, NEW p \in Pid, ScanEnds(p) PROVE Inv'
  <1>1. /\ panic = NoPanic /\ current_process = p /\ at[p] = "scanning"
        /\ UNCHANGED <<childs, reaped, panic>> /\ Waits
    BY DEF ScanEnds, Running
  <1>2. CASE /\ at' = [at EXCEPT ![p] = "user"]
             /\ target' = [target EXCEPT ![p] = NoTarget]
    <2>1. /\ target' \in [Pid -> Targets]
          /\ \A q \in Pid \ {p} : target'[q] = target[q]
      BY <1>2, AssignTarget, NoTargetTyped
    <2> QED BY <1>1, <1>2, <2>1, ScanOnStep
  <1>3. CASE target' = [target EXCEPT ![p].next = FirstChild] /\ UNCHANGED at
    <2>1. /\ target' \in [Pid -> Targets]
          /\ \A q \in Pid \ {p} : target'[q] = target[q]
      <3>1. target' = [target EXCEPT ![p] = [target[p] EXCEPT !.next = FirstChild]]
        BY <1>3
      <3>2. target[p] \in Targets /\ FirstChild \in Nat \ {0}
        BY LocalTypes DEF FirstChild
      <3>3. [target[p] EXCEPT !.next = FirstChild] \in Targets
        BY <3>2, TargetFields
      <3> QED BY <3>1, <3>3, AssignTarget
    <2>2. at' = [at EXCEPT ![p] = "scanning"]
      BY <1>1, <1>3, LocalTypes
    <2> QED BY <1>1, <2>1, <2>2, ScanOnStep
  <1> QED BY <1>2, <1>3 DEF ScanEnds

LEMMA StutterStep == Inv /\ UNCHANGED vars => Inv'
  <1> SUFFICES ASSUME Inv, UNCHANGED vars PROVE Inv'
    OBVIOUS
  <1> USE DEF Inv, vars, cpu
  <1>1. TypeOK' /\ KernelAsserts' /\ InterruptDiscipline'
    BY DEF TypeOK, KernelAsserts, InterruptDiscipline, Created
  <1>2. ListInv' /\ RootInv' /\ ExitInv' /\ ChildsInv'
    BY DEF ListInv, RootInv, ExitInv, ChildsInv, Created
  <1>3. PreemptionInv' /\ TargetInv'
    BY DEF PreemptionInv, TargetInv, IsChild
  <1> QED BY <1>1, <1>2, <1>3

LEMMA NextInv == Inv /\ [Next]_vars => Inv'
  <1> SUFFICES ASSUME Inv, [Next]_vars PROVE Inv'
    OBVIOUS
  <1>1. CASE Boot
    BY <1>1, BootStep
  <1>2. CASE Tick
    BY <1>2, TickStep
  <1>3. ASSUME NEW p \in Pid, Request(p) PROVE Inv'
    <2>1. CASE Fork(p)
      BY <2>1, ForkStep
    <2>2. CASE Exec(p)
      BY <2>2, ExecStep
    <2>3. CASE \E code \in ExitCodes : ExitStoreCode(p, code)
      BY <2>3, ExitCodeStep
    <2>4. CASE \E c \in Pid, nohang \in BOOLEAN : WaitPid(p, c, nohang)
      BY <2>4, WaitPidStep
    <2>5. CASE \E nohang \in BOOLEAN : WaitAny(p, nohang)
      BY <2>5, WaitAnyStep
    <2> QED BY <1>3, <2>1, <2>2, <2>3, <2>4, <2>5 DEF Request
  <1>4. ASSUME NEW p \in Pid, Proceed(p) PROVE Inv'
    <2>1. CASE Yield(p)
      BY <2>1, YieldStep
    <2>2. CASE ExitStoreStatus(p)
      BY <2>2, ExitStatusStep
    <2>3. CASE WaitEnds(p)
      BY <2>3, WaitEndsStep
    <2>4. CASE ScanChild(p)
      BY <2>4, ScanChildStep
    <2>5. CASE ScanEnds(p)
      BY <2>5, ScanEndsStep
    <2> QED BY <1>4, <2>1, <2>2, <2>3, <2>4, <2>5 DEF Proceed
  <1>5. CASE UNCHANGED vars
    BY <1>5, StutterStep
  <1>6. CASE Halted
    BY <1>6, StutterStep DEF Halted
  <1> QED BY <1>1, <1>2, <1>3, <1>4, <1>5, <1>6 DEF Next

-----------------------------------------------------------------------------
(* Theorems *)

\* The inductive invariant holds in every reachable state.
THEOREM InvHolds == Spec => []Inv
  <1>1. Init => Inv
    BY InitInv
  <1>2. Inv /\ [Next]_vars => Inv'
    BY NextInv
  <1> QED BY <1>1, <1>2, PTL DEF Spec

\* The variables of the kernel keep their types.
THEOREM TypeCorrect == Spec => []TypeOK
  <1>1. Inv => TypeOK
    BY DEF Inv
  <1> QED BY <1>1, InvHolds, PTL

\* Neither assertion of the scheduler is ever reached: process.cpp 168 and
\* interrupts.cpp 43.
THEOREM AssertionsHold == Spec => []KernelAsserts
  <1>1. Inv => KernelAsserts
    BY DEF Inv
  <1> QED BY <1>1, InvHolds, PTL

\* No process other than Root ever runs, or is ever resumed, with interrupts
\* disabled.
THEOREM InterruptsDisciplined == Spec => []InterruptDiscipline
  <1>1. Inv => InterruptDiscipline
    BY DEF Inv
  <1> QED BY <1>1, InvHolds, PTL

-----------------------------------------------------------------------------
(* The scheduler implements the round robin *)

LEMMA TurnStep ==
    ASSUME Inv, Schedule(interrupts)
    PROVE  RR!EndTurn
  BY DEF Inv, ListInv, Schedule, Rotated, RR!EndTurn

LEMMA AdmitStep ==
    ASSUME Inv, last_process_id < MaxProcs,
           process_list' = Append(process_list, last_process_id),
           last_process_id' = last_process_id + 1,
           UNCHANGED current_process
    PROVE  RR!Next
  <1>1. last_process_id \in Pid /\ last_process_id \notin Created
    BY NewProcess DEF Inv
  <1>2. last_process_id \notin RR!Queued
    BY <1>1 DEF Inv, ListInv, RR!Queued
  <1> QED BY <1>1, <1>2 DEF RR!Next, RR!Admit

LEMMA NextTurn == Inv /\ [Next]_vars => [RR!Next]_<<process_list, current_process>>
  <1> SUFFICES ASSUME Inv, [Next]_vars
               PROVE  \/ RR!Next
                      \/ UNCHANGED <<process_list, current_process>>
    OBVIOUS
  <1>1. CASE Boot
    <2>1. last_process_id = 1
      BY <1>1 DEF Boot, Running, Inv, RootInv
    <2> QED BY <1>1, <2>1, AdmitStep, MaxProcsAssumption DEF Boot
  <1>2. CASE Tick
    <2>1. CASE Schedule(interrupts)
      BY <2>1, TurnStep DEF RR!Next
    <2>2. CASE ~Schedule(interrupts)
      <3>1. interrupts = TRUE
        BY <1>2 DEF Tick, Inv, TypeOK
      <3> QED BY <1>2, <2>2, <3>1 DEF Tick
    <2> QED BY <2>1, <2>2
  <1>3. ASSUME NEW p \in Pid, Fork(p)
        PROVE  RR!Next
    BY <1>3, AdmitStep DEF Fork
  <1>4. ASSUME NEW p \in Pid, Yield(p)
        PROVE  RR!Next
    BY <1>4, TurnStep DEF Yield, RR!Next
  <1>5. ASSUME NEW p \in Pid, Request(p), ~Fork(p)
        PROVE  UNCHANGED <<process_list, current_process>>
    BY <1>5 DEF Request, Exec, ExitStoreCode, WaitPid, WaitAny, Waits
  <1>6. ASSUME NEW p \in Pid, Proceed(p), ~Yield(p)
        PROVE  UNCHANGED <<process_list, current_process>>
    BY <1>6 DEF Proceed, ExitStoreStatus, WaitEnds, ScanChild, ScanEnds, Waits
  <1>7. CASE UNCHANGED vars \/ Halted
    BY <1>7 DEF vars, Halted
  <1> QED BY <1>1, <1>2, <1>3, <1>4, <1>5, <1>6, <1>7 DEF Next

\* Every behaviour of the scheduler, with preemption by the timer, the yields of
\* Root and of exited processes, creations and panics, is one of RoundRobin.
THEOREM SchedulerTakesTurns == Spec => TakesTurns
  <1>1. Init => RR!Init
    BY PidFacts DEF Init, RR!Init
  <1>2. Inv /\ [Next]_vars => [RR!Next]_<<process_list, current_process>>
    BY NextTurn
  <1> QED BY <1>1, <1>2, InvHolds, PTL DEF Spec, TakesTurns, RR!Spec

-----------------------------------------------------------------------------
(* Exit is final *)

FinalStep ==
    \A p \in Pid : status[p] = "exited" =>
        /\ status'[p] = "exited"
        /\ exit_code'[p] = exit_code[p]
        /\ at'[p] = "zombie"

LEMMA NextFinal == Inv /\ [Next]_vars => FinalStep
  <1> SUFFICES ASSUME Inv, [Next]_vars, NEW q \in Pid, status[q] = "exited"
               PROVE  /\ status'[q] = "exited"
                      /\ exit_code'[q] = exit_code[q]
                      /\ at'[q] = "zombie"
    BY DEF FinalStep
  <1>1. at[q] = "zombie" /\ q \in Created
    BY DEF Inv, ExitInv
  <1>2. /\ status \in [Pid -> {"none", "normal", "exited"}]
        /\ exit_code \in [Pid -> Nat] /\ at \in [Pid -> Places]
    BY LocalTypes
  <1>3. CASE Boot
    <2>1. last_process_id = 1
      BY <1>3 DEF Boot, Running, Inv, RootInv
    <2>2. q # last_process_id /\ q # Root
      BY <2>1, <1>1, <1>3 DEF Created, Root, Boot, Running
    <2> QED BY <1>1, <1>2, <1>3, <2>2 DEF Boot
  <1>4. CASE Tick
    BY <1>1, <1>4 DEF Tick
  <1>5. ASSUME NEW p \in Pid, Request(p)
        PROVE  /\ status'[q] = "exited" /\ exit_code'[q] = exit_code[q]
               /\ at'[q] = "zombie"
    <2>1. at[p] = "user"
      BY <1>5 DEF Request, Fork, Exec, ExitStoreCode, WaitPid, WaitAny, Running
    <2>2. p # q
      BY <2>1, <1>1
    <2>3. CASE Fork(p)
      <3>1. last_process_id \notin Created
        BY <2>3, NewProcess DEF Fork, Inv
      <3> QED BY <1>1, <1>2, <2>3, <3>1 DEF Fork
    <2>4. CASE Exec(p)
      BY <1>1, <2>4 DEF Exec
    <2>5. ASSUME NEW code \in ExitCodes, ExitStoreCode(p, code)
          PROVE  /\ status'[q] = "exited" /\ exit_code'[q] = exit_code[q]
                 /\ at'[q] = "zombie"
      BY <1>1, <1>2, <2>2, <2>5 DEF ExitStoreCode
    <2>6. ASSUME NEW c \in Pid, NEW nohang \in BOOLEAN, WaitPid(p, c, nohang)
          PROVE  /\ status'[q] = "exited" /\ exit_code'[q] = exit_code[q]
                 /\ at'[q] = "zombie"
      <3>1. status' = status /\ exit_code' = exit_code
        BY <2>6 DEF WaitPid, Waits
      <3>2. at' \in {at, [at EXCEPT ![p] = "waiting"]}
        BY <2>6 DEF WaitPid
      <3> QED BY <3>1, <3>2, <1>1, <1>2, <2>2
    <2>7. ASSUME NEW nohang \in BOOLEAN, WaitAny(p, nohang)
          PROVE  /\ status'[q] = "exited" /\ exit_code'[q] = exit_code[q]
                 /\ at'[q] = "zombie"
      BY <1>1, <1>2, <2>2, <2>7 DEF WaitAny, Waits
    <2> QED BY <1>5, <2>3, <2>4, <2>5, <2>6, <2>7 DEF Request
  <1>6. ASSUME NEW p \in Pid, Proceed(p)
        PROVE  /\ status'[q] = "exited" /\ exit_code'[q] = exit_code[q]
               /\ at'[q] = "zombie"
    <2>1. CASE Yield(p)
      BY <1>1, <2>1 DEF Yield
    <2>2. CASE ExitStoreStatus(p)
      BY <1>1, <1>2, <2>2 DEF ExitStoreStatus, Running
    <2>3. CASE WaitEnds(p)
      BY <1>1, <1>2, <2>3 DEF WaitEnds, Running, Reap, Waits
    <2>4. CASE ScanChild(p) \/ ScanEnds(p)
      <3>1. /\ at[p] = "scanning" /\ status' = status /\ exit_code' = exit_code
            /\ at' \in {at, [at EXCEPT ![p] = "user"]}
        BY <2>4 DEF ScanChild, ScanEnds, Running, Reap, Waits
      <3> QED BY <3>1, <1>1, <1>2
    <2> QED BY <1>6, <2>1, <2>2, <2>3, <2>4 DEF Proceed
  <1>7. CASE UNCHANGED vars \/ Halted
    BY <1>1, <1>7 DEF vars, Halted
  <1> QED BY <1>3, <1>4, <1>5, <1>6, <1>7 DEF Next

\* A process that has exited keeps its status, its code and its place in the
\* loop of _exit.
THEOREM ExitStaysFinal == Spec => ExitIsFinal
  <1>1. Inv /\ [Next]_vars => FinalStep
    BY NextFinal
  <1>2. ExitIsFinal <=> [][FinalStep]_vars
    BY PTL DEF ExitIsFinal, FinalStep
  <1> QED BY <1>1, <1>2, InvHolds, PTL DEF Spec

-----------------------------------------------------------------------------
(* Waiting is ordered *)

\* rank orders what each process can wait for below the process, and gives the
\* created processes ranks below their number.
Ranked(rank) ==
    /\ \A p \in Created : rank[p] < last_process_id
    /\ \A p \in Pid : \A i \in DOMAIN childs[p] : rank[childs[p][i]] < rank[p]

RankInv == \E rank \in [Pid -> Pid] : Ranked(rank)

\* A fork puts the new process right below the one it copies: what was below
\* that one stays below both, and everything from it upwards moves up by one.
LEMMA ForkRanks ==
    ASSUME Inv, RankInv, NEW p \in Pid, Fork(p)
    PROVE  RankInv'
  <1> DEFINE new == last_process_id
  <1>1. PICK rank \in [Pid -> Pid] : Ranked(rank)
    BY DEF RankInv
  <1>2. /\ new < MaxProcs /\ panic = NoPanic /\ current_process = p
        /\ last_process_id' = new + 1 /\ new \in 1 .. MaxProcs
        /\ childs' = [childs EXCEPT ![new] = childs[p],
                                    ![p] = Append(childs[p], new)]
    BY DEF Fork, Running, CopiedChilds, Inv, TypeOK
  <1>3. /\ new \in Pid /\ new \notin Created
        /\ Created' = Created \cup {new} /\ Created \subseteq Pid
    BY <1>2, NewProcess DEF Inv
  <1>4. p \in Created /\ p # new
    BY <1>2, <1>3, CurrentCreated
  <1>5. /\ childs \in [Pid -> Seq(Pid)]
        /\ \A q \in Pid : \A i \in DOMAIN childs[q] :
              childs[q][i] \in Created /\ q \in Created
    <2>1. childs \in [Pid -> Seq(Pid)]
      BY LocalTypes
    <2>2. ASSUME NEW q \in Pid, NEW i \in DOMAIN childs[q]
          PROVE  childs[q][i] \in Created /\ q \in Created
      <3>1. childs[q] # << >>
        BY <2>1
      <3> QED BY <3>1 DEF Inv, ChildsInv, ExitInv
    <2> QED BY <2>1, <2>2
  <1> DEFINE up == [q \in Pid |-> IF q = new THEN rank[p]
                                  ELSE IF q \in Created /\ rank[q] >= rank[p]
                                       THEN rank[q] + 1
                                       ELSE rank[q]]
  <1>6. /\ \A q \in Pid : rank[q] \in Nat
        /\ \A q \in Created : rank[q] < new
    BY <1>1, PidFacts DEF Ranked
  <1>7. up \in [Pid -> Pid]
    <2> SUFFICES ASSUME NEW q \in Pid PROVE up[q] \in Pid
      BY DEF up
    <2>1. CASE q # new /\ q \in Created /\ rank[q] >= rank[p]
      <3>1. up[q] = rank[q] + 1
        BY <2>1
      <3>2. rank[q] \in Nat /\ rank[q] < new /\ new < MaxProcs
        BY <2>1, <1>2, <1>6
      <3> QED BY <3>1, <3>2, <1>2, MaxProcsAssumption DEF Pid
    <2>2. CASE ~(q # new /\ q \in Created /\ rank[q] >= rank[p])
      <3>1. up[q] \in {rank[p], rank[q]}
        BY <2>2
      <3> QED BY <3>1, <1>1
    <2> QED BY <2>1, <2>2
  <1>8. \A q \in Created' : up[q] < last_process_id'
    BY SMTT(60), <1>2, <1>3, <1>4, <1>6
  <1>9. /\ childs'[p] = Append(childs[p], new) /\ childs'[new] = childs[p]
        /\ \A q \in Pid \ {p, new} : childs'[q] = childs[q]
    BY <1>2, <1>3, <1>4, <1>5
  <1>10. ASSUME NEW q \in Created, NEW x \in Created, rank[x] < rank[q]
         PROVE  up[x] < up[q] /\ (q = p => up[x] < rank[p])
    BY <1>3, <1>4, <1>6, <1>10
  <1>11. up[new] < up[p]
    BY <1>3, <1>4, <1>6
  <1>12. ASSUME NEW q \in Pid, NEW i \in DOMAIN childs'[q]
         PROVE  up[childs'[q][i]] < up[q]
    <2>1. CASE q = p /\ childs'[q][i] = new
      BY <2>1, <1>11
    <2>2. CASE q = new
      <3>1. i \in DOMAIN childs[p] /\ childs'[q][i] = childs[p][i]
        BY <1>9, <1>12, <2>2
      <3>2. rank[childs[p][i]] < rank[p] /\ childs[p][i] \in Created
        BY <3>1, <1>1, <1>5 DEF Ranked
      <3>3. up[childs[p][i]] < rank[p]
        BY <3>2, <1>4, <1>10
      <3>4. up[new] = rank[p]
        BY <1>3
      <3> QED BY <3>1, <3>3, <3>4, <2>2
    <2>3. CASE q # new /\ ~(q = p /\ childs'[q][i] = new)
      <3>1. i \in DOMAIN childs[q] /\ childs'[q][i] = childs[q][i]
        <4>1. CASE q = p
          <5>1. childs[p] \in Seq(Pid) /\ childs'[p] = Append(childs[p], new)
            BY <1>5, <1>9
          <5>2. i \in DOMAIN childs'[p] /\ childs'[p][i] # new
            BY <4>1, <2>3, <1>12
          <5> HIDE DEF new
          <5>3. i \in DOMAIN childs[p] /\ childs'[p][i] = childs[p][i]
            BY <5>1, <5>2, <1>3, AppendedList
          <5> QED BY <5>3, <4>1
        <4>2. CASE q # p
          BY <4>2, <2>3, <1>9, <1>12
        <4> QED BY <4>1, <4>2
      <3>2. /\ rank[childs[q][i]] < rank[q]
            /\ childs[q][i] \in Created /\ q \in Created
        BY <3>1, <1>1, <1>5 DEF Ranked
      <3>3. up[childs[q][i]] < up[q]
        BY <3>2, <1>10
      <3> QED BY <3>1, <3>3
    <2> QED BY <2>1, <2>2, <2>3
  <1>13. \E f \in [Pid -> Pid] :
            /\ \A q \in Created' : f[q] < last_process_id'
            /\ \A q \in Pid : \A i \in DOMAIN childs'[q] : f[childs'[q][i]] < f[q]
    <2> HIDE DEF up
    <2> QED BY <1>7, <1>8, <1>12
  <1> QED BY <1>13 DEF RankInv, Ranked

\* No other step adds to a list of children.
LEMMA ShrinkRanks ==
    ASSUME RankInv, last_process_id' = last_process_id,
           \A p \in Pid : \A i \in DOMAIN childs'[p] :
               \E j \in DOMAIN childs[p] : childs'[p][i] = childs[p][j]
    PROVE  RankInv'
  <1>1. PICK rank \in [Pid -> Pid] : Ranked(rank)
    BY DEF RankInv
  <1>2. Ranked(rank)'
    BY <1>1 DEF Ranked, Created
  <1> QED BY <1>1, <1>2 DEF RankInv

LEMMA BootRanks == ASSUME Inv, RankInv, Boot PROVE RankInv'
  <1>1. /\ last_process_id = 1 /\ last_process_id' = 2 /\ childs' = childs
        /\ \A p \in Pid \ Created : childs[p] = << >>
    BY DEF Boot, Running, Inv, RootInv, ExitInv
  <1>2. \A p \in Pid : childs[p] = << >>
    <2>1. PICK rank \in [Pid -> Pid] : Ranked(rank)
      BY DEF RankInv
    <2>2. ASSUME NEW p \in Pid, NEW i \in DOMAIN childs[p] PROVE FALSE
      <3>1. childs[p][i] = Root /\ p = Root
        <4>1. childs[p][i] \in Created
          BY DEF Inv, ChildsInv
        <4>2. childs[p] # << >>
          BY LocalTypes
        <4>3. p \in Created
          BY <1>1, <4>2
        <4> QED BY <4>1, <4>3, <1>1 DEF Created, Root
      <3>2. rank[Root] < rank[Root]
        BY <3>1, <2>1, <2>2 DEF Ranked
      <3> QED BY <3>2, <2>1, PidFacts
    <2>3. ASSUME NEW p \in Pid PROVE childs[p] = << >>
      <3>1. childs[p] \in Seq(Pid)
        BY LocalTypes
      <3>2. Len(childs[p]) # 0 => 1 \in DOMAIN childs[p]
        BY <3>1
      <3>3. Len(childs[p]) = 0
        BY <3>2, <2>2
      <3> QED BY <3>1, <3>3
    <2> QED BY <2>3
  <1> DEFINE rank == [p \in Pid |-> 0]
  <1>3. rank \in [Pid -> Pid]
    BY PidFacts DEF Root
  <1>4. \A p \in Created' : rank[p] < last_process_id'
    BY <1>1, PidFacts, MaxProcsAssumption DEF Created, Pid
  <1>5. Ranked(rank)'
    BY <1>1, <1>2, <1>4 DEF Ranked
  <1> QED BY <1>3, <1>5 DEF RankInv

LEMMA ReapRanks ==
    ASSUME Inv, RankInv, NEW p \in Pid, NEW i \in DOMAIN childs[p],
           NEW looked \in BOOLEAN, Reap(p, i, looked),
           last_process_id' = last_process_id
    PROVE  RankInv'
  <1>1. childs' = [childs EXCEPT ![p] = Without(childs[p], i)]
    BY DEF Reap
  <1>2. childs \in [Pid -> Seq(Pid)]
    BY LocalTypes
  <1>3. \A k \in DOMAIN Without(childs[p], i) :
           \E j \in DOMAIN childs[p] : Without(childs[p], i)[k] = childs[p][j]
    BY <1>2, WithoutList
  <1> QED BY <1>1, <1>2, <1>3, ShrinkRanks

LEMMA NextRanks == Inv /\ RankInv /\ [Next]_vars => RankInv'
  <1> SUFFICES ASSUME Inv, RankInv, [Next]_vars PROVE RankInv'
    OBVIOUS
  <1>1. CASE UNCHANGED <<childs, last_process_id>>
    BY <1>1, ShrinkRanks
  <1>2. CASE Boot
    BY <1>2, BootRanks
  <1>3. ASSUME NEW p \in Pid, Fork(p) PROVE RankInv'
    BY <1>3, ForkRanks
  <1>4. ASSUME NEW p \in Pid, WaitEnds(p) PROVE RankInv'
    <2>1. IsChild(p, target[p].pid)
      BY <1>4 DEF WaitEnds, Running, Inv, TargetInv
    <2>2. IndexOf(p, target[p].pid) \in DOMAIN childs[p]
      BY <2>1 DEF IsChild, IndexOf
    <2> QED BY <1>4, <2>2, ReapRanks DEF WaitEnds, Waits
  <1>5. ASSUME NEW p \in Pid, ScanChild(p) PROVE RankInv'
    <2>1. target[p].next \in DOMAIN childs[p] /\ last_process_id' = last_process_id
      BY <1>5 DEF ScanChild, Waits
    <2>2. CASE Reap(p, target[p].next, TRUE)
      BY <2>1, <2>2, ReapRanks
    <2>3. CASE ~Reap(p, target[p].next, TRUE)
      BY <1>5, <2>1, <2>3, <1>1 DEF ScanChild
    <2> QED BY <2>2, <2>3
  <1>6. ASSUME NEW p \in Pid, Request(p), ~Fork(p)
        PROVE  UNCHANGED <<childs, last_process_id>>
    BY <1>6 DEF Request, Exec, ExitStoreCode, WaitPid, WaitAny, Waits
  <1>7. ASSUME NEW p \in Pid, Proceed(p), ~WaitEnds(p), ~ScanChild(p)
        PROVE  UNCHANGED <<childs, last_process_id>>
    BY <1>7 DEF Proceed, Yield, ExitStoreStatus, ScanEnds, Waits
  <1>8. Tick \/ Halted \/ UNCHANGED vars => UNCHANGED <<childs, last_process_id>>
    BY DEF Tick, Halted, vars
  <1> QED BY <1>1, <1>2, <1>3, <1>4, <1>5, <1>6, <1>7, <1>8 DEF Next

LEMMA InitRanks == Init => RankInv
  <1> SUFFICES ASSUME Init PROVE RankInv
    OBVIOUS
  <1> DEFINE rank == [p \in Pid |-> 0]
  <1>1. rank \in [Pid -> Pid]
    BY PidFacts DEF Root
  <1>2. Ranked(rank)
    BY PidFacts DEF Ranked, Init, Created, Root
  <1> QED BY <1>1, <1>2 DEF RankInv

\* However processes fork and reap, a chain of processes each waiting for the
\* next never closes to a cycle: waitpid cannot deadlock.
THEOREM WaitingIsOrdered == Spec => []WaitsAreOrdered
  <1>1. Init => RankInv
    BY InitRanks
  <1>2. Inv /\ RankInv /\ [Next]_vars => RankInv'
    BY NextRanks
  <1>3. RankInv => WaitsAreOrdered
    BY DEF RankInv, Ranked, WaitsAreOrdered
  <1> QED BY <1>1, <1>2, <1>3, InvHolds, PTL DEF Spec


-----------------------------------------------------------------------------
(* What waitpid answers *)

\* No list of children names a process twice: fork copies lists and appends a
\* number that is on none.
NoTwins ==
    \A p \in Pid : \A i, j \in DOMAIN childs[p] : childs[p][i] = childs[p][j] => i = j

\* Who was answered, and about whom, are processes that exist.
AnsweredCreated == \A r \in reaped : r.by \in Created /\ r.pid \in Created

ReapInv ==
    /\ NoTwins
    /\ AnsweredCreated
    /\ ReapedOnce
    /\ NoneLost

\* Where the elements of a list are when one is erased.
LEMMA ErasedAt ==
    ASSUME NEW S, NEW list \in Seq(S), NEW i \in DOMAIN list
    PROVE  /\ DOMAIN Without(list, i) = 1 .. Len(list) - 1
           /\ \A k \in 1 .. Len(list) - 1 :
                 Without(list, i)[k] = IF k < i THEN list[k] ELSE list[k + 1]
  <1> DEFINE front == SubSeq(list, 1, i - 1)
             back == SubSeq(list, i + 1, Len(list))
  <1>1. i \in 1 .. Len(list) /\ Len(list) \in Nat
    OBVIOUS
  <1>2. /\ front \in Seq(S) /\ Len(front) = i - 1
        /\ \A k \in 1 .. i - 1 : front[k] = list[k]
    BY <1>1
  <1>3. /\ back \in Seq(S) /\ Len(back) = Len(list) - i
        /\ \A k \in 1 .. Len(list) - i : back[k] = list[i + k]
    BY <1>1
  <1>4. Without(list, i) = front \o back
    BY DEF Without
  <1> HIDE DEF front, back
  <1>5. Without(list, i) \in Seq(S) /\ Len(Without(list, i)) = Len(list) - 1
    BY <1>1, <1>2, <1>3, <1>4
  <1>6. ASSUME NEW k \in 1 .. Len(list) - 1
        PROVE  Without(list, i)[k] = IF k < i THEN list[k] ELSE list[k + 1]
    <2>1. CASE k < i
      <3>1. Without(list, i)[k] = front[k] /\ k \in 1 .. i - 1
        BY <1>1, <1>2, <1>3, <1>4, <2>1
      <3> QED BY <3>1, <1>2, <2>1
    <2>2. CASE ~(k < i)
      <3>1. /\ Without(list, i)[k] = back[k - (i - 1)]
            /\ k - (i - 1) \in 1 .. Len(list) - i
        BY SMTT(60), <1>1, <1>2, <1>3, <1>4, <2>2
      <3>2. back[k - (i - 1)] = list[i + (k - (i - 1))]
        BY <1>3, <3>1
      <3>3. i + (k - (i - 1)) = k + 1
        BY <1>1
      <3> QED BY <3>1, <3>2, <3>3, <2>2
    <2> QED BY <2>1, <2>2
  <1> QED BY <1>5, <1>6

\* Erasing an element of a list without repetitions leaves a list without
\* repetitions of all the others.
LEMMA ErasedOnce ==
    ASSUME NEW S, NEW list \in Seq(S), NEW i \in DOMAIN list,
           \A j, k \in DOMAIN list : list[j] = list[k] => j = k
    PROVE  /\ \A j, k \in DOMAIN Without(list, i) :
                 Without(list, i)[j] = Without(list, i)[k] => j = k
           /\ \A k \in DOMAIN Without(list, i) :
                 /\ Without(list, i)[k] # list[i]
                 /\ \E j \in DOMAIN list : Without(list, i)[k] = list[j]
           /\ \A j \in DOMAIN list : j # i =>
                 \E k \in DOMAIN Without(list, i) : Without(list, i)[k] = list[j]
  <1> DEFINE less == Without(list, i)
  <1>1. i \in 1 .. Len(list) /\ Len(list) \in Nat /\ DOMAIN list = 1 .. Len(list)
    OBVIOUS
  <1>5. DOMAIN less = 1 .. Len(list) - 1
    BY ErasedAt
  <1>6. \A k \in 1 .. Len(list) - 1 :
            less[k] = IF k < i THEN list[k] ELSE list[k + 1]
    BY ErasedAt
  <1> HIDE DEF less
  <1>7. ASSUME NEW j \in DOMAIN less, NEW k \in DOMAIN less, less[j] = less[k]
        PROVE  j = k
    BY SMTT(60), <1>1, <1>5, <1>6, <1>7
  <1>8. ASSUME NEW k \in DOMAIN less
        PROVE  /\ less[k] # list[i]
               /\ \E j \in DOMAIN list : less[k] = list[j]
    <2>1. CASE k < i
      <3>1. less[k] = list[k] /\ k \in DOMAIN list /\ k # i
        BY <1>1, <1>5, <1>6, <2>1
      <3> QED BY <3>1
    <2>2. CASE ~(k < i)
      <3>1. less[k] = list[k + 1] /\ k + 1 \in DOMAIN list /\ k + 1 # i
        BY <1>1, <1>5, <1>6, <2>2
      <3> QED BY <3>1
    <2> QED BY <2>1, <2>2
  <1>9. ASSUME NEW j \in DOMAIN list, j # i
        PROVE  \E k \in DOMAIN less : less[k] = list[j]
    <2>1. CASE j < i
      <3>1. j \in DOMAIN less /\ less[j] = list[j]
        BY <1>1, <1>5, <1>6, <2>1
      <3> QED BY <3>1
    <2>2. CASE ~(j < i)
      <3>1. j - 1 \in DOMAIN less /\ less[j - 1] = list[j]
        BY <1>1, <1>5, <1>6, <1>9, <2>2
      <3> QED BY <3>1
    <2> QED BY <2>1, <2>2
  <1> QED BY <1>7, <1>8, <1>9 DEF less

\* A status made of an exit code differs from the one that is not written.
LEMMA StatusWritten ==
    ASSUME NEW code \in Nat
    PROVE  Wstatus(code) \in Nat /\ Wstatus(code) # NoStatus
  <1>1. code % 256 \in 0 .. 255
    OBVIOUS
  <1> QED BY <1>1 DEF Wstatus, NoStatus

LEMMA InitReaps == Init => ReapInv
  <1> SUFFICES ASSUME Init PROVE ReapInv
    OBVIOUS
  <1>1. NoTwins
    BY DEF Init, NoTwins
  <1>2. AnsweredCreated /\ ReapedOnce
    BY DEF Init, AnsweredCreated, ReapedOnce
  <1>3. NoneLost
    BY DEF Init, NoneLost, Created, Root
  <1> QED BY <1>1, <1>2, <1>3 DEF ReapInv

\* The new process is on the list of the one it is a copy of, and on no other.
LEMMA ForkReaps ==
    ASSUME Inv, ReapInv, NEW p \in Pid, Fork(p)
    PROVE  ReapInv'
  <1> DEFINE new == last_process_id
  <1>1. /\ new < MaxProcs /\ panic = NoPanic /\ current_process = p
        /\ last_process_id' = new + 1 /\ reaped' = reaped
        /\ childs' = [childs EXCEPT ![new] = childs[p],
                                    ![p] = Append(childs[p], new)]
    BY DEF Fork, Running, CopiedChilds
  <1>2. /\ new \in Pid /\ new \notin Created
        /\ Created' = Created \cup {new} /\ Created \subseteq Pid
    BY <1>1, NewProcess DEF Inv
  <1>3. p \in Created /\ p # new
    BY <1>1, <1>2, CurrentCreated
  <1> HIDE DEF new
  <1>4. /\ childs \in [Pid -> Seq(Pid)]
        /\ \A q \in Pid : \A i \in DOMAIN childs[q] : childs[q][i] # new
    BY <1>2, LocalTypes DEF Inv, ChildsInv
  <1>5. /\ childs'[p] = Append(childs[p], new) /\ childs'[new] = childs[p]
        /\ \A q \in Pid \ {p, new} : childs'[q] = childs[q]
    BY <1>1, <1>2, <1>3, <1>4
  <1>6. /\ DOMAIN childs[p] = 1 .. Len(childs[p]) /\ Len(childs[p]) \in Nat
        /\ DOMAIN childs'[p] = 1 .. Len(childs[p]) + 1
        /\ childs'[p][Len(childs[p]) + 1] = new
        /\ \A i \in DOMAIN childs[p] : childs'[p][i] = childs[p][i]
    <2>1. childs[p] \in Seq(Pid)
      BY <1>4
    <2> QED BY <2>1, <1>2, <1>5
  <1>7. \A i \in DOMAIN childs'[p] :
            i \in DOMAIN childs[p] \/ i = Len(childs[p]) + 1
    BY <1>6
  <1>8. NoTwins'
    <2> SUFFICES ASSUME NEW q \in Pid, NEW i \in DOMAIN childs'[q],
                        NEW j \in DOMAIN childs'[q], childs'[q][i] = childs'[q][j]
                 PROVE  i = j
      BY DEF NoTwins
    <2>1. CASE q = p
      <3>1. CASE i \in DOMAIN childs[p] /\ j \in DOMAIN childs[p]
        <4>1. childs[p][i] = childs[p][j]
          BY <3>1, <2>1, <1>6
        <4> QED BY <4>1, <3>1 DEF ReapInv, NoTwins
      <3>2. ASSUME NEW k \in DOMAIN childs[p]
            PROVE  /\ childs'[p][k] # childs'[p][Len(childs[p]) + 1]
                   /\ childs'[p][Len(childs[p]) + 1] # childs'[p][k]
        BY <3>2, <1>4, <1>6
      <3> QED BY <3>1, <3>2, <2>1, <1>7
    <2>2. CASE q = new
      BY <2>2, <1>5 DEF ReapInv, NoTwins
    <2>3. CASE q \notin {p, new}
      BY <2>3, <1>5 DEF ReapInv, NoTwins
    <2> QED BY <2>1, <2>2, <2>3
  <1>9. AnsweredCreated'
    BY <1>1, <1>2 DEF ReapInv, AnsweredCreated
  <1>10. ReapedOnce'
    <2> SUFFICES ASSUME NEW r \in reaped, r.wstatus # NoStatus,
                        NEW i \in DOMAIN childs'[r.by], childs'[r.by][i] = r.pid
                 PROVE  FALSE
      BY <1>1 DEF ReapedOnce, IsChild
    <2>1. r.by \in Created /\ r.pid \in Created /\ r.by # new /\ r.pid # new
      BY <1>2 DEF ReapInv, AnsweredCreated
    <2>2. i \in DOMAIN childs[r.by] /\ childs[r.by][i] = r.pid
      <3>1. CASE r.by = p
        BY <2>1, <3>1, <1>6, <1>7
      <3>2. CASE r.by # p
        BY <2>1, <3>2, <1>2, <1>5
      <3> QED BY <3>1, <3>2
    <2> QED BY <2>2 DEF ReapInv, ReapedOnce, IsChild
  <1>11. NoneLost'
    <2> SUFFICES ASSUME NEW c \in Created' \ {Root, Root + 1}
                 PROVE  \/ \E q \in Pid : \E i \in DOMAIN childs'[q] : childs'[q][i] = c
                        \/ \E r \in reaped : r.pid = c /\ r.wstatus # NoStatus
      BY <1>1 DEF NoneLost, IsChild
    <2>1. CASE c = new
      <3>1. Len(childs[p]) + 1 \in DOMAIN childs'[p]
        BY <1>6
      <3> QED BY <3>1, <2>1, <1>6
    <2>2. ASSUME NEW q \in Pid, NEW i \in DOMAIN childs[q], childs[q][i] = c
          PROVE  \E y \in Pid : \E j \in DOMAIN childs'[y] : childs'[y][j] = c
      <3>1. CASE q = p
        <4>1. i \in DOMAIN childs'[p]
          BY <3>1, <2>2, <1>6
        <4> QED BY <4>1, <3>1, <2>2, <1>6
      <3>2. CASE q # p
        <4>1. q # new
          <5>1. childs[q] # << >>
            BY <2>2, <1>4
          <5> QED BY <5>1, <1>2 DEF Inv, ExitInv
        <4> QED BY <4>1, <3>2, <2>2, <1>5
      <3> QED BY <3>1, <3>2
    <2>3. CASE c # new
      BY <2>2, <2>3, <1>2 DEF ReapInv, NoneLost, IsChild
    <2> QED BY <2>1, <2>3
  <1> QED BY <1>8, <1>9, <1>10, <1>11 DEF ReapInv

\* Reap takes the process whose status it writes from the list it was on.
LEMMA ReapReaps ==
    ASSUME Inv, ReapInv, NEW p \in Pid, panic = NoPanic, current_process = p,
           NEW i \in DOMAIN childs[p], NEW looked \in BOOLEAN,
           Reap(p, i, looked), last_process_id' = last_process_id
    PROVE  ReapInv'
  <1> DEFINE c == childs[p][i]
             answer == [by |-> p, pid |-> c, wstatus |-> Wstatus(exit_code[c]),
                        looked |-> looked]
  <1>1. /\ reaped' = reaped \cup {answer}
        /\ childs' = [childs EXCEPT ![p] = Without(childs[p], i)]
        /\ Created' = Created
    BY DEF Reap, Answer, Created
  <1>2. /\ childs \in [Pid -> Seq(Pid)] /\ childs[p] \in Seq(Pid)
        /\ c \in Pid /\ exit_code[c] \in Nat
    BY LocalTypes
  <1>3. /\ answer.by = p /\ answer.pid = c /\ answer.wstatus # NoStatus
        /\ p \in Created /\ c \in Created
    BY <1>2, StatusWritten, CurrentCreated DEF Inv, ChildsInv
  <1>4. /\ childs'[p] = Without(childs[p], i)
        /\ \A q \in Pid \ {p} : childs'[q] = childs[q]
    BY <1>1, <1>2
  <1> HIDE DEF answer
  <1>5. /\ \A j, k \in DOMAIN childs'[p] : childs'[p][j] = childs'[p][k] => j = k
        /\ \A k \in DOMAIN childs'[p] :
              /\ childs'[p][k] # c
              /\ \E j \in DOMAIN childs[p] : childs'[p][k] = childs[p][j]
        /\ \A j \in DOMAIN childs[p] : j # i =>
              \E k \in DOMAIN childs'[p] : childs'[p][k] = childs[p][j]
    <2>1. \A j, k \in DOMAIN childs[p] : childs[p][j] = childs[p][k] => j = k
      BY DEF ReapInv, NoTwins
    <2> DEFINE less == Without(childs[p], i)
    <2>2. /\ \A j, k \in DOMAIN less : less[j] = less[k] => j = k
          /\ \A k \in DOMAIN less :
                /\ less[k] # c
                /\ \E j \in DOMAIN childs[p] : less[k] = childs[p][j]
          /\ \A j \in DOMAIN childs[p] : j # i =>
                \E k \in DOMAIN less : less[k] = childs[p][j]
      BY <2>1, <1>2, ErasedOnce
    <2> QED BY <2>2, <1>4
  <1> HIDE DEF c
  <1>6. NoTwins'
    BY <1>4, <1>5 DEF ReapInv, NoTwins
  <1>7. AnsweredCreated'
    BY <1>1, <1>3 DEF ReapInv, AnsweredCreated
  <1>8. ReapedOnce'
    <2> SUFFICES ASSUME NEW r \in reaped', r.wstatus # NoStatus,
                        NEW k \in DOMAIN childs'[r.by], childs'[r.by][k] = r.pid
                 PROVE  FALSE
      BY DEF ReapedOnce, IsChild
    <2>1. CASE r = answer
      BY <2>1, <1>3, <1>5
    <2>2. CASE r \in reaped /\ r.by = p
      BY <2>2, <1>5 DEF ReapInv, ReapedOnce, IsChild
    <2>3. CASE r \in reaped /\ r.by # p
      <3>1. r.by \in Pid
        BY <2>3, LocalTypes DEF Answers
      <3> QED BY <3>1, <2>3, <1>4 DEF ReapInv, ReapedOnce, IsChild
    <2> QED BY <2>1, <2>2, <2>3, <1>1
  <1>9. NoneLost'
    <2> SUFFICES ASSUME NEW x \in Created \ {Root, Root + 1}
                 PROVE  \/ \E q \in Pid : \E k \in DOMAIN childs'[q] : childs'[q][k] = x
                        \/ \E r \in reaped' : r.pid = x /\ r.wstatus # NoStatus
      BY <1>1 DEF NoneLost, IsChild
    <2>1. CASE x = c
      BY <2>1, <1>1, <1>3
    <2>2. ASSUME x # c, NEW q \in Pid, NEW j \in DOMAIN childs[q], childs[q][j] = x
          PROVE  \E y \in Pid : \E k \in DOMAIN childs'[y] : childs'[y][k] = x
      <3>1. CASE q = p
        <4>1. j # i
          BY <3>1, <2>2 DEF c
        <4> QED BY <4>1, <3>1, <2>2, <1>5
      <3>2. CASE q # p
        BY <3>2, <2>2, <1>4
      <3> QED BY <3>1, <3>2
    <2>3. CASE x # c
      BY <2>2, <2>3, <1>1 DEF ReapInv, NoneLost, IsChild
    <2> QED BY <2>1, <2>3
  <1> QED BY <1>6, <1>7, <1>8, <1>9 DEF ReapInv

\* With WNOHANG the child of one pid stays on the list and no status is written.
LEMMA WaitPidReaps ==
    ASSUME Inv, ReapInv, NEW p \in Pid, NEW c \in Pid, NEW nohang \in BOOLEAN,
           WaitPid(p, c, nohang)
    PROVE  ReapInv'
  <1> DEFINE answer == [by |-> p, pid |-> c, wstatus |-> NoStatus,
                        looked |-> TRUE]
  <1>1. /\ panic = NoPanic /\ current_process = p
        /\ UNCHANGED <<childs, last_process_id>> /\ Created' = Created
        /\ \/ reaped' = reaped
           \/ IsChild(p, c) /\ reaped' = reaped \cup {answer}
    BY DEF WaitPid, Running, Waits, Answer, Created
  <1>2. answer.by = p /\ answer.pid = c /\ answer.wstatus = NoStatus
    OBVIOUS
  <1> HIDE DEF answer
  <1>3. \A r \in reaped' :
            \/ r \in reaped
            \/ r = answer /\ c \in Created /\ p \in Created
    BY <1>1, CurrentCreated DEF Inv, ChildsInv, IsChild
  <1>4. reaped \subseteq reaped'
    BY <1>1
  <1>5. NoTwins' /\ AnsweredCreated'
    BY <1>1, <1>2, <1>3 DEF ReapInv, NoTwins, AnsweredCreated
  <1>6. ReapedOnce'
    BY <1>1, <1>2, <1>3 DEF ReapInv, ReapedOnce, IsChild
  <1>7. NoneLost'
    BY <1>1, <1>4 DEF ReapInv, NoneLost, IsChild
  <1> QED BY <1>5, <1>6, <1>7 DEF ReapInv

LEMMA BootReaps == ASSUME Inv, ReapInv, Boot PROVE ReapInv'
  <1>1. /\ last_process_id = 1 /\ last_process_id' = 2
        /\ childs' = childs /\ reaped' = reaped
    BY DEF Boot, Running, Inv, RootInv
  <1>2. Created = {Root} /\ Created' = {Root, Root + 1}
    BY <1>1 DEF Created, Root
  <1> QED BY <1>1, <1>2
      DEF ReapInv, NoTwins, AnsweredCreated, ReapedOnce, NoneLost, IsChild

LEMMA OtherReaps ==
    ASSUME ReapInv, UNCHANGED <<childs, last_process_id, reaped>>
    PROVE  ReapInv'
  BY DEF ReapInv, NoTwins, AnsweredCreated, ReapedOnce, NoneLost, IsChild, Created

LEMMA NextReaps == Inv /\ ReapInv /\ [Next]_vars => ReapInv'
  <1> SUFFICES ASSUME Inv, ReapInv, [Next]_vars PROVE ReapInv'
    OBVIOUS
  <1>1. CASE UNCHANGED <<childs, last_process_id, reaped>>
    BY <1>1, OtherReaps
  <1>2. CASE Boot
    BY <1>2, BootReaps
  <1>3. ASSUME NEW p \in Pid, Fork(p) PROVE ReapInv'
    BY <1>3, ForkReaps
  <1>4. ASSUME NEW p \in Pid, WaitEnds(p) PROVE ReapInv'
    <2>1. IsChild(p, target[p].pid) /\ panic = NoPanic /\ current_process = p
      BY <1>4 DEF WaitEnds, Running, Inv, TargetInv
    <2>2. IndexOf(p, target[p].pid) \in DOMAIN childs[p]
      BY <2>1 DEF IsChild, IndexOf
    <2> QED BY <1>4, <2>1, <2>2, ReapReaps DEF WaitEnds, Waits
  <1>5. ASSUME NEW p \in Pid, ScanChild(p) PROVE ReapInv'
    <2>1. /\ target[p].next \in DOMAIN childs[p]
          /\ last_process_id' = last_process_id
          /\ panic = NoPanic /\ current_process = p
      BY <1>5 DEF ScanChild, Waits, Running
    <2>2. CASE Reap(p, target[p].next, TRUE)
      BY <2>1, <2>2, ReapReaps
    <2>3. CASE ~Reap(p, target[p].next, TRUE)
      BY <1>5, <2>1, <2>3, <1>1 DEF ScanChild
    <2> QED BY <2>2, <2>3
  <1>6. ASSUME NEW p \in Pid, NEW c \in Pid, NEW nohang \in BOOLEAN,
               WaitPid(p, c, nohang)
        PROVE  ReapInv'
    BY <1>6, WaitPidReaps
  <1>7. ASSUME NEW p \in Pid, Request(p), ~Fork(p),
               ~ \E c \in Pid, nohang \in BOOLEAN : WaitPid(p, c, nohang)
        PROVE  UNCHANGED <<childs, last_process_id, reaped>>
    BY <1>7 DEF Request, Exec, ExitStoreCode, WaitAny, Waits
  <1>8. ASSUME NEW p \in Pid, Proceed(p), ~WaitEnds(p), ~ScanChild(p)
        PROVE  UNCHANGED <<childs, last_process_id, reaped>>
    BY <1>8 DEF Proceed, Yield, ExitStoreStatus, ScanEnds, Waits
  <1>9. Tick \/ Halted \/ UNCHANGED vars
            => UNCHANGED <<childs, last_process_id, reaped>>
    BY DEF Tick, Halted, vars
  <1> QED BY <1>1, <1>2, <1>3, <1>4, <1>5, <1>6, <1>7, <1>8, <1>9 DEF Next

\* However forks copy the lists of children and waiters erase from them, waitpid
\* gives a status once to each waiter, and every process that was forked stays on
\* some list until a status of it was given.
THEOREM StatusesAreHandedOut == Spec => []StatusesReachWaiters
  <1>1. Init => ReapInv
    BY InitReaps
  <1>2. Inv /\ ReapInv /\ [Next]_vars => ReapInv'
    BY NextReaps
  <1>3. ReapInv => StatusesReachWaiters
    BY DEF ReapInv, StatusesReachWaiters
  <1> QED BY <1>1, <1>2, <1>3, InvHolds, PTL DEF Spec

-----------------------------------------------------------------------------
(* What a status says *)

\* A process that is not on its way out has stored no code.
CodeInv ==
    \A p \in Pid : at[p] \notin {"exiting", "zombie"} => exit_code[p] = 0

\* The steps that neither fork nor store a code.
LEMMA OtherCodes ==
    ASSUME Inv, CodeInv, exit_code' = exit_code,
           \A q \in Pid : at'[q] \notin {"exiting", "zombie"} =>
                              at[q] \notin {"exiting", "zombie"}
    PROVE  CodeInv'
  BY DEF CodeInv

LEMMA NextCodes == Inv /\ CodeInv /\ [Next]_vars => CodeInv'
  <1> SUFFICES ASSUME Inv, CodeInv, [Next]_vars PROVE CodeInv'
    OBVIOUS
  <1>1. CASE Boot
    <2>1. /\ exit_code' = exit_code /\ at[Root] = "boot"
          /\ at' = [at EXCEPT ![Root] = "root"] /\ at \in [Pid -> Places]
      BY <1>1, LocalTypes DEF Boot, Running
    <2> QED BY <2>1, OtherCodes
  <1>2. ASSUME NEW p \in Pid, Fork(p) PROVE CodeInv'
    <2>1. /\ exit_code' = [exit_code EXCEPT ![last_process_id] = exit_code[p]]
          /\ at[p] = "user" /\ at' = at
      BY <1>2 DEF Fork, Running
    <2>2. exit_code \in [Pid -> Nat] /\ exit_code[p] = 0
      BY <2>1, LocalTypes DEF CodeInv
    <2> QED BY <2>1, <2>2 DEF CodeInv
  <1>3. ASSUME NEW p \in Pid, NEW code \in ExitCodes, ExitStoreCode(p, code)
        PROVE  CodeInv'
    <2>1. /\ exit_code' = [exit_code EXCEPT ![p] = code]
          /\ at' = [at EXCEPT ![p] = "exiting"]
      BY <1>3 DEF ExitStoreCode
    <2> QED BY <2>1, LocalTypes DEF CodeInv
  <1>4. ASSUME NEW p \in Pid, Request(p), ~Fork(p),
               ~ \E code \in ExitCodes : ExitStoreCode(p, code)
        PROVE  CodeInv'
    <2>1. exit_code' = exit_code /\ at[p] = "user"
      BY <1>4 DEF Request, Exec, WaitPid, WaitAny, Waits, Running
    <2>2. at' = at \/ at' = [at EXCEPT ![p] = "waiting"]
                   \/ at' = [at EXCEPT ![p] = "scanning"]
      BY <1>4 DEF Request, Exec, WaitPid, WaitAny
    <2> QED BY <2>1, <2>2, LocalTypes, OtherCodes
  <1>5. ASSUME NEW p \in Pid, Proceed(p) PROVE CodeInv'
    <2>1. exit_code' = exit_code
      BY <1>5 DEF Proceed, Yield, ExitStoreStatus, WaitEnds, ScanChild, ScanEnds,
                  Waits
    <2>2. \/ at' = at
          \/ at' = [at EXCEPT ![p] = "zombie"]
          \/ at[p] \in {"waiting", "scanning"} /\ at' = [at EXCEPT ![p] = "user"]
      BY <1>5 DEF Proceed, Yield, ExitStoreStatus, WaitEnds, ScanChild, ScanEnds,
                  Reap, Running
    <2> QED BY <2>1, <2>2, LocalTypes, OtherCodes
  <1>6. Tick \/ Halted \/ UNCHANGED vars => exit_code' = exit_code /\ at' = at
    BY DEF Tick, Halted, vars
  <1> QED BY <1>1, <1>2, <1>3, <1>4, <1>5, <1>6, OtherCodes DEF Next

\* A code is stored once: what changes was 0.
LEMMA CodesChangeOnce ==
    ASSUME Inv, CodeInv, [Next]_vars, NEW c \in Pid
    PROVE  exit_code'[c] = exit_code[c] \/ exit_code[c] = 0
  <1>1. ASSUME NEW p \in Pid, Fork(p)
        PROVE  exit_code'[c] = exit_code[c] \/ exit_code[c] = 0
    <2>1. /\ exit_code' = [exit_code EXCEPT ![last_process_id] = exit_code[p]]
          /\ at[p] = "user"
          /\ last_process_id < MaxProcs /\ last_process_id' = last_process_id + 1
      BY <1>1 DEF Fork, Running
    <2>2. last_process_id \in Pid /\ at[last_process_id] = "user"
      BY <2>1, NewProcess DEF Inv, ExitInv
    <2>3. exit_code[last_process_id] = 0 /\ exit_code[p] = 0
      BY <2>1, <2>2 DEF CodeInv
    <2> QED BY <2>1, <2>2, <2>3, LocalTypes
  <1>2. ASSUME NEW p \in Pid, NEW code \in ExitCodes, ExitStoreCode(p, code)
        PROVE  exit_code'[c] = exit_code[c] \/ exit_code[c] = 0
    BY <1>2, LocalTypes DEF ExitStoreCode, Running, CodeInv
  <1>3. ASSUME NEW p \in Pid, Request(p) \/ Proceed(p), ~Fork(p),
               ~ \E code \in ExitCodes : ExitStoreCode(p, code)
        PROVE  exit_code' = exit_code
    BY <1>3 DEF Request, Exec, WaitPid, WaitAny, Waits, Proceed, Yield,
                ExitStoreStatus, WaitEnds, ScanChild, ScanEnds
  <1>4. Boot \/ Tick \/ Halted \/ UNCHANGED vars => exit_code' = exit_code
    BY DEF Boot, Tick, Halted, vars
  <1> QED BY <1>1, <1>2, <1>3, <1>4 DEF Next

\* What an answer says of a process.
Honest(r) == IF r.looked THEN TrueStatus(r) ELSE EarlyStatus(r)

\* An answer that is honest stays so, since exit is final and a code changes once.
LEMMA AnswersStay ==
    ASSUME Inv, CodeInv, [Next]_vars, NEW r, r.pid \in Pid, Honest(r)
    PROVE  Honest(r)'
  <1>1. CASE r.looked
    <2>1. status'[r.pid] = "exited" /\ exit_code'[r.pid] = exit_code[r.pid]
      BY <1>1, NextFinal DEF FinalStep, Honest, TrueStatus
    <2> QED BY <1>1, <2>1 DEF Honest, TrueStatus
  <1>2. CASE ~r.looked
    <2>1. exit_code'[r.pid] = exit_code[r.pid] \/ exit_code[r.pid] = 0
      BY CodesChangeOnce
    <2> QED BY <1>2, <2>1 DEF Honest, EarlyStatus
  <1> QED BY <1>1, <1>2

\* What Reap answers.
LEMMA ReapAnswers ==
    ASSUME Inv, NEW p \in Pid, NEW i \in DOMAIN childs[p],
           NEW looked \in BOOLEAN, Reap(p, i, looked),
           looked => HasExited(childs[p][i])
    PROVE  \A r \in reaped' \ reaped : r.pid \in Pid /\ Honest(r)
  <1> DEFINE c == childs[p][i]
             answer == [by |-> p, pid |-> c, wstatus |-> Wstatus(exit_code[c]),
                        looked |-> looked]
  <1>1. c \in Pid
    BY LocalTypes
  <1>2. reaped' = reaped \cup {answer}
    BY DEF Reap, Answer
  <1>3. /\ answer.pid = c /\ answer.looked = looked
        /\ answer.wstatus = Wstatus(exit_code[c])
    OBVIOUS
  <1>4. Honest(answer)
    BY <1>3 DEF Honest, TrueStatus, EarlyStatus, HasExited
  <1> HIDE DEF answer
  <1> QED BY <1>1, <1>2, <1>3, <1>4

\* Every answer that a step adds is honest.
LEMMA NewAnswers ==
    ASSUME Inv, [Next]_vars
    PROVE  \A r \in reaped' \ reaped : r.pid \in Pid /\ Honest(r)
  <1>1. ASSUME NEW p \in Pid, WaitEnds(p)
        PROVE  \A r \in reaped' \ reaped : r.pid \in Pid /\ Honest(r)
    <2>1. PICK looked \in BOOLEAN :
             /\ LoopEnds(p, looked)
             /\ Reap(p, IndexOf(p, target[p].pid), looked)
      BY <1>1 DEF WaitEnds
    <2>2. IsChild(p, target[p].pid)
      BY <1>1 DEF WaitEnds, Running, Inv, TargetInv
    <2>3. /\ IndexOf(p, target[p].pid) \in DOMAIN childs[p]
          /\ childs[p][IndexOf(p, target[p].pid)] = target[p].pid
      BY <2>2 DEF IsChild, IndexOf
    <2>4. looked => HasExited(target[p].pid)
      BY <2>1 DEF LoopEnds
    <2> QED BY <2>1, <2>3, <2>4, ReapAnswers
  <1>2. ASSUME NEW p \in Pid, ScanChild(p)
        PROVE  \A r \in reaped' \ reaped : r.pid \in Pid /\ Honest(r)
    <2>1. target[p].next \in DOMAIN childs[p]
      BY <1>2 DEF ScanChild
    <2>2. CASE HasExited(childs[p][target[p].next])
      <3>1. Reap(p, target[p].next, TRUE)
        BY <1>2, <2>2 DEF ScanChild
      <3> QED BY <3>1, <2>1, <2>2, ReapAnswers
    <2>3. CASE ~HasExited(childs[p][target[p].next])
      BY <1>2, <2>3 DEF ScanChild
    <2> QED BY <2>2, <2>3
  <1>3. ASSUME NEW p \in Pid, NEW c \in Pid, NEW nohang \in BOOLEAN,
               WaitPid(p, c, nohang)
        PROVE  \A r \in reaped' \ reaped : r.pid \in Pid /\ Honest(r)
    <2>1. \/ reaped' = reaped
          \/ HasExited(c) /\ Answer(p, c, NoStatus, TRUE)
      BY <1>3 DEF WaitPid
    <2> QED BY <2>1 DEF Answer, HasExited, Honest, TrueStatus
  <1>4. ASSUME NEW p \in Pid, Request(p),
               ~ \E c \in Pid, nohang \in BOOLEAN : WaitPid(p, c, nohang)
        PROVE  reaped' = reaped
    BY <1>4 DEF Request, Fork, Exec, ExitStoreCode, WaitAny
  <1>5. ASSUME NEW p \in Pid, Proceed(p), ~WaitEnds(p), ~ScanChild(p)
        PROVE  reaped' = reaped
    BY <1>5 DEF Proceed, Yield, ExitStoreStatus, ScanEnds
  <1>6. Boot \/ Tick \/ Halted \/ UNCHANGED vars => reaped' = reaped
    BY DEF Boot, Tick, Halted, vars
  <1>7. CASE reaped' = reaped
    BY <1>7
  <1> QED BY <1>1, <1>2, <1>3, <1>4, <1>5, <1>6, <1>7 DEF Next

LEMMA NextStatus ==
    Inv /\ CodeInv /\ StatusOfExited /\ [Next]_vars => StatusOfExited'
  <1> SUFFICES ASSUME Inv, CodeInv, StatusOfExited, [Next]_vars,
                      NEW r \in reaped'
               PROVE  Honest(r)'
    BY DEF StatusOfExited, Honest
  <1>1. r.pid \in Pid /\ Honest(r)
    <2>1. CASE r \in reaped
      BY <2>1, LocalTypes DEF StatusOfExited, Honest, Answers
    <2>2. CASE r \notin reaped
      BY <2>2, NewAnswers
    <2> QED BY <2>1, <2>2
  <1> QED BY <1>1, AnswersStay

\* However the wait loop is compiled: a waiter that looks at the status of a child
\* before it answers hands out the code which that process passed to _exit, and
\* for ever the right one; one that does not look hands out that code or 0.
THEOREM StatusesAreTrue == Spec => []StatusOfExited
  <1>1. Init => StatusOfExited /\ CodeInv
    BY DEF Init, StatusOfExited, CodeInv
  <1>2. Inv /\ CodeInv /\ StatusOfExited /\ [Next]_vars
            => (StatusOfExited /\ CodeInv)'
    BY NextStatus, NextCodes
  <1> QED BY <1>1, <1>2, InvHolds, PTL DEF Spec
=============================================================================
