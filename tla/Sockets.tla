------------------------------- MODULE Sockets -------------------------------
(***************************************************************************)
(* Unix sockets of the Knee kernel (net.cpp, and the calls of posix.cpp    *)
(* that reach it): connecting to a listening socket through its backlog,   *)
(* accepting, writing, reading and closing, with the lock of a socket.     *)
(*                                                                         *)
(* System calls are preemptible at every instruction.  An action is one    *)
(* access, or a run of accesses that no other process can tell apart, to   *)
(* memory processes share; an operation on a list is one step.  The lock   *)
(* is a plain bool that is tested in one step and set in another.          *)
(***************************************************************************)
EXTENDS Naturals, Sequences

CONSTANTS
    Process,      \* the processes
    Inherited,    \* the sockets each of them has inherited from a common parent
    Server,       \* the socket that is bound to a name
    Client,       \* the sockets that connect to it
    Accepted,     \* the sockets accept creates, a bound on the calls of accept
    None,         \* the null pointer
    MaxUnits,     \* bound on the units of data ever written
    BlockSizes,   \* the sizes, in units, of the blocks that are written
    ReadSizes,    \* the sizes of the buffers data is read to
    Backlogs,     \* the backlogs a program may pass to listen
    PastRace      \* whether the model goes on after a race for a lock

ASSUME UnitsAssumption == MaxUnits \in Nat
ASSUME SizesAssumption ==
    BlockSizes \subseteq Nat \ {0} /\ ReadSizes \subseteq Nat \ {0}
ASSUME BacklogsAssumption == Backlogs \subseteq Nat
ASSUME InheritedAssumption ==
    Inherited \in [Process -> SUBSET ({Server} \cup Client)]
ASSUME SocketsAssumption ==
    /\ Client \cap Accepted = {}
    /\ Server \notin Client \cup Accepted
    /\ None \notin {Server} \cup Client \cup Accepted

Socket == {Server} \cup Client \cup Accepted
NoPanic == "none"
Unlocked == "unlocked"

VARIABLES
    listening, server_socket, client_socket, link_socket,  \* fields of sockets:
    backlog_sockets, backlog_count, received_data, lock,   \* unix_socket of net.h
    held,        \* the sockets a process has open
    call,        \* the call each process is in: see Idle
    sent,        \* for each unit of data who wrote it, to which socket, and
                 \* whether it ends a block
    delivered,   \* the units read from a socket, in order
    raced,       \* some lock was set by a process that found it free, but too late
    panic        \* the message of the panic that stopped the kernel

fields == <<listening, server_socket, client_socket, link_socket,
            backlog_sockets, backlog_count, received_data>>
vars == <<fields, lock, held, call, sent, delivered, raced, panic>>

(***************************************************************************)
(* The locals of a call: the operation in progress, where it is, the       *)
(* socket it was made on, the socket whose lock it takes, the block        *)
(* receive appends, the size of the buffer of read, O_NONBLOCK, the blocks *)
(* accept has moved, and the arguments of nested calls of shutdown.        *)
(***************************************************************************)
Idle == [op |-> "none", at |-> "user", this |-> None, target |-> None,
         block |-> << >>, size |-> 0, noblock |-> FALSE, moved |-> 0,
         closing |-> << >>]

Init ==
    /\ listening = [s \in Socket |-> FALSE]
    /\ server_socket = [s \in Socket |-> None]
    /\ client_socket = [s \in Socket |-> None]
    /\ link_socket = [s \in Socket |-> None]
    /\ backlog_sockets = << >>
    /\ backlog_count = 0
    /\ received_data = [s \in Socket |-> << >>]
    /\ lock = [s \in Socket |-> FALSE]
    /\ held = Inherited
    /\ call = [p \in Process |-> Idle]
    /\ sent = << >>
    /\ delivered = [s \in Socket |-> << >>]
    /\ raced = FALSE
    /\ panic = NoPanic

\* Two holders of one lock may work on one list at the same time, which is
\* undefined: unless PastRace the model ends there.
Running == panic = NoPanic /\ (PastRace \/ ~raced)
At(p, op, place) == Running /\ call[p].op = op /\ call[p].at = place
CanCall(p, s) == At(p, "none", "user") /\ s \in held[p]

Goto(p, place) == call' = [call EXCEPT ![p].at = place]
Return(p) == call' = [call EXCEPT ![p] = Idle]

\* A call that ends in a panic changes nothing else a process can see.
Stop(message) ==
    /\ panic' = message
    /\ UNCHANGED <<fields, lock, held, call, sent, delivered, raced>>

-----------------------------------------------------------------------------
(* The lock *)

\* while (_lock);
LockTest(p) ==
    /\ Running
    /\ call[p].at = "test"
    /\ ~lock[call[p].target]
    /\ Goto(p, "set")
    /\ UNCHANGED <<fields, lock, held, sent, delivered, raced, panic>>

\* _lock = true; what op does first under the lock goes with this step, as it
\* disturbs no process that does not hold the lock as well.
LockSet(p, op) ==
    LET t == call[p].target IN
    /\ At(p, op, "set")
    /\ lock' = [lock EXCEPT ![t] = TRUE]
    /\ raced' = (raced \/ lock[t])

\* Mutant: accept releases the lock it took last once more.
LastLock(c) == c.target

\* The lock accept holds while it moves data.
AcceptLock(c) == Server

\* What a call does after it has released a lock.
Released(p) ==
    LET c == call[p] IN
    CASE c.op = "poll" ->
           [c EXCEPT !.op = "read", !.at = "await"]
      [] c.op = "register" ->
           [c EXCEPT !.at = "registered"]
      [] c.op = "move" ->
           IF c.moved < Len(received_data[Server])
           THEN [c EXCEPT !.at = "test"]
           ELSE [c EXCEPT !.op = "moved", !.at = "hold",
                           !.target = AcceptLock(c)]
      [] c.op = "shutdown" /\ Len(c.closing) > 1 ->
           [c EXCEPT !.at = "drop", !.closing = Tail(c.closing)]
      [] OTHER -> Idle

\* unlock(): the test and the store are one step, as only the holders of one
\* lock could tell them apart.  The last unlock of accept is followed by the
\* return of the new socket, which the process then has open.
Unlock(p) ==
    LET c == call[p] IN
    /\ Running
    /\ c.at = "free"
    /\ \/ ~lock[c.target] /\ Stop(Unlocked)
       \/ /\ lock[c.target]
          /\ lock' = [lock EXCEPT ![c.target] = FALSE]
          /\ call' = [call EXCEPT ![p] = Released(p)]
          /\ held' = IF c.op = "moved"
                     THEN [held EXCEPT ![p] = @ \cup {c.this}] ELSE held
          /\ UNCHANGED <<fields, sent, delivered, raced, panic>>

-----------------------------------------------------------------------------
(* Listen and connect *)

Listen(p, count) ==
    /\ CanCall(p, Server)
    /\ ~listening[Server]
    /\ backlog_count' = count
    /\ listening' = [listening EXCEPT ![Server] = TRUE]
    /\ UNCHANGED <<server_socket, client_socket, link_socket, backlog_sockets,
                   received_data, lock, held, call, sent, delivered, raced,
                   panic>>

\* connect of posix.cpp and unix_socket::connect up to register_backlog.
\* Programs do not connect a socket that is connected.
Connect(p, s) ==
    /\ CanCall(p, s)
    /\ s \in Client
    /\ server_socket[s] = None
    /\ \/ ~listening[Server] /\ Stop("Failed to connect")
       \/ /\ listening[Server]
          /\ call' = [call EXCEPT ![p] =
                [Idle EXCEPT !.op = "register", !.at = "full",
                             !.this = s, !.target = Server]]
          /\ UNCHANGED <<fields, lock, held, sent, delivered, raced, panic>>

\* while (_backlog_sockets.size() == _backlog_count);
BacklogAdmits(p) ==
    /\ At(p, "register", "full")
    /\ Len(backlog_sockets) # backlog_count
    /\ Goto(p, "test")
    /\ UNCHANGED <<fields, lock, held, sent, delivered, raced, panic>>

Register(p) ==
    /\ LockSet(p, "register")
    /\ backlog_sockets' = Append(backlog_sockets, call[p].this)
    /\ Goto(p, "free")
    /\ UNCHANGED <<listening, server_socket, client_socket, link_socket,
                   backlog_count, received_data, held, sent, delivered, panic>>

\* connect stores the server only after the backlog has the client.
Registered(p) ==
    /\ At(p, "register", "registered")
    /\ server_socket' = [server_socket EXCEPT ![call[p].this] = Server]
    /\ Return(p)
    /\ UNCHANGED <<listening, client_socket, link_socket, backlog_sockets,
                   backlog_count, received_data, lock, held, sent, delivered,
                   raced, panic>>

-----------------------------------------------------------------------------
(* Accept *)

\* Sockets accept has not created yet.
Unused == {a \in Accepted : link_socket[a] = None
                            /\ \A p \in Process : call[p].this # a}

Accept(p) ==
    /\ CanCall(p, Server)
    /\ \/ ~listening[Server] /\ Stop("Not a server")
       \/ /\ listening[Server]
          /\ Unused # {}
          /\ call' = [call EXCEPT ![p] =
                [Idle EXCEPT !.op = "accept", !.at = "vacant",
                             !.this = CHOOSE a \in Unused : TRUE,
                             !.target = Server]]
          /\ UNCHANGED <<fields, lock, held, sent, delivered, raced, panic>>

\* while (_backlog_sockets.empty());
BacklogVacant(p) ==
    /\ At(p, "accept", "vacant")
    /\ backlog_sockets # << >>
    /\ Goto(p, "test")
    /\ UNCHANGED <<fields, lock, held, sent, delivered, raced, panic>>

\* The backlog was looked at before the lock was taken.  front and pop_front of
\* an empty list are undefined: the model ends there.
EmptyBacklog == "front of an empty list"

\* Mutant: the client is linked to itself.
LinkedToClient(client, new) ==
    [link_socket EXCEPT ![Server] = new, ![new] = client, ![client] = client]

\* The links of the server, of the new socket and of the client.
Linked(client, new) ==
    [link_socket EXCEPT ![Server] = new, ![new] = client, ![client] = new]

AcceptFront(p) ==
    /\ \/ /\ At(p, "accept", "set")
          /\ backlog_sockets = << >>
          /\ Stop(EmptyBacklog)
       \/ /\ LockSet(p, "accept")
          /\ backlog_sockets # << >>
          /\ client_socket' = [client_socket EXCEPT ![Server] = Head(backlog_sockets)]
          /\ backlog_sockets' = Tail(backlog_sockets)
          /\ Goto(p, "front")
          /\ UNCHANGED <<listening, server_socket, link_socket, backlog_count,
                         received_data, held, sent, delivered, panic>>

\* accept goes back to _client_socket for the links, and shutdown, which does not
\* hold the lock there, may have cleared it: a store through the null pointer.
NullClient == "_client_socket is null"

AcceptLink(p) ==
    LET client == client_socket[Server] IN
    /\ At(p, "accept", "front")
    /\ \/ client = None /\ Stop(NullClient)
       \/ /\ client # None
          /\ link_socket' = Linked(client, call[p].this)
          /\ call' = [call EXCEPT ![p] =
                IF received_data[Server] = << >>
                THEN [@ EXCEPT !.op = "moved", !.at = "hold"]
                ELSE [@ EXCEPT !.op = "move", !.at = "test",
                               !.target = call[p].this]]
          /\ UNCHANGED <<listening, server_socket, client_socket, backlog_sockets,
                         backlog_count, received_data, lock, held, sent, delivered,
                         raced, panic>>

\* Mutant: a block is put before those that wait.
Prepended(data, block) == <<block>> \o data

\* receive: emplace_back of a block.
Extended(data, block) == Append(data, block)

\* recv_sock->receive(block), for the next block of the server.  A shutdown that
\* took the lock of the server as well may have cleared the list accept goes
\* through: that is undefined, and the model ends there.
ClearedList == "next of a cleared list"

MoveBlock(p) ==
    LET c == call[p]
        next == c.moved + 1 IN
    /\ \/ /\ At(p, "move", "set")
          /\ next \notin DOMAIN received_data[Server]
          /\ Stop(ClearedList)
       \/ /\ LockSet(p, "move")
          /\ next \in DOMAIN received_data[Server]
          /\ received_data' = [received_data EXCEPT
                 ![c.target] = Extended(@, received_data[Server][next])]
          /\ call' = [call EXCEPT ![p].at = "free", ![p].moved = next]
          /\ UNCHANGED <<listening, server_socket, client_socket, link_socket,
                         backlog_sockets, backlog_count, held, sent, delivered,
                         panic>>

\* Mutant: the blocks that were moved stay.
MovedStay == received_data[Server]

\* _received_data.clear()
Cleared == << >>

AcceptClear(p) ==
    /\ At(p, "moved", "hold")
    /\ received_data' = [received_data EXCEPT ![Server] = Cleared]
    /\ Goto(p, "free")
    /\ UNCHANGED <<listening, server_socket, client_socket, link_socket,
                   backlog_sockets, backlog_count, lock, held, sent, delivered,
                   raced, panic>>

-----------------------------------------------------------------------------
(* Write and read *)

\* Where write finds the socket to append to, once and without a lock.
Peer(s) == IF link_socket[s] # None THEN link_socket[s] ELSE server_socket[s]

Write(p, s, n) ==
    LET block == [i \in 1 .. n |-> Len(sent) + i] IN
    /\ CanCall(p, s)
    /\ \/ listening[s] /\ Stop("Write on server socket")
       \/ ~listening[s] /\ Peer(s) = None /\ Stop("Not connected")
       \/ /\ ~listening[s] /\ Peer(s) # None
          /\ Len(sent) + n <= MaxUnits
          /\ sent' = sent \o [i \in 1 .. n |->
                [by |-> p, to |-> Peer(s), last |-> i = n]]
          /\ call' = [call EXCEPT ![p] =
                [Idle EXCEPT !.op = "receive", !.at = "test",
                             !.this = s, !.target = Peer(s), !.block = block]]
          /\ UNCHANGED <<fields, lock, held, delivered, raced, panic>>

Receive(p) ==
    LET c == call[p] IN
    /\ LockSet(p, "receive")
    /\ received_data' =
           [received_data EXCEPT ![c.target] = Extended(@, c.block)]
    /\ Goto(p, "free")
    /\ UNCHANGED <<listening, server_socket, client_socket, link_socket,
                   backlog_sockets, backlog_count, held, sent, delivered,
                   panic>>

Read(p, s, n, noblock) ==
    /\ CanCall(p, s)
    /\ call' = [call EXCEPT ![p] =
          [Idle EXCEPT !.op = "poll", !.at = "test", !.this = s, !.target = s,
                       !.size = n, !.noblock = noblock]]
    /\ UNCHANGED <<fields, lock, held, sent, delivered, raced, panic>>

\* Mutant: the lock stays taken on the way out with EAGAIN.
PolledLocked(c) ==
    IF c.noblock /\ received_data[c.this] = << >> THEN Idle
    ELSE [c EXCEPT !.at = "free"]

\* The test for EAGAIN; the lock is released either way.
Polled(c) ==
    IF c.noblock /\ received_data[c.this] = << >>
    THEN [c EXCEPT !.op = "eagain", !.at = "free"]
    ELSE [c EXCEPT !.at = "free"]

ReadPoll(p) ==
    /\ LockSet(p, "poll")
    /\ call' = [call EXCEPT ![p] = Polled(@)]
    /\ UNCHANGED <<fields, held, sent, delivered, panic>>

\* Mutant: the reader waits for a second block.
ArrivedTwice(s) == Len(received_data[s]) > 1

\* while (_received_data.empty());
Arrived(s) == received_data[s] # << >>

ReadAwait(p) ==
    /\ At(p, "read", "await")
    /\ Arrived(call[p].this)
    /\ Goto(p, "test")
    /\ UNCHANGED <<fields, lock, held, sent, delivered, raced, panic>>

\* Mutant: the rest of a block that is too long is not put back.
FirstOf(block, n) ==
    SubSeq(block, 1, IF Len(block) < n THEN Len(block) ELSE n)

\* What the loop of read leaves of a block in the last n places of the buffer.
\* A block that is too long is cut and the rest put back, but the count of what
\* was read is not raised: the rest overwrites the first part until it fits.
LastOf(block, n) ==
    SubSeq(block, Len(block) - ((Len(block) - 1) % n), Len(block))

\* The contents of a buffer of size n after the first i blocks.
Filled(data, n) ==
    LET buffer[i \in 0 .. Len(data)] ==
            IF i = 0 THEN << >>
            ELSE IF Len(buffer[i - 1]) = n THEN buffer[i - 1]
            ELSE buffer[i - 1] \o LastOf(data[i], n - Len(buffer[i - 1]))
    IN buffer

\* The blocks the loop of read takes off the list.
Consumed(data, n) ==
    CHOOSE i \in 0 .. Len(data) :
        /\ i = Len(data) \/ Len(Filled(data, n)[i]) = n
        /\ \A j \in 0 .. i - 1 : Len(Filled(data, n)[j]) # n

\* The blocks it leaves.
Left(data, n) == SubSeq(data, Consumed(data, n) + 1, Len(data))

ReadTake(p) ==
    LET c == call[p]
        data == received_data[c.this] IN
    /\ LockSet(p, "read")
    /\ delivered' = [delivered EXCEPT
           ![c.this] = @ \o Filled(data, c.size)[Len(data)]]
    /\ received_data' = [received_data EXCEPT ![c.this] = Left(data, c.size)]
    /\ Goto(p, "free")
    /\ UNCHANGED <<listening, server_socket, client_socket, link_socket,
                   backlog_sockets, backlog_count, held, sent, panic>>

-----------------------------------------------------------------------------
(* Close *)

\* close of a descriptor reaches the socket at once, whoever else has it open.
Close(p, s) ==
    /\ CanCall(p, s)
    /\ \/ listening[s] /\ Stop("close server")
       \/ /\ ~listening[s]
          /\ held' = [held EXCEPT ![p] = @ \ {s}]
          /\ call' = IF server_socket[s] = None THEN call
                     ELSE [call EXCEPT ![p] =
                             [Idle EXCEPT !.op = "shutdown", !.at = "client",
                                          !.this = s, !.closing = <<s>>,
                                          !.target = server_socket[s]]]
          /\ UNCHANGED <<fields, lock, sent, delivered, raced, panic>>

\* shutdown(sock) of the server looks at the client accepted last: if it is
\* another one it closes that, which may be a nested call of shutdown.
ShutdownClient(p) ==
    LET c == call[p]
        client == client_socket[c.target] IN
    /\ At(p, "shutdown", "client")
    /\ call' = [call EXCEPT ![p] =
          CASE client \in {None, Head(c.closing)} -> [c EXCEPT !.at = "link"]
            [] client \notin {None, Head(c.closing)}
               /\ server_socket[client] = None -> [c EXCEPT !.at = "drop"]
            [] OTHER -> [c EXCEPT !.closing = <<client>> \o @]]
    /\ UNCHANGED <<fields, lock, held, sent, delivered, raced, panic>>

\* _client_socket = nullptr
ShutdownDrop(p) ==
    LET c == call[p] IN
    /\ At(p, "shutdown", "drop")
    /\ client_socket' = [client_socket EXCEPT ![c.target] = None]
    /\ Goto(p, "link")
    /\ UNCHANGED <<listening, server_socket, link_socket, backlog_sockets,
                   backlog_count, received_data, lock, held, sent, delivered,
                   raced, panic>>

\* The link of the server is a socket accept made; to close it does nothing.
ShutdownLink(p) ==
    LET c == call[p] IN
    /\ At(p, "shutdown", "link")
    /\ link_socket' = [link_socket EXCEPT ![c.target] = None]
    /\ Goto(p, "test")
    /\ UNCHANGED <<listening, server_socket, client_socket, backlog_sockets,
                   backlog_count, received_data, lock, held, sent, delivered,
                   raced, panic>>

\* remove(sock)
Without(list, gone) ==
    LET kept[i \in 0 .. Len(list)] ==
            IF i = 0 THEN << >>
            ELSE IF list[i] = gone THEN kept[i - 1]
            ELSE Append(kept[i - 1], list[i])
    IN kept[Len(list)]

ShutdownClear(p) ==
    LET c == call[p] IN
    /\ LockSet(p, "shutdown")
    /\ backlog_sockets' = Without(backlog_sockets, Head(c.closing))
    /\ received_data' = [received_data EXCEPT ![c.target] = << >>]
    /\ Goto(p, "free")
    /\ UNCHANGED <<listening, server_socket, client_socket, link_socket,
                   backlog_count, held, sent, delivered, panic>>

-----------------------------------------------------------------------------

\* panic() clears interrupts and halts.
Halted == ~Running /\ UNCHANGED vars

\* What a program calls is its own choice; the rest is the kernel's code.
Request(p) ==
    \/ \E count \in Backlogs : Listen(p, count)
    \/ Accept(p)
    \/ \E s \in Socket :
          \/ Connect(p, s)
          \/ Close(p, s)
          \/ \E n \in BlockSizes : Write(p, s, n)
          \/ \E n \in ReadSizes, noblock \in BOOLEAN : Read(p, s, n, noblock)

Proceed(p) ==
    \/ LockTest(p) \/ Unlock(p)
    \/ BacklogAdmits(p) \/ Register(p) \/ Registered(p)
    \/ BacklogVacant(p) \/ AcceptFront(p) \/ AcceptLink(p)
    \/ MoveBlock(p) \/ AcceptClear(p)
    \/ Receive(p) \/ ReadPoll(p) \/ ReadAwait(p) \/ ReadTake(p)
    \/ ShutdownClient(p) \/ ShutdownDrop(p) \/ ShutdownLink(p)
    \/ ShutdownClear(p)

Next == Halted \/ \E p \in Process : Request(p) \/ Proceed(p)

Spec == Init /\ [][Next]_vars

\* The scheduler gives every process the CPU again and again.
Fairness == \A p \in Process : WF_vars(Proceed(p))

FairSpec == Spec /\ Fairness

-----------------------------------------------------------------------------
(* Safety *)

Unit == 1 .. MaxUnits
Blocks == Seq(Seq(Unit))
Ops == {"none", "receive", "poll", "eagain", "read", "register", "accept",
        "move", "moved", "shutdown"}
Places == {"user", "test", "set", "hold", "free", "await", "full",
           "registered", "vacant", "front", "client", "drop", "link"}

Calls == [op : Ops, at : Places, this : Socket \cup {None},
          target : Socket \cup {None}, block : Seq(Unit), size : Nat,
          noblock : BOOLEAN, moved : Nat, closing : Seq(Client)]

\* Type correctness: a client is linked to a socket accept made, and that one
\* to a client.
TypeOK ==
    /\ listening \in [Socket -> BOOLEAN]
    /\ server_socket \in [Socket -> {None, Server}]
    /\ client_socket \in [Socket -> Client \cup {None}]
    /\ link_socket \in [Socket -> Client \cup Accepted \cup {None}]
    /\ \A a \in Accepted : link_socket[a] \in Client \cup {None}
    /\ \A s \in Socket \ Accepted : link_socket[s] \in Accepted \cup {None}
    /\ backlog_sockets \in Seq(Client)
    /\ backlog_count \in Nat
    /\ received_data \in [Socket -> Blocks]
    /\ lock \in [Socket -> BOOLEAN]
    /\ held \in [Process -> SUBSET Socket]
    /\ call \in [Process -> Calls]
    /\ sent \in Seq([by : Process, to : Socket, last : BOOLEAN])
    /\ delivered \in [Socket -> Seq(Unit)]
    /\ raced \in BOOLEAN

\* The assertion in unlock (net.cpp 41) that the lock is taken.
NeverUnlocked == panic # Unlocked

\* That assertion fails only where two processes both found a lock free before
\* one of them set it: no path of a call releases a lock twice, or one it has
\* not taken.
UnlockedByRace == panic = Unlocked => raced

\* Nothing is read twice, whichever sockets it passes through on its way: what
\* was written before a client was accepted is moved to the new socket, not
\* copied, although the blocks move one at a time.
DeliveredOnce ==
    ~raced =>
        \A s, t \in Socket :
            \A i \in DOMAIN delivered[s], j \in DOMAIN delivered[t] :
                delivered[s][i] = delivered[t][j] => s = t /\ i = j

\* What one process writes on a link is read in the order it was written, with
\* any number of readers and of other writers.
LinkIsFifo ==
    ~raced =>
        \A s \in Socket : \A i, j \in DOMAIN delivered[s] :
            LET u == sent[delivered[s][i]]
                v == sent[delivered[s][j]] IN
            i < j /\ u.by = v.by /\ u.to = s /\ v.to = s
                => delivered[s][i] < delivered[s][j]

Units(data) == UNION {{data[i][j] : j \in DOMAIN data[i]} : i \in DOMAIN data}

\* The last unit of every block written on a link is with the peer or has been
\* read from it, once the call has appended it: neither closing other clients,
\* accepting more of them nor a buffer smaller than the block loses it.  The units
\* before it may be lost, where read cuts the block.
LinkKeeps ==
    ~raced =>
        \A u \in DOMAIN sent :
            sent[u].to # Server /\ sent[u].last =>
                \/ \E p \in Process :
                      call[p].op = "receive" /\ u \in Units(<<call[p].block>>)
                \/ u \in Units(received_data[sent[u].to])
                \/ \E i \in DOMAIN delivered[sent[u].to] :
                      delivered[sent[u].to][i] = u

-----------------------------------------------------------------------------
(* Liveness *)

\* A lock that is taken is released: accept holds that of the server while it
\* takes that of the new socket, and close may shut down other clients first,
\* but no circle of processes waits for locks.
LocksReleased == \A s \in Socket : lock[s] ~> ~lock[s] \/ ~Running

\* Process p is in a read of socket s and has not taken its data yet.
Reads(p, s) ==
    /\ call[p].op \in {"poll", "read"} /\ call[p].this = s
    /\ call[p].op = "read" => call[p].at # "free"

\* A reader that waits on a socket with data gets some, or another reader or a
\* shutdown takes it away.
DataIsRead ==
    \A s \in Socket, n \in 0 .. MaxUnits :
        (/\ received_data[s] # << >> /\ Len(delivered[s]) = n
         /\ \E p \in Process : Reads(p, s))
        ~> (Len(delivered[s]) # n \/ received_data[s] = << >> \/ ~Running)
=============================================================================
