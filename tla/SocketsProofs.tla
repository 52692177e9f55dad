----------------------------- MODULE SocketsProofs -----------------------------
(***************************************************************************)
(* Theorems about Sockets, for every set of processes and of sockets, every *)
(* size of a block and of a buffer, and every number of units written.      *)
(***************************************************************************)
EXTENDS Sockets, Lemmas, SequenceTheorems

-----------------------------------------------------------------------------
(* The inductive invariant *)

\* What the calls of each operation have in their locals.
CallShape(c) ==
    /\ c.op = "none" => c.at = "user"
    /\ c.op = "receive" =>
          c.at \in {"test", "set", "free"} /\ c.target \in Socket
    /\ c.op \in {"poll", "read"} =>
          /\ c.at \in {"await", "test", "set", "free"}
          /\ c.target \in Socket /\ c.this = c.target /\ c.size # 0
    /\ c.op = "eagain" => c.at = "free" /\ c.target \in Socket
    /\ c.op = "register" =>
          /\ c.at \in {"full", "test", "set", "free", "registered"}
          /\ c.this \in Client /\ c.target = Server
    /\ c.op = "accept" =>
          /\ c.at \in {"vacant", "test", "set", "front"}
          /\ c.this \in Accepted /\ c.target = Server /\ c.moved = 0
    /\ c.op = "move" =>
          /\ c.at \in {"test", "set", "free"}
          /\ c.this \in Accepted /\ c.target = c.this
    /\ c.op = "moved" =>
          /\ c.at \in {"hold", "free"}
          /\ c.this \in Accepted /\ c.target = Server
    /\ c.op = "shutdown" =>
          /\ c.at \in {"client", "drop", "link", "test", "set", "free"}
          /\ c.closing # << >> /\ c.target = Server

\* A block is what one call of write wrote: its units rise, and the last one is
\* marked.
WellFormed(units, b) ==
    /\ b \in Seq(Unit) /\ b # << >>
    /\ \A j \in DOMAIN b :
          /\ b[j] \in DOMAIN units
          /\ units[b[j]].by = units[b[1]].by
          /\ units[b[j]].to = units[b[1]].to
          /\ units[b[j]].last <=> j = Len(b)
    /\ \A i, j \in DOMAIN b : i < j => b[i] < b[j]

\* A list of blocks, none of them empty.
BlockList == {data \in Seq(Seq(Unit)) : \A i \in DOMAIN data : data[i] # << >>}

\* TypeOK, in three parts.
FieldsInv ==
    /\ listening \in [Socket -> BOOLEAN]
    /\ server_socket \in [Socket -> {None, Server}]
    /\ \A s \in Socket : server_socket[s] # None => s \in Client
    /\ client_socket \in [Socket -> Client \cup {None}]
    /\ link_socket \in [Socket -> Client \cup Accepted \cup {None}]
    /\ \A a \in Accepted : link_socket[a] \in Client \cup {None}
    /\ \A s \in Socket \ Accepted : link_socket[s] \in Accepted \cup {None}
    /\ backlog_sockets \in Seq(Client)
    /\ backlog_count \in Nat
    /\ held \in [Process -> SUBSET Socket]

DataInv ==
    /\ received_data \in [Socket -> BlockList]
    /\ sent \in Seq([by : Process, to : Socket, last : BOOLEAN])
    /\ Len(sent) <= MaxUnits
    /\ delivered \in [Socket -> Seq(Unit)]

CallsInv ==
    /\ call \in [Process -> Calls]
    /\ \A p \in Process : CallShape(call[p])

\* The blocks of a list were written to its socket, or to the server and moved.
BlocksInv ==
    /\ \A s \in Socket : \A k \in DOMAIN received_data[s] :
          LET b == received_data[s][k] IN
          /\ WellFormed(sent, b)
          /\ sent[b[1]].to = s \/ (s \in Accepted /\ sent[b[1]].to = Server)
    /\ \A p \in Process : call[p].op = "receive" =>
          LET b == call[p].block IN
          /\ WellFormed(sent, b)
          /\ sent[b[1]].by = p
          /\ sent[b[1]].to = call[p].target

\* The sockets whose locks a call has taken.
Holds(c) ==
    (IF c.at \in {"free", "hold", "front"} THEN {c.target} ELSE {})
       \cup (IF c.op = "move" THEN {Server} ELSE {})

LocksInv ==
    /\ lock \in [Socket -> BOOLEAN] /\ raced \in BOOLEAN
    /\ ~raced =>
          /\ \A s \in Socket : lock[s] <=> \E p \in Process : s \in Holds(call[p])
          /\ \A p, q \in Process : p # q => Holds(call[p]) \cap Holds(call[q]) = {}
    /\ UnlockedByRace

\* A block that write has cut and receive has not appended yet.
Pending(c) == c.op = "receive" /\ c.at \in {"test", "set"}

\* The last unit of a block is where LinkKeeps says.
Kept(u) ==
    \/ \E p \in Process : Pending(call[p]) /\ \E j \in DOMAIN call[p].block :
          call[p].block[j] = u
    \/ \E k \in DOMAIN received_data[sent[u].to] :
          \E j \in DOMAIN received_data[sent[u].to][k] :
             received_data[sent[u].to][k][j] = u
    \/ \E i \in DOMAIN delivered[sent[u].to] : delivered[sent[u].to][i] = u

KeptInv ==
    \A u \in DOMAIN sent : sent[u].to # Server /\ sent[u].last => Kept(u)

\* u and v were written by one process to the socket s.
OneWay(s, u, v) ==
    sent[u].by = sent[v].by /\ sent[u].to = s /\ sent[v].to = s

\* What one process has written on a link is in order: what was read,
ReadInOrder ==
    \A s \in Socket : \A i, j \in DOMAIN delivered[s] :
       /\ delivered[s][i] \in DOMAIN sent
       /\ i < j /\ OneWay(s, delivered[s][i], delivered[s][j])
             => delivered[s][i] < delivered[s][j]

\* what waits to be read,
WaitingAfterRead ==
    \A s \in Socket : \A i \in DOMAIN delivered[s] :
    \A k \in DOMAIN received_data[s] : \A m \in DOMAIN received_data[s][k] :
       OneWay(s, delivered[s][i], received_data[s][k][m])
          => delivered[s][i] < received_data[s][k][m]

WaitingInOrder ==
    \A s \in Socket : \A k, l \in DOMAIN received_data[s] :
    \A i \in DOMAIN received_data[s][k] : \A j \in DOMAIN received_data[s][l] :
       k < l /\ OneWay(s, received_data[s][k][i], received_data[s][l][j])
          => received_data[s][k][i] < received_data[s][l][j]

\* and the block that write is about to append, which is the latest of all.
PendingLast ==
    \A p \in Process : Pending(call[p]) =>
    \A m \in DOMAIN call[p].block : \A s \in Socket :
       /\ \A i \in DOMAIN delivered[s] :
             sent[delivered[s][i]].by = p => delivered[s][i] < call[p].block[m]
       /\ \A k \in DOMAIN received_data[s] : \A i \in DOMAIN received_data[s][k] :
             sent[received_data[s][k][i]].by = p
                => received_data[s][k][i] < call[p].block[m]

OrderInv == ReadInOrder /\ WaitingAfterRead /\ WaitingInOrder /\ PendingLast

\* A block of the server that accept has moved, and not cleared yet, is a copy.
Live(s, k) ==
    s = Server =>
       \A p \in Process :
          /\ call[p].op = "move" => k > call[p].moved
          /\ ~(call[p].op = "moved" /\ call[p].at = "hold")

Apart(b, c) == \A i \in DOMAIN b : \A j \in DOMAIN c : b[i] # c[j]

\* No unit is at two places, copies apart.
OnceInv ==
    ~raced =>
    /\ \A s, t \in Socket :
       \A k \in DOMAIN received_data[s], l \in DOMAIN received_data[t] :
          Live(s, k) /\ Live(t, l) /\ (s # t \/ k # l)
             => Apart(received_data[s][k], received_data[t][l])
    /\ \A p \in Process, s \in Socket : \A k \in DOMAIN received_data[s] :
          Pending(call[p]) => Apart(call[p].block, received_data[s][k])
    /\ \A p, q \in Process :
          Pending(call[p]) /\ Pending(call[q]) /\ p # q
             => Apart(call[p].block, call[q].block)
    /\ \A s, t \in Socket : \A l \in DOMAIN received_data[t] :
          Live(t, l) => Apart(delivered[s], received_data[t][l])
    /\ \A p \in Process, s \in Socket :
          Pending(call[p]) => Apart(delivered[s], call[p].block)
    /\ DeliveredOnce

\* The part of the invariant about data, and all of it.
DataIs == DataInv /\ BlocksInv /\ KeptInv /\ OrderInv /\ OnceInv

SocketsInv == FieldsInv /\ CallsInv /\ LocksInv /\ DataIs

-----------------------------------------------------------------------------
(* What read does with the blocks *)

LEMMA Remainder ==
    ASSUME NEW a \in Nat, NEW n \in Nat \ {0}
    PROVE  a % n \in 0 .. n - 1 /\ a % n <= a
  OBVIOUS

LEMMA LastOfProperties ==
    ASSUME NEW b \in Seq(Unit), b # << >>, NEW n \in Nat \ {0}
    PROVE  /\ LastOf(b, n) \in Seq(Unit)
           /\ Len(LastOf(b, n)) \in 1 .. n /\ Len(LastOf(b, n)) <= Len(b)
           /\ \A i \in 1 .. Len(LastOf(b, n)) :
                 LastOf(b, n)[i] = b[Len(b) - Len(LastOf(b, n)) + i]
  <1> DEFINE r == (Len(b) - 1) % n
             m == Len(b) - r
  <1>1. Len(b) \in Nat \ {0}
    BY EmptySeq
  <1>2. Len(b) - 1 \in Nat
    BY <1>1
  <1>3. r \in 0 .. n - 1 /\ r <= Len(b) - 1
    BY <1>2, Remainder
  <1>4. m \in 1 .. Len(b)
    BY <1>1, <1>3
  <1>5. LastOf(b, n) = SubSeq(b, m, Len(b))
    BY DEF LastOf
  <1>6. \A i \in m .. Len(b) : b[i] \in Unit
    BY <1>1, <1>4
  <1> HIDE DEF m, Unit
  <1>7. /\ SubSeq(b, m, Len(b)) \in Seq(Unit)
        /\ Len(SubSeq(b, m, Len(b))) = IF m <= Len(b) THEN Len(b) - m + 1 ELSE 0
        /\ \A i \in 1 .. Len(b) - m + 1 : SubSeq(b, m, Len(b))[i] = b[m + i - 1]
    BY <1>1, <1>4, <1>6, SubSeqProperties
  <1>8. Len(LastOf(b, n)) = r + 1
    BY <1>1, <1>3, <1>4, <1>5, <1>7 DEF m
  <1> HIDE DEF r
  <1>9. Len(b) - m + 1 = r + 1 /\ \A i \in Int : Len(b) - (r + 1) + i = m + i - 1
    BY <1>1, <1>3 DEF m
  <1> QED BY <1>1, <1>3, <1>5, <1>7, <1>8, <1>9

\* The contents of a buffer of n units.
Buffer(n) == {b \in Seq(Unit) : Len(b) <= n}

\* What the loop of read does with one block.
Fill(buffer, block, n) ==
    IF Len(buffer) = n THEN buffer
    ELSE buffer \o LastOf(block, n - Len(buffer))

LEMMA BlockListShape ==
    ASSUME NEW data \in BlockList
    PROVE  /\ Len(data) \in Nat /\ DOMAIN data = 1 .. Len(data)
           /\ \A i \in 1 .. Len(data) : data[i] \in Seq(Unit) /\ data[i] # << >>
  <1> HIDE DEF Unit
  <1> QED BY LenProperties, ElementOfSeq DEF BlockList

LEMMA FillFits ==
    ASSUME NEW n \in Nat \ {0}, NEW b \in Buffer(n),
           NEW block \in Seq(Unit), block # << >>
    PROVE  Fill(b, block, n) \in Buffer(n)
  <1>1. b \in Seq(Unit) /\ Len(b) \in Nat /\ Len(b) <= n
    BY DEF Buffer
  <1>2. CASE Len(b) = n
    BY <1>1, <1>2 DEF Fill, Buffer
  <1>3. CASE Len(b) # n
    <2> DEFINE m == n - Len(b)
               last == LastOf(block, m)
    <2>1. m \in Nat \ {0}
      BY <1>1, <1>3
    <2> HIDE DEF m
    <2>2. last \in Seq(Unit) /\ Len(last) \in 1 .. m
      BY <2>1, LastOfProperties
    <2>3. Fill(b, block, n) = b \o last
      BY <1>3 DEF Fill, m
    <2> HIDE DEF last, Unit
    <2>4. b \o last \in Seq(Unit) /\ Len(b \o last) = Len(b) + Len(last)
      BY <1>1, <2>2, ConcatProperties
    <2> QED BY <1>1, <2>1, <2>2, <2>3, <2>4 DEF Buffer, m
  <1> QED BY <1>2, <1>3

\* The loop fills one buffer block by block.
LEMMA FilledSteps ==
    ASSUME NEW data \in BlockList, NEW n \in Nat \ {0}
    PROVE  /\ Filled(data, n)[0] = << >>
           /\ \A i \in 0 .. Len(data) : Filled(data, n)[i] \in Buffer(n)
           /\ \A i \in 1 .. Len(data) :
                 Filled(data, n)[i] = Fill(Filled(data, n)[i - 1], data[i], n)
  <1> DEFINE N == Len(data)
             F == Filled(data, n)
             S == Buffer(n)
             step == [a \in (1 .. N) \X S |-> Fill(a[2], data[a[1]], n)]
             Def(f) == f = [i \in 0 .. N |->
                 IF i = 0 THEN << >>
                 ELSE IF Len(f[i - 1]) = n THEN f[i - 1]
                 ELSE f[i - 1] \o LastOf(data[i], n - Len(f[i - 1]))]
  <1>1. N \in Nat /\ \A i \in 1 .. N : data[i] \in Seq(Unit) /\ data[i] # << >>
    BY BlockListShape
  <1>2. << >> \in S
    BY DEF Buffer
  <1>3. \A i \in 1 .. N : \A b \in S : Fill(b, data[i], n) \in S
    BY <1>1, FillFits
  <1> HIDE DEF S
  <1>4. step \in [(1 .. N) \X S -> S]
    BY <1>3
  <1>5. \A i \in 1 .. N : \A b \in S : step[<<i, b>>] = Fill(b, data[i], n)
    OBVIOUS
  <1> HIDE DEF N, F, step, Def
  <1>6. PICK f \in [0 .. N -> S] :
            /\ f[0] = << >>
            /\ \A i \in 1 .. N : f[i] = step[<<i, f[i - 1]>>]
    <2>1. PICK f : Computes(f, N, S, << >>, step)
      BY <1>1, <1>2, <1>4, Recursion
    <2> QED BY <2>1 DEF Computes
  <1>7. \A i \in 1 .. N : i - 1 \in 0 .. N /\ f[i - 1] \in S
    BY <1>1
  <1>8. \A i \in 1 .. N : f[i] = Fill(f[i - 1], data[i], n)
    BY <1>5, <1>6, <1>7
  <1>9. \A i \in 0 .. N : f[i] =
            IF i = 0 THEN << >>
            ELSE IF Len(f[i - 1]) = n THEN f[i - 1]
            ELSE f[i - 1] \o LastOf(data[i], n - Len(f[i - 1]))
    <2>1. ASSUME NEW i \in 1 .. N
          PROVE  f[i] = IF Len(f[i - 1]) = n THEN f[i - 1]
                        ELSE f[i - 1] \o LastOf(data[i], n - Len(f[i - 1]))
      BY <1>8 DEF Fill
    <2>2. \A i \in 0 .. N : i = 0 \/ (i # 0 /\ i \in 1 .. N)
      BY <1>1
    <2> QED BY <1>6, <2>1, <2>2
  <1>10. Def(f)
    BY <1>6, <1>9 DEF Def
  <1>11. F = CHOOSE g : Def(g)
    BY DEF F, Filled, N, Def
  <1>12. Def(F)
    BY <1>10, <1>11
  <1>13. F[0] = << >>
    BY <1>1, <1>12 DEF Def
  <1>14. ASSUME NEW i \in 1 .. N
         PROVE  F[i] = Fill(F[i - 1], data[i], n)
    <2>1. i \in 0 .. N /\ i # 0
      BY <1>1
    <2>2. F[i] = IF i = 0 THEN << >>
                 ELSE IF Len(F[i - 1]) = n THEN F[i - 1]
                 ELSE F[i - 1] \o LastOf(data[i], n - Len(F[i - 1]))
      BY <1>12, <2>1 DEF Def
    <2> QED BY <2>1, <2>2 DEF Fill
  <1>15. \A i \in 0 .. N : F[i] \in S
    <2> DEFINE T == {i \in 0 .. N : F[i] \in S}
    <2>1. 0 \in T
      BY <1>1, <1>2, <1>13
    <2>2. ASSUME NEW i \in 0 .. N - 1, i \in T PROVE i + 1 \in T
      <3>1. i + 1 \in 1 .. N /\ (i + 1) - 1 = i /\ F[i] \in S
        BY <1>1, <2>2
      <3> QED BY <1>3, <1>14, <3>1
    <2> HIDE DEF T
    <2>3. 0 .. N \subseteq T
      BY <1>1, <2>1, <2>2, IntervalInduction
    <2> QED BY <2>3 DEF T
  <1> QED BY <1>13, <1>14, <1>15 DEF F, N, S

\* The units of a buffer are units of the first i blocks, in their order.
Picks(data, buffer, blk, pos, i) ==
    /\ blk \in [1 .. Len(buffer) -> 1 .. i]
    /\ pos \in [1 .. Len(buffer) -> Nat]
    /\ \A x \in 1 .. Len(buffer) :
          /\ pos[x] \in 1 .. Len(data[blk[x]])
          /\ buffer[x] = data[blk[x]][pos[x]]
    /\ \A x, y \in 1 .. Len(buffer) : x < y =>
          blk[x] < blk[y] \/ (blk[x] = blk[y] /\ pos[x] < pos[y])

LEMMA PicksMore ==
    ASSUME NEW data \in BlockList, NEW b \in Seq(Unit), NEW blk, NEW pos,
           NEW i \in Nat, NEW j \in Nat, i <= j, Picks(data, b, blk, pos, i)
    PROVE  Picks(data, b, blk, pos, j)
  BY DEF Picks

\* A longer buffer, which ends with the end of block i.
Continues(data, i, b, new) ==
    /\ new \in Seq(Unit)
    /\ Len(new) > Len(b)
    /\ \E blk, pos : Picks(data, new, blk, pos, i)
    /\ \A x \in DOMAIN b : x \in DOMAIN new /\ new[x] = b[x]
    /\ new[Len(new)] = data[i][Len(data[i])]

\* The end of the next block is appended.
LEMMA PicksExtend ==
    ASSUME NEW data \in BlockList, NEW b \in Seq(Unit), NEW blk, NEW pos,
           NEW i \in 0 .. Len(data) - 1, Picks(data, b, blk, pos, i),
           NEW m \in Nat \ {0}
    PROVE  Continues(data, i + 1, b, b \o LastOf(data[i + 1], m))
  <1> DEFINE block == data[i + 1]
             last == LastOf(block, m)
             L == Len(b)
             l == Len(last)
             new == b \o last
             blk2 == [x \in 1 .. L + l |-> IF x <= L THEN blk[x] ELSE i + 1]
             pos2 == [x \in 1 .. L + l |->
                        IF x <= L THEN pos[x] ELSE Len(block) - l + (x - L)]
  <1>1. Len(data) \in Nat /\ i + 1 \in 1 .. Len(data)
    BY BlockListShape
  <1>2. block \in Seq(Unit) /\ block # << >>
    BY <1>1, BlockListShape
  <1>3. Len(block) \in Nat
    BY <1>2
  <1> HIDE DEF block
  <1>4. /\ last \in Seq(Unit) /\ l \in 1 .. m /\ l <= Len(block)
        /\ \A x \in 1 .. l : last[x] = block[Len(block) - l + x]
    BY <1>2, LastOfProperties
  <1> HIDE DEF last, Unit
  <1>5. L \in Nat /\ DOMAIN b = 1 .. L
    OBVIOUS
  <1>6. /\ new \in Seq(Unit) /\ Len(new) = L + l
        /\ \A x \in 1 .. L + l : new[x] = IF x <= L THEN b[x] ELSE last[x - L]
    BY <1>4, ConcatProperties
  <1> HIDE DEF new, L, l
  <1>7. l \in Nat \ {0} /\ l <= m
    BY <1>4
  <1>8. Len(new) > L
    BY <1>5, <1>6, <1>7
  <1>9. \A x \in 1 .. L : x \in 1 .. L + l /\ new[x] = b[x]
    BY <1>5, <1>6, <1>7
  <1>10. \A x \in L + 1 .. L + l :
            /\ x \in 1 .. L + l /\ ~(x <= L) /\ x - L \in 1 .. l
            /\ new[x] = block[Len(block) - l + (x - L)]
    <2> TAKE x \in L + 1 .. L + l
    <2>1. x \in 1 .. L + l /\ ~(x <= L) /\ x - L \in 1 .. l
      BY <1>5, <1>7
    <2>2. new[x] = last[x - L]
      BY <1>6, <2>1
    <2>3. last[x - L] = block[Len(block) - l + (x - L)]
      BY <1>4, <2>1
    <2> QED BY <2>1, <2>2, <2>3
  <1>11. new[L + l] = block[Len(block)]
    <2>1. L + l \in L + 1 .. L + l /\ Len(block) - l + ((L + l) - L) = Len(block)
      BY <1>3, <1>5, <1>7
    <2> QED BY <1>10, <2>1
  <1>12. DOMAIN new = 1 .. L + l
    BY <1>6, LenProperties
  <1>13. /\ blk \in [1 .. L -> 1 .. i] /\ pos \in [1 .. L -> Nat]
         /\ \A x \in 1 .. L :
               pos[x] \in 1 .. Len(data[blk[x]]) /\ b[x] = data[blk[x]][pos[x]]
         /\ \A x, y \in 1 .. L : x < y =>
               blk[x] < blk[y] \/ (blk[x] = blk[y] /\ pos[x] < pos[y])
    BY DEF Picks, L
  <1>14. \A x \in 1 .. L : x \in 1 .. L + l /\ blk2[x] = blk[x] /\ pos2[x] = pos[x]
    BY <1>5, <1>7
  <1>15. \A x \in L + 1 .. L + l :
            /\ blk2[x] = i + 1
            /\ pos2[x] = Len(block) - l + (x - L)
            /\ pos2[x] \in 1 .. Len(block)
    BY <1>3, <1>4, <1>5, <1>7, <1>10
  <1> HIDE DEF blk2, pos2
  <1>16. \A x \in 1 .. L + l : x \in 1 .. L \/ x \in L + 1 .. L + l
    BY <1>5, <1>7
  <1>17. blk2 \in [1 .. L + l -> 1 .. i + 1] /\ pos2 \in [1 .. L + l -> Nat]
    <2>1. \A x \in 1 .. L + l : blk2[x] \in 1 .. i + 1 /\ pos2[x] \in Nat
      BY <1>3, <1>13, <1>14, <1>15, <1>16
    <2> QED BY <2>1 DEF blk2, pos2
  <1>18. \A x \in 1 .. L + l :
            pos2[x] \in 1 .. Len(data[blk2[x]]) /\ new[x] = data[blk2[x]][pos2[x]]
    BY <1>9, <1>10, <1>13, <1>14, <1>15, <1>16 DEF block
  <1>19. ASSUME NEW x \in 1 .. L + l, NEW y \in 1 .. L + l, x < y
         PROVE  blk2[x] < blk2[y] \/ (blk2[x] = blk2[y] /\ pos2[x] < pos2[y])
    <2>1. CASE y \in 1 .. L
      BY SMTT(60), <1>5, <1>13, <1>14, <1>19, <2>1
    <2>2. CASE x \in 1 .. L /\ y \in L + 1 .. L + l
      BY <1>5, <1>13, <1>14, <1>15, <2>2
    <2>3. CASE x \in L + 1 .. L + l /\ y \in L + 1 .. L + l
      BY <1>3, <1>5, <1>7, <1>15, <1>19, <2>3
    <2> QED BY <1>5, <1>7, <1>16, <1>19, <2>1, <2>2, <2>3
  <1>20. Picks(data, new, blk2, pos2, i + 1)
    BY <1>6, <1>17, <1>18, <1>19 DEF Picks
  <1>21. Continues(data, i + 1, b, new)
    BY <1>5, <1>6, <1>8, <1>9, <1>11, <1>12, <1>20 DEF Continues, block, L
  <1> QED BY <1>21 DEF new, last, block

\* The loop takes the first Consumed blocks: what is read are units of theirs in
\* their order, the last unit of each among them.
LEMMA FilledPicks ==
    ASSUME NEW data \in BlockList, NEW n \in Nat \ {0}
    PROVE  /\ Consumed(data, n) \in 0 .. Len(data)
           /\ Filled(data, n)[Len(data)] \in Seq(Unit)
           /\ \E blk, pos :
                 Picks(data, Filled(data, n)[Len(data)], blk, pos, Consumed(data, n))
           /\ \A k \in 1 .. Consumed(data, n) :
                 \E x \in DOMAIN Filled(data, n)[Len(data)] :
                    Filled(data, n)[Len(data)][x] = data[k][Len(data[k])]
  <1> DEFINE N == Len(data)
             F == Filled(data, n)
             c == Consumed(data, n)
             Stops(i) == i = N \/ Len(F[i]) = n
             S == {i \in 0 .. N : Stops(i)}
             low(i) == IF i < c THEN i ELSE c
  <1>1. N \in Nat
    BY BlockListShape
  <1>2. /\ F[0] = << >>
        /\ \A i \in 0 .. N : F[i] \in Buffer(n)
        /\ \A i \in 1 .. N : F[i] = Fill(F[i - 1], data[i], n)
    BY FilledSteps
  <1>3. \A i \in 0 .. N : F[i] \in Seq(Unit) /\ Len(F[i]) \in Nat
    BY <1>2 DEF Buffer
  <1>4. c = CHOOSE i \in 0 .. N :
              Stops(i) /\ \A j \in 0 .. i - 1 : Len(F[j]) # n
    BY DEF Consumed
  <1> HIDE DEF F, c, N
  <1>5. PICK m \in S : \A i \in S : m <= i
    BY <1>1, LeastNumber, N \in S, S \subseteq Nat
  <1>6. m \in 0 .. N /\ Stops(m) /\ \A j \in 0 .. m - 1 : Len(F[j]) # n
    <2>1. m \in 0 .. N /\ Stops(m)
      BY <1>5
    <2>2. ASSUME NEW j \in 0 .. m - 1, Len(F[j]) = n PROVE FALSE
      <3>1. j \in S
        BY <1>1, <2>1, <2>2
      <3>2. m <= j
        BY <1>5, <3>1
      <3> QED BY <2>1, <3>2
    <2> QED BY <2>1, <2>2
  <1>7. c \in 0 .. N /\ Stops(c) /\ \A j \in 0 .. c - 1 : Len(F[j]) # n
    BY <1>4, <1>6
  <1> DEFINE Good(i) ==
        /\ i > c => Len(F[i]) = n
        /\ \E blk, pos : Picks(data, F[i], blk, pos, low(i))
        /\ \A k \in 1 .. low(i) : \E x \in DOMAIN F[i] :
              F[i][x] = data[k][Len(data[k])]
             T == {i \in 0 .. N : Good(i)}
  <1>8. 0 \in T
    <2>1. low(0) = 0
      BY <1>7
    <2>2. Picks(data, << >>, << >>, << >>, 0)
      BY DEF Picks
    <2> QED BY <1>1, <1>2, <1>7, <2>1, <2>2
  <1>9. ASSUME NEW i \in 0 .. N - 1, i \in T
        PROVE  i + 1 \in T
    <2>1. i + 1 \in 1 .. N /\ i \in 0 .. N /\ (i + 1) - 1 = i
      BY <1>1
    <2>2. Good(i)
      BY <1>9
    <2>3. F[i + 1] = Fill(F[i], data[i + 1], n)
      BY <1>2, <2>1
    <2>4. CASE i >= c
      <3>1. Len(F[i]) = n
        BY <1>1, <1>7, <2>1, <2>2, <2>4
      <3>2. F[i + 1] = F[i]
        BY <2>3, <3>1 DEF Fill
      <3>3. low(i + 1) = low(i)
        BY <1>7, <2>1, <2>4
      <3> QED BY <2>1, <2>2, <3>1, <3>2, <3>3
    <2>5. CASE i < c
      <3>1. Len(F[i]) # n /\ Len(F[i]) <= n
        BY <1>2, <1>7, <2>1, <2>5 DEF Buffer
      <3> DEFINE r == n - Len(F[i])
      <3>2. r \in Nat \ {0}
        BY <1>3, <2>1, <3>1
      <3>3. F[i + 1] = F[i] \o LastOf(data[i + 1], r)
        BY <2>3, <3>1 DEF Fill
      <3> HIDE DEF r
      <3>4. low(i) = i /\ low(i + 1) = i + 1
        BY <1>7, <2>1, <2>5
      <3>5. PICK blk, pos : Picks(data, F[i], blk, pos, i)
        BY <2>2, <3>4
      <3>6. Continues(data, i + 1, F[i], F[i + 1])
        <4>1. F[i] \in Seq(Unit)
          BY <1>3, <2>1
        <4>2. i \in 0 .. Len(data) - 1
          BY DEF N
        <4> QED BY <3>2, <3>3, <3>5, <4>1, <4>2, PicksExtend
      <3>7. ASSUME NEW k \in 1 .. i + 1
            PROVE  \E x \in DOMAIN F[i + 1] : F[i + 1][x] = data[k][Len(data[k])]
        <4>1. CASE k = i + 1
          <5>1. Len(F[i + 1]) \in DOMAIN F[i + 1]
            BY <1>3, <2>1, <3>6 DEF Continues
          <5> QED BY <3>6, <4>1, <5>1 DEF Continues
        <4>2. CASE k \in 1 .. i
          <5>1. k \in 1 .. low(i)
            BY <3>4, <4>2
          <5> HIDE DEF low
          <5>2. PICK x \in DOMAIN F[i] : F[i][x] = data[k][Len(data[k])]
            BY <2>2, <5>1
          <5> QED BY <3>6, <5>2 DEF Continues
        <4> QED BY <2>1, <4>1, <4>2
      <3>8. ~(i + 1 > c)
        BY <1>7, <2>1, <2>5
      <3>9. \E blk2, pos2 : Picks(data, F[i + 1], blk2, pos2, low(i + 1))
        BY <3>4, <3>6 DEF Continues
      <3>10. \A k \in 1 .. low(i + 1) : \E x \in DOMAIN F[i + 1] :
                F[i + 1][x] = data[k][Len(data[k])]
        BY <3>4, <3>7
      <3> HIDE DEF low
      <3> QED BY <2>1, <3>8, <3>9, <3>10
    <2> QED BY <1>7, <2>1, <2>4, <2>5
  <1> HIDE DEF T
  <1>10. 0 .. N \subseteq T
    BY <1>1, <1>8, <1>9, IntervalInduction
  <1>11. Good(N)
    BY <1>1, <1>10 DEF T
  <1>12. low(N) = c
    BY <1>1, <1>7
  <1> QED BY <1>1, <1>3, <1>7, <1>11, <1>12 DEF F, c, N

\* And it leaves the others.
LEMMA LeftProperties ==
    ASSUME NEW data \in BlockList, NEW n \in Nat \ {0}
    PROVE  /\ Left(data, n) \in BlockList
           /\ Len(Left(data, n)) = Len(data) - Consumed(data, n)
           /\ \A k \in 1 .. Len(data) - Consumed(data, n) :
                 Left(data, n)[k] = data[Consumed(data, n) + k]
  <1> DEFINE N == Len(data)
             c == Consumed(data, n)
             m == c + 1
             rest == SubSeq(data, m, N)
  <1>1. N \in Nat /\ \A i \in 1 .. N : data[i] \in Seq(Unit) /\ data[i] # << >>
    BY BlockListShape
  <1>2. c \in 0 .. N
    BY FilledPicks
  <1>3. Left(data, n) = rest
    BY DEF Left
  <1> HIDE DEF c, N, Unit
  <1>4. m \in Int /\ N \in Int /\ \A i \in m .. N : data[i] \in Seq(Unit)
    <2>1. \A i \in m .. N : i \in 1 .. N
      BY <1>1, <1>2
    <2> QED BY <1>1, <1>2, <2>1
  <1>5. N - m + 1 = N - c /\ \A i \in Int : m + i - 1 = c + i
    BY <1>1, <1>2
  <1> HIDE DEF m
  <1>6. /\ rest \in Seq(Seq(Unit))
        /\ Len(rest) = IF m <= N THEN N - m + 1 ELSE 0
        /\ \A i \in 1 .. N - m + 1 : rest[i] = data[m + i - 1]
    <2> HIDE DEF rest
    <2>1. \A t : t = SubSeq(data, m, N) =>
            /\ t \in Seq(Seq(Unit))
            /\ Len(t) = IF m <= N THEN N - m + 1 ELSE 0
            /\ \A i \in 1 .. N - m + 1 : t[i] = data[m + i - 1]
      BY <1>4, SubSeqProperties
    <2> QED BY <2>1 DEF rest
  <1> HIDE DEF rest
  <1>7. Len(rest) = N - c
    BY <1>1, <1>2, <1>5, <1>6 DEF m
  <1>8. \A i \in 1 .. N - c : rest[i] = data[c + i] /\ c + i \in 1 .. N
    <2> TAKE i \in 1 .. N - c
    <2>1. i \in 1 .. N - m + 1 /\ m + i - 1 = c + i /\ c + i \in 1 .. N
      BY <1>1, <1>2, <1>5
    <2> QED BY <1>6, <2>1
  <1>9. \A i \in DOMAIN rest : rest[i] # << >>
    <2>1. DOMAIN rest = 1 .. N - c
      BY <1>6, <1>7
    <2> QED BY <1>1, <1>8, <2>1
  <1> QED BY <1>3, <1>6, <1>7, <1>8, <1>9 DEF BlockList, c, N

-----------------------------------------------------------------------------
(* Steps that change little *)

SharedData == <<received_data, sent, delivered>>

\* One process goes on, with the locals t.
LEMMA CallMoves ==
    ASSUME CallsInv, NEW p \in Process, NEW t, t \in Calls, CallShape(t),
           call' = [call EXCEPT ![p] = t]
    PROVE  /\ CallsInv'
           /\ call'[p] = t
           /\ \A q \in Process \ {p} : call'[q] = call[q]
  <1>1. call \in [Process -> Calls]
    BY DEF CallsInv
  <1>2. call' \in [Process -> Calls] /\ call'[p] = t
        /\ \A q \in Process \ {p} : call'[q] = call[q]
    BY <1>1
  <1>3. \A q \in Process : CallShape(call'[q])
    BY <1>2 DEF CallsInv
  <1> QED BY <1>2, <1>3 DEF CallsInv

\* A step takes no lock and releases none.
LEMMA LocksKept ==
    ASSUME LocksInv, NEW p \in Process,
           \A q \in Process \ {p} : call'[q] = call[q],
           Holds(call'[p]) = Holds(call[p]),
           UNCHANGED <<lock, raced>>, panic' = panic \/ panic' # Unlocked
    PROVE  LocksInv'
  <1>1. \A q \in Process : Holds(call'[q]) = Holds(call[q])
    OBVIOUS
  <1> QED BY <1>1 DEF LocksInv, UnlockedByRace

\* A step takes the lock of t.
LEMMA LockTaken ==
    ASSUME LocksInv, NEW p \in Process, NEW t \in Socket,
           \A q \in Process \ {p} : call'[q] = call[q],
           Holds(call'[p]) = Holds(call[p]) \cup {t},
           lock' = [lock EXCEPT ![t] = TRUE], raced' = (raced \/ lock[t]),
           panic' = panic
    PROVE  LocksInv'
  <1>1. \A q \in Process \ {p} : Holds(call'[q]) = Holds(call[q])
    OBVIOUS
  <1>2. lock' \in [Socket -> BOOLEAN] /\ raced' \in BOOLEAN
    BY DEF LocksInv
  <1>3. UnlockedByRace'
    BY DEF LocksInv, UnlockedByRace
  <1>4. ASSUME ~raced'
        PROVE  /\ \A s \in Socket : lock'[s] <=> \E q \in Process : s \in Holds(call'[q])
               /\ \A q, r \in Process : q # r => Holds(call'[q]) \cap Holds(call'[r]) = {}
    <2>1. ~raced /\ ~lock[t]
      BY <1>4
    <2>2. /\ \A s \in Socket : lock[s] <=> \E q \in Process : s \in Holds(call[q])
          /\ \A q, r \in Process : q # r => Holds(call[q]) \cap Holds(call[r]) = {}
      BY <2>1 DEF LocksInv
    <2>3. \A q \in Process : t \notin Holds(call[q])
      BY <2>1, <2>2
    <2>4. \A s \in Socket : lock'[s] = (lock[s] \/ s = t)
      BY DEF LocksInv
    <2>5. \A s \in Socket : lock'[s] <=> \E q \in Process : s \in Holds(call'[q])
      BY ZenonT(60), <1>1, <2>2, <2>4
    <2>6. \A q, r \in Process : q # r => Holds(call'[q]) \cap Holds(call'[r]) = {}
      BY <1>1, <2>2, <2>3
    <2> QED BY <2>5, <2>6
  <1> QED BY <1>2, <1>3, <1>4 DEF LocksInv

\* What a step of p must keep for the data to stay where it is: it begins no
\* write, and makes no copy of accept the only one.
CallKeepsData(c, d) ==
    /\ Pending(c) <=> Pending(d)
    /\ d.op = "receive" => c.op = "receive" /\ c.block = d.block /\ c.target = d.target
    /\ c.op = "move" =>
          (d.op = "move" /\ d.moved = c.moved) \/ (d.op = "moved" /\ d.at = "hold")
    /\ c.op = "moved" /\ c.at = "hold" => d.op = "moved" /\ d.at = "hold"

LEMMA DataKept ==
    ASSUME DataIs, NEW p \in Process,
           \A q \in Process \ {p} : call'[q] = call[q],
           CallKeepsData(call[p], call'[p]),
           UNCHANGED SharedData, raced => raced'
    PROVE  DataIs'
  <1>1. UNCHANGED <<received_data, sent, delivered>>
    BY DEF SharedData
  <1>2. \A q \in Process : CallKeepsData(call[q], call'[q])
    BY DEF CallKeepsData
  <1>3. \A q \in Process :
           /\ Pending(call'[q]) <=> Pending(call[q])
           /\ call'[q].op = "receive" => /\ call[q].op = "receive"
                                         /\ call'[q].block = call[q].block
                                         /\ call'[q].target = call[q].target
           /\ Pending(call'[q]) => call'[q].op = "receive"
    BY <1>2 DEF CallKeepsData, Pending
  <1>4. DataInv'
    BY <1>1 DEF DataIs, DataInv
  <1>5. BlocksInv'
    BY <1>1, <1>3 DEF DataIs, BlocksInv, WellFormed
  <1>6. KeptInv'
    BY <1>1, <1>3 DEF DataIs, KeptInv, Kept
  <1>7. OrderInv'
    BY <1>1, <1>3 DEF DataIs, OrderInv, OneWay, ReadInOrder,
                      WaitingAfterRead, WaitingInOrder, PendingLast
  <1>8. \A s, k : Live(s, k)' => Live(s, k)
    BY <1>2 DEF Live, CallKeepsData
  <1>9. OnceInv'
    <2> SUFFICES ASSUME ~raced' PROVE OnceInv'
      BY DEF OnceInv
    <2>1. OnceInv /\ ~raced
      BY DEF DataIs
    <2>2. \A b, c : Apart(b, c)' <=> Apart(b, c)
      BY DEF Apart
    <2>3. \A s, t \in Socket :
             \A k \in DOMAIN received_data'[s], l \in DOMAIN received_data'[t] :
                Live(s, k)' /\ Live(t, l)' /\ (s # t \/ k # l)
                   => Apart(received_data'[s][k], received_data'[t][l])
      BY <1>1, <1>8, <2>1 DEF OnceInv
    <2>4. \A q \in Process, s \in Socket : \A k \in DOMAIN received_data'[s] :
             Pending(call'[q]) => Apart(call'[q].block, received_data'[s][k])
      BY <1>1, <1>3, <2>1 DEF OnceInv
    <2>5. \A q, r \in Process :
             Pending(call'[q]) /\ Pending(call'[r]) /\ q # r
                => Apart(call'[q].block, call'[r].block)
      BY <1>3, <2>1 DEF OnceInv
    <2>6. \A s, t \in Socket : \A l \in DOMAIN received_data'[t] :
             Live(t, l)' => Apart(delivered'[s], received_data'[t][l])
      BY <1>1, <1>8, <2>1 DEF OnceInv
    <2>7. \A q \in Process, s \in Socket :
             Pending(call'[q]) => Apart(delivered'[s], call'[q].block)
      BY <1>1, <1>3, <2>1 DEF OnceInv
    <2>8. DeliveredOnce'
      BY <1>1, <2>1 DEF OnceInv, DeliveredOnce
    <2> QED BY <2>3, <2>4, <2>5, <2>6, <2>7, <2>8 DEF OnceInv, Apart
  <1> QED BY <1>4, <1>5, <1>6, <1>7, <1>9 DEF DataIs


\* A step changes the call of p and fields that hold no data.
LEMMA QuietStep ==
    ASSUME SocketsInv, NEW p \in Process, NEW t, t \in Calls, CallShape(t),
           Holds(t) = Holds(call[p]), CallKeepsData(call[p], t),
           call' = [call EXCEPT ![p] = t], FieldsInv',
           UNCHANGED <<received_data, lock, sent, delivered, raced, panic>>
    PROVE  SocketsInv'
  <1>1. /\ CallsInv' /\ call'[p] = t
        /\ \A q \in Process \ {p} : call'[q] = call[q]
    BY CallMoves DEF SocketsInv
  <1>2. LocksInv'
    BY <1>1, LocksKept DEF SocketsInv
  <1>3. DataIs'
    BY <1>1, DataKept DEF SocketsInv, SharedData
  <1> QED BY <1>1, <1>2, <1>3 DEF SocketsInv

LEMMA DataSame ==
    ASSUME DataIs, UNCHANGED <<call, received_data, sent, delivered, raced>>
    PROVE  DataIs'
  <1>1. DataInv'
    BY DEF DataIs, DataInv
  <1>2. BlocksInv'
    BY DEF DataIs, BlocksInv, WellFormed
  <1>3. KeptInv'
    BY DEF DataIs, KeptInv, Kept
  <1>4. OrderInv'
    BY DEF DataIs, OrderInv, OneWay, ReadInOrder, WaitingAfterRead,
           WaitingInOrder, PendingLast
  <1>5. OnceInv'
    BY DEF DataIs, OnceInv, Live, Apart, DeliveredOnce
  <1> QED BY <1>1, <1>2, <1>3, <1>4, <1>5 DEF DataIs

\* A panic changes nothing.
LEMMA StopStep ==
    ASSUME SocketsInv, NEW message, message # Unlocked, Stop(message)
    PROVE  SocketsInv'
  <1>1. UNCHANGED <<listening, server_socket, client_socket, link_socket,
                    backlog_sockets, backlog_count, received_data, lock, held,
                    call, sent, delivered, raced>>
        /\ panic' # Unlocked
    BY DEF Stop, fields
  <1>2. FieldsInv' /\ CallsInv'
    BY <1>1 DEF SocketsInv, FieldsInv, CallsInv
  <1>3. LocksInv'
    BY <1>1 DEF SocketsInv, LocksInv, UnlockedByRace
  <1>4. DataIs'
    BY <1>1, DataSame DEF SocketsInv
  <1> QED BY <1>2, <1>3, <1>4 DEF SocketsInv

LEMMA CallIs ==
    ASSUME SocketsInv, NEW p \in Process
    PROVE  call[p] \in Calls /\ CallShape(call[p])
  BY DEF SocketsInv, CallsInv

LEMMA IdleIs == Idle \in Calls /\ CallShape(Idle)
  BY DEF Idle, Calls, Ops, Places, CallShape

LEMMA LockTestStep ==
    ASSUME SocketsInv, NEW p \in Process,
           LockTest(p)
    PROVE  SocketsInv'
  <1> DEFINE t == [call[p] EXCEPT !.at = "set"]
  <1>1. call[p] \in Calls /\ CallShape(call[p])
    BY CallIs
  <1>2. /\ call' = [call EXCEPT ![p] = t]
        /\ UNCHANGED <<received_data, lock, sent, delivered, raced, panic>>
    BY DEF LockTest, fields, Goto
  <1>3. t \in Calls
    BY <1>1 DEF Calls, Ops, Places
  <1>4. CallShape(t) /\ Holds(t) = Holds(call[p]) /\ CallKeepsData(call[p], t)
    BY <1>1 DEF LockTest, At, CallShape, Calls, Holds, CallKeepsData, Pending
  <1>5. FieldsInv'
    BY <1>1 DEF LockTest, SocketsInv, FieldsInv, fields
  <1> HIDE DEF t
  <1> QED BY <1>2, <1>3, <1>4, <1>5, QuietStep

LEMMA BacklogAdmitsStep ==
    ASSUME SocketsInv, NEW p \in Process,
           BacklogAdmits(p)
    PROVE  SocketsInv'
  <1> DEFINE t == [call[p] EXCEPT !.at = "test"]
  <1>1. call[p] \in Calls /\ CallShape(call[p])
    BY CallIs
  <1>2. /\ call' = [call EXCEPT ![p] = t]
        /\ UNCHANGED <<received_data, lock, sent, delivered, raced, panic>>
    BY DEF BacklogAdmits, fields, Goto
  <1>3. t \in Calls
    BY <1>1 DEF Calls, Ops, Places
  <1>4. CallShape(t) /\ Holds(t) = Holds(call[p]) /\ CallKeepsData(call[p], t)
    BY <1>1 DEF BacklogAdmits, At, CallShape, Calls, Holds, CallKeepsData, Pending
  <1>5. FieldsInv'
    BY <1>1 DEF BacklogAdmits, SocketsInv, FieldsInv, fields
  <1> HIDE DEF t
  <1> QED BY <1>2, <1>3, <1>4, <1>5, QuietStep

LEMMA RegisteredStep ==
    ASSUME SocketsInv, NEW p \in Process,
           Registered(p)
    PROVE  SocketsInv'
  <1> DEFINE t == Idle
  <1>1. call[p] \in Calls /\ CallShape(call[p])
    BY CallIs
  <1>2. /\ call' = [call EXCEPT ![p] = t]
        /\ UNCHANGED <<received_data, lock, sent, delivered, raced, panic>>
    BY DEF Registered, Return
  <1>3. t \in Calls
    BY <1>1 DEF Calls, Ops, Places, Idle, CallShape
  <1>4. CallShape(t) /\ Holds(t) = Holds(call[p]) /\ CallKeepsData(call[p], t)
    BY <1>1 DEF Registered, At, CallShape, Calls, Holds, CallKeepsData, Pending, Idle, CallShape
  <1>5. FieldsInv'
    BY <1>1 DEF Registered, At, CallShape, SocketsInv, FieldsInv, fields
  <1> HIDE DEF t
  <1> QED BY <1>2, <1>3, <1>4, <1>5, QuietStep

LEMMA BacklogVacantStep ==
    ASSUME SocketsInv, NEW p \in Process,
           BacklogVacant(p)
    PROVE  SocketsInv'
  <1> DEFINE t == [call[p] EXCEPT !.at = "test"]
  <1>1. call[p] \in Calls /\ CallShape(call[p])
    BY CallIs
  <1>2. /\ call' = [call EXCEPT ![p] = t]
        /\ UNCHANGED <<received_data, lock, sent, delivered, raced, panic>>
    BY DEF BacklogVacant, fields, Goto
  <1>3. t \in Calls
    BY <1>1 DEF Calls, Ops, Places
  <1>4. CallShape(t) /\ Holds(t) = Holds(call[p]) /\ CallKeepsData(call[p], t)
    BY <1>1 DEF BacklogVacant, At, CallShape, Calls, Holds, CallKeepsData, Pending
  <1>5. FieldsInv'
    BY <1>1 DEF BacklogVacant, SocketsInv, FieldsInv, fields
  <1> HIDE DEF t
  <1> QED BY <1>2, <1>3, <1>4, <1>5, QuietStep

LEMMA ReadAwaitStep ==
    ASSUME SocketsInv, NEW p \in Process,
           ReadAwait(p)
    PROVE  SocketsInv'
  <1> DEFINE t == [call[p] EXCEPT !.at = "test"]
  <1>1. call[p] \in Calls /\ CallShape(call[p])
    BY CallIs
  <1>2. /\ call' = [call EXCEPT ![p] = t]
        /\ UNCHANGED <<received_data, lock, sent, delivered, raced, panic>>
    BY DEF ReadAwait, fields, Goto
  <1>3. t \in Calls
    BY <1>1 DEF Calls, Ops, Places
  <1>4. CallShape(t) /\ Holds(t) = Holds(call[p]) /\ CallKeepsData(call[p], t)
    BY <1>1 DEF ReadAwait, At, CallShape, Calls, Holds, CallKeepsData, Pending
  <1>5. FieldsInv'
    BY <1>1 DEF ReadAwait, SocketsInv, FieldsInv, fields
  <1> HIDE DEF t
  <1> QED BY <1>2, <1>3, <1>4, <1>5, QuietStep

LEMMA ShutdownDropStep ==
    ASSUME SocketsInv, NEW p \in Process,
           ShutdownDrop(p)
    PROVE  SocketsInv'
  <1> DEFINE t == [call[p] EXCEPT !.at = "link"]
  <1>1. call[p] \in Calls /\ CallShape(call[p])
    BY CallIs
  <1>2. /\ call' = [call EXCEPT ![p] = t]
        /\ UNCHANGED <<received_data, lock, sent, delivered, raced, panic>>
    BY DEF ShutdownDrop, Goto
  <1>3. t \in Calls
    BY <1>1 DEF Calls, Ops, Places
  <1>4. CallShape(t) /\ Holds(t) = Holds(call[p]) /\ CallKeepsData(call[p], t)
    BY <1>1 DEF ShutdownDrop, At, CallShape, Calls, Holds, CallKeepsData, Pending
  <1>5. FieldsInv'
    BY <1>1 DEF ShutdownDrop, SocketsInv, FieldsInv, fields
  <1> HIDE DEF t
  <1> QED BY <1>2, <1>3, <1>4, <1>5, QuietStep

LEMMA ShutdownLinkStep ==
    ASSUME SocketsInv, NEW p \in Process,
           ShutdownLink(p)
    PROVE  SocketsInv'
  <1> DEFINE t == [call[p] EXCEPT !.at = "test"]
  <1>1. call[p] \in Calls /\ CallShape(call[p])
    BY CallIs
  <1>2. /\ call' = [call EXCEPT ![p] = t]
        /\ UNCHANGED <<received_data, lock, sent, delivered, raced, panic>>
    BY DEF ShutdownLink, Goto
  <1>3. t \in Calls
    BY <1>1 DEF Calls, Ops, Places
  <1>4. CallShape(t) /\ Holds(t) = Holds(call[p]) /\ CallKeepsData(call[p], t)
    BY <1>1 DEF ShutdownLink, At, CallShape, Calls, Holds, CallKeepsData, Pending
  <1>5. FieldsInv'
    <2>1. /\ link_socket' = [link_socket EXCEPT ![Server] = None]
          /\ UNCHANGED <<listening, server_socket, client_socket,
                         backlog_sockets, backlog_count, held>>
      BY <1>1 DEF ShutdownLink, At, CallShape
    <2>2. \A s \in Socket :
             link_socket'[s] = IF s = Server THEN None ELSE link_socket[s]
      BY <2>1 DEF SocketsInv, FieldsInv
    <2>3. link_socket' \in [Socket -> Client \cup Accepted \cup {None}]
      BY <2>1 DEF SocketsInv, FieldsInv
    <2>4. /\ \A a \in Accepted : link_socket'[a] \in Client \cup {None}
          /\ \A s \in Socket \ Accepted : link_socket'[s] \in Accepted \cup {None}
      BY <2>2 DEF SocketsInv, FieldsInv, Socket
    <2> QED BY <2>1, <2>3, <2>4 DEF SocketsInv, FieldsInv
  <1> HIDE DEF t
  <1> QED BY <1>2, <1>3, <1>4, <1>5, QuietStep

LEMMA ListenStep ==
    ASSUME SocketsInv, NEW p \in Process, NEW count \in Backlogs, Listen(p, count)
    PROVE  SocketsInv'
  <1> DEFINE t == call[p]
  <1>1. t \in Calls /\ CallShape(t)
    BY CallIs
  <1>2. call' = [call EXCEPT ![p] = t]
    BY DEF Listen, SocketsInv, CallsInv
  <1>3. UNCHANGED <<received_data, lock, sent, delivered, raced, panic>>
    BY DEF Listen
  <1>4. Holds(t) = Holds(call[p]) /\ CallKeepsData(call[p], t)
    BY DEF CallKeepsData
  <1>5. FieldsInv'
    BY BacklogsAssumption DEF Listen, SocketsInv, FieldsInv
  <1> QED BY <1>1, <1>2, <1>3, <1>4, <1>5, QuietStep

LEMMA ConnectStep ==
    ASSUME SocketsInv, NEW p \in Process, NEW s \in Socket, Connect(p, s)
    PROVE  SocketsInv'
  <1>1. CASE Stop("Failed to connect")
    BY <1>1, StopStep DEF Unlocked
  <1>2. CASE ~Stop("Failed to connect")
    <2> DEFINE t == [Idle EXCEPT !.op = "register", !.at = "full",
                                 !.this = s, !.target = Server]
    <2>1. /\ call' = [call EXCEPT ![p] = t]
          /\ UNCHANGED <<received_data, lock, sent, delivered, raced, panic>>
          /\ UNCHANGED <<listening, server_socket, client_socket, link_socket,
                         backlog_sockets, backlog_count, held>>
          /\ s \in Client /\ call[p].op = "none" /\ call[p].at = "user"
      BY <1>2 DEF Connect, CanCall, At, fields
    <2>2. t \in Calls /\ CallShape(t)
      BY <2>1, IdleIs DEF Calls, Ops, Places, CallShape, Idle, Socket
    <2>3. Holds(t) = Holds(call[p]) /\ CallKeepsData(call[p], t)
      BY <2>1 DEF Holds, CallKeepsData, Pending, Idle
    <2>4. FieldsInv'
      BY <2>1 DEF SocketsInv, FieldsInv
    <2> HIDE DEF t
    <2> QED BY <2>1, <2>2, <2>3, <2>4, QuietStep
  <1> QED BY <1>1, <1>2

LEMMA AcceptStep ==
    ASSUME SocketsInv, NEW p \in Process, Accept(p)
    PROVE  SocketsInv'
  <1>1. CASE Stop("Not a server")
    BY <1>1, StopStep DEF Unlocked
  <1>2. CASE ~Stop("Not a server")
    <2> DEFINE a == CHOOSE a \in Unused : TRUE
               t == [Idle EXCEPT !.op = "accept", !.at = "vacant",
                                 !.this = a, !.target = Server]
    <2>1. /\ call' = [call EXCEPT ![p] = t]
          /\ UNCHANGED <<received_data, lock, sent, delivered, raced, panic>>
          /\ Unused # {} /\ call[p].op = "none" /\ call[p].at = "user"
      <3>1. CanCall(p, Server) /\ ~Stop("Not a server")
        BY <1>2 DEF Accept
      <3> HIDE DEF t
      <3>2. /\ call' = [call EXCEPT ![p] = t]
            /\ UNCHANGED <<fields, lock, held, sent, delivered, raced, panic>>
            /\ Unused # {}
        BY <3>1 DEF Accept, t, a
      <3> QED BY <3>1, <3>2 DEF CanCall, At, fields
    <2>2. a \in Accepted
      BY <2>1 DEF Unused
    <2> HIDE DEF a
    <2>3. t \in Calls /\ CallShape(t)
      BY <2>2, IdleIs DEF Calls, Ops, Places, CallShape, Idle, Socket
    <2>4. Holds(t) = Holds(call[p]) /\ CallKeepsData(call[p], t)
      BY <2>1 DEF Holds, CallKeepsData, Pending, Idle
    <2>5. FieldsInv'
      BY <1>2 DEF Accept, SocketsInv, FieldsInv, fields
    <2> HIDE DEF t
    <2> QED BY <2>1, <2>3, <2>4, <2>5, QuietStep
  <1> QED BY <1>1, <1>2

LEMMA ReadStep ==
    ASSUME SocketsInv, NEW p \in Process, NEW s \in Socket, NEW n \in ReadSizes,
           NEW noblock \in BOOLEAN, Read(p, s, n, noblock)
    PROVE  SocketsInv'
  <1> DEFINE t == [Idle EXCEPT !.op = "poll", !.at = "test", !.this = s,
                       !.target = s, !.size = n, !.noblock = noblock]
  <1>1. /\ call' = [call EXCEPT ![p] = t]
        /\ UNCHANGED <<received_data, lock, sent, delivered, raced, panic>>
        /\ call[p].op = "none" /\ call[p].at = "user"
    BY DEF Read, CanCall, At, fields
  <1>2. n \in Nat \ {0}
    BY SizesAssumption
  <1>3. t \in Calls /\ CallShape(t)
    BY <1>2, IdleIs DEF Calls, Ops, Places, CallShape, Idle, Socket
  <1>4. Holds(t) = Holds(call[p]) /\ CallKeepsData(call[p], t)
    BY <1>1 DEF Holds, CallKeepsData, Pending, Idle
  <1>5. FieldsInv'
    BY DEF Read, SocketsInv, FieldsInv, fields
  <1> HIDE DEF t
  <1> QED BY <1>1, <1>3, <1>4, <1>5, QuietStep

LEMMA CloseStep ==
    ASSUME SocketsInv, NEW p \in Process, NEW s \in Socket, Close(p, s)
    PROVE  SocketsInv'
  <1>1. CASE Stop("close server")
    BY <1>1, StopStep DEF Unlocked
  <1>2. CASE ~Stop("close server")
    <2>1. /\ UNCHANGED <<received_data, lock, sent, delivered, raced, panic>>
          /\ call[p].op = "none" /\ call[p].at = "user"
      BY <1>2 DEF Close, CanCall, At, fields
    <2>2. FieldsInv'
      BY <1>2 DEF Close, SocketsInv, FieldsInv, fields
    <2>3. CASE server_socket[s] = None
      <3> DEFINE t == call[p]
      <3>1. t \in Calls /\ CallShape(t)
        BY CallIs
      <3>2. call' = [call EXCEPT ![p] = t]
        BY <1>2, <2>3 DEF Close, SocketsInv, CallsInv
      <3>3. Holds(t) = Holds(call[p]) /\ CallKeepsData(call[p], t)
        BY DEF CallKeepsData
      <3> QED BY <2>1, <2>2, <3>1, <3>2, <3>3, QuietStep
    <2>4. CASE server_socket[s] # None
      <3> DEFINE t == [Idle EXCEPT !.op = "shutdown", !.at = "client",
                           !.this = s, !.closing = <<s>>,
                           !.target = server_socket[s]]
      <3>1. call' = [call EXCEPT ![p] = t]
        BY <1>2, <2>4 DEF Close
      <3>2. server_socket[s] = Server /\ s \in Client
        BY <2>4 DEF SocketsInv, FieldsInv
      <3>3. <<s>> \in Seq(Client) /\ <<s>> # << >>
        BY <3>2
      <3>4. t \in Calls /\ CallShape(t)
        BY <3>2, <3>3, IdleIs DEF Calls, Ops, Places, CallShape, Idle, Socket
      <3>5. Holds(t) = Holds(call[p]) /\ CallKeepsData(call[p], t)
        BY <2>1 DEF Holds, CallKeepsData, Pending, Idle
      <3> HIDE DEF t
      <3> QED BY <2>1, <2>2, <3>1, <3>4, <3>5, QuietStep
    <2> QED BY <2>3, <2>4
  <1> QED BY <1>1, <1>2

LEMMA ShutdownClientStep ==
    ASSUME SocketsInv, NEW p \in Process, ShutdownClient(p)
    PROVE  SocketsInv'
  <1> DEFINE c == call[p]
             client == client_socket[c.target]
  <1>1. c \in Calls /\ CallShape(c)
    BY CallIs
  <1>2. c.op = "shutdown" /\ c.at = "client"
    BY DEF ShutdownClient, At
  <1>3. c.target = Server /\ c.closing \in Seq(Client) /\ c.closing # << >>
    BY <1>1, <1>2 DEF CallShape, Calls
  <1>4. client \in Client \cup {None}
    BY <1>3 DEF SocketsInv, FieldsInv, Socket
  <1>5. UNCHANGED <<received_data, lock, sent, delivered, raced, panic>> /\ FieldsInv'
    BY DEF ShutdownClient, fields, SocketsInv, FieldsInv
  <1> HIDE DEF client
  <1>6. ASSUME NEW t, call' = [call EXCEPT ![p] = t],
               \/ t = [c EXCEPT !.at = "link"]
               \/ t = [c EXCEPT !.at = "drop"]
               \/ client \in Client /\ t = [c EXCEPT !.closing = <<client>> \o c.closing]
        PROVE  SocketsInv'
    <2>1. client \in Client =>
             <<client>> \o c.closing \in Seq(Client)
             /\ <<client>> \o c.closing # << >>
      BY <1>3
    <2> DEFINE longer == <<client>> \o c.closing
    <2> HIDE DEF longer
    <2>2. t \in Calls
      BY <1>1, <1>6, <2>1 DEF Calls, Places, longer
    <2>3. CallShape(t)
      BY <1>1, <1>2, <1>3, <1>6, <2>1 DEF CallShape, Calls, longer
    <2>4. Holds(t) = Holds(c) /\ CallKeepsData(c, t)
      BY <1>1, <1>2, <1>6 DEF Calls, Holds, CallKeepsData, Pending
    <2> QED BY <1>5, <1>6, <2>2, <2>3, <2>4, QuietStep
  <1>7. call' = [call EXCEPT ![p] =
          CASE client \in {None, Head(c.closing)} -> [c EXCEPT !.at = "link"]
            [] client \notin {None, Head(c.closing)}
               /\ server_socket[client] = None -> [c EXCEPT !.at = "drop"]
            [] OTHER -> [c EXCEPT !.closing = <<client>> \o c.closing]]
    BY DEF ShutdownClient, client, SocketsInv, CallsInv
  <1>8. CASE client \in {None, Head(c.closing)}
    BY <1>6, <1>7, <1>8
  <1>9. CASE /\ client \notin {None, Head(c.closing)}
             /\ server_socket[client] = None
    BY <1>6, <1>7, <1>9
  <1>10. CASE /\ client \notin {None, Head(c.closing)}
              /\ server_socket[client] # None
    BY <1>4, <1>6, <1>7, <1>10
  <1> QED BY <1>8, <1>9, <1>10

-----------------------------------------------------------------------------
(* Steps that take or release a lock *)

\* A step takes the lock of s and changes fields that hold no data.
LEMMA LockedStep ==
    ASSUME SocketsInv, NEW p \in Process, NEW t, t \in Calls, CallShape(t),
           NEW s \in Socket, Holds(t) = Holds(call[p]) \cup {s},
           CallKeepsData(call[p], t),
           call' = [call EXCEPT ![p] = t], FieldsInv',
           lock' = [lock EXCEPT ![s] = TRUE], raced' = (raced \/ lock[s]),
           UNCHANGED <<received_data, sent, delivered, panic>>
    PROVE  SocketsInv'
  <1>1. /\ CallsInv' /\ call'[p] = t
        /\ \A q \in Process \ {p} : call'[q] = call[q]
    BY CallMoves DEF SocketsInv
  <1>2. LocksInv'
    BY <1>1, LockTaken DEF SocketsInv
  <1>3. raced => raced'
    OBVIOUS
  <1>4. DataIs'
    BY <1>1, <1>3, DataKept DEF SocketsInv, SharedData
  <1> QED BY <1>1, <1>2, <1>4 DEF SocketsInv

LEMMA RegisterStep ==
    ASSUME SocketsInv, NEW p \in Process, Register(p)
    PROVE  SocketsInv'
  <1> DEFINE t == [call[p] EXCEPT !.at = "free"]
  <1>1. call[p] \in Calls /\ CallShape(call[p])
    BY CallIs
  <1>2. call[p].op = "register" /\ call[p].at = "set"
    BY DEF Register, LockSet, At
  <1>3. call[p].target = Server /\ call[p].this \in Client
    BY <1>1, <1>2 DEF CallShape
  <1>4. /\ call' = [call EXCEPT ![p] = t]
        /\ lock' = [lock EXCEPT ![Server] = TRUE] /\ raced' = (raced \/ lock[Server])
        /\ UNCHANGED <<received_data, sent, delivered, panic>>
    BY <1>3 DEF Register, LockSet, Goto
  <1>5. t \in Calls
    BY <1>1 DEF Calls, Places
  <1>6. /\ CallShape(t) /\ Holds(t) = Holds(call[p]) \cup {Server}
        /\ CallKeepsData(call[p], t)
    BY <1>1, <1>2, <1>3 DEF CallShape, Calls, Holds, CallKeepsData, Pending
  <1>7. Append(backlog_sockets, call[p].this) \in Seq(Client)
    BY <1>3, AppendProperties DEF SocketsInv, FieldsInv
  <1>8. FieldsInv'
    BY <1>7 DEF Register, SocketsInv, FieldsInv
  <1> HIDE DEF t
  <1> QED BY <1>4, <1>5, <1>6, <1>8, LockedStep DEF Socket

LEMMA ReadPollStep ==
    ASSUME SocketsInv, NEW p \in Process, ReadPoll(p)
    PROVE  SocketsInv'
  <1> DEFINE c == call[p]
             t == Polled(c)
  <1>1. c \in Calls /\ CallShape(c)
    BY CallIs
  <1>2. c.op = "poll" /\ c.at = "set"
    BY DEF ReadPoll, LockSet, At
  <1>3. c.target \in Socket
    BY <1>1, <1>2 DEF CallShape
  <1>4. /\ call' = [call EXCEPT ![p] = t]
        /\ lock' = [lock EXCEPT ![c.target] = TRUE]
        /\ raced' = (raced \/ lock[c.target])
        /\ UNCHANGED <<received_data, sent, delivered, panic>>
    <2> HIDE DEF t
    <2>1. call' = [call EXCEPT ![p] = t]
      BY DEF ReadPoll, SocketsInv, CallsInv, t
    <2> QED BY <2>1 DEF ReadPoll, LockSet, fields
  <1>5. \/ t = [c EXCEPT !.op = "eagain", !.at = "free"]
        \/ t = [c EXCEPT !.at = "free"]
    BY DEF Polled
  <1> HIDE DEF t
  <1>6. t \in Calls
    BY ZenonT(60), <1>1, <1>5 DEF Calls, Ops, Places
  <1>7. CallShape(t)
    BY <1>1, <1>2, <1>3, <1>5 DEF CallShape, Calls
  <1>8. Holds(t) = Holds(c) \cup {c.target} /\ CallKeepsData(c, t)
    BY <1>1, <1>2, <1>3, <1>5 DEF Calls, Holds, CallKeepsData, Pending
  <1>9. FieldsInv'
    BY DEF ReadPoll, fields, SocketsInv, FieldsInv
  <1> QED BY <1>3, <1>4, <1>6, <1>7, <1>8, <1>9, LockedStep

LEMMA AcceptFrontStep ==
    ASSUME SocketsInv, NEW p \in Process, AcceptFront(p)
    PROVE  SocketsInv'
  <1>1. CASE Stop(EmptyBacklog)
    BY <1>1, StopStep DEF Unlocked, EmptyBacklog
  <1>2. CASE ~Stop(EmptyBacklog)
    <2> DEFINE c == call[p]
               t == [c EXCEPT !.at = "front"]
               client == Head(backlog_sockets)
    <2>1. /\ LockSet(p, "accept")
          /\ backlog_sockets # << >>
          /\ client_socket' = [client_socket EXCEPT ![Server] = client]
          /\ backlog_sockets' = Tail(backlog_sockets)
          /\ call' = [call EXCEPT ![p] = t]
          /\ UNCHANGED <<listening, server_socket, link_socket, backlog_count,
                         received_data, held, sent, delivered, panic>>
      BY <1>2 DEF AcceptFront, Goto
    <2>2. c \in Calls /\ CallShape(c)
      BY CallIs
    <2>3. c.op = "accept" /\ c.at = "set"
      BY <2>1 DEF LockSet, At
    <2>4. c.target = Server
      BY <2>2, <2>3 DEF CallShape
    <2>5. lock' = [lock EXCEPT ![Server] = TRUE] /\ raced' = (raced \/ lock[Server])
      BY <2>1, <2>4 DEF LockSet
    <2>6. t \in Calls
      BY <2>2 DEF Calls, Places
    <2>7. /\ CallShape(t) /\ Holds(t) = Holds(c) \cup {Server}
          /\ CallKeepsData(c, t)
      BY <2>2, <2>3, <2>4 DEF CallShape, Calls, Holds, CallKeepsData, Pending
    <2>8. client \in Client /\ Tail(backlog_sockets) \in Seq(Client)
      BY <2>1, HeadTailProperties DEF SocketsInv, FieldsInv
    <2> HIDE DEF client, t
    <2>9. client_socket' \in [Socket -> Client \cup {None}]
      BY <2>1, <2>8 DEF SocketsInv, FieldsInv
    <2>10. FieldsInv'
      BY <2>1, <2>8, <2>9 DEF SocketsInv, FieldsInv
    <2>11. Server \in Socket
      BY DEF Socket
    <2> QED BY <2>1, <2>5, <2>6, <2>7, <2>10, <2>11, LockedStep
  <1> QED BY <1>1, <1>2

LEMMA AcceptLinkStep ==
    ASSUME SocketsInv, NEW p \in Process, AcceptLink(p)
    PROVE  SocketsInv'
  <1>1. CASE Stop(NullClient)
    BY <1>1, StopStep DEF Unlocked, NullClient
  <1>2. CASE ~Stop(NullClient)
    <2> DEFINE c == call[p]
               client == client_socket[Server]
               new == c.this
    <2>1. /\ At(p, "accept", "front")
          /\ client # None
          /\ link_socket' = Linked(client, new)
          /\ UNCHANGED <<listening, server_socket, client_socket, backlog_sockets,
                         backlog_count, received_data, lock, held, sent, delivered,
                         raced, panic>>
      BY <1>2 DEF AcceptLink
    <2>2. c \in Calls /\ CallShape(c)
      BY CallIs
    <2>3. c.op = "accept" /\ c.at = "front"
      BY <2>1 DEF At
    <2>4. new \in Accepted /\ c.target = Server /\ c.moved = 0
      BY <2>2, <2>3 DEF CallShape
    <2>5. PICK t : /\ call' = [call EXCEPT ![p] = t]
                   /\ \/ t = [c EXCEPT !.op = "moved", !.at = "hold"]
                      \/ t = [c EXCEPT !.op = "move", !.at = "test", !.target = new]
      BY <1>2 DEF AcceptLink, SocketsInv, CallsInv
    <2>6. t \in Calls
      <3> HIDE DEF c, new
      <3>1. new \in Socket \cup {None}
        BY <2>4 DEF Socket
      <3>2. CASE t = [c EXCEPT !.op = "moved", !.at = "hold"]
        BY <2>2, <3>2 DEF Calls, Ops, Places
      <3>3. CASE t = [c EXCEPT !.op = "move", !.at = "test", !.target = new]
        BY <2>2, <3>1, <3>3 DEF Calls, Ops, Places
      <3> QED BY <2>5, <3>2, <3>3
    <2>7. CallShape(t)
      BY ZenonT(60), <2>2, <2>4, <2>5 DEF CallShape, Calls
    <2>8. Holds(t) = Holds(c) /\ CallKeepsData(c, t)
      BY <2>2, <2>3, <2>4, <2>5 DEF Calls, Holds, CallKeepsData, Pending
    <2>9. client \in Client
      BY <2>1 DEF SocketsInv, FieldsInv, Socket
    <2> HIDE DEF client, new
    <2>10. \A s \in Socket : link_socket'[s] =
              IF s = client THEN new ELSE IF s = new THEN client
              ELSE IF s = Server THEN new ELSE link_socket[s]
      BY <2>1, <2>4, <2>9 DEF Linked, SocketsInv, FieldsInv, Socket
    <2>11. link_socket' \in [Socket -> Client \cup Accepted \cup {None}]
      BY <2>1, <2>4, <2>9 DEF Linked, SocketsInv, FieldsInv
    <2>12. /\ \A a \in Accepted : link_socket'[a] \in Client \cup {None}
           /\ \A s \in Socket \ Accepted : link_socket'[s] \in Accepted \cup {None}
      BY <2>4, <2>9, <2>10, SocketsAssumption DEF SocketsInv, FieldsInv, Socket
    <2>13. FieldsInv'
      BY <2>1, <2>11, <2>12 DEF SocketsInv, FieldsInv
    <2> QED BY <2>1, <2>5, <2>6, <2>7, <2>8, <2>13, QuietStep
  <1> QED BY <1>1, <1>2

\* What a call holds after it has released a lock.
LEMMA ReleasedHolds ==
    ASSUME SocketsInv, NEW p \in Process, call[p].at = "free"
    PROVE  /\ Released(p) \in Calls /\ CallShape(Released(p))
           /\ call[p].target \in Holds(call[p]) /\ call[p].target \in Socket
           /\ Holds(Released(p)) = Holds(call[p]) \ {call[p].target}
           /\ CallKeepsData(call[p], Released(p))
  <1> DEFINE c == call[p]
  <1>1. c \in Calls /\ CallShape(c)
    BY CallIs
  <1>2. c.op \in Ops /\ c.op # "none" /\ c.op # "accept"
    BY <1>1 DEF CallShape, Calls
  <1>3. c.target \in Socket
    BY <1>1, <1>2 DEF CallShape, Ops, Socket
  <1>4. c.target \in Holds(c)
    BY DEF Holds
  <1>5. ASSUME NEW t, t = Released(p),
               \/ c.op = "poll" /\ t = [c EXCEPT !.op = "read", !.at = "await"]
               \/ c.op = "register" /\ t = [c EXCEPT !.at = "registered"]
               \/ c.op = "move" /\ t = [c EXCEPT !.at = "test"]
               \/ c.op = "move" /\ t = [c EXCEPT !.op = "moved", !.at = "hold",
                                                 !.target = Server]
               \/ c.op = "shutdown" /\ Len(c.closing) > 1
                  /\ t = [c EXCEPT !.at = "drop", !.closing = Tail(c.closing)]
               \/ c.op # "move" /\ t = Idle
        PROVE  /\ t \in Calls /\ CallShape(t) /\ Holds(t) = Holds(c) \ {c.target}
               /\ CallKeepsData(c, t)
    <2>1. CASE c.op = "poll" /\ t = [c EXCEPT !.op = "read", !.at = "await"]
      BY <1>1, <2>1 DEF Calls, Ops, Places, CallShape, Holds, CallKeepsData, Pending
    <2>2. CASE c.op = "register" /\ t = [c EXCEPT !.at = "registered"]
      BY <1>1, <2>2 DEF Calls, Ops, Places, CallShape, Holds, CallKeepsData, Pending
    <2>3. CASE c.op = "move" /\ t = [c EXCEPT !.at = "test"]
      <3>1. c.this \in Accepted /\ c.target = c.this /\ c.target # Server
        BY <1>1, <2>3, SocketsAssumption DEF CallShape
      <3>2. t \in Calls /\ CallShape(t)
        BY <1>1, <2>3 DEF Calls, Ops, Places, CallShape
      <3> QED BY <1>1, <2>3, <3>1, <3>2 DEF Calls, Holds, CallKeepsData, Pending
    <2>4. CASE c.op = "move" /\ t = [c EXCEPT !.op = "moved", !.at = "hold",
                                              !.target = Server]
      <3>1. c.this \in Accepted /\ c.target = c.this /\ c.target # Server
        BY <1>1, <2>4, SocketsAssumption DEF CallShape
      <3>2. t \in Calls /\ CallShape(t)
        BY <1>1, <2>4, <3>1 DEF Calls, Ops, Places, CallShape, Socket
      <3> QED BY <1>1, <2>4, <3>1, <3>2 DEF Calls, Holds, CallKeepsData, Pending
    <2>5. CASE c.op = "shutdown" /\ Len(c.closing) > 1
               /\ t = [c EXCEPT !.at = "drop", !.closing = Tail(c.closing)]
      <3> DEFINE rest == Tail(c.closing)
      <3>1. c.closing \in Seq(Client) /\ c.closing # << >>
        BY <1>1, <2>5 DEF Calls, CallShape
      <3>2. rest \in Seq(Client) /\ Len(rest) = Len(c.closing) - 1
        BY <3>1, HeadTailProperties
      <3> HIDE DEF rest
      <3>3. rest # << >>
        <4> DEFINE n == Len(c.closing)
        <4>1. n \in Nat /\ n > 1 /\ Len(rest) = n - 1
          BY <2>5, <3>1, <3>2
        <4> HIDE DEF n
        <4>2. Len(rest) # 0
          BY <4>1
        <4> QED BY <4>2
      <3>4. t = [c EXCEPT !.at = "drop", !.closing = rest]
        BY <2>5 DEF rest
      <3>5. t \in Calls
        BY <1>1, <3>2, <3>4 DEF Calls, Places
      <3>6. CallShape(t)
        BY <1>1, <2>5, <3>3, <3>4 DEF Calls, CallShape
      <3> QED BY <1>1, <2>5, <3>4, <3>5, <3>6 DEF Calls, Holds, CallKeepsData, Pending
    <2>6. CASE c.op # "move" /\ t = Idle
      <3>1. t.op = "none" /\ t.at = "user"
        BY <2>6 DEF Idle
      <3>2. Holds(t) = {} /\ Holds(c) = {c.target}
        BY <2>6, <3>1 DEF Holds
      <3>3. CallKeepsData(c, t)
        BY <2>6, <3>1 DEF CallKeepsData, Pending
      <3> QED BY <2>6, <3>2, <3>3, IdleIs
    <2> QED BY <1>5, <2>1, <2>2, <2>3, <2>4, <2>5, <2>6
  <1>6. \/ c.op = "poll" /\ Released(p) = [c EXCEPT !.op = "read", !.at = "await"]
        \/ c.op = "register" /\ Released(p) = [c EXCEPT !.at = "registered"]
        \/ c.op = "move" /\ Released(p) = [c EXCEPT !.at = "test"]
        \/ c.op = "move" /\ Released(p) = [c EXCEPT !.op = "moved", !.at = "hold",
                                                    !.target = Server]
        \/ c.op = "shutdown" /\ Len(c.closing) > 1
           /\ Released(p) = [c EXCEPT !.at = "drop", !.closing = Tail(c.closing)]
        \/ c.op # "move" /\ Released(p) = Idle
    <2>1. CASE c.op = "poll"
      BY <2>1 DEF Released
    <2>2. CASE c.op = "register"
      BY <2>2 DEF Released
    <2>3. CASE c.op = "move"
      BY <2>3 DEF Released, AcceptLock
    <2>4. CASE c.op = "shutdown"
      <3>1. CASE Len(c.closing) > 1
        BY <2>4, <3>1 DEF Released
      <3>2. CASE ~(Len(c.closing) > 1)
        BY <2>4, <3>2 DEF Released
      <3> QED BY <3>1, <3>2
    <2>5. CASE c.op \notin {"poll", "register", "move", "shutdown"}
      BY <2>5 DEF Released
    <2> QED BY <2>1, <2>2, <2>3, <2>4, <2>5
  <1> HIDE DEF c
  <1>7. /\ Released(p) \in Calls /\ CallShape(Released(p))
        /\ Holds(Released(p)) = Holds(c) \ {c.target}
        /\ CallKeepsData(c, Released(p))
    BY <1>5, <1>6
  <1> QED BY <1>3, <1>4, <1>7 DEF c

LEMMA UnlockStep ==
    ASSUME SocketsInv, NEW p \in Process, Unlock(p)
    PROVE  SocketsInv'
  <1> DEFINE c == call[p]
             s == c.target
             t == Released(p)
  <1>1. c.at = "free"
    BY DEF Unlock
  <1>2. /\ t \in Calls /\ CallShape(t)
        /\ s \in Holds(c) /\ s \in Socket
        /\ Holds(t) = Holds(c) \ {s}
        /\ CallKeepsData(c, t)
    BY <1>1, ReleasedHolds
  <1>3. CASE Stop(Unlocked) /\ ~lock[s]
    <2>1. raced
      BY <1>2, <1>3 DEF SocketsInv, LocksInv
    <2>2. UNCHANGED <<listening, server_socket, client_socket, link_socket,
                      backlog_sockets, backlog_count, received_data, lock, held,
                      call, sent, delivered, raced>>
      BY <1>3 DEF Stop, fields
    <2>3. FieldsInv' /\ CallsInv'
      BY <2>2 DEF SocketsInv, FieldsInv, CallsInv
    <2>4. LocksInv'
      <3>1. raced'
        BY <2>1, <2>2
      <3>2. lock' \in [Socket -> BOOLEAN] /\ raced' \in BOOLEAN
        BY <2>2 DEF SocketsInv, LocksInv
      <3> QED BY <3>1, <3>2 DEF LocksInv, UnlockedByRace
    <2>5. DataIs'
      BY <2>2, DataSame DEF SocketsInv
    <2> QED BY <2>3, <2>4, <2>5 DEF SocketsInv
  <1>4. CASE ~(Stop(Unlocked) /\ ~lock[s])
    <2>1. /\ lock[s] /\ lock' = [lock EXCEPT ![s] = FALSE]
          /\ call' = [call EXCEPT ![p] = t]
          /\ held' = IF c.op = "moved"
                     THEN [held EXCEPT ![p] = @ \cup {c.this}] ELSE held
          /\ UNCHANGED <<fields, sent, delivered, raced, panic>>
      BY <1>4 DEF Unlock
    <2> HIDE DEF t
    <2>2. c.op = "moved" => c.this \in Socket
      BY CallIs DEF CallShape, Socket
    <2> HIDE DEF c, s
    <2>3. FieldsInv'
      BY <2>1, <2>2 DEF SocketsInv, FieldsInv, fields
    <2>4. /\ CallsInv' /\ call'[p] = t
          /\ \A q \in Process \ {p} : call'[q] = call[q]
      BY <1>2, <2>1, CallMoves DEF SocketsInv
    <2>5. DataIs'
      BY <1>2, <2>1, <2>4, DataKept DEF SocketsInv, SharedData, fields, c
    <2>6. LocksInv'
      <3>1. lock' \in [Socket -> BOOLEAN] /\ raced' \in BOOLEAN
        BY <2>1 DEF SocketsInv, LocksInv
      <3>2. UnlockedByRace'
        BY <2>1 DEF SocketsInv, LocksInv, UnlockedByRace
      <3>3. ASSUME ~raced
            PROVE  /\ \A r \in Socket : lock'[r] <=> \E q \in Process : r \in Holds(call'[q])
                   /\ \A q, r \in Process : q # r => Holds(call'[q]) \cap Holds(call'[r]) = {}
        <4>1. /\ \A r \in Socket : lock[r] <=> \E q \in Process : r \in Holds(call[q])
              /\ \A q, r \in Process : q # r => Holds(call[q]) \cap Holds(call[r]) = {}
          BY <3>3 DEF SocketsInv, LocksInv
        <4>2. \A q \in Process \ {p} : Holds(call'[q]) = Holds(call[q])
          BY <2>4
        <4>3. Holds(call'[p]) = Holds(call[p]) \ {s} /\ s \in Holds(call[p])
          BY <1>2, <2>4 DEF c
        <4>4. \A r \in Socket : lock'[r] <=> lock[r] /\ r # s
          BY <1>2, <2>1 DEF SocketsInv, LocksInv
        <4>5. \A q \in Process \ {p} : s \notin Holds(call[q])
          BY <4>1, <4>3
        <4>6. \A q \in Process : Holds(call'[q]) = Holds(call[q]) \ {s}
          BY <4>2, <4>3, <4>5
        <4>7. \A r \in Socket : lock'[r] <=> \E q \in Process : r \in Holds(call'[q])
          BY <4>1, <4>4, <4>6
        <4>8. \A q, r \in Process : q # r => Holds(call'[q]) \cap Holds(call'[r]) = {}
          BY <4>1, <4>6
        <4> QED BY <4>7, <4>8
      <3> QED BY <2>1, <3>1, <3>2, <3>3 DEF LocksInv
    <2> QED BY <2>3, <2>4, <2>5, <2>6 DEF SocketsInv
  <1> QED BY <1>3, <1>4

-----------------------------------------------------------------------------
(* Steps that move data *)

\* No process begins a write.
NoNewWrite ==
    \A q \in Process :
       /\ Pending(call'[q]) => Pending(call[q])
       /\ call'[q].op = "receive" => /\ call[q].op = "receive"
                                     /\ call'[q].block = call[q].block
                                     /\ call'[q].target = call[q].target
       /\ Pending(call'[q]) => call'[q].op = "receive"

LEMMA DataTypes ==
    ASSUME DataIs
    PROVE  \A s \in Socket :
              /\ received_data[s] \in BlockList
              /\ received_data[s] \in Seq(Seq(Unit))
              /\ DOMAIN received_data[s] = 1 .. Len(received_data[s])
              /\ Len(received_data[s]) \in Nat
              /\ delivered[s] \in Seq(Unit)
              /\ \A k \in DOMAIN received_data[s] :
                    received_data[s][k] \in Seq(Unit) /\ received_data[s][k] # << >>
  <1> HIDE DEF Unit
  <1> QED BY LenProperties, ElementOfSeq DEF DataIs, DataInv, BlockList

LEMMA SentTypes ==
    ASSUME DataIs
    PROVE  /\ Len(sent) \in Nat /\ Len(sent) <= MaxUnits
           /\ DOMAIN sent = 1 .. Len(sent)
           /\ \A u \in DOMAIN sent :
                 sent[u].by \in Process /\ sent[u].to \in Socket /\ sent[u].last \in BOOLEAN
  <1> DEFINE R == [by : Process, to : Socket, last : BOOLEAN]
  <1>1. sent \in Seq(R)
    BY DEF DataIs, DataInv
  <1>2. \A r \in R : r.by \in Process /\ r.to \in Socket /\ r.last \in BOOLEAN
    OBVIOUS
  <1> HIDE DEF R
  <1>3. /\ Len(sent) \in Nat /\ DOMAIN sent = 1 .. Len(sent)
        /\ \A u \in DOMAIN sent : sent[u] \in R
    BY <1>1, LenProperties, ElementOfSeq
  <1> QED BY <1>2, <1>3 DEF DataIs, DataInv

\* The list of the server is cleared, and no block of it is a copy any more.
LEMMA ServerCleared ==
    ASSUME DataIs, NoNewWrite,
           \A q \in Process : Pending(call[q]) => Pending(call'[q]),
           received_data' = [received_data EXCEPT ![Server] = << >>],
           UNCHANGED <<sent, delivered>>, raced => raced'
    PROVE  DataIs'
  <1>1. received_data' \in [Socket -> BlockList]
    <2>1. << >> \in BlockList
      BY DEF BlockList
    <2> QED BY <2>1 DEF DataIs, DataInv
  <1>2. \A s \in Socket : s # Server => received_data'[s] = received_data[s]
    BY DEF DataIs, DataInv
  <1>3. received_data'[Server] = << >> /\ DOMAIN received_data'[Server] = {}
    <2>1. received_data'[Server] = << >>
      BY DEF DataIs, DataInv, Socket
    <2> QED BY <2>1
  <1>4. DataInv'
    BY <1>1 DEF DataIs, DataInv
  <1>5. BlocksInv'
    <2>1. \A b : WellFormed(sent', b) <=> WellFormed(sent, b)
      BY DEF WellFormed
    <2>2. \A s \in Socket : \A k \in DOMAIN received_data'[s] :
             LET b == received_data'[s][k] IN
             WellFormed(sent, b) /\ (sent[b[1]].to = s \/ (s \in Accepted /\ sent[b[1]].to = Server))
      BY <1>2, <1>3 DEF DataIs, BlocksInv
    <2>3. \A q \in Process : call'[q].op = "receive" =>
             LET b == call'[q].block IN
             WellFormed(sent, b) /\ sent[b[1]].by = q /\ sent[b[1]].to = call'[q].target
      BY DEF DataIs, BlocksInv, NoNewWrite
    <2> HIDE DEF WellFormed
    <2> QED BY <2>1, <2>2, <2>3 DEF BlocksInv
  <1>6. KeptInv'
    <2> SUFFICES ASSUME NEW u \in DOMAIN sent, sent[u].to # Server, sent[u].last
                 PROVE  Kept(u)'
      BY DEF KeptInv
    <2>1. Kept(u) /\ sent[u].to \in Socket
      BY SentTypes DEF DataIs, KeptInv
    <2>2. received_data'[sent[u].to] = received_data[sent[u].to]
      BY <1>2, <2>1
    <2>3. \A q \in Process : Pending(call[q]) =>
             Pending(call'[q]) /\ call'[q].block = call[q].block
      BY DEF NoNewWrite
    <2> QED BY <2>1, <2>2, <2>3 DEF Kept
  <1>7. OrderInv'
    <2> USE DEF DataIs, OrderInv
    <2>1. ReadInOrder'
      BY DEF ReadInOrder, OneWay
    <2>2. WaitingAfterRead' /\ WaitingInOrder'
      BY <1>2, <1>3 DEF WaitingAfterRead, WaitingInOrder, OneWay
    <2>3. PendingLast'
      BY <1>2, <1>3 DEF PendingLast, NoNewWrite
    <2> QED BY <2>1, <2>2, <2>3
  <1>8. ASSUME ~raced'
        PROVE  OnceInv'
    <2>1. OnceInv /\ ~raced
      BY <1>8 DEF DataIs
    <2>2. \A b, c : Apart(b, c)' <=> Apart(b, c)
      BY DEF Apart
    <2>3. \A s \in Socket : \A k \in DOMAIN received_data'[s] :
             /\ k \in DOMAIN received_data[s] /\ Live(s, k)
             /\ received_data'[s][k] = received_data[s][k]
      BY <1>2, <1>3 DEF Live
    <2>4. \A s, t \in Socket :
             \A k \in DOMAIN received_data'[s], l \in DOMAIN received_data'[t] :
                s # t \/ k # l => Apart(received_data'[s][k], received_data'[t][l])
      BY <2>1, <2>3 DEF OnceInv
    <2>5. \A q \in Process, s \in Socket : \A k \in DOMAIN received_data'[s] :
             Pending(call'[q]) => Apart(call'[q].block, received_data'[s][k])
      BY <2>1, <2>3 DEF OnceInv, NoNewWrite
    <2>6. \A q, r \in Process :
             Pending(call'[q]) /\ Pending(call'[r]) /\ q # r
                => Apart(call'[q].block, call'[r].block)
      BY <2>1 DEF OnceInv, NoNewWrite
    <2>7. \A s, t \in Socket : \A l \in DOMAIN received_data'[t] :
             Apart(delivered'[s], received_data'[t][l])
      BY <2>1, <2>3 DEF OnceInv
    <2>8. \A q \in Process, s \in Socket :
             Pending(call'[q]) => Apart(delivered'[s], call'[q].block)
      BY <2>1 DEF OnceInv, NoNewWrite
    <2>9. DeliveredOnce'
      BY <2>1 DEF OnceInv, DeliveredOnce
    <2> QED BY <2>4, <2>5, <2>6, <2>7, <2>8, <2>9 DEF OnceInv, Apart
  <1>9. OnceInv'
    BY <1>8 DEF OnceInv
  <1> QED BY <1>4, <1>5, <1>6, <1>7, <1>9 DEF DataIs

\* A block b is appended to the list of t: it is one that a write of p is about
\* to append, or one of the server that becomes a copy.
LEMMA BlockAppended ==
    ASSUME DataIs, NoNewWrite, NEW t \in Socket, NEW b \in Seq(Unit),
           received_data' = [received_data EXCEPT ![t] = Append(@, b)],
           UNCHANGED <<sent, delivered>>, raced => raced',
           WellFormed(sent, b),
           sent[b[1]].to = t \/ (t \in Accepted /\ sent[b[1]].to = Server),
           \* nothing is lost
           \A q \in Process : Pending(call[q]) =>
              Pending(call'[q]) \/ (call[q].block = b /\ sent[b[1]].to = t),
           \* nor out of order
           sent[b[1]].to = t => \A m \in DOMAIN b :
              /\ \A i \in DOMAIN delivered[t] :
                    sent[delivered[t][i]].by = sent[b[1]].by => delivered[t][i] < b[m]
              /\ \A k \in DOMAIN received_data[t] : \A i \in DOMAIN received_data[t][k] :
                    sent[received_data[t][k][i]].by = sent[b[1]].by
                       => received_data[t][k][i] < b[m],
           \A q \in Process : Pending(call'[q]) =>
              \A i \in DOMAIN b : \A m \in DOMAIN call'[q].block :
                 sent[b[i]].by = q => b[i] < call'[q].block[m],
           \* nor at two places
           ~raced' =>
              /\ \A s \in Socket : \A k \in DOMAIN received_data[s] :
                    Live(s, k)' => Live(s, k) /\ Apart(received_data[s][k], b)
              /\ \A s \in Socket : Apart(delivered[s], b)
              /\ \A q \in Process : Pending(call'[q]) => Apart(call'[q].block, b)
    PROVE  DataIs'
  <1> DEFINE L == Len(received_data[t])
  <1>1. \A s \in Socket : s # t => received_data'[s] = received_data[s]
    BY DEF DataIs, DataInv
  <1>2. received_data'[t] = Append(received_data[t], b)
    BY DEF DataIs, DataInv
  <1>3. L \in Nat /\ DOMAIN received_data[t] = 1 .. L
    BY DataTypes
  <1>4. /\ received_data'[t] \in Seq(Seq(Unit))
        /\ DOMAIN received_data'[t] = 1 .. L + 1
        /\ \A k \in 1 .. L : received_data'[t][k] = received_data[t][k]
        /\ received_data'[t][L + 1] = b
    <2>1. received_data[t] \in Seq(Seq(Unit))
      BY DataTypes
    <2> HIDE DEF Unit, L
    <2>2. \A list \in Seq(Seq(Unit)) :
             /\ Append(list, b) \in Seq(Seq(Unit))
             /\ DOMAIN Append(list, b) = 1 .. Len(list) + 1
             /\ \A k \in 1 .. Len(list) : Append(list, b)[k] = list[k]
             /\ Append(list, b)[Len(list) + 1] = b
      BY AppendProperties, LenProperties
    <2> QED BY <1>2, <2>1, <2>2 DEF L
  <1> HIDE DEF L
  <1>5. \A s \in Socket : \A k \in DOMAIN received_data'[s] :
           \/ /\ k \in DOMAIN received_data[s]
              /\ received_data'[s][k] = received_data[s][k]
              /\ s = t => k < L + 1
           \/ s = t /\ k = L + 1 /\ received_data'[s][k] = b
    BY <1>1, <1>3, <1>4
  <1>6. \A s \in Socket : \A k \in DOMAIN received_data[s] :
           /\ k \in DOMAIN received_data'[s]
           /\ received_data'[s][k] = received_data[s][k]
    BY <1>1, <1>3, <1>4
  <1>7. DataInv'
    <2>1. received_data'[t] \in BlockList
      <3>1. \A k \in DOMAIN received_data'[t] : received_data'[t][k] # << >>
        BY <1>5, DataTypes DEF WellFormed
      <3> QED BY <1>4, <3>1 DEF BlockList
    <2>2. received_data' \in [Socket -> BlockList]
      BY <1>2, <2>1 DEF DataIs, DataInv
    <2> QED BY <2>2 DEF DataIs, DataInv
  <1>8. BlocksInv'
    <2>1. \A c : WellFormed(sent', c) <=> WellFormed(sent, c)
      BY DEF WellFormed
    <2> DEFINE Fits(s, c) ==
                 WellFormed(sent, c) /\ (sent[c[1]].to = s \/ (s \in Accepted /\ sent[c[1]].to = Server))
    <2>2. \A s \in Socket : \A k \in DOMAIN received_data[s] : Fits(s, received_data[s][k])
      BY DEF DataIs, BlocksInv
    <2>3. Fits(t, b)
      OBVIOUS
    <2> HIDE DEF Fits
    <2>4. \A s \in Socket : \A k \in DOMAIN received_data'[s] : Fits(s, received_data'[s][k])
      BY <1>5, <2>2, <2>3
    <2>5. \A q \in Process : call'[q].op = "receive" =>
             LET c == call'[q].block IN
             WellFormed(sent, c) /\ sent[c[1]].by = q /\ sent[c[1]].to = call'[q].target
      BY DEF DataIs, BlocksInv, NoNewWrite
    <2> HIDE DEF WellFormed
    <2> QED BY <2>1, <2>4, <2>5 DEF BlocksInv, Fits
  <1>9. KeptInv'
    <2> SUFFICES ASSUME NEW u \in DOMAIN sent, sent[u].to # Server, sent[u].last
                 PROVE  Kept(u)'
      BY DEF KeptInv
    <2>1. Kept(u) /\ sent[u].to \in Socket
      BY SentTypes DEF DataIs, KeptInv
    <2>2. CASE \E q \in Process : Pending(call[q]) /\ \E j \in DOMAIN call[q].block :
                  call[q].block[j] = u
      <3>1. PICK q \in Process : Pending(call[q]) /\ \E j \in DOMAIN call[q].block :
                  call[q].block[j] = u
        BY <2>2
      <3>2. CASE Pending(call'[q])
        BY <3>1, <3>2 DEF Kept, NoNewWrite
      <3>3. CASE call[q].block = b /\ sent[b[1]].to = t
        <4>1. PICK j \in DOMAIN b : b[j] = u
          BY <3>1, <3>3
        <4>2. sent[u].to = t
          BY <3>3, <4>1 DEF WellFormed
        <4>3. L + 1 \in DOMAIN received_data'[t]
          BY <1>3, <1>4
        <4> QED BY <1>4, <4>1, <4>2, <4>3 DEF Kept
      <3> QED BY <3>1, <3>2, <3>3
    <2>3. CASE \E k \in DOMAIN received_data[sent[u].to] :
                  \E j \in DOMAIN received_data[sent[u].to][k] :
                     received_data[sent[u].to][k][j] = u
      <3>1. PICK k \in DOMAIN received_data[sent[u].to] :
                  \E j \in DOMAIN received_data[sent[u].to][k] :
                     received_data[sent[u].to][k][j] = u
        BY <2>3
      <3>2. /\ k \in DOMAIN received_data'[sent[u].to]
            /\ received_data'[sent[u].to][k] = received_data[sent[u].to][k]
        BY <1>6, <2>1
      <3> QED BY <3>1, <3>2 DEF Kept
    <2>4. CASE \E i \in DOMAIN delivered[sent[u].to] : delivered[sent[u].to][i] = u
      BY <2>4 DEF Kept
    <2> QED BY <2>1, <2>2, <2>3, <2>4 DEF Kept
  <1>10. OrderInv'
    <2>1. ReadInOrder /\ WaitingAfterRead /\ WaitingInOrder /\ PendingLast
      BY DEF DataIs, OrderInv
    <2>2. \A m \in DOMAIN b : sent[b[m]].by = sent[b[1]].by /\ sent[b[m]].to = sent[b[1]].to
      BY DEF WellFormed
    <2>3. \A s, u, v : OneWay(s, u, v)' <=> OneWay(s, u, v)
      BY DEF OneWay
    <2>4. ReadInOrder'
      BY <2>1, <2>3 DEF ReadInOrder
    <2>5. ASSUME NEW s \in Socket, NEW i \in DOMAIN delivered[s],
                 NEW k \in DOMAIN received_data'[s], NEW m \in DOMAIN received_data'[s][k],
                 OneWay(s, delivered[s][i], received_data'[s][k][m])
          PROVE  delivered[s][i] < received_data'[s][k][m]
      <3>1. CASE k \in DOMAIN received_data[s]
                 /\ received_data'[s][k] = received_data[s][k]
        BY <2>1, <2>5, <3>1 DEF WaitingAfterRead
      <3>2. CASE s = t /\ received_data'[s][k] = b
        BY <2>2, <2>5, <3>2 DEF OneWay
      <3> QED BY <1>5, <3>1, <3>2
    <2>6. ASSUME NEW s \in Socket, NEW k \in DOMAIN received_data'[s],
                 NEW l \in DOMAIN received_data'[s],
                 NEW i \in DOMAIN received_data'[s][k],
                 NEW j \in DOMAIN received_data'[s][l],
                 k < l, OneWay(s, received_data'[s][k][i], received_data'[s][l][j])
          PROVE  received_data'[s][k][i] < received_data'[s][l][j]
      <3>1. /\ k \in DOMAIN received_data[s]
            /\ received_data'[s][k] = received_data[s][k]
        BY <1>1, <1>3, <1>4, <2>6
      <3>2. CASE l \in DOMAIN received_data[s]
                 /\ received_data'[s][l] = received_data[s][l]
        BY <2>1, <2>6, <3>1, <3>2 DEF WaitingInOrder
      <3>3. CASE s = t /\ received_data'[s][l] = b
        BY <2>2, <2>6, <3>1, <3>3 DEF OneWay
      <3> QED BY <1>5, <3>2, <3>3
    <2>7. ASSUME NEW q \in Process, Pending(call'[q]),
                 NEW m \in DOMAIN call'[q].block, NEW s \in Socket
          PROVE  /\ \A i \in DOMAIN delivered[s] :
                       sent[delivered[s][i]].by = q => delivered[s][i] < call'[q].block[m]
                 /\ \A k \in DOMAIN received_data'[s] : \A i \in DOMAIN received_data'[s][k] :
                       sent[received_data'[s][k][i]].by = q
                          => received_data'[s][k][i] < call'[q].block[m]
      <3>1. Pending(call[q]) /\ call'[q].block = call[q].block
        BY <2>7 DEF NoNewWrite
      <3>2. \A i \in DOMAIN delivered[s] :
                sent[delivered[s][i]].by = q => delivered[s][i] < call'[q].block[m]
        BY <2>1, <3>1 DEF PendingLast
      <3>3. ASSUME NEW k \in DOMAIN received_data'[s],
                   NEW i \in DOMAIN received_data'[s][k],
                   sent[received_data'[s][k][i]].by = q
            PROVE  received_data'[s][k][i] < call'[q].block[m]
        <4>1. CASE k \in DOMAIN received_data[s]
                   /\ received_data'[s][k] = received_data[s][k]
          BY <2>1, <3>1, <3>3, <4>1 DEF PendingLast
        <4>2. CASE received_data'[s][k] = b
          BY <2>7, <3>3, <4>2
        <4> QED BY <1>5, <4>1, <4>2
      <3> QED BY <3>2, <3>3
    <2>8. WaitingAfterRead'
      BY <2>3, <2>5 DEF WaitingAfterRead
    <2>9. WaitingInOrder'
      BY SMTT(60), <2>3, <2>6 DEF WaitingInOrder
    <2>10. PendingLast'
      BY <2>7 DEF PendingLast
    <2> QED BY <2>4, <2>8, <2>9, <2>10 DEF OrderInv
  <1>11. ASSUME ~raced'
         PROVE  OnceInv'
    <2>1. OnceInv /\ ~raced
      BY <1>11 DEF DataIs
    <2>2. \A x, y : Apart(x, y)' <=> Apart(x, y)
      BY DEF Apart
    <2>3. \A x, y : Apart(x, y) <=> Apart(y, x)
      BY DEF Apart
    <2>4. \A s \in Socket : \A k \in DOMAIN received_data[s] :
             Live(s, k)' => Live(s, k) /\ Apart(received_data[s][k], b)
      BY <1>11
    <2>5. \A s, r \in Socket :
             \A k \in DOMAIN received_data'[s], l \in DOMAIN received_data'[r] :
                Live(s, k)' /\ Live(r, l)' /\ (s # r \/ k # l)
                   => Apart(received_data'[s][k], received_data'[r][l])
      BY <1>5, <2>1, <2>3, <2>4 DEF OnceInv
    <2>6. \A q \in Process, s \in Socket : \A k \in DOMAIN received_data'[s] :
             Pending(call'[q]) => Apart(call'[q].block, received_data'[s][k])
      BY <1>5, <1>11, <2>1 DEF OnceInv, NoNewWrite
    <2>7. \A q, r \in Process :
             Pending(call'[q]) /\ Pending(call'[r]) /\ q # r
                => Apart(call'[q].block, call'[r].block)
      BY <2>1 DEF OnceInv, NoNewWrite
    <2>8. \A s, r \in Socket : \A l \in DOMAIN received_data'[r] :
             Live(r, l)' => Apart(delivered'[s], received_data'[r][l])
      BY <1>5, <1>11, <2>1, <2>4 DEF OnceInv
    <2>9. \A q \in Process, s \in Socket :
             Pending(call'[q]) => Apart(delivered'[s], call'[q].block)
      BY <2>1 DEF OnceInv, NoNewWrite
    <2>10. DeliveredOnce'
      BY <2>1 DEF OnceInv, DeliveredOnce
    <2> HIDE DEF Apart, Live, Pending
    <2> QED BY <2>5, <2>6, <2>7, <2>8, <2>9, <2>10 DEF OnceInv, Apart
  <1>12. OnceInv'
    BY <1>11 DEF OnceInv
  <1> QED BY <1>7, <1>8, <1>9, <1>10, <1>12 DEF DataIs

LEMMA BlockIs ==
    ASSUME NEW b, WellFormed(sent, b)
    PROVE  /\ b \in Seq(Unit) /\ Len(b) \in Nat \ {0} /\ DOMAIN b = 1 .. Len(b)
           /\ 1 \in DOMAIN b /\ Len(b) \in DOMAIN b
  <1> HIDE DEF Unit
  <1> QED BY EmptySeq, LenProperties DEF WellFormed

\* A process begins to write a block of n units to t.
LEMMA BlockWritten ==
    ASSUME DataIs, NEW p \in Process, NEW t \in Socket, NEW n \in Nat \ {0},
           Len(sent) + n <= MaxUnits,
           sent' = sent \o [i \in 1 .. n |-> [by |-> p, to |-> t, last |-> i = n]],
           ~Pending(call[p]), Pending(call'[p]), call'[p].target = t,
           call'[p].block = [i \in 1 .. n |-> Len(sent) + i],
           \A q \in Process \ {p} : call'[q] = call[q],
           \A s, k : Live(s, k)' => Live(s, k),
           UNCHANGED <<received_data, delivered, raced>>
    PROVE  DataIs'
  <1> DEFINE N == Len(sent)
             R == [by : Process, to : Socket, last : BOOLEAN]
             new == [i \in 1 .. n |-> [by |-> p, to |-> t, last |-> i = n]]
             b == [i \in 1 .. n |-> N + i]
  <1>1. N \in Nat /\ DOMAIN sent = 1 .. N
    BY SentTypes
  <1>2. new \in Seq(R) /\ Len(new) = n
    OBVIOUS
  <1>3. \A i \in 1 .. n : new[i].by = p /\ new[i].to = t /\ (new[i].last <=> i = n)
    OBVIOUS
  <1>4. sent \in Seq(R)
    BY DEF DataIs, DataInv
  <1>5. b \in Seq(Unit) /\ Len(b) = n /\ DOMAIN b = 1 .. n
    BY <1>1, UnitsAssumption DEF Unit
  <1>6. \A i \in 1 .. n : b[i] = N + i
    OBVIOUS
  <1>7. sent' = sent \o new /\ call'[p].block = b
    OBVIOUS
  <1> HIDE DEF N, R, new, b, Unit
  <1>8. /\ sent' \in Seq(R) /\ Len(sent') = N + n
        /\ \A u \in 1 .. N + n : sent'[u] = IF u <= N THEN sent[u] ELSE new[u - N]
    <2>1. /\ sent \o new \in Seq(R) /\ Len(sent \o new) = N + n
          /\ \A u \in 1 .. N + n :
                (sent \o new)[u] = IF u <= N THEN sent[u] ELSE new[u - N]
      <3>1. \A x, y \in Seq(R) :
               /\ x \o y \in Seq(R) /\ Len(x \o y) = Len(x) + Len(y)
               /\ \A u \in 1 .. Len(x) + Len(y) :
                     (x \o y)[u] = IF u <= Len(x) THEN x[u] ELSE y[u - Len(x)]
        BY ConcatProperties
      <3>2. N = Len(sent)
        BY DEF N
      <3> QED BY <1>2, <1>4, <3>1, <3>2
    <2> QED BY <1>7, <2>1
  <1>9. DOMAIN sent' = 1 .. N + n
    BY <1>8, LenProperties
  <1>10. \A u \in DOMAIN sent : u \in DOMAIN sent' /\ sent'[u] = sent[u] /\ u <= N
    BY <1>1, <1>8, <1>9
  <1>11. \A i \in 1 .. n :
            /\ N + i \in DOMAIN sent' /\ sent'[N + i].by = p /\ sent'[N + i].to = t
            /\ sent'[N + i].last <=> i = n
    <2> TAKE i \in 1 .. n
    <2>1. N + i \in 1 .. N + n /\ ~(N + i <= N) /\ (N + i) - N = i
      BY <1>1
    <2>2. sent'[N + i] = new[i]
      BY <1>8, <2>1
    <2> QED BY <1>3, <1>9, <2>1, <2>2
  <1>12. \A q \in Process \ {p} :
            Pending(call'[q]) => Pending(call[q]) /\ call'[q].block = call[q].block
    OBVIOUS
  <1>13. \A q \in Process : Pending(call[q]) =>
            Pending(call'[q]) /\ call'[q].block = call[q].block /\ q # p
    OBVIOUS
  \* every unit there was is less than the new ones
  <1>14. \A s \in Socket : \A k \in DOMAIN received_data[s] :
         \A i \in DOMAIN received_data[s][k] : received_data[s][k][i] \in DOMAIN sent
    BY DEF DataIs, BlocksInv, WellFormed
  <1>15. \A s \in Socket : \A i \in DOMAIN delivered[s] : delivered[s][i] \in DOMAIN sent
    BY DEF DataIs, OrderInv, ReadInOrder
  <1>16. \A q \in Process : Pending(call[q]) =>
         \A i \in DOMAIN call[q].block : call[q].block[i] \in DOMAIN sent
    BY DEF DataIs, BlocksInv, WellFormed, Pending
  <1>17. \A u \in DOMAIN sent : \A m \in DOMAIN b : u < b[m]
    BY <1>1, <1>5, <1>6
  <1>18. DataInv'
    BY <1>8 DEF DataIs, DataInv, R, N
  <1>19. BlocksInv'
    <2>1. ASSUME NEW c, WellFormed(sent, c) PROVE WellFormed(sent', c)
      BY SMTT(60), <1>10, <2>1 DEF WellFormed
    <2>2. \A c : WellFormed(sent, c) => c[1] \in DOMAIN sent
      BY BlockIs DEF WellFormed
    <2>4. \A s \in Socket : \A k \in DOMAIN received_data[s] :
             LET c == received_data[s][k] IN
             WellFormed(sent', c) /\ (sent'[c[1]].to = s \/ (s \in Accepted /\ sent'[c[1]].to = Server))
      BY <1>10, <2>1, <2>2 DEF DataIs, BlocksInv
    <2>5. ASSUME NEW q \in Process \ {p}, call'[q].op = "receive"
          PROVE  LET c == call'[q].block IN
                 WellFormed(sent', c) /\ sent'[c[1]].by = q /\ sent'[c[1]].to = call'[q].target
      <3>1. call[q].op = "receive" /\ call'[q] = call[q] /\ WellFormed(sent, call[q].block)
            /\ sent[call[q].block[1]].by = q /\ sent[call[q].block[1]].to = call[q].target
        BY <2>5 DEF DataIs, BlocksInv
      <3> QED BY <1>10, <2>1, <2>2, <3>1
    <2>6. WellFormed(sent', b) /\ sent'[b[1]].by = p /\ sent'[b[1]].to = t
      <3>1. 1 \in 1 .. n
        OBVIOUS
      <3>2. b # << >>
        BY <1>5, <3>1
      <3>3. \A i, j \in 1 .. n : i < j => b[i] < b[j]
        BY <1>1, <1>6
      <3>4. \A j \in DOMAIN b :
               /\ b[j] \in DOMAIN sent'
               /\ sent'[b[j]].by = p /\ sent'[b[j]].to = t
               /\ sent'[b[j]].last <=> j = Len(b)
        <4> TAKE j \in DOMAIN b
        <4>1. j \in 1 .. n /\ b[j] = N + j /\ Len(b) = n
          BY <1>5, <1>6
        <4>2. /\ N + j \in DOMAIN sent' /\ sent'[N + j].by = p /\ sent'[N + j].to = t
              /\ sent'[N + j].last <=> j = n
          BY <1>11, <4>1
        <4> QED BY <4>1, <4>2
      <3>5. sent'[b[1]].by = p /\ sent'[b[1]].to = t
        BY <1>5, <3>1, <3>4
      <3> QED BY <1>5, <3>2, <3>3, <3>4, <3>5 DEF WellFormed
    <2> QED BY <1>7, <2>4, <2>5, <2>6 DEF BlocksInv
  <1>20. KeptInv'
    <2> SUFFICES ASSUME NEW u \in DOMAIN sent', sent'[u].to # Server, sent'[u].last
                 PROVE  Kept(u)'
      BY DEF KeptInv
    <2>1. CASE u \in 1 .. N
      <3>1. u \in DOMAIN sent /\ sent'[u] = sent[u]
        BY <1>1, <1>10, <2>1
      <3>2. Kept(u)
        BY <3>1 DEF DataIs, KeptInv
      <3>3. CASE \E q \in Process : Pending(call[q]) /\ \E j \in DOMAIN call[q].block :
                    call[q].block[j] = u
        <4>1. PICK q \in Process : Pending(call[q]) /\ \E j \in DOMAIN call[q].block :
                    call[q].block[j] = u
          BY <3>3
        <4>2. Pending(call'[q]) /\ call'[q].block = call[q].block
          BY <1>13, <4>1
        <4> QED BY <4>1, <4>2 DEF Kept
      <3>4. CASE ~\E q \in Process : Pending(call[q]) /\ \E j \in DOMAIN call[q].block :
                    call[q].block[j] = u
        <4>1. \/ \E k \in DOMAIN received_data[sent[u].to] :
                    \E j \in DOMAIN received_data[sent[u].to][k] :
                       received_data[sent[u].to][k][j] = u
              \/ \E i \in DOMAIN delivered[sent[u].to] : delivered[sent[u].to][i] = u
          BY <3>2, <3>4 DEF Kept
        <4> DEFINE r == sent'[u].to
        <4>2. r = sent[u].to
          BY <3>1
        <4> HIDE DEF r
        <4>3. \/ \E k \in DOMAIN received_data'[r] :
                    \E j \in DOMAIN received_data'[r][k] : received_data'[r][k][j] = u
              \/ \E i \in DOMAIN delivered'[r] : delivered'[r][i] = u
          BY <4>1, <4>2
        <4> QED BY <4>3 DEF Kept, r
      <3> QED BY <3>3, <3>4
    <2>2. CASE u \in N + 1 .. N + n
      <3>1. u - N \in 1 .. n /\ b[u - N] = u
        BY <1>1, <1>6, <2>2
      <3> QED BY <1>5, <1>7, <3>1 DEF Kept
    <2> QED BY <1>1, <1>9, <2>1, <2>2
  <1>21. OrderInv'
    <2>1. ReadInOrder /\ WaitingAfterRead /\ WaitingInOrder /\ PendingLast
      BY DEF DataIs, OrderInv
    <2>2. \A s, u, v : u \in DOMAIN sent /\ v \in DOMAIN sent =>
             (OneWay(s, u, v)' <=> OneWay(s, u, v))
      BY <1>10 DEF OneWay
    <2>3. ReadInOrder'
      BY <1>10, <1>15, <2>1, <2>2 DEF ReadInOrder
    <2>4. WaitingAfterRead'
      BY <1>14, <1>15, <2>1, <2>2 DEF WaitingAfterRead
    <2>5. WaitingInOrder'
      BY <1>14, <2>1, <2>2 DEF WaitingInOrder
    <2>6. PendingLast'
      <3> SUFFICES ASSUME NEW q \in Process, Pending(call'[q]),
                          NEW m \in DOMAIN call'[q].block, NEW s \in Socket
                   PROVE  /\ \A i \in DOMAIN delivered[s] :
                                sent'[delivered[s][i]].by = q
                                   => delivered[s][i] < call'[q].block[m]
                          /\ \A k \in DOMAIN received_data[s] :
                             \A i \in DOMAIN received_data[s][k] :
                                sent'[received_data[s][k][i]].by = q
                                   => received_data[s][k][i] < call'[q].block[m]
        BY DEF PendingLast
      <3>1. CASE q = p
        BY <1>7, <1>14, <1>15, <1>17, <3>1
      <3>2. CASE q # p
        BY <1>10, <1>12, <1>14, <1>15, <2>1, <3>2 DEF PendingLast
      <3> QED BY <3>1, <3>2
    <2> QED BY <2>3, <2>4, <2>5, <2>6 DEF OrderInv
  <1>22. ASSUME ~raced'
         PROVE  OnceInv'
    <2>1. OnceInv /\ ~raced
      BY <1>22 DEF DataIs
    <2>2. \A x, y : Apart(x, y)' <=> Apart(x, y)
      BY DEF Apart
    <2>3. \A x, y : Apart(x, y) <=> Apart(y, x)
      BY DEF Apart
    <2>4. \A c : (\A i \in DOMAIN c : c[i] \in DOMAIN sent) => Apart(b, c)
      <3>1. \A u \in DOMAIN sent : \A m \in DOMAIN b : u # b[m]
        BY <1>1, <1>5, <1>6, <1>17
      <3> QED BY <3>1 DEF Apart
    <2>5. \A s \in Socket : \A k \in DOMAIN received_data[s] : Apart(b, received_data[s][k])
      BY <1>14, <2>4
    <2>6. \A s, r \in Socket :
             \A k \in DOMAIN received_data[s], l \in DOMAIN received_data[r] :
                Live(s, k)' /\ Live(r, l)' /\ (s # r \/ k # l)
                   => Apart(received_data[s][k], received_data[r][l])
      BY <2>1 DEF OnceInv
    <2>7. \A q \in Process, s \in Socket : \A k \in DOMAIN received_data[s] :
             Pending(call'[q]) => Apart(call'[q].block, received_data[s][k])
      BY <1>7, <1>12, <2>1, <2>5 DEF OnceInv
    <2>8. \A q, r \in Process :
             Pending(call'[q]) /\ Pending(call'[r]) /\ q # r
                => Apart(call'[q].block, call'[r].block)
      BY <1>7, <1>12, <1>16, <2>1, <2>3, <2>4 DEF OnceInv
    <2>9. \A s, r \in Socket : \A l \in DOMAIN received_data[r] :
             Live(r, l)' => Apart(delivered[s], received_data[r][l])
      BY <2>1 DEF OnceInv
    <2>10. \A q \in Process, s \in Socket :
             Pending(call'[q]) => Apart(delivered[s], call'[q].block)
      BY <1>7, <1>12, <1>15, <2>1, <2>3, <2>4 DEF OnceInv
    <2>11. DeliveredOnce'
      BY <2>1 DEF OnceInv, DeliveredOnce
    <2> QED BY <2>6, <2>7, <2>8, <2>9, <2>10, <2>11 DEF OnceInv, Apart
  <1>23. OnceInv'
    BY <1>22 DEF OnceInv
  <1> QED BY <1>18, <1>19, <1>20, <1>21, <1>23 DEF DataIs


\* A read of s takes what fits into n units.
Takes(s, n) ==
    /\ received_data' = [received_data EXCEPT ![s] = Left(received_data[s], n)]
    /\ delivered' = [delivered EXCEPT
          ![s] = @ \o Filled(received_data[s], n)[Len(received_data[s])]]

LEMMA DataTaken ==
    ASSUME DataIs, NoNewWrite, NEW s \in Socket, NEW n \in Nat \ {0},
           \A q \in Process : Pending(call[q]) => Pending(call'[q]),
           Takes(s, n), sent' = sent, raced => raced',
           ~raced' => /\ \A k : Live(s, k)
                      /\ \A r, k : Live(r, k)' => Live(r, k)
    PROVE  DataIs'
  <1> DEFINE data == received_data[s]
             N == Len(data)
             c == Consumed(data, n)
             buffer == Filled(data, n)[N]
             D == Len(delivered[s])
             B == Len(buffer)
  <1>1. /\ data \in BlockList /\ N \in Nat /\ DOMAIN data = 1 .. N
        /\ delivered[s] \in Seq(Unit)
    BY DataTypes
  <1>2. /\ c \in 0 .. N
        /\ buffer \in Seq(Unit)
        /\ \E blk, pos : Picks(data, buffer, blk, pos, c)
        /\ \A k \in 1 .. c : \E x \in DOMAIN buffer : buffer[x] = data[k][Len(data[k])]
    BY <1>1, FilledPicks
  <1>3. /\ Left(data, n) \in BlockList
        /\ Len(Left(data, n)) = N - c
        /\ \A k \in 1 .. N - c : Left(data, n)[k] = data[c + k]
    BY <1>1, LeftProperties
  <1>4. /\ received_data'[s] = Left(data, n)
        /\ delivered'[s] = delivered[s] \o buffer
        /\ \A r \in Socket : r # s => /\ received_data'[r] = received_data[r]
                                      /\ delivered'[r] = delivered[r]
    BY DEF DataIs, DataInv, Takes
  <1>5. D \in Nat /\ B \in Nat /\ DOMAIN delivered[s] = 1 .. D /\ DOMAIN buffer = 1 .. B
    BY <1>1, <1>2, LenProperties
  <1>6. DOMAIN received_data'[s] = 1 .. N - c
    BY <1>3, <1>4 DEF BlockList
  <1> HIDE DEF c, buffer, Unit
  <1>7. /\ delivered'[s] \in Seq(Unit)
        /\ DOMAIN delivered'[s] = 1 .. D + B
        /\ \A i \in 1 .. D + B :
              delivered'[s][i] = IF i <= D THEN delivered[s][i] ELSE buffer[i - D]
    <2>1. \A x, y \in Seq(Unit) :
             /\ x \o y \in Seq(Unit) /\ DOMAIN (x \o y) = 1 .. Len(x) + Len(y)
             /\ \A i \in 1 .. Len(x) + Len(y) :
                   (x \o y)[i] = IF i <= Len(x) THEN x[i] ELSE y[i - Len(x)]
      BY ConcatProperties, LenProperties
    <2> DEFINE old == delivered[s]
               now == delivered'[s]
    <2>2. old \in Seq(Unit) /\ D = Len(old) /\ now = old \o buffer
      BY <1>1, <1>4
    <2> HIDE DEF old, now, D
    <2>3. /\ now \in Seq(Unit) /\ DOMAIN now = 1 .. D + B
          /\ \A i \in 1 .. D + B : now[i] = IF i <= D THEN old[i] ELSE buffer[i - D]
      BY <1>2, <2>1, <2>2
    <2> QED BY <2>3 DEF old, now
  <1>8. PICK blk, pos : Picks(data, buffer, blk, pos, c)
    BY <1>2
  <1> DEFINE src(r, k) == IF r = s THEN c + k ELSE k
             Old(r, i) == /\ i \in DOMAIN delivered[r]
                          /\ delivered'[r][i] = delivered[r][i]
                          /\ r = s => i <= D
             K(i) == blk[i - D]
             J(i) == pos[i - D]
             New(i) == /\ i > D /\ K(i) \in DOMAIN data /\ K(i) <= c
                       /\ J(i) \in DOMAIN data[K(i)]
                       /\ delivered'[s][i] = data[K(i)][J(i)]
  \* Where what waits, and what was read, was before.
  <1>9. \A r \in Socket : \A k \in DOMAIN received_data'[r] :
           /\ src(r, k) \in DOMAIN received_data[r]
           /\ received_data'[r][k] = received_data[r][src(r, k)]
           /\ src(r, k) \in Nat
           /\ r = s => src(r, k) > c
    <2> TAKE r \in Socket
    <2> TAKE k \in DOMAIN received_data'[r]
    <2>1. CASE r = s
      <3>1. k \in 1 .. N - c
        BY <1>6, <2>1
      <3>2. c + k \in 1 .. N /\ c + k > c /\ c + k \in Nat
        BY <1>1, <1>2, <3>1
      <3> QED BY <1>1, <1>3, <1>4, <2>1, <3>1, <3>2
    <2>2. CASE r # s
      BY <1>4, <2>2, DataTypes
    <2> QED BY <2>1, <2>2
  <1>10. \A r \in Socket : \A k, l \in DOMAIN received_data'[r] :
            /\ k < l => src(r, k) < src(r, l)
            /\ k # l => src(r, k) # src(r, l)
    <2> TAKE r \in Socket
    <2> TAKE k, l \in DOMAIN received_data'[r]
    <2>1. CASE r = s
      BY <1>1, <1>2, <1>6, <2>1
    <2>2. CASE r # s
      BY <2>2
    <2> QED BY <2>1, <2>2
  <1>11. \A r \in Socket : \A i \in DOMAIN delivered[r] :
            i \in DOMAIN delivered'[r] /\ delivered'[r][i] = delivered[r][i]
    <2> TAKE r \in Socket
    <2> TAKE i \in DOMAIN delivered[r]
    <2>1. CASE r = s
      <3>1. i \in 1 .. D + B /\ i <= D
        BY <1>5, <2>1
      <3> QED BY <1>7, <2>1, <3>1
    <2>2. CASE r # s
      BY <1>4, <2>2
    <2> QED BY <2>1, <2>2
  <1>12. /\ blk \in [1 .. B -> 1 .. c] /\ pos \in [1 .. B -> Nat]
         /\ \A x \in 1 .. B :
               pos[x] \in 1 .. Len(data[blk[x]]) /\ buffer[x] = data[blk[x]][pos[x]]
         /\ \A x, y \in 1 .. B : x < y =>
               blk[x] < blk[y] \/ (blk[x] = blk[y] /\ pos[x] < pos[y])
    BY <1>8 DEF Picks
  <1> HIDE DEF data, N, D, B
  <1>13. \A r \in Socket : \A i \in DOMAIN delivered'[r] : Old(r, i) \/ (r = s /\ New(i))
    <2> TAKE r \in Socket
    <2> TAKE i \in DOMAIN delivered'[r]
    <2>1. CASE r # s
      BY <1>4, <2>1
    <2>2. CASE r = s /\ i \in 1 .. D
      <3>1. i \in 1 .. D + B /\ i <= D
        BY <1>5, <2>2
      <3> QED BY <1>5, <1>7, <2>2, <3>1
    <2>3. CASE r = s /\ i \in D + 1 .. D + B
      <3> DEFINE x == i - D
      <3>1. i \in 1 .. D + B /\ ~(i <= D) /\ i > D /\ x \in 1 .. B
        BY <1>5, <2>3
      <3> HIDE DEF x
      <3>2. blk[x] \in 1 .. c /\ pos[x] \in 1 .. Len(data[blk[x]])
            /\ buffer[x] = data[blk[x]][pos[x]]
        BY <1>12, <3>1
      <3>3. blk[x] \in DOMAIN data /\ blk[x] <= c
        BY <1>1, <1>2, <3>2
      <3>4. DOMAIN data[blk[x]] = 1 .. Len(data[blk[x]])
        BY <1>1, <3>3 DEF BlockList
      <3>5. delivered'[s][i] = buffer[x]
        BY <1>7, <3>1 DEF x
      <3> QED BY <2>3, <3>1, <3>2, <3>3, <3>4, <3>5 DEF x
    <2>4. r = s => i \in 1 .. D \/ i \in D + 1 .. D + B
      BY <1>5, <1>7
    <2> HIDE DEF Old, New
    <2> QED BY <2>1, <2>2, <2>3, <2>4
  <1>14. \A i, j \in DOMAIN delivered'[s] : New(i) /\ New(j) /\ i < j =>
            K(i) < K(j) \/ (K(i) = K(j) /\ J(i) < J(j))
    <2> SUFFICES ASSUME NEW i \in DOMAIN delivered'[s], NEW j \in DOMAIN delivered'[s],
                        i > D, j > D, i < j
                 PROVE  K(i) < K(j) \/ (K(i) = K(j) /\ J(i) < J(j))
      OBVIOUS
    <2> DEFINE x == i - D
               y == j - D
    <2>1. x \in 1 .. B /\ y \in 1 .. B /\ x < y
      BY <1>5, <1>7
    <2> HIDE DEF x, y
    <2>2. blk[x] < blk[y] \/ (blk[x] = blk[y] /\ pos[x] < pos[y])
      BY <1>12, <2>1
    <2> QED BY <2>2 DEF x, y
  <1>15. \A i \in DOMAIN delivered'[s] : New(i) => K(i) \in Nat /\ J(i) \in Nat
    <2> SUFFICES ASSUME NEW i \in DOMAIN delivered'[s], i > D
                 PROVE  K(i) \in Nat /\ J(i) \in Nat
      OBVIOUS
    <2> DEFINE x == i - D
    <2>1. x \in 1 .. B
      BY <1>5, <1>7
    <2> HIDE DEF x
    <2>2. blk[x] \in Nat /\ pos[x] \in Nat
      BY <1>12, <2>1
    <2> QED BY <2>2 DEF x
  <1>16. \A k \in 1 .. c : \E i \in DOMAIN delivered'[s] :
            delivered'[s][i] = data[k][Len(data[k])]
    <2> TAKE k \in 1 .. c
    <2>1. PICK x \in 1 .. B : buffer[x] = data[k][Len(data[k])]
      BY <1>2, <1>5
    <2>2. D + x \in 1 .. D + B /\ ~(D + x <= D) /\ (D + x) - D = x
      BY <1>5
    <2>3. delivered'[s][D + x] = buffer[x]
      BY <1>7, <2>2
    <2> QED BY <1>7, <2>1, <2>2, <2>3
  <1>17. \A i, j \in DOMAIN delivered'[s] : New(i) /\ Old(s, j) => j < i
    BY <1>5, <1>7
  <1>18. data = received_data[s]
    BY DEF data
  <1>19. \A i \in DOMAIN delivered'[s] : New(i) =>
            /\ K(i) \in DOMAIN data /\ K(i) <= c /\ J(i) \in DOMAIN data[K(i)]
            /\ delivered'[s][i] = data[K(i)][J(i)]
    OBVIOUS
  <1>20. \A r \in Socket : \A i \in DOMAIN delivered'[r] : Old(r, i) =>
            i \in DOMAIN delivered[r] /\ delivered'[r][i] = delivered[r][i]
    OBVIOUS
  <1> HIDE DEF src, Old, New, K, J
  <1>21. \A r \in Socket : \A k \in DOMAIN received_data[r] : WellFormed(sent, received_data[r][k])
    BY DEF DataIs, BlocksInv
  <1>22. \A i \in DOMAIN delivered'[s] : New(i) =>
            \A k \in DOMAIN received_data'[s] : K(i) < src(s, k)
    BY <1>1, <1>2, <1>9, <1>15, <1>19
  <1>23. DataInv'
    <2>1. received_data' \in [Socket -> BlockList]
      BY <1>3, <1>18 DEF DataIs, DataInv, Takes
    <2>2. \A r \in Socket : delivered'[r] \in Seq(Unit)
      BY <1>4, <1>7 DEF DataIs, DataInv
    <2>3. delivered' \in [Socket -> Seq(Unit)]
      BY <2>2 DEF DataIs, DataInv, Takes
    <2> QED BY <1>4, <2>1, <2>3 DEF DataIs, DataInv
  <1>24. BlocksInv'
    <2>1. \A b : WellFormed(sent', b) <=> WellFormed(sent, b)
      BY DEF WellFormed
    <2> DEFINE Fits(r, b) ==
          WellFormed(sent, b) /\ (sent[b[1]].to = r \/ (r \in Accepted /\ sent[b[1]].to = Server))
    <2>2. \A r \in Socket : \A k \in DOMAIN received_data[r] : Fits(r, received_data[r][k])
      BY DEF DataIs, BlocksInv
    <2> HIDE DEF Fits
    <2>3. \A r \in Socket : \A k \in DOMAIN received_data'[r] : Fits(r, received_data'[r][k])
      BY <1>9, <2>2
    <2>4. \A q \in Process : call'[q].op = "receive" =>
             LET b == call'[q].block IN
             WellFormed(sent, b) /\ sent[b[1]].by = q /\ sent[b[1]].to = call'[q].target
      BY DEF DataIs, BlocksInv, NoNewWrite
    <2>5. \A r \in Socket : \A k \in DOMAIN received_data'[r] :
             LET b == received_data'[r][k] IN
             WellFormed(sent, b) /\ (sent[b[1]].to = r \/ (r \in Accepted /\ sent[b[1]].to = Server))
      BY <2>3 DEF Fits
    <2> HIDE DEF WellFormed
    <2> QED BY <2>1, <2>4, <2>5 DEF BlocksInv
  <1>25. KeptInv'
    <2> SUFFICES ASSUME NEW u \in DOMAIN sent, sent[u].to # Server, sent[u].last
                 PROVE  Kept(u)'
      BY DEF KeptInv
    <2> DEFINE r == sent[u].to
    <2>1. Kept(u) /\ r \in Socket
      BY SentTypes DEF DataIs, KeptInv
    <2>2. CASE \E q \in Process : Pending(call[q]) /\ \E j \in DOMAIN call[q].block :
                  call[q].block[j] = u
      BY <2>2 DEF Kept, NoNewWrite
    <2>3. CASE \E k \in DOMAIN received_data[r] :
                  \E j \in DOMAIN received_data[r][k] : received_data[r][k][j] = u
      <3>1. PICK k \in DOMAIN received_data[r] :
                  \E j \in DOMAIN received_data[r][k] : received_data[r][k][j] = u
        BY <2>3
      <3>2. CASE r # s
        <4>1. received_data'[r] = received_data[r]
          BY <1>4, <2>1, <3>2
        <4> QED BY <3>1, <4>1 DEF Kept
      <3>3. CASE r = s /\ k <= c
        <4>1. PICK j \in DOMAIN data[k] : data[k][j] = u
          BY <1>18, <3>1, <3>3
        <4>2. j = Len(data[k])
          BY <1>18, <1>21, <2>1, <3>1, <3>3, <4>1 DEF WellFormed
        <4>3. k \in 1 .. c
          BY <1>1, <1>2, <1>18, <3>1, <3>3
        <4>4. \E i \in DOMAIN delivered'[r] : delivered'[r][i] = u
          BY <1>16, <3>3, <4>1, <4>2, <4>3
        <4> QED BY <4>4 DEF Kept
      <3>4. CASE r = s /\ ~(k <= c)
        <4>1. k - c \in 1 .. N - c /\ c + (k - c) = k
          BY <1>1, <1>2, <1>18, <3>1, <3>4
        <4>2. k - c \in DOMAIN received_data'[r] /\ received_data'[r][k - c] = received_data[r][k]
          BY <1>3, <1>4, <1>6, <1>18, <3>4, <4>1
        <4> QED BY <3>1, <4>2 DEF Kept
      <3> QED BY <3>2, <3>3, <3>4
    <2>4. CASE \E i \in DOMAIN delivered[r] : delivered[r][i] = u
      <3>1. \E i \in DOMAIN delivered'[r] : delivered'[r][i] = u
        BY <1>11, <2>1, <2>4
      <3> QED BY <3>1 DEF Kept
    <2> QED BY <2>1, <2>2, <2>3, <2>4 DEF Kept
  <1>26. OrderInv'
    <2>1. ReadInOrder /\ WaitingAfterRead /\ WaitingInOrder /\ PendingLast
      BY DEF DataIs, OrderInv
    <2>2. \A r, u, v : OneWay(r, u, v)' <=> OneWay(r, u, v)
      BY DEF OneWay
    <2>3. \A r \in Socket : \A i \in DOMAIN delivered'[r] : delivered'[r][i] \in DOMAIN sent
      <3>1. \A r \in Socket : \A i \in DOMAIN delivered[r] : delivered[r][i] \in DOMAIN sent
        BY <2>1 DEF ReadInOrder
      <3>2. \A k \in DOMAIN data : \A j \in DOMAIN data[k] : data[k][j] \in DOMAIN sent
        BY <1>18, <1>21 DEF WellFormed
      <3> QED BY <1>13, <1>19, <1>20, <3>1, <3>2
    <2>4. ASSUME NEW r \in Socket, NEW i \in DOMAIN delivered'[r],
                 NEW j \in DOMAIN delivered'[r], i < j,
                 OneWay(r, delivered'[r][i], delivered'[r][j])
          PROVE  delivered'[r][i] < delivered'[r][j]
      <3>1. CASE Old(r, i) /\ Old(r, j)
        BY <1>20, <2>1, <2>4, <3>1 DEF ReadInOrder
      <3>2. CASE Old(r, i) /\ r = s /\ New(j)
        BY <1>18, <1>19, <1>20, <2>1, <2>4, <3>2 DEF WaitingAfterRead
      <3>3. CASE r = s /\ New(i) /\ Old(r, j)
        <4>1. j < i
          BY <1>17, <3>3
        <4>2. i \in Nat /\ j \in Nat
          BY <1>5, <1>7, <3>3
        <4> QED BY <2>4, <4>1, <4>2
      <3>4. CASE r = s /\ New(i) /\ New(j)
        <4>1. K(i) < K(j) \/ (K(i) = K(j) /\ J(i) < J(j))
          BY <1>14, <2>4, <3>4
        <4>2. CASE K(i) < K(j)
          BY <1>18, <1>19, <2>1, <2>4, <3>4, <4>2 DEF WaitingInOrder
        <4>3. CASE K(i) = K(j) /\ J(i) < J(j)
          BY <1>18, <1>19, <1>21, <2>4, <3>4, <4>3 DEF WellFormed
        <4> QED BY <4>1, <4>2, <4>3
      <3> QED BY <1>13, <3>1, <3>2, <3>3, <3>4
    <2>5. ASSUME NEW r \in Socket, NEW i \in DOMAIN delivered'[r],
                 NEW k \in DOMAIN received_data'[r], NEW m \in DOMAIN received_data'[r][k],
                 OneWay(r, delivered'[r][i], received_data'[r][k][m])
          PROVE  delivered'[r][i] < received_data'[r][k][m]
      <3>1. CASE Old(r, i)
        BY <1>9, <1>20, <2>1, <2>5, <3>1 DEF WaitingAfterRead
      <3>2. CASE r = s /\ New(i)
        <4>1. K(i) < src(r, k)
          BY <1>22, <2>5, <3>2
        <4> QED BY <1>9, <1>18, <1>19, <2>1, <2>5, <3>2, <4>1 DEF WaitingInOrder
      <3> QED BY <1>13, <3>1, <3>2
    <2>6. ASSUME NEW r \in Socket, NEW k \in DOMAIN received_data'[r],
                 NEW l \in DOMAIN received_data'[r],
                 NEW i \in DOMAIN received_data'[r][k],
                 NEW j \in DOMAIN received_data'[r][l],
                 k < l, OneWay(r, received_data'[r][k][i], received_data'[r][l][j])
          PROVE  received_data'[r][k][i] < received_data'[r][l][j]
      <3>1. src(r, k) < src(r, l)
        BY <1>10, <2>6
      <3> QED BY <1>9, <2>1, <2>6, <3>1 DEF WaitingInOrder
    <2>7. ASSUME NEW q \in Process, Pending(call'[q]),
                 NEW m \in DOMAIN call'[q].block, NEW r \in Socket
          PROVE  /\ \A i \in DOMAIN delivered'[r] :
                       sent[delivered'[r][i]].by = q => delivered'[r][i] < call'[q].block[m]
                 /\ \A k \in DOMAIN received_data'[r] : \A i \in DOMAIN received_data'[r][k] :
                       sent[received_data'[r][k][i]].by = q
                          => received_data'[r][k][i] < call'[q].block[m]
      <3>1. Pending(call[q]) /\ call'[q].block = call[q].block
        BY <2>7 DEF NoNewWrite
      <3>2. /\ \A i \in DOMAIN delivered[r] :
                  sent[delivered[r][i]].by = q => delivered[r][i] < call'[q].block[m]
            /\ \A k \in DOMAIN received_data[r] : \A i \in DOMAIN received_data[r][k] :
                  sent[received_data[r][k][i]].by = q
                     => received_data[r][k][i] < call'[q].block[m]
        BY <2>1, <2>7, <3>1 DEF PendingLast
      <3>3. ASSUME NEW i \in DOMAIN delivered'[r], sent[delivered'[r][i]].by = q
            PROVE  delivered'[r][i] < call'[q].block[m]
        <4>1. CASE Old(r, i)
          BY <1>20, <3>2, <3>3, <4>1
        <4>2. CASE r = s /\ New(i)
          BY <1>18, <1>19, <3>2, <3>3, <4>2
        <4> QED BY <1>13, <4>1, <4>2
      <3>4. ASSUME NEW k \in DOMAIN received_data'[r], NEW i \in DOMAIN received_data'[r][k],
                   sent[received_data'[r][k][i]].by = q
            PROVE  received_data'[r][k][i] < call'[q].block[m]
        BY <1>9, <3>2, <3>4
      <3> QED BY <3>3, <3>4
    <2>8. ReadInOrder'
      BY <2>2, <2>3, <2>4 DEF ReadInOrder
    <2>9. WaitingAfterRead'
      BY <2>2, <2>5 DEF WaitingAfterRead
    <2>10. WaitingInOrder'
      BY <2>2, <2>6 DEF WaitingInOrder
    <2>11. PendingLast'
      BY <2>7 DEF PendingLast
    <2> QED BY <2>8, <2>9, <2>10, <2>11 DEF OrderInv
  <1>27. ASSUME ~raced'
         PROVE  OnceInv'
    <2>1. OnceInv /\ ~raced
      BY <1>27 DEF DataIs
    <2>2. \A x, y : Apart(x, y)' <=> Apart(x, y)
      BY DEF Apart
    <2>3. \A k : Live(s, k)
      BY <1>27
    <2>4. \A r \in Socket : \A k \in DOMAIN received_data'[r] :
             Live(r, k)' => Live(r, src(r, k))
      BY <1>27 DEF src
    <2>5. \A r, t \in Socket :
             \A k \in DOMAIN received_data'[r], l \in DOMAIN received_data'[t] :
                Live(r, k)' /\ Live(t, l)' /\ (r # t \/ k # l)
                   => Apart(received_data'[r][k], received_data'[t][l])
      BY <1>9, <1>10, <2>1, <2>4 DEF OnceInv
    <2>6. \A q \in Process, r \in Socket : \A k \in DOMAIN received_data'[r] :
             Pending(call'[q]) => Apart(call'[q].block, received_data'[r][k])
      BY <1>9, <2>1 DEF OnceInv, NoNewWrite
    <2>7. \A q, r \in Process :
             Pending(call'[q]) /\ Pending(call'[r]) /\ q # r
                => Apart(call'[q].block, call'[r].block)
      BY <2>1 DEF OnceInv, NoNewWrite
    <2>8. \A r, t \in Socket : \A l \in DOMAIN received_data'[t] :
             Live(t, l)' => Apart(delivered'[r], received_data'[t][l])
      <3> SUFFICES ASSUME NEW r \in Socket, NEW t \in Socket,
                          NEW l \in DOMAIN received_data'[t], Live(t, l)',
                          NEW i \in DOMAIN delivered'[r],
                          NEW j \in DOMAIN received_data'[t][l]
                   PROVE  delivered'[r][i] # received_data'[t][l][j]
        BY DEF Apart
      <3>1. CASE Old(r, i)
        BY <1>9, <1>20, <2>1, <2>4, <3>1 DEF OnceInv, Apart
      <3>2. CASE r = s /\ New(i)
        <4>1. s # t \/ K(i) # src(t, l)
          BY <1>1, <1>9, <1>15, <1>22, <3>2
        <4>2. Apart(received_data[s][K(i)], received_data[t][src(t, l)])
          BY <1>9, <1>18, <1>19, <2>1, <2>3, <2>4, <3>2, <4>1 DEF OnceInv
        <4> QED BY <1>9, <1>18, <1>19, <3>2, <4>2 DEF Apart
      <3> QED BY <1>13, <3>1, <3>2
    <2>9. \A q \in Process, r \in Socket :
             Pending(call'[q]) => Apart(delivered'[r], call'[q].block)
      <3> SUFFICES ASSUME NEW q \in Process, NEW r \in Socket, Pending(call'[q]),
                          NEW i \in DOMAIN delivered'[r], NEW j \in DOMAIN call'[q].block
                   PROVE  delivered'[r][i] # call'[q].block[j]
        BY DEF Apart
      <3>0. Pending(call[q]) /\ call'[q].block = call[q].block
        BY DEF NoNewWrite
      <3>1. CASE Old(r, i)
        <4>1. Apart(delivered[r], call[q].block)
          BY <2>1, <3>0 DEF OnceInv
        <4> QED BY <1>20, <3>0, <3>1, <4>1 DEF Apart
      <3>2. CASE r = s /\ New(i)
        <4>1. Apart(call[q].block, data[K(i)])
          BY <1>18, <1>19, <2>1, <3>0, <3>2 DEF OnceInv
        <4> QED BY <1>19, <3>0, <3>2, <4>1 DEF Apart
      <3> QED BY <1>13, <3>1, <3>2
    <2>10. DeliveredOnce'
      <3> SUFFICES ASSUME NEW r \in Socket, NEW t \in Socket,
                          NEW i \in DOMAIN delivered'[r], NEW j \in DOMAIN delivered'[t],
                          delivered'[r][i] = delivered'[t][j]
                   PROVE  r = t /\ i = j
        BY DEF DeliveredOnce
      <3>1. CASE Old(r, i) /\ Old(t, j)
        BY <1>20, <2>1, <3>1 DEF OnceInv, DeliveredOnce
      <3>2. ASSUME NEW a \in Socket, NEW x \in DOMAIN delivered'[a], Old(a, x),
                   NEW y \in DOMAIN delivered'[s], New(y),
                   delivered'[a][x] = delivered'[s][y]
            PROVE  FALSE
        <4>1. Apart(delivered[a], data[K(y)])
          BY <1>18, <1>19, <2>1, <2>3, <3>2 DEF OnceInv
        <4> QED BY <1>19, <1>20, <3>2, <4>1 DEF Apart
      <3>3. CASE r = s /\ New(i) /\ t = s /\ New(j)
        <4>1. i \in Nat /\ j \in Nat
          BY <1>5, <1>7, <3>3
        <4>2. ASSUME NEW x \in DOMAIN delivered'[s], NEW y \in DOMAIN delivered'[s],
                     New(x), New(y), x < y, delivered'[s][x] = delivered'[s][y]
              PROVE  FALSE
          <5>1. K(x) < K(y) \/ (K(x) = K(y) /\ J(x) < J(y))
            BY <1>14, <4>2
          <5>2. CASE K(x) < K(y)
            <6>1. K(x) # K(y)
              BY <1>15, <4>2, <5>2
            <6>2. Apart(data[K(x)], data[K(y)])
              BY <1>18, <1>19, <2>1, <2>3, <4>2, <6>1 DEF OnceInv
            <6> QED BY <1>19, <4>2, <6>2 DEF Apart
          <5>3. CASE K(x) = K(y) /\ J(x) < J(y)
            <6>1. WellFormed(sent, data[K(x)])
              BY <1>18, <1>19, <1>21, <4>2
            <6>2. data[K(x)][J(x)] < data[K(x)][J(y)]
              BY <1>19, <4>2, <5>3, <6>1 DEF WellFormed
            <6>3. data[K(x)][J(x)] = data[K(x)][J(y)]
              BY <1>19, <4>2, <5>3
            <6>4. data[K(x)][J(x)] \in Unit
              BY <1>19, <4>2, <6>1, ElementOfSeq DEF WellFormed
            <6> QED BY <6>2, <6>3, <6>4, UnitsAssumption DEF Unit
          <5> QED BY <5>1, <5>2, <5>3
        <4> QED BY <3>3, <4>1, <4>2
      <3> QED BY <1>13, <3>1, <3>2, <3>3
    <2> HIDE DEF Apart, Live, Pending
    <2> QED BY <2>5, <2>6, <2>7, <2>8, <2>9, <2>10 DEF OnceInv, Apart
  <1>28. OnceInv'
    BY <1>27 DEF OnceInv
  <1> QED BY <1>23, <1>24, <1>25, <1>26, <1>28 DEF DataIs


-----------------------------------------------------------------------------
(* The steps that move data, one by one *)

LEMMA WithoutIn ==
    ASSUME NEW S, NEW list \in Seq(S), NEW gone
    PROVE  Without(list, gone) \in Seq(S)
  <1> DEFINE N == Len(list)
             T == Seq(S)
             step == [a \in (1 .. N) \X T |->
                        IF list[a[1]] = gone THEN a[2] ELSE Append(a[2], list[a[1]])]
             Def(f) == f = [i \in 0 .. N |->
                 IF i = 0 THEN << >>
                 ELSE IF list[i] = gone THEN f[i - 1]
                 ELSE Append(f[i - 1], list[i])]
             F == CHOOSE f : Def(f)
  <1>1. N \in Nat /\ << >> \in T /\ \A i \in 1 .. N : list[i] \in S
    BY EmptySeq
  <1>2. \A i \in 1 .. N : \A b \in T : Append(b, list[i]) \in T
    BY <1>1, AppendProperties
  <1> HIDE DEF T
  <1>3. step \in [(1 .. N) \X T -> T]
    BY <1>2
  <1>4. \A i \in 1 .. N : \A b \in T :
           step[<<i, b>>] = IF list[i] = gone THEN b ELSE Append(b, list[i])
    OBVIOUS
  <1> HIDE DEF N, step, Def, F
  <1>5. PICK f \in [0 .. N -> T] :
            f[0] = << >> /\ \A i \in 1 .. N : f[i] = step[<<i, f[i - 1]>>]
    <2>1. PICK f : Computes(f, N, T, << >>, step)
      BY <1>1, <1>3, Recursion
    <2> QED BY <2>1 DEF Computes
  <1>6. \A i \in 1 .. N : i - 1 \in 0 .. N /\ f[i - 1] \in T
    BY <1>1
  <1>7. \A i \in 0 .. N : f[i] =
            IF i = 0 THEN << >>
            ELSE IF list[i] = gone THEN f[i - 1] ELSE Append(f[i - 1], list[i])
    <2>1. \A i \in 0 .. N : i = 0 \/ (i # 0 /\ i \in 1 .. N)
      BY <1>1
    <2> QED BY <1>4, <1>5, <1>6, <2>1
  <1>8. Def(f)
    BY <1>5, <1>7 DEF Def
  <1>9. Def(F)
    BY <1>8 DEF F
  <1>10. F[0] = << >> /\ \A i \in 1 .. N :
            F[i] = IF list[i] = gone THEN F[i - 1] ELSE Append(F[i - 1], list[i])
    <2>1. F[0] = << >>
      BY <1>1, <1>9 DEF Def
    <2>2. ASSUME NEW i \in 1 .. N
          PROVE  F[i] = IF list[i] = gone THEN F[i - 1] ELSE Append(F[i - 1], list[i])
      <3>1. i \in 0 .. N /\ i # 0
        BY <1>1
      <3> QED BY <1>9, <3>1 DEF Def
    <2> QED BY <2>1, <2>2
  <1> DEFINE I == {i \in 0 .. N : F[i] \in T}
  <1>11. 0 \in I
    BY <1>1, <1>10
  <1>12. ASSUME NEW i \in 0 .. N - 1, i \in I PROVE i + 1 \in I
    <2> DEFINE j == i + 1
    <2>1. j \in 1 .. N /\ j - 1 = i /\ F[i] \in T
      BY <1>1, <1>12
    <2> HIDE DEF j
    <2>2. F[j] = IF list[j] = gone THEN F[i] ELSE Append(F[i], list[j])
      BY <1>10, <2>1
    <2>3. F[j] \in T /\ j \in 0 .. N
      BY <1>1, <1>2, <2>1, <2>2
    <2> QED BY <2>3 DEF j
  <1> HIDE DEF I
  <1>13. 0 .. N \subseteq I
    BY <1>1, <1>11, <1>12, IntervalInduction
  <1>14. F[N] \in T
    BY <1>1, <1>13 DEF I
  <1>15. Without(list, gone) = F[N]
    BY DEF Without, F, Def, N
  <1> QED BY <1>14, <1>15 DEF T

LEMMA AcceptClearStep ==
    ASSUME SocketsInv, NEW p \in Process, AcceptClear(p)
    PROVE  SocketsInv'
  <1> DEFINE t == [call[p] EXCEPT !.at = "free"]
  <1>1. call[p] \in Calls /\ CallShape(call[p])
    BY CallIs
  <1>2. call[p].op = "moved" /\ call[p].at = "hold"
    BY DEF AcceptClear, At
  <1>3. call' = [call EXCEPT ![p] = t]
    BY DEF AcceptClear, Goto
  <1>4. t \in Calls
    BY <1>1 DEF Calls, Places
  <1>5. CallShape(t) /\ Holds(t) = Holds(call[p]) /\ ~Pending(t) /\ ~Pending(call[p])
        /\ t.op # "receive"
    BY <1>1, <1>2 DEF CallShape, Calls, Holds, Pending
  <1> HIDE DEF t
  <1>6. /\ CallsInv' /\ call'[p] = t
        /\ \A q \in Process \ {p} : call'[q] = call[q]
    BY <1>3, <1>4, <1>5, CallMoves DEF SocketsInv
  <1>7. FieldsInv'
    BY DEF AcceptClear, SocketsInv, FieldsInv
  <1>8. LocksInv'
    BY <1>5, <1>6, LocksKept DEF SocketsInv, AcceptClear
  <1>9. NoNewWrite /\ \A q \in Process : Pending(call[q]) => Pending(call'[q])
    BY <1>5, <1>6 DEF NoNewWrite, Pending
  <1>10. DataIs'
    BY <1>9, ServerCleared DEF SocketsInv, AcceptClear, Cleared
  <1> QED BY <1>6, <1>7, <1>8, <1>10 DEF SocketsInv

LEMMA ShutdownClearStep ==
    ASSUME SocketsInv, NEW p \in Process, ShutdownClear(p)
    PROVE  SocketsInv'
  <1> DEFINE c == call[p]
             t == [c EXCEPT !.at = "free"]
  <1>1. c \in Calls /\ CallShape(c)
    BY CallIs
  <1>2. c.op = "shutdown" /\ c.at = "set"
    BY DEF ShutdownClear, LockSet, At
  <1>3. c.target = Server
    BY <1>1, <1>2 DEF CallShape
  <1>4. /\ call' = [call EXCEPT ![p] = t]
        /\ lock' = [lock EXCEPT ![Server] = TRUE] /\ raced' = (raced \/ lock[Server])
        /\ received_data' = [received_data EXCEPT ![Server] = << >>]
        /\ backlog_sockets' = Without(backlog_sockets, Head(c.closing))
        /\ UNCHANGED <<listening, server_socket, client_socket, link_socket,
                       backlog_count, held, sent, delivered, panic>>
    BY <1>3 DEF ShutdownClear, LockSet, Goto
  <1>5. t \in Calls
    BY <1>1 DEF Calls, Places
  <1>6. /\ CallShape(t) /\ Holds(t) = Holds(c) \cup {Server}
        /\ ~Pending(t) /\ ~Pending(c) /\ t.op # "receive"
    BY <1>1, <1>2, <1>3 DEF CallShape, Calls, Holds, Pending
  <1> HIDE DEF t
  <1>7. /\ CallsInv' /\ call'[p] = t
        /\ \A q \in Process \ {p} : call'[q] = call[q]
    BY <1>4, <1>5, <1>6, CallMoves DEF SocketsInv
  <1>8. FieldsInv'
    <2>1. backlog_sockets' \in Seq(Client)
      BY <1>4, WithoutIn DEF SocketsInv, FieldsInv
    <2> QED BY <1>4, <2>1 DEF SocketsInv, FieldsInv
  <1>9. LocksInv'
    <2>1. Server \in Socket
      BY DEF Socket
    <2>2. Holds(call'[p]) = Holds(call[p]) \cup {Server}
      BY <1>6, <1>7
    <2> QED BY <1>4, <1>7, <2>1, <2>2, LockTaken DEF SocketsInv
  <1>10. NoNewWrite /\ \A q \in Process : Pending(call[q]) => Pending(call'[q])
    BY <1>6, <1>7 DEF NoNewWrite, Pending
  <1>11. raced => raced'
    BY <1>4
  <1>12. DataIs'
    BY <1>4, <1>10, <1>11, ServerCleared DEF SocketsInv
  <1> QED BY <1>7, <1>8, <1>9, <1>12 DEF SocketsInv

LEMMA ReadTakeStep ==
    ASSUME SocketsInv, NEW p \in Process, ReadTake(p)
    PROVE  SocketsInv'
  <1> DEFINE c == call[p]
             s == c.this
             n == c.size
             t == [c EXCEPT !.at = "free"]
  <1>1. c \in Calls /\ CallShape(c)
    BY CallIs
  <1>2. c.op = "read" /\ c.at = "set"
    BY DEF ReadTake, LockSet, At
  <1>3. c.target = s /\ s \in Socket /\ n \in Nat \ {0}
    BY <1>1, <1>2 DEF CallShape, Calls
  <1>4. /\ call' = [call EXCEPT ![p] = t]
        /\ lock' = [lock EXCEPT ![s] = TRUE] /\ raced' = (raced \/ lock[s])
        /\ Takes(s, n)
        /\ UNCHANGED <<listening, server_socket, client_socket, link_socket,
                       backlog_sockets, backlog_count, held, sent, panic>>
    BY <1>3 DEF ReadTake, LockSet, Goto, Takes
  <1>5. t \in Calls
    BY <1>1 DEF Calls, Places
  <1>6. /\ CallShape(t) /\ Holds(t) = Holds(c) \cup {s}
        /\ ~Pending(t) /\ ~Pending(c) /\ t.op = "read" /\ c.op = "read"
    BY <1>1, <1>2, <1>3 DEF CallShape, Calls, Holds, Pending
  <1> HIDE DEF t
  <1>7. /\ CallsInv' /\ call'[p] = t
        /\ \A q \in Process \ {p} : call'[q] = call[q]
    BY <1>4, <1>5, <1>6, CallMoves DEF SocketsInv
  <1>8. FieldsInv'
    BY <1>4 DEF SocketsInv, FieldsInv
  <1>9. LocksInv'
    <2>1. Holds(call'[p]) = Holds(call[p]) \cup {s}
      BY <1>6, <1>7
    <2> HIDE DEF s
    <2> QED BY <1>3, <1>4, <1>7, <2>1, LockTaken DEF SocketsInv
  <1>10. NoNewWrite /\ \A q \in Process : Pending(call[q]) => Pending(call'[q])
    BY <1>6, <1>7 DEF NoNewWrite, Pending
  <1>11. raced => raced'
    BY <1>4
  <1>12. ASSUME ~raced'
         PROVE  /\ \A k : Live(s, k)
                /\ \A r, k : Live(r, k)' => Live(r, k)
    <2>1. ~raced /\ ~lock[s]
      BY <1>4, <1>12
    <2>2. \A q \in Process : s \notin Holds(call[q])
      BY <1>3, <2>1 DEF SocketsInv, LocksInv
    <2>3. \A q \in Process : Server \notin Holds(call[q]) =>
             call[q].op # "move" /\ ~(call[q].op = "moved" /\ call[q].at = "hold")
      <3>1. \A q \in Process : call[q].op = "moved" => call[q].target = Server
        BY CallIs DEF CallShape
      <3> QED BY <3>1 DEF Holds
    <2>4. \A k : Live(s, k)
      BY <2>2, <2>3 DEF Live
    <2>5. \A q \in Process : call'[q] # call[q] =>
             call'[q].op = "read" /\ call[q].op = "read"
      BY <1>6, <1>7
    <2>6. \A r, k : Live(r, k)' => Live(r, k)
      BY <2>5 DEF Live
    <2> QED BY <2>4, <2>6
  <1>13. DataIs'
    <2> HIDE DEF s, n
    <2> QED BY <1>3, <1>4, <1>10, <1>11, <1>12, DataTaken DEF SocketsInv
  <1> QED BY <1>7, <1>8, <1>9, <1>13 DEF SocketsInv


LEMMA ReceiveStep ==
    ASSUME SocketsInv, NEW p \in Process, Receive(p)
    PROVE  SocketsInv'
  <1> DEFINE c == call[p]
             s == c.target
             b == c.block
             t == [c EXCEPT !.at = "free"]
  <1>1. c \in Calls /\ CallShape(c)
    BY CallIs
  <1>2. c.op = "receive" /\ c.at = "set"
    BY DEF Receive, LockSet, At
  <1>3. s \in Socket /\ Pending(c)
    BY <1>1, <1>2 DEF CallShape, Pending
  <1>4. /\ call' = [call EXCEPT ![p] = t]
        /\ lock' = [lock EXCEPT ![s] = TRUE] /\ raced' = (raced \/ lock[s])
        /\ received_data' = [received_data EXCEPT ![s] = Append(@, b)]
        /\ UNCHANGED <<listening, server_socket, client_socket, link_socket,
                       backlog_sockets, backlog_count, held, sent, delivered, panic>>
    BY DEF Receive, LockSet, Goto, Extended
  <1>5. t \in Calls
    BY <1>1 DEF Calls, Places
  <1>6. /\ CallShape(t) /\ Holds(t) = Holds(c) \cup {s}
        /\ ~Pending(t) /\ t.op = "receive" /\ t.block = b /\ t.target = s
    BY <1>1, <1>2, <1>3 DEF CallShape, Calls, Holds, Pending
  <1> HIDE DEF t
  <1>7. /\ CallsInv' /\ call'[p] = t
        /\ \A q \in Process \ {p} : call'[q] = call[q]
    BY <1>4, <1>5, <1>6, CallMoves DEF SocketsInv
  <1>8. FieldsInv'
    BY <1>4 DEF SocketsInv, FieldsInv
  <1>9. LocksInv'
    <2>1. Holds(call'[p]) = Holds(call[p]) \cup {s}
      BY <1>6, <1>7
    <2> HIDE DEF s
    <2> QED BY <1>3, <1>4, <1>7, <2>1, LockTaken DEF SocketsInv
  <1>10. /\ NoNewWrite
         /\ \A q \in Process : Pending(call'[q]) =>
               q # p /\ Pending(call[q]) /\ call'[q].block = call[q].block
         /\ \A q \in Process : Pending(call[q]) => Pending(call'[q]) \/ q = p
    BY <1>2, <1>6, <1>7 DEF NoNewWrite, Pending
  <1>11. DataIs
    BY DEF SocketsInv
  <1>12. /\ WellFormed(sent, b) /\ sent[b[1]].by = p /\ sent[b[1]].to = s
         /\ \A i \in DOMAIN b : sent[b[i]].by = p
    BY <1>2, <1>11 DEF DataIs, BlocksInv, WellFormed
  <1>13. b \in Seq(Unit)
    BY <1>12 DEF WellFormed
  <1>14. \A m \in DOMAIN b :
            /\ \A i \in DOMAIN delivered[s] :
                  sent[delivered[s][i]].by = sent[b[1]].by => delivered[s][i] < b[m]
            /\ \A k \in DOMAIN received_data[s] : \A i \in DOMAIN received_data[s][k] :
                  sent[received_data[s][k][i]].by = sent[b[1]].by
                     => received_data[s][k][i] < b[m]
    BY <1>3, <1>11, <1>12 DEF DataIs, OrderInv, PendingLast
  <1>15. \A q \in Process : Pending(call'[q]) =>
            \A i \in DOMAIN b : \A m \in DOMAIN call'[q].block :
               sent[b[i]].by = q => b[i] < call'[q].block[m]
    BY <1>10, <1>12
  <1>16. ASSUME ~raced'
         PROVE  /\ \A r \in Socket : \A k \in DOMAIN received_data[r] :
                      Live(r, k)' => Live(r, k) /\ Apart(received_data[r][k], b)
                /\ \A r \in Socket : Apart(delivered[r], b)
                /\ \A q \in Process : Pending(call'[q]) => Apart(call'[q].block, b)
    <2>1. OnceInv /\ ~raced
      BY <1>4, <1>11, <1>16 DEF DataIs
    <2>2. \A q \in Process : call'[q] # call[q] =>
             call'[q].op = "receive" /\ call[q].op = "receive"
      BY <1>2, <1>6, <1>7
    <2>3. \A r, k : Live(r, k)' => Live(r, k)
      BY <2>2 DEF Live
    <2>4. \A r \in Socket : \A k \in DOMAIN received_data[r] :
             Apart(b, received_data[r][k])
      BY <1>3, <2>1 DEF OnceInv
    <2>5. \A x, y : Apart(x, y) <=> Apart(y, x)
      BY DEF Apart
    <2>6. \A r \in Socket : Apart(delivered[r], b)
      BY <1>3, <2>1 DEF OnceInv
    <2>7. \A q \in Process : Pending(call'[q]) => Apart(call'[q].block, b)
      BY <1>3, <1>10, <2>1 DEF OnceInv
    <2> QED BY <2>3, <2>4, <2>5, <2>6, <2>7
  <1>17. raced => raced'
    BY <1>4
  <1>18. \A q \in Process : Pending(call[q]) =>
            Pending(call'[q]) \/ (call[q].block = b /\ sent[b[1]].to = s)
    BY <1>10, <1>12
  <1>19. DataIs'
    <2> HIDE DEF c, s, b
    <2>1. sent[b[1]].to = s => \A m \in DOMAIN b :
             /\ \A i \in DOMAIN delivered[s] :
                   sent[delivered[s][i]].by = sent[b[1]].by => delivered[s][i] < b[m]
             /\ \A k \in DOMAIN received_data[s] : \A i \in DOMAIN received_data[s][k] :
                   sent[received_data[s][k][i]].by = sent[b[1]].by
                      => received_data[s][k][i] < b[m]
      BY <1>14
    <2>2. WellFormed(sent, b) /\ (sent[b[1]].to = s \/ (s \in Accepted /\ sent[b[1]].to = Server))
      BY <1>12
    <2>3. NoNewWrite /\ s \in Socket
      BY <1>3, <1>10
    <2>4. received_data' = [received_data EXCEPT ![s] = Append(@, b)]
          /\ UNCHANGED <<sent, delivered>>
      BY <1>4
    <2> QED BY <1>11, <1>13, <1>15, <1>16, <1>17, <1>18, <2>1, <2>2, <2>3, <2>4,
               BlockAppended
  <1> QED BY <1>7, <1>8, <1>9, <1>19 DEF SocketsInv

LEMMA MoveBlockStep ==
    ASSUME SocketsInv, NEW p \in Process, MoveBlock(p)
    PROVE  SocketsInv'
  <1>1. CASE Stop(ClearedList)
    BY <1>1, StopStep DEF Unlocked, ClearedList
  <1>2. CASE ~Stop(ClearedList)
    <2> DEFINE c == call[p]
               s == c.target
               next == c.moved + 1
               b == received_data[Server][next]
               t == [c EXCEPT !.at = "free", !.moved = next]
    <2>1. c \in Calls /\ CallShape(c)
      BY CallIs
    <2>2. c.op = "move" /\ c.at = "set"
      BY <1>2 DEF MoveBlock, LockSet, At
    <2>3. s \in Accepted /\ s \in Socket /\ s # Server /\ next \in Nat
      BY <2>1, <2>2, SocketsAssumption DEF CallShape, Calls, Socket
    <2>4. /\ call' = [call EXCEPT ![p] = t]
          /\ lock' = [lock EXCEPT ![s] = TRUE] /\ raced' = (raced \/ lock[s])
          /\ next \in DOMAIN received_data[Server]
          /\ received_data' = [received_data EXCEPT ![s] = Append(@, b)]
          /\ UNCHANGED <<listening, server_socket, client_socket, link_socket,
                         backlog_sockets, backlog_count, held, sent, delivered, panic>>
      <3>1. /\ LockSet(p, "move")
            /\ next \in DOMAIN received_data[Server]
            /\ received_data' = [received_data EXCEPT ![s] = Append(@, b)]
            /\ call' = [call EXCEPT ![p].at = "free", ![p].moved = next]
            /\ UNCHANGED <<listening, server_socket, client_socket, link_socket,
                           backlog_sockets, backlog_count, held, sent, delivered, panic>>
        BY <1>2 DEF MoveBlock, Extended
      <3>2. call' = [call EXCEPT ![p] = t]
        BY <3>1 DEF SocketsInv, CallsInv
      <3> QED BY <3>1, <3>2 DEF LockSet
    <2>5. t \in Calls
      BY <2>1, <2>3 DEF Calls, Places
    <2>6. /\ CallShape(t) /\ Holds(t) = Holds(c) \cup {s}
          /\ ~Pending(t) /\ t.op = "move" /\ t.moved = next
      BY <2>1, <2>2, <2>3 DEF CallShape, Calls, Holds, Pending
    <2> HIDE DEF t
    <2>7. /\ CallsInv' /\ call'[p] = t
          /\ \A q \in Process \ {p} : call'[q] = call[q]
      BY <2>4, <2>5, <2>6, CallMoves DEF SocketsInv
    <2>8. FieldsInv'
      BY <2>4 DEF SocketsInv, FieldsInv
    <2>9. LocksInv'
      <3>1. Holds(call'[p]) = Holds(call[p]) \cup {s}
        BY <2>6, <2>7
      <3> HIDE DEF s
      <3> QED BY <2>3, <2>4, <2>7, <3>1, LockTaken DEF SocketsInv
    <2>10. /\ NoNewWrite
           /\ \A q \in Process : Pending(call'[q]) =>
                 q # p /\ Pending(call[q]) /\ call'[q].block = call[q].block
           /\ \A q \in Process : Pending(call[q]) => Pending(call'[q])
      BY <2>2, <2>6, <2>7 DEF NoNewWrite, Pending
    <2>11. DataIs /\ Server \in Socket
      BY DEF SocketsInv, Socket
    <2>12. WellFormed(sent, b) /\ sent[b[1]].to = Server
      BY <2>4, <2>11, SocketsAssumption DEF DataIs, BlocksInv
    <2>13. b \in Seq(Unit)
      BY <2>12 DEF WellFormed
    <2>14. \A q \in Process : Pending(call'[q]) =>
              \A i \in DOMAIN b : \A m \in DOMAIN call'[q].block :
                 sent[b[i]].by = q => b[i] < call'[q].block[m]
      BY <2>4, <2>10, <2>11 DEF DataIs, OrderInv, PendingLast
    <2>15. ASSUME ~raced'
           PROVE  /\ \A r \in Socket : \A k \in DOMAIN received_data[r] :
                        Live(r, k)' => Live(r, k) /\ Apart(received_data[r][k], b)
                  /\ \A r \in Socket : Apart(delivered[r], b)
                  /\ \A q \in Process : Pending(call'[q]) => Apart(call'[q].block, b)
      <3>1. OnceInv /\ ~raced
        BY <2>4, <2>11, <2>15 DEF DataIs
      <3>2. \A q \in Process \ {p} : Server \notin Holds(call[q])
        <4>1. Server \in Holds(call[p])
          BY <2>2 DEF Holds
        <4> QED BY <3>1, <4>1 DEF SocketsInv, LocksInv
      <3>3. \A q \in Process \ {p} :
               call[q].op # "move" /\ ~(call[q].op = "moved" /\ call[q].at = "hold")
        <4>1. \A q \in Process : call[q].op = "moved" => call[q].target = Server
          BY CallIs DEF CallShape
        <4> QED BY <3>2, <4>1 DEF Holds
      <3>4. c.moved \in Nat
        BY <2>1 DEF Calls
      <3>5. Live(Server, next)
        BY <2>2, <3>3, <3>4 DEF Live
      <3>6. \A r \in Socket : \A k \in DOMAIN received_data[r] : Live(r, k)' =>
               Live(r, k) /\ (r # Server \/ k # next)
        <4> SUFFICES ASSUME NEW k \in DOMAIN received_data[Server], Live(Server, k)'
                     PROVE  Live(Server, k) /\ k # next
          BY DEF Live
        <4>1. k \in Nat
          BY <2>11, DataTypes
        <4>2. k > next
          BY <2>6, <2>7 DEF Live
        <4>3. k > c.moved /\ k # next
          BY <2>3, <3>4, <4>1, <4>2
        <4> QED BY <2>2, <3>3, <4>3 DEF Live
      <3>7. \A r \in Socket : \A k \in DOMAIN received_data[r] :
               Live(r, k)' => Apart(received_data[r][k], b)
        BY <2>4, <2>11, <3>1, <3>5, <3>6 DEF OnceInv
      <3>8. \A r \in Socket : Apart(delivered[r], b)
        BY <2>4, <2>11, <3>1, <3>5 DEF OnceInv
      <3>9. \A q \in Process : Pending(call'[q]) => Apart(call'[q].block, b)
        BY <2>4, <2>10, <2>11, <3>1 DEF OnceInv
      <3> QED BY <3>6, <3>7, <3>8, <3>9
    <2>16. raced => raced'
      BY <2>4
    <2>17. sent[b[1]].to # s
      BY <2>3, <2>12
    <2>18. DataIs'
      <3> HIDE DEF s, b
      <3> QED BY ZenonT(60), <2>3, <2>4, <2>10, <2>11, <2>12, <2>13, <2>14, <2>15, <2>16, <2>17,
                 BlockAppended
    <2> QED BY <2>7, <2>8, <2>9, <2>18 DEF SocketsInv
  <1> QED BY <1>1, <1>2

LEMMA WriteStep ==
    ASSUME SocketsInv, NEW p \in Process, NEW s \in Socket, NEW n \in BlockSizes,
           Write(p, s, n)
    PROVE  SocketsInv'
  <1>1. CASE Stop("Write on server socket")
    BY <1>1, StopStep DEF Unlocked
  <1>2. CASE Stop("Not connected")
    BY <1>2, StopStep DEF Unlocked
  <1>3. CASE ~Stop("Write on server socket") /\ ~Stop("Not connected")
    <2> DEFINE b == [i \in 1 .. n |-> Len(sent) + i]
               t == Peer(s)
               new == [i \in 1 .. n |-> [by |-> p, to |-> t, last |-> i = n]]
               d == [Idle EXCEPT !.op = "receive", !.at = "test",
                                 !.this = s, !.target = t, !.block = b]
    <2>1. /\ call[p].op = "none" /\ call[p].at = "user"
          /\ t # None
          /\ Len(sent) + n <= MaxUnits
          /\ sent' = sent \o new
          /\ call' = [call EXCEPT ![p] = d]
          /\ UNCHANGED <<fields, lock, held, delivered, raced, panic>>
      BY <1>3 DEF Write, CanCall, At
    <2>2. UNCHANGED <<listening, server_socket, client_socket, link_socket,
                      backlog_sockets, backlog_count, received_data, lock, held,
                      delivered, raced, panic>>
      BY <2>1 DEF fields
    <2>3. n \in Nat \ {0} /\ Len(sent) \in Nat
      BY SizesAssumption, SentTypes DEF SocketsInv
    <2>4. b \in Seq(Unit)
      <3> DEFINE N == Len(sent)
      <3>1. N \in Nat /\ N + n <= MaxUnits
        BY <2>1, <2>3
      <3>2. b = [i \in 1 .. n |-> N + i]
        OBVIOUS
      <3> HIDE DEF N, b
      <3>3. \A i \in 1 .. n : N + i \in Unit
        BY <2>3, <3>1, UnitsAssumption DEF Unit
      <3> HIDE DEF Unit
      <3>4. b \in [1 .. n -> Unit]
        BY <3>2, <3>3
      <3> QED BY <2>3, <3>4
    <2>5. t \in Socket
      BY <2>1 DEF Peer, SocketsInv, FieldsInv, Socket
    <2> HIDE DEF b, t
    <2>6. d \in Calls /\ CallShape(d)
      BY <2>4, <2>5, IdleIs DEF Calls, Ops, Places, CallShape, Idle
    <2>7. Holds(d) = {} /\ Pending(d) /\ d.target = t /\ d.block = b /\ d.op = "receive"
      BY DEF Holds, Pending, Idle
    <2>8. Holds(call[p]) = {} /\ ~Pending(call[p])
      BY <2>1 DEF Holds, Pending
    <2> HIDE DEF d
    <2>9. /\ CallsInv' /\ call'[p] = d
          /\ \A q \in Process \ {p} : call'[q] = call[q]
      BY <2>1, <2>6, CallMoves DEF SocketsInv
    <2>10. FieldsInv'
      BY <2>2 DEF SocketsInv, FieldsInv
    <2>11. LocksInv'
      BY <2>2, <2>7, <2>8, <2>9, LocksKept DEF SocketsInv
    <2>12. \A r, k : Live(r, k)' => Live(r, k)
      <3>1. \A q \in Process : call'[q] # call[q] =>
               call'[q].op = "receive" /\ call[q].op = "none"
        BY <2>1, <2>7, <2>9
      <3> QED BY <3>1 DEF Live
    <2>13. DataIs'
      <3>1. call'[p].block = [i \in 1 .. n |-> Len(sent) + i]
        BY <2>7, <2>9 DEF b
      <3>2. Pending(call'[p]) /\ call'[p].target = t
        BY <2>7, <2>9
      <3> QED BY <2>1, <2>2, <2>3, <2>5, <2>8, <2>9, <2>12, <3>1, <3>2, BlockWritten
             DEF SocketsInv
    <2> QED BY <2>9, <2>10, <2>11, <2>13 DEF SocketsInv
  <1> QED BY <1>1, <1>2, <1>3

-----------------------------------------------------------------------------
(* The theorems *)

LEMMA InitIs == Init => SocketsInv
  <1> SUFFICES ASSUME Init PROVE SocketsInv
    OBVIOUS
  <1>1. \A p \in Process : call[p] = Idle
    BY DEF Init
  <1>2. \A p \in Process : call[p].op = "none" /\ call[p].at = "user"
    <2>1. Idle.op = "none" /\ Idle.at = "user"
      BY DEF Idle
    <2> QED BY <1>1, <2>1
  <1>3. FieldsInv
    <2>1. held \in [Process -> SUBSET Socket]
      BY InheritedAssumption DEF Init, Socket
    <2>2. << >> \in Seq(Client) /\ 0 \in Nat
      OBVIOUS
    <2>3. /\ \A s \in Socket : server_socket[s] = None /\ link_socket[s] = None
          /\ Accepted \subseteq Socket
      BY DEF Init, Socket
    <2>4. /\ listening \in [Socket -> BOOLEAN]
          /\ server_socket \in [Socket -> {None, Server}]
          /\ client_socket \in [Socket -> Client \cup {None}]
          /\ link_socket \in [Socket -> Client \cup Accepted \cup {None}]
          /\ backlog_sockets \in Seq(Client) /\ backlog_count \in Nat
      BY <2>2 DEF Init
    <2> QED BY <2>1, <2>3, <2>4 DEF FieldsInv
  <1>4. CallsInv
    BY <1>1, IdleIs DEF Init, CallsInv
  <1>5. LocksInv
    <2>1. \A p \in Process : Holds(call[p]) = {}
      BY <1>2 DEF Holds
    <2>2. panic # Unlocked
      BY DEF Init, NoPanic, Unlocked
    <2> QED BY <2>1, <2>2 DEF Init, LocksInv, UnlockedByRace
  <1>6. \A p \in Process : ~Pending(call[p])
    BY <1>2 DEF Pending
  <1>7. /\ \A s \in Socket : received_data[s] = << >> /\ delivered[s] = << >>
        /\ sent = << >>
        /\ DOMAIN << >> = {}
    BY DEF Init
  <1>8. DataInv
    <2>1. << >> \in BlockList
      BY DEF BlockList
    <2> QED BY <2>1, UnitsAssumption DEF Init, DataInv
  <1>9. BlocksInv
    BY <1>2, <1>7 DEF BlocksInv
  <1>10. KeptInv
    BY <1>7 DEF KeptInv
  <1>11. OrderInv
    BY <1>6, <1>7 DEF OrderInv, ReadInOrder, WaitingAfterRead, WaitingInOrder, PendingLast
  <1>12. OnceInv
    BY <1>6, <1>7 DEF OnceInv, Apart, DeliveredOnce
  <1> QED BY <1>3, <1>4, <1>5, <1>8, <1>9, <1>10, <1>11, <1>12 DEF SocketsInv, DataIs

LEMMA StepKeeps == SocketsInv /\ [Next]_vars => SocketsInv'
  <1> SUFFICES ASSUME SocketsInv, [Next]_vars
               PROVE  SocketsInv'
    OBVIOUS
  <1>1. CASE UNCHANGED vars
    <2>1. UNCHANGED <<listening, server_socket, client_socket, link_socket,
                      backlog_sockets, backlog_count, received_data, lock, held,
                      call, sent, delivered, raced, panic>>
      BY <1>1 DEF vars, fields
    <2>2. FieldsInv' /\ CallsInv'
      BY <2>1 DEF SocketsInv, FieldsInv, CallsInv
    <2>3. LocksInv'
      BY <2>1 DEF SocketsInv, LocksInv, UnlockedByRace
    <2>4. DataIs'
      BY <2>1, DataSame DEF SocketsInv
    <2> QED BY <2>2, <2>3, <2>4 DEF SocketsInv
  <1>2. CASE Halted
    BY <1>1, <1>2 DEF Halted
  <1>3. ASSUME NEW p \in Process, Request(p)
        PROVE  SocketsInv'
    <2>1. ASSUME NEW count \in Backlogs, Listen(p, count) PROVE SocketsInv'
      BY <2>1, ListenStep
    <2>2. CASE Accept(p)
      BY <2>2, AcceptStep
    <2>3. ASSUME NEW s \in Socket, Connect(p, s) PROVE SocketsInv'
      BY <2>3, ConnectStep
    <2>4. ASSUME NEW s \in Socket, Close(p, s) PROVE SocketsInv'
      BY <2>4, CloseStep
    <2>5. ASSUME NEW s \in Socket, NEW n \in BlockSizes, Write(p, s, n) PROVE SocketsInv'
      BY <2>5, WriteStep
    <2>6. ASSUME NEW s \in Socket, NEW n \in ReadSizes, NEW noblock \in BOOLEAN,
                 Read(p, s, n, noblock)
          PROVE  SocketsInv'
      BY <2>6, ReadStep
    <2> QED BY <1>3, <2>1, <2>2, <2>3, <2>4, <2>5, <2>6 DEF Request
  <1>4. ASSUME NEW p \in Process, Proceed(p)
        PROVE  SocketsInv'
    <2>1. CASE LockTest(p)
      BY <2>1, LockTestStep
    <2>2. CASE Unlock(p)
      BY <2>2, UnlockStep
    <2>3. CASE BacklogAdmits(p)
      BY <2>3, BacklogAdmitsStep
    <2>4. CASE Register(p)
      BY <2>4, RegisterStep
    <2>5. CASE Registered(p)
      BY <2>5, RegisteredStep
    <2>6. CASE BacklogVacant(p)
      BY <2>6, BacklogVacantStep
    <2>7. CASE AcceptFront(p)
      BY <2>7, AcceptFrontStep
    <2>8. CASE MoveBlock(p)
      BY <2>8, MoveBlockStep
    <2>9. CASE AcceptClear(p)
      BY <2>9, AcceptClearStep
    <2>10. CASE Receive(p)
      BY <2>10, ReceiveStep
    <2>11. CASE ReadPoll(p)
      BY <2>11, ReadPollStep
    <2>12. CASE ReadAwait(p)
      BY <2>12, ReadAwaitStep
    <2>13. CASE ReadTake(p)
      BY <2>13, ReadTakeStep
    <2>14. CASE ShutdownClient(p)
      BY <2>14, ShutdownClientStep
    <2>15. CASE ShutdownDrop(p)
      BY <2>15, ShutdownDropStep
    <2>16. CASE ShutdownLink(p)
      BY <2>16, ShutdownLinkStep
    <2>17. CASE ShutdownClear(p)
      BY <2>17, ShutdownClearStep
    <2>18. CASE AcceptLink(p)
      BY <2>18, AcceptLinkStep
    <2> QED BY <1>4, <2>1, <2>2, <2>3, <2>4, <2>5, <2>6, <2>7, <2>8, <2>9, <2>10,
               <2>11, <2>12, <2>13, <2>14, <2>15, <2>16, <2>17, <2>18 DEF Proceed
  <1> QED BY <1>1, <1>2, <1>3, <1>4 DEF Next

\* What the theorems below are read off.
LEMMA InvariantHolds == Spec => []SocketsInv
  BY InitIs, StepKeeps, PTL DEF Spec

\* The fields of a socket, the locals of a call and the data are of their types
\* at any time, whatever processes do and however their steps interleave.
THEOREM TypesHold == Spec => []TypeOK
  <1>1. SocketsInv => TypeOK
    <2> SUFFICES ASSUME SocketsInv PROVE TypeOK
      OBVIOUS
    <2>1. received_data \in [Socket -> Blocks] /\ delivered \in [Socket -> Seq(Unit)]
          /\ sent \in Seq([by : Process, to : Socket, last : BOOLEAN])
      BY DEF SocketsInv, DataIs, DataInv, BlockList, Blocks
    <2>2. call \in [Process -> Calls] /\ lock \in [Socket -> BOOLEAN] /\ raced \in BOOLEAN
      BY DEF SocketsInv, CallsInv, LocksInv
    <2> QED BY <2>1, <2>2 DEF SocketsInv, FieldsInv, TypeOK
  <1> QED BY <1>1, InvariantHolds, PTL

\* The assertion of unlock fails only after two processes have set one lock:
\* every path of every call releases each lock it took, once.
THEOREM UnlockNeedsRace == Spec => []UnlockedByRace
  <1>1. SocketsInv => UnlockedByRace
    BY DEF SocketsInv, LocksInv
  <1> QED BY <1>1, InvariantHolds, PTL

\* No unit is read twice, from one socket or from two, as long as no lock was
\* set twice: what accept moves to a new socket is gone from the server before
\* another process can look at it.
THEOREM NothingReadTwice == Spec => []DeliveredOnce
  <1>1. SocketsInv => DeliveredOnce
    <2> SUFFICES ASSUME SocketsInv, ~raced PROVE DeliveredOnce
      BY DEF DeliveredOnce
    <2> QED BY DEF SocketsInv, DataIs, OnceInv
  <1> QED BY <1>1, InvariantHolds, PTL

\* What one process writes on a link is read in the order it was written,
\* whatever the sizes of blocks and buffers and however many others read.
THEOREM LinksKeepOrder == Spec => []LinkIsFifo
  <1>1. SocketsInv => LinkIsFifo
    <2> SUFFICES ASSUME SocketsInv PROVE LinkIsFifo
      OBVIOUS
    <2>1. ReadInOrder
      BY DEF SocketsInv, DataIs, OrderInv
    <2> QED BY <2>1 DEF LinkIsFifo, ReadInOrder, OneWay
  <1> QED BY <1>1, InvariantHolds, PTL

\* The last unit of a block that was written on a link is on its way, waits at
\* the peer, or was read there: nothing a third process does takes it away.  Of
\* the units before it nothing is said: read loses them when it cuts a block.
THEOREM BlockEndsAreKept == Spec => []LinkKeeps
  <1>1. SocketsInv => LinkKeeps
    <2> SUFFICES ASSUME SocketsInv, NEW u \in DOMAIN sent,
                        sent[u].to # Server, sent[u].last
                 PROVE  \/ \E p \in Process :
                              call[p].op = "receive" /\ u \in Units(<<call[p].block>>)
                        \/ u \in Units(received_data[sent[u].to])
                        \/ \E i \in DOMAIN delivered[sent[u].to] :
                              delivered[sent[u].to][i] = u
      BY DEF LinkKeeps
    <2>1. Kept(u)
      BY DEF SocketsInv, DataIs, KeptInv
    <2>2. ASSUME NEW p \in Process, Pending(call[p]),
                 NEW j \in DOMAIN call[p].block, call[p].block[j] = u
          PROVE  call[p].op = "receive" /\ u \in Units(<<call[p].block>>)
      <3> DEFINE list == <<call[p].block>>
      <3>1. 1 \in DOMAIN list /\ list[1] = call[p].block
        OBVIOUS
      <3> HIDE DEF list
      <3>2. u \in Units(list)
        BY <2>2, <3>1 DEF Units
      <3> QED BY <2>2, <3>2 DEF Pending, list
    <2>3. ASSUME NEW k \in DOMAIN received_data[sent[u].to],
                 NEW j \in DOMAIN received_data[sent[u].to][k],
                 received_data[sent[u].to][k][j] = u
          PROVE  u \in Units(received_data[sent[u].to])
      BY <2>3 DEF Units
    <2> QED BY <2>1, <2>2, <2>3 DEF Kept
  <1> QED BY <1>1, InvariantHolds, PTL
=============================================================================
