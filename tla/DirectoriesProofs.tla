-------------------------- MODULE DirectoriesProofs --------------------------
(***************************************************************************)
(* Theorems about Directories, for every number of processes, all names,   *)
(* archives, paths and links, and trees of any depth.                      *)
(***************************************************************************)
EXTENDS Directories, Lemmas

LOCAL INSTANCE SequencesExt

-----------------------------------------------------------------------------
(* The tree, as entries and lists that are given: so that what a step does to *)
(* paths can be said of the tree before and of the one after                  *)

Kinds == {"directory", "file", "link", "socket", "device"}
Entry == [kind : Kinds, name : Name \cup {"/"}, parent : Nat, link : Path]

\* An entry is below an older directory; that of a socket is not known.
NodesOK(en) ==
    /\ en \in Seq(Entry) /\ Len(en) >= 1
    /\ en[1].kind = "directory" /\ en[1].parent = 0
    /\ \A e \in 2 .. Len(en) :
          /\ en[e].name \in Name
          /\ en[e].kind = "socket" => en[e].parent = 0
          /\ en[e].kind # "socket" =>
                en[e].parent \in 1 .. e - 1 /\ en[en[e].parent].kind = "directory"
          /\ en[e].kind = "link" => en[e].link.parts # << >>

\* The list of a directory has its entries, and all directories.
ListsOK(en, ls) ==
    /\ ls \in Seq(Seq(Nat)) /\ Len(ls) = Len(en)
    /\ \A d \in 1 .. Len(en) : \A i \in 1 .. Len(ls[d]) :
          /\ en[d].kind = "directory"
          /\ ls[d][i] \in 2 .. Len(en)
          /\ en[ls[d][i]].kind # "socket" => en[ls[d][i]].parent = d
    /\ \A e \in 2 .. Len(en) : en[e].kind = "directory" =>
          \E i \in 1 .. Len(ls[en[e].parent]) : ls[en[e].parent][i] = e

TreeOK(en, ls) == NodesOK(en) /\ ListsOK(en, ls)

LEMMA TreeIs ==
    ASSUME NEW en, NEW ls, TreeOK(en, ls)
    PROVE  /\ Len(en) \in Nat \ {0} /\ Len(ls) = Len(en)
           /\ DOMAIN en = 1 .. Len(en) /\ DOMAIN ls = 1 .. Len(en)
           /\ \A e \in 1 .. Len(en) :
                 /\ en[e] \in Entry
                 /\ en[e].parent \in 0 .. Len(en)
                 /\ ls[e] \in Seq(Nat) /\ Len(ls[e]) \in Nat /\ DOMAIN ls[e] = 1 .. Len(ls[e])
  <1>1. en \in Seq(Entry) /\ Len(en) >= 1 /\ ls \in Seq(Seq(Nat)) /\ Len(ls) = Len(en)
    BY DEF TreeOK, NodesOK, ListsOK
  <1>2. Len(en) \in Nat \ {0} /\ DOMAIN en = 1 .. Len(en) /\ DOMAIN ls = 1 .. Len(en)
    BY <1>1
  <1>3. \A e \in 1 .. Len(en) : en[e] \in Entry /\ ls[e] \in Seq(Nat)
    BY <1>1
  <1>4. \A e \in 1 .. Len(en) : Len(ls[e]) \in Nat /\ DOMAIN ls[e] = 1 .. Len(ls[e])
    BY <1>3
  <1>5. ASSUME NEW e \in 1 .. Len(en) PROVE en[e].parent \in 0 .. Len(en)
    <2>1. CASE e = 1
      BY <2>1, <1>2 DEF TreeOK, NodesOK
    <2>2. CASE e \in 2 .. Len(en)
      BY <2>2, <1>2 DEF TreeOK, NodesOK
    <2> QED BY <2>1, <2>2, <1>2
  <1> QED BY <1>1, <1>2, <1>3, <1>4, <1>5

LEMMA ListsAre ==
    ASSUME NEW en, NEW ls, TreeOK(en, ls)
    PROVE  \A d \in 1 .. Len(en) : \A i \in 1 .. Len(ls[d]) :
              /\ en[d].kind = "directory"
              /\ ls[d][i] \in 2 .. Len(en)
              /\ en[ls[d][i]].kind # "socket" => en[ls[d][i]].parent = d
  BY DEF TreeOK, ListsOK

ResolveIn(en, ls, e, name) ==
    LET named == {i \in DOMAIN ls[e] : en[ls[e][i]].name = name} IN
    IF named = {} THEN NoEntry
    ELSE ls[e][CHOOSE i \in named : \A j \in named : i <= j]

StartIn(en, from, dir) ==
    CASE from = "root" -> Root
      [] from = "up" /\ en[dir].parent # NoEntry -> en[dir].parent
      [] OTHER -> dir

PathIn(en, ls, path, dir) ==
    LET walk[i \in 0 .. Len(path.parts)] ==
            IF i = 0 THEN StartIn(en, path.from, dir)
            ELSE IF walk[i - 1] = NoEntry THEN NoEntry
            ELSE ResolveIn(en, ls, walk[i - 1], path.parts[i])
    IN walk[Len(path.parts)]

LEMMA LookupsAre ==
    /\ \A e, name : Resolve(e, name) = ResolveIn(entries, lists, e, name)
    /\ \A path, dir : PathToEntry(path, dir) = PathIn(entries, lists, path, dir)
  <1>1. \A e, name : Resolve(e, name) = ResolveIn(entries, lists, e, name)
    BY DEF Resolve, ResolveIn
  <1>2. \A from, dir : Start(from, dir) = StartIn(entries, from, dir)
    BY DEF Start, StartIn
  <1>3. ASSUME NEW path, NEW dir
        PROVE  PathToEntry(path, dir) = PathIn(entries, lists, path, dir)
    <2> DEFINE step(w) == [i \in 0 .. Len(path.parts) |->
                             IF i = 0 THEN Start(path.from, dir)
                             ELSE IF w[i - 1] = NoEntry THEN NoEntry
                             ELSE Resolve(w[i - 1], path.parts[i])]
               stepIn(w) == [i \in 0 .. Len(path.parts) |->
                             IF i = 0 THEN StartIn(entries, path.from, dir)
                             ELSE IF w[i - 1] = NoEntry THEN NoEntry
                             ELSE ResolveIn(entries, lists, w[i - 1], path.parts[i])]
    <2>1. \A w : step(w) = stepIn(w)
      BY <1>1, <1>2
    <2>2. PathToEntry(path, dir) = (CHOOSE w : w = step(w))[Len(path.parts)]
      BY DEF PathToEntry
    <2>3. PathIn(entries, lists, path, dir) = (CHOOSE w : w = stepIn(w))[Len(path.parts)]
      BY DEF PathIn
    <2> HIDE DEF step, stepIn
    <2> QED BY <2>1, <2>2, <2>3
  <1> QED BY <1>1, <1>3

\* r is the first of the list with the name.
FirstNamed(en, list, name, r) ==
    \E i \in 1 .. Len(list) :
        /\ r = list[i] /\ en[list[i]].name = name
        /\ \A j \in 1 .. Len(list) : en[list[j]].name = name => i <= j

NoneNamed(en, list, name) == \A i \in 1 .. Len(list) : en[list[i]].name # name

LEMMA ResolveIs ==
    ASSUME NEW en, NEW ls, TreeOK(en, ls), NEW d \in 1 .. Len(en), NEW name
    PROVE  \/ /\ NoneNamed(en, ls[d], name)
              /\ ResolveIn(en, ls, d, name) = 0
           \/ /\ FirstNamed(en, ls[d], name, ResolveIn(en, ls, d, name))
              /\ ResolveIn(en, ls, d, name) \in 2 .. Len(en)
              /\ en[d].kind = "directory"
  <1> DEFINE named == {i \in DOMAIN ls[d] : en[ls[d][i]].name = name}
             first == CHOOSE i \in named : \A j \in named : i <= j
  <1>1. DOMAIN ls[d] = 1 .. Len(ls[d]) /\ Len(ls[d]) \in Nat
    BY TreeIs
  <1>2. named \subseteq Nat
    BY <1>1
  <1>3. ResolveIn(en, ls, d, name) = IF named = {} THEN 0 ELSE ls[d][first]
    BY DEF ResolveIn, NoEntry
  <1>4. CASE named = {}
    BY <1>1, <1>3, <1>4 DEF NoneNamed
  <1>5. CASE named # {}
    <2>1. first \in named /\ \A j \in named : first <= j
      BY <1>2, <1>5, LeastNumber
    <2>2. \A i \in 1 .. Len(ls[d]) : en[ls[d][i]].name = name => i \in named
      BY <1>1
    <2>3. first \in 1 .. Len(ls[d]) /\ en[ls[d][first]].name = name
      BY <2>1, <1>1
    <2> HIDE DEF first, named
    <2>4. FirstNamed(en, ls[d], name, ls[d][first])
      BY <2>1, <2>2, <2>3 DEF FirstNamed
    <2>5. ls[d][first] \in 2 .. Len(en) /\ en[d].kind = "directory"
      BY <2>3 DEF TreeOK, ListsOK
    <2> QED BY <2>4, <2>5, <1>3, <1>5
  <1> QED BY <1>4, <1>5

LEMMA OneFirst ==
    ASSUME NEW en, NEW list, Len(list) \in Nat, NEW name, NEW r, NEW s,
           FirstNamed(en, list, name, r), FirstNamed(en, list, name, s)
    PROVE  r = s
  <1>1. PICK i \in 1 .. Len(list) :
            /\ r = list[i] /\ en[list[i]].name = name
            /\ \A j \in 1 .. Len(list) : en[list[j]].name = name => i <= j
    BY DEF FirstNamed
  <1>2. PICK k \in 1 .. Len(list) :
            /\ s = list[k] /\ en[list[k]].name = name
            /\ \A j \in 1 .. Len(list) : en[list[j]].name = name => k <= j
    BY DEF FirstNamed
  <1>3. i <= k /\ k <= i
    BY <1>1, <1>2
  <1>4. i = k
    BY <1>3
  <1> QED BY <1>1, <1>2, <1>4

\* What Resolve returns is the first of the name.
LEMMA ResolveFirst ==
    ASSUME NEW en, NEW ls, TreeOK(en, ls), NEW d \in 1 .. Len(en), NEW name,
           NEW r, FirstNamed(en, ls[d], name, r)
    PROVE  ResolveIn(en, ls, d, name) = r
  <1>1. ~NoneNamed(en, ls[d], name)
    BY DEF NoneNamed, FirstNamed
  <1>2. FirstNamed(en, ls[d], name, ResolveIn(en, ls, d, name))
    BY <1>1, ResolveIs
  <1>3. Len(ls[d]) \in Nat
    BY TreeIs
  <1> QED BY <1>2, <1>3, OneFirst

-----------------------------------------------------------------------------
(* Walks *)

\* The entries on the way of a path.
Walks(w, en, ls, path, dir) ==
    /\ w \in [0 .. Len(path.parts) -> 0 .. Len(en)]
    /\ w[0] = StartIn(en, path.from, dir)
    /\ \A i \in 1 .. Len(path.parts) :
          w[i] = IF w[i - 1] = 0 THEN 0 ELSE ResolveIn(en, ls, w[i - 1], path.parts[i])

LEMMA StartIs ==
    ASSUME NEW en, NEW ls, TreeOK(en, ls), NEW from, NEW dir \in 1 .. Len(en)
    PROVE  StartIn(en, from, dir) \in 1 .. Len(en)
  <1>1. en[dir].parent \in 0 .. Len(en) /\ Len(en) \in Nat \ {0}
    BY TreeIs
  <1> QED BY <1>1 DEF StartIn, Root, NoEntry

LEMMA PathWalks ==
    ASSUME NEW en, NEW ls, TreeOK(en, ls), NEW path, Len(path.parts) \in Nat,
           NEW dir \in 1 .. Len(en)
    PROVE  \E w : Walks(w, en, ls, path, dir) /\ PathIn(en, ls, path, dir) = w[Len(path.parts)]
  <1> DEFINE N == Len(path.parts)
             S == 0 .. Len(en)
             start == StartIn(en, path.from, dir)
             Next0(i, e) == IF e = 0 THEN 0 ELSE ResolveIn(en, ls, e, path.parts[i])
             step == [a \in (1 .. N) \X S |-> Next0(a[1], a[2])]
             Def(w) == w = [i \in 0 .. N |->
                              IF i = 0 THEN start
                              ELSE IF w[i - 1] = NoEntry THEN NoEntry
                              ELSE ResolveIn(en, ls, w[i - 1], path.parts[i])]
             W == CHOOSE w : Def(w)
  <1>1. PathIn(en, ls, path, dir) = W[N]
    BY DEF PathIn
  <1>2. start \in S /\ 0 \in S
    BY StartIs, TreeIs
  <1>3. ASSUME NEW i \in 1 .. N, NEW e \in S PROVE Next0(i, e) \in S
    <2>1. CASE e = 0
      BY <2>1, <1>2
    <2>2. CASE e # 0
      <3>1. e \in 1 .. Len(en)
        BY <2>2, TreeIs
      <3>2. ResolveIn(en, ls, e, path.parts[i]) \in S
        BY <3>1, ResolveIs, TreeIs
      <3> QED BY <3>2, <2>2
    <2> QED BY <2>1, <2>2
  <1>4. N \in Nat
    OBVIOUS
  <1> HIDE DEF N, S, start, Next0
  <1>5. step \in [(1 .. N) \X S -> S]
    BY <1>3
  <1>6. \A i \in 1 .. N : \A e \in S : step[<<i, e>>] = Next0(i, e)
    OBVIOUS
  <1> HIDE DEF step, Def, W
  <1>7. PICK f : Computes(f, N, S, start, step)
    BY <1>2, <1>4, <1>5, Recursion
  <1>8. /\ f \in [0 .. N -> S] /\ f[0] = start
        /\ \A i \in 1 .. N : f[i] = Next0(i, f[i - 1])
    <2>1. /\ f \in [0 .. N -> S] /\ f[0] = start
          /\ \A i \in 1 .. N : f[i] = step[<<i, f[i - 1]>>]
      BY <1>7 DEF Computes
    <2>2. \A i \in 1 .. N : f[i - 1] \in S
      BY <2>1, <1>4
    <2> QED BY <2>1, <2>2, <1>6
  <1>9. \A i \in 0 .. N : f[i] =
           IF i = 0 THEN start
           ELSE IF f[i - 1] = NoEntry THEN NoEntry
           ELSE ResolveIn(en, ls, f[i - 1], path.parts[i])
    BY <1>4, <1>8 DEF Next0, NoEntry
  <1>10. Def(f)
    BY <1>8, <1>9 DEF Def
  <1>11. Def(W)
    BY <1>10 DEF W
  <1>12. /\ DOMAIN W = 0 .. N
         /\ \A i \in 0 .. N : W[i] =
              IF i = 0 THEN start
              ELSE IF W[i - 1] = NoEntry THEN NoEntry
              ELSE ResolveIn(en, ls, W[i - 1], path.parts[i])
    BY <1>11 DEF Def
  <1>13. W[0] = start /\ \A i \in 1 .. N : W[i] = Next0(i, W[i - 1])
    BY <1>4, <1>12 DEF Next0, NoEntry
  <1>14. \A i \in 0 .. N : W[i] \in S
    <2> DEFINE T == {i \in 0 .. N : W[i] \in S}
    <2>1. 0 \in T
      BY <1>2, <1>4, <1>13
    <2>2. ASSUME NEW i \in 0 .. N - 1, i \in T PROVE i + 1 \in T
      <3>1. i + 1 \in 0 .. N /\ i + 1 \in 1 .. N /\ (i + 1) - 1 = i /\ W[i] \in S
        BY <1>4, <2>2
      <3>2. W[i + 1] = Next0(i + 1, W[i])
        BY <1>13, <3>1
      <3> QED BY <1>3, <3>1, <3>2
    <2> HIDE DEF T
    <2>3. 0 .. N \subseteq T
      BY <1>4, <2>1, <2>2, IntervalInduction
    <2> QED BY <2>3 DEF T
  <1>15. W = [i \in 0 .. N |-> W[i]]
    BY <1>11 DEF Def
  <1>16. W \in [0 .. N -> S]
    BY <1>14, <1>15
  <1> QED BY <1>1, <1>13, <1>16 DEF Walks, N, S, start, Next0


\* Two paths that start at one entry and have their first names in common.
LEMMA SameWay ==
    ASSUME NEW en, NEW ls, NEW p, NEW q, NEW dir, NEW dir2, NEW w, NEW v,
           Walks(w, en, ls, p, dir), Walks(v, en, ls, q, dir2), w[0] = v[0],
           NEW n \in Nat, Len(p.parts) \in Nat, Len(q.parts) \in Nat,
           n <= Len(p.parts), n <= Len(q.parts),
           \A i \in 1 .. n : p.parts[i] = q.parts[i]
    PROVE  \A i \in 0 .. n : w[i] = v[i]
  <1> DEFINE T == {i \in 0 .. n : w[i] = v[i]}
  <1>1. 0 \in T
    OBVIOUS
  <1>2. ASSUME NEW i \in 0 .. n - 1, i \in T PROVE i + 1 \in T
    <2>1. /\ i + 1 \in 1 .. n /\ (i + 1) - 1 = i /\ w[i] = v[i] /\ i + 1 \in 0 .. n
          /\ i + 1 \in 1 .. Len(p.parts) /\ i + 1 \in 1 .. Len(q.parts)
      BY <1>2
    <2>2. w[i + 1] = IF w[i] = 0 THEN 0 ELSE ResolveIn(en, ls, w[i], p.parts[i + 1])
      BY <2>1 DEF Walks
    <2>3. v[i + 1] = IF v[i] = 0 THEN 0 ELSE ResolveIn(en, ls, v[i], q.parts[i + 1])
      BY <2>1 DEF Walks
    <2> QED BY <2>1, <2>2, <2>3
  <1> HIDE DEF T
  <1>3. 0 .. n \subseteq T
    BY <1>1, <1>2, IntervalInduction
  <1> QED BY <1>3 DEF T

\* The last name of a path is looked up in what the path before it leads to.
LEMMA LastName ==
    ASSUME NEW en, NEW ls, TreeOK(en, ls),
           NEW p, NEW q, NEW dir \in 1 .. Len(en), NEW dir2 \in 1 .. Len(en),
           Len(q.parts) \in Nat, Len(p.parts) = Len(q.parts) + 1,
           StartIn(en, p.from, dir) = StartIn(en, q.from, dir2),
           \A i \in 1 .. Len(q.parts) : q.parts[i] = p.parts[i]
    PROVE  /\ PathIn(en, ls, p, dir) =
                IF PathIn(en, ls, q, dir2) = 0 THEN 0
                ELSE ResolveIn(en, ls, PathIn(en, ls, q, dir2), p.parts[Len(p.parts)])
           /\ PathIn(en, ls, p, dir) \in 0 .. Len(en)
           /\ PathIn(en, ls, q, dir2) \in 0 .. Len(en)
  <1> DEFINE N == Len(p.parts)
             n == Len(q.parts)
  <1>1. N \in Nat \ {0} /\ N \in Nat /\ n = N - 1 /\ n \in Nat /\ n <= N /\ n <= n
    OBVIOUS
  <1> HIDE DEF N, n
  <1>2. PICK w : Walks(w, en, ls, p, dir) /\ PathIn(en, ls, p, dir) = w[N]
    BY SMTT(60), <1>1, PathWalks DEF N
  <1>3. PICK v : Walks(v, en, ls, q, dir2) /\ PathIn(en, ls, q, dir2) = v[n]
    BY <1>1, PathWalks DEF n
  <1>4. w[0] = v[0]
    BY <1>2, <1>3 DEF Walks
  <1>5. \A i \in 1 .. n : p.parts[i] = q.parts[i]
    BY DEF n
  <1>6. \A i \in 0 .. n : w[i] = v[i]
    BY <1>1, <1>2, <1>3, <1>4, <1>5, SameWay DEF N, n
  <1>7. w[n] = v[n] /\ w[N] = IF w[n] = 0 THEN 0 ELSE ResolveIn(en, ls, w[n], p.parts[N])
    <2>1. N \in 1 .. N /\ N - 1 = n /\ n \in 0 .. n
      BY <1>1
    <2>2. w[N] = IF w[N - 1] = 0 THEN 0 ELSE ResolveIn(en, ls, w[N - 1], p.parts[N])
      BY <2>1, <1>2 DEF Walks, N
    <2> QED BY <2>1, <2>2, <1>6
  <1>8. w[N] \in 0 .. Len(en) /\ v[n] \in 0 .. Len(en)
    <2>1. N \in 0 .. N /\ n \in 0 .. n
      BY <1>1
    <2> QED BY <2>1, <1>2, <1>3 DEF Walks, N, n
  <1> QED BY <1>2, <1>3, <1>7, <1>8 DEF N

LEMMA NoNames ==
    ASSUME NEW en, NEW ls, TreeOK(en, ls), NEW p, Len(p.parts) = 0, NEW dir \in 1 .. Len(en)
    PROVE  PathIn(en, ls, p, dir) = StartIn(en, p.from, dir)
  <1>1. Len(p.parts) \in Nat
    OBVIOUS
  <1>2. PICK w : Walks(w, en, ls, p, dir) /\ PathIn(en, ls, p, dir) = w[Len(p.parts)]
    BY <1>1, PathWalks
  <1> QED BY <1>2 DEF Walks

LEMMA PathType ==
    ASSUME NEW en, NEW ls, TreeOK(en, ls), NEW p, Len(p.parts) \in Nat, NEW dir \in 1 .. Len(en)
    PROVE  PathIn(en, ls, p, dir) \in 0 .. Len(en)
  <1>1. PICK w : Walks(w, en, ls, p, dir) /\ PathIn(en, ls, p, dir) = w[Len(p.parts)]
    BY PathWalks
  <1> QED BY <1>1 DEF Walks

-----------------------------------------------------------------------------
(* What a change of the tree leaves alone *)

DirectoriesOf(en) == {e \in 1 .. Len(en) : en[e].kind = "directory"}

\* Old entries stay as they are, and the name of one in "kept" stays its name.
Keeps(en, ls, en2, ls2, kept) ==
    /\ Len(en) <= Len(en2)
    /\ \A e \in 1 .. Len(en) : en2[e] = en[e]
    /\ DirectoriesOf(en) \subseteq kept
    /\ \A d \in 1 .. Len(en) : \A r \in kept : \A name :
          FirstNamed(en, ls[d], name, r) => FirstNamed(en2, ls2[d], name, r)

\* A path to an entry that is kept leads to it as before.
LEMMA PathKept ==
    ASSUME NEW en, NEW ls, TreeOK(en, ls), NEW en2, NEW ls2, TreeOK(en2, ls2),
           NEW kept, Keeps(en, ls, en2, ls2, kept),
           NEW path, Len(path.parts) \in Nat, NEW dir \in 1 .. Len(en),
           NEW e, e = PathIn(en, ls, path, dir), e # 0, e \in kept
    PROVE  PathIn(en2, ls2, path, dir) = e
  <1> DEFINE N == Len(path.parts)
  <1>1. PICK w : Walks(w, en, ls, path, dir) /\ PathIn(en, ls, path, dir) = w[N]
    BY PathWalks
  <1>2. /\ dir \in 1 .. Len(en2) /\ Len(en) \in Nat /\ Len(en2) \in Nat
        /\ en2[dir] = en[dir] /\ Len(en) <= Len(en2)
    BY TreeIs DEF Keeps
  <1>3. PICK v : Walks(v, en2, ls2, path, dir) /\ PathIn(en2, ls2, path, dir) = v[N]
    BY <1>2, PathWalks
  <1>4. /\ w \in [0 .. N -> 0 .. Len(en)]
        /\ \A i \in 1 .. N :
              w[i] = IF w[i - 1] = 0 THEN 0 ELSE ResolveIn(en, ls, w[i - 1], path.parts[i])
        /\ \A i \in 1 .. N :
              v[i] = IF v[i - 1] = 0 THEN 0 ELSE ResolveIn(en2, ls2, v[i - 1], path.parts[i])
        /\ w[0] = StartIn(en, path.from, dir) /\ v[0] = StartIn(en2, path.from, dir)
    BY <1>1, <1>3 DEF Walks
  <1>5. v[0] = w[0]
    BY <1>2, <1>4 DEF StartIn
  <1> DEFINE OnWay(i) == w[i] # 0 /\ w[i] \in kept
             T == {i \in 0 .. N : OnWay(i) => v[i] = w[i]}
  <1> HIDE DEF N
  <1>6. N \in Nat
    BY DEF N
  <1>7. 0 \in T
    BY <1>5, <1>6
  <1>8. ASSUME NEW i \in 0 .. N - 1, i \in T PROVE i + 1 \in T
    <2>1. /\ i + 1 \in 1 .. N /\ (i + 1) - 1 = i /\ i + 1 \in 0 .. N /\ i \in 0 .. N
          /\ w[i] \in 0 .. Len(en)
      BY <1>4, <1>6
    <2>2. SUFFICES ASSUME OnWay(i + 1) PROVE v[i + 1] = w[i + 1]
      BY <2>1
    <2> DEFINE d == w[i]
               r == w[i + 1]
               name == path.parts[i + 1]
    <2>3. d # 0 /\ r = ResolveIn(en, ls, d, name)
      BY <2>1, <2>2, <1>4
    <2>4. d \in 1 .. Len(en)
      BY <2>1, <2>3, <1>2
    <2>5. FirstNamed(en, ls[d], name, r) /\ r \in 2 .. Len(en) /\ en[d].kind = "directory"
      BY <2>2, <2>3, <2>4, ResolveIs
    <2>6. v[i] = d
      <3>1. d \in kept
        BY <2>4, <2>5 DEF Keeps, DirectoriesOf
      <3> QED BY <3>1, <2>3, <1>8
    <2>7. FirstNamed(en2, ls2[d], name, r)
      BY <2>2, <2>4, <2>5 DEF Keeps
    <2>8. ResolveIn(en2, ls2, d, name) = r
      <3>1. d \in 1 .. Len(en2)
        BY <2>4, <1>2
      <3> QED BY <3>1, <2>7, ResolveFirst
    <2>9. v[i + 1] = IF v[i] = 0 THEN 0 ELSE ResolveIn(en2, ls2, v[i], path.parts[i + 1])
      BY <2>1, <1>4
    <2> QED BY <2>3, <2>6, <2>8, <2>9
  <1> HIDE DEF T
  <1>9. 0 .. N \subseteq T
    BY <1>6, <1>7, <1>8, IntervalInduction
  <1>10. N \in T
    BY <1>6, <1>9
  <1> QED BY <1>1, <1>3, <1>10 DEF T, N


-----------------------------------------------------------------------------
(* An entry more and one less *)

\* node is made in directory d.
Grown(en, ls, d, node, en2, ls2) ==
    /\ en2 \in Seq(Entry) /\ Len(en2) = Len(en) + 1
    /\ \A e \in 1 .. Len(en) : en2[e] = en[e]
    /\ en2[Len(en) + 1] = node
    /\ ls2 \in Seq(Seq(Nat)) /\ Len(ls2) = Len(en) + 1
    /\ \A e \in 1 .. Len(en) : e # d => ls2[e] = ls[e]
    /\ Len(ls2[Len(en) + 1]) = 0
    /\ Len(ls2[d]) = Len(ls[d]) + 1
    /\ \A i \in 1 .. Len(ls[d]) : ls2[d][i] = ls[d][i]
    /\ ls2[d][Len(ls[d]) + 1] = Len(en) + 1

Fits(en, d, node) ==
    /\ node \in Entry /\ node.name \in Name
    /\ node.parent = IF node.kind = "socket" THEN 0 ELSE d
    /\ node.kind = "link" => node.link.parts # << >>

LEMMA AppendIs ==
    ASSUME NEW S, NEW s \in Seq(S), NEW x \in S
    PROVE  /\ Append(s, x) \in Seq(S) /\ Len(Append(s, x)) = Len(s) + 1
           /\ \A i \in 1 .. Len(s) : Append(s, x)[i] = s[i]
           /\ Append(s, x)[Len(s) + 1] = x
  OBVIOUS

LEMMA Growing ==
    ASSUME NEW en, NEW ls, TreeOK(en, ls), NEW d \in 1 .. Len(en), NEW node \in Entry,
           NEW en2, en2 = Append(en, node),
           NEW ls2, ls2 = Append([ls EXCEPT ![d] = Append(@, Len(en) + 1)], << >>)
    PROVE  Grown(en, ls, d, node, en2, ls2)
  <1> DEFINE n == Len(en)
             list == Append(ls[d], n + 1)
             mid == [ls EXCEPT ![d] = list]
  <1>1. /\ en \in Seq(Entry) /\ ls \in Seq(Seq(Nat)) /\ Len(ls) = n /\ n \in Nat
        /\ ls[d] \in Seq(Nat) /\ Len(ls[d]) \in Nat
    BY TreeIs DEF TreeOK, NodesOK, ListsOK
  <1>2. /\ en2 \in Seq(Entry) /\ Len(en2) = n + 1
        /\ \A e \in 1 .. n : en2[e] = en[e]
        /\ en2[n + 1] = node
    BY <1>1, AppendIs
  <1>3. n + 1 \in Nat
    BY <1>1
  <1>4. /\ list \in Seq(Nat) /\ Len(list) = Len(ls[d]) + 1
        /\ \A i \in 1 .. Len(ls[d]) : list[i] = ls[d][i]
        /\ list[Len(ls[d]) + 1] = n + 1
    BY <1>1, <1>3, AppendIs
  <1>5. ls2 = Append(mid, << >>)
    OBVIOUS
  <1> HIDE DEF list
  <1>6. mid \in Seq(Seq(Nat)) /\ Len(mid) = n
    BY <1>1, <1>4, OneElement
  <1>7. mid[d] = list /\ \A e \in 1 .. n : e # d => mid[e] = ls[e]
    BY <1>1
  <1> HIDE DEF mid
  <1>8. << >> \in Seq(Nat) /\ Len(<< >>) = 0
    OBVIOUS
  <1>9. /\ ls2 \in Seq(Seq(Nat)) /\ Len(ls2) = n + 1
        /\ \A e \in 1 .. n : ls2[e] = mid[e]
        /\ ls2[n + 1] = << >>
    <2> DEFINE more == Append(mid, << >>)
    <2>1. /\ more \in Seq(Seq(Nat)) /\ Len(more) = Len(mid) + 1
          /\ \A e \in 1 .. Len(mid) : more[e] = mid[e]
          /\ more[Len(mid) + 1] = << >>
      BY ONLY <1>6, <1>8, AppendIs
    <2> HIDE DEF more
    <2>2. ls2 = more
      BY <1>5 DEF more
    <2> QED BY <2>1, <2>2, <1>6
  <1>10. ls2[d] = list /\ \A e \in 1 .. n : e # d => ls2[e] = ls[e]
    BY <1>7, <1>9
  <1> QED BY <1>2, <1>4, <1>8, <1>9, <1>10 DEF Grown

LEMMA GrownIs ==
    ASSUME NEW en, NEW ls, TreeOK(en, ls), NEW d \in 1 .. Len(en), NEW node,
           NEW en2, NEW ls2, Grown(en, ls, d, node, en2, ls2),
           en[d].kind = "directory", Fits(en, d, node)
    PROVE  TreeOK(en2, ls2) /\ Keeps(en, ls, en2, ls2, 1 .. Len(en))
  <1> DEFINE n == Len(en)
             N == n + 1
  <1>1. /\ n \in Nat \ {0} /\ N \in Nat \ {0} /\ Len(en2) = N /\ Len(ls2) = N
        /\ \A e \in 1 .. n : Len(ls[e]) \in Nat /\ en2[e] = en[e]
        /\ en2[N] = node
        /\ \A e \in 2 .. N : e \in 2 .. n \/ e = N
        /\ \A e \in 1 .. N : e \in 1 .. n \/ e = N
        /\ \A e \in 2 .. n : e \in 1 .. n
        /\ 1 \in 1 .. n /\ n < N /\ N \in 2 .. N /\ \A e \in 1 .. n : e # N
    <2>1. n \in Nat \ {0} /\ \A e \in 1 .. n : Len(ls[e]) \in Nat
      BY TreeIs
    <2>2. /\ Len(en2) = N /\ Len(ls2) = N /\ en2[N] = node
          /\ \A e \in 1 .. n : en2[e] = en[e]
      BY DEF Grown
    <2> HIDE DEF n
    <2>3. /\ N \in Nat \ {0}
          /\ \A e \in 2 .. N : e \in 2 .. n \/ e = N
          /\ \A e \in 1 .. N : e \in 1 .. n \/ e = N
          /\ \A e \in 2 .. n : e \in 1 .. n
          /\ 1 \in 1 .. n /\ n < N /\ N \in 2 .. N /\ \A e \in 1 .. n : e # N
      BY <2>1
    <2> QED BY <2>1, <2>2, <2>3
  <1>2. NodesOK(en2)
    <2>1. en2 \in Seq(Entry) /\ en2[1].kind = "directory" /\ en2[1].parent = 0
      BY <1>1 DEF Grown, TreeOK, NodesOK
    <2>2. ASSUME NEW e \in 2 .. n
          PROVE  /\ en2[e].name \in Name
                 /\ en2[e].kind = "socket" => en2[e].parent = 0
                 /\ en2[e].kind # "socket" =>
                       en2[e].parent \in 1 .. e - 1 /\ en2[en2[e].parent].kind = "directory"
                 /\ en2[e].kind = "link" => en2[e].link.parts # << >>
      <3>1. e \in 1 .. n /\ en2[e] = en[e]
        BY <1>1
      <3>2. /\ en[e].name \in Name
            /\ en[e].kind = "socket" => en[e].parent = 0
            /\ en[e].kind # "socket" =>
                  en[e].parent \in 1 .. e - 1 /\ en[en[e].parent].kind = "directory"
            /\ en[e].kind = "link" => en[e].link.parts # << >>
        BY DEF TreeOK, NodesOK
      <3>3. \A x \in 1 .. e - 1 : en2[x] = en[x]
        BY <1>1
      <3> QED BY <3>1, <3>2, <3>3
    <2>3. /\ en2[N].name \in Name
          /\ en2[N].kind = "socket" => en2[N].parent = 0
          /\ en2[N].kind # "socket" =>
                en2[N].parent \in 1 .. N - 1 /\ en2[en2[N].parent].kind = "directory"
          /\ en2[N].kind = "link" => en2[N].link.parts # << >>
      BY <1>1 DEF Fits
    <2> HIDE DEF N
    <2> QED BY <1>1, <2>1, <2>2, <2>3 DEF NodesOK
  <1>3. /\ \A e \in 1 .. n : e # d => ls2[e] = ls[e]
        /\ Len(ls2[N]) = 0
        /\ Len(ls2[d]) = Len(ls[d]) + 1
        /\ \A i \in 1 .. Len(ls[d]) : ls2[d][i] = ls[d][i]
        /\ ls2[d][Len(ls[d]) + 1] = N
    BY DEF Grown
  <1>4. /\ \A x \in 1 .. n : \A i \in 1 .. Len(ls[x]) :
              /\ en[x].kind = "directory"
              /\ ls[x][i] \in 2 .. n
              /\ en[ls[x][i]].kind # "socket" => en[ls[x][i]].parent = x
        /\ \A e \in 2 .. n : en[e].kind = "directory" =>
              \E i \in 1 .. Len(ls[en[e].parent]) : ls[en[e].parent][i] = e
    BY DEF TreeOK, ListsOK
  <1>5. node.kind # "socket" => node.parent = d
    BY DEF Fits
  \* The places of the lists, old and new.
  <1>6. ASSUME NEW x \in 1 .. N, NEW i \in 1 .. Len(ls2[x])
        PROVE  /\ x \in 1 .. n /\ en2[x].kind = "directory"
               /\ \/ i \in 1 .. Len(ls[x]) /\ ls2[x][i] = ls[x][i]
                  \/ x = d /\ i = Len(ls[d]) + 1 /\ ls2[x][i] = N
    <2>1. x # N
      BY <1>1, <1>3
    <2>2. x \in 1 .. n
      BY <2>1, <1>1
    <2>3. CASE x = d
      BY <2>2, <2>3, <1>1, <1>3
    <2>4. CASE x # d
      BY <2>2, <2>4, <1>1, <1>3, <1>4
    <2> QED BY <2>2, <2>3, <2>4
  <1>7. ASSUME NEW x \in 1 .. N, NEW i \in 1 .. Len(ls2[x])
        PROVE  /\ ls2[x][i] \in 2 .. N
               /\ en2[ls2[x][i]].kind # "socket" => en2[ls2[x][i]].parent = x
    <2>1. CASE i \in 1 .. Len(ls[x]) /\ ls2[x][i] = ls[x][i]
      <3>1. x \in 1 .. n
        BY <1>6
      <3>2. ls[x][i] \in 2 .. n /\ (en[ls[x][i]].kind # "socket" => en[ls[x][i]].parent = x)
        BY <2>1, <3>1, <1>4
      <3> QED BY <2>1, <3>2, <1>1
    <2>2. CASE x = d /\ ls2[x][i] = N
      BY <2>2, <1>1, <1>5
    <2> QED BY <2>1, <2>2, <1>6
  <1>9. ASSUME NEW e \in 2 .. N, en2[e].kind = "directory"
        PROVE  \E i \in 1 .. Len(ls2[en2[e].parent]) : ls2[en2[e].parent][i] = e
    <2>1. CASE e = N
      <3>1. en2[e].parent = d
        BY <2>1, <1>1, <1>5, <1>9
      <3>2. Len(ls[d]) + 1 \in 1 .. Len(ls2[d])
        BY <1>1, <1>3
      <3> QED BY <2>1, <3>1, <3>2, <1>3
    <2>2. CASE e \in 2 .. n
      <3>1. en2[e] = en[e] /\ en[e].kind = "directory"
        BY <2>2, <1>1, <1>9
      <3>2. PICK i \in 1 .. Len(ls[en[e].parent]) : ls[en[e].parent][i] = e
        BY <2>2, <3>1, <1>4
      <3>3. en[e].parent \in 1 .. n
        <4>1. en[e].parent \in 1 .. e - 1
          BY <2>2, <3>1 DEF TreeOK, NodesOK
        <4> QED BY <4>1, <2>2, <1>1
      <3>4. i \in 1 .. Len(ls2[en[e].parent]) /\ ls2[en[e].parent][i] = e
        <4>1. CASE en[e].parent = d
          BY <4>1, <3>2, <1>1, <1>3
        <4>2. CASE en[e].parent # d
          BY <4>2, <3>2, <3>3, <1>3
        <4> QED BY <4>1, <4>2
      <3> QED BY <3>1, <3>4
    <2> QED BY <2>1, <2>2, <1>1
  <1>10. ListsOK(en2, ls2)
    <2>1. ls2 \in Seq(Seq(Nat)) /\ Len(ls2) = Len(en2)
      BY <1>1 DEF Grown
    <2>2. \A x \in 1 .. N : \A i \in 1 .. Len(ls2[x]) : en2[x].kind = "directory"
      BY <1>6
    <2> HIDE DEF N
    <2> QED BY <2>1, <2>2, <1>1, <1>7, <1>9 DEF ListsOK
  <1>11. ASSUME NEW x \in 1 .. n, NEW r \in 1 .. n, NEW name, FirstNamed(en, ls[x], name, r)
         PROVE  FirstNamed(en2, ls2[x], name, r)
    <2>1. PICK i \in 1 .. Len(ls[x]) :
            /\ r = ls[x][i] /\ en[ls[x][i]].name = name
            /\ \A j \in 1 .. Len(ls[x]) : en[ls[x][j]].name = name => i <= j
      BY <1>11 DEF FirstNamed
    <2>2. x \in 1 .. N /\ i \in 1 .. Len(ls2[x]) /\ ls2[x][i] = r
      <3>1. CASE x = d
        BY <3>1, <2>1, <1>1, <1>3
      <3>2. CASE x # d
        BY <3>2, <2>1, <1>1, <1>3
      <3> QED BY <3>1, <3>2
    <2>3. en2[r].name = name
      BY <2>1, <1>1
    <2>4. ASSUME NEW j \in 1 .. Len(ls2[x]), en2[ls2[x][j]].name = name PROVE i <= j
      <3>1. CASE j \in 1 .. Len(ls[x]) /\ ls2[x][j] = ls[x][j]
        <4>1. ls[x][j] \in 1 .. n
          BY <3>1, <1>1, <1>4
        <4>2. en[ls[x][j]].name = name
          BY <4>1, <3>1, <2>4, <1>1
        <4> QED BY <4>2, <3>1, <2>1
      <3>2. CASE x = d /\ j = Len(ls[d]) + 1
        BY <3>2, <1>1
      <3> QED BY <3>1, <3>2, <2>2, <1>6
    <2> QED BY <2>2, <2>3, <2>4 DEF FirstNamed
  <1>12. Keeps(en, ls, en2, ls2, 1 .. Len(en))
    <2>1. Len(en) <= Len(en2) /\ DirectoriesOf(en) \subseteq 1 .. Len(en)
      BY <1>1 DEF DirectoriesOf
    <2> QED BY <2>1, <1>1, <1>11 DEF Keeps
  <1> QED BY <1>2, <1>10, <1>12 DEF TreeOK


\* What is at place k of the list of directory d is removed.
Shrunk(ls, d, k, ls2) ==
    /\ ls2 \in Seq(Seq(Nat)) /\ Len(ls2) = Len(ls)
    /\ k \in 1 .. Len(ls[d])
    /\ Inserted(ls2[d], ls[d], k)
    /\ \A e \in 1 .. Len(ls) : e # d => ls2[e] = ls[e]

LEMMA Shrinking ==
    ASSUME NEW ls, ls \in Seq(Seq(Nat)), NEW d \in 1 .. Len(ls),
           NEW gone, \E i \in 1 .. Len(ls[d]) : ls[d][i] = gone,
           NEW ls2, ls2 = [ls EXCEPT ![d] = Without(@, gone)]
    PROVE  \E k \in 1 .. Len(ls[d]) : ls[d][k] = gone /\ Shrunk(ls, d, k, ls2)
  <1> DEFINE k == CHOOSE i \in DOMAIN ls[d] : ls[d][i] = gone
             list == Without(ls[d], gone)
             other == [ls EXCEPT ![d] = list]
  <1>1. ls[d] \in Seq(Nat)
    OBVIOUS
  <1>2. DOMAIN ls[d] = 1 .. Len(ls[d])
    BY <1>1
  <1>3. k \in 1 .. Len(ls[d]) /\ ls[d][k] = gone
    BY <1>2
  <1>4. list = SubSeq(ls[d], 1, k - 1) \o SubSeq(ls[d], k + 1, Len(ls[d]))
    BY DEF Without, RemoveAt
  <1> HIDE DEF k, list
  <1>5. list \in Seq(Nat) /\ Inserted(list, ls[d], k)
    BY ONLY <1>1, <1>3, <1>4, OneLess
  <1>6. ls2 = other
    BY DEF list
  <1>7. other \in Seq(Seq(Nat)) /\ Len(other) = Len(ls)
    BY ONLY ls \in Seq(Seq(Nat)), d \in 1 .. Len(ls), <1>5, OneElement
  <1>8. other[d] = list /\ \A e \in 1 .. Len(ls) : e # d => other[e] = ls[e]
    OBVIOUS
  <1> HIDE DEF other
  <1> QED BY <1>3, <1>5, <1>6, <1>7, <1>8 DEF Shrunk

LEMMA ShrunkIs ==
    ASSUME NEW en, NEW ls, TreeOK(en, ls), NEW d \in 1 .. Len(en),
           NEW k, NEW ls2, Shrunk(ls, d, k, ls2), en[ls[d][k]].kind # "directory"
    PROVE  TreeOK(en, ls2) /\ Keeps(en, ls, en, ls2, DirectoriesOf(en))
  <1> DEFINE n == Len(en)
  <1>1. n \in Nat \ {0} /\ Len(ls) = n /\ \A e \in 1 .. n : Len(ls[e]) \in Nat
    BY TreeIs
  <1>2. /\ ls2 \in Seq(Seq(Nat)) /\ Len(ls2) = n
        /\ k \in 1 .. Len(ls[d])
        /\ Inserted(ls2[d], ls[d], k)
        /\ \A e \in 1 .. n : e # d => ls2[e] = ls[e]
    BY <1>1 DEF Shrunk
  <1>3. /\ \A i \in 1 .. Len(ls2[d]) :
              Up(i, k) \in 1 .. Len(ls[d]) /\ Up(i, k) # k /\ ls[d][Up(i, k)] = ls2[d][i]
        /\ \A i \in 1 .. Len(ls[d]) : i # k =>
              Down(i, k) \in 1 .. Len(ls2[d]) /\ Up(Down(i, k), k) = i /\ ls[d][i] = ls2[d][Down(i, k)]
    <2> DEFINE s == ls2[d]
               t == ls[d]
    <2>1. Inserted(s, t, k)
      BY <1>2
    <2> HIDE DEF s, t
    <2>2. /\ \A i \in 1 .. Len(s) : Up(i, k) \in 1 .. Len(t) /\ Up(i, k) # k /\ t[Up(i, k)] = s[i]
          /\ \A i \in 1 .. Len(t) : i # k =>
                Down(i, k) \in 1 .. Len(s) /\ Up(Down(i, k), k) = i /\ t[i] = s[Down(i, k)]
      BY ONLY <2>1, InsertedPlaces
    <2> QED BY <2>2 DEF s, t
  <1> HIDE DEF n
  <1>4. \A i, j \in 1 .. Len(ls2[d]) : /\ Up(i, k) = Up(j, k) => i = j
                                       /\ Up(i, k) <= Up(j, k) => i <= j
    <2>1. Len(ls2[d]) \in Nat /\ k \in Nat
      BY <1>1, <1>2 DEF Inserted
    <2> QED BY <2>1 DEF Up
  <1>5. /\ \A x \in 1 .. n : \A i \in 1 .. Len(ls[x]) :
              /\ en[x].kind = "directory"
              /\ ls[x][i] \in 2 .. n
              /\ en[ls[x][i]].kind # "socket" => en[ls[x][i]].parent = x
        /\ \A e \in 2 .. n : en[e].kind = "directory" =>
              \E i \in 1 .. Len(ls[en[e].parent]) : ls[en[e].parent][i] = e
    BY DEF TreeOK, ListsOK, n
  <1>6. ASSUME NEW x \in 1 .. n, NEW i \in 1 .. Len(ls2[x])
        PROVE  /\ en[x].kind = "directory"
               /\ ls2[x][i] \in 2 .. n
               /\ en[ls2[x][i]].kind # "socket" => en[ls2[x][i]].parent = x
    <2>1. CASE x = d
      <3>1. Up(i, k) \in 1 .. Len(ls[x]) /\ ls[x][Up(i, k)] = ls2[x][i]
        BY <2>1, <1>3
      <3> QED BY SMTT(60), <3>1, <1>5
    <2>2. CASE x # d
      <3>1. ls2[x] = ls[x]
        BY <2>2, <1>2
      <3> QED BY <3>1, <1>5
    <2> QED BY <2>1, <2>2
  <1>8. ASSUME NEW e \in 2 .. n, en[e].kind = "directory"
        PROVE  \E i \in 1 .. Len(ls2[en[e].parent]) : ls2[en[e].parent][i] = e
    <2>1. PICK i \in 1 .. Len(ls[en[e].parent]) : ls[en[e].parent][i] = e
      BY <1>5, <1>8
    <2>2. en[e].parent \in 1 .. n
      <3>1. en[e].parent \in 1 .. e - 1
        BY <1>8 DEF TreeOK, NodesOK, n
      <3> QED BY <3>1, <1>1
    <2>3. CASE en[e].parent = d
      <3>1. i # k
        BY <2>1, <2>3, <1>8
      <3>2. Down(i, k) \in 1 .. Len(ls2[d]) /\ ls2[d][Down(i, k)] = e
        BY <2>1, <2>3, <3>1, <1>3
      <3> QED BY <2>3, <3>2
    <2>4. CASE en[e].parent # d
      BY <2>1, <2>2, <2>4, <1>2
    <2> QED BY <2>3, <2>4
  <1>9. TreeOK(en, ls2)
    BY <1>2, <1>6, <1>8 DEF TreeOK, ListsOK, n
  <1>10. ASSUME NEW x \in 1 .. n, NEW r \in DirectoriesOf(en), NEW name,
                FirstNamed(en, ls[x], name, r)
         PROVE  FirstNamed(en, ls2[x], name, r)
    <2>1. CASE x # d
      BY <2>1, <1>2, <1>10
    <2>2. CASE x = d
      <3>1. PICK i \in 1 .. Len(ls[d]) :
              /\ r = ls[d][i] /\ en[ls[d][i]].name = name
              /\ \A j \in 1 .. Len(ls[d]) : en[ls[d][j]].name = name => i <= j
        BY <1>10, <2>2 DEF FirstNamed
      <3>2. i # k
        BY <3>1 DEF DirectoriesOf
      <3> DEFINE m == Down(i, k)
      <3>3. m \in 1 .. Len(ls2[d]) /\ Up(m, k) = i /\ ls2[d][m] = r
        BY <3>1, <3>2, <1>3
      <3> HIDE DEF m
      <3>4. ASSUME NEW j \in 1 .. Len(ls2[d]), en[ls2[d][j]].name = name PROVE m <= j
        <4>1. Up(j, k) \in 1 .. Len(ls[d]) /\ en[ls[d][Up(j, k)]].name = name
          BY <3>4, <1>3
        <4>2. Up(m, k) <= Up(j, k)
          BY <4>1, <3>1, <3>3
        <4> QED BY <4>2, <3>3, <1>4
      <3>5. en[ls2[d][m]].name = name
        BY <3>1, <3>3
      <3> QED BY <3>3, <3>4, <3>5, <2>2 DEF FirstNamed
    <2> QED BY <2>1, <2>2
  <1>11. Keeps(en, ls, en, ls2, DirectoriesOf(en))
    <2>1. Len(en) <= Len(en) /\ \A e \in 1 .. Len(en) : en[e] = en[e]
      BY <1>1 DEF n
    <2>2. DirectoriesOf(en) \subseteq DirectoriesOf(en)
      OBVIOUS
    <2> QED BY <2>1, <2>2, <1>10 DEF Keeps, n
  <1> QED BY <1>9, <1>11


-----------------------------------------------------------------------------
(* The path of an entry *)

NamesIn(en, e) ==
    LET names[i \in DOMAIN en] ==
            IF en[i].parent = NoEntry THEN << >> ELSE Append(names[en[i].parent], en[i].name)
    IN names[e]

GetPathIn(en, e) ==
    IF en[e].kind = "socket" THEN Plain(<<en[e].name>>) ELSE Slash(NamesIn(en, e))

LEMMA NamesAre ==
    \A e : NamesFrom(e) = NamesIn(entries, e) /\ GetPath(e) = GetPathIn(entries, e)
  <1>1. \A e : NamesFrom(e) = NamesIn(entries, e)
    BY DEF NamesFrom, NamesIn
  <1> QED BY <1>1 DEF GetPath, GetPathIn

\* An entry with a parent is younger than it and has a name.
LEMMA Parents ==
    ASSUME NEW en, NodesOK(en), NEW e \in 1 .. Len(en), en[e].parent # 0
    PROVE  /\ e \in 2 .. Len(en) /\ en[e].parent \in 1 .. e - 1
           /\ en[e].name \in Name /\ en[e].kind # "socket"
           /\ en[en[e].parent].kind = "directory"
  <1>1. e # 1
    BY DEF NodesOK
  <1>2. e \in 2 .. Len(en)
    BY <1>1
  <1> QED BY <1>2 DEF NodesOK

LEMMA NamesIs ==
    ASSUME NEW en, NodesOK(en)
    PROVE  /\ \A e \in 1 .. Len(en) :
                 /\ NamesIn(en, e) \in Seq(Name)
                 /\ NamesIn(en, e) = IF en[e].parent = 0 THEN << >>
                                     ELSE Append(NamesIn(en, en[e].parent), en[e].name)
  <1> DEFINE n == Len(en)
             S == Seq(Name)
             Value(g, i) == IF en[i].parent = NoEntry THEN << >>
                            ELSE Append(g[en[i].parent], en[i].name)
             Def(g) == g = [i \in DOMAIN en |-> Value(g, i)]
             W == CHOOSE g : Def(g)
             Sound(g, m) == g \in [1 .. m -> S] /\ \A i \in 1 .. m : g[i] = Value(g, i)
             T == {m \in 0 .. n : \E g : Sound(g, m)}
  <1>1. \A e : NamesIn(en, e) = W[e]
    BY DEF NamesIn
  <1>2. n \in Nat /\ DOMAIN en = 1 .. n
    BY DEF NodesOK
  <1> HIDE DEF n, Def, W
  <1>3. ASSUME NEW g, NEW i \in 1 .. n, \A k \in 1 .. i - 1 : g[k] \in S
        PROVE  Value(g, i) \in S
    <2>1. CASE en[i].parent = NoEntry
      BY <2>1
    <2>2. CASE en[i].parent # NoEntry
      <3>1. g[en[i].parent] \in S /\ en[i].name \in Name
        BY <2>2, <1>3, Parents DEF NoEntry, n
      <3> QED BY <3>1, <2>2
    <2> QED BY <2>1, <2>2
  <1>4. ASSUME NEW g, NEW h, NEW i \in 1 .. n, \A k \in 1 .. i - 1 : g[k] = h[k]
        PROVE  Value(g, i) = Value(h, i)
    <2>1. CASE en[i].parent = NoEntry
      BY <2>1
    <2>2. CASE en[i].parent # NoEntry
      <3>1. g[en[i].parent] = h[en[i].parent]
        BY <2>2, <1>4, Parents DEF NoEntry, n
      <3> QED BY <3>1, <2>2
    <2> QED BY <2>1, <2>2
  <1> HIDE DEF Value, S
  <1>5. 0 \in T
    <2> DEFINE g == [i \in 1 .. 0 |-> << >>]
    <2>1. \A i : i \notin 1 .. 0
      OBVIOUS
    <2>2. Sound(g, 0)
      BY <2>1
    <2> HIDE DEF g, Sound
    <2> QED BY <2>2, <1>2
  <1>6. ASSUME NEW m \in 0 .. n - 1, m \in T PROVE m + 1 \in T
    <2>1. PICK g : Sound(g, m)
      BY <1>6
    <2>2. m \in Nat /\ m + 1 \in 0 .. n /\ m + 1 \in 1 .. n /\ (m + 1) - 1 = m
      BY <1>2
    <2>3. Value(g, m + 1) \in S
      BY <2>1, <2>2, <1>3
    <2> DEFINE h == [i \in 1 .. m + 1 |-> IF i = m + 1 THEN Value(g, m + 1) ELSE g[i]]
    <2>4. /\ \A i \in 1 .. m : h[i] = g[i] /\ i \in 1 .. m + 1
          /\ h[m + 1] = Value(g, m + 1)
          /\ \A i \in 1 .. m + 1 : i \in 1 .. m \/ i = m + 1
      BY <2>2
    <2>5. h \in [1 .. m + 1 -> S]
      BY <2>1, <2>2, <2>3
    <2> HIDE DEF h
    <2>6. ASSUME NEW i \in 1 .. m + 1 PROVE h[i] = Value(h, i)
      <3>1. /\ i \in 1 .. n
            /\ \A k \in 1 .. i - 1 : k \in 1 .. m
        BY ONLY <1>2, <2>2, i \in 1 .. m + 1
      <3>2. \A k \in 1 .. i - 1 : g[k] = h[k]
        BY <3>1, <2>4
      <3>3. Value(g, i) = Value(h, i)
        BY <3>1, <3>2, <1>4
      <3> QED BY <3>3, <2>1, <2>4
    <2>7. Sound(h, m + 1)
      BY <2>5, <2>6
    <2> HIDE DEF Sound
    <2> QED BY <2>2, <2>7
  <1> HIDE DEF T
  <1>7. 0 .. n \subseteq T
    BY <1>2, <1>5, <1>6, IntervalInduction
  <1>8. n \in T
    BY <1>2, <1>7
  <1>9. PICK g : Sound(g, n)
    BY <1>8 DEF T
  <1>10. Def(g)
    BY <1>2, <1>9 DEF Def
  <1>11. Def(W)
    BY <1>10 DEF W
  <1>12. \A i \in 1 .. n : W[i] = Value(W, i)
    BY <1>2, <1>11 DEF Def
  <1> DEFINE U == {m \in 0 .. n : \A i \in 1 .. m : W[i] \in S}
  <1>13. 0 \in U
    BY <1>2
  <1>14. ASSUME NEW m \in 0 .. n - 1, m \in U PROVE m + 1 \in U
    <2>1. /\ m + 1 \in 0 .. n /\ m + 1 \in 1 .. n /\ (m + 1) - 1 = m
          /\ \A i \in 1 .. m + 1 : i \in 1 .. m \/ i = m + 1
      BY <1>2
    <2>2. W[m + 1] \in S
      BY <2>1, <1>3, <1>12, <1>14
    <2> QED BY <2>1, <2>2, <1>14
  <1> HIDE DEF U
  <1>15. 0 .. n \subseteq U
    BY <1>2, <1>13, <1>14, IntervalInduction
  <1>16. n \in U
    BY <1>2, <1>15
  <1>17. \A i \in 1 .. n : W[i] \in S
    BY <1>16 DEF U
  <1> QED BY <1>1, <1>12, <1>17 DEF Value, S, NoEntry, n

\* The path of an entry stays when others are made.
LEMMA NamesStay ==
    ASSUME NEW en, NEW en2, NodesOK(en), NodesOK(en2), Len(en) <= Len(en2),
           \A e \in 1 .. Len(en) : en2[e] = en[e]
    PROVE  \A e \in 1 .. Len(en) : NamesIn(en2, e) = NamesIn(en, e)
  <1> DEFINE n == Len(en)
             T == {m \in 0 .. n : \A i \in 1 .. m : NamesIn(en2, i) = NamesIn(en, i)}
  <1>1. n \in Nat /\ Len(en2) \in Nat /\ n <= Len(en2)
    BY DEF NodesOK
  <1>2. 0 \in T
    BY <1>1
  <1>3. ASSUME NEW m \in 0 .. n - 1, m \in T PROVE m + 1 \in T
    <2> DEFINE e == m + 1
    <2>1. /\ e \in 0 .. n /\ e \in 1 .. n /\ e - 1 = m /\ e \in 1 .. Len(en2)
          /\ \A i \in 1 .. e : i \in 1 .. m \/ i = e
      BY <1>1
    <2> HIDE DEF e
    <2>2. en2[e] = en[e]
      BY <2>1
    <2>3. NamesIn(en2, e) = NamesIn(en, e)
      <3>1. CASE en[e].parent = 0
        BY <3>1, <2>1, <2>2, NamesIs
      <3>2. CASE en[e].parent # 0
        <4>1. en[e].parent \in 1 .. m
          BY <3>2, <2>1, Parents
        <4>2. NamesIn(en2, en[e].parent) = NamesIn(en, en[e].parent)
          BY <4>1, <1>3
        <4> QED BY <4>2, <3>2, <2>1, <2>2, NamesIs
      <3> QED BY <3>1, <3>2
    <2> QED BY <2>1, <2>3, <1>3 DEF e
  <1> HIDE DEF T
  <1>4. 0 .. n \subseteq T
    BY <1>1, <1>2, <1>3, IntervalInduction
  <1>5. n \in T
    BY <1>1, <1>4
  <1> QED BY <1>5 DEF T

LEMMA GetPathIs ==
    ASSUME NEW en, NodesOK(en), NEW e \in 2 .. Len(en)
    PROVE  GetPathIn(en, e) \in Path /\ GetPathIn(en, e).parts # << >>
  <1>1. e \in 1 .. Len(en) /\ en[e].name \in Name
    BY DEF NodesOK
  <1>2. CASE en[e].kind = "socket"
    <2>1. <<en[e].name>> \in Seq(Name) /\ <<en[e].name>> # << >>
      BY <1>1
    <2> QED BY <2>1, <1>2 DEF GetPathIn, Plain, Path, From
  <1>3. CASE en[e].kind # "socket"
    <2>1. en[e].parent \in 1 .. e - 1
      BY <1>3 DEF NodesOK
    <2>2. en[e].parent # 0 /\ en[e].parent \in 1 .. Len(en)
      BY <2>1, <1>1
    <2>3. /\ NamesIn(en, e) = Append(NamesIn(en, en[e].parent), en[e].name)
          /\ NamesIn(en, en[e].parent) \in Seq(Name) /\ NamesIn(en, e) \in Seq(Name)
      BY <2>2, <1>1, NamesIs
    <2>4. NamesIn(en, e) # << >>
      BY <2>3
    <2> QED BY <2>3, <2>4, <1>3 DEF GetPathIn, Slash, Path, From
  <1> QED BY <1>2, <1>3


-----------------------------------------------------------------------------
(* Lookups of a process *)

LEMMA WithoutLast ==
    ASSUME NEW S, NEW s \in Seq(S), NEW n \in Nat, Len(s) = n + 1
    PROVE  /\ SubSeq(s, 1, n) \in Seq(S) /\ Len(SubSeq(s, 1, n)) = n
           /\ \A i \in 1 .. n : SubSeq(s, 1, n)[i] = s[i]
  OBVIOUS

LEMMA ParentIs ==
    ASSUME NEW path \in Path, path.parts # << >>
    PROVE  /\ ParentOf(path) \in Path
           /\ Len(path.parts) \in Nat \ {0}
           /\ Len(path.parts) = Len(ParentOf(path).parts) + 1
           /\ Len(ParentOf(path).parts) \in Nat
           /\ \A i \in 1 .. Len(ParentOf(path).parts) : ParentOf(path).parts[i] = path.parts[i]
           /\ Last(path.parts) = path.parts[Len(path.parts)]
           /\ Last(path.parts) \in Name
           /\ ParentOf(path).from =
                IF path.from = "root" /\ Len(path.parts) = 1 THEN "none" ELSE path.from
  <1> DEFINE s == path.parts
             f == SubSeq(s, 1, Len(s) - 1)
  <1>1. s \in Seq(Name) /\ s # << >> /\ path.from \in From
    BY DEF Path
  <1> HIDE DEF s
  <1>2. Len(s) \in Nat \ {0}
    BY <1>1
  <1>3. f \in Seq(Name) /\ Len(f) = Len(s) - 1 /\ \A i \in 1 .. Len(f) : f[i] = s[i]
    <2>1. Len(s) - 1 \in Nat /\ Len(s) = (Len(s) - 1) + 1
      BY <1>2
    <2> QED BY <2>1, <1>1, WithoutLast
  <1>4. Front(s) = f /\ Last(s) = s[Len(s)] /\ s[Len(s)] \in Name
    BY <1>1, <1>2 DEF Front, Last
  <1> HIDE DEF f
  <1>5. CASE path.from = "root" /\ Len(s) = 1
    <2>1. ParentOf(path) = Empty
      BY <1>5, <1>2 DEF ParentOf, s
    <2>2. << >> \in Seq(Name) /\ Len(<< >>) = 0
      OBVIOUS
    <2>3. Empty.from = "none" /\ Empty.parts = << >> /\ Empty \in Path
      BY <2>2 DEF Empty, Plain, Path, From
    <2> QED BY <2>1, <2>2, <2>3, <1>2, <1>4, <1>5 DEF s
  <1>6. CASE ~(path.from = "root" /\ Len(s) = 1)
    <2>1. ParentOf(path) = [path EXCEPT !.parts = f]
      <3>1. Len(path.parts) > 1 \/ path.from # "root"
        <4>1. Len(s) > 1 \/ Len(s) = 1
          <5>1. \A n \in Nat \ {0} : n > 1 \/ n = 1
            OBVIOUS
          <5> QED BY <5>1, <1>2
        <4> QED BY <4>1, <1>6 DEF s
      <3>2. ParentOf(path) = [path EXCEPT !.parts = Front(@)]
        BY <3>1 DEF ParentOf
      <3>3. Front(path.parts) = f
        BY <1>4 DEF s
      <3> QED BY <3>2, <3>3
    <2>2. /\ ParentOf(path).from = path.from /\ ParentOf(path).parts = f
          /\ ParentOf(path) \in Path
      BY <2>1, <1>3 DEF Path
    <2> QED BY <2>2, <1>2, <1>3, <1>4, <1>6 DEF s
  <1> QED BY <1>5, <1>6

\* A path with a name leads to an entry of a directory, never to the root.
LEMMA NotRoot ==
    ASSUME NEW en, NEW ls, TreeOK(en, ls), NEW path \in Path, path.parts # << >>,
           NEW dir \in 1 .. Len(en), PathIn(en, ls, path, dir) # 0
    PROVE  PathIn(en, ls, path, dir) \in 2 .. Len(en)
  <1> DEFINE q == [path EXCEPT !.parts = SubSeq(@, 1, Len(@) - 1)]
             s == path.parts
  <1>1. s \in Seq(Name) /\ Len(s) \in Nat \ {0}
    BY DEF Path
  <1>2. /\ q.from = path.from /\ q.parts = SubSeq(s, 1, Len(s) - 1)
    BY DEF Path
  <1> HIDE DEF q, s
  <1>3. Len(q.parts) \in Nat /\ Len(s) = Len(q.parts) + 1
        /\ \A i \in 1 .. Len(q.parts) : q.parts[i] = s[i]
    <2>1. Len(s) - 1 \in Nat /\ Len(s) = (Len(s) - 1) + 1
      BY <1>1
    <2>2. /\ SubSeq(s, 1, Len(s) - 1) \in Seq(Name) /\ Len(SubSeq(s, 1, Len(s) - 1)) = Len(s) - 1
          /\ \A i \in 1 .. Len(s) - 1 : SubSeq(s, 1, Len(s) - 1)[i] = s[i]
      BY <2>1, <1>1, WithoutLast
    <2> QED BY <2>1, <2>2, <1>2
  <1>4. /\ PathIn(en, ls, path, dir) =
             IF PathIn(en, ls, q, dir) = 0 THEN 0
             ELSE ResolveIn(en, ls, PathIn(en, ls, q, dir), s[Len(s)])
        /\ PathIn(en, ls, q, dir) \in 0 .. Len(en)
    <2>1. StartIn(en, path.from, dir) = StartIn(en, q.from, dir)
      BY <1>2
    <2> QED BY SMTT(60), <2>1, <1>3, LastName DEF s
  <1>5. PathIn(en, ls, q, dir) \in 1 .. Len(en)
    <2>1. Len(en) \in Nat
      BY TreeIs
    <2> QED BY <2>1, <1>4
  <1> QED BY <1>4, <1>5, ResolveIs

LEMMA Lookups ==
    ASSUME TreeOK(entries, lists), NEW p \in Process, cwd[p] \in 1 .. Len(entries),
           NEW path \in Path, path.parts # << >>
    PROVE  /\ ParentEntry(p, path) \in 0 .. Len(entries)
           /\ PathToEntry(path, cwd[p]) \in 0 .. Len(entries)
           /\ Target(p, path) # 0 =>
                /\ ParentEntry(p, path) \in 1 .. Len(entries)
                /\ entries[ParentEntry(p, path)].kind = "directory"
                /\ Target(p, path) \in 2 .. Len(entries)
                /\ FirstNamed(entries, lists[ParentEntry(p, path)], Last(path.parts), Target(p, path))
           /\ Target(p, path) = 0 /\ ParentEntry(p, path) # 0 =>
                NoneNamed(entries, lists[ParentEntry(p, path)], Last(path.parts))
           /\ ~Elsewhere(p, path) => Target(p, path) = PathToEntry(path, cwd[p])
  <1> DEFINE q == ParentOf(path)
             N == Len(path.parts)
             d == ParentEntry(p, path)
             last == Last(path.parts)
  <1>1. /\ q \in Path /\ N = Len(q.parts) + 1 /\ Len(q.parts) \in Nat
        /\ \A i \in 1 .. Len(q.parts) : q.parts[i] = path.parts[i]
        /\ last = path.parts[N]
        /\ q.from = IF path.from = "root" /\ N = 1 THEN "none" ELSE path.from
    BY ParentIs
  <1>2. d = PathIn(entries, lists, q, cwd[p])
    BY LookupsAre DEF ParentEntry
  <1>3. Target(p, path) = IF d = 0 THEN 0 ELSE ResolveIn(entries, lists, d, last)
    BY LookupsAre DEF Target, NoEntry
  <1>4. PathToEntry(path, cwd[p]) = PathIn(entries, lists, path, cwd[p])
    BY LookupsAre
  <1>5. Len(entries) \in Nat /\ N \in Nat
    BY <1>1, TreeIs
  <1> HIDE DEF q, N, d, last
  <1>6. d \in 0 .. Len(entries) /\ PathToEntry(path, cwd[p]) \in 0 .. Len(entries)
    BY <1>1, <1>2, <1>4, <1>5, PathType DEF N
  <1>7. d # 0 => d \in 1 .. Len(entries)
    BY <1>5, <1>6
  <1>8. ASSUME Target(p, path) # 0
        PROVE  /\ d \in 1 .. Len(entries) /\ entries[d].kind = "directory"
               /\ Target(p, path) \in 2 .. Len(entries)
               /\ FirstNamed(entries, lists[d], last, Target(p, path))
    <2>1. d # 0 /\ Target(p, path) = ResolveIn(entries, lists, d, last)
      BY <1>3, <1>8
    <2> QED BY <2>1, <1>7, <1>8, ResolveIs
  <1>9. ASSUME Target(p, path) = 0, d # 0 PROVE NoneNamed(entries, lists[d], last)
    <2>1. ResolveIn(entries, lists, d, last) = 0 /\ ~(0 \in 2 .. Len(entries))
      BY <1>3, <1>9, <1>5
    <2> QED BY <2>1, <1>7, <1>9, ResolveIs
  <1>10. ASSUME ~Elsewhere(p, path)
         PROVE  Target(p, path) = PathToEntry(path, cwd[p])
    <2>1. StartIn(entries, path.from, cwd[p]) = StartIn(entries, q.from, cwd[p])
      <3>1. CASE path.from = "root" /\ N = 1
        <4>1. cwd[p] = Root /\ q.from = "none"
          BY <3>1, <1>1, <1>10 DEF Elsewhere, N
        <4> QED BY <4>1, <3>1 DEF StartIn
      <3>2. CASE ~(path.from = "root" /\ N = 1)
        BY <3>2, <1>1
      <3> QED BY <3>1, <3>2
    <2>2. PathIn(entries, lists, path, cwd[p]) =
            IF PathIn(entries, lists, q, cwd[p]) = 0 THEN 0
            ELSE ResolveIn(entries, lists, PathIn(entries, lists, q, cwd[p]), path.parts[Len(path.parts)])
      BY <2>1, <1>1, LastName DEF N
    <2> QED BY <2>2, <1>1, <1>2, <1>3, <1>4 DEF N
  <1> QED BY <1>6, <1>8, <1>9, <1>10 DEF d, last


-----------------------------------------------------------------------------
(* What every state has, and what every step does to the tree *)

Ops == {"none", "make", "open", "stat", "unlink"}
Ats == {"user", "make", "follow", "remove", "spin"}
Calls == [op : Ops, at : Ats, path : Path, follows : Int, creat : BOOLEAN, dir : Nat,
          name : Name \cup {""}, kind : Kinds \cup {"none"}, link : Path, sock : Nat,
          there : BOOLEAN, elsewhere : BOOLEAN]

\* A call has found a directory, or a path that is not empty; what it makes is not
\* there, unless it has looked elsewhere; and what it binds again is a socket.
CallOK(en, c) ==
    /\ c.at = "remove" => c.dir \in DirectoriesOf(en)
    /\ c.at = "make" => /\ c.dir \in 1 .. Len(en)
                        /\ c.sock = 0 => c.dir \in DirectoriesOf(en)
                        /\ c.name \in Name /\ c.kind \in Kinds
                        /\ c.kind = "link" => c.link.parts # << >>
                        /\ c.there => c.elsewhere
                        /\ c.sock # 0 => c.sock \in 1 .. Len(en) /\ en[c.sock].kind = "socket"
    /\ c.at = "follow" => c.path.parts # << >>

Streams0 == [open : BOOLEAN, path : Path, ind : Nat, count : Nat, dir : Nat,
             list : Seq(Nat), read : Seq(Nat), disturbed : BOOLEAN]

TypeInv ==
    /\ TreeOK(entries, lists)
    /\ cwd \in [Process -> 1 .. Len(entries)]
    /\ call \in [Process -> Calls]
    /\ \A p \in Process : CallOK(entries, call[p])
    /\ stream \in [Process -> Streams0]
    /\ archive \in [records : Archives, done : Nat]
    /\ misplaced \in BOOLEAN /\ raced \in BOOLEAN

\* A step leaves the tree, makes one entry, takes one that is no directory out of
\* its list, or gives a socket another name and puts it in a list again.
Makes(d, name, kind, link) ==
    \E node : /\ Fits(entries, d, node) /\ d \in DirectoriesOf(entries)
              /\ node.name = name /\ node.kind = kind /\ node.link = link
              /\ Grown(entries, lists, d, node, entries', lists')

Removes(d, k) ==
    /\ entries' = entries /\ d \in 1 .. Len(entries)
    /\ Shrunk(lists, d, k, lists') /\ entries[lists[d][k]].kind # "directory"

Renames(d, name, e) ==
    /\ d \in 1 .. Len(entries) /\ name \in Name
    /\ e \in 1 .. Len(entries) /\ entries[e].kind = "socket"
    /\ Rebind(d, name, e)

LEMMA Adding ==
    ASSUME TreeOK(entries, lists), NEW d \in DirectoriesOf(entries),
           NEW name \in Name, NEW kind \in Kinds, NEW link \in Path,
           kind = "link" => link.parts # << >>, Add(d, name, kind, link)
    PROVE  Makes(d, name, kind, link)
  <1> DEFINE node == [kind |-> kind, name |-> name, link |-> link,
                      parent |-> IF kind = "socket" THEN NoEntry ELSE d]
  <1>1. d \in 1 .. Len(entries) /\ d \in Nat
    BY TreeIs DEF DirectoriesOf
  <1>2. /\ node \in Entry /\ node.name = name /\ node.kind = kind /\ node.link = link
        /\ node.parent = IF kind = "socket" THEN 0 ELSE d
    BY <1>1 DEF Entry, NoEntry
  <1>3. /\ entries' = Append(entries, node)
        /\ lists' = Append([lists EXCEPT ![d] = Append(@, Len(entries) + 1)], << >>)
    BY DEF Add, Pushed
  <1> HIDE DEF node
  <1>4. Grown(entries, lists, d, node, entries', lists')
    BY <1>1, <1>2, <1>3, Growing
  <1>5. Fits(entries, d, node)
    BY <1>2 DEF Fits
  <1> QED BY <1>2, <1>4, <1>5 DEF Makes

LEMMA Removing ==
    ASSUME TreeOK(entries, lists), NEW d \in 1 .. Len(entries), NEW name,
           NEW gone, gone = Resolve(d, name), gone # 0, entries[gone].kind # "directory",
           entries' = entries, lists' = [lists EXCEPT ![d] = Without(@, gone)]
    PROVE  \E k : Removes(d, k)
  <1>1. gone = ResolveIn(entries, lists, d, name)
    BY LookupsAre
  <1>2. FirstNamed(entries, lists[d], name, gone)
    BY <1>1, ResolveIs
  <1>3. \E i \in 1 .. Len(lists[d]) : lists[d][i] = gone
    BY <1>2 DEF FirstNamed
  <1>4. lists \in Seq(Seq(Nat)) /\ d \in 1 .. Len(lists)
    BY DEF TreeOK, ListsOK
  <1>5. PICK k \in 1 .. Len(lists[d]) : lists[d][k] = gone /\ Shrunk(lists, d, k, lists')
    BY <1>3, <1>4, Shrinking
  <1> QED BY <1>5 DEF Removes

\* Paths to directories are kept by every step, and nothing that was made goes.
TreeStep ==
    /\ TreeOK(entries', lists')
    /\ Keeps(entries, lists, entries', lists', DirectoriesOf(entries))

LEMMA Unchanged ==
    ASSUME TreeOK(entries, lists), UNCHANGED tree
    PROVE  TreeStep
  <1>1. Len(entries) \in Nat
    BY TreeIs
  <1> QED BY <1>1 DEF TreeStep, Keeps, tree

LEMMA Made ==
    ASSUME TreeOK(entries, lists), NEW d, NEW name, NEW kind, NEW link,
           Makes(d, name, kind, link)
    PROVE  TreeStep /\ Keeps(entries, lists, entries', lists', 1 .. Len(entries))
  <1>1. PICK node : /\ Fits(entries, d, node) /\ d \in DirectoriesOf(entries)
                    /\ Grown(entries, lists, d, node, entries', lists')
    BY DEF Makes
  <1>2. d \in 1 .. Len(entries) /\ entries[d].kind = "directory"
    BY <1>1 DEF DirectoriesOf
  <1>3. TreeOK(entries', lists') /\ Keeps(entries, lists, entries', lists', 1 .. Len(entries))
    BY <1>1, <1>2, GrownIs
  <1>4. Keeps(entries, lists, entries', lists', DirectoriesOf(entries))
    BY <1>3 DEF Keeps, DirectoriesOf
  <1> QED BY <1>3, <1>4 DEF TreeStep

\* After a rename the tree is still one, with the same kinds.
LEMMA Renamed ==
    ASSUME TreeOK(entries, lists), NEW d, NEW name, NEW e, Renames(d, name, e)
    PROVE  /\ TreeOK(entries', lists') /\ Len(entries') = Len(entries)
           /\ \A x \in 1 .. Len(entries) : entries'[x].kind = entries[x].kind
  <1> DEFINE n == Len(entries)
             l == Len(lists[d])
             list == Append(lists[d], e)
  <1>1. /\ entries \in Seq(Entry) /\ lists \in Seq(Seq(Nat)) /\ Len(lists) = n /\ n \in Nat \ {0}
        /\ d \in 1 .. n /\ e \in 2 .. n /\ e \in Nat
        /\ entries[e].kind = "socket" /\ entries[e].parent = 0 /\ entries[e] \in Entry
        /\ name \in Name /\ l \in Nat /\ lists[d] \in Seq(Nat)
        /\ \A x \in 1 .. n : lists[x] \in Seq(Nat) /\ Len(lists[x]) \in Nat
        /\ DOMAIN entries = 1 .. n
    <2>1. /\ entries \in Seq(Entry) /\ lists \in Seq(Seq(Nat)) /\ Len(lists) = n
          /\ entries[1].kind = "directory"
      BY DEF TreeOK, NodesOK, ListsOK
    <2>2. /\ n \in Nat \ {0} /\ d \in 1 .. n /\ name \in Name
          /\ e \in 1 .. n /\ entries[e].kind = "socket"
          /\ \A x \in 1 .. n : /\ lists[x] \in Seq(Nat) /\ Len(lists[x]) \in Nat
                                /\ entries[x] \in Entry
          /\ DOMAIN entries = 1 .. n
      BY TreeIs DEF Renames
    <2>3. e \in 2 .. n /\ e \in Nat
      <3>1. e # 1
        BY <2>1, <2>2
      <3> HIDE DEF n
      <3> QED BY <3>1, <2>2
    <2>4. entries[e].parent = 0
      BY <2>2, <2>3 DEF TreeOK, NodesOK
    <2> QED BY <2>1, <2>2, <2>3, <2>4
  <1>2. /\ entries' = [entries EXCEPT ![e] = [entries[e] EXCEPT !.name = name]]
        /\ \/ entries[d].kind = "directory" /\ lists' = [lists EXCEPT ![d] = list]
           \/ lists' = lists
    BY <1>1 DEF Renames, Rebind, Pushed, Entry, IsDirectory
  <1> DEFINE node == [entries[e] EXCEPT !.name = name]
  <1>3. /\ node \in Entry /\ node.kind = "socket" /\ node.parent = 0 /\ node.name = name
    BY <1>1 DEF Entry
  <1>4. /\ list \in Seq(Nat) /\ Len(list) = l + 1
        /\ \A i \in 1 .. l : list[i] = lists[d][i]
        /\ list[l + 1] = e
    BY <1>1, AppendIs
  <1> HIDE DEF n, l, list, node
  <1>5. /\ entries' \in Seq(Entry) /\ Len(entries') = n
        /\ entries'[e] = node /\ \A x \in 1 .. n : x # e => entries'[x] = entries[x]
    <2>1. entries' = [entries EXCEPT ![e] = node]
      BY <1>2 DEF node
    <2>2. e \in 1 .. n
      BY <1>1
    <2>3. entries' \in Seq(Entry) /\ Len(entries') = n
      BY ONLY <2>1, <2>2, <1>1, <1>3, OneElement DEF n
    <2> QED BY <2>1, <2>2, <2>3, <1>1
  <1>6. /\ lists' \in Seq(Seq(Nat)) /\ Len(lists') = n
        /\ \A x \in 1 .. n : \A i \in 1 .. Len(lists'[x]) :
              \/ i \in 1 .. Len(lists[x]) /\ lists'[x][i] = lists[x][i]
              \/ x = d /\ entries[d].kind = "directory" /\ lists'[x][i] = e
        /\ \A x \in 1 .. n : \A i \in 1 .. Len(lists[x]) :
              i \in 1 .. Len(lists'[x]) /\ lists'[x][i] = lists[x][i]
    <2>1. CASE entries[d].kind = "directory" /\ lists' = [lists EXCEPT ![d] = list]
      <3>1. lists' \in Seq(Seq(Nat)) /\ Len(lists') = n
        BY <2>1, <1>1, <1>4, OneElement
      <3>2. DOMAIN lists = 1 .. n
        BY <1>1
      <3>3. lists'[d] = list /\ \A x \in 1 .. n : x # d => lists'[x] = lists[x]
        BY <2>1, <3>2, <1>1
      <3>4. l \in Nat /\ l = Len(lists[d])
        BY <1>1 DEF l
      <3>5. ASSUME NEW x \in 1 .. n, NEW i \in 1 .. Len(lists'[x])
            PROVE  \/ i \in 1 .. Len(lists[x]) /\ lists'[x][i] = lists[x][i]
                   \/ x = d /\ lists'[x][i] = e
        <4>1. CASE x = d
          <5>1. i \in 1 .. l + 1
            BY <4>1, <3>3, <1>4
          <5>2. i \in 1 .. l \/ i = l + 1
            BY <5>1, <3>4
          <5> QED BY <5>2, <4>1, <3>3, <3>4, <1>4
        <4>2. CASE x # d
          BY <4>2, <3>3
        <4> QED BY <4>1, <4>2
      <3>6. ASSUME NEW x \in 1 .. n, NEW i \in 1 .. Len(lists[x])
            PROVE  i \in 1 .. Len(lists'[x]) /\ lists'[x][i] = lists[x][i]
        <4>1. CASE x = d
          <5>1. i \in 1 .. l /\ i \in 1 .. l + 1
            BY <4>1, <3>4
          <5> QED BY <5>1, <4>1, <3>3, <1>4
        <4>2. CASE x # d
          BY <4>2, <3>3
        <4> QED BY <4>1, <4>2
      <3> QED BY <2>1, <3>1, <3>5, <3>6
    <2>2. CASE lists' = lists
      BY <2>2, <1>1
    <2> QED BY <2>1, <2>2, <1>2
  <1>7. /\ \A x \in 1 .. n : entries'[x].kind = entries[x].kind /\ entries'[x].parent = entries[x].parent
        /\ \A x \in 1 .. n : entries'[x].kind # "socket" => entries'[x] = entries[x]
    BY <1>1, <1>3, <1>5
  <1>8. NodesOK(entries')
    <2>1. entries'[1].kind = "directory" /\ entries'[1].parent = 0 /\ 1 \in 1 .. n
      BY <1>1, <1>7 DEF TreeOK, NodesOK
    <2>2. ASSUME NEW x \in 2 .. n
          PROVE  /\ entries'[x].name \in Name
                 /\ entries'[x].kind = "socket" => entries'[x].parent = 0
                 /\ entries'[x].kind # "socket" =>
                       /\ entries'[x].parent \in 1 .. x - 1
                       /\ entries'[entries'[x].parent].kind = "directory"
                 /\ entries'[x].kind = "link" => entries'[x].link.parts # << >>
      <3>1. /\ entries[x].name \in Name
            /\ entries[x].kind = "socket" => entries[x].parent = 0
            /\ entries[x].kind # "socket" =>
                  entries[x].parent \in 1 .. x - 1 /\ entries[entries[x].parent].kind = "directory"
            /\ entries[x].kind = "link" => entries[x].link.parts # << >>
        BY DEF TreeOK, NodesOK, n
      <3>2. x \in 1 .. n /\ \A y \in 1 .. x - 1 : y \in 1 .. n
        BY <1>1
      <3>3. CASE x = e
        <4>1. name \in Name /\ entries'[x] = node
          BY <3>3, <1>1, <1>5
        <4> QED BY <4>1, <1>3
      <3>4. CASE x # e
        <4>1. entries'[x] = entries[x]
          BY <3>2, <3>4, <1>5
        <4> QED BY <4>1, <3>1, <3>2, <1>7
      <3> QED BY <3>3, <3>4
    <2> QED BY <2>1, <2>2, <1>1, <1>5 DEF NodesOK
  <1>9. /\ \A x \in 1 .. n : \A i \in 1 .. Len(lists[x]) :
              /\ entries[x].kind = "directory"
              /\ lists[x][i] \in 2 .. n
              /\ entries[lists[x][i]].kind # "socket" => entries[lists[x][i]].parent = x
        /\ \A x \in 2 .. n : entries[x].kind = "directory" =>
              \E i \in 1 .. Len(lists[entries[x].parent]) : lists[entries[x].parent][i] = x
    BY DEF TreeOK, ListsOK, n
  <1>10. \A x \in 2 .. n : x \in 1 .. n
    BY <1>1
  <1>11. ASSUME NEW x \in 1 .. n, NEW i \in 1 .. Len(lists'[x])
         PROVE  /\ entries'[x].kind = "directory"
                /\ lists'[x][i] \in 2 .. n
                /\ entries'[lists'[x][i]].kind # "socket" => entries'[lists'[x][i]].parent = x
    <2>1. CASE i \in 1 .. Len(lists[x]) /\ lists'[x][i] = lists[x][i]
      <3>1. lists[x][i] \in 1 .. n
        BY <2>1, <1>9, <1>10
      <3> QED BY <2>1, <3>1, <1>7, <1>9
    <2>2. CASE x = d /\ entries[d].kind = "directory" /\ lists'[x][i] = e
      BY <2>2, <1>1, <1>3, <1>5, <1>7
    <2> QED BY <2>1, <2>2, <1>6
  <1>12. ASSUME NEW x \in 2 .. n, entries'[x].kind = "directory"
         PROVE  \E i \in 1 .. Len(lists'[entries'[x].parent]) : lists'[entries'[x].parent][i] = x
    <2> DEFINE y == entries[x].parent
    <2>1. x \in 1 .. n /\ entries[x].kind = "directory" /\ entries'[x].parent = y
      BY <1>7, <1>10, <1>12
    <2>2. y \in 1 .. n
      <3>1. y \in 1 .. x - 1
        BY <2>1 DEF TreeOK, NodesOK, n
      <3> HIDE DEF y
      <3> QED BY <3>1, <1>1
    <2>3. PICK i \in 1 .. Len(lists[y]) : lists[y][i] = x
      BY <2>1, <1>9
    <2> HIDE DEF y
    <2>4. i \in 1 .. Len(lists'[y]) /\ lists'[y][i] = x
      BY <2>2, <2>3, <1>6
    <2> QED BY <2>1, <2>4
  <1>13. ListsOK(entries', lists')
    <2>1. lists' \in Seq(Seq(Nat)) /\ Len(lists') = Len(entries') /\ Len(entries') = n
      BY <1>5, <1>6
    <2>2. \A x \in 1 .. Len(entries') : \A i \in 1 .. Len(lists'[x]) :
             /\ entries'[x].kind = "directory"
             /\ lists'[x][i] \in 2 .. Len(entries')
             /\ entries'[lists'[x][i]].kind # "socket" => entries'[lists'[x][i]].parent = x
      BY <2>1, <1>11
    <2>3. \A x \in 2 .. Len(entries') : entries'[x].kind = "directory" =>
             \E i \in 1 .. Len(lists'[entries'[x].parent]) : lists'[entries'[x].parent][i] = x
      BY <2>1, <1>12
    <2> QED BY <2>1, <2>2, <2>3 DEF ListsOK
  <1> QED BY <1>5, <1>7, <1>8, <1>13 DEF TreeOK, n

LEMMA Removed ==
    ASSUME TreeOK(entries, lists), NEW d, NEW k, Removes(d, k)
    PROVE  TreeStep
  BY ShrunkIs DEF Removes, TreeStep

\* What stays true of the entries and calls when the tree grows.
LEMMA StillThere ==
    ASSUME TreeOK(entries, lists), TreeStep
    PROVE  /\ 1 .. Len(entries) \subseteq 1 .. Len(entries')
           /\ DirectoriesOf(entries) \subseteq DirectoriesOf(entries')
           /\ \A c : CallOK(entries, c) => CallOK(entries', c)
  <1>1. Len(entries) \in Nat /\ Len(entries') \in Nat /\ Len(entries) <= Len(entries')
    BY TreeIs DEF TreeStep, Keeps
  <1>2. 1 .. Len(entries) \subseteq 1 .. Len(entries')
    BY <1>1
  <1>3. DirectoriesOf(entries) \subseteq DirectoriesOf(entries')
    BY <1>2 DEF DirectoriesOf, TreeStep, Keeps
  <1> QED BY <1>2, <1>3 DEF CallOK, TreeStep, Keeps

LEMMA CallTypes ==
    /\ Idle \in Calls /\ \A en : CallOK(en, Idle)
    /\ Closed \in Streams0
    /\ Empty \in Path
  <1>1. << >> \in Seq(Name) /\ << >> \in Seq(Nat)
    OBVIOUS
  <1>2. Empty \in Path
    BY <1>1 DEF Empty, Plain, Path, From
  <1>3. Idle \in Calls
    BY <1>2 DEF Idle, Calls, Ops, Ats, NoEntry
  <1>4. \A en : CallOK(en, Idle)
    BY DEF Idle, CallOK
  <1>5. Closed \in Streams0
    BY <1>1, <1>2 DEF Closed, Streams0, NoEntry
  <1> QED BY <1>2, <1>3, <1>4, <1>5


-----------------------------------------------------------------------------
(* Steps that only move a call *)

Waits(p, c) ==
    /\ call' = [call EXCEPT ![p] = c]
    /\ UNCHANGED <<tree, cwd, stream, archive, misplaced, raced, rebound, panic>>

Moves(p) ==
    \/ \E m : m # NullStream /\ Stop(m)
    \/ \E c \in Calls : CallOK(entries, c) /\ c.at # "spin" /\ Waits(p, c)

LEMMA Returning ==
    ASSUME NEW p, Return(p), UNCHANGED <<tree, cwd, stream, archive, misplaced, raced, rebound, panic>>
    PROVE  Moves(p)
  <1>1. Idle \in Calls /\ CallOK(entries, Idle) /\ Idle.at # "spin"
    BY CallTypes DEF Idle
  <1> QED BY <1>1 DEF Moves, Waits, Return

LEMMA ToMake ==
    ASSUME TypeInv, NEW p \in Process, NEW path \in Path, path.parts # << >>,
           ParentEntry(p, path) \in 1 .. Len(entries),
           NEW kind \in Kinds, NEW link \in Path, kind = "link" => link.parts # << >>,
           NEW elsewhere \in BOOLEAN, Target(p, path) # 0 => elsewhere,
           NEW sock \in Nat,
           sock # 0 => sock \in 1 .. Len(entries) /\ entries[sock].kind = "socket",
           sock = 0 => ParentEntry(p, path) \in DirectoriesOf(entries),
           Making(p, path, kind, link, sock, elsewhere),
           UNCHANGED <<tree, cwd, stream, archive, misplaced, raced, rebound, panic>>
    PROVE  Moves(p)
  <1> DEFINE d == ParentEntry(p, path)
             name == Last(path.parts)
             there == Target(p, path) # NoEntry
             c == [Idle EXCEPT !.op = "make", !.at = "make", !.dir = d, !.name = name,
                               !.kind = kind, !.link = link, !.sock = sock,
                               !.there = there, !.elsewhere = elsewhere]
  <1>1. d \in Nat /\ name \in Name /\ there \in BOOLEAN /\ (there => elsewhere)
    BY ParentIs, TreeIs DEF NoEntry
  <1>2. Waits(p, c)
    BY DEF Waits, Making
  <1>3. d \in 1 .. Len(entries) /\ (sock = 0 => d \in DirectoriesOf(entries))
    OBVIOUS
  <1> HIDE DEF d, name, there
  <1>4. Idle \in Calls /\ Empty \in Path
    BY CallTypes
  <1>5. /\ c \in Calls /\ c.at = "make" /\ c.dir = d /\ c.name = name /\ c.kind = kind
        /\ c.link = link /\ c.sock = sock /\ c.there = there /\ c.elsewhere = elsewhere
    BY <1>1, <1>4 DEF Calls, Ops, Ats
  <1> HIDE DEF c
  <1>6. CallOK(entries, c) /\ c.at # "spin"
    BY <1>1, <1>3, <1>5 DEF CallOK
  <1> QED BY <1>2, <1>5, <1>6 DEF Moves

LEMMA MakeMoves ==
    ASSUME TypeInv, NEW p \in Process, NEW path \in Path, path.parts # << >>,
           NEW kind \in Kinds, NEW link \in Path, kind = "link" => link.parts # << >>,
           NEW sock \in Nat,
           sock # 0 => sock \in 1 .. Len(entries) /\ entries[sock].kind = "socket",
           Make(p, path, kind, link, sock)
    PROVE  Moves(p)
  <1>1. CASE Stop(MakeFault(p, path))
    <2>1. MakeFault(p, path) # NullStream
      BY DEF MakeFault, NullStream, UnknownPattern, AlreadyExists, NoParent, NoPanic
    <2> QED BY <1>1, <2>1 DEF Moves
  <1>2. CASE /\ MakeFault(p, path) = NoPanic
             /\ IsDirectory(ParentEntry(p, path)) \/ sock # NoEntry
             /\ Making(p, path, kind, link, sock, Elsewhere(p, path))
             /\ UNCHANGED <<tree, cwd, stream, archive, misplaced, raced, rebound, panic>>
    <2>1. TreeOK(entries, lists) /\ cwd[p] \in 1 .. Len(entries)
      BY DEF TypeInv
    <2>2. ~Exists(p, path) /\ ParentEntry(p, path) # 0
      BY <1>2 DEF MakeFault, UnknownPattern, AlreadyExists, NoParent, NoPanic, NoEntry
    <2>3. /\ ParentEntry(p, path) \in 1 .. Len(entries)
          /\ sock = 0 => ParentEntry(p, path) \in DirectoriesOf(entries)
      <3>1. ParentEntry(p, path) \in 0 .. Len(entries) /\ Len(entries) \in Nat
        BY <2>1, Lookups, TreeIs
      <3>2. ParentEntry(p, path) \in 1 .. Len(entries)
        BY <3>1, <2>2
      <3> QED BY <3>2, <1>2 DEF IsDirectory, DirectoriesOf, NoEntry
    <2>4. Target(p, path) # 0 => Elsewhere(p, path)
      BY <2>1, <2>2, Lookups DEF Exists, NoEntry
    <2>5. Elsewhere(p, path) \in BOOLEAN
      BY DEF Elsewhere
    <2> QED BY <1>2, <2>3, <2>4, <2>5, ToMake
  <1> QED BY <1>1, <1>2 DEF Make

\* The link an entry has leads to an entry below a directory.
LEMMA FollowedIs ==
    ASSUME TypeInv, NEW e \in 1 .. Len(entries), IsLink(e), Followed(e) # 0
    PROVE  GetPath(Followed(e)) \in Path /\ GetPath(Followed(e)).parts # << >>
  <1>1. TreeOK(entries, lists) /\ NodesOK(entries) /\ Len(entries) \in Nat
    BY TreeIs DEF TypeInv, TreeOK
  <1>2. e \in 2 .. Len(entries)
    <2>1. entries[1].kind = "directory"
      BY <1>1 DEF NodesOK
    <2> QED BY <2>1 DEF IsLink
  <1>3. entries[e].parent \in 1 .. Len(entries) /\ entries[e].link \in Path
        /\ entries[e].link.parts # << >>
    <2>1. entries[e] \in Entry
      BY <1>1, TreeIs
    <2>2. entries[e].parent \in 1 .. e - 1 /\ entries[e].link.parts # << >>
      BY <1>1, <1>2 DEF NodesOK, IsLink
    <2> QED BY <2>1, <2>2, <1>1 DEF Entry
  <1>4. Followed(e) = PathIn(entries, lists, entries[e].link, entries[e].parent)
    BY LookupsAre DEF Followed
  <1>5. Followed(e) \in 2 .. Len(entries)
    BY <1>1, <1>3, <1>4, NotRoot
  <1> QED BY <1>1, <1>5, GetPathIs, NamesAre

LEMMA FindMoves ==
    ASSUME TypeInv, NEW p \in Process, NEW op \in {"open", "stat"},
           NEW e \in 1 .. Len(entries), NEW creat \in BOOLEAN, NEW follows \in Int,
           Find(p, op, e, creat, follows)
    PROVE  Moves(p)
  <1>1. CASE Stop(LinkFault(e, follows))
    <2>1. LinkFault(e, follows) # NullStream
      BY DEF LinkFault, NullStream, UnknownPattern, NullEntry, StackOverflow, NoPanic
    <2> QED BY <1>1, <2>1 DEF Moves
  <1>2. CASE Stop(CannotOpen)
    BY <1>2 DEF Moves, CannotOpen, NullStream
  <1>3. CASE Return(p) /\ UNCHANGED <<tree, cwd, stream, archive, misplaced, raced, rebound, panic>>
    BY <1>3, Returning
  <1> DEFINE c == [Idle EXCEPT !.op = op, !.at = "follow", !.path = GetPath(Followed(e)),
                               !.creat = creat, !.follows = follows + 1]
  <1>4. CASE /\ IsLink(e)
             /\ LinkFault(e, follows) = NoPanic
             /\ call' = [call EXCEPT ![p] = c]
             /\ UNCHANGED <<tree, cwd, stream, archive, misplaced, raced, rebound, panic>>
    <2>1. Followed(e) # 0
      BY <1>4 DEF LinkFault, NullEntry, UnknownPattern, NoPanic, NoEntry
    <2> DEFINE way == GetPath(Followed(e))
               n == follows + 1
               c2 == [Idle EXCEPT !.op = op, !.at = "follow", !.path = way,
                                  !.creat = creat, !.follows = n]
    <2>2. way \in Path /\ way.parts # << >> /\ n \in Int
      BY <2>1, <1>4, FollowedIs
    <2>3. Waits(p, c2)
      BY <1>4 DEF Waits
    <2> HIDE DEF way, n
    <2>4. Idle \in Calls
      BY CallTypes
    <2>5. c2 \in Calls /\ c2.at = "follow" /\ c2.path = way
      BY <2>2, <2>4 DEF Calls, Ops, Ats
    <2> HIDE DEF c2
    <2>6. CallOK(entries, c2) /\ c2.at # "spin"
      BY <2>2, <2>5 DEF CallOK
    <2> QED BY <2>3, <2>5, <2>6 DEF Moves
  <1> QED BY <1>1, <1>2, <1>3, <1>4 DEF Find

LEMMA OpenMoves ==
    ASSUME TypeInv, NEW p \in Process, NEW path \in Path, path.parts # << >>,
           NEW creat \in BOOLEAN, NEW follows \in Int, OpenRound(p, path, creat, follows)
    PROVE  Moves(p)
  <1>1. TreeOK(entries, lists) /\ cwd[p] \in 1 .. Len(entries) /\ Len(entries) \in Nat
    BY TreeIs DEF TypeInv
  <1>2. CASE Stop(OpenFault(p, path, creat))
    <2>1. OpenFault(p, path, creat) # NullStream
      BY DEF OpenFault, NullStream, UnknownPattern, CreationFailed, NoPanic
    <2> QED BY <1>2, <2>1 DEF Moves
  <1>3. CASE Target(p, path) # NoEntry /\ Find(p, "open", Target(p, path), creat, follows)
    <2>1. Target(p, path) \in 1 .. Len(entries)
      BY <1>1, <1>3, Lookups DEF NoEntry
    <2> QED BY <2>1, <1>3, FindMoves
  <1>4. CASE /\ OpenFault(p, path, creat) = NoPanic
             /\ Target(p, path) = NoEntry
             /\ creat /\ ParentEntry(p, path) # NoEntry
             /\ Making(p, path, "file", Empty, NoEntry, FALSE)
             /\ UNCHANGED <<tree, cwd, stream, archive, misplaced, raced, rebound, panic>>
    <2>1. IsDirectory(ParentEntry(p, path))
      BY <1>4 DEF OpenFault, UnknownPattern, CreationFailed, NoPanic
    <2>2. ParentEntry(p, path) \in DirectoriesOf(entries)
      <3>1. ParentEntry(p, path) \in 0 .. Len(entries)
        BY <1>1, Lookups
      <3> QED BY <3>1, <2>1, <1>1 DEF IsDirectory, DirectoriesOf, NoEntry
    <2>3. /\ "file" \in Kinds /\ Empty \in Path /\ FALSE \in BOOLEAN /\ Target(p, path) = 0
          /\ NoEntry = 0 /\ 0 \in Nat
      BY <1>4, CallTypes DEF Kinds, NoEntry
    <2>4. ParentEntry(p, path) \in 1 .. Len(entries)
      BY <2>2 DEF DirectoriesOf
    <2> QED BY <2>2, <2>3, <2>4, <1>4, ToMake
  <1>5. CASE Return(p) /\ UNCHANGED <<tree, cwd, stream, archive, misplaced, raced, rebound, panic>>
    BY <1>5, Returning
  <1> QED BY <1>2, <1>3, <1>4, <1>5 DEF OpenRound

LEMMA StatMoves ==
    ASSUME TypeInv, NEW p \in Process, NEW path \in Path, NEW follows \in Int,
           StatRound(p, path, follows)
    PROVE  Moves(p)
  <1>1. TreeOK(entries, lists) /\ cwd[p] \in 1 .. Len(entries) /\ Len(entries) \in Nat
    BY TreeIs DEF TypeInv
  <1> DEFINE e == PathToEntry(path, cwd[p])
  <1>2. CASE Stop(UnknownPattern)
    BY <1>2 DEF Moves, UnknownPattern, NullStream
  <1>3. CASE e # NoEntry /\ Find(p, "stat", e, FALSE, follows)
    <2>1. e \in 0 .. Len(entries)
      <3>1. Len(path.parts) \in Nat
        BY DEF Path
      <3> QED BY <3>1, <1>1, PathType, LookupsAre
    <2>2. e \in 1 .. Len(entries)
      BY <2>1, <1>1, <1>3 DEF NoEntry
    <2> HIDE DEF e
    <2> QED BY <2>2, <1>3, FindMoves
  <1>4. CASE Return(p) /\ UNCHANGED <<tree, cwd, stream, archive, misplaced, raced, rebound, panic>>
    BY <1>4, Returning
  <1> QED BY <1>2, <1>3, <1>4 DEF StatRound

LEMMA UnlinkMoves ==
    ASSUME TypeInv, NEW p \in Process, NEW path \in Path, path.parts # << >>, Unlink(p, path)
    PROVE  Moves(p)
  <1>1. CASE Stop(UnlinkFault(p, path))
    <2>1. UnlinkFault(p, path) # NullStream
      BY DEF UnlinkFault, NullStream, UnknownPattern, NoParent, IsADirectory, NoPanic
    <2> QED BY <1>1, <2>1 DEF Moves
  <1> DEFINE d == ParentEntry(p, path)
             name == Last(path.parts)
             c == [Idle EXCEPT !.op = "unlink", !.at = "remove", !.dir = d, !.name = name]
  <1>2. CASE /\ Target(p, path) # NoEntry
             /\ call' = [call EXCEPT ![p] = c]
             /\ UNCHANGED <<tree, cwd, stream, archive, misplaced, raced, rebound, panic>>
    <2>1. TreeOK(entries, lists) /\ cwd[p] \in 1 .. Len(entries)
      BY DEF TypeInv
    <2>2. d \in DirectoriesOf(entries) /\ d \in Nat /\ name \in Name
      BY <2>1, <1>2, Lookups, ParentIs DEF DirectoriesOf, NoEntry
    <2>3. Waits(p, c)
      BY <1>2 DEF Waits
    <2> HIDE DEF d, name
    <2>4. Idle \in Calls
      BY CallTypes
    <2>5. c \in Calls /\ c.at = "remove" /\ c.dir = d
      BY <2>2, <2>4 DEF Calls, Ops, Ats
    <2> HIDE DEF c
    <2>6. CallOK(entries, c) /\ c.at # "spin"
      BY <2>2, <2>5 DEF CallOK
    <2> QED BY <2>3, <2>5, <2>6 DEF Moves
  <1> QED BY <1>1, <1>2 DEF Unlink

LEMMA MovesOK ==
    ASSUME TypeInv, NEW p \in Process, Moves(p)
    PROVE  TypeInv'
  <1>1. CASE \E m : Stop(m)
    BY <1>1 DEF TypeInv, Stop, tree
  <1>2. CASE \E c \in Calls : CallOK(entries, c) /\ Waits(p, c)
    <2>1. PICK c \in Calls : CallOK(entries, c) /\ Waits(p, c)
      BY <1>2
    <2>2. /\ call' = [call EXCEPT ![p] = c]
          /\ UNCHANGED <<entries, lists, cwd, stream, archive, misplaced, raced>>
      BY <2>1 DEF Waits, tree
    <2>3. call' \in [Process -> Calls]
      BY <2>1, <2>2 DEF TypeInv
    <2>4. ASSUME NEW q \in Process PROVE CallOK(entries, call'[q])
      BY <2>1, <2>2 DEF TypeInv
    <2> QED BY <2>2, <2>3, <2>4 DEF TypeInv
  <1> QED BY <1>1, <1>2 DEF Moves


-----------------------------------------------------------------------------
(* All the steps *)

LEMMA Steps ==
    ASSUME TypeInv, [Next]_vars
    PROVE  \/ UNCHANGED vars
           \/ Extract \/ Load
           \/ \E p \in Process :
                 \/ Moves(p) \/ Create(p) \/ RemoveFile(p)
                 \/ \E q \in Process : Meet(p, q)
                 \/ \E path \in Places : Chdir(p, path) \/ Opendir(p, path)
                 \/ Readdir(p) \/ Closedir(p)
  <1>1. \A path \in Paths \cup Targets : path \in Path /\ path.parts # << >>
    BY PathsAssumption
  <1>2. ASSUME NEW p \in Process, NEW path \in Paths,
               \/ Mkdir(p, path)
               \/ \E sock \in {NoEntry} \cup DOMAIN entries : Bind(p, path, sock)
               \/ \E target \in Targets : Link(p, path, target)
               \/ \E creat \in BOOLEAN : Open(p, path, creat)
               \/ Stat(p, path) \/ Readlink(p, path) \/ Unlink(p, path)
        PROVE  Moves(p)
    <2>1. path \in Path /\ path.parts # << >>
      BY <1>1
    <2>2. CASE Mkdir(p, path)
      <3>1. "directory" \in Kinds /\ Empty \in Path
        BY CallTypes DEF Kinds
      <3> QED BY <3>1, <2>1, <2>2, MakeMoves DEF Mkdir, NoEntry
    <2>3. CASE \E sock \in {NoEntry} \cup DOMAIN entries : Bind(p, path, sock)
      <3>1. "socket" \in Kinds /\ Empty \in Path
        BY CallTypes DEF Kinds
      <3>2. PICK sock \in {NoEntry} \cup DOMAIN entries : Bind(p, path, sock)
        BY <2>3
      <3>3. /\ sock \in Nat
            /\ sock # 0 => sock \in 1 .. Len(entries) /\ entries[sock].kind = "socket"
        <4>1. DOMAIN entries = 1 .. Len(entries)
          BY TreeIs DEF TypeInv
        <4> QED BY <4>1, <3>2 DEF Bind, NoEntry
      <3> QED BY <3>1, <3>2, <3>3, <2>1, MakeMoves DEF Bind
    <2>4. CASE \E target \in Targets : Link(p, path, target)
      <3>1. PICK target \in Targets : Link(p, path, target)
        BY <2>4
      <3>2. "link" \in Kinds /\ target \in Path /\ target.parts # << >>
        BY <1>1 DEF Kinds
      <3> QED BY <3>1, <3>2, <2>1, MakeMoves DEF Link, NoEntry
    <2>5. CASE \E creat \in BOOLEAN : Open(p, path, creat)
      <3>1. PICK creat \in BOOLEAN : Open(p, path, creat)
        BY <2>5
      <3>2. 0 \in Int
        OBVIOUS
      <3> QED BY <3>1, <3>2, <2>1, OpenMoves DEF Open
    <2>6. CASE Stat(p, path)
      <3>1. 0 \in Int
        OBVIOUS
      <3> QED BY <3>1, <2>1, <2>6, StatMoves DEF Stat
    <2>7. CASE Readlink(p, path)
      <3> DEFINE fault == LinkFault(PathToEntry(path, cwd[p]), 0)
      <3>1. fault \in {UnknownPattern, NullEntry} /\ Stop(fault)
        BY <2>7 DEF Readlink
      <3>2. fault # NullStream
        BY <3>1 DEF UnknownPattern, NullEntry, NullStream
      <3> QED BY <3>1, <3>2 DEF Moves
    <2>8. CASE Unlink(p, path)
      BY <2>1, <2>8, UnlinkMoves
    <2> QED BY <2>2, <2>3, <2>4, <2>5, <2>6, <2>7, <2>8, <1>2
  <1>3. ASSUME NEW p \in Process, Follow(p)
        PROVE  Moves(p)
    <2> DEFINE c == call[p]
    <2>1. c \in Calls /\ CallOK(entries, c) /\ c.at = "follow"
      BY <1>3 DEF TypeInv, Follow, At
    <2>2. c.path \in Path /\ c.path.parts # << >> /\ c.creat \in BOOLEAN /\ c.follows \in Int
      BY <2>1 DEF Calls, CallOK
    <2>3. OpenRound(p, c.path, c.creat, c.follows) \/ StatRound(p, c.path, c.follows)
      BY <1>3 DEF Follow
    <2> HIDE DEF c
    <2> QED BY <2>2, <2>3, OpenMoves, StatMoves
  <1> QED BY <1>2, <1>3 DEF Next, Halted

LEMMA CreateMakes ==
    ASSUME TypeInv, NEW p \in Process, Create(p)
    PROVE  /\ \/ /\ Makes(call[p].dir, call[p].name, call[p].kind, call[p].link)
                 /\ ~rebound'
              \/ /\ Renames(call[p].dir, call[p].name, call[p].sock)
                 /\ rebound'
           /\ call[p].there => call[p].elsewhere
           /\ misplaced' = (misplaced \/ call[p].elsewhere)
           /\ raced' = (~call[p].there /\ Resolve(call[p].dir, call[p].name) # 0)
           /\ call' = [call EXCEPT ![p] = Idle]
           /\ UNCHANGED <<cwd, stream, archive, panic>>
           /\ ~rebound /\ ~raced /\ ~Booting
  <1> DEFINE c == call[p]
  <1>1. /\ c \in Calls /\ CallOK(entries, c) /\ c.at = "make" /\ TreeOK(entries, lists)
        /\ ~rebound /\ ~raced /\ ~Booting
    BY DEF TypeInv, Create, At, Running
  <1>2. /\ c.dir \in 1 .. Len(entries) /\ (c.sock = 0 => c.dir \in DirectoriesOf(entries))
        /\ c.name \in Name /\ c.kind \in Kinds
        /\ c.link \in Path /\ (c.kind = "link" => c.link.parts # << >>)
        /\ (c.there => c.elsewhere)
        /\ c.sock # 0 => c.sock \in 1 .. Len(entries) /\ entries[c.sock].kind = "socket"
    BY <1>1 DEF Calls, CallOK
  <1>3. /\ \/ c.sock = 0 /\ Add(c.dir, c.name, c.kind, c.link)
           \/ c.sock # 0 /\ Rebind(c.dir, c.name, c.sock)
        /\ rebound' = (rebound \/ c.sock # 0)
        /\ misplaced' = (misplaced \/ c.elsewhere)
        /\ raced' = (~c.there /\ Resolve(c.dir, c.name) # 0)
        /\ call' = [call EXCEPT ![p] = Idle]
        /\ UNCHANGED <<cwd, stream, archive, panic>>
    BY <1>1 DEF Create, Return, NoEntry
  <1> HIDE DEF c
  <1>4. CASE c.sock = 0 /\ Add(c.dir, c.name, c.kind, c.link)
    <2>1. Makes(c.dir, c.name, c.kind, c.link)
      BY <1>1, <1>2, <1>4, Adding
    <2>2. ~rebound'
      BY <1>1, <1>3, <1>4
    <2> QED BY <2>1, <2>2, <1>1, <1>2, <1>3 DEF c
  <1>5. CASE c.sock # 0 /\ Rebind(c.dir, c.name, c.sock)
    BY <1>1, <1>2, <1>3, <1>5 DEF Renames, c
  <1> QED BY <1>3, <1>4, <1>5

LEMMA MeetIs ==
    ASSUME NEW p \in Process, NEW q \in Process, Meet(p, q)
    PROVE  /\ raced'
           /\ UNCHANGED <<entries, lists, cwd, stream, call, archive, misplaced, rebound, panic>>
  BY DEF Meet, tree

\* A socket that has a second name keeps it, for the model ends there.
LEMMA ReboundStays ==
    ASSUME TypeInv, [Next]_vars, rebound
    PROVE  UNCHANGED vars
  <1>1. ~Running
    BY DEF Running
  <1>2. ~Extract /\ ~Load /\ \A p \in Process : \A place : ~At(p, place)
    BY <1>1 DEF Extract, Load, At
  <1>3. ASSUME NEW p \in Process, NEW path
        PROVE  /\ ~Mkdir(p, path) /\ \A sock : ~Bind(p, path, sock)
               /\ \A target : ~Link(p, path, target) /\ \A creat : ~Open(p, path, creat)
               /\ ~Stat(p, path) /\ ~Readlink(p, path) /\ ~Unlink(p, path)
               /\ ~Chdir(p, path) /\ ~Opendir(p, path)
    BY <1>2 DEF Mkdir, Bind, Link, Make, Open, Stat, Readlink, Unlink, User, Chdir, Opendir
  <1>4. ASSUME NEW p \in Process
        PROVE  /\ ~Create(p) /\ ~Follow(p) /\ ~RemoveFile(p) /\ \A q : ~Meet(p, q)
               /\ ~Readdir(p) /\ ~Closedir(p)
    BY <1>2 DEF User, Create, Follow, RemoveFile, Meet, Readdir, Closedir
  <1> QED BY <1>2, <1>3, <1>4 DEF Next, Halted

LEMMA RemoveFileIs ==
    ASSUME TypeInv, NEW p \in Process, RemoveFile(p)
    PROVE  \/ Stop(DeleteFailed)
           \/ /\ \E k : Removes(call[p].dir, k)
              /\ stream' = [q \in Process |->
                    IF stream[q].open /\ stream[q].dir = call[p].dir
                    THEN Disturbed(stream[q]) ELSE stream[q]]
              /\ call' = [call EXCEPT ![p] = Idle]
              /\ UNCHANGED <<entries, cwd, archive, misplaced, raced, rebound, panic>>
  <1> DEFINE d == call[p].dir
             gone == Resolve(d, call[p].name)
  <1>1. CASE Stop(DeleteFailed)
    BY <1>1
  <1>2. CASE /\ gone # NoEntry /\ ~IsDirectory(gone)
             /\ lists' = [lists EXCEPT ![d] = Without(@, gone)]
             /\ stream' = [q \in Process |->
                   IF stream[q].open /\ stream[q].dir = d THEN Disturbed(stream[q]) ELSE stream[q]]
             /\ Return(p)
             /\ UNCHANGED <<entries, cwd, archive, misplaced, raced, rebound, panic>>
    <2>1. TreeOK(entries, lists) /\ d \in 1 .. Len(entries)
      BY DEF TypeInv, RemoveFile, At, CallOK, DirectoriesOf
    <2>2. gone # 0 /\ entries[gone].kind # "directory" /\ entries' = entries
      BY <1>2 DEF IsDirectory, NoEntry
    <2>3. \E k : Removes(d, k)
      BY <2>1, <2>2, <1>2, Removing
    <2> QED BY <2>3, <1>2 DEF Return
  <1> QED BY <1>1, <1>2 DEF RemoveFile

LEMMA DisturbedIs ==
    ASSUME NEW d \in Streams0
    PROVE  Disturbed(d) \in Streams0 /\ Disturbed(d).disturbed /\ Disturbed(d).open = d.open
  <1>1. << >> \in Seq(Nat) /\ 0 \in Nat
    OBVIOUS
  <1> QED BY <1>1 DEF Disturbed, Streams0, NoEntry

\* A record of the archive, and where boot puts it.
LEMMA ExtractIs ==
    ASSUME TypeInv, Extract
    PROVE  \/ \E m : m # NullStream /\ Stop(m)
           \/ LET record == archive.records[archive.done + 1] IN
              /\ archive.done + 1 \in DOMAIN archive.records
              /\ ExtractFault(record) = NoPanic
              /\ DirOf(record) \in 1 .. Len(entries)
              /\ \/ /\ DirOf(record) \in DirectoriesOf(entries) /\ Existing(record) = 0
                    /\ Makes(DirOf(record), Last(record.parts), record.kind, record.link)
                 \/ /\ entries[DirOf(record)].kind # "directory" \/ Existing(record) # 0
                    /\ UNCHANGED tree
              /\ archive' = [archive EXCEPT !.done = @ + 1]
              /\ UNCHANGED <<cwd, stream, call, misplaced, raced, rebound, panic>>
  <1> DEFINE record == archive.records[archive.done + 1]
  <1>1. CASE Stop(ExtractFault(record))
    <2>1. ExtractFault(record) # NullStream
      BY DEF ExtractFault, NullStream, NullEntry, CreationFailed, UnknownPattern,
             AlreadyExists, NoParent, CannotOpen, NoPanic
    <2> QED BY <1>1, <2>1
  <1>1a. CASE Stop(WriteRefused)
    <2>1. WriteRefused # NullStream
      BY DEF NullStream, WriteRefused
    <2> QED BY <1>1a, <2>1
  <1>2. CASE /\ ExtractFault(record) = NoPanic
             /\ IF IsDirectory(DirOf(record)) /\ Existing(record) = NoEntry
                THEN Add(DirOf(record), Last(record.parts), record.kind, record.link)
                ELSE UNCHANGED tree
             /\ archive' = [archive EXCEPT !.done = @ + 1]
             /\ UNCHANGED <<cwd, stream, call, misplaced, raced, rebound, panic>>
    <2>1. TreeOK(entries, lists) /\ Len(entries) \in Nat \ {0}
      BY TreeIs DEF TypeInv
    <2>2. /\ archive.done + 1 \in DOMAIN archive.records
          /\ record \in Record /\ record.parts # << >>
          /\ record.kind = "link" => record.link.parts # << >>
      <3>1. archive.records \in Archives /\ archive.done \in Nat
        BY DEF TypeInv
      <3>2. archive.records \in Seq(Record)
        BY <3>1, ArchivesAssumption
      <3>3. archive.done + 1 \in 1 .. Len(archive.records)
        BY <3>1, <3>2 DEF Extract
      <3>4. archive.done + 1 \in DOMAIN archive.records
        BY <3>2, <3>3
      <3> QED BY <3>1, <3>2, <3>3, <3>4, ArchivesAssumption
    <2> HIDE DEF record
    <2>3. PathOf(record) \in Path /\ PathOf(record).parts = record.parts
      BY <2>2 DEF PathOf, Slash, Plain, Path, From, Record
    <2>4. DirOf(record) \in 0 .. Len(entries)
      <3>1. ParentOf(PathOf(record)) \in Path /\ Len(ParentOf(PathOf(record)).parts) \in Nat
        BY <2>2, <2>3, ParentIs
      <3>2. Root \in 1 .. Len(entries)
        BY <2>1 DEF Root
      <3> QED BY <3>1, <3>2, <2>1, PathType, LookupsAre DEF DirOf
    <2>5. DirOf(record) # 0
      BY <1>2 DEF ExtractFault, NullEntry, CreationFailed, UnknownPattern,
                  AlreadyExists, NoParent, CannotOpen, NoPanic, NoEntry
    <2>6. DirOf(record) \in 1 .. Len(entries)
      BY <2>1, <2>4, <2>5
    <2>7. CASE IsDirectory(DirOf(record)) /\ Existing(record) = NoEntry
      <3>1. DirOf(record) \in DirectoriesOf(entries)
        BY <2>6, <2>7 DEF IsDirectory, DirectoriesOf
      <3>2. Last(record.parts) \in Name /\ record.kind \in Kinds /\ record.link \in Path
        <4>1. Last(record.parts) \in Name
          BY <2>2, <2>3, ParentIs
        <4> QED BY <4>1, <2>2 DEF Record, Kinds
      <3>3. Add(DirOf(record), Last(record.parts), record.kind, record.link)
        BY <1>2, <2>7
      <3>4. Makes(DirOf(record), Last(record.parts), record.kind, record.link)
        BY <3>1, <3>2, <3>3, <2>1, <2>2, Adding
      <3> QED BY <3>1, <3>4, <2>2, <2>6, <2>7, <1>2 DEF record, NoEntry
    <2>8. CASE ~(IsDirectory(DirOf(record)) /\ Existing(record) = NoEntry)
      <3>1. entries[DirOf(record)].kind # "directory" \/ Existing(record) # 0
        BY <2>5, <2>8 DEF IsDirectory, NoEntry
      <3> QED BY <3>1, <2>2, <2>6, <2>8, <1>2 DEF record
    <2> QED BY <2>7, <2>8
  <1> QED BY <1>1, <1>1a, <1>2 DEF Extract


LEMMA KeepTypes ==
    ASSUME TypeInv, TreeStep, cwd' \in [Process -> 1 .. Len(entries)],
           call' \in [Process -> Calls], \A p \in Process : CallOK(entries, call'[p]),
           stream' \in [Process -> Streams0], archive' \in [records : Archives, done : Nat],
           misplaced' \in BOOLEAN, raced' \in BOOLEAN
    PROVE  TypeInv'
  <1>1. TreeOK(entries, lists) /\ TreeOK(entries', lists')
    BY DEF TypeInv, TreeStep
  <1>2. /\ 1 .. Len(entries) \subseteq 1 .. Len(entries')
        /\ \A c : CallOK(entries, c) => CallOK(entries', c)
    BY <1>1, StillThere
  <1>3. cwd' \in [Process -> 1 .. Len(entries')]
    BY <1>2
  <1>4. \A p \in Process : CallOK(entries', call'[p])
    BY <1>2
  <1> QED BY <1>1, <1>3, <1>4 DEF TypeInv

LEMMA TypeStep ==
    ASSUME TypeInv, [Next]_vars
    PROVE  TypeInv' /\ (TreeStep \/ rebound')
  <1>1. /\ TreeOK(entries, lists)
        /\ cwd \in [Process -> 1 .. Len(entries)] /\ call \in [Process -> Calls]
        /\ \A q \in Process : CallOK(entries, call[q])
        /\ stream \in [Process -> Streams0] /\ archive \in [records : Archives, done : Nat]
        /\ misplaced \in BOOLEAN /\ raced \in BOOLEAN
    BY DEF TypeInv
  <1>2. UNCHANGED tree => TreeStep
    BY <1>1, Unchanged
  <1>3. /\ Idle \in Calls /\ CallOK(entries, Idle)
    BY CallTypes
  <1>4. ASSUME NEW p \in Process, call' = [call EXCEPT ![p] = Idle]
        PROVE  call' \in [Process -> Calls] /\ \A q \in Process : CallOK(entries, call'[q])
    BY <1>1, <1>3, <1>4
  <1>5. CASE UNCHANGED vars
    BY <1>2, <1>5 DEF vars, tree, TypeInv
  <1>6. CASE Extract
    <2> DEFINE record == archive.records[archive.done + 1]
    <2>1. CASE \E m : Stop(m)
      BY <2>1, <1>2 DEF Stop, tree, TypeInv
    <2>2. CASE /\ \/ Makes(DirOf(record), Last(record.parts), record.kind, record.link)
                  \/ UNCHANGED tree
               /\ archive' = [archive EXCEPT !.done = @ + 1]
               /\ UNCHANGED <<cwd, stream, call, misplaced, raced, rebound, panic>>
      <3>1. TreeStep
        BY <2>2, <1>1, <1>2, Made
      <3>2. archive' \in [records : Archives, done : Nat]
        BY <2>2, <1>1
      <3> QED BY <3>1, <3>2, <2>2, <1>1, KeepTypes
    <2> HIDE DEF record
    <2> QED BY <2>1, <2>2, <1>6, ExtractIs DEF record
  <1>7. CASE Load
    <2>1. /\ archive' = [archive EXCEPT !.done = @ + 1]
          /\ UNCHANGED <<tree, cwd, stream, call, misplaced, raced, rebound, panic>>
      BY <1>7 DEF Load
    <2>2. archive' \in [records : Archives, done : Nat]
      BY <2>1, <1>1
    <2> QED BY <2>1, <2>2, <1>1, <1>2, KeepTypes
  <1>8. ASSUME NEW p \in Process, Moves(p) PROVE TypeInv' /\ TreeStep
    <2>1. UNCHANGED tree
      BY <1>8 DEF Moves, Stop, Waits
    <2> QED BY <2>1, <1>2, <1>8, MovesOK
  <1>9. ASSUME NEW p \in Process, Create(p) PROVE TypeInv' /\ (TreeStep \/ rebound')
    <2> DEFINE c == call[p]
    <2>1. /\ \/ Makes(c.dir, c.name, c.kind, c.link)
             \/ Renames(c.dir, c.name, c.sock) /\ rebound'
          /\ misplaced' = (misplaced \/ c.elsewhere)
          /\ raced' = (~c.there /\ Resolve(c.dir, c.name) # 0)
          /\ call' = [call EXCEPT ![p] = Idle]
          /\ UNCHANGED <<cwd, stream, archive, panic>>
      BY <1>9, CreateMakes
    <2>2. misplaced' \in BOOLEAN
      BY <2>1, <1>1 DEF Calls
    <2> HIDE DEF c
    <2>3. raced' \in BOOLEAN
      BY <2>1
    <2>4. CASE Makes(c.dir, c.name, c.kind, c.link)
      <3>1. TreeStep
        BY <2>4, <1>1, Made
      <3> QED BY <3>1, <2>1, <2>2, <2>3, <1>1, <1>4, KeepTypes
    <2>5. CASE Renames(c.dir, c.name, c.sock) /\ rebound'
      <3>1. /\ TreeOK(entries', lists') /\ Len(entries') = Len(entries)
            /\ \A x \in 1 .. Len(entries) : entries'[x].kind = entries[x].kind
        BY <2>5, <1>1, Renamed
      <3>2. call' \in [Process -> Calls] /\ \A q \in Process : CallOK(entries, call'[q])
        BY <2>1, <1>4
      <3>3. ASSUME NEW q \in Process PROVE CallOK(entries', call'[q])
        <4>1. DirectoriesOf(entries') = DirectoriesOf(entries)
          BY <3>1 DEF DirectoriesOf
        <4> QED BY <4>1, <3>1, <3>2 DEF CallOK
      <3>4. cwd' \in [Process -> 1 .. Len(entries')] /\ stream' \in [Process -> Streams0]
            /\ archive' \in [records : Archives, done : Nat]
        BY <2>1, <3>1, <1>1
      <3> QED BY <2>2, <2>3, <2>5, <3>1, <3>2, <3>3, <3>4 DEF TypeInv
    <2> QED BY <2>1, <2>4, <2>5
  <1>9a. ASSUME NEW p \in Process, NEW q \in Process, Meet(p, q) PROVE TypeInv' /\ TreeStep
    <2>1. raced' /\ UNCHANGED <<entries, lists, cwd, stream, call, archive, misplaced, panic>>
      BY <1>9a, MeetIs
    <2> QED BY <2>1, <1>1, <1>2, KeepTypes DEF tree
  <1>10. ASSUME NEW p \in Process, RemoveFile(p) PROVE TypeInv' /\ TreeStep
    <2>1. CASE Stop(DeleteFailed)
      BY <2>1, <1>2 DEF Stop, tree, TypeInv
    <2>2. CASE /\ \E k : Removes(call[p].dir, k)
               /\ stream' = [q \in Process |->
                     IF stream[q].open /\ stream[q].dir = call[p].dir
                     THEN Disturbed(stream[q]) ELSE stream[q]]
               /\ call' = [call EXCEPT ![p] = Idle]
               /\ UNCHANGED <<entries, cwd, archive, misplaced, raced, rebound, panic>>
      <3>1. TreeStep
        BY <2>2, <1>1, Removed
      <3>2. \A q \in Process : Disturbed(stream[q]) \in Streams0
        BY <1>1, DisturbedIs
      <3>3. stream' \in [Process -> Streams0]
        BY <2>2, <3>2, <1>1
      <3> QED BY <3>1, <3>3, <2>2, <1>1, <1>4, KeepTypes
    <2> QED BY <2>1, <2>2, <1>10, RemoveFileIs
  <1>11. ASSUME NEW p \in Process, NEW path \in Places, Chdir(p, path)
         PROVE  TypeInv' /\ TreeStep
    <2>1. CASE Stop(UnknownPattern)
      BY <2>1, <1>2 DEF Stop, tree, TypeInv
    <2>2. CASE /\ PathToEntry(path, cwd[p]) # NoEntry
               /\ cwd' = [cwd EXCEPT ![p] = PathToEntry(path, cwd[p])]
               /\ stream' = [stream EXCEPT ![p] =
                     IF @.open /\ @.path.from # "root" THEN Disturbed(@) ELSE @]
               /\ UNCHANGED <<tree, call, archive, misplaced, raced, rebound, panic>>
      <3>1. PathToEntry(path, cwd[p]) \in 1 .. Len(entries)
        <4>1. Len(path.parts) \in Nat
          BY PathsAssumption DEF Path
        <4>2. PathToEntry(path, cwd[p]) \in 0 .. Len(entries) /\ Len(entries) \in Nat
          BY <4>1, <1>1, PathType, LookupsAre, TreeIs
        <4> QED BY <4>2, <2>2 DEF NoEntry
      <3>2. cwd' \in [Process -> 1 .. Len(entries)]
        BY <3>1, <2>2, <1>1
      <3>3. Disturbed(stream[p]) \in Streams0
        BY <1>1, DisturbedIs
      <3>4. stream' \in [Process -> Streams0]
        BY <3>3, <2>2, <1>1
      <3> QED BY <3>2, <3>4, <2>2, <1>1, <1>2, KeepTypes
    <2> QED BY <2>1, <2>2, <1>11 DEF Chdir
  <1>12. ASSUME NEW p \in Process, NEW path \in Places, Opendir(p, path)
         PROVE  TypeInv' /\ TreeStep
    <2> DEFINE e == PathToEntry(path, cwd[p])
               d == [Closed EXCEPT !.open = TRUE, !.path = path, !.count = Len(lists[e]),
                                   !.dir = e, !.list = lists[e]]
    <2>1. CASE Stop(UnknownPattern)
      BY <2>1, <1>2 DEF Stop, tree, TypeInv
    <2>2. CASE /\ e # NoEntry
               /\ stream' = [stream EXCEPT ![p] = d]
               /\ UNCHANGED <<tree, cwd, call, archive, misplaced, raced, rebound, panic>>
      <3>1. e \in 1 .. Len(entries) /\ path \in Path
        <4>1. Len(path.parts) \in Nat /\ path \in Path
          BY PathsAssumption DEF Path
        <4>2. e \in 0 .. Len(entries) /\ Len(entries) \in Nat
          BY <4>1, <1>1, PathType, LookupsAre, TreeIs
        <4> QED BY <4>1, <4>2, <2>2 DEF NoEntry
      <3>2. lists[e] \in Seq(Nat) /\ Len(lists[e]) \in Nat /\ e \in Nat
        BY <3>1, <1>1, TreeIs
      <3>3. d \in Streams0
        BY <3>1, <3>2, CallTypes DEF Streams0
      <3> HIDE DEF d
      <3>4. stream' \in [Process -> Streams0]
        BY <3>3, <2>2, <1>1
      <3> QED BY <3>4, <2>2, <1>1, <1>2, KeepTypes
    <2> QED BY <2>1, <2>2, <1>12 DEF Opendir
  <1>13. ASSUME NEW p \in Process, Readdir(p) PROVE TypeInv' /\ TreeStep
    <2> DEFINE d == stream[p]
               e == PathToEntry(d.path, cwd[p])
    <2>1. CASE Stop(NullStream)
      BY <2>1, <1>2 DEF Stop, tree, TypeInv
    <2>2. CASE /\ e # NoEntry /\ d.ind < Len(lists[e])
               /\ stream' = [stream EXCEPT ![p].ind = @ + 1,
                     ![p].read = IF d.disturbed THEN @ ELSE Append(@, lists[e][d.ind + 1])]
               /\ UNCHANGED call
               /\ UNCHANGED <<tree, cwd, archive, misplaced, raced, rebound, panic>>
      <3>1. d \in Streams0
        BY <1>1
      <3>2. e \in 1 .. Len(entries)
        <4>1. Len(d.path.parts) \in Nat
          BY <3>1 DEF Streams0, Path
        <4>2. e \in 0 .. Len(entries) /\ Len(entries) \in Nat
          BY <4>1, <1>1, PathType, LookupsAre, TreeIs
        <4> QED BY <4>2, <2>2 DEF NoEntry
      <3> DEFINE next == lists[e][d.ind + 1]
                 reads == IF d.disturbed THEN d.read ELSE Append(d.read, next)
                 d2 == [d EXCEPT !.ind = @ + 1, !.read = reads]
      <3>3. next \in Nat /\ d.ind + 1 \in Nat
        <4>1. lists[e] \in Seq(Nat) /\ Len(lists[e]) \in Nat /\ d.ind \in Nat
          BY <3>1, <3>2, <1>1, TreeIs DEF Streams0
        <4>2. d.ind + 1 \in 1 .. Len(lists[e])
          BY <4>1, <2>2
        <4> QED BY SMTT(60), <4>1, <4>2
      <3>4. reads \in Seq(Nat)
        <4>1. d.read \in Seq(Nat)
          BY <3>1 DEF Streams0
        <4> HIDE DEF next, d
        <4> QED BY <4>1, <3>3
      <3>5. stream' = [stream EXCEPT ![p] = d2]
        BY <2>2, <1>1, <3>1 DEF Streams0
      <3> HIDE DEF reads
      <3>6. d2 \in Streams0
        BY <3>1, <3>3, <3>4 DEF Streams0
      <3> HIDE DEF d2
      <3>7. stream' \in [Process -> Streams0]
        BY <3>5, <3>6, <1>1
      <3> QED BY <3>7, <2>2, <1>1, <1>2, KeepTypes
    <2>3. CASE /\ call' = [call EXCEPT ![p].at = "spin"]
               /\ UNCHANGED stream
               /\ UNCHANGED <<tree, cwd, archive, misplaced, raced, rebound, panic>>
      <3>1. call[p] \in Calls
        BY <1>1
      <3> DEFINE c == [call[p] EXCEPT !.at = "spin"]
      <3>2. c \in Calls /\ c.at = "spin"
        BY <3>1 DEF Calls, Ats
      <3>3. call' = [call EXCEPT ![p] = c]
        BY <2>3, <1>1
      <3> HIDE DEF c
      <3>4. CallOK(entries, c)
        BY <3>2 DEF CallOK
      <3>5. call' \in [Process -> Calls] /\ \A q \in Process : CallOK(entries, call'[q])
        BY <3>2, <3>3, <3>4, <1>1
      <3> QED BY <3>5, <2>3, <1>1, <1>2, KeepTypes
    <2> QED BY <2>1, <2>2, <2>3, <1>13 DEF Readdir
  <1>14. ASSUME NEW p \in Process, Closedir(p) PROVE TypeInv' /\ TreeStep
    <2>1. /\ stream' = [stream EXCEPT ![p] = Closed]
          /\ UNCHANGED <<tree, cwd, call, archive, misplaced, raced, rebound, panic>>
      BY <1>14 DEF Closedir
    <2>2. stream' \in [Process -> Streams0]
      BY <2>1, <1>1, CallTypes
    <2> QED BY <2>1, <2>2, <1>1, <1>2, KeepTypes
  <1> QED BY <1>5, <1>6, <1>7, <1>8, <1>9, <1>9a, <1>10, <1>11, <1>12, <1>13, <1>14, Steps

\* What the kernel makes is a tree.
LEMMA KernelIs ==
    /\ Len(Kernel) = 8
    /\ Kernel[1] = Node("directory", "/", 0)
    /\ Kernel[2] = Node("device", "stdin", 1) /\ Kernel[3] = Node("device", "stdout", 1)
    /\ Kernel[4] = Node("directory", "dev", 1)
    /\ Kernel[5] = Node("device", "mem", 4) /\ Kernel[6] = Node("device", "zero", 4)
    /\ Kernel[7] = Node("device", "tty", 4) /\ Kernel[8] = Node("device", "ptmx", 4)
    /\ \A e \in 2 .. 8 : e \in {2, 3, 4, 5, 6, 7, 8}
    /\ \A e \in 2 .. 8 : Kernel[e].name \in Name /\ Kernel[e].kind \in {"device", "directory"}
  <1>1. \A e \in 2 .. 8 : e \in {2, 3, 4, 5, 6, 7, 8}
    OBVIOUS
  <1>2. /\ Len(Kernel) = 8
        /\ Kernel[1] = Node("directory", "/", 0)
        /\ Kernel[2] = Node("device", "stdin", 1) /\ Kernel[3] = Node("device", "stdout", 1)
        /\ Kernel[4] = Node("directory", "dev", 1)
        /\ Kernel[5] = Node("device", "mem", 4) /\ Kernel[6] = Node("device", "zero", 4)
        /\ Kernel[7] = Node("device", "tty", 4) /\ Kernel[8] = Node("device", "ptmx", 4)
    BY DEF Kernel, Root, Dev, NoEntry
  <1>3. KernelNames \subseteq Name
    BY NamesAssumption
  <1>4. \A kind, name, parent : Node(kind, name, parent).name = name /\ Node(kind, name, parent).kind = kind
    BY DEF Node
  <1> QED BY <1>1, <1>2, <1>3, <1>4 DEF KernelNames

LEMMA TypeInit ==
    ASSUME Init
    PROVE  TypeInv
  <1> DEFINE names == {"/"} \cup KernelNames
  <1>1. /\ entries = Kernel /\ Len(entries) = 8
        /\ lists = << <<2, 3, 4>>, << >>, << >>, <<5, 6, 7, 8>>, << >>, << >>, << >>, << >> >>
    BY KernelIs DEF Init, Dev
  <1>2. names \subseteq Name \cup {"/"} /\ Empty \in Path
    BY NamesAssumption, CallTypes
  <1>3. ASSUME NEW kind \in {"device", "directory"}, NEW name \in names, NEW parent \in Nat
        PROVE  /\ Node(kind, name, parent) \in Entry
               /\ Node(kind, name, parent).kind = kind /\ Node(kind, name, parent).parent = parent
    BY <1>2 DEF Node, Entry, Kinds
  <1>4. entries \in Seq(Entry)
    BY <1>3 DEF Init, Kernel, KernelNames, Root, Dev, NoEntry
  <1>5. /\ entries[1].kind = "directory" /\ entries[1].parent = 0
        /\ entries[4].kind = "directory"
        /\ \A e \in 2 .. 8 :
              /\ e \in {2, 3, 4, 5, 6, 7, 8}
              /\ entries[e].kind = IF e = 4 THEN "directory" ELSE "device"
              /\ entries[e].parent = IF e <= 4 THEN 1 ELSE 4
              /\ entries[e].name \in Name
    BY <1>1, KernelIs DEF Node
  <1>6. NodesOK(entries)
    BY <1>1, <1>4, <1>5 DEF NodesOK
  <1>7. lists \in Seq(Seq(Nat)) /\ Len(lists) = 8
    BY <1>1
  <1>8. /\ lists[1] = <<2, 3, 4>> /\ lists[4] = <<5, 6, 7, 8>>
        /\ \A d \in 1 .. 8 : d # 1 /\ d # 4 => lists[d] = << >>
    <2>1. \A d \in 1 .. 8 : d \in {1, 2, 3, 4, 5, 6, 7, 8}
      OBVIOUS
    <2> QED BY <1>1, <2>1
  <1>9. ASSUME NEW d \in 1 .. 8, NEW i \in 1 .. Len(lists[d])
        PROVE  /\ entries[d].kind = "directory"
               /\ lists[d][i] \in 2 .. 8
               /\ entries[lists[d][i]].parent = d
    <2>1. CASE d = 1
      <3>1. i \in {1, 2, 3}
        BY <2>1, <1>8
      <3> QED BY <3>1, <2>1, <1>5, <1>8
    <2>2. CASE d = 4
      <3>1. i \in {1, 2, 3, 4}
        BY <2>2, <1>8
      <3> QED BY <3>1, <2>2, <1>5, <1>8
    <2>3. CASE d # 1 /\ d # 4
      <3>1. Len(lists[d]) = 0
        BY <2>3, <1>8
      <3>2. \A x \in 1 .. 0 : FALSE
        OBVIOUS
      <3> QED BY <3>1, <3>2
    <2> QED BY <2>1, <2>2, <2>3
  <1>10. ASSUME NEW e \in 2 .. 8, entries[e].kind = "directory"
         PROVE  \E i \in 1 .. Len(lists[entries[e].parent]) : lists[entries[e].parent][i] = e
    <2>1. e = 4 /\ entries[e].parent = 1
      BY <1>5, <1>10
    <2>2. 3 \in 1 .. Len(lists[1]) /\ lists[1][3] = 4
      BY <1>8
    <2> QED BY <2>1, <2>2
  <1>11. TreeOK(entries, lists)
    BY <1>1, <1>6, <1>7, <1>9, <1>10 DEF TreeOK, ListsOK
  <1>12. cwd \in [Process -> 1 .. Len(entries)]
    BY <1>1 DEF Init, Root
  <1>13. call \in [Process -> Calls] /\ \A p \in Process : CallOK(entries, call[p])
    BY CallTypes DEF Init
  <1>14. stream \in [Process -> Streams0]
    BY CallTypes DEF Init
  <1>15. archive \in [records : Archives, done : Nat]
    BY DEF Init
  <1> QED BY <1>11, <1>12, <1>13, <1>14, <1>15 DEF Init, TypeInv


LEMMA Typed == Spec => []TypeInv
  <1>1. Init => TypeInv
    BY TypeInit
  <1>2. TypeInv /\ [Next]_vars => TypeInv'
    BY TypeStep
  <1> QED BY <1>1, <1>2, PTL DEF Spec

LEMMA ReachableIs ==
    ASSUME TreeOK(entries, lists)
    PROVE  /\ Reachable \subseteq 2 .. Len(entries)
           /\ \A e \in Reachable :
                 \E d \in 1 .. Len(entries) : \E i \in 1 .. Len(lists[d]) : lists[d][i] = e
  <1>1. ASSUME NEW e \in Reachable
        PROVE  \E d \in 1 .. Len(entries) : \E i \in 1 .. Len(lists[d]) : lists[d][i] = e
    <2>1. PICK d \in DOMAIN lists : e \in {lists[d][i] : i \in DOMAIN lists[d]}
      BY DEF Reachable
    <2>2. d \in 1 .. Len(entries) /\ DOMAIN lists[d] = 1 .. Len(lists[d])
      BY TreeIs
    <2> QED BY <2>1, <2>2
  <1>2. \A d \in 1 .. Len(entries) : \A i \in 1 .. Len(lists[d]) : lists[d][i] \in 2 .. Len(entries)
    BY DEF TreeOK, ListsOK
  <1> QED BY <1>1, <1>2

-----------------------------------------------------------------------------
(* Lookups agree *)

\* open and unlink get, through the directory of a path, to the entry that stat
\* and mkdir get to with the whole path (posix.cpp and filesystem.cpp), whatever
\* the tree, the path and the working directory, in every state of the kernel.
THEOREM LookupsMeet == Spec => []LookupsAgree
  <1>1. ASSUME TypeInv PROVE LookupsAgree
    <2>1. TreeOK(entries, lists) /\ NodesOK(entries) /\ cwd \in [Process -> 1 .. Len(entries)]
      BY <1>1 DEF TypeInv, TreeOK
    <2> SUFFICES ASSUME NEW p \in Process,
                        NEW path \in {[from |-> from, parts |-> path.parts] : from \in From, path \in Paths}
                                     \cup {GetPath(e) : e \in Reachable},
                        ~Elsewhere(p, path)
                 PROVE  Target(p, path) = PathToEntry(path, cwd[p])
      BY DEF LookupsAgree
    <2>2. path \in Path /\ path.parts # << >>
      <3>1. CASE path \in {GetPath(e) : e \in Reachable}
        <4>1. PICK e \in Reachable : path = GetPath(e)
          BY <3>1
        <4>2. e \in 2 .. Len(entries)
          BY <2>1, ReachableIs
        <4> QED BY <4>1, <4>2, <2>1, GetPathIs, NamesAre
      <3>2. CASE path \in {[from |-> from, parts |-> q.parts] : from \in From, q \in Paths}
        <4>1. PICK from \in From, q \in Paths : path = [from |-> from, parts |-> q.parts]
          BY <3>2
        <4>2. q \in Path /\ q.parts # << >>
          BY PathsAssumption
        <4> QED BY <4>1, <4>2 DEF Path
      <3> QED BY <3>1, <3>2
    <2> QED BY <2>1, <2>2, Lookups
  <1> QED BY <1>1, Typed, PTL


-----------------------------------------------------------------------------
(* Directory streams *)

LEMMA OneRead ==
    ASSUME NEW S, NEW s \in Seq(S), NEW n \in Nat, n < Len(s)
    PROVE  Append(SubSeq(s, 1, n), s[n + 1]) = SubSeq(s, 1, n + 1)
  OBVIOUS

\* What a stream that nothing has disturbed knows of the tree: its path leads to
\* the directory, which still starts with the entries it had.
Listing(en, ls, dir, d) ==
    d.open /\ ~d.disturbed =>
        /\ d.dir \in DirectoriesOf(en)
        /\ PathIn(en, ls, d.path, dir) = d.dir
        /\ Len(d.list) <= Len(ls[d.dir])
        /\ \A i \in 1 .. Len(d.list) : ls[d.dir][i] = d.list[i]
        /\ d.count = Len(d.list) /\ d.ind <= d.count
        /\ d.read = SubSeq(d.list, 1, d.ind)

\* A program spins in readdir only at a name that is too long.
SpinsAt(en, d, c) ==
    d.open /\ ~d.disturbed /\ c.at = "spin" =>
        d.ind < d.count /\ en[d.list[d.ind + 1]].name \in Long

Spins == \A p \in Process : SpinsAt(entries, stream[p], call[p])

Listings ==
    /\ \A p \in Process : Listing(entries, lists, cwd[p], stream[p])
    /\ Spins
    /\ panic = NullStream => \E p \in Process : stream[p].disturbed

ListInv == ~rebound => Listings

LEMMA ListingKept ==
    ASSUME NEW en, NEW ls, NEW en2, NEW ls2, TreeOK(en, ls), TreeOK(en2, ls2),
           Keeps(en, ls, en2, ls2, DirectoriesOf(en)), NEW dir \in 1 .. Len(en),
           NEW d \in Streams0, Listing(en, ls, dir, d),
           d.open /\ ~d.disturbed =>
              /\ Len(ls[d.dir]) <= Len(ls2[d.dir])
              /\ \A i \in 1 .. Len(ls[d.dir]) : ls2[d.dir][i] = ls[d.dir][i]
    PROVE  Listing(en2, ls2, dir, d)
  <1> SUFFICES ASSUME d.open, ~d.disturbed
               PROVE  /\ d.dir \in DirectoriesOf(en2)
                      /\ PathIn(en2, ls2, d.path, dir) = d.dir
                      /\ Len(d.list) <= Len(ls2[d.dir])
                      /\ \A i \in 1 .. Len(d.list) : ls2[d.dir][i] = d.list[i]
                      /\ d.count = Len(d.list) /\ d.ind <= d.count
                      /\ d.read = SubSeq(d.list, 1, d.ind)
    BY DEF Listing
  <1>1. /\ d.dir \in DirectoriesOf(en)
        /\ PathIn(en, ls, d.path, dir) = d.dir
        /\ Len(d.list) <= Len(ls[d.dir])
        /\ \A i \in 1 .. Len(d.list) : ls[d.dir][i] = d.list[i]
        /\ d.count = Len(d.list) /\ d.ind <= d.count
        /\ d.read = SubSeq(d.list, 1, d.ind)
    BY DEF Listing
  <1>2. /\ Len(en) \in Nat /\ Len(en2) \in Nat /\ Len(en) <= Len(en2)
        /\ d.dir \in 1 .. Len(en) /\ d.dir \in 1 .. Len(en2)
        /\ Len(ls[d.dir]) \in Nat /\ Len(ls2[d.dir]) \in Nat
        /\ Len(d.list) \in Nat
    BY <1>1, TreeIs DEF Keeps, DirectoriesOf, Streams0
  <1>3. d.dir \in DirectoriesOf(en2)
    BY <1>1, <1>2 DEF Keeps, DirectoriesOf
  <1>4. PathIn(en2, ls2, d.path, dir) = d.dir
    <2>1. Len(d.path.parts) \in Nat
      BY DEF Streams0, Path
    <2>2. d.dir # 0
      BY <1>2
    <2> QED BY <2>1, <2>2, <1>1, PathKept
  <1>5. Len(d.list) <= Len(ls2[d.dir]) /\ \A i \in 1 .. Len(d.list) : ls2[d.dir][i] = d.list[i]
    <2>1. \A i \in 1 .. Len(d.list) : i \in 1 .. Len(ls[d.dir])
      BY <1>1, <1>2
    <2> QED BY <2>1, <1>1, <1>2
  <1> QED BY <1>1, <1>3, <1>4, <1>5

\* Of a process of which nothing changes but the tree.
LEMMA ListingLeft ==
    ASSUME TypeInv, TreeStep, NEW p \in Process, Listing(entries, lists, cwd[p], stream[p]),
           cwd'[p] = cwd[p], stream'[p] = stream[p],
           stream[p].open /\ ~stream[p].disturbed =>
              /\ Len(lists[stream[p].dir]) <= Len(lists'[stream[p].dir])
              /\ \A i \in 1 .. Len(lists[stream[p].dir]) :
                    lists'[stream[p].dir][i] = lists[stream[p].dir][i]
    PROVE  Listing(entries', lists', cwd'[p], stream'[p])
  <1>1. /\ TreeOK(entries, lists) /\ TreeOK(entries', lists')
        /\ Keeps(entries, lists, entries', lists', DirectoriesOf(entries))
        /\ cwd[p] \in 1 .. Len(entries) /\ stream[p] \in Streams0
    BY DEF TypeInv, TreeStep
  <1>2. Listing(entries', lists', cwd[p], stream[p])
    BY <1>1, ListingKept
  <1> QED BY <1>2

LEMMA ListingSame ==
    ASSUME TypeInv, UNCHANGED tree, NEW p \in Process, Listing(entries, lists, cwd[p], stream[p]),
           cwd'[p] = cwd[p], stream'[p] = stream[p]
    PROVE  Listing(entries', lists', cwd'[p], stream'[p])
  BY DEF tree

\* What is made in a directory comes after what it had.
LEMMA ListingMade ==
    ASSUME TypeInv, NEW p \in Process, Listing(entries, lists, cwd[p], stream[p]),
           NEW d, NEW name, NEW kind, NEW link, Makes(d, name, kind, link),
           cwd'[p] = cwd[p], stream'[p] = stream[p]
    PROVE  Listing(entries', lists', cwd'[p], stream'[p])
  <1>1. TreeOK(entries, lists)
    BY DEF TypeInv
  <1>2. TreeStep
    BY <1>1, Made
  <1>3. PICK node : d \in DirectoriesOf(entries) /\ Grown(entries, lists, d, node, entries', lists')
    BY DEF Makes
  <1>4. ASSUME stream[p].open, ~stream[p].disturbed
        PROVE  /\ Len(lists[stream[p].dir]) <= Len(lists'[stream[p].dir])
               /\ \A i \in 1 .. Len(lists[stream[p].dir]) :
                     lists'[stream[p].dir][i] = lists[stream[p].dir][i]
    <2> DEFINE e == stream[p].dir
    <2>1. e \in 1 .. Len(entries)
      BY <1>4 DEF Listing, DirectoriesOf
    <2>2. Len(lists[e]) \in Nat
      BY <2>1, <1>1, TreeIs
    <2> HIDE DEF e
    <2>3. Len(lists[e]) <= Len(lists'[e]) /\ \A i \in 1 .. Len(lists[e]) : lists'[e][i] = lists[e][i]
      <3>1. CASE e = d
        <4>1. /\ Len(lists'[d]) = Len(lists[d]) + 1
              /\ \A i \in 1 .. Len(lists[d]) : lists'[d][i] = lists[d][i]
          BY <1>3 DEF Grown
        <4> QED BY <4>1, <3>1, <2>2
      <3>2. CASE e # d
        <4>1. lists'[e] = lists[e]
          BY <2>1, <3>2, <1>3 DEF Grown
        <4> QED BY <4>1, <2>2
      <3> QED BY <3>1, <3>2
    <2> QED BY <2>3 DEF e
  <1> QED BY <1>2, <1>4, ListingLeft

\* To remove an entry disturbs the streams of the directory.
LEMMA ListingRemoved ==
    ASSUME TypeInv, NEW p \in Process, Listing(entries, lists, cwd[p], stream[p]),
           NEW d, NEW k, Removes(d, k), cwd'[p] = cwd[p],
           stream'[p] = IF stream[p].open /\ stream[p].dir = d THEN Disturbed(stream[p]) ELSE stream[p]
    PROVE  Listing(entries', lists', cwd'[p], stream'[p])
  <1>1. TreeOK(entries, lists) /\ stream[p] \in Streams0
    BY DEF TypeInv
  <1>2. TreeStep
    BY <1>1, Removed
  <1>3. CASE stream[p].open /\ stream[p].dir = d
    <2>1. stream'[p] = Disturbed(stream[p])
      BY <1>3
    <2> QED BY <2>1, <1>1, DisturbedIs DEF Listing
  <1>4. CASE ~(stream[p].open /\ stream[p].dir = d)
    <2>1. stream'[p] = stream[p]
      BY <1>4
    <2>2. ASSUME stream[p].open, ~stream[p].disturbed
          PROVE  /\ Len(lists[stream[p].dir]) <= Len(lists'[stream[p].dir])
                 /\ \A i \in 1 .. Len(lists[stream[p].dir]) :
                       lists'[stream[p].dir][i] = lists[stream[p].dir][i]
      <3>1. stream[p].dir \in 1 .. Len(entries) /\ stream[p].dir # d
        BY <2>2, <1>4 DEF Listing, DirectoriesOf
      <3>2. Len(lists) = Len(entries) /\ Len(lists[stream[p].dir]) \in Nat
        BY <3>1, <1>1, TreeIs
      <3>3. lists'[stream[p].dir] = lists[stream[p].dir]
        BY <3>1, <3>2 DEF Removes, Shrunk
      <3> QED BY <3>2, <3>3
    <2> QED BY <2>1, <2>2, <1>2, ListingLeft
  <1> QED BY <1>3, <1>4


\* The entry at which a program spins has its name for good.
LEMMA SpinKept ==
    ASSUME TypeInv, TreeStep, NEW p \in Process, Listing(entries, lists, cwd[p], stream[p]),
           SpinsAt(entries, stream[p], call[p]), stream'[p] = stream[p],
           call'[p].at # "spin" \/ call'[p] = call[p]
    PROVE  SpinsAt(entries', stream'[p], call'[p])
  <1> DEFINE d == stream[p]
             i == d.ind + 1
             e == d.list[i]
  <1>1. SUFFICES ASSUME d.open, ~d.disturbed, call[p].at = "spin", call'[p] = call[p]
                 PROVE  d.ind < d.count /\ entries'[e].name \in Long
    BY DEF SpinsAt
  <1>2. TreeOK(entries, lists) /\ d \in Streams0
    BY DEF TypeInv
  <1>3. d.ind < d.count /\ entries[e].name \in Long
    BY <1>1 DEF SpinsAt
  <1>4. /\ d.dir \in DirectoriesOf(entries) /\ d.count = Len(d.list)
        /\ Len(d.list) <= Len(lists[d.dir])
        /\ \A j \in 1 .. Len(d.list) : lists[d.dir][j] = d.list[j]
    BY <1>1 DEF Listing
  <1>5. d.ind \in Nat /\ Len(d.list) \in Nat
    BY <1>2 DEF Streams0
  <1>6. d.dir \in 1 .. Len(entries) /\ Len(lists[d.dir]) \in Nat /\ Len(entries) \in Nat
    BY <1>2, <1>4, TreeIs DEF DirectoriesOf
  <1> HIDE DEF d
  <1>7. i \in 1 .. Len(d.list) /\ i \in 1 .. Len(lists[d.dir])
    BY <1>3, <1>4, <1>5, <1>6
  <1>8. lists[d.dir][i] \in 2 .. Len(entries) /\ lists[d.dir][i] = e
    <2>1. \A x \in 1 .. Len(entries) : \A j \in 1 .. Len(lists[x]) :
             lists[x][j] \in 2 .. Len(entries)
      BY <1>2, ListsAre
    <2> HIDE DEF i
    <2> QED BY <2>1, <1>4, <1>6, <1>7
  <1> HIDE DEF e
  <1>9. e \in 1 .. Len(entries)
    BY <1>6, <1>8
  <1>10. entries'[e] = entries[e]
    BY <1>9 DEF TreeStep, Keeps
  <1> QED BY <1>3, <1>10 DEF d

LEMMA ListInit ==
    ASSUME Init
    PROVE  ListInv
  <1>1. \A p \in Process : stream[p] = Closed
    BY DEF Init
  <1>2. Closed.open = FALSE
    BY DEF Closed
  <1>3. panic # NullStream
    BY DEF Init, NoPanic, NullStream
  <1> QED BY <1>1, <1>2, <1>3 DEF ListInv, Listings, Listing, Spins, SpinsAt

LEMMA ListStep ==
    ASSUME TypeInv, Listings, [Next]_vars, ~rebound'
    PROVE  Listings'
  <1>1. /\ TreeOK(entries, lists) /\ cwd \in [Process -> 1 .. Len(entries)]
        /\ call \in [Process -> Calls] /\ stream \in [Process -> Streams0]
    BY DEF TypeInv
  <1>2. /\ \A q \in Process : Listing(entries, lists, cwd[q], stream[q])
        /\ Spins /\ (panic = NullStream => \E q \in Process : stream[q].disturbed)
    BY DEF Listings
  <1>3. Running => panic # NullStream
    BY DEF Running, NoPanic, NullStream
  <1>3a. TreeStep
    BY TypeStep
  <1>3b. ASSUME NEW q \in Process, stream'[q] = stream[q],
                call'[q].at # "spin" \/ call'[q] = call[q]
         PROVE  SpinsAt(entries', stream'[q], call'[q])
    BY <1>2, <1>3a, <1>3b, SpinKept DEF Spins
  <1>3c. ASSUME stream' = stream, \A q \in Process : call'[q].at # "spin" \/ call'[q] = call[q]
         PROVE  Spins'
    BY <1>3b, <1>3c DEF Spins
  <1>3d. ASSUME NEW p \in Process, \A q \in Process : q = p \/ stream'[q] = stream[q],
                call' = call, ~stream'[p].open \/ stream'[p].disturbed \/ call[p].at # "spin"
         PROVE  Spins'
    <2>1. ASSUME NEW q \in Process PROVE SpinsAt(entries', stream'[q], call'[q])
      <3>1. CASE q = p
        BY <3>1, <1>3d DEF SpinsAt
      <3>2. CASE stream'[q] = stream[q]
        BY <3>2, <1>3b, <1>3d
      <3> QED BY <3>1, <3>2, <1>3d
    <2> QED BY <2>1 DEF Spins
  <1>4. CASE UNCHANGED vars
    BY <1>4 DEF Listings, Spins, SpinsAt, vars, tree
  <1>5. ASSUME \E m : m # NullStream /\ Stop(m) PROVE Listings'
    <2>1. UNCHANGED <<entries, lists, cwd, stream, call>> /\ panic' # NullStream
      BY <1>5 DEF Stop, tree
    <2> QED BY <2>1 DEF Listings, Spins
  <1>6. CASE Extract
    <2>1. CASE \E m : m # NullStream /\ Stop(m)
      BY <2>1, <1>5
    <2> DEFINE record == archive.records[archive.done + 1]
    <2>2. CASE /\ \/ Makes(DirOf(record), Last(record.parts), record.kind, record.link)
                  \/ UNCHANGED tree
               /\ UNCHANGED <<cwd, stream, call, misplaced, raced, rebound, panic>>
      <3>1. \A q \in Process : Listing(entries', lists', cwd'[q], stream'[q])
        BY <2>2, <1>2, ListingMade, ListingSame
      <3>2. Spins'
        BY <2>2, <1>3c
      <3> QED BY <3>1, <3>2, <2>2, <1>2 DEF Listings
    <2> HIDE DEF record
    <2> QED BY <2>1, <2>2, <1>6, ExtractIs DEF record
  <1>7. CASE Load
    <2>1. UNCHANGED <<entries, lists, cwd, stream, call, panic>>
      BY <1>7 DEF Load, tree
    <2> QED BY <2>1 DEF Listings, Spins
  <1>8. ASSUME NEW p \in Process, Moves(p) PROVE Listings'
    <2>1. CASE \E c \in Calls : c.at # "spin" /\ Waits(p, c)
      <3>1. PICK c \in Calls : c.at # "spin" /\ Waits(p, c)
        BY <2>1
      <3>2. UNCHANGED <<entries, lists, cwd, stream, panic>> /\ call' = [call EXCEPT ![p] = c]
        BY <3>1 DEF Waits, tree
      <3>3. \A q \in Process : call'[q].at # "spin" \/ call'[q] = call[q]
        BY <3>1, <3>2, <1>1
      <3>4. Spins'
        BY <3>2, <3>3, <1>3c
      <3> QED BY <3>2, <3>4 DEF Listings
    <2> QED BY <2>1, <1>5, <1>8 DEF Moves
  <1>9. ASSUME NEW p \in Process, call' = [call EXCEPT ![p] = Idle]
        PROVE  \A q \in Process : call'[q].at # "spin" \/ call'[q] = call[q]
    <2>1. Idle.at # "spin"
      BY DEF Idle
    <2> QED BY <2>1, <1>1, <1>9
  <1>10. ASSUME NEW p \in Process, Create(p) PROVE Listings'
    <2>1. /\ Makes(call[p].dir, call[p].name, call[p].kind, call[p].link)
          /\ call' = [call EXCEPT ![p] = Idle]
          /\ UNCHANGED <<cwd, stream, archive, panic>>
      BY <1>10, CreateMakes
    <2>2. \A q \in Process : Listing(entries', lists', cwd'[q], stream'[q])
      BY <2>1, <1>2, ListingMade
    <2>3. \A q \in Process : call'[q].at # "spin" \/ call'[q] = call[q]
      BY <2>1, <1>9
    <2>4. Spins'
      BY <2>1, <2>3, <1>3c
    <2> QED BY <2>1, <2>2, <2>4, <1>2 DEF Listings
  <1>10a. ASSUME NEW p \in Process, NEW q \in Process, Meet(p, q) PROVE Listings'
    BY <1>10a, MeetIs DEF Listings, Spins, SpinsAt, Listing
  <1>11. ASSUME NEW p \in Process, RemoveFile(p) PROVE Listings'
    <2>1. CASE Stop(DeleteFailed)
      <3>1. DeleteFailed # NullStream
        BY DEF DeleteFailed, NullStream
      <3> QED BY <2>1, <3>1, <1>5
    <2>2. CASE /\ \E k : Removes(call[p].dir, k)
               /\ stream' = [q \in Process |->
                     IF stream[q].open /\ stream[q].dir = call[p].dir
                     THEN Disturbed(stream[q]) ELSE stream[q]]
               /\ call' = [call EXCEPT ![p] = Idle]
               /\ UNCHANGED <<entries, cwd, archive, misplaced, raced, rebound, panic>>
      <3>1. PICK k : Removes(call[p].dir, k)
        BY <2>2
      <3>2. \A q \in Process : Listing(entries', lists', cwd'[q], stream'[q])
        BY <3>1, <2>2, <1>2, ListingRemoved
      <3>3. \A q \in Process : call'[q].at # "spin" \/ call'[q] = call[q]
        BY <2>2, <1>9
      <3>4. \A q \in Process : Disturbed(stream[q]).disturbed
        BY <1>1, DisturbedIs
      <3>5. \A q \in Process : ~stream'[q].disturbed => stream'[q] = stream[q]
        BY <2>2, <3>4
      <3>6. Spins'
        <4>1. ASSUME NEW q \in Process PROVE SpinsAt(entries', stream'[q], call'[q])
          <5>1. CASE stream'[q].disturbed
            BY <5>1 DEF SpinsAt
          <5>2. CASE stream'[q] = stream[q]
            BY <5>2, <3>3, <1>3b
          <5> QED BY <5>1, <5>2, <3>5, DisturbedIs, <2>2, <1>1
        <4> QED BY <4>1 DEF Spins
      <3>7. panic' # NullStream
        BY <2>2, <1>3, <1>11 DEF RemoveFile, At
      <3> QED BY <3>2, <3>6, <3>7 DEF Listings
    <2> QED BY <2>1, <2>2, <1>11, RemoveFileIs
  <1>12. ASSUME NEW p \in Process, NEW path \in Places, Chdir(p, path)
         PROVE  Listings'
    <2>1. CASE Stop(UnknownPattern)
      <3>1. UnknownPattern # NullStream
        BY DEF UnknownPattern, NullStream
      <3> QED BY <2>1, <3>1, <1>5
    <2>2. CASE /\ cwd' = [cwd EXCEPT ![p] = PathToEntry(path, cwd[p])]
               /\ stream' = [stream EXCEPT ![p] =
                     IF @.open /\ @.path.from # "root" THEN Disturbed(@) ELSE @]
               /\ UNCHANGED <<tree, call, archive, misplaced, raced, rebound, panic>>
      <3>1. ASSUME NEW q \in Process PROVE Listing(entries', lists', cwd'[q], stream'[q])
        <4>1. CASE q # p
          <5>1. cwd'[q] = cwd[q] /\ stream'[q] = stream[q] /\ UNCHANGED tree
            BY <2>2, <4>1, <1>1
          <5> QED BY <5>1, <1>2, ListingSame
        <4>2. CASE q = p /\ stream[p].open /\ stream[p].path.from # "root"
          <5>1. stream'[p] = Disturbed(stream[p])
            BY <2>2, <4>2, <1>1
          <5> QED BY <5>1, <4>2, <1>1, DisturbedIs DEF Listing
        <4>3. CASE q = p /\ ~(stream[p].open /\ stream[p].path.from # "root")
          <5> DEFINE d == stream[p]
                     to == PathToEntry(path, cwd[p])
          <5>1. stream'[p] = d /\ cwd'[p] = to /\ entries' = entries /\ lists' = lists
            BY <2>2, <4>3, <1>1 DEF tree
          <5>2. to \in 1 .. Len(entries)
            <6>1. TypeInv'
              BY TypeStep
            <6>2. cwd'[p] \in 1 .. Len(entries)
              BY <6>1, <5>1 DEF TypeInv
            <6> QED BY <6>2, <5>1
          <5>3. ASSUME d.open
                PROVE  PathIn(entries, lists, d.path, to) = PathIn(entries, lists, d.path, cwd[p])
            <6>1. d.path \in Path /\ d.path.from = "root" /\ Len(d.path.parts) \in Nat
              BY <5>3, <4>3, <1>1 DEF Streams0, Path
            <6>2. \A x : StartIn(entries, d.path.from, x) = Root
              BY <6>1 DEF StartIn
            <6> HIDE DEF d, to
            <6>3. PICK w : /\ Walks(w, entries, lists, d.path, to)
                           /\ PathIn(entries, lists, d.path, to) = w[Len(d.path.parts)]
              BY <6>1, <5>2, <1>1, PathWalks
            <6>4. PICK v : /\ Walks(v, entries, lists, d.path, cwd[p])
                           /\ PathIn(entries, lists, d.path, cwd[p]) = v[Len(d.path.parts)]
              <7>1. cwd[p] \in 1 .. Len(entries)
                BY <1>1
              <7> QED BY SMTT(60), <7>1, <6>1, <1>1, PathWalks
            <6> DEFINE n == Len(d.path.parts)
            <6>5. w[0] = v[0]
              BY <6>2, <6>3, <6>4 DEF Walks
            <6>6. n <= n /\ n \in Nat /\ \A i \in 1 .. n : d.path.parts[i] = d.path.parts[i]
              BY <6>1
            <6> HIDE DEF n
            <6>7. \A i \in 0 .. n : w[i] = v[i]
              BY <6>3, <6>4, <6>5, <6>6, SameWay DEF n
            <6>8. n \in 0 .. n
              BY <6>6
            <6> QED BY <6>3, <6>4, <6>7, <6>8 DEF n
          <5>4. Listing(entries, lists, cwd[p], d)
            BY <1>2
          <5> HIDE DEF d, to
          <5>5. Listing(entries, lists, to, d)
            BY <5>3, <5>4 DEF Listing
          <5> QED BY <5>1, <5>5, <4>3
        <4> QED BY <4>1, <4>2, <4>3
      <3>2. Disturbed(stream[p]).disturbed
        BY <1>1, DisturbedIs
      <3>3. \A q \in Process : ~stream'[q].disturbed => stream'[q] = stream[q]
        BY <2>2, <3>2, <1>1
      <3>4. Spins'
        <4>1. call[p].at # "spin" /\ call' = call
          BY <2>2, <1>12 DEF Chdir, User, At
        <4>2. \A q \in Process : q = p \/ stream'[q] = stream[q]
          BY <2>2, <1>1
        <4> QED BY <4>1, <4>2, <1>3d
      <3>5. panic' # NullStream
        BY <2>2, <1>3, <1>12 DEF Chdir, User, At
      <3> QED BY <3>1, <3>4, <3>5 DEF Listings
    <2> QED BY <2>1, <2>2, <1>12 DEF Chdir
  <1>13. ASSUME NEW p \in Process, NEW path \in Places, Opendir(p, path)
         PROVE  Listings'
    <2> DEFINE e == PathToEntry(path, cwd[p])
               d == [Closed EXCEPT !.open = TRUE, !.path = path, !.count = Len(lists[e]),
                                   !.dir = e, !.list = lists[e]]
    <2>1. CASE Stop(UnknownPattern)
      <3>1. UnknownPattern # NullStream
        BY DEF UnknownPattern, NullStream
      <3> QED BY <2>1, <3>1, <1>5
    <2>2. CASE /\ e # NoEntry /\ IsDirectory(e)
               /\ stream' = [stream EXCEPT ![p] = d]
               /\ UNCHANGED <<tree, cwd, call, archive, misplaced, raced, rebound, panic>>
      <3>1. e \in DirectoriesOf(entries)
        <4>1. Len(path.parts) \in Nat
          BY PathsAssumption DEF Path
        <4>2. e \in 0 .. Len(entries) /\ Len(entries) \in Nat
          BY <4>1, <1>1, PathType, LookupsAre, TreeIs
        <4> QED BY <4>2, <2>2 DEF NoEntry, IsDirectory, DirectoriesOf
      <3>2. lists[e] \in Seq(Nat) /\ Len(lists[e]) \in Nat
        BY <3>1, <1>1, TreeIs DEF DirectoriesOf
      <3>3. e = PathIn(entries, lists, path, cwd[p])
        BY LookupsAre
      <3> DEFINE l == lists[e]
                 d2 == [Closed EXCEPT !.open = TRUE, !.path = path, !.count = Len(l),
                                      !.dir = e, !.list = l]
      <3>4. d = d2
        OBVIOUS
      <3>5. /\ d2.dir = e /\ d2.path = path /\ d2.list = l /\ d2.count = Len(l)
            /\ d2.ind = 0 /\ d2.read = << >>
        BY DEF Closed
      <3>6. << >> = SubSeq(l, 1, 0) /\ 0 <= Len(l)
        BY <3>2
      <3> HIDE DEF d2
      <3>7. Listing(entries, lists, cwd[p], d2)
        BY <3>1, <3>2, <3>3, <3>5, <3>6 DEF Listing
      <3>8. ASSUME NEW q \in Process PROVE Listing(entries', lists', cwd'[q], stream'[q])
        <4>1. CASE q # p
          <5>1. cwd'[q] = cwd[q] /\ stream'[q] = stream[q] /\ UNCHANGED tree
            BY <2>2, <4>1, <1>1
          <5> QED BY <5>1, <1>2, ListingSame
        <4>2. CASE q = p
          <5>1. cwd' = cwd /\ stream'[q] = d2 /\ entries' = entries /\ lists' = lists
            BY <2>2, <3>4, <4>2, <1>1 DEF tree
          <5> QED BY <5>1, <4>2, <3>7
        <4> QED BY <4>1, <4>2
      <3>9. call[p].at = "user" /\ panic' # NullStream
        BY <2>2, <1>3, <1>13 DEF Opendir, User, At
      <3>10. \A q \in Process : q = p \/ stream'[q] = stream[q]
        BY <2>2, <1>1
      <3>11. Spins'
        BY <2>2, <3>9, <3>10, <1>3d
      <3> QED BY <3>8, <3>9, <3>11 DEF Listings
    <2> QED BY <2>1, <2>2, <1>13 DEF Opendir
  <1>14. ASSUME NEW p \in Process, Readdir(p) PROVE Listings'
    <2> DEFINE d == stream[p]
               e == PathToEntry(d.path, cwd[p])
    <2>1. /\ d \in Streams0 /\ d.open /\ d.ind # d.count /\ Running /\ call[p].at = "user"
          /\ e = PathIn(entries, lists, d.path, cwd[p])
      BY <1>1, <1>14, LookupsAre DEF Readdir, User, At
    <2>2. ASSUME ~d.disturbed
          PROVE  /\ e \in DirectoriesOf(entries) /\ e = d.dir
                 /\ d.ind < Len(d.list) /\ d.ind < Len(lists[e])
                 /\ lists[e][d.ind + 1] = d.list[d.ind + 1]
                 /\ d.list \in Seq(Nat) /\ d.ind \in Nat
      <3>1. Listing(entries, lists, cwd[p], d)
        BY <1>2
      <3>2. /\ e \in DirectoriesOf(entries) /\ e = d.dir /\ Len(d.list) <= Len(lists[d.dir])
            /\ \A i \in 1 .. Len(d.list) : lists[d.dir][i] = d.list[i]
            /\ d.count = Len(d.list) /\ d.ind <= d.count
        BY <2>1, <2>2, <3>1 DEF Listing
      <3>3. d.list \in Seq(Nat) /\ d.ind \in Nat /\ Len(d.list) \in Nat
        BY <2>1 DEF Streams0
      <3>4. Len(lists[e]) \in Nat
        BY <3>2, <1>1, TreeIs DEF DirectoriesOf
      <3> HIDE DEF d, e
      <3>5. d.ind < Len(d.list) /\ d.ind < Len(lists[e]) /\ d.ind + 1 \in 1 .. Len(d.list)
        BY <2>1, <3>2, <3>3, <3>4
      <3> QED BY <3>2, <3>3, <3>5
    <2>3. CASE e = NoEntry /\ Stop(NullStream)
      <3>1. d.disturbed
        <4>1. SUFFICES ASSUME ~d.disturbed PROVE FALSE
          BY <2>1 DEF Streams0
        <4>2. e \in 1 .. Len(entries)
          BY <2>2, <4>1 DEF DirectoriesOf
        <4> QED BY <4>2, <2>3 DEF NoEntry
      <3>2. UNCHANGED <<entries, lists, cwd, stream, call>>
        BY <2>3 DEF Stop, tree
      <3> QED BY <3>1, <3>2, <1>2 DEF Listings, Spins
    <2>4. CASE /\ d.ind < Len(lists[e])
               /\ stream' = [stream EXCEPT ![p].ind = @ + 1,
                     ![p].read = IF d.disturbed THEN @ ELSE Append(@, lists[e][d.ind + 1])]
               /\ UNCHANGED call
               /\ UNCHANGED <<tree, cwd, archive, misplaced, raced, rebound, panic>>
      <3> DEFINE n == d.ind + 1
                 reads == IF d.disturbed THEN d.read ELSE Append(d.read, lists[e][n])
                 d2 == [d EXCEPT !.ind = n, !.read = reads]
      <3>1. stream' = [stream EXCEPT ![p] = d2]
        BY <2>1, <2>4, <1>1 DEF Streams0
      <3>2. Listing(entries, lists, cwd[p], d)
        BY <1>2
      <3>3. ~d.disturbed => reads = SubSeq(d.list, 1, n) /\ n <= Len(d.list)
        <4>1. SUFFICES ASSUME ~d.disturbed PROVE reads = SubSeq(d.list, 1, n) /\ n <= Len(d.list)
          OBVIOUS
        <4>2. d.read = SubSeq(d.list, 1, d.ind)
          BY <2>1, <3>2, <4>1 DEF Listing
        <4>3. /\ lists[e][n] = d.list[n] /\ d.ind < Len(d.list)
              /\ d.list \in Seq(Nat) /\ d.ind \in Nat
          BY <2>2, <4>1
        <4>4. Append(SubSeq(d.list, 1, d.ind), d.list[d.ind + 1]) = SubSeq(d.list, 1, d.ind + 1)
          BY <4>3, OneRead
        <4>5. n <= Len(d.list)
          BY <4>3
        <4> QED BY <4>1, <4>2, <4>3, <4>4, <4>5
      <3> HIDE DEF n, reads
      <3>4. /\ d2.open = d.open /\ d2.disturbed = d.disturbed /\ d2.dir = d.dir
            /\ d2.path = d.path /\ d2.list = d.list /\ d2.count = d.count
            /\ d2.ind = n /\ d2.read = reads
        BY <2>1 DEF Streams0
      <3> HIDE DEF d2, d
      <3>5. Listing(entries, lists, cwd[p], d2)
        BY <3>2, <3>3, <3>4 DEF Listing
      <3>6. ASSUME NEW q \in Process PROVE Listing(entries', lists', cwd'[q], stream'[q])
        <4>1. CASE q # p
          <5>1. cwd'[q] = cwd[q] /\ stream'[q] = stream[q] /\ UNCHANGED tree
            BY <2>4, <3>1, <4>1, <1>1
          <5> QED BY <5>1, <1>2, ListingSame
        <4>2. CASE q = p
          <5>1. cwd' = cwd /\ stream'[q] = d2 /\ entries' = entries /\ lists' = lists
            BY <2>4, <3>1, <4>2, <1>1 DEF tree
          <5> QED BY <5>1, <4>2, <3>5
        <4> QED BY <4>1, <4>2
      <3>7. \A q \in Process : q = p \/ stream'[q] = stream[q]
        BY <3>1, <1>1
      <3>8. Spins'
        BY <2>1, <2>4, <3>7, <1>3d
      <3>9. panic' # NullStream
        BY <2>1, <2>4, <1>3
      <3> QED BY <3>6, <3>8, <3>9 DEF Listings
    <2>5. CASE /\ e # NoEntry /\ ~(d.ind < Len(lists[e]) /\ NameFits(lists[e][d.ind + 1]))
               /\ call' = [call EXCEPT ![p].at = "spin"]
               /\ UNCHANGED stream
               /\ UNCHANGED <<tree, cwd, archive, misplaced, raced, rebound, panic>>
      <3>1. ~d.disturbed => d.ind < d.count /\ entries[d.list[d.ind + 1]].name \in Long
        <4>1. SUFFICES ASSUME ~d.disturbed
                       PROVE  d.ind < d.count /\ entries[d.list[d.ind + 1]].name \in Long
          OBVIOUS
        <4>2. Listing(entries, lists, cwd[p], d)
          BY <1>2
        <4>3. d.count = Len(d.list)
          BY <2>1, <4>1, <4>2 DEF Listing
        <4> HIDE DEF d, e
        <4> QED BY <2>2, <2>5, <4>1, <4>3 DEF NameFits
      <3>2. UNCHANGED <<entries, lists, cwd, stream>> /\ panic' # NullStream
        BY <2>1, <2>5, <1>3 DEF tree
      <3>3. \A q \in Process : q = p \/ call'[q] = call[q]
        BY <2>5, <1>1
      <3>4. Spins'
        <4>1. ASSUME NEW q \in Process PROVE SpinsAt(entries', stream'[q], call'[q])
          <5>1. CASE q = p
            BY <5>1, <3>1, <3>2 DEF SpinsAt
          <5>2. CASE q # p
            BY <5>2, <3>2, <3>3, <1>3b
          <5> QED BY <5>1, <5>2
        <4> QED BY <4>1 DEF Spins
      <3>5. \A q \in Process : Listing(entries', lists', cwd'[q], stream'[q])
        BY <3>2, <1>2
      <3> QED BY <3>2, <3>4, <3>5 DEF Listings
    <2> QED BY <2>3, <2>4, <2>5, <1>14 DEF Readdir
  <1>15. ASSUME NEW p \in Process, Closedir(p) PROVE Listings'
    <2>1. /\ stream' = [stream EXCEPT ![p] = Closed] /\ Running
          /\ UNCHANGED <<tree, cwd, call, archive, misplaced, raced, rebound, panic>>
      BY <1>15 DEF Closedir, User, At
    <2>2. stream'[p] = Closed /\ ~Closed.open
      BY <2>1, <1>1 DEF Closed
    <2>3. \A q \in Process : q = p \/ stream'[q] = stream[q]
      BY <2>1, <1>1
    <2>4. \A q \in Process : Listing(entries', lists', cwd'[q], stream'[q])
      BY <2>1, <2>2, <2>3, <1>2 DEF Listing, tree
    <2>5. Spins'
      BY <2>1, <2>2, <2>3, <1>3d
    <2>6. panic' # NullStream
      BY <2>1, <1>3
    <2> QED BY <2>4, <2>5, <2>6 DEF Listings
  <1> QED BY <1>4, <1>6, <1>7, <1>8, <1>10, <1>10a, <1>11, <1>12, <1>13, <1>14, <1>15, Steps

\* A stream that no unlink in its directory and no chdir of its program has
\* disturbed gives every entry the directory had at opendir, once and in order;
\* readdir does not stop the kernel, and spins only at a name that does not fit its
\* buffer (libsys/syscalls.cpp, posix.cpp and filesystem.cpp), however many processes
\* make entries and change directories meanwhile, until a socket is bound again.
THEOREM ListingsComplete == Spec => []ListingComplete
  <1>1. Init => TypeInv /\ ListInv
    BY TypeInit, ListInit
  <1>2. ASSUME TypeInv, ListInv, [Next]_vars PROVE TypeInv' /\ ListInv'
    <2>1. TypeInv'
      BY <1>2, TypeStep
    <2>2. CASE rebound
      BY <2>1, <2>2, <1>2, ReboundStays DEF ListInv, vars
    <2>3. CASE ~rebound
      <3>1. ~rebound' => Listings'
        BY <2>3, <1>2, ListStep DEF ListInv
      <3> QED BY <2>1, <3>1 DEF ListInv
    <2> QED BY <2>2, <2>3
  <1>3. TypeInv /\ ListInv => ListingComplete
    BY DEF ListInv, Listings, Spins, SpinsAt, Listing, ListingComplete, NameFits
  <1> QED BY <1>1, <1>2, <1>3, PTL DEF Spec


-----------------------------------------------------------------------------
(* Names that stand for one entry *)

Unique(en, ls) ==
    \A d \in 1 .. Len(en) : \A i, j \in 1 .. Len(ls[d]) :
        en[ls[d][i]].name = en[ls[d][j]].name => i = j

LEMMA UniqueMade ==
    ASSUME NEW en, NEW ls, TreeOK(en, ls), Unique(en, ls), NEW d \in 1 .. Len(en), NEW node,
           NEW en2, NEW ls2, Grown(en, ls, d, node, en2, ls2),
           NoneNamed(en, ls[d], node.name)
    PROVE  Unique(en2, ls2)
  <1> DEFINE n == Len(en)
             l == Len(ls[d])
  <1>1. /\ n \in Nat /\ l \in Nat /\ \A x \in 1 .. n : Len(ls[x]) \in Nat
    BY TreeIs
  <1>2. \A x \in 1 .. n : \A i \in 1 .. Len(ls[x]) : ls[x][i] \in 1 .. n
    <2>1. \A x \in 1 .. n : \A i \in 1 .. Len(ls[x]) : ls[x][i] \in 2 .. n
      BY DEF TreeOK, ListsOK
    <2>2. \A x \in 2 .. n : x \in 1 .. n
      BY <1>1
    <2> QED BY <2>1, <2>2
  <1>3. /\ Len(en2) = n + 1 /\ \A e \in 1 .. n : en2[e] = en[e]
        /\ en2[n + 1] = node
        /\ \A e \in 1 .. n : e # d => ls2[e] = ls[e]
        /\ Len(ls2[n + 1]) = 0 /\ Len(ls2[d]) = l + 1
        /\ \A i \in 1 .. l : ls2[d][i] = ls[d][i]
        /\ ls2[d][l + 1] = n + 1
    BY DEF Grown
  <1> HIDE DEF n, l
  <1>4. ASSUME NEW x \in 1 .. n, NEW i \in 1 .. Len(ls[x])
        PROVE  en2[ls[x][i]].name = en[ls[x][i]].name
    BY <1>2, <1>3
  <1>5. ASSUME NEW i \in 1 .. l + 1, NEW j \in 1 .. l + 1,
               en2[ls2[d][i]].name = en2[ls2[d][j]].name
        PROVE  i = j
    <2>1. (i \in 1 .. l \/ i = l + 1) /\ (j \in 1 .. l \/ j = l + 1)
      BY <1>1
    <2>2. \A k \in 1 .. l : en2[ls2[d][k]].name = en[ls[d][k]].name /\ en[ls[d][k]].name # node.name
      <3>1. ASSUME NEW k \in 1 .. l
            PROVE  en2[ls2[d][k]].name = en[ls[d][k]].name /\ en[ls[d][k]].name # node.name
        <4>1. k \in 1 .. Len(ls[d]) /\ d \in 1 .. n
          BY DEF l, n
        <4>2. ls2[d][k] = ls[d][k]
          BY <1>3
        <4> QED BY <4>1, <4>2, <1>4 DEF NoneNamed
      <3> QED BY <3>1
    <2>3. en2[ls2[d][l + 1]].name = node.name
      BY <1>3
    <2>4. CASE i \in 1 .. l /\ j \in 1 .. l
      BY <2>2, <2>4, <1>5 DEF Unique, l
    <2>5. CASE i = l + 1 /\ j = l + 1
      BY <2>5
    <2>6. CASE i \in 1 .. l /\ j = l + 1
      BY <2>2, <2>3, <2>6, <1>5
    <2>7. CASE i = l + 1 /\ j \in 1 .. l
      BY <2>2, <2>3, <2>7, <1>5
    <2> QED BY <2>1, <2>4, <2>5, <2>6, <2>7
  <1>6. ASSUME NEW x \in 1 .. n + 1, NEW i \in 1 .. Len(ls2[x]), NEW j \in 1 .. Len(ls2[x]),
               en2[ls2[x][i]].name = en2[ls2[x][j]].name
        PROVE  i = j
    <2>1. x \in 1 .. n \/ x = n + 1
      BY <1>1
    <2>2. CASE x = n + 1
      <3>1. \A k \in 1 .. 0 : FALSE
        OBVIOUS
      <3> QED BY <3>1, <2>2, <1>3
    <2>3. CASE x \in 1 .. n /\ x # d
      <3>1. ls2[x] = ls[x]
        BY <2>3, <1>3
      <3> QED BY <3>1, <2>3, <1>4, <1>6 DEF Unique, n
    <2>4. CASE x = d
      BY <2>4, <1>3, <1>5, <1>6
    <2> QED BY <2>1, <2>2, <2>3, <2>4
  <1> QED BY <1>3, <1>6 DEF Unique

LEMMA UniqueRemoved ==
    ASSUME NEW en, NEW ls, TreeOK(en, ls), Unique(en, ls), NEW d \in 1 .. Len(en),
           NEW k, NEW ls2, Shrunk(ls, d, k, ls2)
    PROVE  Unique(en, ls2)
  <1>1. /\ Len(ls) = Len(en) /\ \A e \in 1 .. Len(en) : e # d => ls2[e] = ls[e]
        /\ Inserted(ls2[d], ls[d], k) /\ k \in 1 .. Len(ls[d]) /\ Len(ls[d]) \in Nat
    BY TreeIs DEF Shrunk
  <1> DEFINE s == ls2[d]
             t == ls[d]
  <1>2. \A i \in 1 .. Len(s) : Up(i, k) \in 1 .. Len(t) /\ t[Up(i, k)] = s[i]
    <2>1. Inserted(s, t, k)
      BY <1>1
    <2> HIDE DEF s, t
    <2> QED BY ONLY <2>1, InsertedPlaces
  <1>3. \A i, j \in 1 .. Len(s) : Up(i, k) = Up(j, k) => i = j
    <2>1. Len(s) \in Nat /\ k \in Nat
      BY <1>1 DEF Inserted
    <2> HIDE DEF s, t
    <2> QED BY <2>1 DEF Up
  <1>4. \A i, j \in 1 .. Len(t) : en[t[i]].name = en[t[j]].name => i = j
    BY DEF Unique
  <1> HIDE DEF s, t
  <1>5. \A i, j \in 1 .. Len(s) : en[s[i]].name = en[s[j]].name => i = j
    BY SMTT(60), <1>2, <1>3, <1>4
  <1>6. ASSUME NEW x \in 1 .. Len(en), NEW i \in 1 .. Len(ls2[x]), NEW j \in 1 .. Len(ls2[x]),
               en[ls2[x][i]].name = en[ls2[x][j]].name
        PROVE  i = j
    <2>1. CASE x = d
      BY <2>1, <1>5, <1>6 DEF s
    <2>2. CASE x # d
      <3>1. ls2[x] = ls[x]
        BY <2>2, <1>1
      <3> QED BY <3>1, <1>6 DEF Unique
    <2> QED BY <2>1, <2>2
  <1> QED BY <1>6 DEF Unique

LEMMA NamedOnce ==
    ASSUME NEW en, NEW ls, TreeOK(en, ls), Unique(en, ls), NEW d \in 1 .. Len(en),
           NEW i \in 1 .. Len(ls[d])
    PROVE  FirstNamed(en, ls[d], en[ls[d][i]].name, ls[d][i])
  <1>1. Len(ls[d]) \in Nat /\ i <= i
    BY TreeIs
  <1>2. \A j \in 1 .. Len(ls[d]) : en[ls[d][j]].name = en[ls[d][i]].name => i <= j
    BY <1>1 DEF Unique
  <1> QED BY <1>2 DEF FirstNamed

-----------------------------------------------------------------------------
(* Paths that lead back *)

LEMMA NextName ==
    ASSUME NEW en, NEW ls, TreeOK(en, ls), NEW dir \in 1 .. Len(en),
           NEW names \in Seq(Name), NEW name \in Name
    PROVE  PathIn(en, ls, Slash(Append(names, name)), dir) =
             IF PathIn(en, ls, Slash(names), dir) = 0 THEN 0
             ELSE ResolveIn(en, ls, PathIn(en, ls, Slash(names), dir), name)
  <1> DEFINE p == Slash(Append(names, name))
             q == Slash(names)
  <1>1. /\ p.from = "root" /\ p.parts = Append(names, name)
        /\ q.from = "root" /\ q.parts = names
    BY DEF Slash
  <1> HIDE DEF p, q
  <1>2. /\ Len(q.parts) \in Nat /\ Len(p.parts) = Len(q.parts) + 1
        /\ \A i \in 1 .. Len(q.parts) : q.parts[i] = p.parts[i]
    BY <1>1, AppendIs
  <1>3. StartIn(en, p.from, dir) = StartIn(en, q.from, dir)
    BY <1>1
  <1>4. PathIn(en, ls, p, dir) =
          IF PathIn(en, ls, q, dir) = 0 THEN 0
          ELSE ResolveIn(en, ls, PathIn(en, ls, q, dir), p.parts[Len(p.parts)])
    <2> DEFINE start == StartIn(en, p.from, dir)
    <2>1. StartIn(en, p.from, dir) = start /\ StartIn(en, q.from, dir) = start
      BY <1>3
    <2>2. \A i \in 1 .. Len(q.parts) : q.parts[i] = p.parts[i]
      BY <1>2
    <2>3. Len(q.parts) \in Nat /\ Len(p.parts) = Len(q.parts) + 1
      BY <1>2
    <2> HIDE DEF start
    <2> QED BY ONLY <2>1, <2>2, <2>3, TreeOK(en, ls), dir \in 1 .. Len(en), LastName
  <1>5. p.parts[Len(p.parts)] = name
    BY <1>1, AppendIs
  <1> QED BY <1>4, <1>5 DEF p, q

LEMMA RoundTrip ==
    ASSUME NEW en, NEW ls, TreeOK(en, ls), Unique(en, ls), NEW dir \in 1 .. Len(en)
    PROVE  /\ PathIn(en, ls, Slash(NamesIn(en, 1)), dir) = 1
           /\ \A x \in 1 .. Len(en) : \A i \in 1 .. Len(ls[x]) :
                 en[ls[x][i]].kind # "socket" =>
                    PathIn(en, ls, Slash(NamesIn(en, ls[x][i])), dir) = ls[x][i]
  <1> DEFINE n == Len(en)
             Known(a) == a = 1 \/ \E y \in 1 .. n : \E i \in 1 .. Len(ls[y]) : ls[y][i] = a
             Back(a) == PathIn(en, ls, Slash(NamesIn(en, a)), dir) = a
             T == {m \in 0 .. n : \A a \in 1 .. m : Known(a) /\ en[a].kind # "socket" => Back(a)}
  <1>1. n \in Nat \ {0} /\ NodesOK(en) /\ ListsOK(en, ls)
    BY TreeIs DEF TreeOK
  <1>1a. \A y \in 1 .. n : \A i \in 1 .. Len(ls[y]) :
           ls[y][i] \in 2 .. n /\ (en[ls[y][i]].kind # "socket" => en[ls[y][i]].parent = y)
    BY <1>1 DEF ListsOK
  <1> HIDE DEF n
  <1>2. 0 \in T
    <2>1. \A e \in 1 .. 0 : FALSE
      OBVIOUS
    <2> HIDE DEF Known, Back
    <2> QED BY <2>1, <1>1
  <1>3. Back(1)
    <2>1. en[1].parent = 0 /\ 1 \in 1 .. n
      BY <1>1 DEF NodesOK
    <2>2. NamesIn(en, 1) = << >>
      BY <2>1, <1>1, NamesIs DEF n
    <2>3. /\ Slash(<< >>).from = "root" /\ Slash(<< >>).parts = << >> /\ Len(<< >>) = 0
      BY DEF Slash
    <2>4. PathIn(en, ls, Slash(<< >>), dir) = 1
      BY <2>3, NoNames DEF StartIn, Root
    <2> QED BY <2>2, <2>4
  <1>4. ASSUME NEW m \in 0 .. n - 1, m \in T PROVE m + 1 \in T
    <2> DEFINE e == m + 1
    <2>1. /\ e \in 0 .. n /\ e \in 1 .. n /\ e - 1 = m /\ (e = 1 \/ e \in 2 .. n)
          /\ \A i \in 1 .. e : i \in 1 .. m \/ i = e
      BY <1>1
    <2>2. ASSUME Known(e), en[e].kind # "socket", e # 1 PROVE Back(e)
      <3> HIDE DEF e
      <3> DEFINE x == en[e].parent
      <3>1. e \in 2 .. n /\ x \in 1 .. m /\ en[x].kind = "directory"
        BY <2>1, <2>2, <1>1 DEF NodesOK, n
      <3>2. x \in 1 .. n /\ x # 0
        <4>1. m \in Nat /\ m <= n
          BY <1>1
        <4> HIDE DEF x
        <4> QED BY <4>1, <3>1, <1>1
      <3>3. PICK i \in 1 .. Len(ls[x]) : ls[x][i] = e
        <4>1. PICK y \in 1 .. n : \E i \in 1 .. Len(ls[y]) : ls[y][i] = e
          BY <2>2
        <4>2. x = y
          <5> HIDE DEF x
          <5>1. \A i \in 1 .. Len(ls[y]) : en[ls[y][i]].kind # "socket" => en[ls[y][i]].parent = y
            BY <1>1a
          <5>2. en[e].parent = y
            BY <5>1, <4>1, <2>2
          <5> QED BY <5>2 DEF x
        <4> QED BY <4>1, <4>2
      <3>4. Back(x)
        <4>1. x = 1 \/ x \in 2 .. n
          BY <3>2
        <4>2. ASSUME x \in 2 .. n PROVE Known(x)
          <5>1. \E j \in 1 .. Len(ls[en[x].parent]) : ls[en[x].parent][j] = x
            BY <4>2, <3>1, <1>1 DEF ListsOK, n
          <5>2. en[x].parent \in 1 .. n
            <6>1. en[x].parent \in 1 .. x - 1
              BY <4>2, <3>1, <1>1 DEF NodesOK, n
            <6> QED BY SMTT(60), <6>1, <3>2, <1>1
          <5> QED BY <5>1, <5>2
        <4>3. Known(x) /\ en[x].kind # "socket"
          BY <4>1, <4>2, <3>1
        <4> HIDE DEF Known, Back, x
        <4> QED BY <4>3, <3>1, <1>4
      <3>5. /\ NamesIn(en, e) = Append(NamesIn(en, x), en[e].name)
            /\ NamesIn(en, x) \in Seq(Name) /\ en[e].name \in Name
        <4>1. en[e].name \in Name
          BY <3>1, <1>1 DEF NodesOK, n
        <4> QED BY <4>1, <3>2, <2>1, <1>1, NamesIs DEF n
      <3> HIDE DEF x, Known
      <3>6. PathIn(en, ls, Slash(NamesIn(en, e)), dir) = ResolveIn(en, ls, x, en[e].name)
        <4>1. PathIn(en, ls, Slash(NamesIn(en, x)), dir) = x
          BY <3>4
        <4> QED BY <4>1, <3>2, <3>5, NextName
      <3>7. FirstNamed(en, ls[x], en[e].name, e)
        BY <3>2, <3>3, NamedOnce DEF n
      <3>8. ResolveIn(en, ls, x, en[e].name) = e
        BY <3>2, <3>7, ResolveFirst DEF n
      <3> QED BY <3>6, <3>8
    <2> HIDE DEF e, Known, Back
    <2>3. \A i \in 1 .. e : Known(i) /\ en[i].kind # "socket" => Back(i)
      BY <2>1, <2>2, <1>3, <1>4
    <2>4. e \in T
      BY <2>1, <2>3
    <2> QED BY <2>4 DEF e
  <1> HIDE DEF T
  <1>5. 0 .. n \subseteq T
    BY <1>1, <1>2, <1>4, IntervalInduction
  <1>6. n \in T
    BY <1>1, <1>5
  <1>7. ASSUME NEW x \in 1 .. n, NEW i \in 1 .. Len(ls[x]), en[ls[x][i]].kind # "socket"
        PROVE  Back(ls[x][i])
    <2>1. ls[x][i] \in 1 .. n
      <3>1. ls[x][i] \in 2 .. n
        BY <1>1 DEF ListsOK, n
      <3> QED BY <3>1, <1>1
    <2>2. Known(ls[x][i])
      OBVIOUS
    <2> HIDE DEF Known, Back
    <2> QED BY <2>1, <2>2, <1>6, <1>7 DEF T
  <1> QED BY <1>3, <1>7 DEF n


-----------------------------------------------------------------------------
(* Boot *)

\* What there is after the entries of the kernel comes from the records that are
\* extracted.
FromRecords(en, records, done) ==
    /\ Len(en) >= 8 /\ \A e \in 1 .. 8 : en[e] = Kernel[e]
    /\ \A e \in 9 .. Len(en) : \E j \in 1 .. done :
          /\ j \in DOMAIN records
          /\ NamesIn(en, e) = records[j].parts /\ en[e].kind = records[j].kind

BootInv == Booting => FromRecords(entries, archive.records, archive.done)

LEMMA FrontLast ==
    ASSUME NEW S, NEW s \in Seq(S), NEW q \in Seq(S), Len(s) = Len(q) + 1,
           \A i \in 1 .. Len(q) : q[i] = s[i]
    PROVE  s = Append(q, s[Len(s)])
  <1>1. s[Len(s)] \in S
    OBVIOUS
  <1> QED BY <1>1

\* Where there is no socket, the names on the way to an entry are its path.
LEMMA WayNames ==
    ASSUME NEW en, NEW ls, TreeOK(en, ls), \A e \in 2 .. Len(en) : en[e].kind # "socket",
           NEW path \in Path, path.from \in {"root", "none"}, PathIn(en, ls, path, 1) # 0
    PROVE  /\ PathIn(en, ls, path, 1) \in 1 .. Len(en)
           /\ NamesIn(en, PathIn(en, ls, path, 1)) = path.parts
  <1> DEFINE s == path.parts
             n == Len(s)
  <1>1. /\ s \in Seq(Name) /\ n \in Nat /\ Len(path.parts) \in Nat
        /\ NodesOK(en) /\ ListsOK(en, ls) /\ Len(en) \in Nat \ {0}
        /\ 1 \in 1 .. Len(en)
    BY TreeIs DEF Path, TreeOK
  <1>2. PICK w : Walks(w, en, ls, path, 1) /\ PathIn(en, ls, path, 1) = w[n]
    BY <1>1, PathWalks
  <1> HIDE DEF s, n
  <1>3. /\ w \in [0 .. n -> 0 .. Len(en)] /\ w[0] = 1
        /\ \A i \in 1 .. n : w[i] = IF w[i - 1] = 0 THEN 0 ELSE ResolveIn(en, ls, w[i - 1], s[i])
    <2>1. en[1].parent = 0
      BY <1>1 DEF NodesOK
    <2> QED BY <2>1, <1>2 DEF Walks, StartIn, Root, NoEntry, s, n
  <1> DEFINE Right(i) == w[i] # 0 => NamesIn(en, w[i]) = SubSeq(s, 1, i)
             T == {i \in 0 .. n : Right(i)}
  <1>4. 0 \in T
    <2>1. en[1].parent = 0
      BY <1>1 DEF NodesOK
    <2>2. NamesIn(en, 1) = << >>
      BY <2>1, <1>1, NamesIs
    <2>3. SubSeq(s, 1, 0) = << >>
      BY <1>1
    <2>4. Right(0)
      BY <2>2, <2>3, <1>3
    <2>5. 0 \in 0 .. n
      BY <1>1
    <2> HIDE DEF Right
    <2> QED BY <2>4, <2>5
  <1>5. ASSUME NEW i \in 0 .. n - 1, i \in T PROVE i + 1 \in T
    <2>1. i + 1 \in 1 .. n /\ i + 1 \in 0 .. n /\ (i + 1) - 1 = i /\ i \in Nat /\ i < n /\ i \in 0 .. n
      BY <1>1
    <2>2. ASSUME w[i + 1] # 0 PROVE NamesIn(en, w[i + 1]) = SubSeq(s, 1, i + 1)
      <3> DEFINE d == w[i]
                 r == w[i + 1]
                 name == s[i + 1]
      <3>1. d # 0 /\ r = ResolveIn(en, ls, d, name) /\ d \in 1 .. Len(en)
        BY <2>1, <2>2, <1>1, <1>3
      <3>2. FirstNamed(en, ls[d], name, r) /\ r \in 2 .. Len(en)
        BY <3>1, <2>2, ResolveIs
      <3>3. PICK k \in 1 .. Len(ls[d]) : r = ls[d][k] /\ en[r].name = name
        BY <3>2 DEF FirstNamed
      <3>4. en[r].parent = d /\ r \in 1 .. Len(en)
        <4>1. \A y \in 1 .. Len(en) : \A i0 \in 1 .. Len(ls[y]) :
                 en[ls[y][i0]].kind # "socket" => en[ls[y][i0]].parent = y
          BY ListsAre
        <4>2. en[r].kind # "socket" /\ r \in 1 .. Len(en)
          BY <3>2, <1>1
        <4> HIDE DEF d, r
        <4> QED BY <4>1, <4>2, <3>1, <3>3
      <3>5. NamesIn(en, d) = SubSeq(s, 1, i)
        BY <3>1, <1>5
      <3> HIDE DEF d, r, name
      <3>6. NamesIn(en, r) = Append(NamesIn(en, d), name)
        BY <3>1, <3>3, <3>4, <1>1, NamesIs
      <3>7. Append(SubSeq(s, 1, i), s[i + 1]) = SubSeq(s, 1, i + 1)
        BY <2>1, <1>1, OneRead DEF n
      <3> QED BY <3>5, <3>6, <3>7 DEF r, name
    <2> QED BY <2>1, <2>2
  <1> HIDE DEF T
  <1>6. 0 .. n \subseteq T
    BY <1>1, <1>4, <1>5, IntervalInduction
  <1>7. n \in T /\ n \in 0 .. n
    BY <1>1, <1>6
  <1>8. SubSeq(s, 1, n) = s
    BY <1>1 DEF n
  <1>9. w[n] \in 1 .. Len(en)
    BY <1>1, <1>2, <1>3, <1>7
  <1> QED BY <1>2, <1>7, <1>8, <1>9 DEF T, s

\* A record of the archive and the directory boot finds for it.
LEMMA RecordIs ==
    ASSUME TypeInv, BootInv, Booting, archive.done + 1 \in DOMAIN archive.records,
           NEW record, record = archive.records[archive.done + 1], DirOf(record) # 0
    PROVE  /\ PathOf(record) \in Path /\ PathOf(record).parts = record.parts
           /\ record \in Record /\ record.parts # << >>
           /\ PathOf(record).from \in {"root", "none"}
           /\ ParentOf(PathOf(record)).from \in {"root", "none"}
           /\ DirOf(record) = PathIn(entries, lists, ParentOf(PathOf(record)), 1)
           /\ DirOf(record) \in 1 .. Len(entries)
           /\ NamesIn(entries, DirOf(record)) = ParentOf(PathOf(record)).parts
           /\ Last(record.parts) \in Name
           /\ record.parts = Append(NamesIn(entries, DirOf(record)), Last(record.parts))
  <1> DEFINE q == ParentOf(PathOf(record))
  <1>1. archive.records \in Archives
    BY DEF TypeInv
  <1>2. archive.records \in Seq(Record)
    BY <1>1, ArchivesAssumption
  <1>3. \A j \in DOMAIN archive.records :
           archive.records[j] \in Record /\ archive.records[j].parts # << >>
    BY <1>1, <1>2, ArchivesAssumption
  <1>4. record \in Record /\ record.parts # << >>
    BY <1>3
  <1>5. /\ PathOf(record) \in Path /\ PathOf(record).parts = record.parts
        /\ PathOf(record).from \in {"root", "none"}
    BY <1>4 DEF PathOf, Slash, Plain, Path, From, Record
  <1>6. /\ q \in Path /\ q.from \in {"root", "none"} /\ Last(record.parts) \in Name
        /\ Len(record.parts) = Len(q.parts) + 1
        /\ \A i \in 1 .. Len(q.parts) : q.parts[i] = record.parts[i]
        /\ Last(record.parts) = record.parts[Len(record.parts)]
    BY <1>4, <1>5, ParentIs
  <1>7. DirOf(record) = PathIn(entries, lists, q, 1)
    BY LookupsAre DEF DirOf, Root
  <1>8. \A e \in 2 .. Len(entries) : entries[e].kind # "socket"
    <2> SUFFICES ASSUME NEW e \in 2 .. Len(entries) PROVE entries[e].kind # "socket"
      OBVIOUS
    <2>1. /\ Len(entries) >= 8 /\ \A x \in 1 .. 8 : entries[x] = Kernel[x]
          /\ \A x \in 9 .. Len(entries) : \E j \in 1 .. archive.done :
                j \in DOMAIN archive.records /\ entries[x].kind = archive.records[j].kind
      BY DEF BootInv, FromRecords
    <2>2. Len(entries) \in Nat
      BY TreeIs DEF TypeInv
    <2>3. e \in 2 .. 8 \/ e \in 9 .. Len(entries)
      BY <2>1, <2>2
    <2>4. CASE e \in 2 .. 8
      <3>1. entries[e] = Kernel[e]
        BY <2>1, <2>4
      <3> QED BY <3>1, <2>4, KernelIs
    <2>5. CASE e \in 9 .. Len(entries)
      <3>1. PICK j \in 1 .. archive.done :
              j \in DOMAIN archive.records /\ entries[e].kind = archive.records[j].kind
        BY <2>1, <2>5
      <3> QED BY <3>1, <1>3 DEF Record
    <2> QED BY <2>3, <2>4, <2>5
  <1>9. TreeOK(entries, lists)
    BY DEF TypeInv
  <1> HIDE DEF q
  <1>10. DirOf(record) \in 1 .. Len(entries) /\ NamesIn(entries, DirOf(record)) = q.parts
    BY <1>6, <1>7, <1>8, <1>9, WayNames
  <1>11. record.parts = Append(q.parts, Last(record.parts))
    <2>1. record.parts \in Seq(Name) /\ q.parts \in Seq(Name)
      BY <1>4, <1>6 DEF Record, Path
    <2> QED BY <2>1, <1>6, FrontLast
  <1> QED BY <1>4, <1>5, <1>6, <1>7, <1>10, <1>11 DEF q

\* Where a record makes an entry there is none of the name.
LEMMA RecordNew ==
    ASSUME TypeInv, NEW record, DirOf(record) \in 1 .. Len(entries), Existing(record) = 0
    PROVE  NoneNamed(entries, lists[DirOf(record)], Last(record.parts))
  <1>1. TreeOK(entries, lists) /\ Len(entries) \in Nat
    BY TreeIs DEF TypeInv
  <1>2. ResolveIn(entries, lists, DirOf(record), Last(record.parts)) = 0
    BY LookupsAre DEF Existing
  <1>3. ~(0 \in 2 .. Len(entries))
    BY <1>1
  <1> QED BY <1>1, <1>2, <1>3, ResolveIs

\* What Extract has made is from its record.
LEMMA FromRecordsMade ==
    ASSUME TypeInv, BootInv, Booting, archive.done + 1 \in DOMAIN archive.records,
           NEW record, record = archive.records[archive.done + 1], DirOf(record) # 0,
           Makes(DirOf(record), Last(record.parts), record.kind, record.link)
    PROVE  FromRecords(entries', archive.records, archive.done + 1)
  <1> DEFINE d == DirOf(record)
             n == Len(entries)
  <1>1. d \in 1 .. n /\ record.parts = Append(NamesIn(entries, d), Last(record.parts)) /\ record \in Record
    BY RecordIs
  <1>2. n \in Nat /\ archive.done \in Nat /\ TreeOK(entries, lists)
    BY TreeIs DEF TypeInv
  <1>3. PICK node : /\ Fits(entries, d, node) /\ d \in DirectoriesOf(entries)
                    /\ node.name = Last(record.parts) /\ node.kind = record.kind
                    /\ Grown(entries, lists, d, node, entries', lists')
    BY DEF Makes
  <1>4. /\ TreeOK(entries', lists') /\ Keeps(entries, lists, entries', lists', 1 .. n)
    BY <1>2, Made DEF TreeStep
  <1>5. /\ NodesOK(entries) /\ NodesOK(entries') /\ Len(entries') = n + 1
        /\ \A e \in 1 .. n : entries'[e] = entries[e]
        /\ entries'[n + 1] = node
    BY <1>2, <1>3, <1>4 DEF TreeOK, Grown
  <1> HIDE DEF d, n
  <1>6. \A e \in 1 .. n : NamesIn(entries', e) = NamesIn(entries, e)
    BY <1>2, <1>5, NamesStay DEF n
  <1>7. /\ entries'[n + 1].parent = d /\ d # 0 /\ d \in 1 .. n
        /\ n + 1 \in 1 .. n + 1
        /\ entries'[n + 1].kind = record.kind /\ entries'[n + 1].name = Last(record.parts)
    <2>1. node.parent = d
      BY <1>1, <1>3 DEF Fits, Record
    <2> QED BY <2>1, <1>1, <1>2, <1>3, <1>5
  <1>8. NamesIn(entries', n + 1) = Append(NamesIn(entries', d), Last(record.parts))
    <2>1. n + 1 \in 1 .. Len(entries') /\ entries'[n + 1].parent # 0
      BY <1>5, <1>7
    <2>2. NamesIn(entries', n + 1) =
            Append(NamesIn(entries', entries'[n + 1].parent), entries'[n + 1].name)
      BY <2>1, <1>5, NamesIs
    <2> QED BY <2>2, <1>7
  <1>9. NamesIn(entries', n + 1) = record.parts
    BY <1>1, <1>6, <1>7, <1>8
  <1>9a. /\ n >= 8 /\ \A e \in 1 .. 8 : entries[e] = Kernel[e]
         /\ \A e \in 9 .. n : \E j \in 1 .. archive.done :
               /\ j \in DOMAIN archive.records
               /\ NamesIn(entries, e) = archive.records[j].parts
               /\ entries[e].kind = archive.records[j].kind
    BY DEF BootInv, FromRecords, n
  <1>9b. n + 1 >= 8 /\ \A e \in 1 .. 8 : entries'[e] = Kernel[e]
    <2>1. n + 1 >= 8 /\ \A e \in 1 .. 8 : e \in 1 .. n
      BY <1>2, <1>9a
    <2> QED BY <2>1, <1>5, <1>9a
  <1>10. ASSUME NEW e \in 9 .. n + 1
         PROVE  \E j \in 1 .. archive.done + 1 :
                  /\ j \in DOMAIN archive.records
                  /\ NamesIn(entries', e) = archive.records[j].parts
                  /\ entries'[e].kind = archive.records[j].kind
    <2>1. e \in 9 .. n \/ e = n + 1
      BY <1>2
    <2>2. CASE e = n + 1
      <3>1. archive.done + 1 \in 1 .. archive.done + 1
        BY <1>2
      <3> QED BY <3>1, <2>2, <1>7, <1>9
    <2>3. CASE e \in 9 .. n
      <3>1. PICK j \in 1 .. archive.done :
              /\ j \in DOMAIN archive.records
              /\ NamesIn(entries, e) = archive.records[j].parts
              /\ entries[e].kind = archive.records[j].kind
        BY <2>3, <1>9a
      <3>2. e \in 1 .. n /\ j \in 1 .. archive.done + 1
        BY <2>3, <1>2
      <3> QED BY <3>1, <3>2, <1>5, <1>6
    <2> QED BY <2>1, <2>2, <2>3
  <1> QED BY <1>5, <1>9b, <1>10 DEF FromRecords

LEMMA BootStep ==
    ASSUME TypeInv, BootInv, [Next]_vars
    PROVE  BootInv'
  <1>1. archive \in [records : Archives, done : Nat] /\ archive.done \in Nat
    BY DEF TypeInv
  <1>2. CASE UNCHANGED <<tree, archive>>
    BY <1>2 DEF BootInv, Booting, tree
  <1>3. CASE ~Booting /\ archive' = archive
    BY <1>3 DEF BootInv, Booting
  <1>4. ASSUME Booting, UNCHANGED tree, archive' = [archive EXCEPT !.done = @ + 1]
        PROVE  BootInv'
    <2>1. archive'.records = archive.records /\ archive'.done = archive.done + 1 /\ entries' = entries
      BY <1>1, <1>4 DEF tree
    <2>2. \A j \in 1 .. archive.done : j \in 1 .. archive.done + 1
      BY <1>1
    <2> QED BY <2>1, <2>2, <1>4 DEF BootInv, FromRecords
  <1>5. CASE Extract
    <2> DEFINE record == archive.records[archive.done + 1]
    <2>1. CASE \E m : Stop(m)
      BY <2>1, <1>2 DEF Stop
    <2>2. Booting
      <3>1. archive.records \in Seq(Record)
        BY <1>1, ArchivesAssumption
      <3>2. archive.done < Len(archive.records) /\ Len(archive.records) \in Nat
        BY <3>1, <1>5 DEF Extract
      <3> QED BY <3>2, <1>1 DEF Booting
    <2>3. CASE /\ archive.done + 1 \in DOMAIN archive.records
               /\ DirOf(record) \in 1 .. Len(entries)
               /\ Makes(DirOf(record), Last(record.parts), record.kind, record.link)
               /\ archive' = [archive EXCEPT !.done = @ + 1]
      <3>1. archive'.records = archive.records /\ archive'.done = archive.done + 1
        BY <2>3, <1>1
      <3>2. DirOf(record) # 0
        BY <2>3
      <3>3. FromRecords(entries', archive.records, archive.done + 1)
        BY <2>2, <2>3, <3>2, FromRecordsMade
      <3> QED BY <3>1, <3>3 DEF BootInv
    <2>4. CASE UNCHANGED tree /\ archive' = [archive EXCEPT !.done = @ + 1]
      BY <2>2, <2>4, <1>4
    <2> HIDE DEF record
    <2> QED BY <2>1, <2>3, <2>4, <1>5, ExtractIs DEF record
  <1>6. CASE Load
    <2>1. archive.records \in Seq(Record)
      BY <1>1, ArchivesAssumption
    <2>2. Len(archive.records) \in Nat
      BY <2>1
    <2>3. Booting /\ UNCHANGED tree /\ archive' = [archive EXCEPT !.done = @ + 1]
      BY <2>2, <1>6 DEF Load, Booting
    <2> QED BY <2>3, <1>4
  <1>7. ASSUME NEW p \in Process, Moves(p) PROVE BootInv'
    BY <1>2, <1>7 DEF Moves, Stop, Waits
  <1>8. ASSUME NEW p \in Process, Create(p) PROVE BootInv'
    BY <1>3, <1>8 DEF Create, At
  <1>8a. ASSUME NEW p \in Process, NEW q \in Process, Meet(p, q) PROVE BootInv'
    BY <1>2, <1>8a DEF Meet
  <1>9. ASSUME NEW p \in Process, RemoveFile(p) PROVE BootInv'
    BY <1>2, <1>3, <1>9 DEF RemoveFile, At, Stop
  <1>10. ASSUME NEW p \in Process, NEW path \in Places, Chdir(p, path) \/ Opendir(p, path)
         PROVE  BootInv'
    BY <1>2, <1>10 DEF Chdir, Opendir, Stop
  <1>11. ASSUME NEW p \in Process, Readdir(p) \/ Closedir(p) PROVE BootInv'
    BY <1>2, <1>11 DEF Readdir, Closedir, Stop
  <1>12. CASE UNCHANGED vars
    BY <1>2, <1>12 DEF vars
  <1> QED BY <1>5, <1>6, <1>7, <1>8, <1>8a, <1>9, <1>10, <1>11, <1>12, Steps


-----------------------------------------------------------------------------
(* Unique names, paths that lead back, and the archive *)

UniqueInv == ~raced /\ ~misplaced /\ ~rebound => Unique(entries, lists)

LEMMA UniqueStep ==
    ASSUME TypeInv, BootInv, UniqueInv, [Next]_vars
    PROVE  UniqueInv'
  <1>1. TreeOK(entries, lists)
    BY DEF TypeInv
  <1>2. ASSUME UNCHANGED <<entries, lists, misplaced, raced, rebound>> PROVE UniqueInv'
    BY <1>2 DEF UniqueInv
  <1>3. ASSUME NEW d, NEW name, NEW kind, NEW link, Makes(d, name, kind, link),
               Unique(entries, lists), NoneNamed(entries, lists[d], name)
        PROVE  UniqueInv'
    <2>1. PICK node : /\ d \in DirectoriesOf(entries) /\ node.name = name
                      /\ Grown(entries, lists, d, node, entries', lists')
      BY <1>3 DEF Makes
    <2>2. d \in 1 .. Len(entries)
      BY <2>1 DEF DirectoriesOf
    <2>3. Unique(entries', lists')
      BY <2>1, <2>2, <1>1, <1>3, UniqueMade
    <2> QED BY <2>3 DEF UniqueInv
  <1>4. CASE Extract
    <2> DEFINE record == archive.records[archive.done + 1]
    <2>1. CASE \E m : Stop(m)
      BY <2>1, <1>2 DEF Stop, tree
    <2>2. CASE UNCHANGED tree /\ UNCHANGED <<cwd, stream, call, misplaced, raced, rebound, panic>>
      BY <2>2, <1>2 DEF tree
    <2>3. CASE /\ archive.done + 1 \in DOMAIN archive.records
               /\ DirOf(record) \in 1 .. Len(entries) /\ Existing(record) = 0
               /\ Makes(DirOf(record), Last(record.parts), record.kind, record.link)
               /\ UNCHANGED <<cwd, stream, call, misplaced, raced, rebound, panic>>
      <3>2. NoneNamed(entries, lists[DirOf(record)], Last(record.parts))
        BY <2>3, RecordNew
      <3> HIDE DEF record
      <3>3. CASE Unique(entries, lists)
        BY <2>3, <3>2, <3>3, <1>3
      <3>4. CASE ~(~raced /\ ~misplaced /\ ~rebound)
        BY <2>3, <3>4 DEF UniqueInv
      <3> QED BY <3>3, <3>4 DEF UniqueInv
    <2> HIDE DEF record
    <2> QED BY <2>1, <2>2, <2>3, <1>4, ExtractIs DEF record
  <1>5. CASE Load
    BY <1>2, <1>5 DEF Load, tree
  <1>6. ASSUME NEW p \in Process, Moves(p) PROVE UniqueInv'
    BY <1>2, <1>6 DEF Moves, Stop, Waits, tree
  <1>7. ASSUME NEW p \in Process, Create(p) PROVE UniqueInv'
    <2> DEFINE c == call[p]
    <2>1. /\ rebound' \/ Makes(c.dir, c.name, c.kind, c.link)
          /\ c.there => c.elsewhere
          /\ misplaced' = (misplaced \/ c.elsewhere)
          /\ raced' = (~c.there /\ Resolve(c.dir, c.name) # 0)
      BY <1>7, CreateMakes
    <2>2. ~raced /\ ~rebound
      BY <1>7 DEF Create, At, Running
    <2> HIDE DEF c
    <2>3. SUFFICES ASSUME ~raced', ~misplaced', ~rebound' PROVE UniqueInv'
      BY DEF UniqueInv
    <2>4. ~misplaced /\ ~c.elsewhere
      BY <2>1, <2>3
    <2>5. ~c.there
      BY <2>1, <2>4
    <2>6. Resolve(c.dir, c.name) = 0
      BY <2>1, <2>3, <2>5
    <2>7. c.dir \in 1 .. Len(entries)
      BY <2>1, <2>3 DEF Makes, DirectoriesOf
    <2>8. NoneNamed(entries, lists[c.dir], c.name)
      <3>1. ResolveIn(entries, lists, c.dir, c.name) = 0
        BY <2>6, LookupsAre
      <3>2. ~(0 \in 2 .. Len(entries))
        BY <1>1, TreeIs
      <3> QED BY <3>1, <3>2, <2>7, <1>1, ResolveIs
    <2>9. Unique(entries, lists)
      BY <2>2, <2>4 DEF UniqueInv
    <2> QED BY <2>1, <2>3, <2>8, <2>9, <1>3
  <1>7a. ASSUME NEW p \in Process, NEW q \in Process, Meet(p, q) PROVE UniqueInv'
    BY <1>7a, MeetIs DEF UniqueInv
  <1>8. ASSUME NEW p \in Process, RemoveFile(p) PROVE UniqueInv'
    <2>1. CASE Stop(DeleteFailed)
      BY <2>1, <1>2 DEF Stop, tree
    <2>2. CASE (\E k : Removes(call[p].dir, k)) /\ UNCHANGED <<misplaced, raced, rebound>>
      <3>1. PICK k : Removes(call[p].dir, k)
        BY <2>2
      <3>2. ASSUME Unique(entries, lists) PROVE Unique(entries', lists')
        <4>1. /\ entries' = entries /\ call[p].dir \in 1 .. Len(entries)
              /\ Shrunk(lists, call[p].dir, k, lists')
          BY <3>1 DEF Removes
        <4>2. Unique(entries, lists')
          BY <4>1, <3>2, <1>1, UniqueRemoved
        <4> QED BY <4>1, <4>2
      <3> QED BY <3>2, <2>2 DEF UniqueInv
    <2> QED BY <2>1, <2>2, <1>8, RemoveFileIs
  <1>9. ASSUME NEW p \in Process, NEW path \in Places, Chdir(p, path) \/ Opendir(p, path)
        PROVE  UniqueInv'
    BY <1>2, <1>9 DEF Chdir, Opendir, Stop, tree
  <1>10. ASSUME NEW p \in Process, Readdir(p) \/ Closedir(p) PROVE UniqueInv'
    BY <1>2, <1>10 DEF Readdir, Closedir, Stop, tree
  <1>11. CASE UNCHANGED vars
    BY <1>2, <1>11 DEF vars, tree
  <1> QED BY <1>4, <1>5, <1>6, <1>7, <1>7a, <1>8, <1>9, <1>10, <1>11, Steps

NameInv == TypeInv /\ BootInv /\ UniqueInv

LEMMA Named == Spec => []NameInv
  <1>1. ASSUME Init PROVE NameInv
    <2>1. TypeInv
      BY <1>1, TypeInit
    <2>2. /\ entries = Kernel /\ Len(entries) = 8 /\ Len(lists) = 8
          /\ lists[1] = <<2, 3, 4>> /\ lists[4] = <<5, 6, 7, 8>>
          /\ \A d \in 1 .. 8 : d # 1 /\ d # 4 => lists[d] = << >>
      <3>1. \A d \in 1 .. 8 : d \in {1, 2, 3, 4, 5, 6, 7, 8}
        OBVIOUS
      <3> QED BY <3>1, <1>1, KernelIs DEF Init, Dev
    <2>3. BootInv
      <3>1. \A e \in 9 .. 8 : FALSE
        OBVIOUS
      <3> QED BY <2>2, <3>1 DEF BootInv, FromRecords
    <2>4. UniqueInv
      <3>1. /\ entries[2].name = "stdin" /\ entries[3].name = "stdout" /\ entries[4].name = "dev"
            /\ entries[5].name = "mem" /\ entries[6].name = "zero"
            /\ entries[7].name = "tty" /\ entries[8].name = "ptmx"
        BY <2>2, KernelIs DEF Node
      <3>2. ASSUME NEW d \in 1 .. 8, NEW i \in 1 .. Len(lists[d]), NEW j \in 1 .. Len(lists[d]),
                   entries[lists[d][i]].name = entries[lists[d][j]].name
            PROVE  i = j
        <4>1. CASE d = 1
          <5>1. i \in {1, 2, 3} /\ j \in {1, 2, 3}
            BY <4>1, <2>2
          <5> QED BY <5>1, <4>1, <3>1, <3>2, <2>2
        <4>2. CASE d = 4
          <5>1. i \in {1, 2, 3, 4} /\ j \in {1, 2, 3, 4}
            BY <4>2, <2>2
          <5> QED BY <5>1, <4>2, <3>1, <3>2, <2>2
        <4>3. CASE d # 1 /\ d # 4
          <5>1. Len(lists[d]) = 0 /\ \A x \in 1 .. 0 : FALSE
            BY <4>3, <2>2
          <5> QED BY <5>1
        <4> QED BY <4>1, <4>2, <4>3
      <3> QED BY <2>2, <3>2 DEF UniqueInv, Unique
    <2> QED BY <2>1, <2>3, <2>4 DEF NameInv
  <1>2. NameInv /\ [Next]_vars => NameInv'
    BY TypeStep, BootStep, UniqueStep DEF NameInv
  <1> QED BY <1>1, <1>2, PTL DEF Spec

\* No directory has two entries of one name, unless two calls have met, or one has
\* made its entry in the wrong directory or given a socket a second name: what
\* mkdir, link, bind and open look up first (posix.cpp), as boot does (cpio.cpp).
THEOREM NamesStandAlone == Spec => []NamesUnique
  <1>1. ASSUME NameInv PROVE NamesUnique
    <2>1. TreeOK(entries, lists) /\ (~raced /\ ~misplaced /\ ~rebound => Unique(entries, lists))
      BY <1>1 DEF NameInv, TypeInv, UniqueInv
    <2>2. /\ DOMAIN lists = 1 .. Len(entries)
          /\ \A d \in 1 .. Len(entries) : DOMAIN lists[d] = 1 .. Len(lists[d])
      BY <2>1, TreeIs
    <2> QED BY <2>1, <2>2 DEF NamesUnique, Unique
  <1> QED BY <1>1, Named, PTL

\* The path that get_path builds for an entry of the tree (filesystem.cpp) leads
\* path_to_entry back to it, from every directory and at every depth, under the
\* same conditions.
THEOREM PathsLeadBack == Spec => []PathsRoundTrip
  <1>1. ASSUME NameInv PROVE PathsRoundTrip
    <2>1. /\ TreeOK(entries, lists) /\ cwd \in [Process -> 1 .. Len(entries)]
          /\ ~raced /\ ~misplaced /\ ~rebound => Unique(entries, lists)
      BY <1>1 DEF NameInv, TypeInv, UniqueInv
    <2> SUFFICES ASSUME ~raced, ~misplaced, ~rebound, NEW e \in Reachable \cup {Root}, NEW p \in Process,
                        entries[e].kind # "socket"
                 PROVE  PathToEntry(GetPath(e), cwd[p]) = e
      BY DEF PathsRoundTrip
    <2>2. GetPath(e) = Slash(NamesIn(entries, e))
      BY NamesAre DEF GetPathIn
    <2>3. PathIn(entries, lists, Slash(NamesIn(entries, e)), cwd[p]) = e
      <3>1. CASE e = Root
        BY <3>1, <2>1, RoundTrip DEF Root
      <3>2. CASE e \in Reachable
        <4>1. PICK d \in 1 .. Len(entries) : \E i \in 1 .. Len(lists[d]) : lists[d][i] = e
          BY <3>2, <2>1, ReachableIs
        <4>2. PICK i \in 1 .. Len(lists[d]) : lists[d][i] = e
          BY <4>1
        <4>3. Unique(entries, lists) /\ cwd[p] \in 1 .. Len(entries)
          BY <2>1
        <4> QED BY <4>2, <4>3, <2>1, RoundTrip
      <3> QED BY <3>1, <3>2
    <2> QED BY <2>2, <2>3, LookupsAre
  <1> QED BY <1>1, Named, PTL

\* The devices that the kernel has made when boot begins.
DevicePaths ==
    {<<"stdin">>, <<"stdout">>}
        \cup {Append(<<"dev">>, name) : name \in {"mem", "zero", "tty", "ptmx"}}

\* Of an archive that was made from a tree: what a record is below is a directory,
\* if it is a record at all, and no device of the kernel.  Below a file and a device
\* boot makes no directory and no link, and does not notice.
FromTree(records) ==
    \A i \in DOMAIN records :
        /\ Front(records[i].parts) \notin DevicePaths
        /\ \A j \in DOMAIN records :
              records[j].parts = Front(records[i].parts) => records[j].kind = "directory"

Extracted(en, ls, record) ==
    LET e == PathIn(en, ls, Slash(record.parts), 1) IN
    /\ e # 0
    /\ \/ en[e].kind = record.kind /\ en[e].link = record.link
       \/ en[e].kind = "device" /\ record.kind = "file"

ArchInv ==
    Booting /\ FromTree(archive.records) =>
        \A i \in 1 .. archive.done :
            i \in DOMAIN archive.records /\ Extracted(entries, lists, archive.records[i])

\* The path of a new entry, from "/" on, is that of its directory and its name.
LEMMA NewLeads ==
    ASSUME NEW en, NEW ls, TreeOK(en, ls), NEW en2, NEW ls2, TreeOK(en2, ls2),
           Keeps(en, ls, en2, ls2, 1 .. Len(en)),
           NEW d \in 1 .. Len(en), NEW node, Grown(en, ls, d, node, en2, ls2),
           NoneNamed(en, ls[d], node.name),
           NEW q, q.from \in {"root", "none"}, Len(q.parts) \in Nat, PathIn(en, ls, q, 1) = d,
           NEW parts, Len(parts) = Len(q.parts) + 1,
           \A i \in 1 .. Len(q.parts) : q.parts[i] = parts[i],
           parts[Len(parts)] = node.name
    PROVE  PathIn(en2, ls2, Slash(parts), 1) = Len(en) + 1
  <1> DEFINE p == Slash(parts)
             n == Len(en)
  <1>1. p.from = "root" /\ p.parts = parts
    BY DEF Slash
  <1>2. /\ n \in Nat \ {0} /\ 1 \in 1 .. n /\ Len(ls[d]) \in Nat /\ Len(en2) = n + 1
        /\ \A i \in 1 .. Len(ls[d]) : ls[d][i] \in 1 .. n
    <2>1. \A i \in 1 .. Len(ls[d]) : ls[d][i] \in 2 .. Len(en)
      BY ListsAre
    <2>2. Len(en2) = n + 1
      BY DEF Grown
    <2>3. n \in Nat \ {0} /\ Len(ls[d]) \in Nat
      BY TreeIs
    <2>4. 2 .. n \subseteq 1 .. n /\ 1 \in 1 .. n
      BY <2>3
    <2> QED BY <2>1, <2>2, <2>3, <2>4
  <1> HIDE DEF p, n
  <1>3. PathIn(en2, ls2, q, 1) = d
    <2>1. d # 0 /\ 1 \in 1 .. Len(en) /\ d = PathIn(en, ls, q, 1) /\ d \in 1 .. Len(en)
      BY <1>2 DEF n
    <2> QED BY ONLY <2>1, TreeOK(en, ls), TreeOK(en2, ls2), Len(q.parts) \in Nat,
                    Keeps(en, ls, en2, ls2, 1 .. Len(en)), PathKept
  <1>4. FirstNamed(en2, ls2[d], node.name, n + 1)
    <2> DEFINE m == Len(ls[d]) + 1
    <2>1. /\ Len(ls2[d]) = m /\ ls2[d][m] = n + 1 /\ en2[n + 1] = node
          /\ \A i \in 1 .. Len(ls[d]) : ls2[d][i] = ls[d][i]
          /\ \A e \in 1 .. n : en2[e] = en[e]
      BY DEF Grown, n
    <2>2. ASSUME NEW i \in 1 .. Len(ls[d]) PROVE en2[ls2[d][i]].name # node.name
      <3>1. ls2[d][i] = ls[d][i] /\ ls[d][i] \in 1 .. n
        BY <1>2, <2>1
      <3>2. en2[ls[d][i]] = en[ls[d][i]]
        BY ONLY <2>1, <3>1
      <3>3. en[ls[d][i]].name # node.name
        BY DEF NoneNamed
      <3> QED BY ONLY <3>1, <3>2, <3>3
    <2>3. m \in 1 .. m /\ \A j \in 1 .. m : j \in 1 .. Len(ls[d]) \/ m <= j
      BY <1>2
    <2> HIDE DEF m
    <2> QED BY <2>1, <2>2, <2>3 DEF FirstNamed
  <1>5. d \in 1 .. Len(en2)
    BY <1>2 DEF n
  <1>6. ResolveIn(en2, ls2, d, node.name) = n + 1
    BY <1>4, <1>5, ResolveFirst
  <1>7. PathIn(en2, ls2, p, 1) =
          IF PathIn(en2, ls2, q, 1) = 0 THEN 0
          ELSE ResolveIn(en2, ls2, PathIn(en2, ls2, q, 1), p.parts[Len(p.parts)])
    <2> DEFINE start == StartIn(en2, p.from, 1)
    <2>1. StartIn(en2, p.from, 1) = start /\ StartIn(en2, q.from, 1) = start
      BY <1>1 DEF StartIn, Root
    <2>2. 1 \in 1 .. Len(en2)
      BY <1>2
    <2>3. /\ Len(p.parts) = Len(q.parts) + 1
          /\ \A i \in 1 .. Len(q.parts) : q.parts[i] = p.parts[i]
      BY <1>1
    <2> HIDE DEF start
    <2> QED BY ONLY <2>1, <2>2, <2>3, TreeOK(en2, ls2), Len(q.parts) \in Nat, LastName
  <1>8. p.parts[Len(p.parts)] = node.name /\ d # 0
    BY <1>1
  <1> QED BY <1>3, <1>6, <1>7, <1>8 DEF p, n

\* What Extract makes is at the path of its record.
LEMMA RecordMade ==
    ASSUME TypeInv, BootInv, Booting, archive.done + 1 \in DOMAIN archive.records,
           NEW record, record = archive.records[archive.done + 1], DirOf(record) # 0,
           Existing(record) = 0,
           Makes(DirOf(record), Last(record.parts), record.kind, record.link)
    PROVE  Extracted(entries', lists', record)
  <1> DEFINE d == DirOf(record)
             n == Len(entries)
             q == ParentOf(PathOf(record))
  <1>1. /\ d \in 1 .. n /\ d = PathIn(entries, lists, q, 1) /\ q.from \in {"root", "none"}
        /\ PathOf(record) \in Path /\ PathOf(record).parts = record.parts
        /\ record.parts # << >>
    BY RecordIs
  <1>2. /\ Len(q.parts) \in Nat /\ Len(record.parts) = Len(q.parts) + 1
        /\ \A i \in 1 .. Len(q.parts) : q.parts[i] = record.parts[i]
        /\ record.parts[Len(record.parts)] = Last(record.parts)
    BY <1>1, ParentIs
  <1>3. n \in Nat /\ TreeOK(entries, lists)
    BY TreeIs DEF TypeInv
  <1>4. PICK node : /\ Fits(entries, d, node)
                    /\ node.name = Last(record.parts) /\ node.kind = record.kind
                    /\ node.link = record.link
                    /\ Grown(entries, lists, d, node, entries', lists')
    BY DEF Makes
  <1>5. /\ TreeOK(entries', lists') /\ Keeps(entries, lists, entries', lists', 1 .. n)
    BY <1>3, Made DEF TreeStep
  <1>6. NoneNamed(entries, lists[d], node.name)
    BY <1>1, <1>4, RecordNew
  <1>7. record.parts[Len(record.parts)] = node.name
    BY <1>2, <1>4
  <1> HIDE DEF d, q
  <1>8. PathIn(entries', lists', Slash(record.parts), 1) = n + 1
    BY ONLY SMTT(60), <1>1, <1>2, <1>3, <1>4, <1>5, <1>6, <1>7, NewLeads
  <1>9. entries'[n + 1] = node
    BY <1>4 DEF Grown
  <1> QED BY <1>3, <1>4, <1>8, <1>9 DEF Extracted

\* What was at its path before is there still.
LEMMA StillExtracted ==
    ASSUME NEW en, NEW ls, TreeOK(en, ls), NEW en2, NEW ls2, TreeOK(en2, ls2),
           Keeps(en, ls, en2, ls2, 1 .. Len(en)),
           NEW record \in Record, Extracted(en, ls, record)
    PROVE  Extracted(en2, ls2, record)
  <1> DEFINE path == Slash(record.parts)
             e == PathIn(en, ls, path, 1)
  <1>1. Len(path.parts) \in Nat /\ 1 \in 1 .. Len(en)
    BY TreeIs DEF Slash, Record
  <1>2. e \in 0 .. Len(en)
    <2> HIDE DEF path
    <2> QED BY <1>1, PathType
  <1>3. e # 0 /\ e \in 1 .. Len(en)
    BY <1>2 DEF Extracted
  <1>4. PathIn(en2, ls2, path, 1) = e
    <2> HIDE DEF path
    <2> QED BY <1>1, <1>3, PathKept
  <1>5. en2[e] = en[e]
    BY <1>3 DEF Keeps
  <1> HIDE DEF e
  <1> QED BY <1>3, <1>4, <1>5 DEF Extracted, e

\* In an archive made from a tree, the directory of a record is one.
LEMMA BelowDirectory ==
    ASSUME TypeInv, BootInv, Booting, FromTree(archive.records),
           archive.done + 1 \in DOMAIN archive.records,
           NEW record, record = archive.records[archive.done + 1], DirOf(record) # 0
    PROVE  entries[DirOf(record)].kind = "directory"
  <1> DEFINE d == DirOf(record)
  <1>1. /\ d \in 1 .. Len(entries) /\ NamesIn(entries, d) = ParentOf(PathOf(record)).parts
        /\ record.parts = Append(NamesIn(entries, d), Last(record.parts))
        /\ Last(record.parts) \in Name /\ PathOf(record) \in Path
        /\ PathOf(record).parts = record.parts /\ record.parts # << >>
    BY RecordIs
  <1>2. NodesOK(entries) /\ Len(entries) \in Nat
    BY TreeIs DEF TypeInv, TreeOK
  <1>3. /\ Len(entries) >= 8 /\ \A e \in 1 .. 8 : entries[e] = Kernel[e]
        /\ \A e \in 9 .. Len(entries) : \E j \in 1 .. archive.done :
              /\ j \in DOMAIN archive.records
              /\ NamesIn(entries, e) = archive.records[j].parts
              /\ entries[e].kind = archive.records[j].kind
    BY DEF BootInv, FromRecords
  <1>4. Front(record.parts) = NamesIn(entries, d)
    <2>1. NamesIn(entries, d) \in Seq(Name)
      <3>1. ParentOf(PathOf(record)) \in Path
        BY <1>1, ParentIs
      <3> QED BY <3>1, <1>1 DEF Path
    <2> DEFINE names == NamesIn(entries, d)
               last == Last(record.parts)
    <2>2. names \in Seq(Name) /\ last \in Name /\ record.parts = Append(names, last)
      BY <1>1, <2>1
    <2> HIDE DEF names, last
    <2>3. SubSeq(Append(names, last), 1, Len(Append(names, last)) - 1) = names
      BY <2>2
    <2> QED BY <2>2, <2>3 DEF Front, names
  <1> HIDE DEF d
  <1>5. CASE d \in {1, 4}
    <2>1. d \in 1 .. 8
      BY <1>5
    <2>2. entries[d].kind = Kernel[d].kind
      BY <2>1, <1>3
    <2> QED BY <2>2, <1>5, KernelIs DEF Node, d
  <1>6. CASE d \in {2, 3, 5, 6, 7, 8}
    <2>1. NamesIn(entries, d) \in DevicePaths
      <3>1. /\ entries[1].parent = 0
            /\ entries[2].parent = 1 /\ entries[3].parent = 1 /\ entries[4].parent = 1
            /\ entries[5].parent = 4 /\ entries[6].parent = 4 /\ entries[7].parent = 4
            /\ entries[8].parent = 4
            /\ entries[2].name = "stdin" /\ entries[3].name = "stdout" /\ entries[4].name = "dev"
            /\ entries[5].name = "mem" /\ entries[6].name = "zero"
            /\ entries[7].name = "tty" /\ entries[8].name = "ptmx"
        BY <1>3, KernelIs DEF Node
      <3>2. \A e \in 1 .. 8 : e \in 1 .. Len(entries)
        BY <1>2, <1>3
      <3>3. NamesIn(entries, 1) = << >>
        <4>1. 1 \in 1 .. Len(entries) /\ entries[1].parent = 0
          BY <3>1, <3>2
        <4> QED BY <4>1, <1>2, NamesIs
      <3>4. ASSUME NEW e \in 1 .. 8, entries[e].parent # 0
            PROVE  NamesIn(entries, e) = Append(NamesIn(entries, entries[e].parent), entries[e].name)
        <4>1. e \in 1 .. Len(entries)
          BY <3>2
        <4> QED BY <4>1, <3>4, <1>2, NamesIs
      <3>5. \A name : Append(<< >>, name) = <<name>>
        OBVIOUS
      <3>6. /\ NamesIn(entries, 2) = <<"stdin">> /\ NamesIn(entries, 3) = <<"stdout">>
            /\ NamesIn(entries, 4) = <<"dev">>
        <4>1. 2 \in 1 .. 8 /\ 3 \in 1 .. 8 /\ 4 \in 1 .. 8
          OBVIOUS
        <4> QED BY <4>1, <3>1, <3>3, <3>4, <3>5
      <3>7. ASSUME NEW e \in {5, 6, 7, 8}
            PROVE  NamesIn(entries, e) = Append(<<"dev">>, entries[e].name)
        <4>1. e \in 1 .. 8 /\ entries[e].parent = 4
          BY <3>1
        <4>2. entries[e].parent # 0
          BY <4>1
        <4>3. NamesIn(entries, e) = Append(NamesIn(entries, entries[e].parent), entries[e].name)
          BY <4>1, <4>2, <3>4
        <4> QED BY <4>1, <4>3, <3>6
      <3> QED BY <3>1, <3>6, <3>7, <1>6 DEF DevicePaths
    <2>2. Front(record.parts) \notin DevicePaths
      BY DEF FromTree
    <2> QED BY <2>1, <2>2, <1>4
  <1>7. CASE d \in 9 .. Len(entries)
    <2>1. PICK j \in 1 .. archive.done :
            /\ j \in DOMAIN archive.records
            /\ NamesIn(entries, d) = archive.records[j].parts
            /\ entries[d].kind = archive.records[j].kind
      BY <1>3, <1>7
    <2> QED BY <2>1, <1>4 DEF FromTree, d
  <1>8. d \in {1, 4} \/ d \in {2, 3, 5, 6, 7, 8} \/ d \in 9 .. Len(entries)
    <2>1. d \in 1 .. Len(entries)
      BY <1>1
    <2> QED BY <2>1, <1>2
  <1> QED BY <1>5, <1>6, <1>7, <1>8

\* The path of a record, from "/" on or from the root, is that of its directory and
\* its name.
LEMMA RecordPath ==
    ASSUME TypeInv, BootInv, Booting, archive.done + 1 \in DOMAIN archive.records,
           NEW record, record = archive.records[archive.done + 1], DirOf(record) # 0
    PROVE  /\ PathIn(entries, lists, Slash(record.parts), 1) = Existing(record)
           /\ PathToEntry(PathOf(record), Root) = Existing(record)
  <1> DEFINE q == ParentOf(PathOf(record))
  <1>1. /\ q.from \in {"root", "none"} /\ PathOf(record).from \in {"root", "none"}
        /\ DirOf(record) = PathIn(entries, lists, q, 1)
        /\ PathOf(record) \in Path /\ PathOf(record).parts = record.parts
        /\ record.parts # << >>
    BY RecordIs
  <1>2. /\ Len(q.parts) \in Nat /\ Len(record.parts) = Len(q.parts) + 1
        /\ \A i \in 1 .. Len(q.parts) : q.parts[i] = record.parts[i]
        /\ record.parts[Len(record.parts)] = Last(record.parts)
    BY <1>1, ParentIs
  <1>3. TreeOK(entries, lists) /\ 1 \in 1 .. Len(entries) /\ Existing(record) =
          ResolveIn(entries, lists, DirOf(record), Last(record.parts))
    BY TreeIs, LookupsAre DEF TypeInv, Existing
  <1> HIDE DEF q
  <1>4. ASSUME NEW path, path.parts = record.parts, path.from \in {"root", "none"}
        PROVE  PathIn(entries, lists, path, 1) = Existing(record)
    <2> DEFINE start == StartIn(entries, path.from, 1)
    <2>1. StartIn(entries, path.from, 1) = start /\ StartIn(entries, q.from, 1) = start
      BY <1>1, <1>4 DEF StartIn, Root
    <2> HIDE DEF start
    <2>2. /\ Len(path.parts) = Len(q.parts) + 1 /\ Len(q.parts) \in Nat
          /\ \A i \in 1 .. Len(q.parts) : q.parts[i] = path.parts[i]
      BY <1>2, <1>4
    <2>3. TreeOK(entries, lists) /\ 1 \in 1 .. Len(entries)
      BY <1>3
    <2>4. PathIn(entries, lists, path, 1) =
            IF PathIn(entries, lists, q, 1) = 0 THEN 0
            ELSE ResolveIn(entries, lists, PathIn(entries, lists, q, 1), path.parts[Len(path.parts)])
      BY <2>1, <2>2, <2>3, LastName
    <2> QED BY <2>4, <1>1, <1>2, <1>3, <1>4
  <1>5. Slash(record.parts).parts = record.parts /\ Slash(record.parts).from = "root"
    BY DEF Slash
  <1> QED BY <1>1, <1>4, <1>5, LookupsAre DEF Root

\* A record of something that is there already is of a file, and a device of the
\* kernel is there.
LEMMA ExistingIs ==
    ASSUME TypeInv, BootInv, Booting, archive.done + 1 \in DOMAIN archive.records,
           NEW record, record = archive.records[archive.done + 1], DirOf(record) # 0,
           Existing(record) # 0, ExtractFault(record) = NoPanic
    PROVE  Extracted(entries, lists, record)
  <1> DEFINE d == DirOf(record)
             x == Existing(record)
             last == Last(record.parts)
  <1>1. record.kind = "file" /\ entries[x].kind # "directory"
    <2>1. PathToEntry(PathOf(record), Root) = x
      BY RecordPath
    <2>2. record.kind = "file"
      BY <2>1 DEF ExtractFault, NoEntry, AlreadyExists, UnknownPattern, NoPanic
    <2>3. ~IsDirectory(x)
      BY <2>2 DEF ExtractFault, NullEntry, CreationFailed, CannotOpen, NoPanic
    <2> QED BY <2>2, <2>3 DEF IsDirectory, NoEntry
  <1>2. /\ d \in 1 .. Len(entries) /\ record.parts = Append(NamesIn(entries, d), last)
        /\ record \in Record
    BY RecordIs
  <1>3. /\ archive.records \in Archives /\ archive.done \in Nat
        /\ TreeOK(entries, lists) /\ NodesOK(entries) /\ Len(entries) \in Nat
    BY TreeIs DEF TypeInv, TreeOK
  <1>4. archive.records \in Seq(Record)
    BY <1>3, ArchivesAssumption
  <1>5. x = ResolveIn(entries, lists, d, last)
    BY LookupsAre DEF Existing
  <1>6. FirstNamed(entries, lists[d], last, x) /\ x \in 2 .. Len(entries)
    BY <1>2, <1>3, <1>5, ResolveIs
  <1>7. PICK i \in 1 .. Len(lists[d]) : x = lists[d][i] /\ entries[x].name = last
    BY <1>6 DEF FirstNamed
  <1>8. entries[x].kind # "socket" => entries[x].parent = d
    <2>1. \A y \in 1 .. Len(entries) : \A k \in 1 .. Len(lists[y]) :
             entries[lists[y][k]].kind # "socket" => entries[lists[y][k]].parent = y
      BY <1>3, ListsAre
    <2> HIDE DEF d, x
    <2> QED BY <2>1, <1>2, <1>7
  <1>9. /\ Len(entries) >= 8 /\ \A e \in 1 .. 8 : entries[e] = Kernel[e]
        /\ \A e \in 9 .. Len(entries) : \E j \in 1 .. archive.done :
              /\ j \in DOMAIN archive.records
              /\ NamesIn(entries, e) = archive.records[j].parts
              /\ entries[e].kind = archive.records[j].kind
    BY DEF BootInv, FromRecords
  <1> HIDE DEF d, x, last
  <1>10. ASSUME x \in 9 .. Len(entries) PROVE FALSE
    <2>1. PICK j \in 1 .. archive.done :
            /\ j \in DOMAIN archive.records
            /\ NamesIn(entries, x) = archive.records[j].parts
            /\ entries[x].kind = archive.records[j].kind
      BY <1>9, <1>10
    <2>2. entries[x].kind # "socket"
      <3>1. archive.records[j] \in Record
        BY <1>4, <2>1
      <3> QED BY <3>1, <2>1 DEF Record
    <2>3. NamesIn(entries, x) = Append(NamesIn(entries, d), last)
      <3>1. x \in 1 .. Len(entries) /\ entries[x].parent = d /\ d # 0 /\ entries[x].name = last
        BY <1>2, <1>3, <1>6, <1>7, <1>8, <2>2
      <3> QED BY <3>1, <1>3, NamesIs
    <2>4. archive.records[j].parts = archive.records[archive.done + 1].parts
      BY <1>2, <2>1, <2>3
    <2>5. j = archive.done + 1
      BY <1>3, <2>1, <2>4, ArchivesAssumption
    <2> QED BY <2>5, <1>3
  <1>11. x \in 2 .. 8
    BY <1>3, <1>6, <1>10
  <1>12. entries[x] = Kernel[x]
    BY <1>9, <1>11
  <1>13. entries[x].kind = "device"
    BY <1>1, <1>11, <1>12, KernelIs DEF x
  <1>14. PathIn(entries, lists, Slash(record.parts), 1) = x /\ x # 0
    BY RecordPath DEF x
  <1> QED BY <1>1, <1>13, <1>14 DEF Extracted

LEMMA ArchStep ==
    ASSUME TypeInv, BootInv, ArchInv, [Next]_vars
    PROVE  ArchInv'
  <1>1. /\ archive.records \in Archives /\ archive.records \in Seq(Record)
        /\ archive \in [records : Archives, done : Nat] /\ archive.done \in Nat
        /\ Len(archive.records) \in Nat
        /\ TreeOK(entries, lists)
    BY ArchivesAssumption DEF TypeInv
  <1>2. CASE UNCHANGED <<tree, archive>>
    BY <1>2 DEF ArchInv, Booting, tree
  <1>3. CASE ~Booting /\ archive' = archive
    BY <1>3 DEF ArchInv, Booting
  <1>4. CASE Extract
    <2> DEFINE record == archive.records[archive.done + 1]
    <2>1. CASE \E m : Stop(m)
      BY <2>1, <1>2 DEF Stop
    <2>2. Booting
      BY <1>1, <1>4 DEF Extract, Booting
    <2>3. ASSUME archive.done + 1 \in DOMAIN archive.records,
                 DirOf(record) \in 1 .. Len(entries), ExtractFault(record) = NoPanic,
                 \/ /\ Existing(record) = 0
                    /\ Makes(DirOf(record), Last(record.parts), record.kind, record.link)
                 \/ /\ entries[DirOf(record)].kind # "directory" \/ Existing(record) # 0
                    /\ UNCHANGED tree,
                 archive' = [archive EXCEPT !.done = @ + 1],
                 FromTree(archive.records)
          PROVE  \A i \in 1 .. archive'.done :
                    /\ i \in DOMAIN archive'.records
                    /\ Extracted(entries', lists', archive'.records[i])
      <3>1. archive'.records = archive.records /\ archive'.done = archive.done + 1
        BY <2>3, <1>1
      <3>2. DirOf(record) # 0
        BY <2>3
      <3>3. entries[DirOf(record)].kind = "directory"
        BY <2>2, <2>3, <3>2, BelowDirectory
      <3>5. Extracted(entries', lists', record)
        <4>1. CASE /\ Existing(record) = 0
                   /\ Makes(DirOf(record), Last(record.parts), record.kind, record.link)
          BY <4>1, <2>2, <2>3, <3>2, RecordMade
        <4>2. CASE Existing(record) # 0 /\ UNCHANGED tree
          <5>1. Extracted(entries, lists, record)
            BY <4>2, <2>2, <2>3, <3>2, ExistingIs
          <5> QED BY <5>1, <4>2 DEF tree
        <4> QED BY <4>1, <4>2, <2>3, <3>3
      <3>6. /\ TreeOK(entries', lists')
            /\ Keeps(entries, lists, entries', lists', 1 .. Len(entries))
        <4>1. CASE Makes(DirOf(record), Last(record.parts), record.kind, record.link)
          BY <4>1, <1>1, Made DEF TreeStep
        <4>2. CASE UNCHANGED tree
          <5>1. Len(entries) \in Nat
            BY <1>1, TreeIs
          <5> QED BY <5>1, <4>2, <1>1 DEF Keeps, DirectoriesOf, tree
        <4> QED BY <4>1, <4>2, <2>3
      <3>7. ASSUME NEW i \in 1 .. archive.done
            PROVE  /\ i \in DOMAIN archive.records
                   /\ Extracted(entries', lists', archive.records[i])
        <4>1. i \in DOMAIN archive.records /\ Extracted(entries, lists, archive.records[i])
          BY <2>2, <2>3 DEF ArchInv
        <4>2. archive.records[i] \in Record
          BY <4>1, <1>1
        <4> QED BY <4>1, <4>2, <1>1, <3>6, StillExtracted
      <3>8. \A i \in 1 .. archive.done + 1 : i \in 1 .. archive.done \/ i = archive.done + 1
        BY <1>1
      <3> QED BY <2>3, <3>1, <3>5, <3>7, <3>8
    <2>4. archive' = [archive EXCEPT !.done = @ + 1] => archive'.records = archive.records
      BY <1>1
    <2> HIDE DEF record
    <2>5. \/ \E m : Stop(m)
          \/ /\ archive.done + 1 \in DOMAIN archive.records
             /\ DirOf(record) \in 1 .. Len(entries) /\ ExtractFault(record) = NoPanic
             /\ \/ /\ Existing(record) = 0
                   /\ Makes(DirOf(record), Last(record.parts), record.kind, record.link)
                \/ /\ entries[DirOf(record)].kind # "directory" \/ Existing(record) # 0
                   /\ UNCHANGED tree
             /\ archive' = [archive EXCEPT !.done = @ + 1]
      BY <1>4, ExtractIs DEF record
    <2> QED BY <2>1, <2>3, <2>4, <2>5 DEF ArchInv
  <1>5. CASE Load
    <2>1. archive'.records = archive.records /\ archive'.done = archive.done + 1
      BY <1>1, <1>5 DEF Load
    <2>2. ~(archive'.done <= Len(archive'.records))
      BY <2>1, <1>1, <1>5 DEF Load
    <2> QED BY <2>2 DEF ArchInv, Booting
  <1>6. ASSUME NEW p \in Process, Moves(p) PROVE ArchInv'
    BY <1>2, <1>6 DEF Moves, Stop, Waits
  <1>7. ASSUME NEW p \in Process, Create(p) PROVE ArchInv'
    BY <1>3, <1>7 DEF Create, At
  <1>7a. ASSUME NEW p \in Process, NEW q \in Process, Meet(p, q) PROVE ArchInv'
    BY <1>2, <1>7a DEF Meet
  <1>8. ASSUME NEW p \in Process, RemoveFile(p) PROVE ArchInv'
    BY <1>2, <1>3, <1>8 DEF RemoveFile, At, Stop
  <1>9. ASSUME NEW p \in Process, NEW path \in Places, Chdir(p, path) \/ Opendir(p, path)
        PROVE  ArchInv'
    BY <1>2, <1>9 DEF Chdir, Opendir, Stop
  <1>10. ASSUME NEW p \in Process, Readdir(p) \/ Closedir(p) PROVE ArchInv'
    BY <1>2, <1>10 DEF Readdir, Closedir, Stop
  <1>11. CASE UNCHANGED vars
    BY <1>2, <1>11 DEF vars
  <1> QED BY <1>4, <1>5, <1>6, <1>7, <1>7a, <1>8, <1>9, <1>10, <1>11, Steps

\* Of an archive that was made from a tree, boot extracts every record to its path
\* (cpio.cpp), though it makes files below "/" and the others where the first
\* process is.
THEOREM EveryRecord == Spec => [](FromTree(archive.records) => ArchiveExtracted)
  <1>1. Init => ArchInv
    <2>1. ASSUME Init PROVE archive.done = 0
      BY <2>1 DEF Init
    <2> QED BY <2>1 DEF ArchInv
  <1>2. NameInv /\ ArchInv /\ [Next]_vars => ArchInv'
    BY ArchStep DEF NameInv
  <1>3. ASSUME ArchInv PROVE FromTree(archive.records) => ArchiveExtracted
    <2>1. \A record : PathToEntry(Slash(record.parts), Root)
                        = PathIn(entries, lists, Slash(record.parts), 1)
      BY LookupsAre DEF Root
    <2> QED BY <1>3, <2>1 DEF ArchInv, ArchiveExtracted, Extracted, NoEntry
  <1> QED BY <1>1, <1>2, <1>3, Named, PTL DEF Spec
=============================================================================
